---------------------------- MODULE SourceFetch ----------------------------
(***************************************************************************)
(* infrastructure/freeweight_client.py: what asking an evidence source for *)
(* a bundle comes to.  A source's behaviour during one pull is a record:   *)
(*   url      what check_url sees of the configured URL                    *)
(*   version  its answer to GET /version: a status, or None when nothing   *)
(*            answers, with the API majors it names (None: not a document) *)
(*   hops     its answers to GET /evidence/export, redirects first         *)
(* The outcome is "fetched" or the exception that is raised: one of the    *)
(* client's three classes, or a transport error it does not translate.     *)
(***************************************************************************)
EXTENDS Integers, Sequences, FiniteSets, FiniteSetsExt

CONSTANTS AllowedHosts,   \* evidence.allowed_source_hosts
          MaxRedirects,   \* FetchPolicy.max_redirects
          MaxBytes        \* FetchPolicy.max_bytes, the transfer cap

ASSUME FetchAssumption == MaxRedirects \in Nat /\ MaxBytes \in Nat

\* A document, one of the three exceptions, or another.
Outcomes == {"fetched", "refused", "unreachable", "incompatible", "escaped"}

\* check_url: parse, scheme, host, allowlist, addresses, in that order; any
\* failure is a refusal.
CheckUrl(u) ==
    /\ u.scheme \in {"http", "https"}
    /\ u.host \in AllowedHosts
    /\ ~u.link_local

\* FreeWeightClient.version and _parse_version (the client of a pull is new,
\* so its cache is empty): no endpoint and no document are incompatible, an
\* error status is unreachable.
Version(url, answer) ==
    IF ~CheckUrl(url) THEN "refused"
    ELSE IF answer.status = 404 THEN "incompatible"
    ELSE IF answer.status \notin 200 .. 399 THEN "unreachable"
    ELSE IF "v1" \notin answer.supported THEN "incompatible"
    ELSE "negotiated"

\* _next_hop, for the n-th answer: a redirect that may not be followed.
HopRefused(url, hops, n) ==
    \/ n > MaxRedirects
    \/ hops[n].location.host # url.host
    \/ ~CheckUrl(hops[n].location)

\* _check_content_type: a document that says it is JSON.
ContentTypeAccepted(answer) == answer.json

\* _read: the head first, then the body under the cap, unless the connection
\* is lost before it passes the cap; nothing translates that error.
Read(answer) ==
    IF answer.status >= 400 THEN "unreachable"
    ELSE IF ~ContentTypeAccepted(answer) \/ answer.bytes > MaxBytes THEN "refused"
    ELSE IF answer.cut THEN "escaped"
    ELSE "fetched"

\* fetch: redirects are followed until one is refused, nothing answers, or
\* an answer is read.
Fetch(url, hops) ==
    LET redirect(n) == hops[n].status \in 300 .. 399
        last == Min({n \in 1 .. Len(hops) : ~redirect(n) \/ HopRefused(url, hops, n)})
    IN  IF hops[last].status = 0 THEN "unreachable"
        ELSE IF redirect(last) THEN "refused"
        ELSE Read(hops[last])

\* refresh_from_freeweight's try block: the version is negotiated before any
\* evidence is read.
PullOutcome(answer) ==
    LET negotiated == Version(answer.url, answer.version)
    IN  IF negotiated = "negotiated" THEN Fetch(answer.url, answer.hops) ELSE negotiated
=============================================================================

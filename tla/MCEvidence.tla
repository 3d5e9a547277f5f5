----------------------------- MODULE MCEvidence -----------------------------
(***************************************************************************)
(* One model name, known with and without a digest; evidence of the name   *)
(* alone, in a bundle written by hand, and of the model under an adapter,  *)
(* from the producer; an answer of the source that is followed and read,   *)
(* one that is refused, one that is cut off and one that never comes.      *)
(***************************************************************************)
EXTENDS EvidenceStore

CONSTANTS bare, adapted, refresh, request

MCIdentity ==
    [k \in {bare, adapted} |->
        [kind |-> "ollama", name |-> "m",
         digest  |-> IF k = bare THEN None ELSE "d1",
         adapter |-> IF k = adapted THEN "a1" ELSE None]]

MCCapability == [k \in {bare, adapted} |-> IF k = adapted THEN "speed" ELSE "coding"]

MCMeasuredAt == [k \in {bare, adapted} |-> -1]

MCManual ==
    [source |-> "manual", major |-> 1, complete |-> TRUE, generated |-> 0,
     records |-> <<[key |-> adapted, version |-> 0, valid |-> FALSE],
                   [key |-> bare, version |-> 0, valid |-> TRUE],
                   [key |-> bare, version |-> 1, valid |-> TRUE]>>]

\* A saved export has everything, or leaves out what the producer measures.
MCFilters == {{bare, adapted}, {bare}}

Local  == [scheme |-> "http", host |-> "here", link_local |-> FALSE]
Away   == [Local EXCEPT !.host = "there"]
Speaks == [status |-> 200, supported |-> {"v1"}]
Page(status) == [status |-> status, location |-> Local, json |-> TRUE, bytes |-> 1, cut |-> FALSE]

MCAnswers ==
    {[url |-> Local, version |-> Speaks, hops |-> <<Page(302), Page(200)>>],
     [url |-> Local, version |-> Speaks, hops |-> <<[Page(302) EXCEPT !.location = Away]>>],
     [url |-> Local, version |-> Speaks, hops |-> <<[Page(200) EXCEPT !.cut = TRUE]>>],
     [url |-> Local, version |-> Speaks, hops |-> <<Page(0)>>]}

Listing(served) == <<[name |-> "local", kind |-> "ollama", models |-> served]>>

MCListings ==
    {<<>>,
     Listing(<<[kind |-> "ollama", name |-> "m", digest |-> None]>>),
     Listing(<<[kind |-> "ollama", name |-> "m", digest |-> "d1"]>>)}

\* The hypothesis of the theorem about BindingsSound.
ASSUME ListingsAssumption == OneBuildPerName

\* The registration is enabled or not.
MCConfigurations == {{}, {"local"}}

MCDirectories == {{"a1"}}

\* The manual row first and last.
MCOrders ==
    LET ids(s) == <<<<s, bare>>, <<s, adapted>>>>
    IN  {ids("manual") \o ids("fw"), ids("fw") \o ids("manual")}
=============================================================================

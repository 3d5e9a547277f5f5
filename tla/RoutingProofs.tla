------------------------ MODULE RoutingProofs ------------------------
(***************************************************************************)
(* Proofs about EvidenceStore, for any measurements, sources, registrations,*)
(* adapter directories and number of overlapping pulls, and about Dispatch,*)
(* for any stored facts, requests and machines.                            *)
(*                                                                         *)
(* The loops of the code are folds.  A fold is a choice of a function that *)
(* satisfies a recursive equation; the first part shows that there is one  *)
(* and how to reason along it.  For the store: what binding does to a      *)
(* registry, what the loops of discover_models, rebind_evidence_in and     *)
(* _write leave, and one lemma per action.  For a job: what the loops of   *)
(* _read_candidates, rank_candidates and route() put together, what the    *)
(* hard constraints say of a candidate, what its scores rest on, and one   *)
(* lemma per action.                                                       *)
(***************************************************************************)
EXTENDS EvidenceStore, Dispatch, FiniteSetTheorems, SequenceTheorems,
        WellFoundedInduction, TLAPS

-----------------------------------------------------------------------------
(* Loops.                                                                  *)

\* Some natural numbers have a least one.
LEMMA LeastOf ==
  ASSUME NEW N, N \subseteq Nat, N # {}
  PROVE  \E n \in N : \A m \in N : n <= m
  <1>1. PICK n \in N : \A m \in N : ~(<<m, n>> \in OpToRel(<, Nat))
    BY NatLessThanWellFounded, WFMin, Zenon
  <1>2. \A m \in N : ~(m < n)
    BY <1>1 DEF OpToRel
  <1>3. \A m \in N : n <= m
    BY <1>2
  <1> QED BY <1>3

\* A set that holds nought and, with a number, the next one holds every number
\* up to a bound.
LEMMA Counting ==
  ASSUME NEW n \in Nat, NEW T, 0 \in T, \A m \in 0 .. n - 1 : m \in T => m + 1 \in T
  PROVE  \A m \in 0 .. n : m \in T
  <1> DEFINE N == {m \in 0 .. n : m \notin T}
  <1> SUFFICES ASSUME N # {} PROVE FALSE
    OBVIOUS
  <1>1. PICK m \in N : \A k \in N : m <= k
    <2>1. N \subseteq Nat
      OBVIOUS
    <2> HIDE DEF N
    <2> QED BY <2>1, LeastOf
  <1>2. m # 0 /\ m \in 0 .. n /\ m \notin T
    BY <1>1
  <1>3. m - 1 \in 0 .. n - 1 /\ m - 1 \notin N
    BY <1>1, <1>2
  <1>4. m - 1 \in T
    BY <1>3
  <1>5. (m - 1) + 1 \in T /\ (m - 1) + 1 = m
    BY <1>2, <1>3, <1>4
  <1> QED BY <1>2, <1>5

\* The largest place of a part of 1 .. n.
LEMMA LastPlace ==
  ASSUME NEW n \in Nat, NEW s \in SUBSET (1 .. n), s # {}
  PROVE  Max(s) \in s /\ \A i \in s : i <= Max(s)
  <1> DEFINE N == {k \in Nat : n - k \in s}
  <1>1. PICK k \in N : \A j \in N : k <= j
    <2>1. N \subseteq Nat
      OBVIOUS
    <2>2. PICK i \in s : TRUE
      OBVIOUS
    <2>3. n - i \in Nat /\ n - (n - i) = i
      BY <2>2
    <2>4. n - i \in N
      BY <2>2, <2>3
    <2> HIDE DEF N
    <2> QED BY <2>1, <2>4, LeastOf
  <1>2. ASSUME NEW i \in s PROVE i <= n - k
    <2>1. n - i \in Nat /\ n - (n - i) = i
      OBVIOUS
    <2>2. n - i \in N
      BY <2>1
    <2>3. k <= n - i /\ k \in Nat
      BY <1>1, <2>2
    <2> QED BY <2>1, <2>3
  <1>3. n - k \in s /\ \A i \in s : n - k >= i
    BY <1>1, <1>2
  <1>4. Max(s) \in s /\ \A i \in s : Max(s) >= i
    BY <1>3, Zenon DEF Max
  <1> QED BY <1>4

\* What a loop over the places 1 .. n computes, for each part of them.
IsLoop(f, X, base, F, n) ==
    /\ f \in [SUBSET (1 .. n) -> X]
    /\ f[{}] = base
    /\ \A s \in SUBSET (1 .. n) : s # {} => f[s] = F[<<f[s \ {Max(s)}], Max(s)>>]

\* There is such a function, if a pass of the loop stays in X.
LEMMA LoopExists ==
  ASSUME NEW n \in Nat, NEW X, NEW base \in X, NEW F \in [X \X (1 .. n) -> X]
  PROVE  \E f : IsLoop(f, X, base, F, n)
  <1> DEFINE T == {m \in 0 .. n : \E f : IsLoop(f, X, base, F, m)}
  <1>1. 0 \in T
    <2> DEFINE f == [s \in SUBSET (1 .. 0) |-> base]
    <2>1. IsLoop(f, X, base, F, 0)
      <3>1. 1 .. 0 = {}
        OBVIOUS
      <3> QED BY <3>1 DEF IsLoop
    <2> QED BY <2>1
  <1>2. ASSUME NEW m \in 0 .. n - 1, m \in T PROVE m + 1 \in T
    <2>1. PICK f : IsLoop(f, X, base, F, m)
      BY <1>2
    <2> DEFINE g == [s \in SUBSET (1 .. m + 1) |->
                        IF m + 1 \in s THEN F[<<f[s \ {m + 1}], m + 1>>] ELSE f[s]]
    <2>2. m \in Nat /\ m + 1 \in Nat /\ m + 1 \in 1 .. n
      OBVIOUS
    <2>3. \A s \in SUBSET (1 .. m + 1) :
             /\ s \ {m + 1} \in SUBSET (1 .. m)
             /\ m + 1 \notin s => s \in SUBSET (1 .. m)
      BY <2>2
    <2>4. \A s \in SUBSET (1 .. m) : f[s] \in X
      BY <2>1 DEF IsLoop
    <2>5. g \in [SUBSET (1 .. m + 1) -> X]
      BY <2>2, <2>3, <2>4
    <2>6. g[{}] = base
      BY <2>1 DEF IsLoop
    <2>7. ASSUME NEW s \in SUBSET (1 .. m + 1), s # {}
          PROVE  g[s] = F[<<g[s \ {Max(s)}], Max(s)>>]
      <3>1. Max(s) \in s /\ \A i \in s : i <= Max(s)
        <4>1. m + 1 \in Nat
          BY <2>2
        <4> HIDE DEF g, T
        <4> QED BY <2>7, <4>1, LastPlace
      <3>2. s \ {Max(s)} \in SUBSET (1 .. m + 1)
        OBVIOUS
      <3>3. CASE m + 1 \in s
        <4>1. Max(s) = m + 1
          <5>1. Max(s) \in 1 .. m + 1 /\ m + 1 <= Max(s)
            BY <3>1, <3>3
          <5> HIDE DEF g, T
          <5> QED BY <2>2, <5>1
        <4>2. g[s \ {m + 1}] = f[s \ {m + 1}]
          BY <2>3
        <4> QED BY <3>3, <4>1, <4>2
      <3>4. CASE m + 1 \notin s
        <4>1. s \in SUBSET (1 .. m) /\ g[s] = f[s]
          BY <2>3, <3>4
        <4>2. g[s \ {Max(s)}] = f[s \ {Max(s)}]
          BY <3>2, <3>4
        <4> QED BY <2>1, <2>7, <4>1, <4>2 DEF IsLoop
      <3> QED BY <3>3, <3>4
    <2> HIDE DEF g
    <2>8. IsLoop(g, X, base, F, m + 1)
      BY <2>5, <2>6, <2>7 DEF IsLoop
    <2> QED BY <2>2, <2>8
  <1> HIDE DEF T
  <1>3. n \in T
    BY <1>1, <1>2, Counting
  <1> QED BY <1>3 DEF T

\* Induction along a loop: a set with the empty part and, for each part of the
\* places, with all but its last place the part itself, holds every part.
LEMMA Parts ==
  ASSUME NEW n \in Nat, NEW T, {} \in T,
         \A s \in SUBSET (1 .. n) : s # {} /\ s \ {Max(s)} \in T => s \in T
  PROVE  \A s \in SUBSET (1 .. n) : s \in T
  <1> DEFINE N == {m \in 0 .. n : \A s \in SUBSET (1 .. m) : s \in T}
  <1>1. 0 \in N
    <2>1. ASSUME NEW s \in SUBSET (1 .. 0) PROVE s \in T
      <3>1. s = {}
        OBVIOUS
      <3> QED BY <3>1
    <2> QED BY <2>1
  <1>2. ASSUME NEW m \in 0 .. n - 1, m \in N PROVE m + 1 \in N
    <2>1. ASSUME NEW s \in SUBSET (1 .. m + 1) PROVE s \in T
      <3>1. CASE m + 1 \in s
        <4>1. Max(s) \in s /\ \A i \in s : i <= Max(s)
          BY <3>1, LastPlace
        <4>2. Max(s) = m + 1
          <5>1. Max(s) \in 1 .. m + 1 /\ m + 1 <= Max(s)
            BY <3>1, <4>1
          <5> HIDE DEF N
          <5> QED BY <5>1
        <4>3. s \ {Max(s)} \in SUBSET (1 .. m) /\ s \in SUBSET (1 .. n)
          BY <4>2
        <4> QED BY <1>2, <3>1, <4>3
      <3>2. CASE m + 1 \notin s
        <4>1. s \in SUBSET (1 .. m)
          BY <3>2
        <4> QED BY <1>2, <4>1
      <3> QED BY <3>1, <3>2
    <2> QED BY <2>1
  <1> HIDE DEF N
  <1>3. n \in N
    BY <1>1, <1>2, Counting
  <1> QED BY <1>3 DEF N
\* The least of some natural numbers.
LEMMA MinOf ==
  ASSUME NEW N, N \subseteq Nat, N # {}
  PROVE  Min(N) \in N /\ \A m \in N : Min(N) <= m
  <1>1. PICK n \in N : \A m \in N : n <= m
    BY LeastOf
  <1> QED BY <1>1, Zenon DEF Min

-----------------------------------------------------------------------------
(* Registries.                                                             *)

\* Every row of R is in S, with its name and, if it was known, its digest.
Kept(R, S) ==
    \A m \in R : \E n \in S : /\ n.id = m.id /\ n.kind = m.kind /\ n.name = m.name
                              /\ m.digest # None => n.digest = m.digest

\* Rows are never lost along two steps either.
LEMMA KeptTwice ==
  ASSUME NEW R, NEW S, NEW T, Kept(R, S), Kept(S, T)
  PROVE  Kept(R, T)
  <1> SUFFICES ASSUME NEW m \in R
               PROVE  \E n \in T : /\ n.id = m.id /\ n.kind = m.kind /\ n.name = m.name
                                   /\ m.digest # None => n.digest = m.digest
    BY DEF Kept
  <1>1. PICK s \in S : /\ s.id = m.id /\ s.kind = m.kind /\ s.name = m.name
                       /\ m.digest # None => s.digest = m.digest
    BY DEF Kept
  <1>2. PICK n \in T : /\ n.id = s.id /\ n.kind = s.kind /\ n.name = s.name
                       /\ s.digest # None => n.digest = s.digest
    BY DEF Kept
  <1> QED BY <1>1, <1>2

\* A registry whose rows change but keep their ids is as large as before.
LEMMA Renumbered ==
  ASSUME NEW R, RegistryOK(R), NEW S, S \subseteq ModelRows,
         \A m \in R : \E n \in S : n.id = m.id,
         \A n \in S : \E m \in R : m.id = n.id,
         \A m, n \in S : m.id = n.id \/ CanonicalId(m) = CanonicalId(n) => m = n
  PROVE  RegistryOK(S) /\ Cardinality(S) = Cardinality(R)
  <1> DEFINE f == [m \in R |-> CHOOSE n \in S : n.id = m.id]
  <1>1. \A m \in R : f[m] \in S /\ f[m].id = m.id
    OBVIOUS
  <1>2. f \in [R -> S]
    BY <1>1
  <1>3. \A m, n \in R : f[m] = f[n] => m = n
    BY <1>1 DEF RegistryOK
  <1>4. \A n \in S : \E m \in R : f[m] = n
    BY <1>1
  <1> HIDE DEF f
  <1>5. f \in Bijection(R, S)
    BY <1>2, <1>3, <1>4 DEF Bijection, Injection, Surjection, IsInjective
  <1>6. IsFiniteSet(S) /\ Cardinality(S) = Cardinality(R)
    BY <1>5, FS_Bijection DEF RegistryOK, ExistsBijection
  <1> QED BY <1>6 DEF RegistryOK

\* The rows a subject is compared with.
Exact(R, k) == {m \in R : CanonicalId(m) = CanonicalId(Identity[k])}
NameOnly(R, k) == {m \in R : /\ m.kind = Identity[k].kind /\ m.name = Identity[k].name
                             /\ m.digest = None}
Loaded(known, k) == {a \in known : a.digest = Identity[k].adapter}

\* bind_identity says "bound" on an exact row, or on one known by name only,
\* which it then upgrades; and only with the adapter the subject names.
LEMMA Binds ==
  ASSUME NEW R, NEW known, NEW k \in Keys
  PROVE  LET b == BindingOf(k, R, known)
         IN  /\ b = [state |-> b.state, model |-> b.model, adapter |-> b.adapter,
                     upgrade |-> b.upgrade]
             /\ b.state \in States
             /\ b.state = "bound" <=>
                   /\ Exact(R, k) # {} \/ (Identity[k].digest # None /\ NameOnly(R, k) # {})
                   /\ Identity[k].adapter = None \/ Loaded(known, k) # {}
             /\ b.state # "bound" => b.model = None /\ b.adapter = None /\ b.upgrade = None
             /\ b.state = "bound" =>
                   IF Exact(R, k) # {}
                   THEN b.upgrade = None /\ \E m \in Exact(R, k) : b.model = m.id
                   ELSE /\ b.upgrade = Identity[k].digest
                        /\ \E m \in NameOnly(R, k) : b.model = m.id
             /\ b.state = "bound" =>
                   IF Identity[k].adapter = None THEN b.adapter = None
                   ELSE \E a \in Loaded(known, k) : b.adapter = a.id
  <1> DEFINE i     == Identity[k]
             named == {r \in R : r.kind = i.kind /\ r.name = i.name}
             exact == {r \in named : r.digest = i.digest}
             only  == {r \in named : r.digest = None}
             found == {a \in known : a.digest = i.adapter}
             base  == BindBase(i, R)
  <1>1. exact = Exact(R, k) /\ only = NameOnly(R, k) /\ found = Loaded(known, k)
    BY DEF Exact, NameOnly, Loaded, CanonicalId
  <1>2. /\ exact # {} => (CHOOSE r \in exact : TRUE) \in exact
        /\ only # {} => (CHOOSE r \in only : TRUE) \in only
        /\ found # {} => (CHOOSE a \in found : TRUE) \in found
    OBVIOUS
  <1>3. base = IF exact # {} THEN Bound((CHOOSE r \in exact : TRUE).id, None, None)
               ELSE IF i.digest # None /\ only # {}
               THEN Bound((CHOOSE r \in only : TRUE).id, None, i.digest)
               ELSE IF i.digest = None /\ named # {}
               THEN [Unmatched EXCEPT !.state = "ambiguous_name_only"]
               ELSE Unmatched
    BY Zenon DEF BindBase
  <1>4. BindingOf(k, R, known) =
          IF i.adapter = None THEN base
          ELSE IF found = {} THEN Unmatched
          ELSE IF base.state # "bound" THEN [Unmatched EXCEPT !.state = base.state]
          ELSE [base EXCEPT !.adapter = (CHOOSE a \in found : TRUE).id]
    BY Zenon DEF BindingOf, BindIdentity
  <1> HIDE DEF i, named, exact, only, found, base
  <1>5. /\ base = [state |-> base.state, model |-> base.model, adapter |-> base.adapter,
                   upgrade |-> base.upgrade]
        /\ base.state \in States /\ base.adapter = None
        /\ base.state = "bound" <=> exact # {} \/ (i.digest # None /\ only # {})
        /\ base.state # "bound" => base.model = None /\ base.upgrade = None
        /\ exact # {} => base.upgrade = None /\ \E m \in exact : base.model = m.id
        /\ base.state = "bound" /\ exact = {} =>
              base.upgrade = i.digest /\ \E m \in only : base.model = m.id
    BY <1>2, <1>3 DEF Bound, Unmatched, States
  <1>6. Unmatched = [state |-> "unmatched", model |-> None, adapter |-> None, upgrade |-> None]
    BY DEF Unmatched
  <1> DEFINE b == BindingOf(k, R, known)
  <1>7. CASE i.adapter = None
    <2>1. b = base
      BY <1>4, <1>7
    <2> QED BY <1>1, <1>5, <1>7, <2>1 DEF i
  <1>8. CASE i.adapter # None /\ found # {} /\ base.state = "bound"
    <2>1. b = [base EXCEPT !.adapter = (CHOOSE a \in found : TRUE).id]
      BY <1>4, <1>8
    <2> HIDE DEF b
    <2>2. /\ b = [state |-> base.state, model |-> base.model, adapter |-> b.adapter,
                  upgrade |-> base.upgrade]
          /\ b.adapter = (CHOOSE a \in found : TRUE).id
          /\ b.state = base.state /\ b.model = base.model /\ b.upgrade = base.upgrade
      BY <1>5, <2>1
    <2> QED BY <1>1, <1>2, <1>5, <1>8, <2>2 DEF i, b
  <1>9. CASE i.adapter # None /\ (found = {} \/ base.state # "bound")
    <2>1. \/ b = Unmatched /\ found = {}
          \/ b = [Unmatched EXCEPT !.state = base.state] /\ base.state # "bound"
      BY <1>4, <1>9
    <2> HIDE DEF b
    <2>2. /\ b = [state |-> b.state, model |-> None, adapter |-> None, upgrade |-> None]
          /\ b.state \in States /\ b.state # "bound"
      BY <1>5, <1>6, <2>1 DEF States
    <2> QED BY <1>1, <1>5, <1>9, <2>2 DEF i, b
  <1> QED BY <1>7, <1>8, <1>9

\* A row of the registry that takes a digest.
LEMMA Digested ==
  ASSUME NEW m \in ModelRows, NEW k \in Keys
  PROVE  LET n == [m EXCEPT !.digest = Identity[k].digest]
         IN  /\ n \in ModelRows /\ n.digest = Identity[k].digest /\ n.id = m.id
             /\ n.kind = m.kind /\ n.name = m.name /\ n.available = m.available
  BY DEF ModelRows

\* Upgrading by a binding renames at most the row it found by name only: no
\* row is lost or counted twice, and the binding is to what was measured.
LEMMA Upgrades ==
  ASSUME NEW R, RegistryOK(R), NEW known, NEW k \in Keys, NEW b,
         b = BindingOf(k, R, known)
  PROVE  LET S == Upgraded(R, b)
         IN  /\ RegistryOK(S) /\ Kept(R, S)
             /\ \A n \in S : \E m \in R : /\ n.id = m.id /\ n.kind = m.kind /\ n.name = m.name
                                          /\ n.available = m.available
             /\ b.state = "bound" =>
                   \E n \in S : /\ n.id = b.model /\ n.kind = Identity[k].kind
                                /\ n.name = Identity[k].name
                                /\ Identity[k].digest # None => n.digest = Identity[k].digest
             /\ b.upgrade = None => S = R
             /\ b.upgrade # None => \E m \in R, n \in S :
                   m.id = n.id /\ m.digest = None /\ n.digest # None
  <1> DEFINE S == Upgraded(R, b)
  <1>1. CASE b.upgrade = None
    <2>1. S = R
      BY <1>1, Zenon DEF Upgraded
    <2>2. Kept(R, S)
      BY <2>1 DEF Kept
    <2>3. b.state = "bound" =>
             \E n \in R : /\ n.id = b.model /\ n.kind = Identity[k].kind
                          /\ n.name = Identity[k].name
                          /\ Identity[k].digest # None => n.digest = Identity[k].digest
      <3> SUFFICES ASSUME b.state = "bound"
                   PROVE  \E n \in R :
                             /\ n.id = b.model /\ n.kind = Identity[k].kind
                             /\ n.name = Identity[k].name
                             /\ Identity[k].digest # None => n.digest = Identity[k].digest
        OBVIOUS
      <3>1. CASE Exact(R, k) # {}
        <4>1. PICK m \in Exact(R, k) : b.model = m.id
          BY <3>1, Binds
        <4> QED BY <4>1 DEF Exact, CanonicalId
      <3>2. CASE Exact(R, k) = {}
        <4>1. Identity[k].digest = None /\ \E m \in NameOnly(R, k) : b.model = m.id
          BY <1>1, <3>2, Binds
        <4> QED BY <4>1 DEF NameOnly
      <3> QED BY <3>1, <3>2
    <2> HIDE DEF S
    <2> QED BY <1>1, <2>1, <2>2, <2>3 DEF S
  <1>2. CASE b.upgrade # None
    <2>1. /\ b.state = "bound" /\ Exact(R, k) = {} /\ b.upgrade = Identity[k].digest
          /\ \E m \in NameOnly(R, k) : b.model = m.id
      BY <1>2, Binds
    <2>2. PICK m \in R : /\ m.id = b.model /\ m.kind = Identity[k].kind
                         /\ m.name = Identity[k].name /\ m.digest = None
      BY <2>1 DEF NameOnly
    <2> DEFINE u == [m EXCEPT !.digest = Identity[k].digest]
    <2>3. /\ u \in ModelRows /\ u.digest = Identity[k].digest /\ u.id = m.id
          /\ u.kind = m.kind /\ u.name = m.name /\ u.available = m.available
      BY Digested DEF RegistryOK
    <2>4. S = {IF n.id = b.model /\ n.digest = None
               THEN [n EXCEPT !.digest = Identity[k].digest] ELSE n : n \in R}
      BY <1>2, <2>1 DEF Upgraded
    <2>5. \A n \in R : n.id = b.model => n = m
      BY <2>2 DEF RegistryOK
    <2>6. S = (R \ {m}) \cup {u}
      <3>1. \A n \in R \ {m} : n \in S
        BY <2>4, <2>5
      <3>2. u \in S
        BY <2>2, <2>4
      <3>3. \A n \in S : n \in (R \ {m}) \cup {u}
        BY <2>2, <2>4, <2>5
      <3> QED BY <3>1, <3>2, <3>3
    <2> HIDE DEF u, S
    <2>7. \A n \in R : n.kind = u.kind /\ n.name = u.name => n.digest # u.digest
      BY <2>1, <2>2, <2>3 DEF Exact, CanonicalId
    <2>8. \A n, o \in S : n.id = o.id \/ CanonicalId(n) = CanonicalId(o) => n = o
      <3>1. \A n \in R \ {m} : n.id # u.id /\ CanonicalId(n) # CanonicalId(u)
        BY <2>2, <2>3, <2>5, <2>7 DEF CanonicalId
      <3> QED BY <2>6, <3>1 DEF RegistryOK
    <2>9. /\ S \subseteq ModelRows
          /\ \A n \in R : \E o \in S : o.id = n.id
          /\ \A o \in S : \E n \in R : n.id = o.id
      BY <2>2, <2>3, <2>6 DEF RegistryOK
    <2>10. RegistryOK(S)
      BY <2>8, <2>9, Renumbered
    <2>11. Kept(R, S)
      <3> SUFFICES ASSUME NEW n \in R
                   PROVE  \E o \in S : /\ o.id = n.id /\ o.kind = n.kind /\ o.name = n.name
                                       /\ n.digest # None => o.digest = n.digest
        BY DEF Kept
      <3>1. CASE n = m
        BY <2>2, <2>3, <2>6, <3>1
      <3>2. CASE n # m
        BY <2>6, <3>2
      <3> QED BY <3>1, <3>2
    <2>12. \A n \in S : \E o \in R : /\ n.id = o.id /\ n.kind = o.kind /\ n.name = o.name
                                     /\ n.available = o.available
      BY <2>2, <2>3, <2>6
    <2>13. u \in S
      BY <2>6
    <2> QED BY <1>2, <2>1, <2>2, <2>3, <2>10, <2>11, <2>12, <2>13 DEF S
  <1> QED BY <1>1, <1>2

-----------------------------------------------------------------------------
(* Discovery.                                                              *)

\* A row as a sighting leaves it.
LEMMA Sighted ==
  ASSUME NEW listed \in Listings, NEW i \in DOMAIN listed,
         NEW seen \in ToSet(listed[i].models), NEW id \in Nat
  PROVE  LET row == ModelRow(id, seen, listed[i].name)
         IN  /\ row \in ModelRows /\ row.id = id /\ CanonicalId(row) = CanonicalId(seen)
             /\ row.kind = seen.kind /\ row.name = seen.name /\ row.digest = seen.digest
  <1>1. seen \in SeenModels(listed)
    BY DEF SeenModels
  <1> QED BY <1>1 DEF ModelRow, ModelRows, CanonicalId

\* _upsert_model loses no row and makes no second one for an id or an identity.
LEMMA Upserts ==
  ASSUME NEW R, RegistryOK(R), NEW listed \in Listings, NEW i \in DOMAIN listed,
         NEW seen \in ToSet(listed[i].models)
  PROVE  LET S == UpsertModel(R, seen, listed[i].name)
         IN  /\ RegistryOK(S) /\ Kept(R, S)
             /\ \A n \in S : n \in R \/ CanonicalId(n) = CanonicalId(seen)
  <1> DEFINE exact == {m \in R : CanonicalId(m) = CanonicalId(seen)}
             sibling == {m \in R : /\ seen.digest # None /\ m.kind = seen.kind
                                   /\ m.name = seen.name /\ m.digest = None}
             existing == IF exact # {} THEN exact ELSE sibling
             old == CHOOSE m \in existing : TRUE
             Row(id) == ModelRow(id, seen, listed[i].name)
             S == UpsertModel(R, seen, listed[i].name)
  <1>1. S = IF existing = {} THEN R \cup {Row(Cardinality(R) + 1)}
            ELSE (R \ {old}) \cup {Row(old.id)}
    BY Zenon DEF UpsertModel
  <1>2. IsFiniteSet(R) /\ Cardinality(R) \in Nat /\ R \subseteq ModelRows
    BY FS_CardinalityType DEF RegistryOK
  <1>3. CASE existing = {}
    <2> DEFINE new == Row(Cardinality(R) + 1)
    <2>1. /\ new \in ModelRows /\ new.id = Cardinality(R) + 1
          /\ CanonicalId(new) = CanonicalId(seen)
      BY <1>2, Sighted
    <2>2. S = R \cup {new}
      BY <1>1, <1>3
    <2>3. \A m \in R : CanonicalId(m) # CanonicalId(seen)
      BY <1>3
    <2> HIDE DEF new, S
    <2>4. new \notin R
      BY <2>1, <2>3
    <2>5. IsFiniteSet(S) /\ Cardinality(S) = Cardinality(R) + 1
      BY <1>2, <2>2, <2>4, FS_AddElement
    <2>6. \A m \in R : m.id \in 1 .. Cardinality(R)
      BY DEF RegistryOK
    <2>7. \A m \in S : m.id \in 1 .. Cardinality(S)
      BY <1>2, <2>1, <2>2, <2>5, <2>6
    <2>8. \A m \in R : m.id # new.id
      BY <1>2, <2>1, <2>6
    <2>9. \A m, n \in S : m.id = n.id \/ CanonicalId(m) = CanonicalId(n) => m = n
      BY <2>1, <2>2, <2>3, <2>8 DEF RegistryOK
    <2>10. RegistryOK(S)
      BY <1>2, <2>1, <2>2, <2>5, <2>7, <2>9 DEF RegistryOK
    <2>11. Kept(R, S)
      BY <2>2 DEF Kept
    <2> QED BY <2>1, <2>2, <2>10, <2>11 DEF S
  <1>4. CASE existing # {}
    <2>1. old \in existing
      BY <1>4
    <2>2. /\ old \in R /\ old.kind = seen.kind /\ old.name = seen.name
          /\ old.digest # None => old.digest = seen.digest
          /\ \A m \in R : CanonicalId(m) = CanonicalId(seen) => m = old
      <3>1. CASE exact # {}
        <4>1. old \in exact
          BY <2>1, <3>1
        <4> QED BY <4>1 DEF CanonicalId, RegistryOK
      <3>2. CASE exact = {}
        <4>1. old \in sibling
          BY <2>1, <3>2
        <4> QED BY <3>2, <4>1
      <3> QED BY <3>1, <3>2
    <2> DEFINE new == Row(old.id)
    <2>3. S = (R \ {old}) \cup {new}
      BY <1>1, <1>4
    <2> HIDE DEF old, existing, exact, sibling
    <2>4. old.id \in Nat
      BY <1>2, <2>2 DEF ModelRows
    <2>5. /\ new \in ModelRows /\ new.id = old.id /\ CanonicalId(new) = CanonicalId(seen)
          /\ new.kind = seen.kind /\ new.name = seen.name /\ new.digest = seen.digest
      BY <2>4, Sighted
    <2> HIDE DEF new, S
    <2>6. \A m \in R \ {old} : m.id # new.id /\ CanonicalId(m) # CanonicalId(new)
      BY <2>2, <2>5 DEF RegistryOK
    <2>7. \A m, n \in S : m.id = n.id \/ CanonicalId(m) = CanonicalId(n) => m = n
      BY <2>3, <2>6 DEF RegistryOK
    <2>8. /\ S \subseteq ModelRows
          /\ \A m \in R : \E n \in S : n.id = m.id
          /\ \A n \in S : \E m \in R : m.id = n.id
      BY <1>2, <2>2, <2>3, <2>5
    <2>9. RegistryOK(S)
      BY <2>7, <2>8, Renumbered
    <2>10. Kept(R, S)
      <3> SUFFICES ASSUME NEW m \in R
                   PROVE  \E n \in S : /\ n.id = m.id /\ n.kind = m.kind /\ n.name = m.name
                                       /\ m.digest # None => n.digest = m.digest
        BY DEF Kept
      <3>1. CASE m = old
        BY <2>2, <2>3, <2>5, <3>1
      <3>2. CASE m # old
        BY <2>3, <3>2
      <3> QED BY <3>1, <3>2
    <2> QED BY <2>3, <2>5, <2>9, <2>10 DEF S
  <1> QED BY <1>3, <1>4

\* The second half of discover_models marks rows and changes nothing else.
LEMMA Retires ==
  ASSUME NEW R, RegistryOK(R), NEW seen, NEW kinds, NEW disabled
  PROVE  LET S == Retired(R, seen, kinds, disabled)
         IN  /\ RegistryOK(S) /\ Kept(R, S)
             /\ \A n \in S : \E m \in R :
                   /\ n.id = m.id /\ CanonicalId(n) = CanonicalId(m)
                   /\ n.available => m.available /\ (CanonicalId(m) \in seen \/ m.kind \notin kinds)
  <1> DEFINE gone == {m \in R : \/ m.provider \in disabled
                                \/ CanonicalId(m) \notin seen /\ m.kind \in kinds}
             mark == [m \in R |-> IF m \in gone THEN [m EXCEPT !.available = FALSE] ELSE m]
             S == Retired(R, seen, kinds, disabled)
  <1>1. S = {mark[m] : m \in R}
    BY DEF Retired
  <1>2. \A m \in R : /\ mark[m] \in ModelRows /\ mark[m].id = m.id /\ mark[m].kind = m.kind
                     /\ mark[m].name = m.name /\ mark[m].digest = m.digest
                     /\ mark[m].available => m.available /\ m \notin gone
    <2> HIDE DEF gone, mark
    <2> SUFFICES ASSUME NEW m \in R
                 PROVE  /\ mark[m] \in ModelRows /\ mark[m].id = m.id /\ mark[m].kind = m.kind
                        /\ mark[m].name = m.name /\ mark[m].digest = m.digest
                        /\ mark[m].available => m.available /\ m \notin gone
      OBVIOUS
    <2>1. m \in ModelRows
      BY DEF RegistryOK
    <2>2. mark[m] = IF m \in gone THEN [m EXCEPT !.available = FALSE] ELSE m
      BY DEF mark
    <2>3. CASE m \in gone
      BY <2>1, <2>2, <2>3 DEF ModelRows
    <2>4. CASE m \notin gone
      BY <2>1, <2>2, <2>4 DEF ModelRows
    <2> QED BY <2>3, <2>4
  <1>3. \A m \in R : CanonicalId(mark[m]) = CanonicalId(m)
    BY <1>2 DEF CanonicalId
  <1>4. \A n \in S : \E m \in R : n = mark[m]
    BY <1>1
  <1>5. \A m \in R : mark[m] \in S
    BY <1>1
  <1>6. ASSUME NEW n \in S
        PROVE  \E m \in R :
                   /\ n.id = m.id /\ CanonicalId(n) = CanonicalId(m)
                   /\ n.available => m.available /\ (CanonicalId(m) \in seen \/ m.kind \notin kinds)
    <2>1. PICK m \in R : n = mark[m]
      BY <1>4
    <2>2. mark[m].available => m.available /\ m \notin gone
      BY <1>2
    <2> QED BY <1>2, <1>3, <2>1, <2>2
  <1>7. /\ S \subseteq ModelRows
        /\ \A m \in R : \E n \in S : n.id = m.id
        /\ \A n \in S : \E m \in R : m.id = n.id
    <2>1. \A n \in S : \E m \in R : m.id = n.id /\ n \in ModelRows
      <3> SUFFICES ASSUME NEW n \in S
                   PROVE  \E m \in R : m.id = n.id /\ n \in ModelRows
        OBVIOUS
      <3>1. PICK m \in R : n = mark[m]
        BY <1>4
      <3> QED BY <1>2, <3>1
    <2>2. \A m \in R : \E n \in S : n.id = m.id
      BY <1>2, <1>5
    <2> QED BY <2>1, <2>2
  <1>8. ASSUME NEW n \in S, NEW o \in S, n.id = o.id \/ CanonicalId(n) = CanonicalId(o)
        PROVE  n = o
    <2>1. PICK m \in R : n = mark[m]
      BY <1>4
    <2>2. PICK p \in R : o = mark[p]
      BY <1>4
    <2>3. m.id = p.id \/ CanonicalId(m) = CanonicalId(p)
      BY <1>2, <1>3, <1>8, <2>1, <2>2
    <2>4. m = p
      BY <2>3 DEF RegistryOK
    <2> QED BY <2>1, <2>2, <2>4
  <1>9. Kept(R, S)
    BY <1>2, <1>5 DEF Kept
  <1> HIDE DEF S
  <1>10. RegistryOK(S)
    BY <1>7, <1>8, Renumbered
  <1> QED BY <1>6, <1>9, <1>10 DEF S

\* The inner loop of a discovery pass, place by place.
Listing(R, listing) ==
    CHOOSE f : f = [s \in SUBSET DOMAIN listing.models |->
        IF s = {} THEN R
        ELSE UpsertModel(f[s \ {Max(s)}], listing.models[Max(s)], listing.name)]

\* What the loops of a pass leave of a registry, having seen some models.
Grown(R, seen, S) ==
    /\ RegistryOK(S) /\ Kept(R, S)
    /\ \A n \in S : n \in R \/ \E m \in seen : CanonicalId(n) = CanonicalId(m)

\* The registries of this project's tables.
Registries == {R \in SUBSET ModelRows : RegistryOK(R)}

\* A registry is kept by doing nothing.
LEMMA KeptSame == ASSUME NEW R PROVE Kept(R, R)
  BY DEF Kept

\* The models one registration listed, one after the other.
LEMMA ListsModels ==
  ASSUME NEW R, RegistryOK(R), NEW listed \in Listings, NEW i \in DOMAIN listed
  PROVE  Grown(R, ToSet(listed[i].models), UpsertListed(R, listed[i]))
  <1> DEFINE items == listed[i].models   n == Len(items)   name == listed[i].name
             F == [p \in Registries \X (1 .. n) |-> UpsertModel(p[1], items[p[2]], name)]
             g == Listing(R, listed[i])
  <1>1. items \in Seq(ToSet(items)) /\ n \in Nat /\ DOMAIN items = 1 .. n
    BY EvidenceAssumption DEF IsListed
  <1>2. \A j \in 1 .. n : items[j] \in ToSet(items)
    BY <1>1
  <1>3. UpsertListed(R, listed[i]) = g[1 .. n]
    BY <1>1 DEF UpsertListed, FoldLeft, MapThenFoldSet, Listing
  <1>4. ASSUME NEW Q \in Registries, NEW j \in 1 .. n
        PROVE  /\ UpsertModel(Q, items[j], name) \in Registries
               /\ Grown(Q, {items[j]}, UpsertModel(Q, items[j], name))
    <2>1. RegistryOK(Q)
      BY DEF Registries
    <2>2. items[j] \in ToSet(listed[i].models)
      BY <1>2
    <2> HIDE DEF items, name
    <2>3. /\ RegistryOK(UpsertModel(Q, items[j], name)) /\ Kept(Q, UpsertModel(Q, items[j], name))
          /\ \A m \in UpsertModel(Q, items[j], name) :
                m \in Q \/ CanonicalId(m) = CanonicalId(items[j])
      BY <2>1, <2>2, Upserts DEF name
    <2> QED BY <2>3 DEF Registries, Grown, RegistryOK
  <1>5. R \in Registries
    BY DEF Registries, RegistryOK
  <1>6. F \in [Registries \X (1 .. n) -> Registries]
    BY <1>4
  <1>7. PICK f : IsLoop(f, Registries, R, F, n)
    <2> HIDE DEF F, n
    <2> QED BY <1>1, <1>5, <1>6, LoopExists
  <1>8. f = [s \in SUBSET (1 .. n) |->
               IF s = {} THEN R ELSE UpsertModel(f[s \ {Max(s)}], items[Max(s)], name)]
    <2>1. ASSUME NEW s \in SUBSET (1 .. n), s # {}
          PROVE  f[s] = UpsertModel(f[s \ {Max(s)}], items[Max(s)], name)
      <3>1. Max(s) \in 1 .. n
        BY <1>1, <2>1, LastPlace
      <3>2. f[s \ {Max(s)}] \in Registries /\ f[s] = F[<<f[s \ {Max(s)}], Max(s)>>]
        BY <1>7, <2>1 DEF IsLoop
      <3> QED BY <3>1, <3>2
    <2> QED BY <1>7, <2>1 DEF IsLoop
  <1>9. g = [s \in SUBSET (1 .. n) |->
               IF s = {} THEN R ELSE UpsertModel(g[s \ {Max(s)}], items[Max(s)], name)]
    BY <1>1, <1>8, Zenon DEF Listing
  <1> HIDE DEF F, g, n, items, name
  <1> DEFINE T == {s \in SUBSET (1 .. n) : Grown(R, ToSet(items), g[s])}
  <1>10. {} \in T
    BY <1>9, KeptSame DEF Grown
  <1>11. ASSUME NEW s \in SUBSET (1 .. n), s # {}, s \ {Max(s)} \in T PROVE s \in T
    <2>1. Max(s) \in 1 .. n
      BY <1>1, <1>11, LastPlace
    <2> DEFINE Q == g[s \ {Max(s)}]
    <2>2. Grown(R, ToSet(items), Q) /\ Q \in Registries
      BY <1>11 DEF Grown, Registries, RegistryOK
    <2>3. g[s] = UpsertModel(Q, items[Max(s)], name)
      BY <1>9, <1>11
    <2> HIDE DEF Q
    <2>4. Grown(Q, {items[Max(s)]}, g[s])
      BY <1>4, <2>1, <2>2, <2>3
    <2>5. Kept(R, g[s])
      BY <2>2, <2>4, KeptTwice DEF Grown
    <2>6. Grown(R, ToSet(items), g[s])
      BY <1>2, <2>1, <2>2, <2>4, <2>5 DEF Grown
    <2> QED BY <2>6
  <1>12. 1 .. n \in T
    <2> HIDE DEF T
    <2> QED BY <1>1, <1>10, <1>11, Parts
  <1> QED BY <1>3, <1>12 DEF items

\* The outer loop, place by place.
Passing(R, listed) ==
    CHOOSE f : f = [s \in SUBSET DOMAIN listed |->
        IF s = {} THEN R ELSE UpsertListed(f[s \ {Max(s)}], listed[Max(s)])]

\* The registrations that answered, one after the other.
LEMMA ListsAll ==
  ASSUME NEW R, RegistryOK(R), NEW listed \in Listings
  PROVE  Grown(R, SeenModels(listed), UpsertAll(R, listed))
  <1> DEFINE n == Len(listed)
             F == [p \in Registries \X (1 .. n) |-> UpsertListed(p[1], listed[p[2]])]
             g == Passing(R, listed)
  <1>1. n \in Nat /\ DOMAIN listed = 1 .. n
    BY EvidenceAssumption DEF IsListed
  <1>2. UpsertAll(R, listed) = g[1 .. n]
    BY <1>1 DEF UpsertAll, FoldLeft, MapThenFoldSet, Passing
  <1>3. ASSUME NEW Q \in Registries, NEW j \in 1 .. n
        PROVE  /\ UpsertListed(Q, listed[j]) \in Registries
               /\ Grown(Q, ToSet(listed[j].models), UpsertListed(Q, listed[j]))
    <2>1. Grown(Q, ToSet(listed[j].models), UpsertListed(Q, listed[j]))
      BY <1>1, ListsModels DEF Registries
    <2> QED BY <2>1 DEF Registries, Grown, RegistryOK
  <1>4. R \in Registries
    BY DEF Registries, RegistryOK
  <1>5. F \in [Registries \X (1 .. n) -> Registries]
    BY <1>3
  <1>6. PICK f : IsLoop(f, Registries, R, F, n)
    <2> HIDE DEF F, n
    <2> QED BY <1>1, <1>4, <1>5, LoopExists
  <1>7. f = [s \in SUBSET (1 .. n) |->
               IF s = {} THEN R ELSE UpsertListed(f[s \ {Max(s)}], listed[Max(s)])]
    <2>1. ASSUME NEW s \in SUBSET (1 .. n), s # {}
          PROVE  f[s] = UpsertListed(f[s \ {Max(s)}], listed[Max(s)])
      <3>1. Max(s) \in 1 .. n
        BY <1>1, <2>1, LastPlace
      <3>2. f[s \ {Max(s)}] \in Registries /\ f[s] = F[<<f[s \ {Max(s)}], Max(s)>>]
        BY <1>6, <2>1 DEF IsLoop
      <3> QED BY <3>1, <3>2
    <2> QED BY <1>6, <2>1 DEF IsLoop
  <1>8. g = [s \in SUBSET (1 .. n) |->
               IF s = {} THEN R ELSE UpsertListed(g[s \ {Max(s)}], listed[Max(s)])]
    BY <1>1, <1>7, Zenon DEF Passing
  <1> HIDE DEF F, g, n
  <1> DEFINE T == {s \in SUBSET (1 .. n) : Grown(R, SeenModels(listed), g[s])}
  <1>9. {} \in T
    BY <1>8, KeptSame DEF Grown
  <1>10. ASSUME NEW s \in SUBSET (1 .. n), s # {}, s \ {Max(s)} \in T PROVE s \in T
    <2>1. Max(s) \in 1 .. n
      BY <1>1, <1>10, LastPlace
    <2> DEFINE Q == g[s \ {Max(s)}]
    <2>2. Grown(R, SeenModels(listed), Q) /\ Q \in Registries
      BY <1>10 DEF Grown, Registries, RegistryOK
    <2>3. g[s] = UpsertListed(Q, listed[Max(s)])
      BY <1>8, <1>10
    <2> HIDE DEF Q
    <2>4. Grown(Q, ToSet(listed[Max(s)].models), g[s])
      BY <1>3, <2>1, <2>2, <2>3
    <2>5. Kept(R, g[s])
      BY <2>2, <2>4, KeptTwice DEF Grown
    <2>6. ToSet(listed[Max(s)].models) \subseteq SeenModels(listed)
      BY <1>1, <2>1 DEF SeenModels
    <2>7. Grown(R, SeenModels(listed), g[s])
      BY <2>2, <2>4, <2>5, <2>6 DEF Grown
    <2> QED BY <2>7
  <1>11. 1 .. n \in T
    <2> HIDE DEF T
    <2> QED BY <1>1, <1>9, <1>10, Parts
  <1> QED BY <1>2, <1>11

\* A discovery pass, up to the rebinding: every row is kept, and an available
\* one was seen, or is as it was and of a kind nothing answered for.
LEMMA Discovers ==
  ASSUME NEW R, RegistryOK(R), NEW listed \in Listings, NEW disabled
  PROVE  LET S == Discovered(R, listed, disabled)
         IN  /\ RegistryOK(S) /\ Kept(R, S)
             /\ \A n \in S : n.available =>
                   \/ \E m \in SeenModels(listed) : CanonicalId(n) = CanonicalId(m)
                   \/ /\ n.kind \notin AnsweredKinds(listed)
                      /\ \E m \in R : /\ n.id = m.id /\ m.available
                                      /\ CanonicalId(n) = CanonicalId(m)
  <1> DEFINE U == UpsertAll(R, listed)
             seen == {CanonicalId(m) : m \in SeenModels(listed)}
             S == Discovered(R, listed, disabled)
  <1>1. Grown(R, SeenModels(listed), U)
    BY ListsAll
  <1>2. S = Retired(U, seen, AnsweredKinds(listed), disabled)
    BY DEF Discovered
  <1> HIDE DEF U, seen, S
  <1>3. /\ RegistryOK(S) /\ Kept(U, S)
        /\ \A n \in S : \E m \in U :
              /\ n.id = m.id /\ CanonicalId(n) = CanonicalId(m)
              /\ n.available => /\ m.available
                                /\ CanonicalId(m) \in seen \/ m.kind \notin AnsweredKinds(listed)
    BY <1>1, <1>2, Retires DEF Grown
  <1>4. Kept(R, S)
    BY <1>1, <1>3, KeptTwice DEF Grown
  <1>5. ASSUME NEW n \in S, n.available
        PROVE  \/ \E m \in SeenModels(listed) : CanonicalId(n) = CanonicalId(m)
               \/ /\ n.kind \notin AnsweredKinds(listed)
                  /\ \E m \in R : /\ n.id = m.id /\ m.available
                                  /\ CanonicalId(n) = CanonicalId(m)
    <2>1. PICK u \in U : /\ n.id = u.id /\ CanonicalId(n) = CanonicalId(u) /\ u.available
                         /\ CanonicalId(u) \in seen \/ u.kind \notin AnsweredKinds(listed)
      BY <1>3, <1>5
    <2>2. n.kind = u.kind
      BY <2>1 DEF CanonicalId
    <2> QED BY <1>1, <2>1, <2>2 DEF Grown, seen
  <1> QED BY <1>3, <1>4, <1>5 DEF S

-----------------------------------------------------------------------------
(* Rebinding.                                                              *)

\* The binding of a row of measurement k is to what was measured.
Honest(row, k, R, known) ==
    row.state = "bound" =>
        /\ \E m \in R : /\ m.id = row.model /\ m.kind = Identity[k].kind
                        /\ m.name = Identity[k].name
                        /\ Identity[k].digest # None => m.digest = Identity[k].digest
        /\ IF Identity[k].adapter = None THEN row.adapter = None
           ELSE \E a \in known : a.id = row.adapter /\ a.digest = Identity[k].adapter

\* The adapter a measurement was made with, if any, is known.
Adapted(known, k) == Identity[k].adapter = None \/ Loaded(known, k) # {}

\* Between the registries R and S a row was bound: not unless its subject was
\* there afterwards, and surely if it was before.
Bracketed(R, S, known, row, k) ==
    \E Q, P \in Registries :
        /\ Kept(R, Q) /\ Kept(Q, P) /\ Kept(P, S)
        /\ row.state = "bound" => Exact(P, k) # {} /\ Adapted(known, k)
        /\ Exact(Q, k) # {} /\ Adapted(known, k) => row.state = "bound"

\* The rows of the registry S are those of R, perhaps with a digest.
SameRows(R, S) ==
    \A n \in S : \E m \in R : /\ n.id = m.id /\ n.kind = m.kind /\ n.name = m.name
                              /\ n.available = m.available

\* What rebind_evidence_in works on.
Tabled == [RowIds -> EvidenceRows \cup {None}]
Pairs == [models : Registries, rows : Tabled]

\* An honest binding stays so while the registry keeps its rows.
LEMMA StaysHonest ==
  ASSUME NEW R, NEW S, Kept(R, S), NEW known, NEW row, NEW k, Honest(row, k, R, known)
  PROVE  Honest(row, k, S, known)
  BY DEF Kept, Honest

\* What a binding writes of a row of evidence.
LEMMA BindsRow ==
  ASSUME NEW Q, RegistryOK(Q), NEW known, known \subseteq AdapterRows, NEW k \in Keys,
         NEW v \in Nat, NEW r \in Reasons, NEW b, b = BindingOf(k, Q, known)
  PROVE  LET row == [version |-> v, state |-> b.state, model |-> b.model,
                     adapter |-> b.adapter, reason |-> r]
             P == Upgraded(Q, b)
         IN  /\ row \in EvidenceRows /\ row.version = v /\ row.reason = r
             /\ Honest(row, k, P, known) /\ Bracketed(Q, P, known, row, k)
             /\ RegistryOK(P) /\ Kept(Q, P) /\ SameRows(Q, P)
  <1> DEFINE row == [version |-> v, state |-> b.state, model |-> b.model,
                     adapter |-> b.adapter, reason |-> r]
             P == Upgraded(Q, b)
  <1>1. /\ RegistryOK(P) /\ Kept(Q, P) /\ SameRows(Q, P)
        /\ b.state = "bound" =>
              \E n \in P : /\ n.id = b.model /\ n.kind = Identity[k].kind
                           /\ n.name = Identity[k].name
                           /\ Identity[k].digest # None => n.digest = Identity[k].digest
        /\ b.upgrade = None => P = Q
    BY Upgrades DEF SameRows
  <1>2. /\ b.state \in States
        /\ b.state = "bound" <=>
              /\ Exact(Q, k) # {} \/ (Identity[k].digest # None /\ NameOnly(Q, k) # {})
              /\ Adapted(known, k)
        /\ b.state # "bound" => b.model = None /\ b.adapter = None /\ b.upgrade = None
        /\ b.state = "bound" =>
              IF Exact(Q, k) # {}
              THEN b.upgrade = None /\ \E m \in Exact(Q, k) : b.model = m.id
              ELSE /\ b.upgrade = Identity[k].digest
                   /\ \E m \in NameOnly(Q, k) : b.model = m.id
        /\ b.state = "bound" =>
              IF Identity[k].adapter = None THEN b.adapter = None
              ELSE \E a \in Loaded(known, k) : b.adapter = a.id
    BY Binds DEF Adapted
  <1> HIDE DEF P
  <1>3. b.model \in Nat \cup {None}
    <2>1. \A m \in Q : m.id \in Nat
      BY DEF RegistryOK, ModelRows
    <2>2. b.state = "bound" => \E m \in Q : b.model = m.id
      BY <1>2 DEF Exact, NameOnly
    <2> QED BY <1>2, <2>1, <2>2
  <1>4. b.adapter \in (UNION Directories) \cup {None}
    <2>1. \A a \in known : a.id \in UNION Directories
      BY DEF AdapterRows
    <2>2. b.state = "bound" => b.adapter = None \/ \E a \in known : b.adapter = a.id
      BY <1>2 DEF Loaded
    <2> QED BY <1>2, <2>1, <2>2
  <1>5. /\ row.version = v /\ row.reason = r /\ row.state = b.state
        /\ row.model = b.model /\ row.adapter = b.adapter
    OBVIOUS
  <1>6. row \in EvidenceRows
    BY <1>2, <1>3, <1>4 DEF EvidenceRows
  <1> HIDE DEF row
  <1>7. Honest(row, k, P, known)
    BY <1>1, <1>2, <1>5 DEF Honest, Loaded
  <1>8. b.state = "bound" => Exact(P, k) # {}
    <2> SUFFICES ASSUME b.state = "bound" PROVE Exact(P, k) # {}
      OBVIOUS
    <2>1. CASE Identity[k].digest = None
      BY <1>1, <1>2, <2>1
    <2>2. CASE Identity[k].digest # None
      BY <1>1, <2>2 DEF Exact, CanonicalId
    <2> QED BY <2>1, <2>2
  <1>9. Q \in Registries /\ P \in Registries
    BY <1>1 DEF Registries, RegistryOK
  <1>10. Kept(Q, Q) /\ Kept(P, P)
    BY KeptSame
  <1>11. Bracketed(Q, P, known, row, k)
    BY <1>1, <1>2, <1>5, <1>8, <1>9, <1>10 DEF Bracketed
  <1> QED BY <1>1, <1>5, <1>6, <1>7, <1>11 DEF row, P

\* What happened between two registries happened between wider ones.
LEMMA Widens ==
  ASSUME NEW R, NEW Q, NEW P, NEW S, Kept(R, Q), Kept(P, S), NEW known, NEW row, NEW k,
         Bracketed(Q, P, known, row, k)
  PROVE  Bracketed(R, S, known, row, k)
  <1>1. PICK A, B \in Registries :
        /\ Kept(Q, A) /\ Kept(A, B) /\ Kept(B, P)
        /\ row.state = "bound" => Exact(B, k) # {} /\ Adapted(known, k)
        /\ Exact(A, k) # {} /\ Adapted(known, k) => row.state = "bound"
    BY DEF Bracketed
  <1>2. Kept(R, A) /\ Kept(B, S)
    BY <1>1, KeptTwice
  <1> QED BY <1>1, <1>2 DEF Bracketed

\* SameRows along two steps.
LEMMA SameTwice ==
  ASSUME NEW R, NEW S, NEW T, SameRows(R, S), SameRows(S, T)
  PROVE  SameRows(R, T)
  <1> SUFFICES ASSUME NEW n \in T
               PROVE  \E m \in R : /\ n.id = m.id /\ n.kind = m.kind /\ n.name = m.name
                                   /\ n.available = m.available
    BY DEF SameRows
  <1>1. PICK o \in S : /\ n.id = o.id /\ n.kind = o.kind /\ n.name = o.name
                       /\ n.available = o.available
    BY DEF SameRows
  <1>2. PICK m \in R : /\ o.id = m.id /\ o.kind = m.kind /\ o.name = m.name
                       /\ o.available = m.available
    BY DEF SameRows
  <1> QED BY <1>1, <1>2

\* What rebind_evidence_in has done to the rows of some ids, starting from old.
Rebinds(old, ids, known, acc) ==
    /\ acc \in Pairs /\ Kept(old.models, acc.models) /\ SameRows(old.models, acc.models)
    /\ \A i \in RowIds : old.rows[i] = None <=> acc.rows[i] = None
    /\ \A i \in RowIds : old.rows[i] # None =>
          acc.rows[i].version = old.rows[i].version /\ acc.rows[i].reason = old.rows[i].reason
    /\ \A i \in ids : acc.rows[i] # None =>
          /\ Honest(acc.rows[i], i[2], acc.models, known)
          /\ Bracketed(old.models, acc.models, known, acc.rows[i], i[2])

\* One pass of its loop.
LEMMA RebindsRow ==
  ASSUME NEW acc \in Pairs, NEW known, known \subseteq AdapterRows, NEW id \in RowIds
  PROVE  LET new == RebindRow(acc, known, id)
         IN  /\ Rebinds(acc, {id}, known, new)
             /\ \A i \in RowIds : i # id => new.rows[i] = acc.rows[i]
  <1> DEFINE new == RebindRow(acc, known, id)
  <1>1. /\ acc.models \in Registries /\ RegistryOK(acc.models) /\ acc.rows \in Tabled
        /\ DOMAIN acc.rows = RowIds /\ id[2] \in Keys
    BY DEF Pairs, Registries, Tabled, RowIds
  <1>2. CASE acc.rows[id] = None
    <2>1. new = acc
      BY <1>2, Zenon DEF RebindRow
    <2> HIDE DEF new
    <2>2. SameRows(acc.models, acc.models) /\ Kept(acc.models, acc.models)
      BY KeptSame DEF SameRows
    <2>3. new.rows[id] = None
      BY <1>2, <2>1
    <2> QED BY <2>1, <2>2, <2>3 DEF Rebinds, new
  <1>3. CASE acc.rows[id] # None
    <2> DEFINE b == BindingOf(id[2], acc.models, known)
               P == Upgraded(acc.models, b)
               row == [version |-> acc.rows[id].version, state |-> b.state, model |-> b.model,
                       adapter |-> b.adapter, reason |-> acc.rows[id].reason]
    <2>1. new = [models |-> P, rows |-> [acc.rows EXCEPT ![id] = row]]
      BY <1>3, Zenon DEF RebindRow
    <2>2. acc.rows[id].version \in Nat /\ acc.rows[id].reason \in Reasons
      BY <1>1, <1>3 DEF Tabled, EvidenceRows
    <2>3. /\ row \in EvidenceRows /\ row.version = acc.rows[id].version
          /\ row.reason = acc.rows[id].reason
          /\ Honest(row, id[2], P, known) /\ Bracketed(acc.models, P, known, row, id[2])
          /\ RegistryOK(P) /\ Kept(acc.models, P) /\ SameRows(acc.models, P)
      <3>1. b = BindingOf(id[2], acc.models, known)
        OBVIOUS
      <3> HIDE DEF b
      <3> QED BY <1>1, <2>2, <3>1, BindsRow
    <2> HIDE DEF b, P, row
    <2>4. new.models = P /\ new.rows = [acc.rows EXCEPT ![id] = row]
      BY <2>1
    <2>5. P \in Registries
      BY <2>3 DEF Registries, RegistryOK
    <2>6. /\ new.rows \in Tabled /\ new.rows[id] = row
          /\ \A i \in RowIds : i # id => new.rows[i] = acc.rows[i]
      BY <1>1, <2>3, <2>4 DEF Tabled
    <2>7. new \in Pairs
      <3>1. new = [models |-> new.models, rows |-> new.rows]
        BY <2>1
      <3> HIDE DEF new
      <3> QED BY <2>4, <2>5, <2>6, <3>1 DEF Pairs
    <2>8. row # None
      BY <2>3, EvidenceAssumption
    <2> HIDE DEF new
    <2> QED BY <1>3, <2>3, <2>4, <2>6, <2>7, <2>8 DEF Rebinds, new
  <1> QED BY <1>2, <1>3

\* The loop, place by place.
Rebinding(old, known, order) ==
    CHOOSE f : f = [s \in SUBSET DOMAIN order |->
        IF s = {} THEN old ELSE RebindRow(f[s \ {Max(s)}], known, order[Max(s)])]

\* One more row.
LEMMA RebindsOne ==
  ASSUME NEW old \in Pairs, NEW known, known \subseteq AdapterRows, NEW ids \in SUBSET RowIds,
         NEW acc, Rebinds(old, ids, known, acc), NEW id \in RowIds
  PROVE  Rebinds(old, ids \cup {id}, known, RebindRow(acc, known, id))
  <1> DEFINE new == RebindRow(acc, known, id)
  <1>1. acc \in Pairs /\ Kept(old.models, acc.models) /\ SameRows(old.models, acc.models)
    BY DEF Rebinds
  <1>2. Rebinds(acc, {id}, known, new) /\ \A i \in RowIds : i # id => new.rows[i] = acc.rows[i]
    BY <1>1, RebindsRow
  <1> HIDE DEF new
  <1>3. new \in Pairs /\ Kept(acc.models, new.models) /\ SameRows(acc.models, new.models)
    BY <1>2 DEF Rebinds
  <1>4. Kept(old.models, new.models) /\ SameRows(old.models, new.models)
    BY <1>1, <1>3, KeptTwice, SameTwice
  <1>5. \A i \in RowIds : old.rows[i] = None <=> new.rows[i] = None
    BY <1>2 DEF Rebinds
  <1>6. \A i \in RowIds : old.rows[i] # None =>
          new.rows[i].version = old.rows[i].version /\ new.rows[i].reason = old.rows[i].reason
    BY <1>2 DEF Rebinds
  <1>7. ASSUME NEW i \in ids \cup {id}, new.rows[i] # None
        PROVE  /\ Honest(new.rows[i], i[2], new.models, known)
               /\ Bracketed(old.models, new.models, known, new.rows[i], i[2])
    <2>1. CASE i = id
      <3>1. /\ Honest(new.rows[i], i[2], new.models, known)
            /\ Bracketed(acc.models, new.models, known, new.rows[i], i[2])
        BY <1>2, <1>7, <2>1 DEF Rebinds
      <3>2. Kept(new.models, new.models)
        BY KeptSame
      <3> QED BY <1>1, <3>1, <3>2, Widens
    <2>2. CASE i # id
      <3>1. new.rows[i] = acc.rows[i] /\ i \in ids
        BY <1>2, <2>2
      <3>2. /\ Honest(acc.rows[i], i[2], acc.models, known)
            /\ Bracketed(old.models, acc.models, known, acc.rows[i], i[2])
        BY <1>7, <3>1 DEF Rebinds
      <3>3. Honest(acc.rows[i], i[2], new.models, known)
        BY <1>3, <3>2, StaysHonest
      <3>4. Kept(old.models, old.models)
        BY KeptSame
      <3>5. Bracketed(old.models, new.models, known, acc.rows[i], i[2])
        BY <1>3, <3>2, <3>4, Widens
      <3> QED BY <3>1, <3>3, <3>5
    <2> QED BY <2>1, <2>2
  <1>8. Rebinds(old, ids \cup {id}, known, new)
    BY <1>3, <1>4, <1>5, <1>6, <1>7 DEF Rebinds
  <1> QED BY <1>8 DEF new

\* rebind_evidence_in rebinds every row, whatever the order.
LEMMA RebindsAll ==
  ASSUME NEW R, RegistryOK(R), rows \in Tabled, NEW known, known \subseteq AdapterRows,
         NEW order \in Orders
  PROVE  Rebinds([models |-> R, rows |-> rows], RowIds, known, Rebound(R, known, order))
  <1> DEFINE old == [models |-> R, rows |-> rows]   n == Len(order)
             F == [p \in Pairs \X (1 .. n) |-> RebindRow(p[1], known, order[p[2]])]
             g == Rebinding(old, known, order)
  <1>1. n \in Nat /\ DOMAIN order = 1 .. n /\ \A j \in 1 .. n : order[j] \in RowIds
    BY EvidenceAssumption
  <1>2. Rebound(R, known, order) = g[1 .. n]
    BY <1>1 DEF Rebound, FoldLeft, MapThenFoldSet, Rebinding
  <1>3. old \in Pairs
    BY DEF Pairs, Registries, RegistryOK
  <1>4. \A acc \in Pairs, j \in 1 .. n : RebindRow(acc, known, order[j]) \in Pairs
    BY <1>1, RebindsRow DEF Rebinds
  <1>5. F \in [Pairs \X (1 .. n) -> Pairs]
    BY <1>4
  <1>6. PICK f : IsLoop(f, Pairs, old, F, n)
    <2> HIDE DEF F, n, old
    <2> QED BY <1>1, <1>3, <1>5, LoopExists
  <1> HIDE DEF old
  <1>7. f = [s \in SUBSET (1 .. n) |->
               IF s = {} THEN old ELSE RebindRow(f[s \ {Max(s)}], known, order[Max(s)])]
    <2>1. ASSUME NEW s \in SUBSET (1 .. n), s # {}
          PROVE  f[s] = RebindRow(f[s \ {Max(s)}], known, order[Max(s)])
      <3>1. Max(s) \in 1 .. n
        BY <1>1, <2>1, LastPlace
      <3>2. f[s \ {Max(s)}] \in Pairs /\ f[s] = F[<<f[s \ {Max(s)}], Max(s)>>]
        BY <1>6, <2>1 DEF IsLoop
      <3> QED BY <3>1, <3>2
    <2> QED BY <1>6, <2>1 DEF IsLoop
  <1>8. g = [s \in SUBSET (1 .. n) |->
               IF s = {} THEN old ELSE RebindRow(g[s \ {Max(s)}], known, order[Max(s)])]
    BY <1>1, <1>7, Zenon DEF Rebinding
  <1> HIDE DEF F, g, n
  <1> DEFINE Ids(s) == {order[j] : j \in s}
             T == {s \in SUBSET (1 .. n) : Rebinds(old, Ids(s), known, g[s])}
  <1>9. {} \in T
    <2>1. g[{}] = old /\ Ids({}) = {}
      BY <1>8
    <2>2. Kept(old.models, old.models) /\ SameRows(old.models, old.models)
      BY KeptSame DEF SameRows
    <2>3. Rebinds(old, {}, known, old)
      BY <1>3, <2>2 DEF Rebinds
    <2> QED BY <2>1, <2>3
  <1>10. ASSUME NEW s \in SUBSET (1 .. n), s # {}, s \ {Max(s)} \in T PROVE s \in T
    <2>1. Max(s) \in 1 .. n /\ Max(s) \in s
      BY <1>1, <1>10, LastPlace
    <2> DEFINE Q == g[s \ {Max(s)}]
    <2>2. Rebinds(old, Ids(s \ {Max(s)}), known, Q)
      BY <1>10
    <2>3. g[s] = RebindRow(Q, known, order[Max(s)])
      BY <1>8, <1>10
    <2> HIDE DEF Q
    <2>4. Ids(s) = Ids(s \ {Max(s)}) \cup {order[Max(s)]}
      BY <2>1
    <2>5. Ids(s \ {Max(s)}) \in SUBSET RowIds /\ order[Max(s)] \in RowIds
      BY <1>1, <2>1
    <2> HIDE DEF Ids
    <2>6. Rebinds(old, Ids(s), known, g[s])
      BY <1>3, <2>2, <2>3, <2>4, <2>5, RebindsOne
    <2> QED BY <2>6
  <1>11. 1 .. n \in T
    <2> HIDE DEF T
    <2> QED BY <1>1, <1>9, <1>10, Parts
  <1>12. Ids(1 .. n) = RowIds
    <2>1. Ids(1 .. n) = ToSet(order)
      BY <1>1 DEF ToSet
    <2> QED BY <2>1, EvidenceAssumption
  <1> QED BY <1>2, <1>11, <1>12 DEF old

-----------------------------------------------------------------------------
(* Importing.                                                              *)

\* What the loop of _write works on.
Triples == [seen : SUBSET Keys, models : Registries, rows : Tabled]

\* What the loop of _write has done with some records, starting from old.
Stores(old, source, records, acc) ==
    /\ acc \in Triples /\ Kept(old.models, acc.models) /\ SameRows(old.models, acc.models)
    /\ acc.seen = {r.key : r \in {x \in records : x.valid}}
    /\ \A i \in RowIds : i[1] # source \/ i[2] \notin acc.seen => acc.rows[i] = old.rows[i]
    /\ \A k \in acc.seen :
          LET row == acc.rows[<<source, k>>]
          IN  /\ row \in EvidenceRows /\ row.reason = ReasonNow(k)
              /\ Honest(row, k, acc.models, adapters)
              /\ \E r \in records : r.valid /\ r.key = k /\ row.version = r.version

\* As it is written, a row is fresh or old, and nothing else is said of it.
LEMMA WrittenReason ==
  ASSUME NEW k \in Keys
  PROVE  /\ ReasonNow(k) \in Reasons /\ ReasonNow(k) # "source_unreachable"
         /\ ReasonNow(k) # "superseded"
  <1>1. ReasonNow(k) \in {"freshness", None}
    BY DEF ReasonNow, StaleReason, Drifted
  <1> QED BY <1>1, EvidenceAssumption DEF Reasons

\* The id of a row.
LEMMA RowId ==
  ASSUME NEW source \in {Producer, Manual.source}, NEW k \in Keys
  PROVE  /\ <<source, k>> \in RowIds
         /\ \A i \in RowIds : i[1] = source /\ i[2] = k => i = <<source, k>>
         /\ <<source, k>>[1] = source /\ <<source, k>>[2] = k
  BY DEF RowIds

\* One pass of the loop of _write.
LEMMA StoresRecord ==
  ASSUME adapters \subseteq AdapterRows, NEW old, NEW source \in {Producer, Manual.source},
         NEW records, NEW acc, Stores(old, source, records, acc), NEW record \in Record
  PROVE  Stores(old, source, records \cup {record}, StoreRecord(acc, source, record))
  <1> DEFINE new == StoreRecord(acc, source, record)   k == record.key
             all == records \cup {record}
  <1>1. /\ acc \in Triples /\ acc.seen \in SUBSET Keys /\ RegistryOK(acc.models)
        /\ acc.rows \in Tabled /\ k \in Keys /\ record.version \in Nat
        /\ record.valid \in BOOLEAN
    BY DEF Stores, Triples, Registries, Record
  <1>2. CASE ~record.valid \/ k \in acc.seen
    <2>1. new = acc
      BY <1>2, Zenon DEF StoreRecord
    <2> HIDE DEF new
    <2>2. acc.seen = {r.key : r \in {x \in all : x.valid}}
      <3>1. acc.seen = {r.key : r \in {x \in records : x.valid}}
        BY DEF Stores
      <3> QED BY <1>2, <3>1
    <2> HIDE DEF k
    <2>3. Stores(old, source, all, acc)
      BY <2>2 DEF Stores
    <2> QED BY <2>1, <2>3 DEF new
  <1>3. CASE record.valid /\ k \notin acc.seen
    <2> DEFINE b == BindingOf(k, acc.models, adapters)
               P == Upgraded(acc.models, b)
               row == [version |-> record.version, state |-> b.state, model |-> b.model,
                       adapter |-> b.adapter, reason |-> ReasonNow(k)]
               id == <<source, k>>
    <2>1. new = [seen |-> acc.seen \cup {k}, models |-> P, rows |-> [acc.rows EXCEPT ![id] = row]]
      BY <1>3, Zenon DEF StoreRecord, RowValues
    <2>2. /\ row \in EvidenceRows /\ row.version = record.version /\ row.reason = ReasonNow(k)
          /\ Honest(row, k, P, adapters)
          /\ RegistryOK(P) /\ Kept(acc.models, P) /\ SameRows(acc.models, P)
      <3>1. b = BindingOf(k, acc.models, adapters) /\ ReasonNow(k) \in Reasons
        BY <1>1, WrittenReason
      <3> HIDE DEF b, k
      <3> QED BY <1>1, <3>1, BindsRow
    <2>3. /\ id \in RowIds /\ id[1] = source /\ id[2] = k
          /\ \A i \in RowIds : i # id => i[1] # source \/ i[2] # k
      BY <1>1, RowId
    <2> HIDE DEF b, P, row
    <2>4. /\ new.seen = acc.seen \cup {k} /\ new.models = P
          /\ new.rows = [acc.rows EXCEPT ![id] = row]
          /\ new = [seen |-> new.seen, models |-> new.models, rows |-> new.rows]
      BY <2>1
    <2>5. /\ new.rows \in Tabled /\ new.rows[id] = row
          /\ \A i \in RowIds : i # id => new.rows[i] = acc.rows[i]
      BY <1>1, <2>2, <2>3, <2>4 DEF Tabled
    <2>6. new \in Triples
      <3>1. P \in Registries /\ new.seen \in SUBSET Keys
        BY <1>1, <2>2, <2>4 DEF Registries, RegistryOK
      <3> HIDE DEF new
      <3> QED BY <2>4, <2>5, <3>1 DEF Triples
    <2> HIDE DEF new
    <2>7. Kept(old.models, new.models) /\ SameRows(old.models, new.models)
      BY <2>2, <2>4, KeptTwice, SameTwice DEF Stores
    <2>8. new.seen = {r.key : r \in {x \in all : x.valid}}
      <3>1. acc.seen = {r.key : r \in {x \in records : x.valid}}
        BY DEF Stores
      <3> QED BY <1>3, <2>4, <3>1
    <2>9. \A i \in RowIds : i[1] # source \/ i[2] \notin new.seen => new.rows[i] = old.rows[i]
      <3> SUFFICES ASSUME NEW i \in RowIds, i[1] # source \/ i[2] \notin new.seen
                   PROVE  new.rows[i] = old.rows[i]
        OBVIOUS
      <3>1. i # id /\ (i[1] # source \/ i[2] \notin acc.seen)
        BY <2>3, <2>4
      <3>2. acc.rows[i] = old.rows[i]
        BY <3>1 DEF Stores
      <3> QED BY <2>5, <3>1, <3>2
    <2>10. ASSUME NEW c \in new.seen
           PROVE  LET r == new.rows[<<source, c>>]
                  IN  /\ r \in EvidenceRows /\ r.reason = ReasonNow(c)
                      /\ Honest(r, c, new.models, adapters)
                      /\ \E x \in all : x.valid /\ x.key = c /\ r.version = x.version
      <3>1. CASE c = k
        <4>1. new.rows[<<source, c>>] = row
          BY <2>5, <3>1
        <4> QED BY <1>3, <2>2, <2>4, <3>1, <4>1
      <3>2. CASE c # k
        <4>1. c \in acc.seen /\ c \in Keys
          BY <1>1, <2>4, <3>2
        <4>2. <<source, c>> \in RowIds /\ <<source, c>> # id
          BY <3>2, <4>1, RowId
        <4>3. new.rows[<<source, c>>] = acc.rows[<<source, c>>]
          BY <2>5, <4>2
        <4> DEFINE r == acc.rows[<<source, c>>]
        <4>4. /\ r \in EvidenceRows /\ r.reason = ReasonNow(c)
              /\ Honest(r, c, acc.models, adapters)
              /\ \E x \in all : x.valid /\ x.key = c /\ r.version = x.version
          BY <4>1 DEF Stores
        <4> HIDE DEF r
        <4>5. Honest(r, c, new.models, adapters)
          BY <2>2, <2>4, <4>4, StaysHonest
        <4> QED BY <4>3, <4>4, <4>5 DEF r
      <3> QED BY <3>1, <3>2
    <2> HIDE DEF id, k, all
    <2>11. Stores(old, source, all, new)
      BY <2>6, <2>7, <2>8, <2>9, <2>10 DEF Stores
    <2> QED BY <2>11 DEF new, all
  <1> QED BY <1>1, <1>2, <1>3

\* The loop of _write, place by place.
Storing(old, bundle) ==
    CHOOSE f : f = [s \in SUBSET DOMAIN bundle.records |->
        IF s = {} THEN old
        ELSE StoreRecord(f[s \ {Max(s)}], bundle.source, bundle.records[Max(s)])]

\* The loop takes every record, whatever their number.
LEMMA StoresAll ==
  ASSUME Tables, NEW bundle, IsBundle(bundle)
  PROVE  Stores([seen |-> {}, models |-> models, rows |-> rows], bundle.source,
                ToSet(bundle.records), Stored(bundle))
  <1> DEFINE old == [seen |-> {}, models |-> models, rows |-> rows]
             items == bundle.records   n == Len(items)   source == bundle.source
             X == {acc \in Triples : \E records : Stores(old, source, records, acc)}
             F == [p \in X \X (1 .. n) |-> StoreRecord(p[1], source, items[p[2]])]
             g == Storing(old, bundle)
  <1>1. /\ n \in Nat /\ DOMAIN items = 1 .. n /\ \A j \in 1 .. n : items[j] \in Record
        /\ source \in {Producer, Manual.source}
    BY DEF IsBundle
  <1>2. Stored(bundle) = g[1 .. n]
    BY <1>1 DEF Stored, FoldLeft, MapThenFoldSet, Storing
  <1>3. Stores(old, source, {}, old)
    <2>1. old \in Triples
      BY DEF Triples, Registries, RegistryOK, Tables, Tabled
    <2>2. Kept(models, models) /\ SameRows(models, models)
      BY KeptSame DEF SameRows
    <2>3. old.models = models /\ old.seen = {} /\ old.rows = rows
      OBVIOUS
    <2> HIDE DEF old
    <2> QED BY <2>1, <2>2, <2>3 DEF Stores
  <1>4. adapters \subseteq AdapterRows
    BY DEF Tables
  <1> HIDE DEF old, source
  <1>5. old \in X
    BY <1>3 DEF Stores
  <1>6. ASSUME NEW records, NEW acc, Stores(old, source, records, acc), NEW j \in 1 .. n
        PROVE  Stores(old, source, records \cup {items[j]}, StoreRecord(acc, source, items[j]))
    <2>1. items[j] \in Record
      BY <1>1
    <2> HIDE DEF items, X
    <2> QED BY <1>1, <1>4, <1>6, <2>1, StoresRecord
  <1>7. F \in [X \X (1 .. n) -> X]
    <2>1. ASSUME NEW acc \in X, NEW j \in 1 .. n PROVE StoreRecord(acc, source, items[j]) \in X
      <3>1. PICK records : Stores(old, source, records, acc)
        OBVIOUS
      <3>2. Stores(old, source, records \cup {items[j]}, StoreRecord(acc, source, items[j]))
        BY <1>6, <3>1
      <3> QED BY <3>2 DEF Stores
    <2> QED BY <2>1
  <1>8. PICK f : IsLoop(f, X, old, F, n)
    <2> HIDE DEF F, n, X
    <2> QED BY <1>1, <1>5, <1>7, LoopExists
  <1> HIDE DEF X
  <1>9. f = [s \in SUBSET (1 .. n) |->
               IF s = {} THEN old ELSE StoreRecord(f[s \ {Max(s)}], source, items[Max(s)])]
    <2>1. ASSUME NEW s \in SUBSET (1 .. n), s # {}
          PROVE  f[s] = StoreRecord(f[s \ {Max(s)}], source, items[Max(s)])
      <3>1. Max(s) \in 1 .. n
        BY <1>1, <2>1, LastPlace
      <3>2. f[s \ {Max(s)}] \in X /\ f[s] = F[<<f[s \ {Max(s)}], Max(s)>>]
        BY <1>8, <2>1 DEF IsLoop
      <3> QED BY <3>1, <3>2
    <2> QED BY <1>8, <2>1 DEF IsLoop
  <1>10. g = [s \in SUBSET (1 .. n) |->
               IF s = {} THEN old ELSE StoreRecord(g[s \ {Max(s)}], source, items[Max(s)])]
    BY <1>1, <1>9, Zenon DEF Storing, source
  <1> HIDE DEF F, g, n, items
  <1> DEFINE Of(s) == {items[j] : j \in s}
             T == {s \in SUBSET (1 .. n) : Stores(old, source, Of(s), g[s])}
  <1>11. {} \in T
    <2>1. g[{}] = old /\ Of({}) = {}
      BY <1>10
    <2> QED BY <1>3, <2>1
  <1>12. ASSUME NEW s \in SUBSET (1 .. n), s # {}, s \ {Max(s)} \in T PROVE s \in T
    <2>1. Max(s) \in 1 .. n /\ Max(s) \in s
      BY <1>1, <1>12, LastPlace
    <2>2. Stores(old, source, Of(s \ {Max(s)}), g[s \ {Max(s)}])
      BY <1>12
    <2>3. g[s] = StoreRecord(g[s \ {Max(s)}], source, items[Max(s)])
      BY <1>10, <1>12
    <2>4. Of(s) = Of(s \ {Max(s)}) \cup {items[Max(s)]}
      BY <2>1
    <2> HIDE DEF Of
    <2>5. Stores(old, source, Of(s), g[s])
      BY <1>6, <2>1, <2>2, <2>3, <2>4
    <2> QED BY <2>5
  <1>13. 1 .. n \in T
    <2> HIDE DEF T
    <2> QED BY <1>1, <1>11, <1>12, Parts
  <1>14. Of(1 .. n) = ToSet(bundle.records)
    BY <1>1 DEF ToSet, items
  <1> QED BY <1>2, <1>13, <1>14 DEF old, source

\* A row that takes another reason.
LEMMA Badging ==
  ASSUME NEW row \in EvidenceRows, NEW r \in Reasons
  PROVE  LET new == [row EXCEPT !.reason = r]
         IN  /\ new \in EvidenceRows /\ new.reason = r /\ new.version = row.version
             /\ new.state = row.state /\ new.model = row.model /\ new.adapter = row.adapter
  BY DEF EvidenceRows

\* Honesty is about the binding, not about the reason.
LEMMA SameBinding ==
  ASSUME NEW row, NEW new, NEW k, NEW R, NEW known, Honest(row, k, R, known),
         new.state = row.state, new.model = row.model, new.adapter = row.adapter
  PROVE  Honest(new, k, R, known)
  BY DEF Honest

\* The keys a bundle carries.
Carries(bundle) == {r.key : r \in {x \in ToSet(bundle.records) : x.valid}}

\* What _write leaves: of the source of the bundle what it carried is written,
\* what it did not is kept or superseded, and nothing says it is unreachable.
LEMMA Writes ==
  ASSUME Tables, HonestBinding, NEW bundle, IsBundle(bundle), NEW url,
         ImportBundle(bundle, url)
  PROVE  /\ RegistryOK(models') /\ Kept(models, models') /\ SameRows(models, models')
         /\ rows' \in Tabled /\ HonestBinding'
         /\ \A i \in RowIds : i[1] # bundle.source => rows'[i] = rows[i]
         /\ \A i \in RowIds : i[1] = bundle.source /\ rows'[i] # None =>
               rows'[i].reason # "source_unreachable"
         /\ \A k \in Carries(bundle) :
               LET row == rows'[<<bundle.source, k>>]
               IN  /\ row # None /\ row.reason # "superseded"
                   /\ \E r \in ToSet(bundle.records) :
                         r.valid /\ r.key = k /\ row.version = r.version
         /\ \A k \in Keys \ Carries(bundle) :
               LET old == rows[<<bundle.source, k>>]   row == rows'[<<bundle.source, k>>]
               IN  /\ old = None <=> row = None
                   /\ old # None => row.version = old.version
                   /\ ~bundle.complete /\ row # None /\ row.reason = "superseded" =>
                         old.reason = "superseded"
  <1> DEFINE old == [seen |-> {}, models |-> models, rows |-> rows]
             source == bundle.source   done == Stored(bundle)   records == ToSet(bundle.records)
             cleared == BadgesCleared(done.rows, source)
  <1>1. Stores(old, source, records, done)
    BY StoresAll
  <1>2. old.models = models /\ old.rows = rows
    OBVIOUS
  <1>3. /\ models' = done.models /\ adapters' = adapters
        /\ rows' = Superseded(cleared, bundle, done.seen)
    BY DEF ImportBundle
  <1>4. source \in {Producer, Manual.source} /\ bundle.complete \in BOOLEAN
    BY DEF IsBundle
  <1>5. None \notin EvidenceRows /\ rows \in Tabled
    BY EvidenceAssumption DEF Tables, Tabled
  <1> HIDE DEF old, done, records, source
  <1>6. /\ done \in Triples /\ Kept(models, done.models) /\ SameRows(models, done.models)
        /\ done.seen = Carries(bundle)
        /\ \A i \in RowIds : i[1] # source \/ i[2] \notin done.seen => done.rows[i] = rows[i]
    BY <1>1, <1>2 DEF Stores, Carries, records
  <1>7. \A k \in done.seen :
          LET row == done.rows[<<source, k>>]
          IN  /\ row \in EvidenceRows /\ row.reason = ReasonNow(k)
              /\ Honest(row, k, done.models, adapters)
              /\ \E r \in records : r.valid /\ r.key = k /\ row.version = r.version
    BY <1>1 DEF Stores
  <1>8. RegistryOK(done.models) /\ done.rows \in Tabled /\ done.seen \in SUBSET Keys
    BY <1>6 DEF Triples, Registries
  <1>9. ASSUME NEW i \in RowIds, done.rows[i] # None
        PROVE  done.rows[i] \in EvidenceRows /\ Honest(done.rows[i], i[2], done.models, adapters)
    <2>1. CASE i[1] = source /\ i[2] \in done.seen
      <3>1. i = <<source, i[2]>>
        BY <1>4, <1>8, <2>1, RowId
      <3> QED BY <1>7, <2>1, <3>1
    <2>2. CASE i[1] # source \/ i[2] \notin done.seen
      <3>1. done.rows[i] = rows[i]
        BY <1>6, <2>2
      <3>2. Honest(rows[i], i[2], models, adapters)
        BY <1>9, <3>1 DEF HonestBinding, Honest
      <3>3. Honest(rows[i], i[2], done.models, adapters)
        BY <1>6, <3>2, StaysHonest
      <3>4. done.rows[i] \in EvidenceRows
        BY <1>8, <1>9 DEF Tabled
      <3> QED BY <3>1, <3>3, <3>4
    <2> QED BY <2>1, <2>2
  <1>10. \A i \in RowIds : i[2] \in Keys
    BY DEF RowIds
  <1>11. \A i \in RowIds : cleared[i] =
            IF i[1] = source /\ done.rows[i] # None /\ done.rows[i].reason = "source_unreachable"
            THEN [done.rows[i] EXCEPT !.reason = ReasonNow(i[2])] ELSE done.rows[i]
    BY DEF BadgesCleared
  <1> HIDE DEF cleared
  <1>12. ASSUME NEW i \in RowIds, done.rows[i] # None
         PROVE  /\ cleared[i] \in EvidenceRows /\ cleared[i].version = done.rows[i].version
                /\ cleared[i].state = done.rows[i].state /\ cleared[i].model = done.rows[i].model
                /\ cleared[i].adapter = done.rows[i].adapter
                /\ i[1] = source => cleared[i].reason # "source_unreachable"
                /\ cleared[i].reason = "superseded" => done.rows[i].reason = "superseded"
    <2>1. /\ ReasonNow(i[2]) \in Reasons /\ ReasonNow(i[2]) # "source_unreachable"
          /\ ReasonNow(i[2]) # "superseded"
      BY <1>10, WrittenReason
    <2>2. done.rows[i] \in EvidenceRows
      BY <1>9, <1>12
    <2>3. CASE i[1] = source /\ done.rows[i].reason = "source_unreachable"
      <3>1. cleared[i] = [done.rows[i] EXCEPT !.reason = ReasonNow(i[2])]
        BY <1>11, <1>12, <2>3
      <3> QED BY <2>1, <2>2, <3>1, Badging
    <2>4. CASE ~(i[1] = source /\ done.rows[i].reason = "source_unreachable")
      <3>1. cleared[i] = done.rows[i]
        BY <1>11, <1>12, <2>4
      <3> QED BY <2>2, <2>4, <3>1
    <2> QED BY <2>3, <2>4
  <1>13. \A i \in RowIds : done.rows[i] = None => cleared[i] = None
    BY <1>11
  <1>14. DOMAIN rows' = RowIds /\ \A i \in RowIds : rows'[i] =
            IF bundle.complete /\ i[1] = source /\ rows[i] # None /\ i[2] \notin done.seen
            THEN [cleared[i] EXCEPT !.reason = "superseded"] ELSE cleared[i]
    BY <1>3 DEF Superseded, source
  <1>15. \A i \in RowIds : rows[i] # None => done.rows[i] # None
    <2> SUFFICES ASSUME NEW i \in RowIds, rows[i] # None, done.rows[i] = None PROVE FALSE
      OBVIOUS
    <2>1. i[1] = source /\ i[2] \in done.seen
      BY <1>6
    <2>2. i = <<source, i[2]>>
      BY <1>4, <1>8, <2>1, RowId
    <2> QED BY <1>5, <1>7, <2>1, <2>2
  <1>16. ASSUME NEW i \in RowIds, done.rows[i] # None
         PROVE  /\ rows'[i] \in EvidenceRows /\ rows'[i].version = done.rows[i].version
                /\ rows'[i].state = done.rows[i].state /\ rows'[i].model = done.rows[i].model
                /\ rows'[i].adapter = done.rows[i].adapter
                /\ i[1] = source => rows'[i].reason # "source_unreachable"
                /\ rows'[i].reason = "superseded" =>
                      \/ done.rows[i].reason = "superseded"
                      \/ bundle.complete /\ i[2] \notin done.seen
    <2>1. CASE bundle.complete /\ i[1] = source /\ rows[i] # None /\ i[2] \notin done.seen
      <3>1. rows'[i] = [cleared[i] EXCEPT !.reason = "superseded"]
        BY <1>14, <2>1
      <3>2. "superseded" \in Reasons
        BY DEF Reasons
      <3>3. /\ cleared[i] \in EvidenceRows /\ cleared[i].version = done.rows[i].version
            /\ cleared[i].state = done.rows[i].state /\ cleared[i].model = done.rows[i].model
            /\ cleared[i].adapter = done.rows[i].adapter
        BY <1>12, <1>16
      <3> DEFINE c == cleared[i]
      <3> HIDE DEF c
      <3>4. LET new == [c EXCEPT !.reason = "superseded"]
            IN  /\ new \in EvidenceRows /\ new.reason = "superseded" /\ new.version = c.version
                /\ new.state = c.state /\ new.model = c.model /\ new.adapter = c.adapter
        BY <3>2, <3>3, Badging DEF c
      <3> QED BY <2>1, <3>1, <3>3, <3>4 DEF c
    <2>2. CASE ~(bundle.complete /\ i[1] = source /\ rows[i] # None /\ i[2] \notin done.seen)
      <3>1. rows'[i] = cleared[i]
        BY <1>14, <2>2
      <3> QED BY <1>12, <1>16, <3>1
    <2> QED BY <2>1, <2>2
  <1>17. \A i \in RowIds : done.rows[i] = None => rows'[i] = None
    BY <1>13, <1>14, <1>15
  <1>18. rows' \in Tabled
    <2>1. \A i \in RowIds : rows'[i] \in EvidenceRows \cup {None}
      BY <1>16, <1>17
    <2>2. rows' = [i \in RowIds |-> rows'[i]]
      BY <1>3 DEF Superseded
    <2> QED BY <2>1, <2>2 DEF Tabled
  <1>19. HonestBinding'
    <2>1. ASSUME NEW i \in RowIds, rows'[i] # None
          PROVE  Honest(rows'[i], i[2], models', adapters')
      <3>1. done.rows[i] # None
        BY <1>17, <2>1
      <3>2. Honest(done.rows[i], i[2], done.models, adapters)
        BY <1>9, <3>1
      <3>3. Honest(rows'[i], i[2], done.models, adapters)
        BY <1>16, <3>1, <3>2, SameBinding
      <3> QED BY <1>3, <3>3
    <2> QED BY <2>1 DEF HonestBinding, Honest
  <1>20. ASSUME NEW i \in RowIds, i[1] # source PROVE rows'[i] = rows[i]
    BY <1>6, <1>11, <1>14, <1>20
  <1>21. \A i \in RowIds : i[1] = source /\ rows'[i] # None =>
            rows'[i].reason # "source_unreachable"
    BY <1>16, <1>17
  <1>22. ASSUME NEW k \in Carries(bundle)
         PROVE  LET row == rows'[<<source, k>>]
                IN  /\ row # None /\ row.reason # "superseded"
                    /\ \E r \in records : r.valid /\ r.key = k /\ row.version = r.version
    <2>1. k \in done.seen /\ k \in Keys
      BY <1>6, <1>8
    <2>2. <<source, k>> \in RowIds /\ <<source, k>>[2] = k
      BY <1>4, <2>1, RowId
    <2> DEFINE i == <<source, k>>
    <2>3. /\ done.rows[i] \in EvidenceRows /\ done.rows[i].reason = ReasonNow(k)
          /\ \E r \in records : r.valid /\ r.key = k /\ done.rows[i].version = r.version
      BY <1>7, <2>1
    <2>4. i \in RowIds /\ i[2] = k
      BY <2>2
    <2> HIDE DEF i
    <2>5. done.rows[i] # None /\ ReasonNow(k) # "superseded"
      BY <1>5, <2>1, <2>3, WrittenReason
    <2>6. rows'[i] # None /\ rows'[i].version = done.rows[i].version
          /\ rows'[i].reason # "superseded"
      BY <1>5, <1>16, <2>1, <2>3, <2>4, <2>5
    <2> QED BY <2>3, <2>6 DEF i
  <1>23. ASSUME NEW k \in Keys \ Carries(bundle)
         PROVE  LET o == rows[<<source, k>>]   row == rows'[<<source, k>>]
                IN  /\ o = None <=> row = None
                    /\ o # None => row.version = o.version
                    /\ ~bundle.complete /\ row # None /\ row.reason = "superseded" =>
                          o.reason = "superseded"
    <2> DEFINE i == <<source, k>>
    <2>1. i \in RowIds /\ i[2] = k
      BY <1>4, RowId
    <2> HIDE DEF i
    <2>2. done.rows[i] = rows[i]
      BY <1>6, <2>1
    <2>3. CASE rows[i] = None
      <3>1. rows'[i] = None
        BY <1>17, <2>1, <2>2, <2>3
      <3> QED BY <2>3, <3>1 DEF i
    <2>4. CASE rows[i] # None
      <3>1. /\ rows'[i] # None /\ rows'[i].version = rows[i].version
            /\ rows'[i].reason = "superseded" => rows[i].reason = "superseded" \/ bundle.complete
        BY <1>5, <1>16, <2>1, <2>2, <2>4
      <3> QED BY <2>4, <3>1 DEF i
    <2> QED BY <2>3, <2>4
  <1> QED BY <1>3, <1>6, <1>8, <1>18, <1>19, <1>20, <1>21, <1>22, <1>23 DEF source, records

-----------------------------------------------------------------------------
(* The steps.                                                              *)

\* Tables of rows of their kind are what the type invariant asks of them.
LEMMA Shapes ==
  ASSUME NEW R, RegistryOK(R), NEW A, A \subseteq AdapterRows,
         NEW S \in [SourceKeys -> SourceRows \cup {None}], NEW T \in Tabled
  PROVE  /\ \A m \in R : IsLocalModel(m)
         /\ \A a \in A : IsLocalAdapter(a)
         /\ \A m, n \in R : m.id = n.id \/ CanonicalId(m) = CanonicalId(n) => m = n
         /\ \A s \in SourceKeys : S[s] # None =>
               /\ S[s].url \in {Url, None}
               /\ S[s].status \in {"ok", "unreachable", "refused", "incompatible", "failed"}
         /\ \A i \in RowIds : T[i] # None => T[i].state \in States /\ T[i].reason \in Reasons
  <1>1. \A m \in R : IsLocalModel(m)
    BY DEF RegistryOK, ModelRows, IsLocalModel
  <1>2. \A a \in A : IsLocalAdapter(a)
    BY DEF AdapterRows, IsLocalAdapter
  <1>3. \A s \in SourceKeys : S[s] # None => S[s] \in SourceRows
    OBVIOUS
  <1>4. \A i \in RowIds : T[i] # None => T[i] \in EvidenceRows
    BY DEF Tabled
  <1>5. \A s \in SourceKeys : S[s] # None =>
               /\ S[s].url \in {Url, None}
               /\ S[s].status \in {"ok", "unreachable", "refused", "incompatible", "failed"}
    BY <1>3 DEF SourceRows
  <1>6. \A i \in RowIds : T[i] # None => T[i].state \in States /\ T[i].reason \in Reasons
    BY <1>4 DEF EvidenceRows
  <1> QED BY <1>1, <1>2, <1>5, <1>6 DEF RegistryOK

\* The type invariant after a step, from its tables.
LEMMA Typed ==
  ASSUME RegistryOK(models'), adapters' \subseteq AdapterRows,
         sources' \in [SourceKeys -> SourceRows \cup {None}], rows' \in Tabled,
         clock' \in 0 .. MaxClock, published' \in [Keys -> 0 .. clock'],
         \A i \in RowIds : rows'[i] # None =>
            sources'[i[1]] # None /\ sources'[i[1]].imported,
         \A p \in Pulls : pull'[p].pc \in Stages
  PROVE  TypeOK' /\ Tables'
  <1>1. /\ \A m \in models' : IsLocalModel(m)
        /\ \A a \in adapters' : IsLocalAdapter(a)
        /\ \A m, n \in models' : m.id = n.id \/ CanonicalId(m) = CanonicalId(n) => m = n
        /\ \A s \in SourceKeys : sources'[s] # None =>
               /\ sources'[s].url \in {Url, None}
               /\ sources'[s].status \in {"ok", "unreachable", "refused", "incompatible", "failed"}
        /\ \A i \in RowIds : rows'[i] # None =>
               rows'[i].state \in States /\ rows'[i].reason \in Reasons
    BY Shapes
  <1>2. Tables'
    BY DEF Tables, Tabled
  <1>3. TypeOK'
    BY <1>1 DEF TypeOK
  <1> QED BY <1>2, <1>3

\* What the invariant asks of a pull.
PullOK(pq, S, versions, now) ==
    /\ pq.pc \in Stages
    /\ pq.since # None => pq.since \in 0 .. now /\ S[Producer] # None
    /\ pq.pc = "fetched" => Snapshot(pq.bundle, pq.since, TRUE, versions, now)

\* The pulls after a step in which one of them moves, or none.
LEMMA Moves ==
  ASSUME TypeOK, Fetched, UNCHANGED <<published, clock, file>>,
         sources[Producer] # None => sources'[Producer] # None,
         DOMAIN pull' = Pulls,
         \A p \in Pulls : pull'[p] = pull[p] \/ PullOK(pull'[p], sources', published, clock)
  PROVE  Fetched' /\ \A p \in Pulls : pull'[p].pc \in Stages
  <1>1. \A p \in Pulls : PullOK(pull[p], sources', published, clock)
    BY DEF TypeOK, Fetched, PullOK
  <1>2. \A p \in Pulls : PullOK(pull'[p], sources', published, clock)
    BY <1>1
  <1> QED BY <1>2 DEF Fetched, PullOK

\* A pull that waits, is over or records its failure asks for nothing.
LEMMA Resting ==
  ASSUME NEW s \in Stages, s # "fetched", NEW S, NEW versions, NEW now
  PROVE  /\ PullOK([Waiting EXCEPT !.pc = s], S, versions, now)
         /\ PullOK(Over, S, versions, now) /\ Over.pc = "over"
         /\ [Waiting EXCEPT !.pc = s].pc = s
  BY DEF PullOK, Waiting, Over, Stages

\* No measurement falls behind.
KeepsCaught == \A k \in Keys : Caught(k) => Caught(k)'

\* The producer publishes or withdraws a measurement.
LEMMA Produces ==
  ASSUME EvidenceInv, NEW k \in Produced, Publish(k) \/ Withdraw(k)
  PROVE  EvidenceInv' /\ KeepsCaught
  <1>1. /\ clock < MaxClock /\ clock' = clock + 1 /\ clock \in Nat /\ clock' \in 0 .. MaxClock
        /\ published' = [published EXCEPT ![k] = published'[k]]
        /\ published'[k] \in {0, clock + 1} /\ published \in [Keys -> 0 .. clock]
        /\ UNCHANGED <<file, models, adapters, sources, rows, pull>> /\ k \in Keys
        /\ MaxClock \in Nat
    BY EvidenceAssumption DEF Publish, Withdraw, EvidenceInv, TypeOK
  <1>2. /\ \A c \in Keys : published'[c] = published[c] \/ published'[c] \in {0, clock + 1}
        /\ published' \in [Keys -> 0 .. clock']
    BY <1>1
  <1>3. /\ RegistryOK(models') /\ adapters' \subseteq AdapterRows
        /\ sources' \in [SourceKeys -> SourceRows \cup {None}] /\ rows' \in Tabled
        /\ \A i \in RowIds : rows'[i] # None =>
              sources'[i[1]] # None /\ sources'[i[1]].imported
        /\ \A p \in Pulls : pull'[p].pc \in Stages
    BY <1>1 DEF EvidenceInv, Tables, Tabled, TypeOK
  <1>4. TypeOK' /\ Tables'
    BY <1>1, <1>2, <1>3, Typed
  <1>5. HonestBinding' /\ Badged'
    BY <1>1 DEF EvidenceInv, HonestBinding, Badged
  <1>6. Sourced'
    BY <1>1 DEF EvidenceInv, Sourced
  <1>7. ASSUME NEW b, NEW since, since = None \/ since \in Nat, NEW whole,
               Snapshot(b, since, whole, published, clock)
        PROVE  Snapshot(b, since, whole, published', clock')
    <2> DEFINE floor == IF since = None THEN 0 ELSE since
    <2>1. floor \in Nat /\ b.generated \in floor .. clock
      BY <1>7 DEF Snapshot
    <2>2. \A c \in Keys : published'[c] \in floor + 1 .. b.generated =>
                published'[c] = published[c]
      BY <1>1, <1>2, <2>1
    <2>3. \A c \in Keys : published'[c] = published[c] \/ published'[c] = 0
                          \/ published'[c] > b.generated
      BY <1>1, <1>2, <2>1
    <2>4. IsBundle(b) /\ \A i \in DOMAIN b.records : b.records[i].key \in Keys
      <3>1. IsBundle(b)
        BY <1>7 DEF Snapshot
      <3>2. b.records \in Seq(Record)
        BY <3>1 DEF IsBundle
      <3>3. \A i \in DOMAIN b.records : b.records[i] \in Record
        BY <3>2
      <3> QED BY <3>1, <3>3 DEF Record
    <2>5. b.generated \in floor .. clock'
      BY <1>1, <2>1
    <2>6. /\ b.source = Producer /\ (b.complete <=> since = None /\ whole)
          /\ whole => \A c \in Keys : published[c] \in floor + 1 .. b.generated =>
                \E i \in DOMAIN b.records : b.records[i].key = c
          /\ \A i \in DOMAIN b.records :
                /\ b.records[i].version > floor
                /\ \/ published[b.records[i].key] \in {0, b.records[i].version}
                   \/ published[b.records[i].key] > b.generated
      BY <1>7 DEF Snapshot
    <2>7. whole => \A c \in Keys : published'[c] \in floor + 1 .. b.generated =>
                \E i \in DOMAIN b.records : b.records[i].key = c
      BY <2>2, <2>6
    <2>8. \A i \in DOMAIN b.records :
                \/ published'[b.records[i].key] \in {0, b.records[i].version}
                \/ published'[b.records[i].key] > b.generated
      BY <2>3, <2>4, <2>6
    <2> QED BY <2>4, <2>5, <2>6, <2>7, <2>8 DEF Snapshot
  <1>8. Fetched'
    <2>1. file # None => Snapshot(file, None, file.complete, published', clock')
      BY <1>7 DEF EvidenceInv, Fetched
    <2>2. ASSUME NEW p \in Pulls
          PROVE  /\ pull[p].since # None =>
                       pull[p].since \in 0 .. clock' /\ sources[Producer] # None
                 /\ pull[p].pc = "fetched" =>
                       Snapshot(pull[p].bundle, pull[p].since, TRUE, published', clock')
      <3>1. /\ pull[p].since # None =>
                  pull[p].since \in 0 .. clock /\ sources[Producer] # None
            /\ pull[p].pc = "fetched" =>
                  Snapshot(pull[p].bundle, pull[p].since, TRUE, published, clock)
        BY DEF EvidenceInv, Fetched
      <3>2. pull[p].since = None \/ pull[p].since \in Nat
        BY <1>1, <3>1
      <3>3. pull[p].since # None =>
               pull[p].since \in 0 .. clock' /\ sources[Producer] # None
        BY <1>1, <3>1
      <3>4. pull[p].pc = "fetched" =>
               Snapshot(pull[p].bundle, pull[p].since, TRUE, published', clock')
        BY <1>7, <3>1, <3>2
      <3> QED BY <3>3, <3>4
    <2> QED BY <1>1, <2>1, <2>2 DEF EvidenceInv, Fetched
  <1>9. KeepsCaught
    <2> SUFFICES ASSUME NEW c \in Keys, Caught(c), sources[Producer] # None,
                        published'[c] \in 1 .. sources[Producer].generated
                 PROVE  /\ rows[<<Producer, c>>] # None
                        /\ rows[<<Producer, c>>].version = published'[c]
                        /\ rows[<<Producer, c>>].reason # "superseded"
      BY <1>1 DEF KeepsCaught, Caught
    <2>1. sources[Producer].generated \in 0 .. clock
      BY DEF EvidenceInv, Sourced
    <2>2. published'[c] = published[c]
      BY <1>1, <1>2, <2>1
    <2> QED BY <2>2 DEF Caught
  <1> QED BY <1>4, <1>5, <1>6, <1>8, <1>9 DEF EvidenceInv

\* What the producer answers is a snapshot of what it has, whole unless a filter
\* was asked for.
LEMMA Exported ==
  ASSUME EvidenceInv, NEW since, since = None \/ since \in 0 .. clock, NEW only, NEW major,
         NEW b \in Exports(since, only, major)
  PROVE  Snapshot(b, since, only = Keys, published, clock)
  <1> DEFINE floor == IF since = None THEN 0 ELSE since
             wanted == Carried(since) \cap only
  <1>1. /\ clock \in Nat /\ published \in [Keys -> 0 .. clock] /\ floor \in 0 .. clock
        /\ Carried(since) = {k \in Keys : published[k] > floor}
    BY DEF EvidenceInv, TypeOK, Carried
  <1>2. PICK bad \in SUBSET wanted :
          \E s \in SetToSeqs({[key |-> k, version |-> published[k], valid |-> k \notin bad] :
                                k \in wanted}) :
            b = [source |-> Producer, major |-> major, complete |-> since = None /\ only = Keys,
                 generated |-> clock, records |-> s]
    BY Zenon DEF Exports
  <1> DEFINE rec == [k \in wanted |->
                        [key |-> k, version |-> published[k], valid |-> k \notin bad]]
             carried == {rec[k] : k \in wanted}
             n == Cardinality(carried)
  <1>3. carried = {[key |-> k, version |-> published[k], valid |-> k \notin bad] : k \in wanted}
    BY Zenon
  <1>4. PICK s \in SetToSeqs(carried) :
            b = [source |-> Producer, major |-> major, complete |-> since = None /\ only = Keys,
                 generated |-> clock, records |-> s]
    BY <1>2, <1>3
  <1>5. /\ b.source = Producer /\ b.complete = (since = None /\ only = Keys)
        /\ b.generated = clock /\ b.records = s
    BY <1>4
  <1>6. ASSUME NEW k \in wanted
        PROVE  /\ rec[k] \in Record /\ rec[k].key = k /\ rec[k].version = published[k]
               /\ k \in Keys /\ published[k] > floor
    <2> DEFINE good == k \notin bad
    <2>1. rec[k] = [key |-> k, version |-> published[k], valid |-> good] /\ good \in BOOLEAN
      OBVIOUS
    <2>2. k \in Keys /\ published[k] > floor /\ published[k] \in Nat
      BY <1>1
    <2> HIDE DEF good, rec
    <2> QED BY <2>1, <2>2 DEF Record
  <1>7. IsFiniteSet(carried)
    <2>1. IsFiniteSet(wanted)
      BY <1>1, EvidenceAssumption, FS_Subset
    <2>2. rec \in Surjection(wanted, carried)
      BY DEF Surjection
    <2> HIDE DEF rec, carried, wanted
    <2> QED BY <2>1, <2>2, FS_Surjection
  <1> HIDE DEF rec
  <1>8. n \in Nat
    BY <1>7, FS_CardinalityType
  <1>9. s \in [1 .. n -> carried] /\ \A i, j \in 1 .. n : i # j => s[i] # s[j]
    BY <1>4 DEF SetToSeqs
  <1> HIDE DEF carried
  <1>10. s \in Surjection(1 .. n, carried)
    <2>1. s \in Injection(1 .. n, carried)
      BY <1>9 DEF Injection, IsInjective
    <2>2. Cardinality(1 .. n) = n
      BY <1>8, FS_Interval
    <2> QED BY <1>7, <2>1, <2>2, FS_Injection
  <1>11. DOMAIN s = 1 .. n /\ \A r \in carried : \E i \in DOMAIN s : s[i] = r
    BY <1>9, <1>10 DEF Surjection
  <1>12. \A i \in DOMAIN s : \E k \in wanted : s[i] = rec[k]
    BY <1>9 DEF carried
  <1>13. s \in Seq(Record)
    <2>1. \A i \in 1 .. n : s[i] \in Record
      BY <1>6, <1>11, <1>12
    <2>2. s \in [1 .. n -> Record]
      BY <1>9, <2>1
    <2> QED BY <1>8, <2>2
  <1>14. IsBundle(b)
    BY <1>1, <1>5, <1>13 DEF IsBundle
  <1>15. ASSUME only = Keys, NEW k \in Keys, published[k] \in floor + 1 .. clock
         PROVE  \E i \in DOMAIN s : s[i].key = k
    <2>1. k \in wanted
      BY <1>1, <1>15
    <2>2. rec[k] \in carried
      BY <2>1 DEF carried
    <2>3. PICK i \in DOMAIN s : s[i] = rec[k]
      BY <1>11, <2>2
    <2> QED BY <1>6, <2>1, <2>3
  <1>16. \A i \in DOMAIN s : s[i].version > floor /\ published[s[i].key] = s[i].version
    BY <1>6, <1>12
  <1>17. clock \in floor .. clock
    BY <1>1
  <1> HIDE DEF floor
  <1> QED BY <1>5, <1>14, <1>15, <1>16, <1>17 DEF Snapshot, floor

\* Which row stands for the configured URL: the producer's if it has imported
\* from there, else a placeholder, else none.
LEMMA SourceHere ==
  ASSUME EvidenceInv
  PROVE  LET s == SourceForUrl(Url)
         IN  /\ s = None \/ (s \in {Url, Producer} /\ sources[s] # None /\ sources[s].url = Url)
             /\ /\ sources[Producer] # None /\ sources[Producer].url = Url
                /\ sources[Producer].imported
                => s = Producer
  <1> DEFINE here     == {s \in SourceKeys : sources[s] # None /\ sources[s].url = Url}
             imported == {s \in here : sources[s].imported}
             it       == CHOOSE s \in here : imported # {} => s \in imported
  <1>1. SourceForUrl(Url) = IF here = {} THEN None ELSE it
    BY Zenon DEF SourceForUrl
  <1>2. Url # None /\ SourceKeys = {Producer, Manual.source, Url}
    BY EvidenceAssumption DEF SourceKeys
  <1>3. here \subseteq {Url, Producer}
    BY <1>2 DEF EvidenceInv, Sourced
  <1>4. imported \subseteq {Producer}
    BY <1>3 DEF EvidenceInv, Sourced
  <1>5. here # {} => it \in here /\ (imported # {} => it \in imported)
    OBVIOUS
  <1>6. ASSUME sources[Producer] # None, sources[Producer].url = Url, sources[Producer].imported
        PROVE  here # {} /\ it = Producer
    <2>1. Producer \in here /\ Producer \in imported
      BY <1>2, <1>6
    <2> QED BY <1>4, <1>5, <2>1
  <1>7. \A s \in here : s \in {Url, Producer} /\ sources[s] # None /\ sources[s].url = Url
    BY <1>3
  <1> HIDE DEF here, imported, it
  <1> QED BY <1>1, <1>5, <1>6, <1>7

\* last_generated_at is an instant the producer's clock has shown, or None.
LEMMA LastRead ==
  ASSUME EvidenceInv
  PROVE  LastGeneratedAt(Url) # None =>
            LastGeneratedAt(Url) \in 0 .. clock /\ sources[Producer] # None
  <1> DEFINE s == SourceForUrl(Url)
  <1>1. s = None \/ (s \in {Url, Producer} /\ sources[s] # None)
    BY SourceHere
  <1>2. LastGeneratedAt(Url) = IF s = None THEN None ELSE sources[s].generated
    BY Zenon DEF LastGeneratedAt
  <1> HIDE DEF s
  <1> QED BY <1>1, <1>2 DEF EvidenceInv, Sourced

\* Only a pull moves.
LEMMA Pulls1 ==
  ASSUME EvidenceInv, NEW p \in Pulls, NEW pq, PullOK(pq, sources, published, clock),
         pull' = [pull EXCEPT ![p] = pq],
         UNCHANGED <<published, clock, file, models, adapters, sources, rows>>
  PROVE  EvidenceInv' /\ KeepsCaught
  <1>1. DOMAIN pull' = Pulls /\ \A r \in Pulls : pull'[r] = pull[r] \/ pull'[r] = pq
    BY DEF EvidenceInv, Fetched
  <1>2. Fetched' /\ \A r \in Pulls : pull'[r].pc \in Stages
    BY <1>1, Moves DEF EvidenceInv
  <1>3. TypeOK' /\ Tables'
    BY <1>2, Typed DEF EvidenceInv, Tables, Tabled, TypeOK
  <1>4. HonestBinding' /\ Badged' /\ Sourced'
    BY DEF EvidenceInv, HonestBinding, Badged, Sourced
  <1>5. KeepsCaught
    BY DEF KeepsCaught, Caught
  <1> QED BY <1>2, <1>3, <1>4, <1>5 DEF EvidenceInv

\* Reading the instant, asking, and an answer that cannot be used.
LEMMA Asks ==
  ASSUME EvidenceInv, NEW p \in Pulls,
         \/ ReadSince(p)
         \/ \E answer \in Answers, major \in Majors : Ask(p, answer, major)
         \/ PulledUnusable(p)
  PROVE  EvidenceInv' /\ KeepsCaught
  <1>1. CASE ReadSince(p)
    <2> DEFINE since == LastGeneratedAt(Url)
               pq == [Waiting EXCEPT !.pc = "asking", !.since = since]
    <2>1. since # None => since \in 0 .. clock /\ sources[Producer] # None
      BY LastRead
    <2> HIDE DEF since
    <2>2. pq.pc = "asking" /\ pq.since = since
      BY DEF Waiting
    <2>3. pull' = [pull EXCEPT ![p] = pq]
          /\ UNCHANGED <<published, clock, file, models, adapters, sources, rows>>
      BY <1>1 DEF ReadSince, since
    <2> HIDE DEF pq
    <2>4. PullOK(pq, sources, published, clock)
      BY <2>1, <2>2 DEF PullOK, Stages
    <2> QED BY <2>3, <2>4, Pulls1
  <1>2. CASE \E answer \in Answers, major \in Majors : Ask(p, answer, major)
    <2>1. PICK answer \in Answers, major \in Majors : Ask(p, answer, major)
      BY <1>2
    <2> DEFINE outcome == PullOutcome(answer)
    <2>2. PICK bundle \in Exports(pull[p].since, Keys, major) :
              pull' = [pull EXCEPT ![p] =
                  IF outcome = "fetched"
                  THEN [pc |-> "fetched", since |-> pull[p].since, bundle |-> bundle]
                  ELSE IF p \in Scheduled /\ outcome # "escaped"
                  THEN [Waiting EXCEPT !.pc = outcome] ELSE Over]
      BY <2>1 DEF Ask
    <2>3. UNCHANGED <<published, clock, file, models, adapters, sources, rows>>
      BY <2>1 DEF Ask
    <2>4. pull[p].since # None => pull[p].since \in 0 .. clock /\ sources[Producer] # None
      BY DEF EvidenceInv, Fetched
    <2>5. Snapshot(bundle, pull[p].since, TRUE, published, clock)
      <3>1. Snapshot(bundle, pull[p].since, Keys = Keys, published, clock)
        BY <2>4, Exported
      <3> QED BY <3>1 DEF Snapshot
    <2>6. outcome \in {"fetched", "refused", "unreachable", "incompatible", "escaped"}
      BY EvidenceAssumption DEF Outcomes
    <2> HIDE DEF outcome
    <2>7. CASE outcome = "fetched"
      <3> DEFINE pq == [pc |-> "fetched", since |-> pull[p].since, bundle |-> bundle]
      <3>1. pq.pc = "fetched" /\ pq.since = pull[p].since /\ pq.bundle = bundle
        OBVIOUS
      <3>2. pull' = [pull EXCEPT ![p] = pq]
        BY <2>2, <2>7
      <3> HIDE DEF pq
      <3>3. PullOK(pq, sources, published, clock)
        BY <2>4, <2>5, <3>1 DEF PullOK, Stages
      <3> QED BY <2>3, <3>2, <3>3, Pulls1
    <2>8. CASE outcome \notin {"fetched", "escaped"} /\ p \in Scheduled
      <3> DEFINE pq == [Waiting EXCEPT !.pc = outcome]
      <3>1. PullOK(pq, sources, published, clock)
        BY <2>6, <2>8, Resting DEF Stages
      <3>2. pull' = [pull EXCEPT ![p] = pq]
        BY <2>2, <2>8
      <3> HIDE DEF pq
      <3> QED BY <2>3, <3>1, <3>2, Pulls1
    <2>9. CASE outcome # "fetched" /\ (p \notin Scheduled \/ outcome = "escaped")
      <3>1. PullOK(Over, sources, published, clock)
        BY Resting DEF Stages
      <3>2. pull' = [pull EXCEPT ![p] = Over]
        BY <2>2, <2>9
      <3> QED BY <2>3, <3>1, <3>2, Pulls1
    <2> QED BY <2>7, <2>8, <2>9
  <1>3. CASE PulledUnusable(p)
    <2> DEFINE pq == IF p \in Scheduled THEN [Waiting EXCEPT !.pc = "failed"] ELSE Over
    <2>1. PullOK(pq, sources, published, clock)
      BY Resting DEF Stages
    <2>2. pull' = [pull EXCEPT ![p] = pq]
          /\ UNCHANGED <<published, clock, file, models, adapters, sources, rows>>
      BY <1>3 DEF PulledUnusable
    <2> HIDE DEF pq
    <2> QED BY <2>1, <2>2, Pulls1
  <1> QED BY <1>1, <1>2, <1>3

\* Somebody saves an export.
LEMMA Saves ==
  ASSUME EvidenceInv, SaveFile
  PROVE  EvidenceInv' /\ KeepsCaught
  <1>1. PICK only \in Filters :
          /\ file' \in Exports(None, only, 1)
          /\ UNCHANGED <<published, clock, models, adapters, sources, rows, pull>>
    BY DEF SaveFile
  <1>2. Snapshot(file', None, file'.complete, published, clock)
    <2>1. Snapshot(file', None, only = Keys, published, clock)
      BY <1>1, Exported
    <2> QED BY <2>1 DEF Snapshot
  <1>3. Fetched'
    BY <1>1, <1>2 DEF EvidenceInv, Fetched
  <1>4. TypeOK' /\ Tables' /\ HonestBinding' /\ Badged' /\ Sourced'
    BY <1>1 DEF EvidenceInv, TypeOK, Tables, HonestBinding, Badged, Sourced
  <1>5. KeepsCaught
    BY <1>1 DEF KeepsCaught, Caught
  <1> QED BY <1>3, <1>4, <1>5 DEF EvidenceInv

\* The failure of a refresh, recorded.
LEMMA Fails ==
  ASSUME EvidenceInv, NEW p \in Pulls, MarkSourceUnreachable(p) \/ RecordSourceFailure(p)
  PROVE  EvidenceInv' /\ KeepsCaught
  <1> DEFINE s == SourceForUrl(Url)
  <1>1. s = None \/ (s \in {Url, Producer} /\ sources[s] # None /\ sources[s].url = Url)
    BY SourceHere
  <1> HIDE DEF s
  <1>2. UNCHANGED <<published, clock, file, models, adapters>>
    BY DEF MarkSourceUnreachable, RecordSourceFailure
  <1>3. /\ sources \in [SourceKeys -> SourceRows \cup {None}] /\ rows \in Tabled
        /\ None \notin SourceRows /\ None \notin EvidenceRows /\ DOMAIN pull = Pulls
        /\ Producer \in SourceKeys /\ Url \in SourceKeys /\ Producer # Url
        /\ Manual.source \in SourceKeys /\ Manual.source \notin {Producer, Url}
    BY EvidenceAssumption DEF EvidenceInv, Tables, Tabled, Fetched, SourceKeys
  <1>4. ASSUME NEW status \in {"unreachable", "refused", "incompatible", "failed"},
               s # None, sources' = [sources EXCEPT ![s].status = status]
        PROVE  /\ sources' \in [SourceKeys -> SourceRows \cup {None}]
               /\ sources'[s].status = status /\ sources'[s] # None
               /\ sources'[s].url = sources[s].url /\ sources'[s].imported = sources[s].imported
               /\ sources'[s].generated = sources[s].generated
               /\ \A x \in SourceKeys : x # s => sources'[x] = sources[x]
    <2>1. s \in SourceKeys /\ sources[s] \in SourceRows
      BY <1>1, <1>3, <1>4
    <2> DEFINE row == [sources[s] EXCEPT !.status = status]
    <2>2. /\ row \in SourceRows /\ row.status = status /\ row.url = sources[s].url
          /\ row.imported = sources[s].imported /\ row.generated = sources[s].generated
      BY <2>1 DEF SourceRows
    <2>3. sources' = [sources EXCEPT ![s] = row]
      BY <1>4
    <2> HIDE DEF row
    <2> QED BY <1>3, <2>1, <2>2, <2>3
  <1>5. ASSUME sources' \in [SourceKeys -> SourceRows \cup {None}], rows' \in Tabled,
               \A x \in SourceKeys : sources[x] # None => sources'[x] # None
                  /\ sources'[x].imported = sources[x].imported /\ sources'[x].url = sources[x].url
                  /\ sources'[x].generated = sources[x].generated,
               sources[Producer] = None => sources'[Producer] = None,
               sources[Manual.source] = None => sources'[Manual.source] = None,
               sources[Url] = None /\ sources'[Url] # None =>
                  /\ sources'[Url].url = Url /\ ~sources'[Url].imported
                  /\ sources'[Url].generated = None,
               \A i \in RowIds : /\ rows[i] = None <=> rows'[i] = None
                                 /\ rows[i] # None => /\ rows'[i].version = rows[i].version
                                                      /\ rows'[i].state = rows[i].state
                                                      /\ rows'[i].model = rows[i].model
                                                      /\ rows'[i].adapter = rows[i].adapter
                                                      /\ rows'[i].reason = "superseded" =>
                                                            rows[i].reason = "superseded",
               Badged', NEW pq, PullOK(pq, sources', published, clock),
               pull' = [pull EXCEPT ![p] = pq]
        PROVE  EvidenceInv' /\ KeepsCaught
    <2>1. DOMAIN pull' = Pulls /\ \A r \in Pulls : pull'[r] = pull[r] \/ pull'[r] = pq
      BY <1>3, <1>5
    <2>2. Fetched' /\ \A r \in Pulls : pull'[r].pc \in Stages
      BY <1>2, <1>3, <1>5, <2>1, Moves DEF EvidenceInv
    <2>3. \A i \in RowIds : rows'[i] # None =>
             sources'[i[1]] # None /\ sources'[i[1]].imported
      <3>1. \A i \in RowIds : i[1] \in SourceKeys
        BY DEF RowIds, SourceKeys
      <3> QED BY <1>5, <3>1 DEF EvidenceInv, TypeOK
    <2>4. TypeOK' /\ Tables'
      BY <1>2, <1>5, <2>2, <2>3, Typed DEF EvidenceInv, Tables, TypeOK
    <2>5. Sourced'
      BY <1>2, <1>3, <1>5 DEF EvidenceInv, Sourced
    <2>6. HonestBinding'
      <3>1. ASSUME NEW i \in RowIds, rows'[i] # None
            PROVE  Honest(rows'[i], i[2], models', adapters')
        <4>1. Honest(rows[i], i[2], models, adapters)
          BY <1>5, <3>1 DEF EvidenceInv, HonestBinding, Honest
        <4>2. Honest(rows'[i], i[2], models, adapters)
          BY <1>5, <3>1, <4>1, SameBinding
        <4> QED BY <1>2, <4>2
      <3> QED BY <3>1 DEF HonestBinding, Honest
    <2>7. KeepsCaught
      <3> SUFFICES ASSUME NEW c \in Keys, Caught(c), sources'[Producer] # None,
                          published[c] \in 1 .. sources'[Producer].generated
                   PROVE  /\ rows'[<<Producer, c>>] # None
                          /\ rows'[<<Producer, c>>].version = published[c]
                          /\ rows'[<<Producer, c>>].reason # "superseded"
        BY <1>2 DEF KeepsCaught, Caught
      <3>1. sources[Producer] # None /\ sources'[Producer].generated = sources[Producer].generated
        BY <1>3, <1>5
      <3>2. <<Producer, c>> \in RowIds
        BY DEF RowIds
      <3>3. /\ rows[<<Producer, c>>] # None
            /\ rows[<<Producer, c>>].version = published[c]
            /\ rows[<<Producer, c>>].reason # "superseded"
        BY <3>1 DEF Caught
      <3> QED BY <1>5, <3>2, <3>3
    <2> QED BY <1>5, <2>2, <2>4, <2>5, <2>6, <2>7 DEF EvidenceInv
  <1>6. Badged
    BY DEF EvidenceInv
  <1>7. CASE MarkSourceUnreachable(p)
    <2> DEFINE pq == [Waiting EXCEPT !.pc = "marked"]
    <2>1. PullOK(pq, sources', published, clock) /\ pull' = [pull EXCEPT ![p] = pq]
      BY <1>7, Resting DEF MarkSourceUnreachable, Stages
    <2> HIDE DEF pq
    <2>2. CASE s = None
      <3>1. UNCHANGED <<sources, rows>>
        BY <1>7, <2>2 DEF MarkSourceUnreachable, s
      <3>2. Badged'
        BY <1>6, <3>1 DEF Badged
      <3> QED BY <1>3, <1>5, <2>1, <3>1, <3>2
    <2>3. CASE s # None
      <3>1. /\ sources' = [sources EXCEPT ![s].status = "unreachable"]
            /\ rows' = [i \in RowIds |->
                  IF i[1] = s /\ rows[i] # None /\ rows[i].reason # "superseded"
                  THEN [rows[i] EXCEPT !.reason = "source_unreachable"] ELSE rows[i]]
        BY <1>7, <2>3 DEF MarkSourceUnreachable, s
      <3>2. /\ sources' \in [SourceKeys -> SourceRows \cup {None}]
            /\ sources'[s].status = "unreachable" /\ sources'[s] # None
            /\ sources'[s].url = sources[s].url /\ sources'[s].imported = sources[s].imported
            /\ sources'[s].generated = sources[s].generated
            /\ \A x \in SourceKeys : x # s => sources'[x] = sources[x]
        BY <1>4, <2>3, <3>1
      <3>3. ASSUME NEW i \in RowIds
            PROVE  /\ rows'[i] \in EvidenceRows \cup {None}
                   /\ rows[i] = None <=> rows'[i] = None
                   /\ rows[i] # None => /\ rows'[i].version = rows[i].version
                                        /\ rows'[i].state = rows[i].state
                                        /\ rows'[i].model = rows[i].model
                                        /\ rows'[i].adapter = rows[i].adapter
                                        /\ rows'[i].reason = "superseded" =>
                                              rows[i].reason = "superseded"
                   /\ i[1] # s => rows'[i] = rows[i]
        <4>1. CASE i[1] = s /\ rows[i] # None /\ rows[i].reason # "superseded"
          <5>1. rows'[i] = [rows[i] EXCEPT !.reason = "source_unreachable"]
            BY <3>1, <4>1
          <5>2. rows[i] \in EvidenceRows
            BY <1>3, <4>1 DEF Tabled
          <5>3. "source_unreachable" \in Reasons
            BY DEF Reasons
          <5>4. /\ rows'[i] \in EvidenceRows /\ rows'[i].reason = "source_unreachable"
                /\ rows'[i].version = rows[i].version /\ rows'[i].state = rows[i].state
                /\ rows'[i].model = rows[i].model /\ rows'[i].adapter = rows[i].adapter
            BY <5>1, <5>2, <5>3, Badging
          <5> QED BY <1>3, <4>1, <5>4
        <4>2. CASE ~(i[1] = s /\ rows[i] # None /\ rows[i].reason # "superseded")
          <5>1. rows'[i] = rows[i]
            BY <3>1, <4>2
          <5> QED BY <1>3, <5>1 DEF Tabled
        <4> QED BY <4>1, <4>2
      <3>4. rows' \in Tabled
        BY <3>1, <3>3 DEF Tabled
      <3>5. Badged'
        <4> SUFFICES ASSUME NEW i \in RowIds, rows'[i] # None,
                            rows'[i].reason = "source_unreachable"
                     PROVE  /\ i[1] = Producer /\ sources'[Producer].url = Url
                            /\ sources'[Producer].status # "ok"
          BY DEF Badged
        <4>1. CASE i[1] = s
          <5>1. i[1] # Url
            BY EvidenceAssumption DEF RowIds
          <5> QED BY <1>1, <2>3, <3>2, <4>1, <5>1
        <4>2. CASE i[1] # s
          <5>1. rows'[i] = rows[i]
            BY <3>3, <4>2
          <5>2. /\ i[1] = Producer /\ sources[Producer].url = Url
                /\ sources[Producer].status # "ok"
            BY <1>6, <5>1 DEF Badged
          <5> QED BY <1>3, <3>2, <4>2, <5>2
        <4> QED BY <4>1, <4>2
      <3>6. \A x \in SourceKeys : sources[x] # None => sources'[x] # None
                  /\ sources'[x].imported = sources[x].imported /\ sources'[x].url = sources[x].url
                  /\ sources'[x].generated = sources[x].generated
        BY <3>2
      <3>7. /\ sources[Producer] = None => sources'[Producer] = None
            /\ sources[Manual.source] = None => sources'[Manual.source] = None
            /\ sources[Url] = None => sources'[Url] = None
        BY <1>1, <1>3, <2>3, <3>2
      <3> QED BY <1>5, <2>1, <3>2, <3>3, <3>4, <3>5, <3>6, <3>7
    <2> QED BY <2>2, <2>3
  <1>8. CASE RecordSourceFailure(p)
    <2> DEFINE status == IF pull[p].pc = "marked" THEN "unreachable" ELSE pull[p].pc
    <2>1. status \in {"unreachable", "refused", "incompatible", "failed"}
      BY <1>8 DEF RecordSourceFailure
    <2>2. PullOK(Over, sources', published, clock) /\ pull' = [pull EXCEPT ![p] = Over]
      BY <1>8, Resting DEF RecordSourceFailure, Stages
    <2>3. rows' = rows /\ sources' =
              IF s = None
              THEN [sources EXCEPT ![Url] = [url |-> Url, imported |-> FALSE,
                                             status |-> status, generated |-> None]]
              ELSE [sources EXCEPT ![s].status = status]
      BY <1>8 DEF RecordSourceFailure, s
    <2> HIDE DEF status
    <2>4. CASE s = None
      <3> DEFINE row == [url |-> Url, imported |-> FALSE, status |-> status, generated |-> None]
      <3>1. row \in SourceRows /\ row.imported = FALSE /\ row.generated = None /\ row.url = Url
        BY <2>1 DEF SourceRows
      <3>2. sources' = [sources EXCEPT ![Url] = row]
        BY <2>3, <2>4
      <3> HIDE DEF row
      <3>3. /\ sources' \in [SourceKeys -> SourceRows \cup {None}] /\ sources'[Url] = row
            /\ \A x \in SourceKeys : x # Url => sources'[x] = sources[x]
        BY <1>3, <3>1, <3>2
      <3>4. sources[Url] # None => sources[Url].generated = None /\ sources[Url].imported = FALSE
        <4>1. sources[Url] # None => sources[Url].imported \in BOOLEAN
          BY <1>3 DEF SourceRows
        <4> QED BY <4>1 DEF EvidenceInv, Sourced
      <3>5. Badged'
        BY <1>3, <1>6, <2>3, <3>3 DEF Badged
      <3>6. sources[Url] # None => sources[Url].url = Url
        BY DEF EvidenceInv, Sourced
      <3>7. \A x \in SourceKeys : sources[x] # None => sources'[x] # None
                  /\ sources'[x].imported = sources[x].imported /\ sources'[x].url = sources[x].url
                  /\ sources'[x].generated = sources[x].generated
        <4> SUFFICES ASSUME NEW x \in SourceKeys, sources[x] # None
                     PROVE  /\ sources'[x] # None /\ sources'[x].imported = sources[x].imported
                            /\ sources'[x].url = sources[x].url
                            /\ sources'[x].generated = sources[x].generated
          OBVIOUS
        <4>1. CASE x = Url
          BY <1>3, <3>1, <3>3, <3>4, <3>6, <4>1
        <4>2. CASE x # Url
          BY <3>3, <4>2
        <4> QED BY <4>1, <4>2
      <3>8. /\ sources[Producer] = None => sources'[Producer] = None
            /\ sources[Manual.source] = None => sources'[Manual.source] = None
            /\ sources'[Url].url = Url /\ ~sources'[Url].imported
            /\ sources'[Url].generated = None
        BY <1>3, <3>1, <3>3
      <3> QED BY <1>3, <1>5, <2>2, <2>3, <3>3, <3>5, <3>7, <3>8
    <2>5. CASE s # None
      <3>1. /\ sources' \in [SourceKeys -> SourceRows \cup {None}]
            /\ sources'[s].status = status /\ sources'[s] # None
            /\ sources'[s].url = sources[s].url /\ sources'[s].imported = sources[s].imported
            /\ sources'[s].generated = sources[s].generated
            /\ \A x \in SourceKeys : x # s => sources'[x] = sources[x]
        BY <1>4, <2>1, <2>3, <2>5
      <3>2. Badged'
        <4> SUFFICES ASSUME NEW i \in RowIds, rows'[i] # None,
                            rows'[i].reason = "source_unreachable"
                     PROVE  /\ i[1] = Producer /\ sources'[Producer].url = Url
                            /\ sources'[Producer].status # "ok"
          BY DEF Badged
        <4>1. /\ i[1] = Producer /\ sources[Producer].url = Url
              /\ sources[Producer].status # "ok"
          BY <1>6, <2>3 DEF Badged
        <4>2. status # "ok"
          BY <2>1
        <4> QED BY <1>3, <3>1, <4>1, <4>2
      <3>3. \A x \in SourceKeys : sources[x] # None => sources'[x] # None
                  /\ sources'[x].imported = sources[x].imported /\ sources'[x].url = sources[x].url
                  /\ sources'[x].generated = sources[x].generated
        BY <3>1
      <3>4. /\ sources[Producer] = None => sources'[Producer] = None
            /\ sources[Manual.source] = None => sources'[Manual.source] = None
            /\ sources[Url] = None => sources'[Url] = None
        BY <1>1, <1>3, <2>5, <3>1
      <3> QED BY <1>3, <1>5, <2>2, <2>3, <3>1, <3>2, <3>3, <3>4
    <2> QED BY <2>4, <2>5
  <1> QED BY <1>7, <1>8

\* _upsert_source: the row of the producer says all is well, and of the others
\* only the placeholder it took over is gone.
LEMMA Upserted ==
  ASSUME EvidenceInv, NEW bundle, IsBundle(bundle), NEW url \in {None, Url},
         url # None => bundle.source = Producer
  PROVE  LET S == UpsertSource(bundle, url)
         IN  /\ S \in [SourceKeys -> SourceRows \cup {None}] /\ S[bundle.source] # None
             /\ S[bundle.source].imported = TRUE /\ S[bundle.source].status = "ok"
             /\ S[bundle.source].generated = bundle.generated
             /\ bundle.source = Manual.source => S[bundle.source].url = None
             /\ \A x \in SourceKeys : x \notin {bundle.source, Url} => S[x] = sources[x]
             /\ S[Url] = None \/ S[Url] = sources[Url]
  <1> DEFINE key   == bundle.source
             adopt == sources[key] = None /\ url # None /\ sources[Url] # None
             old   == IF adopt THEN sources[Url] ELSE sources[key]
             mine  == IF url # None \/ old = None THEN url ELSE old.url
             row   == [url |-> mine, imported |-> TRUE, status |-> "ok",
                       generated |-> bundle.generated]
             S     == UpsertSource(bundle, url)
  <1>1. S = [s \in SourceKeys |-> IF s = key THEN row
                                  ELSE IF adopt /\ s = Url THEN None ELSE sources[s]]
    BY Zenon DEF UpsertSource
  <1>2. /\ key \in {Producer, Manual.source} /\ key \in SourceKeys /\ Url \in SourceKeys
        /\ key # Url /\ Producer # Manual.source /\ bundle.generated \in Nat
        /\ None \notin SourceRows
    BY EvidenceAssumption DEF IsBundle, SourceKeys
  <1>3. sources \in [SourceKeys -> SourceRows \cup {None}]
    BY DEF EvidenceInv, Tables
  <1>4. old = None \/ old \in SourceRows
    BY <1>2, <1>3
  <1>5. mine \in {Url, None}
    <2>1. old # None => old.url \in {Url, None}
      BY <1>4 DEF SourceRows
    <2> QED BY <2>1
  <1>6. key = Manual.source => mine = None
    <2> SUFFICES ASSUME key = Manual.source PROVE mine = None
      OBVIOUS
    <2>1. url = None /\ old = sources[Manual.source]
      BY <1>2
    <2> QED BY <2>1 DEF EvidenceInv, Sourced
  <1> HIDE DEF mine, old, S
  <1>7. /\ row \in SourceRows /\ row.imported = TRUE /\ row.status = "ok" /\ row.url = mine
        /\ row.generated = bundle.generated
    BY <1>2, <1>5 DEF SourceRows
  <1> HIDE DEF row, adopt
  <1>8. S[key] = row /\ S \in [SourceKeys -> SourceRows \cup {None}]
    BY <1>1, <1>2, <1>3, <1>7
  <1>9. \A x \in SourceKeys : x \notin {key, Url} => S[x] = sources[x]
    BY <1>1
  <1>10. S[Url] = None \/ S[Url] = sources[Url]
    BY <1>1, <1>2
  <1> QED BY <1>2, <1>6, <1>7, <1>8, <1>9, <1>10 DEF S

\* An import, of a file or of what was pulled.
LEMMA Imports ==
  ASSUME EvidenceInv, NEW bundle, IsBundle(bundle), NEW url \in {None, Url},
         url # None => bundle.source = Producer,
         bundle.source = Producer => bundle.generated \in 0 .. clock,
         ImportBundle(bundle, url), DOMAIN pull' = Pulls,
         \A p \in Pulls : pull'[p] = pull[p] \/ PullOK(pull'[p], sources', published, clock)
  PROVE  EvidenceInv'
  <1> DEFINE source == bundle.source
  <1>1. /\ source \in {Producer, Manual.source} /\ source \in SourceKeys /\ Url \in SourceKeys
        /\ Producer \in SourceKeys /\ Manual.source \in SourceKeys
        /\ source # Url /\ Producer # Manual.source /\ Producer # Url /\ Manual.source # Url
        /\ None \notin SourceRows /\ SourceKeys = {Producer, Manual.source, Url}
    BY EvidenceAssumption DEF IsBundle, SourceKeys
  <1>2. /\ UNCHANGED <<published, clock, file, adapters>>
        /\ sources' = UpsertSource(bundle, url)
    BY DEF ImportBundle
  <1>3. /\ sources' \in [SourceKeys -> SourceRows \cup {None}] /\ sources'[source] # None
        /\ sources'[source].imported = TRUE /\ sources'[source].status = "ok"
        /\ sources'[source].generated = bundle.generated
        /\ source = Manual.source => sources'[source].url = None
        /\ \A x \in SourceKeys : x \notin {source, Url} => sources'[x] = sources[x]
        /\ sources'[Url] = None \/ sources'[Url] = sources[Url]
    <2> DEFINE S == UpsertSource(bundle, url)
    <2>1. /\ S \in [SourceKeys -> SourceRows \cup {None}] /\ S[bundle.source] # None
          /\ S[bundle.source].imported = TRUE /\ S[bundle.source].status = "ok"
          /\ S[bundle.source].generated = bundle.generated
          /\ bundle.source = Manual.source => S[bundle.source].url = None
          /\ \A x \in SourceKeys : x \notin {bundle.source, Url} => S[x] = sources[x]
          /\ S[Url] = None \/ S[Url] = sources[Url]
      BY Upserted
    <2>2. sources' = S
      BY <1>2
    <2> HIDE DEF S
    <2> QED BY <2>1, <2>2
  <1>4. /\ RegistryOK(models') /\ rows' \in Tabled /\ HonestBinding'
        /\ \A i \in RowIds : i[1] # source => rows'[i] = rows[i]
        /\ \A i \in RowIds : i[1] = source /\ rows'[i] # None =>
              rows'[i].reason # "source_unreachable"
    BY Writes DEF EvidenceInv
  <1> HIDE DEF source
  <1>5. \A i \in RowIds : i[1] \in {Producer, Manual.source}
    BY DEF RowIds
  <1>6. sources[Producer] # None => sources'[Producer] # None
    BY <1>1, <1>3
  <1>7. Fetched' /\ \A p \in Pulls : pull'[p].pc \in Stages
    BY <1>2, <1>6, Moves DEF EvidenceInv
  <1>8. \A i \in RowIds : rows'[i] # None =>
           sources'[i[1]] # None /\ sources'[i[1]].imported
    <2> SUFFICES ASSUME NEW i \in RowIds, rows'[i] # None
                 PROVE  sources'[i[1]] # None /\ sources'[i[1]].imported
      OBVIOUS
    <2>1. CASE i[1] = source
      BY <1>3, <2>1
    <2>2. CASE i[1] # source
      <3>1. sources'[i[1]] = sources[i[1]] /\ rows'[i] = rows[i]
        BY <1>1, <1>3, <1>4, <1>5, <2>2
      <3>2. sources[i[1]] # None /\ sources[i[1]].imported
        BY <3>1 DEF EvidenceInv, TypeOK
      <3> QED BY <3>1, <3>2
    <2> QED BY <2>1, <2>2
  <1>9. TypeOK' /\ Tables'
    BY <1>2, <1>3, <1>4, <1>7, <1>8, Typed DEF EvidenceInv, Tables, TypeOK
  <1>10. Sourced'
    <2>1. sources'[Url] # None =>
             /\ sources'[Url].url = Url /\ ~sources'[Url].imported
             /\ sources'[Url].generated = None
      BY <1>3 DEF EvidenceInv, Sourced
    <2>2. sources'[Manual.source] # None => sources'[Manual.source].url = None
      <3>1. CASE source = Manual.source
        BY <1>3, <3>1
      <3>2. CASE source # Manual.source
        <4>1. sources'[Manual.source] = sources[Manual.source]
          BY <1>1, <1>3, <3>2
        <4> QED BY <4>1 DEF EvidenceInv, Sourced
      <3> QED BY <3>1, <3>2
    <2>3. sources'[Producer] # None => sources'[Producer].generated \in 0 .. clock
      <3>1. CASE source = Producer
        BY <1>3, <3>1 DEF source
      <3>2. CASE source # Producer
        <4>1. sources'[Producer] = sources[Producer]
          BY <1>1, <1>3, <3>2
        <4> QED BY <4>1 DEF EvidenceInv, Sourced
      <3> QED BY <3>1, <3>2
    <2> QED BY <1>2, <2>1, <2>2, <2>3 DEF Sourced
  <1>11. Badged'
    <2> SUFFICES ASSUME NEW i \in RowIds, rows'[i] # None,
                        rows'[i].reason = "source_unreachable"
                 PROVE  /\ i[1] = Producer /\ sources'[Producer].url = Url
                        /\ sources'[Producer].status # "ok"
      BY DEF Badged
    <2>1. i[1] # source /\ rows'[i] = rows[i]
      BY <1>4
    <2>2. /\ i[1] = Producer /\ sources[Producer].url = Url
          /\ sources[Producer].status # "ok"
      BY <2>1 DEF EvidenceInv, Badged
    <2>3. sources'[Producer] = sources[Producer]
      BY <1>1, <1>3, <2>1, <2>2
    <2> QED BY <2>2, <2>3
  <1> QED BY <1>4, <1>7, <1>9, <1>10, <1>11 DEF EvidenceInv

\* A bundle of the producer leaves the store with a measurement up to its
\* instant, unless it starts after the instant the store stood at, has a record
\* that is rejected, or was filtered and comes later than the last bundle.
LEMMA Catches ==
  ASSUME EvidenceInv, NEW bundle, NEW since, since = None \/ since \in 0 .. clock, NEW whole,
         Snapshot(bundle, since, whole, published, clock), NEW url \in {None, Url},
         ImportBundle(bundle, url),
         since # None => /\ sources[Producer] # None
                         /\ since <= sources[Producer].generated,
         NEW k \in Keys, ~Rejects(bundle, k), whole \/ ~Omits(bundle, k)
  PROVE  Caught(k) => Caught(k)'
  <1> DEFINE floor == IF since = None THEN 0 ELSE since
             records == ToSet(bundle.records)
  <1>1. /\ IsBundle(bundle) /\ bundle.source = Producer /\ bundle.generated \in floor .. clock
        /\ (bundle.complete <=> since = None /\ whole)
        /\ whole => \A c \in Keys : published[c] \in floor + 1 .. bundle.generated =>
              \E i \in DOMAIN bundle.records : bundle.records[i].key = c
        /\ \A i \in DOMAIN bundle.records :
              /\ bundle.records[i].version > floor
              /\ \/ published[bundle.records[i].key] \in {0, bundle.records[i].version}
                 \/ published[bundle.records[i].key] > bundle.generated
    BY DEF Snapshot
  <1>2. /\ clock \in Nat /\ published \in [Keys -> 0 .. clock] /\ floor \in 0 .. clock
        /\ UNCHANGED <<published, clock>> /\ sources' = UpsertSource(bundle, url)
    BY DEF EvidenceInv, TypeOK, ImportBundle
  <1>3. sources'[Producer].generated = bundle.generated
    BY <1>1, <1>2, Upserted
  <1>4. /\ \A c \in Carries(bundle) :
              LET row == rows'[<<Producer, c>>]
              IN  /\ row # None /\ row.reason # "superseded"
                  /\ \E r \in records : r.valid /\ r.key = c /\ row.version = r.version
        /\ \A c \in Keys \ Carries(bundle) :
              LET old == rows[<<Producer, c>>]   row == rows'[<<Producer, c>>]
              IN  /\ old = None <=> row = None
                  /\ old # None => row.version = old.version
                  /\ ~bundle.complete /\ row # None /\ row.reason = "superseded" =>
                        old.reason = "superseded"
    BY <1>1, Writes DEF EvidenceInv
  <1>5. /\ \A i \in DOMAIN bundle.records : bundle.records[i] \in records
        /\ \A r \in records : \E i \in DOMAIN bundle.records : r = bundle.records[i]
    BY DEF ToSet
  <1>6. k \notin Carries(bundle) => \A i \in DOMAIN bundle.records : bundle.records[i].key # k
    BY <1>5 DEF Carries, Rejects
  <1>7. \A r \in records : /\ r.version > floor
                           /\ published[r.key] \in {0, r.version} \/ published[r.key] > bundle.generated
    BY <1>1, <1>5
  <1> HIDE DEF floor, records
  <1> SUFFICES ASSUME Caught(k), published[k] \in 1 .. bundle.generated
               PROVE  /\ rows'[<<Producer, k>>] # None
                      /\ rows'[<<Producer, k>>].version = published[k]
                      /\ rows'[<<Producer, k>>].reason # "superseded"
    BY <1>2, <1>3 DEF Caught
  <1>8. published[k] \in Nat /\ bundle.generated \in Nat
    BY <1>1, <1>2
  <1>9. CASE k \in Carries(bundle)
    <2>1. PICK r \in records : r.key = k /\ rows'[<<Producer, k>>].version = r.version
      BY <1>4, <1>9
    <2>2. published[k] = r.version
      BY <1>7, <1>8, <2>1
    <2> QED BY <1>4, <1>9, <2>1, <2>2
  <1>10. ASSUME ~bundle.complete, k \notin Carries(bundle), sources[Producer] # None,
                published[k] <= sources[Producer].generated
         PROVE  /\ rows'[<<Producer, k>>] # None
                /\ rows'[<<Producer, k>>].version = published[k]
                /\ rows'[<<Producer, k>>].reason # "superseded"
    <2>1. sources[Producer].generated \in 0 .. clock
      BY <1>10 DEF EvidenceInv, Sourced
    <2>2. published[k] \in 1 .. sources[Producer].generated
      BY <1>2, <1>8, <1>10, <2>1
    <2>3. /\ rows[<<Producer, k>>] # None
          /\ rows[<<Producer, k>>].version = published[k]
          /\ rows[<<Producer, k>>].reason # "superseded"
      BY <1>10, <2>2 DEF Caught
    <2> QED BY <1>4, <1>10, <2>3
  <1>11. CASE k \notin Carries(bundle) /\ whole
    <2>1. published[k] <= floor
      BY <1>1, <1>2, <1>6, <1>8, <1>11
    <2>2. since # None
      BY <1>8, <2>1 DEF floor
    <2>3. ~bundle.complete /\ floor = since
      BY <1>1, <2>2 DEF floor
    <2>4. sources[Producer] # None /\ sources[Producer].generated \in 0 .. clock
      BY <2>2 DEF EvidenceInv, Sourced
    <2>5. published[k] <= sources[Producer].generated
      BY <1>2, <1>8, <2>1, <2>2, <2>3, <2>4
    <2> QED BY <1>10, <1>11, <2>3, <2>4, <2>5
  <1>12. CASE k \notin Carries(bundle) /\ ~whole
    <2>1. ~bundle.complete
      BY <1>1, <1>12
    <2>2. sources[Producer] # None /\ ~(bundle.generated > sources[Producer].generated)
      BY <1>6, <1>12, <2>1 DEF Omits
    <2>3. sources[Producer].generated \in 0 .. clock
      BY <2>2 DEF EvidenceInv, Sourced
    <2>4. published[k] <= sources[Producer].generated
      BY <1>2, <1>8, <2>2, <2>3
    <2> QED BY <1>10, <1>12, <2>1, <2>2, <2>4
  <1> QED BY <1>9, <1>11, <1>12

\* A file is imported.
LEMMA ImportsFile ==
  ASSUME EvidenceInv, NEW bundle, ImportFile(bundle),
         bundle = Manual \/ (file # None /\ bundle = file)
  PROVE  /\ EvidenceInv'
         /\ bundle = Manual => KeepsCaught
         /\ file # None /\ bundle = file => \A k \in Keys :
               Caught(k) /\ ~Caught(k)' => Rejects(file, k) \/ Omits(file, k)
  <1>1. ImportBundle(bundle, None) /\ pull' = pull /\ DOMAIN pull = Pulls
    BY DEF ImportFile, EvidenceInv, Fetched
  <1>2. ASSUME bundle = Manual
        PROVE  EvidenceInv' /\ KeepsCaught
    <2>1. IsBundle(bundle) /\ bundle.source # Producer
      BY <1>2, EvidenceAssumption
    <2>2. EvidenceInv'
      BY <1>1, <2>1, Imports
    <2>3. /\ sources'[Producer] = sources[Producer] /\ UNCHANGED published
          /\ \A k \in Keys : rows'[<<Producer, k>>] = rows[<<Producer, k>>]
      <3>1. Producer \in SourceKeys /\ Producer # Url
        BY EvidenceAssumption DEF SourceKeys
      <3>2. sources'[Producer] = sources[Producer] /\ UNCHANGED published
        BY <1>1, <2>1, <3>1, Upserted DEF ImportBundle
      <3>3. \A i \in RowIds : i[1] # bundle.source => rows'[i] = rows[i]
        BY <1>1, <2>1, Writes DEF EvidenceInv
      <3>4. \A k \in Keys : <<Producer, k>> \in RowIds /\ <<Producer, k>>[1] = Producer
        BY DEF RowIds
      <3> QED BY <2>1, <3>2, <3>3, <3>4
    <2> QED BY <2>2, <2>3 DEF KeepsCaught, Caught
  <1>3. ASSUME file # None, bundle = file
        PROVE  /\ EvidenceInv'
               /\ \A k \in Keys : Caught(k) /\ ~Caught(k)' => Rejects(file, k) \/ Omits(file, k)
    <2>1. Snapshot(bundle, None, bundle.complete, published, clock)
      BY <1>3 DEF EvidenceInv, Fetched
    <2>2. IsBundle(bundle) /\ bundle.generated \in 0 .. clock
      BY <2>1 DEF Snapshot
    <2>3. EvidenceInv'
      BY <1>1, <2>2, Imports
    <2>4. ASSUME NEW k \in Keys, ~Rejects(bundle, k), ~Omits(bundle, k)
          PROVE  Caught(k) => Caught(k)'
      BY <1>1, <2>1, <2>4, Catches
    <2> QED BY <1>3, <2>3, <2>4
  <1> QED BY <1>2, <1>3

\* What was pulled is imported.
LEMMA ImportsPull ==
  ASSUME EvidenceInv, NEW p \in Pulls, ImportPulled(p)
  PROVE  /\ EvidenceInv'
         /\ \A k \in Keys : Caught(k) /\ ~Caught(k)' =>
               \/ pull[p].since # None /\ pull[p].since > sources[Producer].generated
               \/ Rejects(pull[p].bundle, k)
         /\ pull[p].pc = "fetched" /\ pull'[p].pc = "over"
  <1> DEFINE b == pull[p].bundle   since == pull[p].since
  <1>1. /\ pull[p].pc = "fetched" /\ ImportBundle(b, Url) /\ pull' = [pull EXCEPT ![p] = Over]
        /\ DOMAIN pull = Pulls
    BY DEF ImportPulled, EvidenceInv, Fetched
  <1>2. /\ Snapshot(b, since, TRUE, published, clock)
        /\ since # None => since \in 0 .. clock /\ sources[Producer] # None
    BY <1>1 DEF EvidenceInv, Fetched
  <1>3. PullOK(Over, sources', published, clock) /\ Over.pc = "over"
    BY Resting DEF Stages
  <1>4. /\ DOMAIN pull' = Pulls /\ pull'[p] = Over
        /\ \A r \in Pulls : pull'[r] = pull[r] \/ pull'[r] = Over
    BY <1>1
  <1> HIDE DEF b, since
  <1>5. IsBundle(b) /\ b.source = Producer /\ b.generated \in 0 .. clock
    <2>1. clock \in Nat
      BY DEF EvidenceInv, TypeOK
    <2> QED BY <1>2, <2>1 DEF Snapshot
  <1>6. EvidenceInv'
    BY <1>1, <1>3, <1>4, <1>5, Imports
  <1>7. ASSUME since = None \/ ~(since > sources[Producer].generated),
               NEW k \in Keys, ~Rejects(b, k)
        PROVE  Caught(k) => Caught(k)'
    <2>1. since # None => sources[Producer] # None /\ since <= sources[Producer].generated
      <3> SUFFICES ASSUME since # None
                   PROVE  sources[Producer] # None /\ since <= sources[Producer].generated
        OBVIOUS
      <3>1. since \in 0 .. clock /\ sources[Producer] # None /\ clock \in Nat
        BY <1>2 DEF EvidenceInv, TypeOK
      <3>2. sources[Producer].generated \in 0 .. clock
        BY <3>1 DEF EvidenceInv, Sourced
      <3> QED BY <1>7, <3>1, <3>2
    <2>2. TRUE \/ ~Omits(b, k)
      OBVIOUS
    <2> QED BY <1>1, <1>2, <1>7, <2>1, <2>2, Catches
  <1> QED BY <1>1, <1>3, <1>4, <1>6, <1>7 DEF since, b

\* The evidence is bound again: by a discovery pass or a scan of the directory.
LEMMA Rebuilds ==
  ASSUME EvidenceInv, NEW R, RegistryOK(R), NEW order \in Orders,
         adapters' \subseteq AdapterRows,
         models' = Rebound(R, adapters', order).models,
         rows' = Rebound(R, adapters', order).rows,
         UNCHANGED <<published, clock, file, sources, pull>>
  PROVE  EvidenceInv' /\ KeepsCaught /\ SameRows(R, models')
  <1> DEFINE old == [models |-> R, rows |-> rows]   done == Rebound(R, adapters', order)
  <1>1. rows \in Tabled
    BY DEF EvidenceInv, Tables, Tabled
  <1>2. Rebinds(old, RowIds, adapters', done)
    BY <1>1, RebindsAll
  <1>3. old.rows = rows /\ old.models = R /\ models' = done.models /\ rows' = done.rows
    OBVIOUS
  <1> HIDE DEF old, done
  <1>4. RegistryOK(models') /\ rows' \in Tabled /\ SameRows(R, models')
    BY <1>2, <1>3 DEF Rebinds, Pairs, Registries
  <1>5. /\ \A i \in RowIds : rows[i] = None <=> rows'[i] = None
        /\ \A i \in RowIds : rows[i] # None =>
              rows'[i].version = rows[i].version /\ rows'[i].reason = rows[i].reason
        /\ \A i \in RowIds : rows'[i] # None => Honest(rows'[i], i[2], models', adapters')
    BY <1>2, <1>3 DEF Rebinds
  <1>6. TypeOK' /\ Tables'
    BY <1>4, <1>5, Typed DEF EvidenceInv, TypeOK, Tables
  <1>7. HonestBinding'
    BY <1>5 DEF HonestBinding, Honest
  <1>8. Sourced' /\ Fetched'
    BY DEF EvidenceInv, Sourced, Fetched
  <1>9. Badged'
    BY <1>5 DEF EvidenceInv, Badged
  <1>10. KeepsCaught
    <2>1. \A k \in Keys : <<Producer, k>> \in RowIds
      BY DEF RowIds
    <2> QED BY <1>5, <2>1 DEF KeepsCaught, Caught
  <1> QED BY <1>4, <1>6, <1>7, <1>8, <1>9, <1>10 DEF EvidenceInv

\* A discovery pass.
LEMMA Passes ==
  ASSUME EvidenceInv, NEW listed \in Listings, NEW disabled, Discover(listed, disabled)
  PROVE  /\ EvidenceInv' /\ KeepsCaught
         /\ SameRows(Discovered(models, listed, disabled), models')
  <1> DEFINE R == Discovered(models, listed, disabled)
  <1>1. RegistryOK(R)
    BY Discovers DEF EvidenceInv, Tables
  <1>2. PICK order \in Orders : /\ models' = Rebound(R, adapters, order).models
                                /\ rows' = Rebound(R, adapters, order).rows
    BY DEF Discover
  <1>3. UNCHANGED <<published, clock, file, adapters, sources, pull>>
    BY DEF Discover
  <1>4. adapters' \subseteq AdapterRows
    BY <1>3 DEF EvidenceInv, Tables
  <1> HIDE DEF R
  <1>5. EvidenceInv' /\ KeepsCaught /\ SameRows(R, models')
    BY <1>1, <1>2, <1>3, <1>4, Rebuilds
  <1> QED BY <1>5 DEF R

\* A scan of the adapter directory.
LEMMA Scans ==
  ASSUME EvidenceInv, NEW directory \in Directories, SyncAdapters(directory)
  PROVE  EvidenceInv' /\ KeepsCaught /\ SameRows(models, models')
  <1>1. adapters' = SyncedAdapters(adapters, directory)
        /\ UNCHANGED <<published, clock, file, sources, pull>>
    BY DEF SyncAdapters
  <1>2. PICK order \in Orders : /\ models' = Rebound(models, adapters', order).models
                                /\ rows' = Rebound(models, adapters', order).rows
    BY DEF SyncAdapters
  <1>3. adapters' \subseteq AdapterRows
    <2>1. adapters \subseteq AdapterRows
      BY DEF EvidenceInv, Tables
    <2>2. ASSUME NEW a \in adapters
          PROVE  [a EXCEPT !.available = a.digest \in directory] \in AdapterRows
      <3> DEFINE here == a.digest \in directory
      <3>1. here \in BOOLEAN
        OBVIOUS
      <3> HIDE DEF here
      <3>2. [a EXCEPT !.available = here] \in AdapterRows
        BY <2>1, <3>1 DEF AdapterRows
      <3> QED BY <3>2 DEF here
    <2>3. \A d \in directory : AdapterRow(d) \in AdapterRows
      BY DEF AdapterRow, AdapterRows
    <2> QED BY <1>1, <2>2, <2>3 DEF SyncedAdapters
  <1>4. RegistryOK(models)
    BY DEF EvidenceInv, Tables
  <1> QED BY <1>1, <1>2, <1>3, <1>4, Rebuilds

\* The invariant holds at the start.
LEMMA Starts ==
  ASSUME Init
  PROVE  EvidenceInv /\ NoTwins
  <1>1. RegistryOK({})
    BY FS_EmptySet DEF RegistryOK
  <1>2. \A p \in Pulls : pull[p].pc = "waiting" /\ pull[p].since = None
    BY DEF Init, Waiting
  <1>3. TypeOK
    BY <1>2, EvidenceAssumption DEF Init, TypeOK, Stages, RowIds
  <1>4. Tables
    BY <1>1 DEF Init, Tables
  <1>5. HonestBinding /\ Badged /\ NoTwins
    BY DEF Init, HonestBinding, Badged, NoTwins
  <1>6. Sourced
    BY DEF Init, Sourced, SourceKeys
  <1>7. Fetched
    BY <1>2 DEF Init, Fetched
  <1> QED BY <1>3, <1>4, <1>5, <1>6, <1>7 DEF EvidenceInv

\* The steps that may open a gap in a measurement.
Loses(k) ==
    \/ \E p \in Pulls :
          /\ pull[p].pc = "fetched" /\ pull'[p].pc = "over"
          /\ \/ pull[p].since # None /\ pull[p].since > sources[Producer].generated
             \/ Rejects(pull[p].bundle, k)
    \/ /\ file # None /\ UNCHANGED pull
       /\ Rejects(file, k) \/ Omits(file, k)

\* Gaps open in no other step.
GapsExplained == \A k \in Keys : Caught(k) /\ ~Caught(k)' => Loses(k)

\* Every step preserves the invariant, and a measurement stays caught up unless
\* an answer to a stale instant, a rejected record or a filtered file is written.
LEMMA Stepping ==
  ASSUME EvidenceInv, [Next]_vars
  PROVE  EvidenceInv' /\ GapsExplained
  <1>1. KeepsCaught => GapsExplained
    BY DEF KeepsCaught, GapsExplained
  <1>2. ASSUME NEW k \in Produced, Publish(k) \/ Withdraw(k)
        PROVE  EvidenceInv' /\ KeepsCaught
    BY <1>2, Produces
  <1>3. CASE SaveFile
    BY <1>1, <1>3, Saves
  <1>4. ASSUME file # None, ImportFile(file)
        PROVE  EvidenceInv' /\ GapsExplained
    <2>1. /\ EvidenceInv'
          /\ \A k \in Keys : Caught(k) /\ ~Caught(k)' => Rejects(file, k) \/ Omits(file, k)
      BY <1>4, ImportsFile
    <2>2. UNCHANGED pull
      BY <1>4 DEF ImportFile
    <2> QED BY <1>4, <2>1, <2>2 DEF GapsExplained, Loses
  <1>5. CASE ImportFile(Manual)
    BY <1>1, <1>5, ImportsFile
  <1>6. ASSUME NEW listed \in Listings, NEW disabled \in Configurations,
               Discover(listed, disabled)
        PROVE  EvidenceInv' /\ KeepsCaught
    BY <1>6, Passes
  <1>7. ASSUME NEW directory \in Directories, SyncAdapters(directory)
        PROVE  EvidenceInv' /\ KeepsCaught
    BY <1>7, Scans
  <1>8. ASSUME NEW p \in Pulls,
               \/ ReadSince(p)
               \/ \E answer \in Answers, major \in Majors : Ask(p, answer, major)
               \/ PulledUnusable(p)
        PROVE  EvidenceInv' /\ KeepsCaught
    BY <1>8, Asks
  <1>9. ASSUME NEW p \in Pulls, MarkSourceUnreachable(p) \/ RecordSourceFailure(p)
        PROVE  EvidenceInv' /\ KeepsCaught
    BY <1>9, Fails
  <1>10. ASSUME NEW p \in Pulls, ImportPulled(p)
        PROVE  EvidenceInv' /\ GapsExplained
    BY <1>10, ImportsPull DEF GapsExplained, Loses
  <1>11. CASE UNCHANGED vars
    <2>1. KeepsCaught
      BY <1>11 DEF vars, KeepsCaught, Caught
    <2>2. EvidenceInv'
      BY <1>11 DEF vars, EvidenceInv, TypeOK, Tables, HonestBinding, Sourced, Badged, Fetched
    <2> QED BY <1>1, <2>1, <2>2
  <1> QED BY <1>1, <1>2, <1>3, <1>4, <1>5, <1>6, <1>7, <1>8, <1>9, <1>10, <1>11 DEF Next

\* The tables of the store and of the registry stay well formed, every binding
\* is to what was measured, and every bundle under way is a snapshot of what
\* the producer had: the inductive invariant of every import, pull, discovery
\* pass and scan.
THEOREM Invariance == Spec => []EvidenceInv
  <1>1. Init => EvidenceInv
    BY Starts
  <1>2. EvidenceInv /\ [Next]_vars => EvidenceInv'
    BY Stepping
  <1> QED BY <1>1, <1>2, PTL DEF Spec

\* A measurement falls behind the instant the store will send as ?since= only
\* when an answer to a later instant than the one now stored is written, its
\* record is rejected, or a filtered file later than the last bundle leaves it
\* out; not by an old complete file, an overlapping pull otherwise, or a failed
\* or unusable answer.
THEOREM Gap == Spec => GapOnlyFromLoss
  <1>1. EvidenceInv /\ [Next]_vars =>
          [\A k \in Keys : Caught(k) /\ ~Caught(k)' =>
              \/ \E p \in Pulls :
                    /\ pull[p].pc = "fetched" /\ pull'[p].pc = "over"
                    /\ \/ pull[p].since # None /\ pull[p].since > sources[Producer].generated
                       \/ Rejects(pull[p].bundle, k)
              \/ /\ file # None /\ UNCHANGED pull
                 /\ Rejects(file, k) \/ Omits(file, k)]_vars
    BY Stepping DEF GapsExplained, Loses
  <1> QED BY <1>1, Invariance, PTL DEF Spec, GapOnlyFromLoss

\* A row says its source is unreachable only while the last word on that source
\* is a failure, and then the overview says so.
THEOREM Badges == Spec => []BadgeTrue
  <1>1. ASSUME EvidenceInv PROVE BadgeTrue
    <2> SUFFICES ASSUME NEW id \in RowIds, rows[id] # None,
                        rows[id].reason = "source_unreachable"
                 PROVE  sources[id[1]].status # "ok" /\ Overview # "ok"
      BY DEF BadgeTrue
    <2>1. /\ id[1] = Producer /\ sources[Producer].url = Url
          /\ sources[Producer].status # "ok"
      BY <1>1 DEF EvidenceInv, Badged
    <2>2. sources[Producer] # None /\ sources[Producer].imported
          /\ sources[Producer].status \in {"ok", "unreachable", "refused", "incompatible", "failed"}
      BY <1>1, <2>1 DEF EvidenceInv, TypeOK, SourceKeys
    <2>3. SourceForUrl(Url) = Producer /\ Producer # None
      BY <1>1, <2>1, <2>2, SourceHere, EvidenceAssumption DEF SourceKeys
    <2>4. Overview = sources[Producer].status
      BY <2>1, <2>2, <2>3 DEF Overview, OverviewStatus
    <2> QED BY <2>1, <2>4
  <1> QED BY <1>1, Invariance, PTL

\* The rows that routing may choose stay distinct along changes that keep them.
LEMMA StayDistinct ==
  ASSUME NEW R, NEW S, RegistryOK(S), SameRows(R, S),
         \A m, n \in R : m.available /\ n.available /\ m.kind = n.kind /\ m.name = n.name => m = n
  PROVE  \A m, n \in S : m.available /\ n.available /\ m.kind = n.kind /\ m.name = n.name => m = n
  <1> SUFFICES ASSUME NEW m \in S, NEW n \in S, m.available, n.available, m.kind = n.kind,
                      m.name = n.name
               PROVE  m = n
    OBVIOUS
  <1>1. PICK a \in R : /\ m.id = a.id /\ m.kind = a.kind /\ m.name = a.name
                       /\ m.available = a.available
    BY DEF SameRows
  <1>2. PICK b \in R : /\ n.id = b.id /\ n.kind = b.kind /\ n.name = b.name
                       /\ n.available = b.available
    BY DEF SameRows
  <1>3. a = b
    BY <1>1, <1>2
  <1> QED BY <1>1, <1>2, <1>3 DEF RegistryOK

\* A pass leaves at most one available row per kind and name.
LEMMA PassDistinct ==
  ASSUME OneBuildPerName, RegistryOK(models), NoTwins, NEW listed \in Listings,
         NEW disabled
  PROVE  LET S == Discovered(models, listed, disabled)
         IN  \A m, n \in S :
                m.available /\ n.available /\ m.kind = n.kind /\ m.name = n.name => m = n
  <1> DEFINE S == Discovered(models, listed, disabled)
  <1>1. /\ RegistryOK(S)
        /\ \A n \in S : n.available =>
              \/ \E m \in SeenModels(listed) : CanonicalId(n) = CanonicalId(m)
              \/ /\ n.kind \notin AnsweredKinds(listed)
                 /\ \E m \in models : /\ n.id = m.id /\ m.available
                                      /\ CanonicalId(n) = CanonicalId(m)
    BY Discovers
  <1> HIDE DEF S
  <1>2. \A m \in SeenModels(listed) : m.kind \in AnsweredKinds(listed)
    BY EvidenceAssumption DEF SeenModels, AnsweredKinds, IsListed
  <1> SUFFICES ASSUME NEW m \in S, NEW n \in S, m.available, n.available, m.kind = n.kind,
                      m.name = n.name
               PROVE  m = n
    BY DEF S
  <1>3. CASE m.kind \in AnsweredKinds(listed)
    <2>1. PICK a \in SeenModels(listed) : CanonicalId(m) = CanonicalId(a)
      BY <1>1, <1>3
    <2>2. PICK b \in SeenModels(listed) : CanonicalId(n) = CanonicalId(b)
      BY <1>1, <1>3
    <2>3. a.kind = b.kind /\ a.name = b.name
      BY <2>1, <2>2 DEF CanonicalId
    <2>4. a.digest = b.digest
      BY <2>3 DEF OneBuildPerName
    <2>5. CanonicalId(m) = CanonicalId(n)
      BY <2>1, <2>2, <2>3, <2>4 DEF CanonicalId
    <2> QED BY <1>1, <2>5 DEF RegistryOK
  <1>4. CASE m.kind \notin AnsweredKinds(listed)
    <2>1. \A x \in S : x.kind = m.kind /\ x.available =>
             ~\E a \in SeenModels(listed) : CanonicalId(x) = CanonicalId(a)
      BY <1>2, <1>4 DEF CanonicalId
    <2>2. PICK a \in models : m.id = a.id /\ a.available /\ CanonicalId(m) = CanonicalId(a)
      BY <1>1, <2>1
    <2>3. PICK b \in models : n.id = b.id /\ b.available /\ CanonicalId(n) = CanonicalId(b)
      BY <1>1, <2>1
    <2>4. a.kind = b.kind /\ a.name = b.name
      BY <2>2, <2>3 DEF CanonicalId
    <2>5. a = b
      BY <2>2, <2>3, <2>4 DEF NoTwins
    <2> QED BY <1>1, <2>2, <2>3, <2>5 DEF RegistryOK
  <1> QED BY <1>3, <1>4

\* The registry and the store stay well formed, no model that routing may choose
\* is there twice, and every binding is to what was measured, if the
\* registrations of one kind agree on what a name stands for.
THEOREM Bindings == ASSUME OneBuildPerName PROVE Spec => []BindingsSound
  <1>1. Init => EvidenceInv /\ NoTwins
    BY Starts
  <1>2. ASSUME EvidenceInv, NoTwins, [Next]_vars PROVE NoTwins'
    <2>1. EvidenceInv' /\ RegistryOK(models) /\ RegistryOK(models')
      <3>1. EvidenceInv'
        BY <1>2, Stepping
      <3> QED BY <1>2, <3>1 DEF EvidenceInv, Tables
    <2>2. ASSUME SameRows(models, models') PROVE NoTwins'
      BY <1>2, <2>1, <2>2, StayDistinct DEF NoTwins
    <2>3. ASSUME UNCHANGED models PROVE NoTwins'
      BY <1>2, <2>3 DEF NoTwins
    <2>4. ASSUME NEW bundle, NEW url, IsBundle(bundle), ImportBundle(bundle, url) PROVE NoTwins'
      <3>1. SameRows(models, models')
        BY <1>2, <2>4, Writes DEF EvidenceInv
      <3> QED BY <2>2, <3>1
    <2>5. CASE ImportFile(Manual)
      BY <2>4, <2>5, EvidenceAssumption DEF ImportFile
    <2>6. CASE file # None /\ ImportFile(file)
      <3>1. IsBundle(file)
        BY <1>2, <2>6 DEF EvidenceInv, Fetched, Snapshot
      <3> QED BY <2>4, <2>6, <3>1 DEF ImportFile
    <2>7. ASSUME NEW p \in Pulls, ImportPulled(p) PROVE NoTwins'
      <3>1. IsBundle(pull[p].bundle)
        BY <1>2, <2>7 DEF EvidenceInv, Fetched, Snapshot, ImportPulled
      <3> QED BY <2>4, <2>7, <3>1 DEF ImportPulled
    <2>8. ASSUME NEW listed \in Listings, NEW disabled \in Configurations,
                 Discover(listed, disabled)
          PROVE  NoTwins'
      <3> DEFINE R == Discovered(models, listed, disabled)
      <3>1. SameRows(R, models')
        BY <1>2, <2>8, Passes
      <3>2. \A m, n \in R :
               m.available /\ n.available /\ m.kind = n.kind /\ m.name = n.name => m = n
        BY <1>2, <2>1, PassDistinct
      <3> HIDE DEF R
      <3>3. \A m, n \in models' :
               m.available /\ n.available /\ m.kind = n.kind /\ m.name = n.name => m = n
        BY <2>1, <3>1, <3>2, StayDistinct
      <3> QED BY <3>3 DEF NoTwins
    <2>9. ASSUME NEW directory \in Directories, SyncAdapters(directory) PROVE NoTwins'
      BY <1>2, <2>2, <2>9, Scans
    <2>10. ASSUME NEW k \in Produced, Publish(k) \/ Withdraw(k) PROVE NoTwins'
      BY <2>3, <2>10 DEF Publish, Withdraw
    <2>11. CASE SaveFile
      BY <2>3, <2>11 DEF SaveFile
    <2>12. ASSUME NEW p \in Pulls,
               \/ ReadSince(p)
               \/ \E answer \in Answers, major \in Majors : Ask(p, answer, major)
               \/ PulledUnusable(p) \/ MarkSourceUnreachable(p) \/ RecordSourceFailure(p)
           PROVE  NoTwins'
      BY <2>3, <2>12 DEF ReadSince, Ask, PulledUnusable, MarkSourceUnreachable,
                         RecordSourceFailure
    <2>13. CASE UNCHANGED vars
      BY <2>3, <2>13 DEF vars
    <2> QED BY <1>2, <2>5, <2>6, <2>7, <2>8, <2>9, <2>10, <2>11, <2>12, <2>13 DEF Next
  <1>3. EvidenceInv /\ NoTwins => BindingsSound
    BY DEF EvidenceInv, BindingsSound
  <1>4. EvidenceInv /\ NoTwins /\ [Next]_vars => NoTwins'
    BY <1>2
  <1> QED BY <1>1, <1>3, <1>4, Invariance, PTL DEF Spec

\* Registries that keep one another's rows and end with the digests they began
\* with know the same subjects all along.
LEMMA PinStays ==
  ASSUME NEW R, NEW Q, RegistryOK(Q), NEW S, RegistryOK(S), Kept(R, Q), Kept(Q, S),
         Digests(S) = Digests(R), NEW k \in Keys
  PROVE  Exact(Q, k) # {} <=> Exact(S, k) # {}
  <1>1. ASSUME NEW pq \in Q, NEW s \in S, s.id = pq.id PROVE s.digest = pq.digest
    <2>1. <<s.id, s.digest>> \in Digests(R)
      <3>1. <<s.id, s.digest>> \in Digests(S)
        BY DEF Digests
      <3> QED BY <3>1
    <2>2. PICK r \in R : r.id = s.id /\ r.digest = s.digest
      BY <2>1 DEF Digests
    <2>3. PICK n \in Q : /\ n.id = r.id /\ n.kind = r.kind /\ n.name = r.name
                         /\ r.digest # None => n.digest = r.digest
      BY DEF Kept
    <2>4. n = pq
      BY <1>1, <2>2, <2>3 DEF RegistryOK
    <2>5. PICK o \in S : /\ o.id = pq.id /\ o.kind = pq.kind /\ o.name = pq.name
                         /\ pq.digest # None => o.digest = pq.digest
      BY DEF Kept
    <2>6. o = s
      BY <1>1, <2>5 DEF RegistryOK
    <2> QED BY <2>2, <2>3, <2>4, <2>5, <2>6
  <1>2. ASSUME NEW pq \in Q PROVE \E s \in S : s.id = pq.id /\ CanonicalId(s) = CanonicalId(pq)
    <2>1. PICK s \in S : /\ s.id = pq.id /\ s.kind = pq.kind /\ s.name = pq.name
                         /\ pq.digest # None => s.digest = pq.digest
      BY DEF Kept
    <2> QED BY <1>1, <2>1 DEF CanonicalId
  <1>3. ASSUME NEW s \in S PROVE \E pq \in Q : CanonicalId(s) = CanonicalId(pq)
    <2>1. <<s.id, s.digest>> \in Digests(R)
      <3>1. <<s.id, s.digest>> \in Digests(S)
        BY DEF Digests
      <3> QED BY <3>1
    <2>2. PICK r \in R : r.id = s.id
      BY <2>1 DEF Digests
    <2>3. PICK pq \in Q : pq.id = r.id
      BY DEF Kept
    <2>4. PICK o \in S : o.id = pq.id /\ CanonicalId(o) = CanonicalId(pq)
      BY <1>2
    <2>5. o = s
      BY <2>2, <2>3, <2>4 DEF RegistryOK
    <2> QED BY <2>4, <2>5
  <1> QED BY <1>2, <1>3 DEF Exact

\* Whatever came before, a discovery pass that finds no model and no digest it
\* did not know leaves every evidence row bound exactly when the registry proves
\* its subject is here.
THEOREM Settles == Spec => []PassSettles
  <1>1. ASSUME EvidenceInv PROVE PassSettles
    <2> SUFFICES ASSUME NEW listed \in Listings, NEW disabled \in Configurations,
                        NEW order \in Orders,
                        Digests(Rebound(Discovered(models, listed, disabled), adapters, order).models)
                            = Digests(models),
                        NEW id \in RowIds
                 PROVE  LET pass == Rebound(Discovered(models, listed, disabled), adapters, order)
                        IN  Settled(id, pass.models, pass.rows)
      BY DEF PassSettles
    <2> DEFINE R == Discovered(models, listed, disabled)
               old == [models |-> R, rows |-> rows]
               pass == Rebound(R, adapters, order)
               k == id[2]
    <2>1. RegistryOK(R) /\ Kept(models, R)
      BY <1>1, Discovers DEF EvidenceInv, Tables
    <2>2. rows \in Tabled /\ adapters \subseteq AdapterRows
      BY <1>1 DEF EvidenceInv, Tables, Tabled
    <2> HIDE DEF R
    <2>3. Rebinds(old, RowIds, adapters, pass)
      BY <2>1, <2>2, RebindsAll
    <2>4. old.models = R
      OBVIOUS
    <2> HIDE DEF old
    <2>5. Digests(pass.models) = Digests(models)
      BY DEF R
    <2> HIDE DEF pass
    <2>6. pass \in Pairs /\ RegistryOK(pass.models) /\ k \in Keys
      BY <2>3 DEF Rebinds, Pairs, Registries, RowIds
    <2>7. ASSUME pass.rows[id] # None
          PROVE  pass.rows[id].state = "bound" <=> Exact(pass.models, k) # {} /\ Adapted(adapters, k)
      <3>1. Bracketed(R, pass.models, adapters, pass.rows[id], k)
        BY <2>3, <2>4, <2>7 DEF Rebinds
      <3>2. PICK Q, P \in Registries :
              /\ Kept(R, Q) /\ Kept(Q, P) /\ Kept(P, pass.models)
              /\ pass.rows[id].state = "bound" => Exact(P, k) # {} /\ Adapted(adapters, k)
              /\ Exact(Q, k) # {} /\ Adapted(adapters, k) => pass.rows[id].state = "bound"
        BY <3>1 DEF Bracketed
      <3>3. Kept(models, Q) /\ Kept(models, P) /\ Kept(Q, pass.models)
        BY <2>1, <3>2, KeptTwice
      <3>4. RegistryOK(Q) /\ RegistryOK(P)
        BY DEF Registries
      <3>5. /\ Exact(Q, k) # {} <=> Exact(pass.models, k) # {}
            /\ Exact(P, k) # {} <=> Exact(pass.models, k) # {}
        BY <2>5, <2>6, <3>2, <3>3, <3>4, PinStays
      <3> QED BY <3>2, <3>5
    <2>8. Exact(pass.models, k) # {} <=>
             \E m \in pass.models : CanonicalId(m) = CanonicalId(Identity[k])
      BY DEF Exact
    <2>9. Adapted(adapters, k) <=>
             Identity[k].adapter = None \/ \E a \in adapters : a.digest = Identity[k].adapter
      BY DEF Adapted, Loaded
    <2>10. Settled(id, pass.models, pass.rows)
      BY <2>7, <2>8, <2>9 DEF Settled
    <2> QED BY <2>10 DEF pass, R
  <1> QED BY <1>1, Invariance, PTL

-----------------------------------------------------------------------------
(* Sequences that loops put together.                                      *)

\* g goes along the loop as long as it stays in X.
Along(g, X, base, F, n) ==
    /\ g[{}] = base
    /\ \A s \in SUBSET (1 .. n) : s # {} /\ g[s \ {Max(s)}] \in X
            => g[s] = F[<<g[s \ {Max(s)}], Max(s)>>]

\* Pass i of the loop adds the elements E[i].
Adds(F, Y, E, n) ==
    \A p \in Seq(Y), i \in 1 .. n : ToSet(F[<<p, i>>]) = ToSet(p) \cup E[i]

\* A loop whose pass i adds the elements E[i] gathers all of them.
LEMMA Gathers ==
  ASSUME NEW n \in Nat, NEW Y, NEW base \in Seq(Y), NEW F \in [Seq(Y) \X (1 .. n) -> Seq(Y)],
         NEW E \in [1 .. n -> SUBSET Y],
         Adds(F, Y, E, n), NEW g, Along(g, Seq(Y), base, F, n)
  PROVE  /\ g[1 .. n] \in Seq(Y)
         /\ \A y : y \in ToSet(g[1 .. n]) <=> y \in ToSet(base) \/ \E i \in 1 .. n : y \in E[i]
  <1> DEFINE T == {s \in SUBSET (1 .. n) :
                      /\ g[s] \in Seq(Y)
                      /\ ToSet(g[s]) = ToSet(base) \cup UNION {E[i] : i \in s}}
  <1>1. {} \in T
    BY DEF Along
  <1>2. ASSUME NEW s \in SUBSET (1 .. n), s # {}, s \ {Max(s)} \in T PROVE s \in T
    <2> DEFINE m == Max(s)
               r == s \ {m}
    <2>1. m \in s
      BY <1>2, LastPlace
    <2>2. g[r] \in Seq(Y) /\ ToSet(g[r]) = ToSet(base) \cup UNION {E[i] : i \in r}
      BY <1>2
    <2>3. g[s] = F[<<g[r], m>>]
      BY <1>2, <2>2 DEF Along
    <2> HIDE DEF m
    <2>4. g[s] \in Seq(Y) /\ ToSet(g[s]) = ToSet(g[r]) \cup E[m]
      BY <2>1, <2>2, <2>3 DEF Adds
    <2>5. UNION {E[i] : i \in s} = (UNION {E[i] : i \in r}) \cup E[m]
      BY <2>1
    <2>6. ToSet(g[s]) = ToSet(base) \cup UNION {E[i] : i \in s}
      BY <2>2, <2>4, <2>5
    <2> QED BY <2>4, <2>6
  <1>3. 1 .. n \in T
    <2> HIDE DEF T
    <2> QED BY <1>1, <1>2, Parts
  <1> QED BY <1>3

\* The elements of two sequences, one after the other.
LEMMA Joined ==
  ASSUME NEW Y, NEW s \in Seq(Y), NEW t \in Seq(Y)
  PROVE  s \o t \in Seq(Y) /\ ToSet(s \o t) = ToSet(s) \cup ToSet(t)
  <1>1. s \o t \in Seq(Y) /\ Len(s \o t) = Len(s) + Len(t) /\ Len(s) \in Nat /\ Len(t) \in Nat
    OBVIOUS
  <1>2. /\ DOMAIN (s \o t) = 1 .. Len(s) + Len(t) /\ DOMAIN s = 1 .. Len(s)
        /\ DOMAIN t = 1 .. Len(t)
    OBVIOUS
  <1>3. /\ \A i \in DOMAIN s : i \in DOMAIN (s \o t) /\ (s \o t)[i] = s[i]
        /\ \A i \in DOMAIN t : i + Len(s) \in DOMAIN (s \o t) /\ (s \o t)[i + Len(s)] = t[i]
    OBVIOUS
  <1>4. ASSUME NEW i \in DOMAIN (s \o t)
        PROVE  \/ i \in DOMAIN s /\ (s \o t)[i] = s[i]
               \/ i - Len(s) \in DOMAIN t /\ (s \o t)[i] = t[i - Len(s)]
    OBVIOUS
  <1>5. ToSet(s \o t) \subseteq ToSet(s) \cup ToSet(t)
    BY <1>4 DEF ToSet
  <1>6. ToSet(s) \cup ToSet(t) \subseteq ToSet(s \o t)
    BY <1>3 DEF ToSet
  <1> QED BY <1>1, <1>5, <1>6

\* A sequence of one.
LEMMA Single ==
  ASSUME NEW Y, NEW e \in Y
  PROVE  <<e>> \in Seq(Y) /\ ToSet(<<e>>) = {e} /\ <<>> \in Seq(Y) /\ ToSet(<<>>) = {}
  BY DEF ToSet

\* The elements of a part of a sequence.
LEMMA PartOf ==
  ASSUME NEW Y, NEW s \in Seq(Y), NEW a \in Nat \ {0}, NEW b \in Nat, b <= Len(s)
  PROVE  /\ SubSeq(s, a, b) \in Seq(Y)
         /\ ToSet(SubSeq(s, a, b)) = {s[i] : i \in a .. b}
  <1> DEFINE t == SubSeq(s, a, b)
             n == IF a <= b + 1 THEN b - a + 1 ELSE 0
  <1>1. n \in Nat /\ Len(t) = n /\ t \in Seq(Y) /\ DOMAIN t = 1 .. n
    OBVIOUS
  <1>2. \A i \in 1 .. n : t[i] = s[a + i - 1] /\ a + i - 1 \in a .. b
    OBVIOUS
  <1>3. \A j \in a .. b : j - a + 1 \in 1 .. n /\ t[j - a + 1] = s[j]
    OBVIOUS
  <1> HIDE DEF n, t
  <1>4. ToSet(t) \subseteq {s[i] : i \in a .. b}
    BY <1>1, <1>2 DEF ToSet
  <1>5. {s[i] : i \in a .. b} \subseteq ToSet(t)
    BY <1>1, <1>3 DEF ToSet
  <1> QED BY <1>1, <1>4, <1>5 DEF t

\* A loop stays where each of its passes stays.
LEMMA Stays ==
  ASSUME NEW n \in Nat, NEW X, NEW base \in X, NEW F \in [X \X (1 .. n) -> X],
         NEW g, Along(g, X, base, F, n)
  PROVE  g[1 .. n] \in X
  <1> DEFINE T == {s \in SUBSET (1 .. n) : g[s] \in X}
  <1>1. {} \in T
    BY DEF Along
  <1>2. ASSUME NEW s \in SUBSET (1 .. n), s # {}, s \ {Max(s)} \in T PROVE s \in T
    <2>1. Max(s) \in s
      BY <1>2, LastPlace
    <2>2. g[s] = F[<<g[s \ {Max(s)}], Max(s)>>] /\ g[s \ {Max(s)}] \in X
      BY <1>2 DEF Along
    <2> QED BY <2>1, <2>2
  <1>3. 1 .. n \in T
    <2> HIDE DEF T
    <2> QED BY <1>1, <1>2, Parts
  <1> QED BY <1>3

\* rank_candidates: a candidate joins the ranking, and nobody leaves it.
LEMMA PlacedOK ==
  ASSUME NEW Y, NEW s \in Seq(Y), NEW e \in Y
  PROVE  Placed(s, e) \in Seq(Y) /\ ToSet(Placed(s, e)) = ToSet(s) \cup {e}
  <1> DEFINE behind == {i \in DOMAIN s : OrderedBefore(e, s[i])}
             k == IF behind = {} THEN Len(s) + 1 ELSE Min(behind)
             a == SubSeq(s, 1, k - 1)
             b == SubSeq(s, k, Len(s))
             one == <<e>>
  <1>1. Len(s) \in Nat /\ DOMAIN s = 1 .. Len(s)
    OBVIOUS
  <1>2. k \in 1 .. Len(s) + 1
    <2>1. behind # {} => Min(behind) \in behind
      <3>1. behind \subseteq Nat
        OBVIOUS
      <3> HIDE DEF behind
      <3> QED BY <3>1, MinOf
    <2>2. behind \subseteq 1 .. Len(s)
      OBVIOUS
    <2> HIDE DEF behind
    <2>3. CASE behind = {}
      BY <1>1, <2>3
    <2>4. CASE behind # {}
      <3>1. Min(behind) \in 1 .. Len(s)
        BY <2>1, <2>2, <2>4
      <3>2. k = Min(behind)
        BY <2>4
      <3> HIDE DEF k
      <3> QED BY <1>1, <3>1, <3>2
    <2> QED BY <2>3, <2>4
  <1>3. Placed(s, e) = (a \o one) \o b
    BY DEF Placed, InsertAt
  <1> HIDE DEF k
  <1>4. /\ k - 1 \in Nat /\ k - 1 <= Len(s) /\ k \in Nat \ {0} /\ 1 \in Nat \ {0}
        /\ 1 .. Len(s) = (1 .. k - 1) \cup (k .. Len(s))
    BY <1>1, <1>2
  <1>5. /\ a \in Seq(Y) /\ ToSet(a) = {s[i] : i \in 1 .. k - 1}
        /\ b \in Seq(Y) /\ ToSet(b) = {s[i] : i \in k .. Len(s)}
    BY <1>1, <1>4, PartOf
  <1>6. ToSet(s) = ToSet(a) \cup ToSet(b)
    BY <1>1, <1>4, <1>5 DEF ToSet
  <1> HIDE DEF a, b
  <1>7. one \in Seq(Y) /\ ToSet(one) = {e}
    BY Single
  <1> HIDE DEF one
  <1>8. a \o one \in Seq(Y) /\ ToSet(a \o one) = ToSet(a) \cup {e}
    BY <1>5, <1>7, Joined
  <1> DEFINE c == a \o one
  <1>10. c \in Seq(Y) /\ ToSet(c) = ToSet(a) \cup {e}
    BY <1>8
  <1> HIDE DEF c
  <1>9. c \o b \in Seq(Y) /\ ToSet(c \o b) = (ToSet(a) \cup {e}) \cup ToSet(b)
    BY <1>5, <1>10, Joined
  <1> QED BY <1>3, <1>6, <1>9 DEF c

\* The loop of rank_candidates, place by place.
Ranking(outcomes, eligible) ==
    CHOOSE f : f = [s \in SUBSET DOMAIN [i \in DOMAIN outcomes |-> i] |->
        IF s = {} THEN <<>>
        ELSE IF [i \in DOMAIN outcomes |-> i][Max(s)] \in eligible
        THEN Placed(f[s \ {Max(s)}], outcomes[[i \in DOMAIN outcomes |-> i][Max(s)]])
        ELSE f[s \ {Max(s)}]]

\* rank_candidates: each candidate in turn is put in its place.
LEMMA RankingIs ==
  ASSUME NEW Y, NEW outcomes \in Seq(Y), NEW eligible \in SUBSET DOMAIN outcomes
  PROVE  LET g == Ranking(outcomes, eligible)
             n == Len(outcomes)
         IN  /\ RankCandidates(outcomes, eligible) = g[1 .. n]
             /\ RankCandidates(outcomes, eligible) \in Seq(Y)
             /\ ToSet(RankCandidates(outcomes, eligible)) = {outcomes[i] : i \in eligible}
             /\ g[{}] = <<>>
             /\ \A s \in SUBSET (1 .. n) : s # {} =>
                   g[s] = IF Max(s) \in eligible
                          THEN Placed(g[s \ {Max(s)}], outcomes[Max(s)])
                          ELSE g[s \ {Max(s)}]
  <1> DEFINE n == Len(outcomes)
             G(p, i) == IF i \in eligible THEN Placed(p, outcomes[i]) ELSE p
             F == [p \in Seq(Y) \X (1 .. n) |-> G(p[1], p[2])]
             E == [i \in 1 .. n |-> IF i \in eligible THEN {outcomes[i]} ELSE {}]
             g == Ranking(outcomes, eligible)
  <1>1. n \in Nat /\ DOMAIN outcomes = 1 .. n /\ DOMAIN [i \in DOMAIN outcomes |-> i] = 1 .. n
    OBVIOUS
  <1>2. RankCandidates(outcomes, eligible) = g[1 .. n]
    BY <1>1 DEF RankCandidates, FoldLeftDomain, FoldLeft, MapThenFoldSet, Ranking
  <1>3. ASSUME NEW p \in Seq(Y), NEW i \in 1 .. n
        PROVE  /\ G(p, i) \in Seq(Y)
               /\ ToSet(G(p, i)) = ToSet(p) \cup E[i]
    <2>1. outcomes[i] \in Y
      BY <1>1
    <2>2. /\ Placed(p, outcomes[i]) \in Seq(Y)
          /\ ToSet(Placed(p, outcomes[i])) = ToSet(p) \cup {outcomes[i]}
      <3>1. \A e \in Y : /\ Placed(p, e) \in Seq(Y)
                         /\ ToSet(Placed(p, e)) = ToSet(p) \cup {e}
        BY PlacedOK, Zenon
      <3> QED BY <2>1, <3>1, Zenon
    <2> QED BY <2>2
  <1>4. F \in [Seq(Y) \X (1 .. n) -> Seq(Y)]
    BY <1>3
  <1>5. <<>> \in Seq(Y) /\ ToSet(<<>>) = {}
    BY DEF ToSet
  <1>6. PICK f : IsLoop(f, Seq(Y), <<>>, F, n)
    <2> HIDE DEF F, n
    <2> QED BY <1>1, <1>4, <1>5, LoopExists
  <1>7. f = [s \in SUBSET (1 .. n) |->
               IF s = {} THEN <<>> ELSE G(f[s \ {Max(s)}], Max(s))]
    <2>1. ASSUME NEW s \in SUBSET (1 .. n), s # {}
          PROVE  f[s] = G(f[s \ {Max(s)}], Max(s))
      <3>1. Max(s) \in 1 .. n
        BY <1>1, <2>1, LastPlace
      <3>2. f[s \ {Max(s)}] \in Seq(Y) /\ f[s] = F[<<f[s \ {Max(s)}], Max(s)>>]
        BY <1>6, <2>1 DEF IsLoop
      <3> HIDE DEF G
      <3> QED BY <3>1, <3>2
    <2> HIDE DEF G
    <2> QED BY <1>6, <2>1 DEF IsLoop
  <1>8. \A s \in SUBSET (1 .. n) : s # {} =>
            [i \in DOMAIN outcomes |-> i][Max(s)] = Max(s)
    <2> SUFFICES ASSUME NEW s \in SUBSET (1 .. n), s # {}
                 PROVE  [i \in DOMAIN outcomes |-> i][Max(s)] = Max(s)
      OBVIOUS
    <2>1. Max(s) \in 1 .. n
      BY <1>1, LastPlace
    <2> QED BY <1>1, <2>1
  <1>9. f = [s \in SUBSET DOMAIN [i \in DOMAIN outcomes |-> i] |->
        IF s = {} THEN <<>>
        ELSE IF [i \in DOMAIN outcomes |-> i][Max(s)] \in eligible
        THEN Placed(f[s \ {Max(s)}], outcomes[[i \in DOMAIN outcomes |-> i][Max(s)]])
        ELSE f[s \ {Max(s)}]]
    BY <1>1, <1>7, <1>8
  <1>10. g = [s \in SUBSET DOMAIN [i \in DOMAIN outcomes |-> i] |->
        IF s = {} THEN <<>>
        ELSE IF [i \in DOMAIN outcomes |-> i][Max(s)] \in eligible
        THEN Placed(g[s \ {Max(s)}], outcomes[[i \in DOMAIN outcomes |-> i][Max(s)]])
        ELSE g[s \ {Max(s)}]]
    BY <1>9, Zenon DEF Ranking
  <1> HIDE DEF g
  <1>11. g[{}] = <<>> /\ \A s \in SUBSET (1 .. n) : s # {} => g[s] = G(g[s \ {Max(s)}], Max(s))
    BY <1>1, <1>8, <1>10
  <1>12. \A s \in SUBSET (1 .. n) : s # {} /\ g[s \ {Max(s)}] \in Seq(Y)
             => g[s] = F[<<g[s \ {Max(s)}], Max(s)>>]
    <2> SUFFICES ASSUME NEW s \in SUBSET (1 .. n), s # {}, g[s \ {Max(s)}] \in Seq(Y)
                 PROVE  g[s] = F[<<g[s \ {Max(s)}], Max(s)>>]
      OBVIOUS
    <2>1. Max(s) \in 1 .. n
      BY <1>1, LastPlace
    <2> HIDE DEF G
    <2> QED BY <1>11, <2>1
  <1>13. /\ E \in [1 .. n -> SUBSET Y]
         /\ \A p \in Seq(Y), i \in 1 .. n : ToSet(F[<<p, i>>]) = ToSet(p) \cup E[i]
    <2>1. E \in [1 .. n -> SUBSET Y]
      BY <1>1
    <2> HIDE DEF E, G
    <2> QED BY <1>3, <2>1
  <1> DEFINE base == <<>>
  <1>14. Adds(F, Y, E, n) /\ Along(g, Seq(Y), base, F, n) /\ base \in Seq(Y)
    BY <1>5, <1>11, <1>12, <1>13 DEF Adds, Along
  <1>15. \A y : (\E i \in 1 .. n : y \in E[i]) <=> \E i \in eligible : y = outcomes[i]
    BY <1>1
  <1> HIDE DEF F, E, n, G, base
  <1>16. /\ g[1 .. n] \in Seq(Y)
         /\ \A y : y \in ToSet(g[1 .. n]) <=> y \in ToSet(base) \/ \E i \in 1 .. n : y \in E[i]
    BY <1>1, <1>4, <1>13, <1>14, Gathers
  <1>17. ToSet(g[1 .. n]) = {outcomes[i] : i \in eligible}
    BY <1>5, <1>15, <1>16 DEF base
  <1> QED BY <1>2, <1>11, <1>16, <1>17 DEF n, G, g

\* rank_candidates: the ranking holds the eligible candidates and no others.
LEMMA Ranks ==
  ASSUME NEW Y, NEW outcomes \in Seq(Y), NEW eligible \in SUBSET DOMAIN outcomes
  PROVE  /\ RankCandidates(outcomes, eligible) \in Seq(Y)
         /\ ToSet(RankCandidates(outcomes, eligible)) = {outcomes[i] : i \in eligible}
  BY RankingIs
-----------------------------------------------------------------------------
(* The pool.                                                               *)

\* A model bare, or under an adapter.
Pool(wd) ==
    {Candidate(wd, m, a) : m \in ToSet(wd.models), a \in ToSet(wd.adapters) \cup {None}}

\* The loops of _read_candidates, place by place.
AdapterLoop(wd, m) ==
    CHOOSE f : f = [s \in SUBSET DOMAIN wd.adapters |->
        IF s = {} THEN <<Candidate(wd, m, None)>>
        ELSE IF RunsOn(wd, m, wd.adapters[Max(s)])
        THEN Append(f[s \ {Max(s)}], Candidate(wd, m, wd.adapters[Max(s)]))
        ELSE f[s \ {Max(s)}]]

\* The loop of _read_candidates over the models, by the places it has passed.
ModelLoop(wd) ==
    CHOOSE f : f = [s \in SUBSET DOMAIN wd.models |->
        IF s = {} THEN <<>> ELSE f[s \ {Max(s)}] \o CandidatesOf(wd, wd.models[Max(s)])]

\* _read_candidates, for one model: each adapter in turn joins the pool or does not.
LEMMA AdapterLoopIs ==
  ASSUME NEW wd, wd.adapters \in Seq(ToSet(wd.adapters)), NEW m \in ToSet(wd.models)
  PROVE  LET g == AdapterLoop(wd, m)
             n == Len(wd.adapters)
         IN  /\ CandidatesOf(wd, m) = g[1 .. n] /\ CandidatesOf(wd, m) \in Seq(Pool(wd))
             /\ g[{}] = <<Candidate(wd, m, None)>>
             /\ \A s \in SUBSET (1 .. n) : s # {} =>
                   g[s] = IF RunsOn(wd, m, wd.adapters[Max(s)])
                          THEN Append(g[s \ {Max(s)}], Candidate(wd, m, wd.adapters[Max(s)]))
                          ELSE g[s \ {Max(s)}]
  <1> DEFINE n == Len(wd.adapters)
             X == Seq(Pool(wd))
             base == <<Candidate(wd, m, None)>>
             C(i) == Candidate(wd, m, wd.adapters[i])
             G(p, i) == IF RunsOn(wd, m, wd.adapters[i]) THEN Append(p, C(i)) ELSE p
             F == [p \in X \X (1 .. n) |-> G(p[1], p[2])]
             g == AdapterLoop(wd, m)
  <1>1. n \in Nat /\ DOMAIN wd.adapters = 1 .. n
    OBVIOUS
  <1>2. CandidatesOf(wd, m) = g[1 .. n]
    BY <1>1 DEF CandidatesOf, FoldLeft, MapThenFoldSet, AdapterLoop
  <1>3. base \in X /\ \A i \in 1 .. n : C(i) \in Pool(wd)
    <2>1. \A i \in 1 .. n : wd.adapters[i] \in ToSet(wd.adapters)
      BY <1>1 DEF ToSet
    <2>2. \A a \in ToSet(wd.adapters) \cup {None} : Candidate(wd, m, a) \in Pool(wd)
      BY DEF Pool
    <2>3. Candidate(wd, m, None) \in Pool(wd) /\ \A i \in 1 .. n : C(i) \in Pool(wd)
      BY <2>1, <2>2
    <2> QED BY <2>3
  <1>4. \A p \in X, i \in 1 .. n : G(p, i) \in X
    <2> HIDE DEF C
    <2> QED BY <1>3
  <1>5. F \in [X \X (1 .. n) -> X]
    <2> HIDE DEF G, X
    <2> QED BY <1>4
  <1>6. PICK f : IsLoop(f, X, base, F, n)
    <2> HIDE DEF F, n, base, X
    <2> QED BY <1>1, <1>3, <1>5, LoopExists
  <1>7. f = [s \in SUBSET (1 .. n) |->
               IF s = {} THEN base ELSE G(f[s \ {Max(s)}], Max(s))]
    <2>1. ASSUME NEW s \in SUBSET (1 .. n), s # {}
          PROVE  f[s] = G(f[s \ {Max(s)}], Max(s))
      <3>1. Max(s) \in 1 .. n
        BY <1>1, <2>1, LastPlace
      <3>2. f[s \ {Max(s)}] \in X /\ f[s] = F[<<f[s \ {Max(s)}], Max(s)>>]
        BY <1>6, <2>1 DEF IsLoop
      <3> HIDE DEF G, X
      <3> QED BY <3>1, <3>2
    <2> HIDE DEF G, base
    <2> QED BY <1>6, <2>1 DEF IsLoop
  <1>8. g = [s \in SUBSET (1 .. n) |->
               IF s = {} THEN base ELSE G(g[s \ {Max(s)}], Max(s))]
    BY <1>1, <1>7, Zenon DEF AdapterLoop
  <1> HIDE DEF g
  <1>11. g[{}] = base /\ \A s \in SUBSET (1 .. n) : s # {} => g[s] = G(g[s \ {Max(s)}], Max(s))
    <2> HIDE DEF base, G
    <2> QED BY <1>8
  <1> HIDE DEF base, G
  <1>9. Along(g, X, base, F, n)
    <2>1. g[{}] = base /\ \A s \in SUBSET (1 .. n) : s # {} => g[s] = G(g[s \ {Max(s)}], Max(s))
      BY <1>8
    <2>2. ASSUME NEW s \in SUBSET (1 .. n), s # {}, g[s \ {Max(s)}] \in X
          PROVE  g[s] = F[<<g[s \ {Max(s)}], Max(s)>>]
      <3>1. Max(s) \in 1 .. n
        BY <1>1, <2>2, LastPlace
      <3> HIDE DEF X
      <3> QED BY <2>1, <2>2, <3>1
    <2> HIDE DEF X, F
    <2> QED BY <2>1, <2>2 DEF Along
  <1> HIDE DEF F, n, X
  <1>10. g[1 .. n] \in X
    BY <1>1, <1>3, <1>5, <1>9, Stays
  <1> QED BY <1>2, <1>10, <1>11 DEF X, base, G, n, g

\* _read_candidates, for one model.
LEMMA CandidatesOfOK ==
  ASSUME NEW wd, wd.adapters \in Seq(ToSet(wd.adapters)), NEW m \in ToSet(wd.models)
  PROVE  CandidatesOf(wd, m) \in Seq(Pool(wd))
  BY AdapterLoopIs

\* _read_candidates: the candidates of one model after those of another.
LEMMA ModelLoopIs ==
  ASSUME NEW wd, wd.adapters \in Seq(ToSet(wd.adapters)), wd.models \in Seq(ToSet(wd.models))
  PROVE  LET g == ModelLoop(wd)
             n == Len(wd.models)
         IN  /\ ReadCandidates(wd) = g[1 .. n] /\ ReadCandidates(wd) \in Seq(Pool(wd))
             /\ g[{}] = <<>>
             /\ \A s \in SUBSET (1 .. n) : s # {} =>
                   g[s] = g[s \ {Max(s)}] \o CandidatesOf(wd, wd.models[Max(s)])
  <1> DEFINE n == Len(wd.models)
             X == Seq(Pool(wd))
             base == <<>>
             G(p, i) == p \o CandidatesOf(wd, wd.models[i])
             F == [p \in X \X (1 .. n) |-> G(p[1], p[2])]
             g == ModelLoop(wd)
  <1>1. n \in Nat /\ DOMAIN wd.models = 1 .. n
    OBVIOUS
  <1>2. ReadCandidates(wd) = g[1 .. n]
    BY <1>1 DEF ReadCandidates, FoldLeft, MapThenFoldSet, ModelLoop
  <1>3. base \in X
    OBVIOUS
  <1>4. \A p \in X, i \in 1 .. n : G(p, i) \in X
    <2> SUFFICES ASSUME NEW p \in X, NEW i \in 1 .. n PROVE G(p, i) \in X
      OBVIOUS
    <2>1. CandidatesOf(wd, wd.models[i]) \in X
      BY <1>1, CandidatesOfOK DEF ToSet
    <2> DEFINE c == CandidatesOf(wd, wd.models[i])
    <2> HIDE DEF c
    <2>2. p \o c \in Seq(Pool(wd))
      BY <2>1 DEF c
    <2> QED BY <2>2 DEF c
  <1>5. F \in [X \X (1 .. n) -> X]
    <2> HIDE DEF G, X
    <2> QED BY <1>4
  <1>6. PICK f : IsLoop(f, X, base, F, n)
    <2> HIDE DEF F, n, base, X
    <2> QED BY <1>1, <1>3, <1>5, LoopExists
  <1>7. f = [s \in SUBSET (1 .. n) |->
               IF s = {} THEN base ELSE G(f[s \ {Max(s)}], Max(s))]
    <2>1. ASSUME NEW s \in SUBSET (1 .. n), s # {}
          PROVE  f[s] = G(f[s \ {Max(s)}], Max(s))
      <3>1. Max(s) \in 1 .. n
        BY <1>1, <2>1, LastPlace
      <3>2. f[s \ {Max(s)}] \in X /\ f[s] = F[<<f[s \ {Max(s)}], Max(s)>>]
        BY <1>6, <2>1 DEF IsLoop
      <3> HIDE DEF G, X
      <3> QED BY <3>1, <3>2
    <2> HIDE DEF G, base
    <2> QED BY <1>6, <2>1 DEF IsLoop
  <1>8. g = [s \in SUBSET (1 .. n) |->
               IF s = {} THEN base ELSE G(g[s \ {Max(s)}], Max(s))]
    BY <1>1, <1>7, Zenon DEF ModelLoop
  <1> HIDE DEF g
  <1>11. g[{}] = base /\ \A s \in SUBSET (1 .. n) : s # {} => g[s] = G(g[s \ {Max(s)}], Max(s))
    <2> HIDE DEF base, G
    <2> QED BY <1>8
  <1> HIDE DEF base, G
  <1>9. Along(g, X, base, F, n)
    <2>1. g[{}] = base /\ \A s \in SUBSET (1 .. n) : s # {} => g[s] = G(g[s \ {Max(s)}], Max(s))
      BY <1>8
    <2>2. ASSUME NEW s \in SUBSET (1 .. n), s # {}, g[s \ {Max(s)}] \in X
          PROVE  g[s] = F[<<g[s \ {Max(s)}], Max(s)>>]
      <3>1. Max(s) \in 1 .. n
        BY <1>1, <2>2, LastPlace
      <3> HIDE DEF X
      <3> QED BY <2>1, <2>2, <3>1
    <2> HIDE DEF X, F
    <2> QED BY <2>1, <2>2 DEF Along
  <1> HIDE DEF F, n, X
  <1>10. g[1 .. n] \in X
    BY <1>1, <1>3, <1>5, <1>9, Stays
  <1> QED BY <1>2, <1>10, <1>11 DEF X, base, G, n, g

\* _read_candidates: the pool is a sequence of models, bare or under an adapter.
LEMMA ReadCandidatesOK ==
  ASSUME NEW wd, wd.adapters \in Seq(ToSet(wd.adapters)), wd.models \in Seq(ToSet(wd.models))
  PROVE  ReadCandidates(wd) \in Seq(Pool(wd))
  BY ModelLoopIs
-----------------------------------------------------------------------------
(* What route() decides.                                                   *)

\* The constraints of a profile and of a request together.
Merged(wd, rq) == MergedConstraints(wd.task.constraints, rq.constraints)

\* Neither of the refusals that are not about candidates.
Goes(wd, rq) == Merged(wd, rq) # None /\ ~UnknownAdapter(rq, ReadCandidates(wd))

\* The subject of a place of the pool, and what becomes of it.
Built(wd, rq, i) == BuildSubject(wd, rq, Merged(wd, rq), ReadCandidates(wd)[i])
OutcomeAt(wd, env, rq, i) == Evaluate(wd, env, rq, Merged(wd, rq), Built(wd, rq, i))

\* The places of the pool whose candidates the request leaves in it; neither
\* they nor their subjects depend on the machine.
Chosen(wd, rq) ==
    {i \in DOMAIN ReadCandidates(wd) :
        Built(wd, rq, i).served = None \/ Pinned(rq, Built(wd, rq, i))}

\* The places of the pool that are ranked.
Accepted(wd, env, rq) == {i \in Chosen(wd, rq) : OutcomeAt(wd, env, rq, i).reason = None}

\* A subject keeps its identity through the constraints, and one without a
\* context is rejected.
LEMMA EvaluateOK ==
  ASSUME NEW wd, NEW env, NEW rq, NEW merged, NEW s
  PROVE  LET e == Evaluate(wd, env, rq, merged, s)
             estimate == EstimateVram(s.facts, s.profile, s.served.tokens)
             in == ConstraintInputs(wd, env, rq, merged, s, ScoreOf(wd, rq, s))
         IN  /\ e.subject = s
             /\ s.served = None => e.reason = "context_too_small" /\ e.estimate = None
             /\ s.served # None =>
                  /\ e.estimate = estimate
                  /\ e.reason = EvaluateConstraints(s, estimate, in)
                  /\ e.reason = None =>
                        /\ e.fit = ScoreOf(wd, rq, s)
                        /\ e.target = TargetGpu(s, estimate, in)
  <1> DEFINE estimate == EstimateVram(s.facts, s.profile, s.served.tokens)
             fit == ScoreOf(wd, rq, s)
             in == ConstraintInputs(wd, env, rq, merged, s, fit)
             e == Evaluate(wd, env, rq, merged, s)
             reason == EvaluateConstraints(s, estimate, in)
  <1>1. s.served # None => e = Outcome(wd, rq, s, fit, estimate, in)
    BY DEF Evaluate, Constrained
  <1>2. s.served = None => e = [subject |-> s, reason |-> "context_too_small", estimate |-> None]
    BY DEF Evaluate
  <1> HIDE DEF e, estimate, fit, in
  <1>3. LET o == Outcome(wd, rq, s, fit, estimate, in)
        IN  /\ o.subject = s /\ o.estimate = estimate /\ o.reason = reason
            /\ reason = None => o.fit = fit /\ o.target = TargetGpu(s, estimate, in)
    <2>1. CASE reason = None
      BY <2>1 DEF Outcome
    <2>2. CASE reason # None
      BY <2>2 DEF Outcome
    <2> QED BY <2>1, <2>2
  <1>4. s.served # None => /\ e.subject = s /\ e.estimate = estimate /\ e.reason = reason
                           /\ reason = None => e.fit = fit /\ e.target = TargetGpu(s, estimate, in)
    BY <1>1, <1>3
  <1>5. s.served = None => e.subject = s /\ e.reason = "context_too_small" /\ e.estimate = None
    BY <1>2
  <1> QED BY <1>4, <1>5 DEF e, estimate, fit, in, reason

\* route(): a refusal, or the ranking of the accepted candidates and the
\* others with the reason against each.
LEMMA RouteIs ==
  ASSUME NEW wd, IsStored(wd), NEW env, NEW rq
  PROVE  LET d == Route(wd, env, rq)
             At(i) == OutcomeAt(wd, env, rq, i)
         IN  /\ ~Goes(wd, rq) =>
                   /\ d.ordered = <<>> /\ d.fallbacks = <<>> /\ d.rejected = {}
                   /\ d.error \in {"VALIDATION_ERROR", "ADAPTER_NOT_FOUND"}
             /\ Goes(wd, rq) =>
                   /\ d.ordered \in Seq(ToSet(d.ordered))
                   /\ \A r : r \in ToSet(d.ordered)
                                <=> \E i \in Accepted(wd, env, rq) : r = At(i)
                   /\ \A r : r \in d.rejected
                                <=> \E i \in Chosen(wd, rq) : r = At(i) /\ r.reason # None
                   /\ d.error = IF d.ordered = <<>> THEN "NO_ELIGIBLE_MODEL" ELSE None
                   /\ d.fallbacks = FallbacksOf(d.ordered, wd.task.fallback_depth,
                                                rq.overrides.disallow_fallback)
                   /\ d.ordered # <<>> =>
                         d.budget = BudgetFor(wd, rq, d.ordered[1].subject.served)
                   /\ (d.ordered # <<>> /\ "low_evidence" \notin d.flags) =>
                         ~(d.ordered[1].fit.measured < wd.policy.min_present)
  <1> DEFINE d == Route(wd, env, rq)
             At(i) == OutcomeAt(wd, env, rq, i)
             pool == ReadCandidates(wd)
  <1>1. d = RouteOver(wd, env, rq, Merged(wd, rq), pool)
    BY DEF Route, Merged
  <1>2. CASE ~Goes(wd, rq)
    <2>1. d = Refused("VALIDATION_ERROR") \/ d = Refused("ADAPTER_NOT_FOUND")
      BY <1>1, <1>2 DEF RouteOver, Goes
    <2> QED BY <1>2, <2>1 DEF Refused
  <1>3. CASE Goes(wd, rq)
    <2> DEFINE o == OutcomesOf(wd, env, rq, Merged(wd, rq), pool)
               considered == {i \in DOMAIN o : Considered(rq, o[i])}
               eligible == {i \in considered : o[i].reason = None}
               ordered == RankCandidates(o, eligible)
               rejected == {o[i] : i \in considered \ eligible}
               Y == ToSet(o)
    <2>1. pool \in Seq(Pool(wd))
      BY ReadCandidatesOK DEF IsStored
    <2>2. DOMAIN o = DOMAIN pool /\ \A i \in DOMAIN pool : o[i] = At(i)
      BY DEF OutcomesOf, OutcomeAt, Built
    <2>3. o \in Seq(Y)
      <3>1. Len(pool) \in Nat /\ DOMAIN pool = 1 .. Len(pool)
        BY <2>1
      <3>2. o = [i \in 1 .. Len(pool) |-> o[i]] /\ \A i \in 1 .. Len(pool) : o[i] \in Y
        BY <3>1 DEF OutcomesOf, ToSet
      <3> HIDE DEF o, Y, pool
      <3> QED BY <3>1, <3>2
    <2>4. d = Conclude(wd, env, rq, ordered, rejected)
      BY <1>1, <1>3, Zenon DEF RouteOver, Goes, Decide
    <2>5. \A i \in DOMAIN pool : Considered(rq, o[i]) <=> i \in Chosen(wd, rq)
      <3>1. \A i \in DOMAIN pool : At(i).subject = Built(wd, rq, i)
        BY EvaluateOK DEF OutcomeAt
      <3> QED BY <2>2, <3>1 DEF Considered, Chosen
    <2>6. considered = Chosen(wd, rq)
      BY <2>2, <2>5 DEF Chosen
    <2>7. eligible = Accepted(wd, env, rq) /\ eligible \subseteq DOMAIN o
      BY <2>2, <2>6 DEF Accepted, Chosen
    <2> HIDE DEF o, considered, eligible, Y, pool
    <2>8. ordered \in Seq(Y) /\ ToSet(ordered) = {o[i] : i \in eligible}
      BY <2>3, <2>7, Ranks
    <2> HIDE DEF ordered
    <2>9. ordered \in Seq(ToSet(ordered))
      BY <2>8 DEF ToSet
    <2>10. \A r : r \in ToSet(ordered) <=> \E i \in Accepted(wd, env, rq) : r = At(i)
      BY <2>2, <2>7, <2>8
    <2>11. \A r : r \in rejected <=> \E i \in Chosen(wd, rq) : r = At(i) /\ r.reason # None
      <3>1. \A i \in considered : o[i] = At(i) /\ (i \notin eligible <=> At(i).reason # None)
        BY <2>2, <2>6, <2>7 DEF Accepted, Chosen, pool
      <3> QED BY <2>6, <3>1
    <2> HIDE DEF rejected
    <2>12. /\ d.ordered = ordered /\ d.rejected = rejected
           /\ d.error = IF ordered = <<>> THEN "NO_ELIGIBLE_MODEL" ELSE None
           /\ d.fallbacks = FallbacksOf(ordered, wd.task.fallback_depth,
                                        rq.overrides.disallow_fallback)
           /\ ordered # <<>> => d.budget = BudgetFor(wd, rq, ordered[1].subject.served)
      BY <2>4 DEF Conclude, Persist
    <2>13. (ordered # <<>> /\ "low_evidence" \notin d.flags) =>
              ~(ordered[1].fit.measured < wd.policy.min_present)
      BY <2>4 DEF Conclude, Persist, FlagsOf
    <2> HIDE DEF d
    <2> QED BY <1>3, <2>9, <2>10, <2>11, <2>12, <2>13 DEF d
  <1> QED BY <1>2, <1>3
-----------------------------------------------------------------------------
(* The hard constraints.                                                   *)

\* The i-th of them is against the candidate, and what it is called.
FailsAt(s, estimate, in, i) == Checks(s, estimate, in)[i][2]
Reason(s, estimate, in, i) == Checks(s, estimate, in)[i][1]

\* What each of them looks at.
LEMMA FailsWhen ==
  ASSUME NEW s, NEW estimate, NEW in
  PROVE  /\ FailsAt(s, estimate, in, 4) <=> in.min_context > s.served.tokens
         /\ FailsAt(s, estimate, in, 6) <=>
               in.required_context # None /\ in.required_context > s.served.tokens
         /\ FailsAt(s, estimate, in, 7) <=> \E c \in in.requires : ~Supports(s.provider, c)
         /\ FailsAt(s, estimate, in, 9) <=> OutOfMemory(s, estimate, in)
         /\ FailsAt(s, estimate, in, 10) <=>
               /\ in.snapshot # None /\ DOMAIN in.snapshot.gpus = {}
               /\ RamShort(estimate, in.snapshot.ram)
         /\ FailsAt(s, estimate, in, 11) <=> BelowMinimum(in)
         /\ FailsAt(s, estimate, in, 12) <=> s.facts.canonical_id \in in.exclude
         /\ FailsAt(s, estimate, in, 13) <=> s.facts.remote /\ ~in.allow_remote
         /\ FailsAt(s, estimate, in, 15) <=> AdapterUnmeasured(s, in)
         /\ FailsAt(s, estimate, in, 17) <=> SubjectOf(s.facts, s.adapter) \in in.breakers
  BY DEF FailsAt, Checks

\* All of them but the two of memory and the breaker look at the same things
\* whatever the machine does.
LEMMA FailsAlike ==
  ASSUME NEW s, NEW estimate, NEW in, NEW to, NEW i \in 1 .. 17, i \notin {9, 10, 17},
         in.min_context = to.min_context, in.required_context = to.required_context,
         in.requires = to.requires, in.thinking = to.thinking,
         in.scores = to.scores, in.min_scores = to.min_scores,
         in.exclude = to.exclude, in.allow_remote = to.allow_remote,
         in.gate = to.gate, in.top = to.top, FailsAt(s, estimate, in, i)
  PROVE  FailsAt(s, estimate, to, i)
  <1>1. CASE i \in {1, 2, 3, 5, 14, 16}
    BY <1>1 DEF FailsAt, Checks
  <1>2. CASE i \in {4, 6, 7, 12, 13}
    BY <1>2, FailsWhen
  <1>3. CASE i = 8
    BY <1>3 DEF FailsAt, Checks
  <1>4. CASE i = 11
    <2>1. BelowMinimum(in)
      BY <1>4, FailsWhen
    <2>2. BelowMinimum(to)
      BY <2>1 DEF BelowMinimum
    <2> QED BY <1>4, <2>2, FailsWhen
  <1>5. CASE i = 15
    <2>1. AdapterUnmeasured(s, in)
      BY <1>5, FailsWhen
    <2>2. AdapterUnmeasured(s, to)
      BY <2>1 DEF AdapterUnmeasured, AdapterMeasured
    <2> QED BY <1>5, <2>2, FailsWhen
  <1> QED BY <1>1, <1>2, <1>3, <1>4, <1>5

\* Each has a reason, and those of memory and of the breaker are theirs alone.
LEMMA ReasonsAre ==
  ASSUME NEW s, NEW estimate, NEW in, NEW i \in 1 .. 17, FailsAt(s, estimate, in, i)
  PROVE  LET reason == Reason(s, estimate, in, i)
         IN  /\ reason \in RejectionReasons
             /\ reason = "insufficient_vram" <=> i = 9
             /\ reason = "insufficient_ram" <=> i = 10
             /\ reason = "recently_failing" <=> i = 17
  <1>1. FailsAt(s, estimate, in, 2) =>
           RuntimeProfileRefusal(s.profile, s.facts.kind)
              \in {"runtime_setting_unhonoured", "kv_cache_needs_flash_attention"}
    BY DEF FailsAt, Checks, RuntimeProfileRefusal
  <1>2. Reason(s, estimate, in, 2) = RuntimeProfileRefusal(s.profile, s.facts.kind)
    BY DEF Reason, Checks
  <1>3. CASE i = 2
    BY <1>1, <1>2, <1>3 DEF RejectionReasons
  <1>4. CASE i # 2
    BY <1>4 DEF Reason, Checks, RejectionReasons
  <1> QED BY <1>3, <1>4

\* evaluate_constraints: none fails, or one does and names the rejection.
LEMMA Evaluates ==
  ASSUME NEW s, NEW estimate, NEW in
  PROVE  LET reason == EvaluateConstraints(s, estimate, in)
         IN  /\ reason = None <=> \A i \in 1 .. 17 : ~FailsAt(s, estimate, in, i)
             /\ reason # None =>
                   \E i \in 1 .. 17 : /\ FailsAt(s, estimate, in, i)
                                      /\ reason = Reason(s, estimate, in, i)
  <1> DEFINE failing == {i \in DOMAIN Checks(s, estimate, in) : Checks(s, estimate, in)[i][2]}
             reason == EvaluateConstraints(s, estimate, in)
  <1>1. DOMAIN Checks(s, estimate, in) = 1 .. 17
    BY DEF Checks
  <1>2. failing = {i \in 1 .. 17 : FailsAt(s, estimate, in, i)}
    BY <1>1 DEF FailsAt
  <1>3. reason = IF failing = {} THEN None ELSE Reason(s, estimate, in, Min(failing))
    BY DEF EvaluateConstraints, Reason
  <1> HIDE DEF failing, reason
  <1>4. CASE failing = {}
    BY <1>2, <1>3, <1>4 DEF reason
  <1>5. CASE failing # {}
    <2>1. Min(failing) \in failing
      BY <1>2, <1>5, MinOf
    <2>2. Min(failing) \in 1 .. 17 /\ FailsAt(s, estimate, in, Min(failing))
      BY <1>2, <2>1
    <2>3. reason \in RejectionReasons
      BY <1>3, <1>5, <2>2, ReasonsAre
    <2> QED BY <1>3, <1>5, <2>2, <2>3, ReasonAssumption DEF reason
  <1> QED BY <1>4, <1>5
-----------------------------------------------------------------------------
(* A refusal is permanent, a deferral is not for nothing.                  *)

\* The inputs of two passes of route() over the same candidate differ in what
\* the machine reports only.
LEMMA SameInputs ==
  ASSUME NEW wd, NEW rq, NEW env, NEW to, NEW merged, NEW s, NEW fit
  PROVE  LET a == ConstraintInputs(wd, env, rq, merged, s, fit)
             b == ConstraintInputs(wd, to, rq, merged, s, fit)
         IN  /\ a.min_context = b.min_context /\ a.required_context = b.required_context
             /\ a.requires = b.requires /\ a.thinking = b.thinking
             /\ a.scores = b.scores /\ a.min_scores = b.min_scores
             /\ a.exclude = b.exclude /\ a.allow_remote = b.allow_remote
             /\ a.gate = b.gate /\ a.top = b.top
             /\ a.snapshot = env.snapshot /\ a.resident = env.resident
             /\ a.headroom = wd.policy.headroom
             /\ a.breakers = IF env.breakers = None THEN {} ELSE env.breakers
             /\ b.breakers = IF to.breakers = None THEN {} ELSE to.breakers
  BY DEF ConstraintInputs

\* classify_rejections: what is neither a shortage nor a probe in flight is
\* rejected on any machine, as long as the other breakers exclude what they did.
LEMMA Permanent ==
  ASSUME NEW wd, IsStored(wd), NEW rq, NEW env, NEW to, to.breakers # None,
         env.breakers # None, env.breakers \ env.details \subseteq to.breakers,
         Route(wd, env, rq).error = "NO_ELIGIBLE_MODEL",
         ~ClassifyRejections(Route(wd, env, rq).rejected, env.details).defer
  PROVE  Route(wd, to, rq).ordered = <<>>
  <1> DEFINE d == Route(wd, env, rq)
             At(i) == OutcomeAt(wd, env, rq, i)
             To(i) == OutcomeAt(wd, to, rq, i)
  <1>1. Goes(wd, rq) /\ d.ordered = <<>>
    BY RouteIs, ErrorAssumption DEF RoutingErrors
  <1>2. \A i \in Chosen(wd, rq) : At(i).reason # None /\ At(i) \in d.rejected
    <2>1. ToSet(d.ordered) = {}
      BY <1>1 DEF ToSet
    <2>2. Accepted(wd, env, rq) = {}
      BY <1>1, <2>1, RouteIs
    <2>3. \A i \in Chosen(wd, rq) : At(i).reason # None
      BY <2>2 DEF Accepted
    <2> QED BY <1>1, <2>3, RouteIs
  <1>3. \A r \in d.rejected :
           /\ r.reason \notin ResourceReasons
           /\ r.reason = "recently_failing"
                 => SubjectOf(r.subject.facts, r.subject.adapter) \notin env.details
    BY DEF ClassifyRejections
  <1>4. ASSUME NEW i \in Chosen(wd, rq) PROVE To(i).reason # None
    <2> DEFINE s == Built(wd, rq, i)
               fit == ScoreOf(wd, rq, s)
               estimate == EstimateVram(s.facts, s.profile, s.served.tokens)
               a == ConstraintInputs(wd, env, rq, Merged(wd, rq), s, fit)
               b == ConstraintInputs(wd, to, rq, Merged(wd, rq), s, fit)
    <2>1. CASE s.served = None
      <3>1. To(i).reason = "context_too_small"
        BY <2>1, EvaluateOK DEF OutcomeAt
      <3> QED BY <3>1, ReasonAssumption DEF RejectionReasons
    <2>2. CASE s.served # None
      <3>1. /\ At(i).subject = s /\ At(i).reason = EvaluateConstraints(s, estimate, a)
            /\ To(i).reason = EvaluateConstraints(s, estimate, b)
        BY <2>2, EvaluateOK DEF OutcomeAt
      <3>2. At(i).reason # None /\ At(i) \in d.rejected
        BY <1>2
      <3> HIDE DEF At, To, d, estimate
      <3>3. PICK k \in 1 .. 17 : /\ FailsAt(s, estimate, a, k)
                                  /\ At(i).reason = Reason(s, estimate, a, k)
        BY <3>1, <3>2, Evaluates
      <3>4. k \notin {9, 10}
        BY <1>3, <3>2, <3>3, ReasonsAre DEF ResourceReasons
      <3>5. CASE k = 17
        <4>1. At(i).reason = "recently_failing"
          BY <3>3, <3>5, ReasonsAre
        <4>2. SubjectOf(s.facts, s.adapter) \notin env.details
          BY <1>3, <3>1, <3>2, <4>1
        <4>3. SubjectOf(s.facts, s.adapter) \in a.breakers
          BY <3>3, <3>5, FailsWhen
        <4>4. a.breakers = env.breakers /\ b.breakers = to.breakers
          BY SameInputs
        <4>5. SubjectOf(s.facts, s.adapter) \in b.breakers
          BY <4>2, <4>3, <4>4
        <4>7. FailsAt(s, estimate, b, 17)
          BY <4>5, FailsWhen
        <4> QED BY <3>1, <4>7, Evaluates
      <3>6. CASE k # 17
        <4>1. FailsAt(s, estimate, b, k)
          <5> DEFINE x == a
                     y == b
          <5>1. /\ x.min_context = y.min_context /\ x.required_context = y.required_context
                /\ x.requires = y.requires /\ x.thinking = y.thinking
                /\ x.scores = y.scores /\ x.min_scores = y.min_scores
                /\ x.exclude = y.exclude /\ x.allow_remote = y.allow_remote
                /\ x.gate = y.gate /\ x.top = y.top
            BY SameInputs
          <5>2. FailsAt(s, estimate, x, k)
            BY <3>3
          <5> HIDE DEF x, y
          <5>3. FailsAt(s, estimate, y, k)
            BY <3>4, <3>6, <5>1, <5>2, FailsAlike
          <5> QED BY <5>3 DEF y
        <4> QED BY <3>1, <4>1, Evaluates
      <3> QED BY <3>5, <3>6
    <2> QED BY <2>1, <2>2
  <1>5. Accepted(wd, to, rq) = {}
    BY <1>4 DEF Accepted
  <1>6. /\ Route(wd, to, rq).ordered \in Seq(ToSet(Route(wd, to, rq).ordered))
        /\ ToSet(Route(wd, to, rq).ordered) = {}
    BY <1>1, <1>5, RouteIs
  <1> QED BY <1>6
-----------------------------------------------------------------------------
(* Subjects.                                                               *)

\* The larger and the smaller of two numbers.
LEMMA MaxOfTwo ==
  ASSUME NEW a \in Int, NEW b \in Int
  PROVE  /\ Max({a, b}) \in {a, b} /\ Max({a, b}) >= a /\ Max({a, b}) >= b
         /\ Min({a, b}) \in {a, b} /\ Min({a, b}) <= a /\ Min({a, b}) <= b
  <1> DEFINE S == {a, b}
  <1>1. (\E x \in S : \A y \in S : x >= y) /\ (\E x \in S : \A y \in S : x <= y)
    OBVIOUS
  <1>2. Max(S) \in S /\ (\A y \in S : Max(S) >= y) /\ Min(S) \in S /\ \A y \in S : Min(S) <= y
    BY <1>1, Zenon DEF Max, Min
  <1> QED BY <1>2

\* _merged_constraints: the tighter of the two in every field.
LEMMA MergedTighter ==
  ASSUME NEW base, IsConstraints(base), NEW asked, asked # None => IsConstraints(asked),
         MergedConstraints(base, asked) # None
  PROVE  LET m == MergedConstraints(base, asked)
         IN  /\ m.min_context \in Nat /\ m.min_context >= base.min_context
             /\ base.requires \subseteq m.requires /\ base.exclude \subseteq m.exclude
             /\ m.allow_remote => base.allow_remote
             /\ \A c \in DOMAIN base.min_scores :
                   /\ c \in DOMAIN m.min_scores /\ m.min_scores[c] \in Int
                   /\ m.min_scores[c] >= base.min_scores[c]
  <1>1. CASE asked = None
    BY <1>1 DEF MergedConstraints, IsConstraints, One
  <1>2. CASE asked # None
    <2> DEFINE m == MergedConstraints(base, asked)
               Floor(f, c) == IF c \in DOMAIN f THEN f[c] ELSE 0
    <2>1. /\ m.min_context = Max({base.min_context, asked.min_context})
          /\ m.requires = base.requires \cup asked.requires
          /\ m.exclude = base.exclude \cup asked.exclude
          /\ m.allow_remote = (base.allow_remote /\ asked.allow_remote)
          /\ m.min_scores = [c \in DOMAIN base.min_scores \cup DOMAIN asked.min_scores |->
                               Max({Floor(f, c) : f \in {base.min_scores, asked.min_scores}})]
      BY <1>2 DEF MergedConstraints
    <2> HIDE DEF m
    <2>2. m.min_context \in Nat /\ m.min_context >= base.min_context
      <3> DEFINE x == base.min_context
                 y == asked.min_context
      <3>1. x \in Nat /\ y \in Nat /\ m.min_context = Max({x, y})
        BY <1>2, <2>1 DEF IsConstraints
      <3> HIDE DEF x, y
      <3>2. Max({x, y}) \in {x, y} /\ Max({x, y}) >= x
        BY <3>1, MaxOfTwo
      <3> QED BY <3>1, <3>2 DEF x
    <2>3. ASSUME NEW c \in DOMAIN base.min_scores
          PROVE  /\ c \in DOMAIN m.min_scores /\ m.min_scores[c] \in Int
                 /\ m.min_scores[c] >= base.min_scores[c]
      <3> DEFINE x == Floor(base.min_scores, c)
                 y == Floor(asked.min_scores, c)
      <3>1. x = base.min_scores[c] /\ x \in Int /\ y \in Int
        BY <1>2 DEF IsConstraints, One
      <3>2. {Floor(f, c) : f \in {base.min_scores, asked.min_scores}} = {x, y}
        OBVIOUS
      <3>3. c \in DOMAIN m.min_scores /\ m.min_scores[c] = Max({x, y})
        BY <2>1, <3>2
      <3> HIDE DEF x, y
      <3> QED BY <3>1, <3>3, MaxOfTwo
    <2>4. m.allow_remote => base.allow_remote
      BY <2>1
    <2> QED BY <2>1, <2>2, <2>3, <2>4 DEF m
  <1> QED BY <1>1, <1>2

\* resolve_runtime_profile: a context that is stated is a number.
LEMMA ProfileContext ==
  ASSUME NEW defaults, NEW per_model, NEW context \in Nat, NEW configurable, NEW override,
         NEW registered,
         DOMAIN defaults = DOMAIN Unstated, defaults["context_size"] \in NatOrNone,
         per_model # None => per_model["context_size"] \in NatOrNone,
         override # None => override["context_size"] \in NatOrNone
  PROVE  ResolveRuntimeProfile(defaults, per_model, context, configurable, override,
                               registered)["context_size"] \in NatOrNone
  <1> DEFINE a == Merge(defaults, per_model)
             b == ApplyTaskProfileContext(a, context, configurable)
             c == Merge(b, override)
             F == DOMAIN Unstated
  <1>1. F = Fields \cup {"adapters_registered"} /\ "context_size" \in Fields
        /\ "context_size" # "adapters_registered" /\ "context_size" \in F
    BY DEF Unstated, Fields
  <1> HIDE DEF F
  <1>2. DOMAIN a = F /\ a["context_size"] \in NatOrNone
    BY <1>1 DEF Merge, F
  <1> HIDE DEF a
  <1>3. DOMAIN b = F /\ b["context_size"] \in NatOrNone
    BY <1>1, <1>2 DEF ApplyTaskProfileContext, NatOrNone
  <1> HIDE DEF b
  <1>4. DOMAIN c = F /\ c["context_size"] \in NatOrNone
    BY <1>1, <1>3 DEF Merge, F
  <1>5. ResolveRuntimeProfile(defaults, per_model, context, configurable, override, registered)
           = IF registered = None THEN c ELSE [c EXCEPT !["adapters_registered"] = registered]
    BY DEF ResolveRuntimeProfile, a, b
  <1> HIDE DEF c
  <1> QED BY <1>1, <1>4, <1>5

\* estimate_vram: a number that is not nought, or unknown.
LEMMA EstimateOK ==
  ASSUME NEW facts, NEW profile, NEW served \in Nat,
         facts.size \in NatOrNone, facts.geometry \in NatOrNone
  PROVE  LET e == EstimateVram(facts, profile, served) IN e = None \/ (e \in Nat /\ e > 0)
  <1> DEFINE per == EighthsPerElement(profile["kv_cache_precision"])
             kv == KvEighthsPerToken(facts.geometry, profile["kv_cache_precision"])
             e == EstimateVram(facts, profile, served)
  <1>1. per = None \/ per \in Nat
    BY DEF EighthsPerElement
  <1>2. kv = None \/ kv \in Nat
    <2> HIDE DEF per
    <2>1. kv = IF facts.geometry = None \/ per = None THEN None ELSE 2 * facts.geometry * per
      BY DEF KvEighthsPerToken, per
    <2> QED BY <1>1, <2>1 DEF NatOrNone
  <1>3. e = IF facts.size = None \/ kv = None THEN None
            ELSE (facts.size * LoadingOverhead) \div One + (kv * served) \div 8
                    + ActivationOverhead
    BY DEF EstimateVram
  <1> HIDE DEF kv, e
  <1>4. CASE facts.size = None \/ kv = None
    BY <1>3, <1>4 DEF e
  <1>5. CASE ~(facts.size = None \/ kv = None)
    <2> DEFINE x == facts.size * LoadingOverhead
               y == kv * served
    <2>1. x \in Nat /\ y \in Nat
      BY <1>2, <1>5, FootprintAssumption DEF NatOrNone
    <2> HIDE DEF x, y
    <2>2. x \div 10 \in Nat /\ y \div 8 \in Nat
      BY <2>1
    <2>3. e = (x \div 10) + (y \div 8) + ActivationOverhead
      BY <1>3, <1>5 DEF x, y, One
    <2> QED BY <2>2, <2>3, FootprintAssumption DEF e
  <1> QED BY <1>4, <1>5

\* _build_subject: a candidate of the pool, with the context it would be served
\* and the memory it would take.
LEMMA SubjectOK ==
  ASSUME NEW wd, IsStored(wd), NEW rq, IsRequest(rq), Merged(wd, rq) # None,
         NEW i \in DOMAIN ReadCandidates(wd)
  PROVE  LET s == Built(wd, rq, i)
             estimate == EstimateVram(s.facts, s.profile, s.served.tokens)
         IN  /\ \E m \in ToSet(wd.models), a \in ToSet(wd.adapters) \cup {None} :
                   /\ IsModelFacts(m) /\ (a # None => IsAdapterFacts(a))
                   /\ s.facts = FactsFor(wd, m) /\ s.provider = ProviderOf(wd, m)
                   /\ s.adapter = a /\ s.signals = Candidate(wd, m, a).signals
                   /\ s.facts.model_id = m.model_id
             /\ s.served # None =>
                   /\ s.served.tokens \in Nat
                   /\ estimate = None \/ (estimate \in Nat /\ estimate > 0)
  <1> DEFINE c == ReadCandidates(wd)[i]
             s == Built(wd, rq, i)
             merged == Merged(wd, rq)
             per_model == IF c.facts.canonical_id \in DOMAIN wd.policy.per_model
                          THEN wd.policy.per_model[c.facts.canonical_id] ELSE None
             profile == ResolveRuntimeProfile(wd.policy.defaults, per_model, merged.min_context,
                            c.provider.context_configurable, rq.overrides.profile,
                            c.provider.adapters_registered)
  <1>1. c \in Pool(wd)
    BY ReadCandidatesOK DEF IsStored
  <1>2. PICK m \in ToSet(wd.models), a \in ToSet(wd.adapters) \cup {None} : c = Candidate(wd, m, a)
    BY <1>1 DEF Pool
  <1>3. IsModelFacts(m) /\ (a # None => IsAdapterFacts(a))
    BY DEF IsStored, ToSet
  <1>4. /\ s.facts = c.facts /\ s.provider = c.provider /\ s.adapter = c.adapter
        /\ s.signals = c.signals /\ s.profile = profile
        /\ s.served = ServedContext(profile, c.provider, c.facts.max_context)
    BY DEF Built, BuildSubject
  <1>5. c.facts = FactsFor(wd, m) /\ c.provider = ProviderOf(wd, m) /\ c.adapter = a
    <2> HIDE DEF c
    <2> QED BY <1>2 DEF Candidate
  <1>6. /\ c.facts.model_id = m.model_id /\ c.facts.max_context \in NatOrNone
        /\ c.facts.size \in NatOrNone /\ c.facts.geometry \in NatOrNone
    BY <1>3, <1>5 DEF FactsFor, IsModelFacts
  <1>7. c.provider.reported \in NatOrNone
    BY <1>5 DEF ProviderOf, IsStored, IsProviderFacts
  <1> HIDE DEF c, s, per_model
  <1>8. merged.min_context \in Nat
    <2>1. IsConstraints(wd.task.constraints)
      BY DEF IsStored, IsTaskProfile
    <2>2. rq.constraints # None => IsConstraints(rq.constraints)
      BY DEF IsRequest
    <2> QED BY <2>1, <2>2, MergedTighter DEF Merged
  <1>9. /\ DOMAIN wd.policy.defaults = DOMAIN Unstated
        /\ wd.policy.defaults["context_size"] \in NatOrNone
        /\ per_model # None => per_model["context_size"] \in NatOrNone
        /\ rq.overrides.profile # None => rq.overrides.profile["context_size"] \in NatOrNone
    <2>1. IsPolicy(wd.policy) /\ IsOverrides(rq.overrides)
      BY DEF IsStored, IsRequest
    <2>2. \A layer \in {wd.policy.defaults} \cup
                       {wd.policy.per_model[k] : k \in DOMAIN wd.policy.per_model} :
             DOMAIN layer = DOMAIN Unstated /\ layer["context_size"] \in NatOrNone
      BY <2>1 DEF IsPolicy
    <2>3. per_model # None => per_model["context_size"] \in NatOrNone
      BY <2>2 DEF per_model
    <2>4. rq.overrides.profile # None => rq.overrides.profile["context_size"] \in NatOrNone
      BY <2>1 DEF IsOverrides
    <2> QED BY <2>2, <2>3, <2>4
  <1> HIDE DEF merged
  <1>10. profile["context_size"] \in NatOrNone
    BY <1>8, <1>9, ProfileContext
  <1> HIDE DEF profile
  <1>11. s.served # None => s.served.tokens \in Nat
    BY <1>4, <1>6, <1>7, <1>10 DEF ServedContext, NatOrNone
  <1>12. s.served # None =>
            LET e == EstimateVram(s.facts, s.profile, s.served.tokens)
            IN  e = None \/ (e \in Nat /\ e > 0)
    BY <1>4, <1>6, <1>11, EstimateOK
  <1> QED BY <1>2, <1>3, <1>4, <1>5, <1>6, <1>11, <1>12 DEF s
-----------------------------------------------------------------------------
(* The attempts of a job.                                                  *)

\* What WorldsAssumption says of the world in hand.
LEMMA WorldOK ==
  ASSUME world \in DOMAIN Worlds
  PROVE  /\ IsStored(w) /\ IsRequest(q)
         /\ w.task.max_attempts \in Nat \ {0} /\ w.task.attempts \in Nat \ {0}
         /\ Worlds[world].moves \in Nat
  BY WorldsAssumption DEF w, q, IsStored, IsTaskProfile

\* The attempts one candidate may get.
AttemptLimit == Max({w.task.attempts, 1 + ProtocolRetries})

\* _next_action: both ways to try again stay below it.
LEMMA LimitOK ==
  ASSUME world \in DOMAIN Worlds
  PROVE  /\ AttemptLimit \in Nat /\ w.task.attempts <= AttemptLimit
         /\ 1 + ProtocolRetries <= AttemptLimit
  <1> DEFINE a == w.task.attempts
             S == {a, 2}
  <1>1. a \in Nat
    BY WorldOK
  <1>2. \E x \in S : \A y \in S : x >= y
    BY <1>1
  <1>3. Max(S) \in S /\ \A y \in S : Max(S) >= y
    BY <1>2, Zenon DEF Max
  <1>4. 1 + ProtocolRetries = 2
    BY DEF ProtocolRetries
  <1>5. AttemptLimit = Max(S)
    BY <1>4 DEF AttemptLimit
  <1> QED BY <1>1, <1>3, <1>4, <1>5

\* How often a candidate was tried.
Count(t, c) == Cardinality({i \in DOMAIN t : t[i] = c})

\* One more attempt.
LEMMA CountAppend ==
  ASSUME NEW t \in Seq(Nat), NEW c \in Nat, NEW d \in Nat
  PROVE  /\ Count(t, d) \in Nat
         /\ Count(Append(t, c), d) = Count(t, d) + IF d = c THEN 1 ELSE 0
  <1> DEFINE S == {i \in DOMAIN t : t[i] = d}
             u == Append(t, c)
             T == {i \in DOMAIN u : u[i] = d}
  <1>1. S \subseteq 1 .. Len(t) /\ Len(t) \in Nat
    OBVIOUS
  <1>2. IsFiniteSet(S) /\ Cardinality(S) \in Nat
    <2> HIDE DEF S
    <2>1. IsFiniteSet(1 .. Len(t))
      BY <1>1, FS_Interval
    <2>2. IsFiniteSet(S)
      BY <1>1, <2>1, FS_Subset
    <2> QED BY <2>2, FS_CardinalityType
  <1>3. T = IF d = c THEN S \cup {Len(t) + 1} ELSE S
    OBVIOUS
  <1>4. Len(t) + 1 \notin S
    BY <1>1
  <1>5. Cardinality(S \cup {Len(t) + 1}) = Cardinality(S) + 1
    <2> HIDE DEF S
    <2> QED BY <1>2, <1>4, FS_AddElement
  <1>6. Count(t, d) = Cardinality(S) /\ Count(u, d) = Cardinality(T)
    BY DEF Count
  <1> HIDE DEF S, T, u
  <1>7. Cardinality(T) = Cardinality(S) + IF d = c THEN 1 ELSE 0
    BY <1>2, <1>3, <1>5
  <1>8. Count(u, d) = Count(t, d) + IF d = c THEN 1 ELSE 0
    BY <1>6, <1>7
  <1> QED BY <1>2, <1>6, <1>8 DEF u

\* A candidate nobody has come to was not tried.
LEMMA CountNone ==
  ASSUME NEW t \in Seq(Nat), NEW d \in Nat, \A i \in DOMAIN t : t[i] # d
  PROVE  Count(t, d) = 0
  <1>1. {i \in DOMAIN t : t[i] = d} = {}
    OBVIOUS
  <1> QED BY <1>1, FS_EmptySet DEF Count

\* next_candidate_index goes forward.
LEMMA NextCandidateOK ==
  ASSUME NEW c \in Nat, NEW larger \in BOOLEAN, NextCandidate(c, larger) # None,
         Len(Candidates) \in Nat
  PROVE  NextCandidate(c, larger) \in c + 1 .. Len(Candidates)
  <1> DEFINE later == {i \in c + 1 .. Len(Candidates) : larger => Tokens(i) > Tokens(c)}
  <1>1. later \subseteq Nat
    OBVIOUS
  <1>2. later # {} /\ NextCandidate(c, larger) = Min(later)
    BY DEF NextCandidate
  <1>3. Min(later) \in later
    <2> HIDE DEF later
    <2> QED BY <1>1, <1>2, MinOf
  <1> QED BY <1>2, <1>3

\* The candidates of a decision are a sequence.
Listed == Len(Candidates) \in Nat

\* A step leaves the other fields of the job and of the run alone.
RunShape ==
    /\ DOMAIN job = {"state", "record", "attempt"} /\ job.attempt \in Nat
    /\ DOMAIN run = {"index", "here", "tried", "last", "sent"}
    /\ run.index \in Nat /\ run.here \in Nat /\ run.tried \in Seq(Nat)

\* Where the attempts stand: the candidate in hand is the last that was tried,
\* or was not tried yet, and run.here counts the attempts on it.
Standing ==
    job.state \in {"admitted", "executing"} =>
        /\ run.index >= 1
        /\ \A i \in DOMAIN run.tried : run.tried[i] <= run.index
        /\ Count(run.tried, run.index) = run.here
        /\ job.state = "admitted" => run.here < AttemptLimit

\* The inductive form of AttemptsBounded.
AttemptInv ==
    /\ world \in DOMAIN Worlds
    /\ RunShape /\ Standing
    /\ job.attempt <= w.task.max_attempts
    /\ \A i, k \in DOMAIN run.tried : i < k => run.tried[i] <= run.tried[k]
    /\ \A c \in Nat : Count(run.tried, c) <= AttemptLimit

\* A job that has not been routed has no attempts.
LEMMA AttemptInit == DispatchInit => AttemptInv
  <1> SUFFICES ASSUME DispatchInit PROVE AttemptInv
    OBVIOUS
  <1> USE DEF DispatchInit
  <1>1. world \in DOMAIN Worlds
    OBVIOUS
  <1>2. RunShape
    BY DEF RunShape, NoRun
  <1>3. Standing
    BY DEF Standing
  <1>4. job.attempt <= w.task.max_attempts
    BY <1>1, WorldOK
  <1>5. run.tried = <<>>
    BY DEF NoRun
  <1>6. \A c \in Nat : Count(run.tried, c) <= AttemptLimit
    <2>1. \A c \in Nat : Count(<<>>, c) = 0
      <3>1. <<>> \in Seq(Nat) /\ DOMAIN <<>> = {}
        OBVIOUS
      <3> QED BY <3>1, CountNone
    <2> QED BY <1>1, <1>5, <2>1, LimitOK
  <1> QED BY <1>1, <1>2, <1>3, <1>4, <1>5, <1>6 DEF AttemptInv

\* Steps that leave the attempts alone.
LEMMA AttemptStill ==
  ASSUME AttemptInv, UNCHANGED <<world, run>>, job'.attempt = job.attempt,
         DOMAIN job' = DOMAIN job,
         job'.state \in {"admitted", "executing"} => job' = job
  PROVE  AttemptInv'
  <1>1. UNCHANGED <<w, AttemptLimit>>
    BY DEF w, AttemptLimit
  <1>2. RunShape'
    BY DEF AttemptInv, RunShape
  <1>3. Standing'
    BY <1>1 DEF AttemptInv, Standing
  <1> QED BY <1>1, <1>2, <1>3 DEF AttemptInv

\* The end of the attempts, whatever it is.
LEMMA AttemptEnded ==
  ASSUME AttemptInv, UNCHANGED world,
         NEW state \in {"queued", "completed", "failed", "cancelled"}, Ended(state)
  PROVE  AttemptInv'
  <1>1. UNCHANGED <<w, AttemptLimit>>
    BY DEF w, AttemptLimit
  <1>2. /\ job' = [job EXCEPT !.state = state] /\ run' = [run EXCEPT !.index = 0]
        /\ RunShape
    BY DEF AttemptInv, Ended
  <1>3. /\ job'.state = state /\ job'.attempt = job.attempt /\ DOMAIN job' = DOMAIN job
        /\ DOMAIN run' = DOMAIN run /\ run'.index = 0 /\ run'.here = run.here
        /\ run'.tried = run.tried
    BY <1>2 DEF RunShape
  <1>4. RunShape'
    BY <1>2, <1>3 DEF RunShape
  <1>5. Standing'
    BY <1>3 DEF Standing
  <1> QED BY <1>1, <1>3, <1>4, <1>5 DEF AttemptInv

\* The next candidate: nobody tried it yet.
LEMMA AttemptAdvances ==
  ASSUME AttemptInv, job.state \in {"admitted", "executing"}, UNCHANGED world,
         NEW next \in Nat, next > run.index,
         job'.attempt = job.attempt, DOMAIN job' = DOMAIN job,
         DOMAIN run' = DOMAIN run, run'.index = next, run'.here = 0, run'.tried = run.tried
  PROVE  AttemptInv'
  <1>1. UNCHANGED <<w, AttemptLimit>>
    BY DEF w, AttemptLimit
  <1>2. RunShape'
    BY DEF AttemptInv, RunShape
  <1>3. \A i \in DOMAIN run.tried : run.tried[i] \in Nat /\ run.tried[i] < next
    BY DEF AttemptInv, RunShape, Standing
  <1>4. Count(run.tried, next) = 0
    BY <1>3, CountNone DEF AttemptInv, RunShape
  <1>5. AttemptLimit \in Nat /\ 0 < AttemptLimit
    BY LimitOK DEF AttemptInv, ProtocolRetries
  <1>6. Standing'
    BY <1>1, <1>3, <1>4, <1>5 DEF Standing, AttemptInv, RunShape
  <1> QED BY <1>1, <1>2, <1>6 DEF AttemptInv

\* Every step of a job keeps its attempts accounted for.
LEMMA AttemptStep ==
  ASSUME AttemptInv, Listed, [DispatchNext]_dispatchVars
  PROVE  AttemptInv'
  <1>0. RunShape /\ world \in DOMAIN Worlds
    BY DEF AttemptInv
  <1>b. CASE ReadSnapshot \/ ReadLoaded \/ ReadExcluded \/ ReadDevices
    BY <1>0, <1>b, AttemptStill
       DEF ReadSnapshot, ReadLoaded, ReadExcluded, ReadDevices, Reads, RunShape
  <1>1. CASE RouteJob
    BY <1>0, <1>1, AttemptStill DEF RouteJob, RunShape
  <1>2. CASE Defer
    BY <1>0, <1>2, AttemptStill DEF Defer, RunShape
  <1>3. CASE FailAdmission
    BY <1>0, <1>3, AttemptStill DEF FailAdmission, RunShape
  <1>4. CASE Admit
    <2>1. /\ UNCHANGED world /\ DOMAIN job' = DOMAIN job /\ job'.attempt = job.attempt
          /\ job'.state = "admitted"
      BY <1>0, <1>4 DEF Admit, RunShape
    <2>2. /\ DOMAIN run' = DOMAIN run /\ run'.index = 1 /\ run'.here = 0 /\ run'.tried = <<>>
      BY <1>0, <1>4 DEF Admit, RunShape, NoRun
    <2>3. UNCHANGED <<w, AttemptLimit>>
      BY <2>1 DEF w, AttemptLimit
    <2>4. <<>> \in Seq(Nat) /\ DOMAIN <<>> = {}
      OBVIOUS
    <2>5. \A c \in Nat : Count(<<>>, c) = 0
      BY <2>4, CountNone
    <2>6. AttemptLimit \in Nat /\ 0 < AttemptLimit
      BY <1>0, LimitOK DEF ProtocolRetries
    <2>7. RunShape'
      BY <1>0, <2>1, <2>2, <2>4 DEF RunShape
    <2>8. Standing'
      BY <2>1, <2>2, <2>3, <2>5, <2>6 DEF Standing
    <2> QED BY <2>1, <2>2, <2>3, <2>4, <2>5, <2>6, <2>7, <2>8 DEF AttemptInv
  <1>5. CASE Reevaluate
    BY <1>0, <1>5, AttemptStill DEF Reevaluate, RunShape
  <1>6. CASE SkipBusyProbe
    <2> DEFINE next == NextCandidate(run.index, FALSE)
    <2>1. CASE next = None
      BY <1>6, <2>1, AttemptEnded DEF SkipBusyProbe
    <2>2. CASE next # None
      <3>1. /\ UNCHANGED <<world, job>> /\ run' = [run EXCEPT !.index = next]
            /\ job.state = "admitted" /\ run.here = 0
        BY <1>6, <2>2 DEF SkipBusyProbe
      <3>2. next \in run.index + 1 .. Len(Candidates)
        BY <1>0, <2>2, NextCandidateOK DEF RunShape, Listed
      <3> HIDE DEF next
      <3>3. next \in Nat /\ next > run.index
        BY <1>0, <3>2 DEF RunShape, Listed
      <3>4. DOMAIN run' = DOMAIN run /\ run'.index = next /\ run'.here = 0
              /\ run'.tried = run.tried
        BY <1>0, <3>1 DEF RunShape
      <3> QED BY <3>1, <3>3, <3>4, AttemptAdvances
    <2> QED BY <2>1, <2>2
  <1>7. CASE StartAttempt
    <2>1. CASE job.attempt >= w.task.max_attempts
      BY <1>7, <2>1, AttemptEnded DEF StartAttempt
    <2>2. CASE ~(job.attempt >= w.task.max_attempts)
      <3>1. /\ UNCHANGED world /\ job.state = "admitted"
            /\ job' = [job EXCEPT !.state = "executing", !.attempt = @ + 1]
            /\ run' = [run EXCEPT !.here = @ + 1, !.tried = Append(@, run.index),
                                  !.sent = SentOutput]
        BY <1>7, <2>2 DEF StartAttempt
      <3>2. /\ job'.state = "executing" /\ job'.attempt = job.attempt + 1
            /\ DOMAIN job' = DOMAIN job
        BY <1>0, <3>1 DEF RunShape
      <3>3. /\ run'.here = run.here + 1 /\ run'.tried = Append(run.tried, run.index)
            /\ run'.index = run.index /\ DOMAIN run' = DOMAIN run
        BY <1>0, <3>1 DEF RunShape
      <3>4. UNCHANGED <<w, AttemptLimit>>
        BY <3>1 DEF w, AttemptLimit
      <3>5. RunShape'
        BY <1>0, <3>2, <3>3 DEF RunShape
      <3> DEFINE t == run.tried
                 c == run.index
                 u == Append(t, c)
      <3>6. /\ t \in Seq(Nat) /\ c \in Nat /\ run.here \in Nat /\ c >= 1
            /\ \A i \in DOMAIN t : t[i] <= c
            /\ Count(t, c) = run.here /\ run.here < AttemptLimit
            /\ \A i, k \in DOMAIN t : i < k => t[i] <= t[k]
            /\ \A d \in Nat : Count(t, d) <= AttemptLimit
        BY <3>1 DEF AttemptInv, RunShape, Standing
      <3>7. \A i \in DOMAIN u : i \in DOMAIN t \/ i = Len(t) + 1
        BY <3>6
      <3>8. /\ \A i \in DOMAIN t : u[i] = t[i] /\ i \in Nat /\ i <= Len(t) /\ t[i] \in Nat
            /\ u[Len(t) + 1] = c /\ Len(t) \in Nat
        BY <3>6
      <3>9. \A i \in DOMAIN u : u[i] <= c
        BY <3>6, <3>7, <3>8
      <3>10. \A i, k \in DOMAIN u : i < k => u[i] <= u[k]
        BY <3>6, <3>7, <3>8
      <3>11. AttemptLimit \in Nat
        BY <1>0, LimitOK
      <3>12. \A d \in Nat : Count(u, d) <= AttemptLimit
        <4> SUFFICES ASSUME NEW d \in Nat PROVE Count(u, d) <= AttemptLimit
          OBVIOUS
        <4>1. /\ Count(t, d) \in Nat
              /\ Count(u, d) = Count(t, d) + IF d = c THEN 1 ELSE 0
          BY <3>6, CountAppend
        <4> HIDE DEF u, t, c
        <4> QED BY <3>6, <3>11, <4>1
      <3>13. Count(u, c) = run.here + 1
        BY <3>6, CountAppend
      <3>14. Standing'
        BY <3>2, <3>3, <3>4, <3>6, <3>9, <3>13 DEF Standing
      <3>15. job'.attempt <= w.task.max_attempts
        BY <1>0, <2>2, <3>2, WorldOK DEF RunShape
      <3> QED BY <1>0, <3>1, <3>3, <3>4, <3>5, <3>10, <3>12, <3>14, <3>15 DEF AttemptInv
    <2> QED BY <2>1, <2>2
  <1>8. CASE Completes
    BY <1>8, AttemptEnded DEF Completes
  <1>9. ASSUME NEW kind \in FailureKinds, AttemptFails(kind) PROVE AttemptInv'
    <2> DEFINE action == NextAction(kind, run.here)
               next   == NextCandidate(run.index, kind = "context_limit")
    <2>0. UNCHANGED world /\ job.state = "executing"
      BY <1>9 DEF AttemptFails
    <2>1. CASE action = "stop"
      BY <1>9, <2>1, AttemptEnded DEF AttemptFails
    <2>2. CASE action = "retry_same"
      <3>1. CASE job.attempt >= w.task.max_attempts
        BY <1>9, <2>2, <3>1, AttemptEnded DEF AttemptFails
      <3>2. CASE ~(job.attempt >= w.task.max_attempts)
        <4>1. job' = [job EXCEPT !.state = "admitted"] /\ run' = [run EXCEPT !.last = kind]
          BY <1>9, <2>2, <3>2 DEF AttemptFails
        <4>2. /\ job'.state = "admitted" /\ job'.attempt = job.attempt
              /\ DOMAIN job' = DOMAIN job
              /\ DOMAIN run' = DOMAIN run /\ run'.index = run.index /\ run'.here = run.here
              /\ run'.tried = run.tried
          BY <1>0, <4>1 DEF RunShape
        <4>3. run.here < w.task.attempts \/ run.here <= ProtocolRetries
          BY <2>2 DEF NextAction
        <4>4. run.here < AttemptLimit
          BY <1>0, <4>3, LimitOK, WorldOK DEF RunShape, ProtocolRetries
        <4>5. UNCHANGED <<w, AttemptLimit>>
          BY <2>0 DEF w, AttemptLimit
        <4>6. RunShape'
          BY <1>0, <4>2 DEF RunShape
        <4>7. Standing'
          BY <2>0, <4>2, <4>4, <4>5 DEF AttemptInv, Standing
        <4> QED BY <2>0, <4>2, <4>5, <4>6, <4>7 DEF AttemptInv
      <3> QED BY <3>1, <3>2
    <2>3. CASE action \notin {"stop", "retry_same"}
      <3>1. CASE next = None
        BY <1>9, <2>3, <3>1, AttemptEnded DEF AttemptFails
      <3>2. CASE next # None
        <4>1. /\ job' = [job EXCEPT !.state = "admitted"]
              /\ run' = [run EXCEPT !.index = next, !.here = 0, !.last = kind]
          BY <1>9, <2>3, <3>2 DEF AttemptFails
        <4>2. next \in run.index + 1 .. Len(Candidates)
          BY <1>0, <3>2, NextCandidateOK DEF RunShape, Listed
        <4> HIDE DEF next, action
        <4>3. next \in Nat /\ next > run.index
          BY <1>0, <4>2 DEF RunShape, Listed
        <4>4. /\ job'.attempt = job.attempt /\ DOMAIN job' = DOMAIN job
              /\ DOMAIN run' = DOMAIN run /\ run'.index = next /\ run'.here = 0
              /\ run'.tried = run.tried
          BY <1>0, <4>1 DEF RunShape
        <4> QED BY <2>0, <4>3, <4>4, AttemptAdvances
      <3> QED BY <3>1, <3>2
    <2> QED BY <2>1, <2>2, <2>3
  <1>10. CASE MachineChanges
    BY <1>0, <1>10, AttemptStill DEF MachineChanges
  <1>11. CASE UNCHANGED dispatchVars
    BY <1>0, <1>11, AttemptStill DEF dispatchVars
  <1> QED BY <1>b, <1>1, <1>2, <1>3, <1>4, <1>5, <1>6, <1>7, <1>8, <1>9, <1>10, <1>11
          DEF DispatchNext, Claiming, Attempting

\* What a rejection for want of memory says, on a machine with a device.
LEMMA ShortOfMemory ==
  ASSUME NEW wd, IsStored(wd), NEW rq, IsRequest(rq), NEW mc, DOMAIN mc.gpus # {},
         NEW r \in Route(wd, RoutingView(mc), rq).rejected, r.reason \in ResourceReasons
  PROVE  /\ r.estimate = None \/ r.estimate \in Nat
         /\ \A g \in DOMAIN mc.gpus : <<r.subject.facts.canonical_id, g>> \notin Resident(mc)
         /\ DeviceFits(r.estimate, AdjustSnapshot(mc).gpus, wd.policy.headroom) = {}
  <1> DEFINE env == RoutingView(mc)
             At(i) == OutcomeAt(wd, env, rq, i)
  <1>1. Goes(wd, rq)
    BY RouteIs
  <1>2. PICK i \in Chosen(wd, rq) : r = At(i) /\ r.reason # None
    BY <1>1, RouteIs
  <1> DEFINE s == Built(wd, rq, i)
             fit == ScoreOf(wd, rq, s)
             estimate == EstimateVram(s.facts, s.profile, s.served.tokens)
             in == ConstraintInputs(wd, env, rq, Merged(wd, rq), s, fit)
  <1>3. s.served # None
    <2>1. s.served = None => At(i).reason = "context_too_small"
      BY EvaluateOK DEF OutcomeAt
    <2> QED BY <1>2, <2>1 DEF ResourceReasons
  <1>4. /\ r.subject = s /\ r.estimate = estimate
        /\ r.reason = EvaluateConstraints(s, estimate, in)
    BY <1>2, <1>3, EvaluateOK DEF OutcomeAt
  <1>5. estimate = None \/ estimate \in Nat
    <2>1. i \in DOMAIN ReadCandidates(wd) /\ Merged(wd, rq) # None
      BY <1>1 DEF Chosen, Goes
    <2> QED BY <1>3, <2>1, SubjectOK
  <1>6. in.snapshot = AdjustSnapshot(mc) /\ in.resident = Resident(mc)
        /\ in.headroom = wd.policy.headroom
    BY DEF ConstraintInputs, RoutingView
  <1>7. DOMAIN AdjustSnapshot(mc).gpus = DOMAIN mc.gpus
    BY DEF AdjustSnapshot
  <1> HIDE DEF At, env, s, fit, estimate, in
  <1>8. PICK k \in 1 .. 17 : FailsAt(s, estimate, in, k) /\ r.reason = Reason(s, estimate, in, k)
    BY <1>2, <1>4, Evaluates
  <1>9. k \in {9, 10}
    BY <1>8, ReasonsAre DEF ResourceReasons
  <1>10. k # 10
    BY <1>6, <1>7, <1>8, FailsWhen
  <1>11. OutOfMemory(s, estimate, in)
    BY <1>8, <1>9, <1>10, FailsWhen
  <1>12. /\ ResidentHere(s, in) = {} /\ in.snapshot # None
         /\ DeviceFits(estimate, AdjustSnapshot(mc).gpus, wd.policy.headroom) = {}
    BY <1>6, <1>11 DEF OutOfMemory
  <1>13. \A g \in DOMAIN mc.gpus : <<s.facts.canonical_id, g>> \notin Resident(mc)
    BY <1>6, <1>7, <1>12 DEF ResidentHere
  <1> QED BY <1>4, <1>5, <1>12, <1>13

\* reevaluate_waiting looks at the same figures as classify_rejections did: on
\* the same machine the job stays where it is.
LEMMA StaysDeferred ==
  ASSUME world \in DOMAIN Worlds, NEW mc, DOMAIN mc.gpus # {},
         \A s \in mc.probing : s[2] = "",
         NEW record,
         record = ClassifyRejections(Route(w, RoutingView(mc), q).rejected, mc.probing),
         record.defer
  PROVE  ~Proceeds(record, mc)
  <1> DEFINE rejected == Route(w, RoutingView(mc), q).rejected
             short == {r \in rejected : r.reason \in ResourceReasons}
             probing == {r \in rejected :
                           /\ r.reason = "recently_failing"
                           /\ SubjectOf(r.subject.facts, r.subject.adapter) \in mc.probing}
             known == {r.estimate : r \in {s \in short : s.estimate # None}}
             snapshot == AdjustSnapshot(mc)
             stillOut == {c \in record.probes : <<c, "">> \in Excluded(mc)}
  <1>0. IsStored(w) /\ IsRequest(q)
    BY WorldOK
  <1>1. /\ record.defer = (short # {} \/ probing # {})
        /\ record.required = IF known = {} THEN None ELSE Min(known)
        /\ record.candidates = {r.subject.facts.canonical_id : r \in short}
        /\ record.probes = {r.subject.facts.canonical_id : r \in probing}
    BY DEF ClassifyRejections
  <1>2. \A r \in short :
           /\ r.estimate = None \/ r.estimate \in Nat
           /\ \A g \in DOMAIN mc.gpus : <<r.subject.facts.canonical_id, g>> \notin Resident(mc)
           /\ DeviceFits(r.estimate, snapshot.gpus, w.policy.headroom) = {}
    BY <1>0, ShortOfMemory
  <1>3. DOMAIN snapshot.gpus = DOMAIN mc.gpus
    BY DEF AdjustSnapshot
  <1>4. stillOut = record.probes
    <2>1. ASSUME NEW r \in probing PROVE <<r.subject.facts.canonical_id, "">> \in Excluded(mc)
      <3>1. SubjectOf(r.subject.facts, r.subject.adapter) \in mc.probing
        OBVIOUS
      <3> DEFINE c == r.subject.facts.canonical_id
                 n == IF r.subject.adapter = None THEN "" ELSE r.subject.adapter.name
                 p == <<c, n>>
      <3>2. p \in mc.probing
        BY <3>1 DEF SubjectOf
      <3> HIDE DEF c, n
      <3>3. p[2] = n
        OBVIOUS
      <3> HIDE DEF p
      <3>4. n = ""
        BY <3>2, <3>3
      <3> QED BY <3>2, <3>4 DEF p, c, Excluded
    <2> HIDE DEF probing
    <2> QED BY <1>1, <2>1
  <1> HIDE DEF rejected, short, probing
  <1>5. ~WaitingJobCanProceed(record, snapshot.gpus, w.policy.headroom, Resident(mc))
    <2>1. \A g \in DOMAIN snapshot.gpus, c \in record.candidates : <<c, g>> \notin Resident(mc)
      BY <1>1, <1>2, <1>3
    <2>2. DeviceFits(record.required, snapshot.gpus, w.policy.headroom) = {}
      <3>1. CASE known = {}
        BY <1>1, <3>1 DEF DeviceFits
      <3>2. CASE known # {}
        <4>1. known \subseteq Nat
          BY <1>2
        <4>2. Min(known) \in known
          <5> HIDE DEF known
          <5> QED BY <3>2, <4>1, MinOf
        <4>3. PICK r \in short : r.estimate = Min(known)
          BY <4>2
        <4> HIDE DEF known
        <4> QED BY <1>1, <1>2, <3>2, <4>3
      <3> QED BY <3>1, <3>2
    <2> QED BY <2>1, <2>2 DEF WaitingJobCanProceed
  <1>6. record.probes = {} => record.candidates # {}
    <2>1. short # {} \/ probing # {}
      BY <1>1
    <2>2. CASE short # {}
      <3>1. PICK r \in short : TRUE
        BY <2>2
      <3>2. r.subject.facts.canonical_id \in record.candidates
        BY <1>1, <3>1
      <3> QED BY <3>2
    <2>3. CASE probing # {}
      <3>1. PICK r \in probing : TRUE
        BY <2>3
      <3>2. r.subject.facts.canonical_id \in record.probes
        BY <1>1, <3>1
      <3> QED BY <3>2
    <2> QED BY <2>1, <2>2, <2>3
  <1> HIDE DEF snapshot, stillOut
  <1>7. Proceeds(record, mc) <=>
           IF record.probes # {} /\ stillOut = {} THEN TRUE
           ELSE IF record.probes # {} /\ record.candidates = {} THEN FALSE
           ELSE IF DOMAIN snapshot.gpus = {} THEN TRUE
           ELSE WaitingJobCanProceed(record, snapshot.gpus, w.policy.headroom, Resident(mc))
    BY DEF Proceeds, snapshot, stillOut
  <1> QED BY <1>3, <1>4, <1>5, <1>6, <1>7
-----------------------------------------------------------------------------
(* The invariant.                                                          *)

\* rank_candidates: the fallbacks are the candidates that follow the first.
Follows(d) ==
    /\ d.ordered \in Seq(ToSet(d.ordered)) /\ d.fallbacks \in Seq(ToSet(d.ordered))
    /\ \A i \in 1 .. Len(d.fallbacks) :
          i + 1 \in 1 .. Len(d.ordered) /\ d.fallbacks[i] = d.ordered[i + 1]

\* route(): the fallbacks are the candidates that follow the selected one.
LEMMA RouteFollows ==
  ASSUME NEW wd, IsStored(wd), NEW env, NEW rq
  PROVE  Follows(Route(wd, env, rq))
  <1> DEFINE d == Route(wd, env, rq)
             o == d.ordered
             depth == wd.task.fallback_depth
             b == Min({Len(o), 1 + depth})
             f == SubSeq(o, 2, b)
             Y == ToSet(o)
  <1>1. CASE ~Goes(wd, rq)
    <2>1. o = <<>> /\ d.fallbacks = <<>>
      BY <1>1, RouteIs
    <2> QED BY <2>1 DEF Follows
  <1>2. CASE Goes(wd, rq)
    <2>1. /\ o \in Seq(Y)
          /\ d.fallbacks = FallbacksOf(o, depth, rq.overrides.disallow_fallback)
      BY <1>2, RouteIs
    <2>2. depth \in Nat
      BY DEF IsStored, IsTaskProfile
    <2> HIDE DEF d, Y, depth
    <2>3. d.fallbacks = <<>> \/ d.fallbacks = f
      BY <2>1 DEF FallbacksOf
    <2>4. Len(o) \in Nat
      BY <2>1
    <2> DEFINE n == Len(o)
               e == 1 + depth
    <2>5. n \in Nat /\ e \in Nat /\ b = Min({n, e})
      BY <2>2, <2>4
    <2> HIDE DEF n, e
    <2>6. Min({n, e}) \in {n, e} /\ Min({n, e}) <= n
      <3>1. n \in Int /\ e \in Int
        BY <2>5
      <3> HIDE DEF b
      <3> QED BY <3>1, MaxOfTwo
    <2>7. b \in Nat /\ b <= Len(o)
      BY <2>5, <2>6 DEF n
    <2> HIDE DEF b
    <2>8. /\ f \in Seq(Y)
          /\ \A i \in 1 .. Len(f) : i + 1 \in 1 .. Len(o) /\ f[i] = o[i + 1]
      BY <2>1, <2>4, <2>7
    <2> HIDE DEF f
    <2>9. /\ d.fallbacks \in Seq(Y)
           /\ \A i \in 1 .. Len(d.fallbacks) :
                 i + 1 \in 1 .. Len(o) /\ d.fallbacks[i] = o[i + 1]
      <3>1. CASE d.fallbacks = f
        BY <2>8, <3>1
      <3>2. CASE d.fallbacks = <<>>
        BY <3>2
      <3> QED BY <2>3, <3>1, <3>2
    <2> QED BY <2>1, <2>9 DEF Follows, Y, d
  <1> QED BY <1>1, <1>2

\* The candidates an admitted job goes through are the first ones of the ranking.
LEMMA CandidatesListed ==
  ASSUME Follows(decision)
  PROVE  /\ Len(Candidates) \in Nat
         /\ decision.ordered # <<>> =>
               /\ Len(Candidates) <= Len(decision.ordered)
               /\ \A i \in 1 .. Len(Candidates) :
                     i \in 1 .. Len(decision.ordered) /\ Candidates[i] = decision.ordered[i]
  <1> DEFINE o == decision.ordered
             f == decision.fallbacks
             one == <<o[1]>>
             Y == ToSet(o) \cup {o[1]}
             c == one \o f
  <1>1. /\ o \in Seq(Y) /\ f \in Seq(Y) /\ one \in Seq(Y)
        /\ \A i \in 1 .. Len(f) : i + 1 \in 1 .. Len(o) /\ f[i] = o[i + 1]
    BY DEF Follows
  <1>2. Len(o) \in Nat /\ Len(f) \in Nat /\ Len(one) = 1 /\ one[1] = o[1]
        /\ (o # <<>> => Len(o) > 0)
    BY <1>1
  <1>3. c = Candidates
    BY DEF Candidates
  <1> HIDE DEF o, f, one, Y
  <1>4. Len(c) = 1 + Len(f) /\ \A i \in 1 .. Len(c) : c[i] = IF i = 1 THEN one[1] ELSE f[i - 1]
    <2>1. one \in Seq(Y) /\ f \in Seq(Y)
      BY <1>1
    <2>2. Len(c) = Len(one) + Len(f)
      BY <2>1
    <2>3. \A i \in 1 .. Len(one) + Len(f) :
             c[i] = IF i <= Len(one) THEN one[i] ELSE f[i - Len(one)]
      BY <2>1
    <2> HIDE DEF c
    <2>4. \A i \in 1 .. 1 + Len(f) : c[i] = IF i = 1 THEN one[1] ELSE f[i - 1]
      BY <1>2, <2>3
    <2> QED BY <1>2, <2>2, <2>4
  <1> HIDE DEF c
  <1>5. ASSUME o # <<>>, NEW i \in 1 .. Len(c)
        PROVE  i \in 1 .. Len(o) /\ c[i] = o[i]
    <2>1. CASE i = 1
      BY <1>2, <1>4, <1>5, <2>1
    <2>2. CASE i # 1
      <3>1. i - 1 \in 1 .. Len(f) /\ c[i] = f[i - 1] /\ (i - 1) + 1 = i
        BY <1>2, <1>4, <2>2
      <3>2. (i - 1) + 1 \in 1 .. Len(o) /\ f[i - 1] = o[(i - 1) + 1]
        BY <1>1, <3>1
      <3> QED BY <3>1, <3>2
    <2> QED BY <2>1, <2>2
  <1>6. o # <<>> => Len(c) <= Len(o)
    <2> SUFFICES ASSUME o # <<>> PROVE Len(c) <= Len(o)
      OBVIOUS
    <2>1. Len(c) \in 1 .. Len(c)
      BY <1>2, <1>4
    <2> QED BY <1>2, <1>5, <2>1
  <1> QED BY <1>2, <1>3, <1>4, <1>5, <1>6 DEF o

\* The states of a job that is being routed.
BeingRouted == {"snapshot_read", "loaded_read", "excluded_read", "devices_read"}

\* The decision in hand, and the record of the job, are what routing said of what
\* was read last.
Current ==
    \/ decision = NoDecision /\ job.state \in BeingRouted \cup {"queued"}
    \/ /\ job.state \notin BeingRouted
       /\ decision = Route(w, view, q)
       /\ job.record = ClassifyRejections(decision.rejected, view.details)

\* What the breakers exclude was read at one instant, with the probes that were out.
BreakersRead ==
    \E mc \in Machines : view.breakers = Excluded(mc) /\ view.halfOpen = mc.probing

\* What has been read, and that it is so of this machine if nothing has changed.
ViewRead ==
    /\ DOMAIN view = DOMAIN NoView
    /\ job.state \notin {"queued", "snapshot_read", "loaded_read"} => BreakersRead
    /\ quiet =>
          /\ job.state = "snapshot_read" =>
                view = [NoView EXCEPT !.snapshot = AdjustSnapshot(machine)]
          /\ job.state = "loaded_read" =>
                view = [NoView EXCEPT !.snapshot = AdjustSnapshot(machine),
                                      !.loaded = LoadedModels(machine)]
          /\ job.state = "excluded_read" =>
                view = [NoView EXCEPT !.snapshot = AdjustSnapshot(machine),
                                      !.loaded = LoadedModels(machine),
                                      !.breakers = Excluded(machine),
                                      !.halfOpen = machine.probing]
          /\ job.state = "devices_read" =>
                view = [NoView EXCEPT !.snapshot = AdjustSnapshot(machine),
                                      !.loaded = LoadedModels(machine),
                                      !.breakers = Excluded(machine),
                                      !.halfOpen = machine.probing,
                                      !.resident = Resident(machine)]
          /\ decision # NoDecision \/ job.state \notin BeingRouted \cup {"queued"} =>
                view = RoutingView(machine)

\* What was made of the decision.
Verdicts ==
    /\ job.state = "waiting" => decision.error = "NO_ELIGIBLE_MODEL" /\ job.record.defer
    /\ (job.state = "refused" /\ decision.error = "NO_ELIGIBLE_MODEL") => ~job.record.defer
    /\ job.state \in {"admitted", "executing"} => decision.error = None

\* The candidate in hand is one of the decision's.
Indexed ==
    /\ job.state \notin {"admitted", "executing"} => run.index = 0
    /\ job.state \in {"admitted", "executing"} =>
          /\ run.index <= Len(Candidates)
          /\ \A i \in DOMAIN run.tried : run.tried[i] \in 1 .. Len(Candidates)

\* The inductive invariant of Dispatch.
DispatchInv ==
    /\ AttemptInv /\ Current /\ ViewRead /\ Verdicts /\ Indexed
    /\ machine \in Machines /\ job.state \in Jobs
    /\ moves \in 0 .. Worlds[world].moves /\ quiet \in BOOLEAN

\* The decision a job holds is one that route() made, or none.
LEMMA DecisionFollows ==
  ASSUME world \in DOMAIN Worlds, Current
  PROVE  Follows(decision) /\ Listed
  <1>1. CASE decision = NoDecision
    <2>1. decision.ordered = <<>> /\ decision.fallbacks = <<>>
      BY <1>1 DEF NoDecision
    <2>2. Follows(decision)
      BY <2>1 DEF Follows
    <2> QED BY <2>2, CandidatesListed DEF Listed
  <1>2. CASE decision # NoDecision
    <2>1. decision = Route(w, view, q)
      BY <1>2 DEF Current
    <2>2. Follows(decision)
      BY <2>1, WorldOK, RouteFollows
    <2> QED BY <2>2, CandidatesListed DEF Listed
  <1> QED BY <1>1, <1>2

\* The job's first state.
LEMMA DispatchInitInv == DispatchInit => DispatchInv
  <1> SUFFICES ASSUME DispatchInit PROVE DispatchInv
    OBVIOUS
  <1>1. AttemptInv /\ world \in DOMAIN Worlds
    BY AttemptInit DEF DispatchInit
  <1>2. Current /\ ViewRead /\ Verdicts /\ Indexed
    BY DEF DispatchInit, Current, ViewRead, Verdicts, Indexed, NoRun
  <1>3. moves \in 0 .. Worlds[world].moves
    BY <1>1, WorldOK DEF DispatchInit
  <1> QED BY <1>1, <1>2, <1>3 DEF DispatchInv, DispatchInit, Jobs

\* A step that leaves the machine, the decision and the job's record alone.
LEMMA SameDecision ==
  ASSUME DispatchInv, UNCHANGED <<world, machine, view, decision, moves, quiet>>,
         job'.record = job.record, AttemptInv', job.state \notin BeingRouted \cup {"queued"},
         job'.state \in Jobs \ BeingRouted, Verdicts', Indexed'
  PROVE  DispatchInv'
  <1>1. UNCHANGED <<w, q, Machines>>
    BY DEF w, q, Machines
  <1>2. Current'
    BY <1>1 DEF DispatchInv, Current
  <1>3. ViewRead'
    BY <1>1 DEF DispatchInv, ViewRead, BreakersRead, BeingRouted
  <1> QED BY <1>1, <1>2, <1>3 DEF DispatchInv

\* The attempts go on with the candidate in hand, or with a later one.
LEMMA StillIndexed ==
  ASSUME DispatchInv, job.state \in {"admitted", "executing"},
         job'.state \in {"admitted", "executing"}, UNCHANGED <<decision>>,
         run'.index <= Len(Candidates),
         run'.tried = run.tried \/ run'.tried = Append(run.tried, run.index)
  PROVE  Indexed'
  <1>1. UNCHANGED Candidates
    BY DEF Candidates
  <1>2. /\ run.tried \in Seq(Nat) /\ run.index \in Nat /\ run.index >= 1
        /\ run.index <= Len(Candidates)
        /\ \A i \in DOMAIN run.tried : run.tried[i] \in 1 .. Len(Candidates)
    BY DEF DispatchInv, AttemptInv, RunShape, Standing, Indexed
  <1>3. Len(Candidates) \in Nat
    BY DecisionFollows DEF DispatchInv, AttemptInv, Listed
  <1>4. \A i \in DOMAIN run'.tried : run'.tried[i] \in 1 .. Len(Candidates)
    <2>1. CASE run'.tried = run.tried
      BY <1>2, <2>1
    <2>2. CASE run'.tried = Append(run.tried, run.index)
      <3>1. \A i \in DOMAIN run'.tried :
               \/ i \in DOMAIN run.tried /\ run'.tried[i] = run.tried[i]
               \/ run'.tried[i] = run.index
        BY <1>2, <2>2
      <3>2. run.index \in 1 .. Len(Candidates)
        BY <1>2, <1>3
      <3> QED BY <1>2, <3>1, <3>2
    <2> QED BY <2>1, <2>2
  <1> QED BY <1>1, <1>4 DEF Indexed

\* The end of the attempts, whatever it is.
LEMMA EndedInv ==
  ASSUME DispatchInv, job.state \in {"admitted", "executing"},
         UNCHANGED <<world, machine, view, decision, moves, quiet>>,
         NEW state \in {"queued", "completed", "failed", "cancelled"}, Ended(state)
  PROVE  DispatchInv'
  <1>1. AttemptInv'
    BY AttemptEnded DEF DispatchInv
  <1>2. job'.record = job.record /\ job'.state = state /\ run'.index = 0
    BY DEF Ended, DispatchInv, AttemptInv, RunShape
  <1>3. Verdicts' /\ Indexed' /\ job'.state \in Jobs
    BY <1>2 DEF Verdicts, Indexed, Jobs
  <1>4. job.state \notin BeingRouted \cup {"queued"} /\ job'.state \in Jobs \ BeingRouted
    BY <1>2 DEF BeingRouted, Jobs
  <1> QED BY <1>1, <1>2, <1>3, <1>4, SameDecision

\* A job that is being routed has no decision yet.
LEMMA ReadStep ==
  ASSUME DispatchInv, AttemptInv', ReadSnapshot \/ ReadLoaded \/ ReadExcluded \/ ReadDevices
  PROVE  DispatchInv'
  <1>1. /\ UNCHANGED <<world, machine, run, moves>> /\ decision' = NoDecision
        /\ DOMAIN job' = DOMAIN job /\ job'.state \in BeingRouted
    <2>1. CASE ReadSnapshot
      BY <2>1 DEF ReadSnapshot, BeingRouted, DispatchInv, AttemptInv, RunShape
    <2>2. CASE ReadLoaded \/ ReadExcluded \/ ReadDevices
      BY <2>2 DEF ReadLoaded, ReadExcluded, ReadDevices, Reads, BeingRouted, DispatchInv, Current,
                  AttemptInv, RunShape
    <2> QED BY <2>1, <2>2
  <1>2. UNCHANGED <<w, q, Machines>>
    BY <1>1 DEF w, q, Machines
  <1>3. Current' /\ Verdicts' /\ Indexed' /\ job'.state \in Jobs /\ quiet' \in BOOLEAN
    <2>1. job.state \notin {"admitted", "executing"}
      BY DEF ReadSnapshot, ReadLoaded, ReadExcluded, ReadDevices, Reads
    <2> QED BY <1>1, <2>1 DEF Current, Verdicts, Indexed, BeingRouted, Jobs, DispatchInv,
                  ReadSnapshot, ReadLoaded, ReadExcluded, ReadDevices, Reads
  <1>4. ViewRead'
    <2>0. machine \in Machines
      BY DEF DispatchInv
    <2>1. CASE ReadSnapshot
      <3>1. job'.state = "snapshot_read" /\ view' = [NoView EXCEPT !.snapshot = AdjustSnapshot(machine)]
        BY <2>1 DEF ReadSnapshot, DispatchInv, AttemptInv, RunShape
      <3> QED BY <1>1, <3>1 DEF ViewRead, NoView
    <2>2. CASE ReadLoaded
      <3>1. /\ job.state = "snapshot_read" /\ job'.state = "loaded_read" /\ quiet' = quiet
            /\ view' = [view EXCEPT !.loaded = LoadedModels(machine)]
        BY <2>2 DEF ReadLoaded, Reads, DispatchInv, AttemptInv, RunShape
      <3> QED BY <1>1, <3>1 DEF DispatchInv, ViewRead, NoView
    <2>3. CASE ReadExcluded
      <3>1. /\ job.state = "loaded_read" /\ job'.state = "excluded_read" /\ quiet' = quiet
            /\ view' = [view EXCEPT !.breakers = Excluded(machine), !.halfOpen = machine.probing]
        BY <2>3 DEF ReadExcluded, Reads, DispatchInv, AttemptInv, RunShape
      <3>2. BreakersRead' /\ DOMAIN view' = DOMAIN NoView
        BY <1>2, <2>0, <3>1 DEF DispatchInv, ViewRead, BreakersRead, NoView
      <3> QED BY <1>1, <3>1, <3>2 DEF DispatchInv, ViewRead, NoView
    <2>4. CASE ReadDevices
      <3>1. /\ job.state = "excluded_read" /\ job'.state = "devices_read" /\ quiet' = quiet
            /\ view' = [view EXCEPT !.resident = Resident(machine)]
        BY <2>4 DEF ReadDevices, Reads, DispatchInv, AttemptInv, RunShape
      <3>2. BreakersRead' /\ DOMAIN view' = DOMAIN NoView
        BY <1>2, <3>1 DEF DispatchInv, ViewRead, BreakersRead, NoView
      <3> QED BY <1>1, <3>1, <3>2 DEF DispatchInv, ViewRead, NoView
    <2> QED BY <2>1, <2>2, <2>3, <2>4
  <1> QED BY <1>1, <1>2, <1>3, <1>4 DEF DispatchInv

\* The last read, and the decision.
LEMMA RouteStep ==
  ASSUME DispatchInv, AttemptInv', RouteJob
  PROVE  DispatchInv'
  <1>1. /\ UNCHANGED <<world, machine, run, moves, quiet>> /\ job.state = "devices_read"
        /\ view' = [view EXCEPT !.details = machine.probing]
        /\ decision' = Route(w, view', q)
        /\ job'.state = "leased"
        /\ job'.record = ClassifyRejections(decision'.rejected, view'.details)
    BY DEF RouteJob, DispatchInv, AttemptInv, RunShape
  <1>2. UNCHANGED <<w, q, Machines>>
    BY <1>1 DEF w, q, Machines
  <1>3. Current' /\ Verdicts' /\ Indexed'
    BY <1>1, <1>2 DEF Current, Verdicts, Indexed, BeingRouted, DispatchInv
  <1>4. ViewRead'
    <2>1. BreakersRead' /\ DOMAIN view' = DOMAIN NoView
      BY <1>1, <1>2 DEF DispatchInv, ViewRead, BreakersRead, NoView
    <2>2. quiet => view' = RoutingView(machine)
      BY <1>1 DEF DispatchInv, ViewRead, NoView, RoutingView
    <2> QED BY <1>1, <2>1, <2>2 DEF ViewRead
  <1> QED BY <1>1, <1>2, <1>3, <1>4 DEF DispatchInv, Jobs

\* Every step of a job, of the machine and of the scheduler keeps the invariant.
LEMMA DispatchStep == DispatchInv /\ [DispatchNext]_dispatchVars => DispatchInv'
  <1> SUFFICES ASSUME DispatchInv, [DispatchNext]_dispatchVars PROVE DispatchInv'
    OBVIOUS
  <1>0. /\ RunShape /\ world \in DOMAIN Worlds /\ AttemptInv /\ Current /\ ViewRead /\ Verdicts /\ Indexed
        /\ Listed
    BY DecisionFollows DEF DispatchInv, AttemptInv
  <1>a. AttemptInv'
    BY <1>0, AttemptStep
  <1>b. CASE ReadSnapshot \/ ReadLoaded \/ ReadExcluded \/ ReadDevices
    BY <1>a, <1>b, ReadStep
  <1>1. CASE RouteJob
    BY <1>a, <1>1, RouteStep
  <1>2. CASE Defer
    <2>1. job'.state = "waiting" /\ job'.record = job.record
      BY <1>0, <1>2 DEF Defer, RunShape
    <2> QED BY <1>0, <1>a, <1>2, <2>1, SameDecision DEF Defer, Verdicts, Indexed, Jobs, BeingRouted
  <1>3. CASE FailAdmission
    <2>1. job'.state = "refused" /\ job'.record = job.record
      BY <1>0, <1>3 DEF FailAdmission, RunShape
    <2> QED BY <1>0, <1>a, <1>3, <2>1, SameDecision DEF FailAdmission, Verdicts, Indexed, Jobs, BeingRouted
  <1>4. CASE Admit
    <2>1. job'.state = "admitted" /\ job'.record = job.record
      BY <1>0, <1>4 DEF Admit, RunShape
    <2>2. run'.index = 1 /\ run'.tried = <<>>
      BY <1>4 DEF Admit, NoRun
    <2>3. Verdicts'
      BY <1>4, <2>1 DEF Admit, Verdicts
    <2>4. Indexed'
      <3>1. UNCHANGED Candidates
        BY <1>4 DEF Admit, Candidates
      <3>2. 1 <= Len(Candidates)
        <4> DEFINE f == decision.fallbacks
                   one == <<decision.ordered[1]>>
        <4>1. f \in Seq(ToSet(decision.ordered))
          BY <1>0, DecisionFollows DEF Follows
        <4>2. Len(one \o f) = Len(one) + Len(f) /\ Len(one) = 1 /\ Len(f) \in Nat
          BY <4>1
        <4>3. Candidates = one \o f
          BY DEF Candidates
        <4> HIDE DEF f, one
        <4> QED BY <4>2, <4>3
      <3> QED BY <2>1, <2>2, <3>1, <3>2 DEF Indexed
    <2> QED BY <1>a, <1>4, <2>1, <2>3, <2>4, SameDecision DEF Admit, Jobs, BeingRouted
  <1>5. CASE Reevaluate
    <2>1. job'.state = "queued" /\ job'.record = job.record
      BY <1>0, <1>5 DEF Reevaluate, RunShape
    <2> QED BY <1>0, <1>a, <1>5, <2>1, SameDecision DEF Reevaluate, Verdicts, Indexed, Jobs, BeingRouted
  <1>6. CASE SkipBusyProbe
    <2> DEFINE next == NextCandidate(run.index, FALSE)
    <2>1. CASE next = None
      BY <1>6, <2>1, EndedInv DEF SkipBusyProbe
    <2>2. CASE next # None
      <3>1. /\ UNCHANGED <<world, machine, view, decision, moves, quiet, job>>
            /\ run' = [run EXCEPT !.index = next] /\ job.state = "admitted"
        BY <1>6, <2>2 DEF SkipBusyProbe
      <3>2. next \in run.index + 1 .. Len(Candidates)
        BY <1>0, <2>2, NextCandidateOK DEF RunShape, Listed
      <3> HIDE DEF next
      <3>3. run'.index = next /\ run'.tried = run.tried /\ next <= Len(Candidates)
        BY <1>0, <3>1, <3>2 DEF RunShape, Listed
      <3>4. Indexed'
        BY <3>1, <3>3, StillIndexed
      <3>5. Verdicts'
        BY <1>0, <3>1 DEF Verdicts
      <3> QED BY <1>a, <3>1, <3>4, <3>5, SameDecision DEF Jobs, BeingRouted
    <2> QED BY <2>1, <2>2
  <1>7. CASE StartAttempt
    <2>1. CASE job.attempt >= w.task.max_attempts
      BY <1>7, <2>1, EndedInv DEF StartAttempt
    <2>2. CASE ~(job.attempt >= w.task.max_attempts)
      <3>1. /\ UNCHANGED <<world, machine, view, decision, moves, quiet>> /\ job.state = "admitted"
            /\ job' = [job EXCEPT !.state = "executing", !.attempt = @ + 1]
            /\ run' = [run EXCEPT !.here = @ + 1, !.tried = Append(@, run.index),
                                  !.sent = SentOutput]
        BY <1>7, <2>2 DEF StartAttempt
      <3>2. /\ job'.state = "executing" /\ job'.record = job.record
            /\ run'.tried = Append(run.tried, run.index) /\ run'.index = run.index
        BY <1>0, <3>1 DEF RunShape
      <3>3. Indexed'
        BY <1>0, <3>1, <3>2, StillIndexed DEF Indexed
      <3>4. Verdicts'
        BY <1>0, <3>1, <3>2 DEF Verdicts
      <3> QED BY <1>a, <3>1, <3>2, <3>3, <3>4, SameDecision DEF Jobs, BeingRouted
    <2> QED BY <2>1, <2>2
  <1>8. CASE Completes
    BY <1>8, EndedInv DEF Completes
  <1>9. ASSUME NEW kind \in FailureKinds, AttemptFails(kind) PROVE DispatchInv'
    <2> DEFINE action == NextAction(kind, run.here)
               next   == NextCandidate(run.index, kind = "context_limit")
    <2>0. UNCHANGED <<world, machine, view, decision, moves, quiet>> /\ job.state = "executing"
      BY <1>9 DEF AttemptFails
    <2>1. CASE Ended("failed") \/ Ended("cancelled")
      BY <2>0, <2>1, EndedInv
    <2>2. CASE job' = [job EXCEPT !.state = "admitted"] /\ run' = [run EXCEPT !.last = kind]
      <3>1. /\ job'.state = "admitted" /\ job'.record = job.record
            /\ run'.tried = run.tried /\ run'.index = run.index
        BY <1>0, <2>2 DEF RunShape
      <3>2. Indexed'
        BY <1>0, <2>0, <3>1, StillIndexed DEF Indexed
      <3>3. Verdicts'
        BY <1>0, <2>0, <3>1 DEF Verdicts
      <3> QED BY <1>a, <2>0, <3>1, <3>2, <3>3, SameDecision DEF Jobs, BeingRouted
    <2>3. CASE /\ next # None /\ job' = [job EXCEPT !.state = "admitted"]
               /\ run' = [run EXCEPT !.index = next, !.here = 0, !.last = kind]
      <3>1. next \in run.index + 1 .. Len(Candidates)
        BY <1>0, <2>3, NextCandidateOK DEF RunShape, Listed
      <3> HIDE DEF next
      <3>2. /\ job'.state = "admitted" /\ job'.record = job.record
            /\ run'.tried = run.tried /\ run'.index = next /\ next <= Len(Candidates)
        BY <1>0, <2>3, <3>1 DEF RunShape, Listed
      <3>3. Indexed'
        BY <2>0, <3>2, StillIndexed
      <3>4. Verdicts'
        BY <1>0, <2>0, <3>2 DEF Verdicts
      <3> QED BY <1>a, <2>0, <3>2, <3>3, <3>4, SameDecision DEF Jobs, BeingRouted
    <2> HIDE DEF next, action
    <2> QED BY <1>9, <2>1, <2>2, <2>3 DEF AttemptFails, next
  <1>10. CASE MachineChanges
    <2>1. /\ UNCHANGED <<world, job, view, decision, run>> /\ quiet' = FALSE /\ moves' = moves + 1
          /\ moves < Worlds[world].moves /\ machine' \in Machines
      BY <1>10 DEF MachineChanges
    <2>2. UNCHANGED <<w, q, Machines, Candidates>>
      BY <2>1 DEF w, q, Machines, Candidates
    <2>3. Current' /\ ViewRead'
      BY <1>0, <2>1, <2>2 DEF Current, ViewRead, BreakersRead
    <2>4. Verdicts' /\ Indexed'
      BY <1>0, <2>1, <2>2 DEF Verdicts, Indexed
    <2>5. moves' \in 0 .. Worlds[world].moves
      BY <1>0, <2>1, WorldOK DEF DispatchInv
    <2> QED BY <1>a, <2>1, <2>2, <2>3, <2>4, <2>5 DEF DispatchInv
  <1>11. CASE UNCHANGED dispatchVars
    <2>1. UNCHANGED <<world, job, view, decision, run, quiet, moves, machine>>
      BY <1>11 DEF dispatchVars
    <2>2. UNCHANGED <<w, q, Machines, Candidates>>
      BY <2>1 DEF w, q, Machines, Candidates
    <2>3. Current' /\ ViewRead' /\ Verdicts' /\ Indexed'
      BY <1>0, <2>1, <2>2 DEF Current, ViewRead, BreakersRead, Verdicts, Indexed
    <2> QED BY <1>a, <2>1, <2>2, <2>3 DEF DispatchInv
  <1> QED BY <1>b, <1>1, <1>2, <1>3, <1>4, <1>5, <1>6, <1>7, <1>8, <1>9, <1>10, <1>11
          DEF DispatchNext, Claiming, Attempting

\* The invariant of the claim, the deferral and the attempts.
THEOREM Dispatching == DispatchSpec => []DispatchInv
  <1>1. DispatchInit => DispatchInv
    BY DispatchInitInv
  <1>2. DispatchInv /\ [DispatchNext]_dispatchVars => DispatchInv'
    BY DispatchStep
  <1> QED BY <1>1, <1>2, PTL DEF DispatchSpec

\* _attempts: whatever fails, a job spends no more attempts than the profile
\* allows, in the order of the ranking, and few on each candidate.
THEOREM Attempts == DispatchSpec => []AttemptsBounded
  <1>1. DispatchInv => AttemptsBounded
    <2> SUFFICES ASSUME DispatchInv PROVE AttemptsBounded
      OBVIOUS
    <2>1. /\ run.tried \in Seq(Nat) /\ \A c \in Nat : Count(run.tried, c) <= AttemptLimit
          /\ job.attempt <= w.task.max_attempts
          /\ \A i, k \in DOMAIN run.tried : i < k => run.tried[i] <= run.tried[k]
      BY DEF DispatchInv, AttemptInv, RunShape
    <2>2. \A c \in ToSet(run.tried) : c \in Nat
      BY <2>1 DEF ToSet
    <2>3. \A c \in ToSet(run.tried) :
            Cardinality({i \in DOMAIN run.tried : run.tried[i] = c})
                <= Max({w.task.attempts, 1 + ProtocolRetries})
      BY <2>1, <2>2 DEF Count, AttemptLimit
    <2> QED BY <2>1, <2>3 DEF AttemptsBounded
  <1> QED BY <1>1, Dispatching, PTL

\* classify_rejections: a job that is refused at admission would be refused
\* whatever memory the machine comes to have free, and if no probe were out, but
\* for a probe that ended between the two looks at the breakers.
THEOREM Refusals == DispatchSpec => []FailureIsPermanent
  <1>1. DispatchInv => FailureIsPermanent
    <2> DEFINE left == (view.breakers \ view.halfOpen) \cup Torn
               To(mc) == [RoutingView(mc) EXCEPT !.breakers = left]
    <2> SUFFICES ASSUME DispatchInv, job.state = "refused",
                        decision.error = "NO_ELIGIBLE_MODEL", NEW mc \in Machines
                 PROVE  Route(w, To(mc), q).ordered = <<>>
      BY DEF FailureIsPermanent
    <2>1. /\ decision = Route(w, view, q)
          /\ job.record = ClassifyRejections(decision.rejected, view.details)
          /\ ~job.record.defer /\ world \in DOMAIN Worlds
      BY DEF DispatchInv, Current, Verdicts, AttemptInv, BeingRouted
    <2>2. PICK mb \in Machines : view.breakers = Excluded(mb) /\ view.halfOpen = mb.probing
      BY <2>1 DEF DispatchInv, ViewRead, BreakersRead
    <2>3. IsMachine(mb)
      BY <2>1, WorldsAssumption DEF Machines
    <2>4. left \subseteq mb.open \cup mb.probing /\ view.breakers \in SUBSET (mb.open \cup mb.probing)
      BY <2>2 DEF Torn, Excluded
    <2>5. left # None /\ view.breakers # None
      BY <2>3, <2>4 DEF IsMachine
    <2>6. view.breakers \ view.details \subseteq left
      BY DEF Torn
    <2>7. To(mc).breakers = left
      BY DEF RoutingView
    <2> HIDE DEF left, To
    <2>8. IsStored(w)
      BY <2>1, WorldOK
    <2> QED BY <2>1, <2>5, <2>6, <2>7, <2>8, Permanent
  <1> QED BY <1>1, Dispatching, PTL

\* reevaluate_waiting: a deferred job is not put back while nothing has changed.
THEOREM Deferrals == DispatchSpec => []NoBounce
  <1>1. DispatchInv => NoBounce
    <2> SUFFICES ASSUME DispatchInv, quiet, job.state = "waiting", DOMAIN machine.gpus # {},
                        \A s \in machine.probing : s[2] = ""
                 PROVE  ~Proceeds(job.record, machine)
      BY DEF NoBounce
    <2>1. /\ decision = Route(w, view, q)
          /\ job.record = ClassifyRejections(decision.rejected, view.details)
          /\ job.record.defer /\ world \in DOMAIN Worlds
      <3>1. job.state \notin BeingRouted \cup {"queued"}
        BY DEF BeingRouted
      <3>2. job.record.defer /\ world \in DOMAIN Worlds
        BY DEF DispatchInv, Verdicts, AttemptInv
      <3> QED BY <3>1, <3>2, Zenon DEF DispatchInv, Current
    <2>2. view = RoutingView(machine) /\ RoutingView(machine).details = machine.probing
      BY DEF DispatchInv, ViewRead, RoutingView, BeingRouted
    <2> QED BY <2>1, <2>2, StaysDeferred
  <1> QED BY <1>1, Dispatching, PTL
-----------------------------------------------------------------------------
(* Finite sets, and the sums that loops over them make.                    *)

\* Induction over the parts of a finite set.
LEMMA Growing ==
  ASSUME NEW S, IsFiniteSet(S), NEW T, {} \in T,
         \A s \in SUBSET S : (s # {} /\ \A x \in s : s \ {x} \in T) => s \in T
  PROVE  \A s \in SUBSET S : s \in T
  <1> DEFINE n == Cardinality(S)
             N == {m \in 0 .. n : \A s \in SUBSET S : Cardinality(s) = m => s \in T}
  <1>1. n \in Nat /\ \A s \in SUBSET S : /\ IsFiniteSet(s) /\ Cardinality(s) \in Nat
                                        /\ Cardinality(s) <= n
    BY FS_CardinalityType, FS_Subset
  <1>2. 0 \in N
    <2>1. \A s \in SUBSET S : Cardinality(s) = 0 => s = {}
      BY <1>1, FS_EmptySet
    <2> QED BY <1>1, <2>1
  <1>3. ASSUME NEW m \in 0 .. n - 1, m \in N PROVE m + 1 \in N
    <2>1. ASSUME NEW s \in SUBSET S, Cardinality(s) = m + 1 PROVE s \in T
      <3>1. s # {}
        BY <1>1, <2>1, FS_EmptySet
      <3>2. ASSUME NEW x \in s PROVE s \ {x} \in T
        <4>1. Cardinality(s \ {x}) = Cardinality(s) - 1 /\ s \ {x} \in SUBSET S
          BY <1>1, FS_RemoveElement
        <4>2. Cardinality(s \ {x}) = m
          BY <1>1, <2>1, <4>1
        <4> QED BY <1>3, <4>1, <4>2
      <3> QED BY <3>1, <3>2
    <2>2. m + 1 \in 0 .. n
      BY <1>1
    <2> QED BY <2>1, <2>2
  <1> HIDE DEF n, N
  <1>4. \A m \in 0 .. n : m \in N
    BY <1>1, <1>2, <1>3, Counting
  <1>5. ASSUME NEW s \in SUBSET S PROVE s \in T
    <2>1. Cardinality(s) \in 0 .. n
      BY <1>1
    <2>2. Cardinality(s) \in N
      BY <1>4, <2>1
    <2> QED BY <2>2 DEF N
  <1> QED BY <1>5

\* The element a loop over a set takes next.
Pick(s) == CHOOSE x \in s : TRUE

\* f adds the values of the elements up, in the order the loop takes them.
IsSum(f, S, val) ==
    /\ f[{}] = 0
    /\ \A s \in SUBSET S : s # {} => f[s] = val[Pick(s)] + f[s \ {Pick(s)}]

\* There is such a function.
LEMMA SumExists ==
  ASSUME NEW S, IsFiniteSet(S), NEW val \in [S -> Int]
  PROVE  \E f \in [SUBSET S -> Int] : IsSum(f, S, val)
  <1> DEFINE n == Cardinality(S)
             Upto(f, m) == /\ f[{}] = 0
                           /\ \A s \in SUBSET S : s # {} /\ Cardinality(s) <= m =>
                                 f[s] = val[Pick(s)] + f[s \ {Pick(s)}]
             N == {m \in 0 .. n : \E f \in [SUBSET S -> Int] : Upto(f, m)}
  <1>1. n \in Nat /\ \A s \in SUBSET S : /\ Cardinality(s) \in Nat /\ Cardinality(s) <= n
                                        /\ (s # {} => Cardinality(s) # 0)
    BY FS_CardinalityType, FS_Subset, FS_EmptySet
  <1>2. \A s \in SUBSET S : s # {} =>
           /\ Pick(s) \in s /\ s \ {Pick(s)} \in SUBSET S
           /\ Cardinality(s \ {Pick(s)}) = Cardinality(s) - 1
    <2> SUFFICES ASSUME NEW s \in SUBSET S, s # {}
                 PROVE  /\ Pick(s) \in s /\ s \ {Pick(s)} \in SUBSET S
                        /\ Cardinality(s \ {Pick(s)}) = Cardinality(s) - 1
      OBVIOUS
    <2>1. Pick(s) \in s
      BY DEF Pick
    <2> QED BY <2>1, FS_Subset, FS_RemoveElement
  <1>3. 0 \in N
    <2> DEFINE f == [s \in SUBSET S |-> 0]
    <2>1. f \in [SUBSET S -> Int] /\ Upto(f, 0)
      <3>1. \A s \in SUBSET S : s # {} => ~(Cardinality(s) <= 0)
        BY <1>1
      <3> QED BY <3>1
    <2>2. 0 \in 0 .. n
      BY <1>1
    <2> HIDE DEF f
    <2> QED BY <2>1, <2>2
  <1>4. ASSUME NEW m \in 0 .. n - 1, m \in N PROVE m + 1 \in N
    <2>1. PICK f \in [SUBSET S -> Int] : Upto(f, m)
      BY <1>4
    <2> DEFINE g == [s \in SUBSET S |-> IF s # {} /\ Cardinality(s) = m + 1
                                        THEN val[Pick(s)] + f[s \ {Pick(s)}] ELSE f[s]]
    <2>2. g \in [SUBSET S -> Int]
      <3>1. \A s \in SUBSET S : s # {} => val[Pick(s)] \in Int /\ f[s \ {Pick(s)}] \in Int
        BY <1>2
      <3> QED BY <3>1
    <2>3. g[{}] = 0
      BY <2>1
    <2>4. ASSUME NEW s \in SUBSET S, s # {}, Cardinality(s) <= m + 1
          PROVE  g[s] = val[Pick(s)] + g[s \ {Pick(s)}]
      <3>1. g[s \ {Pick(s)}] = f[s \ {Pick(s)}]
        <4>1. Cardinality(s \ {Pick(s)}) # m + 1 /\ s \ {Pick(s)} \in SUBSET S
          BY <1>1, <1>2, <2>4
        <4> QED BY <4>1
      <3>2. CASE Cardinality(s) = m + 1
        BY <2>4, <3>1, <3>2
      <3>3. CASE Cardinality(s) # m + 1
        <4>1. Cardinality(s) <= m
          BY <1>1, <2>4, <3>3
        <4> QED BY <2>1, <2>4, <3>1, <3>3, <4>1
      <3> QED BY <3>2, <3>3
    <2>5. m + 1 \in 0 .. n
      BY <1>1
    <2> HIDE DEF g
    <2> QED BY <2>2, <2>3, <2>4, <2>5
  <1> HIDE DEF N, n
  <1>5. n \in N
    BY <1>1, <1>3, <1>4, Counting
  <1>6. PICK f \in [SUBSET S -> Int] : Upto(f, n)
    BY <1>5 DEF N
  <1>7. IsSum(f, S, val)
    BY <1>1, <1>6 DEF IsSum
  <1> QED BY <1>7

\* A sum is a number, and does not depend on the order.
LEMMA AnyOrder ==
  ASSUME NEW S, IsFiniteSet(S), NEW val \in [S -> Int], NEW f, IsSum(f, S, val)
  PROVE  \A s \in SUBSET S : /\ f[s] \in Int
                             /\ \A x \in s : f[s] = val[x] + f[s \ {x}]
  <1> DEFINE U == {s \in SUBSET S : f[s] \in Int}
             T == {s \in SUBSET S : \A x \in s : f[s] = val[x] + f[s \ {x}]}
  <1>1. ASSUME NEW s \in SUBSET S, s # {}
        PROVE  /\ Pick(s) \in s /\ val[Pick(s)] \in Int
               /\ f[s] = val[Pick(s)] + f[s \ {Pick(s)}]
    BY <1>1 DEF IsSum, Pick
  <1>2. {} \in U /\ {} \in T
    BY DEF IsSum
  <1>3. \A s \in SUBSET S : f[s] \in Int
    <2>1. ASSUME NEW s \in SUBSET S, s # {}, \A x \in s : s \ {x} \in U PROVE s \in U
      <3>1. f[s \ {Pick(s)}] \in Int
        BY <1>1, <2>1
      <3>2. val[Pick(s)] \in Int /\ f[s] = val[Pick(s)] + f[s \ {Pick(s)}]
        BY <1>1, <2>1
      <3>3. f[s] \in Int
        <4> HIDE DEF U, T
        <4> QED BY <3>1, <3>2
      <3> QED BY <3>3
    <2> HIDE DEF U
    <2>2. \A s \in SUBSET S : s \in U
      BY <1>2, <2>1, Growing
    <2> QED BY <2>2 DEF U
  <1>4. ASSUME NEW s \in SUBSET S, s # {}, \A x \in s : s \ {x} \in T PROVE s \in T
    <2> DEFINE p == Pick(s)
    <2>1. p \in s /\ f[s] = val[p] + f[s \ {p}]
      BY <1>1, <1>4
    <2> HIDE DEF p
    <2>2. ASSUME NEW x \in s, x # p PROVE f[s] = val[x] + f[s \ {x}]
      <3> DEFINE r == s \ {x, p}
      <3>1. (s \ {p}) \ {x} = r /\ (s \ {x}) \ {p} = r
        OBVIOUS
      <3>2. x \in s \ {p} /\ s \ {p} \in T /\ p \in s \ {x} /\ s \ {x} \in T
        BY <1>4, <2>1, <2>2
      <3>3. f[s \ {p}] = val[x] + f[r] /\ f[s \ {x}] = val[p] + f[r]
        BY <3>1, <3>2
      <3>4. f[r] \in Int /\ val[x] \in Int /\ val[p] \in Int
        BY <1>3, <2>1
      <3> HIDE DEF T, r
      <3> QED BY <2>1, <3>3, <3>4
    <2> QED BY <2>1, <2>2
  <1> HIDE DEF T
  <1>5. \A s \in SUBSET S : s \in T
    BY <1>2, <1>4, Growing
  <1> QED BY <1>3, <1>5 DEF T

\* The loop of a sum.
SumLoop(val, S) ==
    CHOOSE f : f = [s \in SUBSET S |->
        IF s = {} THEN 0
        ELSE val[CHOOSE x \in s : TRUE] + f[s \ {CHOOSE x \in s : TRUE}]]

\* It adds the values up.
LEMMA SumLoopIs ==
  ASSUME NEW S, IsFiniteSet(S), NEW val, \A x \in S : val[x] \in Int
  PROVE  /\ \A s \in SUBSET S : SumLoop(val, S)[s] \in Int
         /\ SumLoop(val, S)[{}] = 0
         /\ \A s \in SUBSET S : \A x \in s :
               SumLoop(val, S)[s] = val[x] + SumLoop(val, S)[s \ {x}]
         /\ SumFunctionOnSet(val, S) = SumLoop(val, S)[S]
  <1> DEFINE l == SumLoop(val, S)
             v == [x \in S |-> val[x]]
             F(f) == [s \in SUBSET S |->
                        IF s = {} THEN 0 ELSE val[Pick(s)] + f[s \ {Pick(s)}]]
  <1>1. v \in [S -> Int] /\ \A x \in S : v[x] = val[x]
    OBVIOUS
  <1>2. l = CHOOSE f : f = F(f)
    BY DEF SumLoop, Pick
  <1>3. SumFunctionOnSet(val, S) = l[S]
    BY DEF SumFunctionOnSet, FoldFunctionOnSet, MapThenFoldSet, SumLoop
  <1> HIDE DEF v
  <1>4. \A s \in SUBSET S : s # {} => Pick(s) \in S
    BY DEF Pick
  <1>5. PICK f \in [SUBSET S -> Int] : IsSum(f, S, v)
    BY <1>1, SumExists
  <1>6. f = F(f)
    <2>1. \A s \in SUBSET S :
             f[s] = IF s = {} THEN 0 ELSE val[Pick(s)] + f[s \ {Pick(s)}]
      BY <1>1, <1>4, <1>5 DEF IsSum
    <2> QED BY <1>5, <2>1
  <1>7. l = F(l)
    <2> HIDE DEF F, l
    <2> QED BY <1>2, <1>6, Zenon
  <1> HIDE DEF l
  <1>8. IsSum(l, S, v)
    <2>1. \A s \in SUBSET S :
             l[s] = IF s = {} THEN 0 ELSE val[Pick(s)] + l[s \ {Pick(s)}]
      BY <1>7
    <2>2. {} \in SUBSET S
      OBVIOUS
    <2> HIDE DEF F
    <2> QED BY <1>1, <1>4, <2>1, <2>2 DEF IsSum
  <1>9. /\ l[{}] = 0
        /\ \A s \in SUBSET S : /\ l[s] \in Int
                               /\ \A x \in s : l[s] = v[x] + l[s \ {x}]
    <2>1. l[{}] = 0
      BY <1>8 DEF IsSum
    <2> QED BY <1>1, <1>8, <2>1, AnyOrder
  <1>10. \A s \in SUBSET S : \A x \in s : l[s] = val[x] + l[s \ {x}]
    BY <1>1, <1>9
  <1> QED BY <1>3, <1>9, <1>10 DEF l

\* reserved_bytes_by_device, evictable_bytes_by_device: the sum is a number.
LEMMA BytesOK ==
  ASSUME NEW records, IsFiniteSet(records), \A r \in records : r.bytes \in NatOrNone, NEW g
  PROVE  BytesOn(records, g) \in Int
  <1> DEFINE val == [r \in records |-> IF r.gpu = g /\ r.bytes # None THEN r.bytes ELSE 0]
  <1>1. DOMAIN val = records /\ \A r \in records : val[r] \in Int
    BY DEF NatOrNone
  <1>2. BytesOn(records, g) = SumFunction(val)
    BY DEF BytesOn
  <1> HIDE DEF val
  <1>3. SumFunction(val) = SumFunctionOnSet(val, records)
    BY <1>1 DEF SumFunction
  <1>4. SumLoop(val, records)[records] \in Int
        /\ SumFunctionOnSet(val, records) = SumLoop(val, records)[records]
    BY <1>1, SumLoopIs
  <1> QED BY <1>2, <1>3, <1>4

\* _top_weighted_capability: some finitely many numbers have a largest one.
LEMMA LargestOf ==
  ASSUME NEW S, IsFiniteSet(S), S # {}, NEW val \in [S -> Int]
  PROVE  \E c \in S : \A d \in S : val[d] <= val[c]
  <1> DEFINE T == {s \in SUBSET S : s # {} => \E c \in s : \A d \in s : val[d] <= val[c]}
  <1>1. {} \in T
    OBVIOUS
  <1>2. ASSUME NEW s \in SUBSET S, s # {}, \A x \in s : s \ {x} \in T PROVE s \in T
    <2>1. PICK x \in s : TRUE
      BY <1>2
    <2>2. CASE s \ {x} = {}
      <3>1. \A d \in s : d = x
        BY <2>2
      <3>2. val[x] \in Int
        OBVIOUS
      <3> QED BY <3>1, <3>2
    <2>3. CASE s \ {x} # {}
      <3>1. PICK c \in s \ {x} : \A d \in s \ {x} : val[d] <= val[c]
        BY <1>2, <2>3
      <3>2. val[x] \in Int /\ val[c] \in Int /\ \A d \in s : val[d] \in Int
        OBVIOUS
      <3>3. CASE val[x] <= val[c]
        <4>1. \A d \in s : val[d] <= val[c]
          BY <3>1, <3>3
        <4> QED BY <4>1
      <3>4. CASE ~(val[x] <= val[c])
        <4>1. \A d \in s : val[d] <= val[x]
          BY <3>1, <3>2, <3>4
        <4> QED BY <4>1
      <3> QED BY <3>3, <3>4
    <2> QED BY <2>2, <2>3
  <1> HIDE DEF T
  <1>3. S \in T
    BY <1>1, <1>2, Growing
  <1> QED BY <1>3 DEF T

\* The elements of a set, listed.
LEMMA Enumerates ==
  ASSUME NEW S, IsFiniteSet(S)
  PROVE  SetToSeq(S) \in Seq(S) /\ ToSet(SetToSeq(S)) = S
  <1> DEFINE n == Cardinality(S)
             t == SetToSeq(S)
  <1>1. n \in Nat /\ ExistsBijection(1 .. n, S)
    BY FS_CardinalityType
  <1>2. PICK b \in Bijection(1 .. n, S) : TRUE
    BY <1>1 DEF ExistsBijection
  <1>3. b \in [1 .. n -> S] /\ IsInjective(b)
    BY <1>2 DEF Bijection, Injection, IsInjective
  <1>4. t \in [1 .. n -> S] /\ IsInjective(t)
    BY <1>3, Zenon DEF SetToSeq
  <1> HIDE DEF t, n
  <1>5. t \in Seq(S) /\ DOMAIN t = 1 .. n
    BY <1>1, <1>4
  <1>6. t \in Injection(1 .. n, S)
    BY <1>4 DEF Injection, IsInjective
  <1>7. IsFiniteSet(1 .. n) /\ Cardinality(1 .. n) = n
    BY <1>1, FS_Interval
  <1>8. t \in Surjection(1 .. n, S)
    BY <1>6, <1>7, FS_Injection DEF n
  <1>9. \A x \in S : \E i \in 1 .. n : t[i] = x
    BY <1>8 DEF Surjection
  <1> QED BY <1>4, <1>5, <1>9 DEF ToSet, t
-----------------------------------------------------------------------------
(* Signals and scores.                                                     *)

\* The loop of _signals_for.
SignalLoop(recs) ==
    CHOOSE f : f = [s \in SUBSET DOMAIN recs |->
        IF s = {} THEN <<>>
        ELSE IF recs[Max(s)].score = None THEN f[s \ {Max(s)}]
        ELSE Append(f[s \ {Max(s)}], SignalOf(recs[Max(s)]))]

\* _signals_for: every signal is that of a row with a score.
LEMMA SignalsForOK ==
  ASSUME NEW recs, recs \in Seq(ToSet(recs))
  PROVE  SignalsFor(recs) \in Seq({SignalOf(row) : row \in {r \in ToSet(recs) : r.score # None}})
  <1> DEFINE n == Len(recs)
             X == Seq({SignalOf(row) : row \in {r \in ToSet(recs) : r.score # None}})
             base == <<>>
             C(i) == SignalOf(recs[i])
             G(p, i) == IF recs[i].score = None THEN p ELSE Append(p, C(i))
             F == [p \in X \X (1 .. n) |-> G(p[1], p[2])]
             g == SignalLoop(recs)
  <1>1. n \in Nat /\ DOMAIN recs = 1 .. n
    OBVIOUS
  <1>2. SignalsFor(recs) = g[1 .. n]
    BY <1>1 DEF SignalsFor, FoldLeft, MapThenFoldSet, SignalLoop
  <1>3. base \in X
    OBVIOUS
  <1>4. \A p \in X, i \in 1 .. n : G(p, i) \in X
    <2>1. \A i \in 1 .. n : recs[i] \in ToSet(recs)
      BY <1>1 DEF ToSet
    <2>2. \A i \in 1 .. n : recs[i].score # None =>
             C(i) \in {SignalOf(row) : row \in {r \in ToSet(recs) : r.score # None}}
      BY <2>1
    <2> HIDE DEF C
    <2> QED BY <2>2
  <1>5. F \in [X \X (1 .. n) -> X]
    <2> HIDE DEF G, X
    <2> QED BY <1>4
  <1>6. PICK f : IsLoop(f, X, base, F, n)
    <2> HIDE DEF F, n, base, X
    <2> QED BY <1>1, <1>3, <1>5, LoopExists
  <1>7. f = [s \in SUBSET (1 .. n) |->
               IF s = {} THEN base ELSE G(f[s \ {Max(s)}], Max(s))]
    <2>1. ASSUME NEW s \in SUBSET (1 .. n), s # {}
          PROVE  f[s] = G(f[s \ {Max(s)}], Max(s))
      <3>1. Max(s) \in 1 .. n
        BY <1>1, <2>1, LastPlace
      <3>2. f[s \ {Max(s)}] \in X /\ f[s] = F[<<f[s \ {Max(s)}], Max(s)>>]
        BY <1>6, <2>1 DEF IsLoop
      <3> HIDE DEF G, X
      <3> QED BY <3>1, <3>2
    <2> HIDE DEF G, base
    <2> QED BY <1>6, <2>1 DEF IsLoop
  <1>8. g = [s \in SUBSET (1 .. n) |->
               IF s = {} THEN base ELSE G(g[s \ {Max(s)}], Max(s))]
    BY <1>1, <1>7, Zenon DEF SignalLoop
  <1> HIDE DEF g, base, G
  <1>9. Along(g, X, base, F, n)
    <2>1. g[{}] = base /\ \A s \in SUBSET (1 .. n) : s # {} => g[s] = G(g[s \ {Max(s)}], Max(s))
      BY <1>8
    <2>2. ASSUME NEW s \in SUBSET (1 .. n), s # {}, g[s \ {Max(s)}] \in X
          PROVE  g[s] = F[<<g[s \ {Max(s)}], Max(s)>>]
      <3>1. Max(s) \in 1 .. n
        BY <1>1, <2>2, LastPlace
      <3> HIDE DEF X
      <3> QED BY <2>1, <2>2, <3>1
    <2> HIDE DEF X, F
    <2> QED BY <2>1, <2>2 DEF Along
  <1> HIDE DEF F, n, X
  <1>10. g[1 .. n] \in X
    BY <1>1, <1>3, <1>5, <1>9, Stays
  <1> QED BY <1>2, <1>10 DEF X

\* What a stored measurement says of a subject, as a signal.
Measures(wd, model, key, e, x) ==
    /\ e \in wd.evidence /\ e.match_state = "bound" /\ e.model = model /\ e.adapter = key
    /\ x.source = "benchmark" /\ x.match_state = "bound"
    /\ x.capability = e.capability /\ x.profile = e.profile /\ x.machine = e.machine
    /\ x.score = e.score /\ x.confidence = e.confidence

\* _read_candidates: where a signal of a subject comes from.
Origin(wd, m, a, x) ==
    \/ /\ a = None
       /\ \E row \in ToSet(wd.capabilities[m.model_id]) : row.score # None /\ x = SignalOf(row)
    \/ a # None /\ x.source = "declared" /\ x.score = One
    \/ \E e \in wd.evidence : Measures(wd, m.model_id, IF a = None THEN "" ELSE a.id, e, x)

\* bound_signals_for_routing: one signal for each measurement it keeps.
LEMMA BoundSignalsOK ==
  ASSUME NEW wd, IsStored(wd), NEW model, NEW key
  PROVE  /\ BoundSignals(wd, model, key) \in Seq(ToSet(BoundSignals(wd, model, key)))
         /\ \A x \in ToSet(BoundSignals(wd, model, key)) :
               \E e \in wd.evidence : Measures(wd, model, key, e, x)
  <1> DEFINE recs == {r \in wd.evidence : /\ r.match_state = "bound" /\ r.model = model
                                         /\ r.adapter = key
                                         /\ WeightsAdmit(r.capability, wd.task.weights)}
             kept == Collapse(recs, wd.policy.machine)
             chosen == SetToSeq(kept)
             b == BoundSignals(wd, model, key)
             Y == ToSet(b)
  <1>1. kept \subseteq recs /\ recs \subseteq wd.evidence
    BY DEF Collapse
  <1>2. IsFiniteSet(kept)
    BY <1>1, FS_Subset DEF IsStored
  <1> HIDE DEF kept
  <1>3. chosen \in Seq(kept) /\ ToSet(chosen) = kept
    BY <1>2, Enumerates
  <1>4. b = [i \in DOMAIN chosen |->
            [capability |-> chosen[i].capability, source |-> "benchmark",
             score |-> chosen[i].score, confidence |-> chosen[i].confidence,
             profile |-> chosen[i].profile, machine |-> chosen[i].machine,
             sample_count |-> chosen[i].sample_count, match_state |-> "bound",
             stale |-> chosen[i].stale]]
    BY DEF BoundSignals, kept
  <1> HIDE DEF chosen, b
  <1>5. Len(chosen) \in Nat /\ DOMAIN chosen = 1 .. Len(chosen)
    BY <1>3
  <1>6. ASSUME NEW i \in DOMAIN chosen PROVE Measures(wd, model, key, chosen[i], b[i])
    <2>1. chosen[i] \in recs
      BY <1>1, <1>3 DEF ToSet
    <2> QED BY <1>1, <1>4, <2>1 DEF Measures
  <1>7. b \in Seq(Y)
    <2>1. DOMAIN b = 1 .. Len(chosen) /\ \A i \in 1 .. Len(chosen) : b[i] \in Y
      BY <1>4, <1>5 DEF ToSet
    <2>2. b = [i \in 1 .. Len(chosen) |-> b[i]]
      BY <1>4, <1>5
    <2> HIDE DEF Y
    <2> QED BY <1>5, <2>1, <2>2
  <1>8. \A x \in Y : \E i \in DOMAIN chosen : x = b[i] /\ chosen[i] \in wd.evidence
    BY <1>1, <1>3, <1>4 DEF ToSet
  <1> QED BY <1>6, <1>7, <1>8 DEF b

\* _adapter_signals: claims, each at the full score.
LEMMA AdapterSignalsOK ==
  ASSUME NEW a, IsFiniteSet(a.declared)
  PROVE  /\ AdapterSignals(a) \in Seq(ToSet(AdapterSignals(a)))
         /\ \A x \in ToSet(AdapterSignals(a)) : x.source = "declared" /\ x.score = One
  <1> DEFINE claims == SetToSeq(a.declared)
             b == AdapterSignals(a)
             Y == ToSet(b)
  <1>1. claims \in Seq(a.declared)
    BY Enumerates
  <1>2. b = [i \in DOMAIN claims |->
            [capability |-> claims[i], source |-> "declared", score |-> One,
             confidence |-> One, profile |-> None, machine |-> None,
             sample_count |-> None, match_state |-> None, stale |-> FALSE]]
    BY DEF AdapterSignals
  <1> HIDE DEF claims, b
  <1>3. Len(claims) \in Nat /\ DOMAIN claims = 1 .. Len(claims)
    BY <1>1
  <1>4. b \in Seq(Y)
    <2>1. \A i \in 1 .. Len(claims) : b[i] \in Y
      BY <1>2, <1>3 DEF ToSet
    <2>2. b = [i \in 1 .. Len(claims) |-> b[i]]
      BY <1>2, <1>3
    <2> HIDE DEF Y
    <2> QED BY <1>3, <2>1, <2>2
  <1>5. \A x \in Y : \E i \in DOMAIN claims : x = b[i]
    BY <1>2 DEF ToSet
  <1>6. \A i \in DOMAIN claims : b[i].source = "declared" /\ b[i].score = One
    BY <1>2
  <1> QED BY <1>4, <1>5, <1>6 DEF b

\* _read_candidates: the signals of a subject are its own.
LEMMA SignalsOwn ==
  ASSUME NEW wd, IsStored(wd), NEW m \in ToSet(wd.models),
         NEW a \in ToSet(wd.adapters) \cup {None}, a # None => IsAdapterFacts(a)
  PROVE  LET signals == Candidate(wd, m, a).signals
         IN  /\ signals \in Seq(ToSet(signals))
             /\ \A x \in ToSet(signals) : Origin(wd, m, a, x)
  <1> DEFINE recs == wd.capabilities[m.model_id]
             key == IF a = None THEN "" ELSE a.id
             own == IF a = None THEN SignalsFor(recs) ELSE AdapterSignals(a)
             bound == BoundSignals(wd, m.model_id, key)
             signals == Candidate(wd, m, a).signals
             Y == ToSet(own) \cup ToSet(bound)
  <1>1. signals = own \o bound
    BY DEF Candidate
  <1>2. bound \in Seq(ToSet(bound)) /\ \A x \in ToSet(bound) : Origin(wd, m, a, x)
    BY BoundSignalsOK DEF Origin
  <1>3. own \in Seq(ToSet(own)) /\ \A x \in ToSet(own) : Origin(wd, m, a, x)
    <2>1. CASE a = None
      <3>1. recs \in Seq(ToSet(recs))
        BY DEF IsStored, ToSet
      <3> HIDE DEF recs
      <3>2. SignalsFor(recs) \in
               Seq({SignalOf(row) : row \in {r \in ToSet(recs) : r.score # None}})
        BY <3>1, SignalsForOK
      <3>3. own \in Seq(ToSet(own))
        BY <2>1, <3>2 DEF ToSet
      <3>4. \A x \in ToSet(own) : \E row \in ToSet(recs) : row.score # None /\ x = SignalOf(row)
        BY <2>1, <3>2 DEF ToSet
      <3> HIDE DEF own
      <3> QED BY <2>1, <3>3, <3>4 DEF Origin, recs
    <2>2. CASE a # None
      <3>1. IsFiniteSet(a.declared)
        BY <2>2 DEF IsAdapterFacts
      <3> QED BY <2>2, <3>1, AdapterSignalsOK DEF Origin
    <2> QED BY <2>1, <2>2
  <1> HIDE DEF own, bound, signals
  <1>4. own \in Seq(Y) /\ bound \in Seq(Y)
    BY <1>2, <1>3
  <1>5. signals \in Seq(Y) /\ ToSet(signals) = Y
    <2> HIDE DEF Y
    <2>1. signals \in Seq(Y) /\ ToSet(signals) = ToSet(own) \cup ToSet(bound)
      BY <1>1, <1>4, Joined
    <2> QED BY <2>1 DEF Y
  <1> QED BY <1>2, <1>3, <1>5 DEF signals

\* A figure that may be unknown.
IntOrNone == Int \cup {None}

\* resolve_capability: the score of a capability is a number or absent, and one
\* under the name of a measurement is that of a usable signal.
LEMMA ResolvedOK ==
  ASSUME NEW c, NEW weight, NEW signals, signals \in Seq(ToSet(signals)), NEW profile,
         NEW band \in IntOrNone, NEW require, NEW mach,
         \A x \in ToSet(signals) : x.score \in IntOrNone
  PROVE  LET r == ResolveCapability(c, weight, signals, profile, band, require, mach)
         IN  /\ r.capability = c /\ r.weight = weight /\ r.score \in IntOrNone
             /\ r.source \in EvidenceSources =>
                   \E x \in ToSet(signals) : /\ x.capability = c /\ x.source = r.source
                                             /\ Usable(x, profile, mach)
  <1> DEFINE mine == SignalsOf(signals, c)
             excluded == {i \in mine : /\ signals[i].confidence >= MinConfidence
                                       /\ Exclusion(signals[i], profile, mach) # None}
             without == IF excluded = {} THEN None
                        ELSE Exclusion(signals[Min(excluded)], profile, mach)
             Of(source) == {i \in mine : /\ signals[i].source = source
                                         /\ Usable(signals[i], profile, mach)}
             At(source) == signals[Min(Of(source))]
             First(source) == Resolved(c, weight, At(source).score, At(source).confidence,
                                       At(source).source, At(source).stale)
             r == ResolveCapability(c, weight, signals, profile, band, require, mach)
             other == {"declared", "prior", "absent", "evidence_unbound",
                       "evidence_foreign_machine", "evidence_profile_mismatch"}
  <1>1. DOMAIN signals = 1 .. Len(signals) /\ Len(signals) \in Nat
        /\ mine \subseteq DOMAIN signals /\ mine \subseteq Nat
        /\ \A i \in mine : signals[i].capability = c /\ signals[i] \in ToSet(signals)
    BY DEF SignalsOf, ToSet
  <1>2. without \in other \cup {None}
    BY DEF Exclusion
  <1>3. \/ Of("benchmark") # {} /\ r = First("benchmark")
        \/ Of("production") # {} /\ r = First("production")
        \/ Of("manual") # {} /\ r = First("manual")
        \/ r = Resolved(c, weight, DeclaredScore, DeclaredConfidence, "declared", FALSE)
        \/ r = Resolved(c, weight, band, DeclaredConfidence,
                        IF without = None THEN "prior" ELSE without, FALSE)
        \/ r = Resolved(c, weight, None, None,
                        IF without = None THEN "absent" ELSE without, FALSE)
    BY DEF ResolveCapability
  <1> HIDE DEF mine, without, r
  <1>4. ASSUME NEW source, Of(source) # {}, r = First(source)
        PROVE  /\ r.capability = c /\ r.weight = weight /\ r.score \in IntOrNone
               /\ \E x \in ToSet(signals) : /\ x.capability = c /\ x.source = r.source
                                            /\ Usable(x, profile, mach)
    <2> DEFINE x == At(source)
    <2>1. Min(Of(source)) \in Of(source)
      <3>1. Of(source) \subseteq Nat
        BY <1>1
      <3> HIDE DEF Of
      <3> QED BY <1>4, <3>1, MinOf
    <2>2. x \in ToSet(signals) /\ x.capability = c /\ x.source = source /\ Usable(x, profile, mach)
      BY <1>1, <2>1
    <2>3. r = Resolved(c, weight, x.score, x.confidence, x.source, x.stale)
      BY <1>4
    <2> HIDE DEF x
    <2> QED BY <2>2, <2>3 DEF Resolved
  <1>5. ASSUME NEW score \in IntOrNone, NEW confidence, NEW source \in other,
               r = Resolved(c, weight, score, confidence, source, FALSE)
        PROVE  /\ r.capability = c /\ r.weight = weight /\ r.score \in IntOrNone
               /\ r.source \notin EvidenceSources
    BY <1>5 DEF Resolved, EvidenceSources
  <1>6. DeclaredScore \in IntOrNone /\ None \in IntOrNone
        /\ (IF without = None THEN "prior" ELSE without) \in other
        /\ (IF without = None THEN "absent" ELSE without) \in other
    BY <1>2, ScoringAssumption DEF IntOrNone
  <1> DEFINE P == /\ r.capability = c /\ r.weight = weight /\ r.score \in IntOrNone
                  /\ r.source \in EvidenceSources =>
                        \E x \in ToSet(signals) : /\ x.capability = c /\ x.source = r.source
                                                  /\ Usable(x, profile, mach)
  <1>7. CASE \E source : Of(source) # {} /\ r = First(source)
    <2>1. PICK source : Of(source) # {} /\ r = First(source)
      BY <1>7
    <2> HIDE DEF Of, First
    <2>2. P
      BY <1>4, <2>1
    <2> QED BY <2>2 DEF r
  <1>8. CASE \E score \in IntOrNone, source \in other : \E confidence :
                r = Resolved(c, weight, score, confidence, source, FALSE)
    <2>1. P
      BY <1>5, <1>8
    <2> QED BY <2>1 DEF r
  <1>9. \/ \E source : Of(source) # {} /\ r = First(source)
        \/ \E score \in IntOrNone, source \in other : \E confidence :
              r = Resolved(c, weight, score, confidence, source, FALSE)
    <2> HIDE DEF Of, First
    <2>1. CASE \/ Of("benchmark") # {} /\ r = First("benchmark")
               \/ Of("production") # {} /\ r = First("production")
               \/ Of("manual") # {} /\ r = First("manual")
      BY <2>1
    <2>2. CASE r = Resolved(c, weight, DeclaredScore, DeclaredConfidence, "declared", FALSE)
      <3>1. "declared" \in other
        OBVIOUS
      <3> HIDE DEF other
      <3> QED BY <1>6, <2>2, <3>1
    <2>3. CASE r = Resolved(c, weight, band, DeclaredConfidence,
                            IF without = None THEN "prior" ELSE without, FALSE)
      <3> HIDE DEF other
      <3> QED BY <1>6, <2>3, Zenon
    <2>4. CASE r = Resolved(c, weight, None, None,
                            IF without = None THEN "absent" ELSE without, FALSE)
      <3> HIDE DEF other
      <3> QED BY <1>6, <2>4, Zenon
    <2> QED BY <1>3, <2>1, <2>2, <2>3, <2>4
  <1> QED BY <1>7, <1>8, <1>9

\* A quotient of numbers is a number.
LEMMA Quotient ==
  ASSUME NEW x \in Int, NEW y \in Nat, y > 0
  PROVE  x \div y \in Int
  OBVIOUS

\* parameter_band_priors: the prior of a model of the pool is a number, or absent.
LEMMA BandOK ==
  ASSUME NEW wd, IsStored(wd), NEW m \in ToSet(wd.models), NEW f, f.parameters = m.parameters
  PROVE  Band(wd, f) \in IntOrNone
  <1> DEFINE D == DOMAIN wd.models
             h == [i \in D |-> wd.models[i].parameters]
             counts == {wd.models[i].parameters : i \in D}
             known == counts \ {None}
             below == {k \in known : k < m.parameters}
             x == (BandCeiling - BandFloor) * Cardinality(below)
             y == Cardinality(known) - 1
  <1>1. Len(wd.models) \in Nat /\ D = 1 .. Len(wd.models)
    BY DEF IsStored
  <1>2. IsFiniteSet(D)
    BY <1>1, FS_Interval
  <1>3. IsFiniteSet(counts)
    <2>1. h \in Surjection(D, counts)
      BY DEF Surjection
    <2> HIDE DEF h, counts, D
    <2> QED BY <1>2, <2>1, FS_Surjection
  <1>4. IsFiniteSet(known) /\ IsFiniteSet(below)
    <2> HIDE DEF counts
    <2> QED BY <1>3, FS_Subset
  <1>5. Cardinality(known) \in Nat /\ Cardinality(below) \in Nat
    BY <1>4, FS_CardinalityType
  <1>6. m.parameters # None => Cardinality(known) # 0
    <2>1. m.parameters \in counts
      BY DEF ToSet
    <2>2. m.parameters # None => known # {}
      BY <2>1
    <2> HIDE DEF known
    <2> QED BY <1>4, <2>2, FS_EmptySet
  <1>7. Band(wd, f) = IF m.parameters = None THEN None
                      ELSE IF Cardinality(known) = 1 THEN (BandFloor + BandCeiling) \div 2
                      ELSE BandFloor + x \div y
    BY DEF Band, BandPrior
  <1> HIDE DEF known, below
  <1>8. x \in Int /\ BandFloor \in Int /\ BandFloor + BandCeiling \in Int
    BY <1>5, ScoringAssumption
  <1>9. m.parameters # None /\ Cardinality(known) # 1 => y \in Nat /\ y > 0
    BY <1>5, <1>6
  <1> HIDE DEF x, y
  <1>10. CASE m.parameters = None
    BY <1>7, <1>10 DEF IntOrNone
  <1>11. CASE m.parameters # None /\ Cardinality(known) = 1
    <2>1. (BandFloor + BandCeiling) \div 2 \in Int
      BY <1>8
    <2> QED BY <1>7, <1>11, <2>1 DEF IntOrNone
  <1>12. CASE m.parameters # None /\ Cardinality(known) # 1
    <2>1. x \div y \in Int
      BY <1>8, <1>9, <1>12, Quotient
    <2>2. BandFloor + x \div y \in Int
      BY <1>8, <2>1
    <2> QED BY <1>7, <1>12, <2>2 DEF IntOrNone
  <1> QED BY <1>10, <1>11, <1>12
-----------------------------------------------------------------------------
(* What is true of a candidate that is accepted.                           *)

\* What routing keeps of a candidate it accepts: no constraint is against it.
LEMMA AcceptedIs ==
  ASSUME NEW wd, IsStored(wd), NEW env, NEW rq, IsRequest(rq), Goes(wd, rq),
         NEW i \in Accepted(wd, env, rq)
  PROVE  LET r == OutcomeAt(wd, env, rq, i)
             s == Built(wd, rq, i)
             estimate == EstimateVram(s.facts, s.profile, s.served.tokens)
             in == ConstraintInputs(wd, env, rq, Merged(wd, rq), s, ScoreOf(wd, rq, s))
         IN  /\ i \in DOMAIN ReadCandidates(wd)
             /\ s.served # None /\ s.served.tokens \in Nat /\ Pinned(rq, s)
             /\ estimate = None \/ (estimate \in Nat /\ estimate > 0)
             /\ r.subject = s /\ r.estimate = estimate /\ r.fit = ScoreOf(wd, rq, s)
             /\ r.target = TargetGpu(s, estimate, in)
             /\ \A k \in 1 .. 17 : ~FailsAt(s, estimate, in, k)
  <1> DEFINE r == OutcomeAt(wd, env, rq, i)
             s == Built(wd, rq, i)
             estimate == EstimateVram(s.facts, s.profile, s.served.tokens)
             in == ConstraintInputs(wd, env, rq, Merged(wd, rq), s, ScoreOf(wd, rq, s))
  <1>1. /\ i \in DOMAIN ReadCandidates(wd) /\ r.reason = None
        /\ s.served = None \/ Pinned(rq, s)
    BY DEF Accepted, Chosen
  <1>2. /\ r.subject = s
        /\ s.served = None => r.reason = "context_too_small"
        /\ s.served # None =>
             /\ r.estimate = estimate /\ r.reason = EvaluateConstraints(s, estimate, in)
             /\ r.reason = None =>
                   r.fit = ScoreOf(wd, rq, s) /\ r.target = TargetGpu(s, estimate, in)
    BY EvaluateOK DEF OutcomeAt
  <1>3. s.served # None
    BY <1>1, <1>2, ReasonAssumption DEF RejectionReasons
  <1>4. s.served.tokens \in Nat /\ (estimate = None \/ (estimate \in Nat /\ estimate > 0))
    BY <1>1, <1>3, SubjectOK DEF Goes
  <1> HIDE DEF r, s, in, estimate
  <1>5. \A k \in 1 .. 17 : ~FailsAt(s, estimate, in, k)
    BY <1>1, <1>2, <1>3, Evaluates
  <1> QED BY <1>1, <1>2, <1>3, <1>4, <1>5 DEF r, s, in, estimate

\* Describes, of any store.
Describing(wd, e, s) ==
    /\ e.match_state = "bound" /\ <<e.model, e.adapter>> = KeyOf(s)
    /\ e.profile = s.profile /\ e.confidence >= MinConfidence
    /\ (e.machine # None /\ wd.policy.machine # None /\ e.machine # wd.policy.machine)
            => e.capability \notin PerformanceCapabilities

\* A manual score of a bare model that is confident enough.
ByHand(wd, model, capability) ==
    \E row \in ToSet(wd.capabilities[model]) :
        /\ row.capability = capability /\ row.source = "manual"
        /\ row.score # None /\ row.confidence >= MinConfidence

\* What a score under the name of a measurement rests on.
RestsOn(wd, s, f) ==
    \/ /\ f.source = "benchmark"
       /\ \E e \in wd.evidence : Describing(wd, e, s) /\ e.capability = f.capability
    \/ f.source = "manual" /\ s.adapter = None /\ ByHand(wd, s.facts.model_id, f.capability)

\* A signal that is usable under the profile of its subject describes it.
LEMMA UsableDescribes ==
  ASSUME NEW wd, NEW s, NEW m, s.facts.model_id = m.model_id, NEW x, NEW e \in wd.evidence,
         Measures(wd, m.model_id, IF s.adapter = None THEN "" ELSE s.adapter.id, e, x),
         Usable(x, s.profile, wd.policy.machine)
  PROVE  Describing(wd, e, s)
  <1>1. x.confidence >= MinConfidence /\ Exclusion(x, s.profile, wd.policy.machine) = None
    BY DEF Usable
  <1>2. /\ x.source = "benchmark"
        /\ x.capability = e.capability /\ x.profile = e.profile /\ x.machine = e.machine
        /\ x.confidence = e.confidence
        /\ e.match_state = "bound" /\ e.model = m.model_id
        /\ e.adapter = IF s.adapter = None THEN "" ELSE s.adapter.id
    BY DEF Measures
  <1>3. /\ x.profile = s.profile
        /\ x.machine = None \/ MachineAdmits(x.machine, wd.policy.machine, x.capability)
    BY <1>1, <1>2, ExclusionAssumption DEF Exclusion, Exclusions
  <1>4. (e.machine # None /\ wd.policy.machine # None /\ e.machine # wd.policy.machine)
            => e.capability \notin PerformanceCapabilities
    BY <1>2, <1>3 DEF MachineAdmits
  <1> QED BY <1>1, <1>2, <1>3, <1>4 DEF Describing, KeyOf

\* score_subject: every score of a subject is a number or absent, and one under the
\* name of a measurement rests on what is stored of that subject.
LEMMA ScoresOK ==
  ASSUME NEW wd, IsStored(wd), NEW rq, IsRequest(rq), Merged(wd, rq) # None,
         NEW i \in DOMAIN ReadCandidates(wd)
  PROVE  LET s == Built(wd, rq, i)
             scores == ScoreOf(wd, rq, s).scores
         IN  /\ DOMAIN scores = DOMAIN wd.task.weights
             /\ \A c \in DOMAIN scores :
                   LET f == scores[c]
                   IN  /\ f.capability = c /\ f.weight = wd.task.weights[c]
                       /\ f.score \in IntOrNone
                       /\ f.source \in EvidenceSources => RestsOn(wd, s, f)
  <1> DEFINE s == Built(wd, rq, i)
             W == wd.task.weights
             band == Band(wd, s.facts)
             R(c) == ResolveCapability(c, W[c], s.signals, s.profile, band,
                                       rq.overrides.require_evidence, wd.policy.machine)
  <1>1. PICK m \in ToSet(wd.models), a \in ToSet(wd.adapters) \cup {None} :
           /\ IsModelFacts(m) /\ (a # None => IsAdapterFacts(a))
           /\ s.facts = FactsFor(wd, m) /\ s.adapter = a
           /\ s.signals = Candidate(wd, m, a).signals /\ s.facts.model_id = m.model_id
    BY SubjectOK
  <1>2. s.signals \in Seq(ToSet(s.signals)) /\ \A x \in ToSet(s.signals) : Origin(wd, m, a, x)
    BY <1>1, SignalsOwn
  <1>3. ScoreOf(wd, rq, s).scores = [c \in DOMAIN W |-> R(c)]
    BY Zenon DEF ScoreOf, ScoreSubject, TaskFit
  <1>4. s.facts.parameters = m.parameters
    BY <1>1 DEF FactsFor, IsModelFacts
  <1> HIDE DEF s
  <1>5. band \in IntOrNone
    BY <1>4, BandOK
  <1>6. m.model_id \in DOMAIN wd.capabilities
    BY <1>1 DEF IsStored, ToSet
  <1>7. ASSUME NEW x \in ToSet(s.signals)
        PROVE  /\ x.score \in IntOrNone
               /\ x.source \in EvidenceSources =>
                     \/ /\ x.source \in {"production", "manual"} /\ a = None
                        /\ x.sample_count = None
                        /\ \E row \in ToSet(wd.capabilities[m.model_id]) :
                              /\ row.capability = x.capability /\ row.source = x.source
                              /\ row.score # None /\ row.confidence = x.confidence
                     \/ /\ x.source = "benchmark"
                        /\ \E e \in wd.evidence :
                              Measures(wd, m.model_id, IF a = None THEN "" ELSE a.id, e, x)
    <2>1. Origin(wd, m, a, x)
      BY <1>2, <1>7
    <2>2. CASE /\ a = None
               /\ \E row \in ToSet(wd.capabilities[m.model_id]) :
                     row.score # None /\ x = SignalOf(row)
      <3>1. PICK row \in ToSet(wd.capabilities[m.model_id]) :
                    row.score # None /\ x = SignalOf(row)
        BY <2>2
      <3>2. IsCapabilityRow(row)
        BY <1>6 DEF IsStored
      <3>3. /\ x.score = row.score /\ x.source = row.source /\ x.capability = row.capability
            /\ x.confidence = row.confidence /\ x.sample_count = None
        BY <3>1 DEF SignalOf
      <3>4. x.score \in IntOrNone
        BY <3>2, <3>3 DEF IsCapabilityRow, IntOrNone, One
      <3>5. x.source \in EvidenceSources => x.source \in {"production", "manual"}
        BY <3>2, <3>3 DEF IsCapabilityRow, StoredSources, EvidenceSources
      <3> QED BY <2>2, <3>1, <3>3, <3>4, <3>5
    <2>3. CASE a # None /\ x.source = "declared" /\ x.score = One
      BY <2>3 DEF EvidenceSources, IntOrNone, One
    <2>4. CASE \E e \in wd.evidence :
                  Measures(wd, m.model_id, IF a = None THEN "" ELSE a.id, e, x)
      <3>1. PICK e \in wd.evidence :
                    Measures(wd, m.model_id, IF a = None THEN "" ELSE a.id, e, x)
        BY <2>4
      <3>2. x.score = e.score /\ x.source = "benchmark"
        BY <3>1 DEF Measures
      <3>3. IsSignal(e)
        BY DEF IsStored
      <3>4. x.score \in IntOrNone
        BY <3>2, <3>3 DEF IsSignal, IntOrNone, One
      <3> QED BY <3>1, <3>2, <3>4
    <2> QED BY <2>1, <2>2, <2>3, <2>4 DEF Origin
  <1>8. ASSUME NEW c \in DOMAIN W
        PROVE  /\ R(c).capability = c /\ R(c).weight = W[c] /\ R(c).score \in IntOrNone
               /\ R(c).source \in EvidenceSources => RestsOn(wd, s, R(c))
    <2> DEFINE f == R(c)
               signals == s.signals
               profile == s.profile
               require == rq.overrides.require_evidence
               mach == wd.policy.machine
               weight == W[c]
    <2>1. signals \in Seq(ToSet(signals)) /\ \A x \in ToSet(signals) : x.score \in IntOrNone
      BY <1>2, <1>7
    <2>2. f = ResolveCapability(c, weight, signals, profile, band, require, mach)
      OBVIOUS
    <2> HIDE DEF signals, profile, band, require, mach, weight, f
    <2>3. /\ f.capability = c /\ f.weight = weight /\ f.score \in IntOrNone
          /\ f.source \in EvidenceSources =>
                \E x \in ToSet(signals) : /\ x.capability = c /\ x.source = f.source
                                          /\ Usable(x, profile, mach)
      BY <1>5, <2>1, <2>2, ResolvedOK
    <2>4. ASSUME f.source \in EvidenceSources PROVE RestsOn(wd, s, f)
      <3>1. PICK x \in ToSet(signals) : /\ x.capability = c /\ x.source = f.source
                                        /\ Usable(x, profile, mach)
        BY <2>3, <2>4
      <3>2. \/ /\ x.source \in {"production", "manual"} /\ a = None
               /\ x.sample_count = None
               /\ \E row \in ToSet(wd.capabilities[m.model_id]) :
                     /\ row.capability = x.capability /\ row.source = x.source
                     /\ row.score # None /\ row.confidence = x.confidence
            \/ /\ x.source = "benchmark"
               /\ \E e \in wd.evidence :
                     Measures(wd, m.model_id, IF a = None THEN "" ELSE a.id, e, x)
        BY <1>7, <2>4, <3>1 DEF signals
      <3>3. CASE /\ x.source \in {"production", "manual"} /\ a = None
                 /\ x.sample_count = None
                 /\ \E row \in ToSet(wd.capabilities[m.model_id]) :
                       /\ row.capability = x.capability /\ row.source = x.source
                       /\ row.score # None /\ row.confidence = x.confidence
        <4>1. x.source = "manual" /\ x.confidence >= MinConfidence
          BY <3>1, <3>3 DEF Usable
        <4>2. ByHand(wd, m.model_id, x.capability)
          BY <3>3, <4>1 DEF ByHand
        <4>3. /\ f.source = "manual" /\ f.capability = x.capability
              /\ s.adapter = None /\ s.facts.model_id = m.model_id
          BY <1>1, <2>3, <3>1, <3>3, <4>1
        <4> QED BY <4>2, <4>3 DEF RestsOn
      <3>4. CASE /\ x.source = "benchmark"
                 /\ \E e \in wd.evidence :
                       Measures(wd, m.model_id, IF a = None THEN "" ELSE a.id, e, x)
        <4>1. PICK e \in wd.evidence :
                       Measures(wd, m.model_id, IF a = None THEN "" ELSE a.id, e, x)
          BY <3>4
        <4>2. Usable(x, s.profile, wd.policy.machine) /\ s.adapter = a
          BY <1>1, <3>1 DEF profile, mach
        <4>3. Describing(wd, e, s)
          BY <1>1, <4>1, <4>2, UsableDescribes
        <4>4. e.capability = f.capability
          BY <2>3, <3>1, <4>1 DEF Measures
        <4> QED BY <3>1, <3>4, <4>3, <4>4 DEF RestsOn
      <3> QED BY <3>2, <3>3, <3>4
    <2> QED BY <2>3, <2>4 DEF f, weight
  <1> HIDE DEF R
  <1> QED BY <1>3, <1>8 DEF s

\* _merged_constraints: a candidate that is accepted satisfies the task profile.
LEMMA RespectsProfile ==
  ASSUME NEW wd, IsStored(wd), NEW env, NEW rq, IsRequest(rq), Goes(wd, rq),
         NEW i \in Accepted(wd, env, rq)
  PROVE  LET r == OutcomeAt(wd, env, rq, i)
             s == Built(wd, rq, i)
             base == wd.task.constraints
         IN  /\ r.subject = s
             /\ s.served.tokens >= base.min_context
             /\ s.facts.canonical_id \notin base.exclude
             /\ s.facts.remote => base.allow_remote
             /\ \A c \in base.requires : Supports(s.provider, c)
             /\ LET scores == r.fit.scores
                IN  \A c \in DOMAIN scores \cap DOMAIN base.min_scores :
                       scores[c].score # None => scores[c].score >= base.min_scores[c]
  <1> DEFINE r == OutcomeAt(wd, env, rq, i)
             s == Built(wd, rq, i)
             estimate == EstimateVram(s.facts, s.profile, s.served.tokens)
             fit == ScoreOf(wd, rq, s)
             in == ConstraintInputs(wd, env, rq, Merged(wd, rq), s, fit)
             base == wd.task.constraints
             m == Merged(wd, rq)
  <1>1. /\ i \in DOMAIN ReadCandidates(wd) /\ s.served # None /\ s.served.tokens \in Nat
        /\ r.subject = s /\ r.fit = fit
        /\ \A k \in 1 .. 17 : ~FailsAt(s, estimate, in, k)
    BY AcceptedIs
  <1>2. /\ in.min_context = m.min_context /\ m.requires \subseteq in.requires
        /\ in.min_scores = m.min_scores /\ in.exclude = m.exclude
        /\ in.allow_remote = m.allow_remote /\ in.scores = fit.scores
    BY DEF ConstraintInputs
  <1>3. /\ m.min_context \in Nat /\ m.min_context >= base.min_context
        /\ base.requires \subseteq m.requires /\ base.exclude \subseteq m.exclude
        /\ m.allow_remote => base.allow_remote
        /\ \A c \in DOMAIN base.min_scores :
              /\ c \in DOMAIN m.min_scores /\ m.min_scores[c] \in Int
              /\ m.min_scores[c] >= base.min_scores[c]
    <2>1. IsConstraints(base)
      BY DEF IsStored, IsTaskProfile
    <2>2. rq.constraints # None => IsConstraints(rq.constraints)
      BY DEF IsRequest
    <2> QED BY <2>1, <2>2, MergedTighter DEF Goes, Merged
  <1>4. base.min_context \in Nat /\ \A c \in DOMAIN base.min_scores : base.min_scores[c] \in Int
    <2>1. IsConstraints(base)
      BY DEF IsStored, IsTaskProfile
    <2> HIDE DEF base
    <2> QED BY <2>1 DEF IsConstraints, One
  <1>5. \A c \in DOMAIN fit.scores : fit.scores[c].score \in IntOrNone
    BY <1>1, ScoresOK DEF Goes
  <1> HIDE DEF r, s, estimate, in, fit, m, base
  <1>6. /\ ~(in.min_context > s.served.tokens)
        /\ ~\E c \in in.requires : ~Supports(s.provider, c)
        /\ ~BelowMinimum(in)
        /\ s.facts.canonical_id \notin in.exclude
        /\ ~(s.facts.remote /\ ~in.allow_remote)
    BY <1>1, FailsWhen
  <1>7. s.served.tokens >= base.min_context
    BY <1>1, <1>2, <1>3, <1>4, <1>6
  <1>8. /\ s.facts.canonical_id \notin base.exclude /\ (s.facts.remote => base.allow_remote)
        /\ \A c \in base.requires : Supports(s.provider, c)
    BY <1>2, <1>3, <1>6
  <1>9. ASSUME NEW c \in DOMAIN fit.scores \cap DOMAIN base.min_scores,
               fit.scores[c].score # None
        PROVE  fit.scores[c].score >= base.min_scores[c]
    <2> DEFINE score == fit.scores[c].score
    <2>1. /\ c \in DOMAIN m.min_scores /\ m.min_scores[c] \in Int /\ base.min_scores[c] \in Int
          /\ m.min_scores[c] >= base.min_scores[c]
      BY <1>3, <1>4, <1>9
    <2>2. score \in Int
      BY <1>5, <1>9 DEF IntOrNone
    <2>3. ~(score < m.min_scores[c])
      BY <1>2, <1>6, <1>9, <2>1 DEF BelowMinimum
    <2> HIDE DEF score
    <2>4. score >= base.min_scores[c]
      BY <2>1, <2>2, <2>3
    <2> QED BY <2>4 DEF score
  <1> QED BY <1>1, <1>7, <1>8, <1>9 DEF r, s, base, fit

\* budget_context: what fits is an answer between the floor and what is asked for.
LEMMA BudgetOK ==
  ASSUME NEW input \in Nat, NEW output \in Nat, NEW served \in Nat,
         NEW floor, floor # None => floor \in Nat,
         BudgetContext(input, output, served, floor).fits
  PROVE  LET b == BudgetContext(input, output, served, floor)
             least == IF floor = None THEN output ELSE Min({output, floor})
         IN  b.output \in least .. output /\ input + b.output + SafetyMargin <= served
  <1> DEFINE required == input + output + SafetyMargin
             room == served - input - SafetyMargin
             b == BudgetContext(input, output, served, floor)
             least == IF floor = None THEN output ELSE Min({output, floor})
  <1>1. SafetyMargin \in Nat
    BY FootprintAssumption
  <1>2. room \in Int /\ required \in Int
    BY <1>1
  <1>3. least \in Int /\ least <= output /\ (floor # None => least <= floor)
    <2>1. CASE floor = None
      BY <2>1
    <2>2. CASE floor # None
      <3>1. output \in Int /\ floor \in Int
        BY <2>2
      <3>2. Min({output, floor}) \in {output, floor} /\ Min({output, floor}) <= output
            /\ Min({output, floor}) <= floor
        BY <3>1, MaxOfTwo
      <3> QED BY <2>2, <3>1, <3>2
    <2> QED BY <2>1, <2>2
  <1>4. b = IF required <= served THEN Budget(TRUE, output, FALSE, required)
            ELSE IF floor # None /\ room >= floor
            THEN Budget(TRUE, Min({output, room}), TRUE,
                        input + Min({output, room}) + SafetyMargin)
            ELSE Budget(FALSE, output, FALSE, required)
    BY DEF BudgetContext
  <1> HIDE DEF b, least
  <1>5. CASE required <= served
    <2>1. b.output = output
      BY <1>4, <1>5 DEF Budget
    <2> QED BY <1>1, <1>3, <1>5, <2>1 DEF b, least
  <1>6. CASE ~(required <= served)
    <2>1. floor # None /\ room >= floor /\ b.output = Min({output, room})
      <3> HIDE DEF required, room
      <3> QED BY <1>4, <1>6 DEF Budget, b
    <2>2. output \in Int /\ room \in Int
      BY <1>2
    <2> HIDE DEF room
    <2>3. /\ Min({output, room}) \in {output, room} /\ Min({output, room}) <= output
          /\ Min({output, room}) <= room
      BY <2>2, MaxOfTwo
    <2>4. b.output \in Int /\ b.output <= output /\ b.output <= room
      BY <2>1, <2>2, <2>3
    <2>5. least <= b.output
      BY <1>3, <2>1, <2>2, <2>3
    <2>6. input + b.output + SafetyMargin <= served
      BY <1>1, <2>4 DEF room
    <2>7. b.output \in least .. output
      BY <1>3, <2>4, <2>5
    <2> QED BY <2>6, <2>7 DEF b, least
  <1> QED BY <1>5, <1>6

\* route(): a candidate that is accepted has room for an answer the profile accepts.
LEMMA HasRoom ==
  ASSUME NEW wd, IsStored(wd), NEW env, NEW rq, IsRequest(rq), Goes(wd, rq),
         NEW i \in Accepted(wd, env, rq), rq.input # None
  PROVE  LET s == Built(wd, rq, i)
             asked == RequestedOutput(wd, rq)
             least == IF wd.task.min_output = None THEN asked
                      ELSE Min({asked, wd.task.min_output})
             b == BudgetFor(wd, rq, s.served)
         IN  /\ b.output \in least .. asked
             /\ rq.input + b.output + SafetyMargin <= s.served.tokens
  <1> DEFINE s == Built(wd, rq, i)
             estimate == EstimateVram(s.facts, s.profile, s.served.tokens)
             in == ConstraintInputs(wd, env, rq, Merged(wd, rq), s, ScoreOf(wd, rq, s))
             asked == RequestedOutput(wd, rq)
             floor == wd.task.min_output
             served == s.served.tokens
             b == BudgetFor(wd, rq, s.served)
  <1>1. served \in Nat /\ \A k \in 1 .. 17 : ~FailsAt(s, estimate, in, k)
    BY AcceptedIs
  <1>2. rq.input \in Nat /\ asked \in Nat /\ (floor # None => floor \in Nat)
    <2>1. rq.input \in Nat /\ rq.output \in NatOrNone
      BY DEF IsRequest, NatOrNone
    <2>2. IsTaskProfile(wd.task)
      BY DEF IsStored
    <2> DEFINE t == wd.task
    <2> HIDE DEF t
    <2>3. t.output \in Nat /\ (t.min_output # None => t.min_output \in 1 .. t.output)
      BY <2>2, Zenon DEF IsTaskProfile, t
    <2>4. asked = IF rq.output \in {None, 0} THEN t.output ELSE rq.output
      BY DEF RequestedOutput, t
    <2> QED BY <2>1, <2>3, <2>4 DEF NatOrNone, t
  <1>3. b = BudgetContext(rq.input, asked, served, floor)
    BY DEF BudgetFor
  <1>4. in.required_context = IF b.fits THEN None ELSE b.required
    BY DEF ConstraintInputs
  <1> HIDE DEF s, in, estimate, b, asked, floor, served
  <1>5. ~(in.required_context # None /\ in.required_context > served)
    BY <1>1, FailsWhen DEF served
  <1>6. b.fits
    <2> DEFINE required == rq.input + asked + SafetyMargin
    <2>1. required \in Nat
      BY <1>2, FootprintAssumption
    <2>2. ~b.fits => b.required = required /\ ~(required <= served)
      BY <1>3 DEF BudgetContext, Budget
    <2>3. ~b.fits => in.required_context = required
      BY <1>4, <2>2
    <2> HIDE DEF required
    <2> QED BY <1>1, <1>5, <2>1, <2>2, <2>3, NoneAssumption
  <1> QED BY <1>1, <1>2, <1>3, <1>6, BudgetOK DEF s, b, asked, floor, served

\* adjust_snapshot, device_fits: what is free once the reserved is taken and the
\* idle is gone, for one device.
LEMMA RoomOf ==
  ASSUME NEW total \in NatOrNone, NEW used \in NatOrNone, NEW owed \in Int, NEW idle \in Int,
         NEW need \in Nat, need > 0, NEW gpu,
         gpu = IF used = None \/ total = None THEN [total |-> total, used |-> None]
               ELSE [total |-> total, used |-> Min({total, Max({0, used + owed - idle})})],
         FreeVram(gpu) # None, need <= FreeVram(gpu)
  PROVE  used # None /\ total # None /\ need + used + owed <= total + idle
  <1> DEFINE y == used + owed - idle
             x == Max({0, y})
             u == Min({total, x})
             d == total - u
  <1>1. used # None /\ total # None
    BY DEF FreeVram
  <1>2. used \in Nat /\ total \in Nat
    BY <1>1 DEF NatOrNone
  <1>3. gpu.total = total /\ gpu.used = u
    BY <1>1
  <1>4. FreeVram(gpu) = Max({d, 0})
    BY <1>1, <1>3 DEF FreeVram
  <1>5. y \in Int
    BY <1>2
  <1> HIDE DEF y
  <1>6. x \in Int /\ x >= y
    BY <1>5, MaxOfTwo
  <1> HIDE DEF x
  <1>7. u \in {total, x}
    <2>1. total \in Int /\ x \in Int
      BY <1>2, <1>6
    <2>2. Min({total, x}) \in {total, x}
      BY <2>1, MaxOfTwo
    <2> QED BY <2>2
  <1> HIDE DEF u
  <1>8. d \in Int
    BY <1>2, <1>6, <1>7
  <1>9. Max({d, 0}) \in {d, 0}
    <2>1. 0 \in Int
      OBVIOUS
    <2> HIDE DEF d
    <2> QED BY <1>8, <2>1, MaxOfTwo
  <1>10. need <= d
    BY <1>4, <1>8, <1>9
  <1>11. u = x
    BY <1>2, <1>7, <1>10
  <1>12. need + y <= total
    BY <1>2, <1>5, <1>6, <1>10, <1>11
  <1> QED BY <1>1, <1>2, <1>12 DEF y

\* apply_hard_constraints, target_gpu_index: a candidate that is accepted is aimed
\* at a device that holds it or has room for it.
LEMMA AimedAt ==
  ASSUME NEW wd, IsStored(wd), NEW rq, IsRequest(rq), Goes(wd, rq),
         NEW mc, IsMachine(mc), DOMAIN mc.gpus # {},
         NEW i \in Accepted(wd, RoutingView(mc), rq)
  PROVE  LET r == OutcomeAt(wd, RoutingView(mc), rq, i)
             g == r.target
         IN  \/ <<r.subject.facts.canonical_id, g>> \in Resident(mc)
             \/ /\ r.estimate # None
                /\ mc.gpus[g].used # None /\ mc.gpus[g].total # None
                /\ r.estimate + wd.policy.headroom + mc.gpus[g].used
                        + BytesOn(Reservations(mc), g)
                     <= mc.gpus[g].total + BytesOn(Evictable(mc), g)
  <1> DEFINE env == RoutingView(mc)
             r == OutcomeAt(wd, env, rq, i)
             s == Built(wd, rq, i)
             estimate == EstimateVram(s.facts, s.profile, s.served.tokens)
             in == ConstraintInputs(wd, env, rq, Merged(wd, rq), s, ScoreOf(wd, rq, s))
             head == wd.policy.headroom
             gpus == AdjustSnapshot(mc).gpus
             H == ResidentHere(s, in)
             D == DeviceFits(estimate, gpus, head)
  <1>1. /\ r.subject = s /\ r.estimate = estimate /\ r.target = TargetGpu(s, estimate, in)
        /\ estimate = None \/ (estimate \in Nat /\ estimate > 0)
        /\ \A k \in 1 .. 17 : ~FailsAt(s, estimate, in, k)
    BY AcceptedIs
  <1>2. in.snapshot = AdjustSnapshot(mc) /\ in.resident = Resident(mc) /\ in.headroom = head
    BY DEF ConstraintInputs, RoutingView
  <1>3. /\ DOMAIN gpus = DOMAIN mc.gpus /\ DOMAIN mc.gpus \subseteq Nat
        /\ AdjustSnapshot(mc) # None
    BY DEF AdjustSnapshot, IsMachine
  <1>4. head \in Nat
    BY DEF IsStored, IsPolicy
  <1> HIDE DEF r, s, estimate, in, head
  <1>5. ~OutOfMemory(s, estimate, in)
    BY <1>1, FailsWhen
  <1>6. /\ H \subseteq Nat /\ D \subseteq DOMAIN mc.gpus /\ (H # {} \/ D # {})
        /\ \A g \in H : <<s.facts.canonical_id, g>> \in Resident(mc)
        /\ \A g \in D : /\ estimate # None /\ FreeVram(gpus[g]) # None
                        /\ estimate + head <= FreeVram(gpus[g])
    BY <1>2, <1>3, <1>5 DEF OutOfMemory, ResidentHere, DeviceFits
  <1>7. r.target = IF H # {} THEN Min(H) ELSE Min(D)
    BY <1>1, <1>2, <1>3 DEF TargetGpu
  <1> HIDE DEF H, D, gpus
  <1>8. CASE H # {}
    <2>1. r.target \in H
      BY <1>6, <1>7, <1>8, MinOf
    <2> QED BY <1>1, <1>6, <2>1 DEF r, env
  <1>9. CASE H = {}
    <2> DEFINE g == r.target
    <2>1. g \in D
      <3>1. D \subseteq Nat /\ D # {}
        BY <1>3, <1>6, <1>9
      <3>2. Min(D) \in D
        BY <3>1, MinOf
      <3> QED BY <1>7, <1>9, <3>2
    <2> HIDE DEF g
    <2> DEFINE total == mc.gpus[g].total
               used == mc.gpus[g].used
               owed == BytesOn(Reservations(mc), g)
               idle == BytesOn(Evictable(mc), g)
               need == estimate + head
    <2>2. g \in DOMAIN mc.gpus /\ estimate # None /\ FreeVram(gpus[g]) # None
          /\ need <= FreeVram(gpus[g])
      BY <1>6, <2>1
    <2>3. gpus[g] = IF used = None \/ total = None THEN [total |-> total, used |-> None]
                    ELSE [total |-> total, used |-> Min({total, Max({0, used + owed - idle})})]
      BY <2>2, Zenon DEF gpus, AdjustSnapshot
    <2>4. total \in NatOrNone /\ used \in NatOrNone
      BY <2>2 DEF IsMachine
    <2>5. owed \in Int /\ idle \in Int
      <3>1. /\ IsFiniteSet(mc.rows) /\ IsFiniteSet(mc.others)
            /\ \A o \in mc.rows \cup mc.others : o.bytes \in NatOrNone
        BY DEF IsMachine
      <3>2. Reservations(mc) \subseteq mc.others /\ Evictable(mc) \subseteq mc.rows
        BY DEF Reservations, Evictable
      <3> DEFINE O == Reservations(mc)
                 E == Evictable(mc)
      <3> HIDE DEF O, E
      <3>3. /\ IsFiniteSet(O) /\ IsFiniteSet(E)
            /\ \A o \in O : o.bytes \in NatOrNone
            /\ \A o \in E : o.bytes \in NatOrNone
        BY <3>1, <3>2, FS_Subset DEF O, E
      <3>4. BytesOn(O, g) \in Int /\ BytesOn(E, g) \in Int
        BY <3>3, BytesOK
      <3> QED BY <3>4 DEF O, E
    <2>6. need \in Nat /\ need > 0
      BY <1>1, <1>4, <2>2
    <2> HIDE DEF total, used, owed, idle, need
    <2>7. used # None /\ total # None /\ need + used + owed <= total + idle
      BY <2>2, <2>3, <2>4, <2>5, <2>6, RoomOf
    <2>8. estimate + head + used + owed <= total + idle
      BY <2>7 DEF need
    <2>9. /\ r.estimate # None /\ mc.gpus[g].used # None /\ mc.gpus[g].total # None
          /\ r.estimate + head + mc.gpus[g].used + BytesOn(Reservations(mc), g)
                <= mc.gpus[g].total + BytesOn(Evictable(mc), g)
      BY <1>1, <2>2, <2>7, <2>8 DEF used, total, owed, idle
    <2> HIDE DEF env
    <2> QED BY <2>9 DEF g, r, head, env
  <1> QED BY <1>8, <1>9

\* _check_adapter: an adapter that is accepted without a pin was measured at what
\* the task weighs most.
LEMMA GateHolds ==
  ASSUME NEW wd, IsStored(wd), NEW env, NEW rq, IsRequest(rq), Goes(wd, rq),
         NEW i \in Accepted(wd, env, rq), wd.policy.gate, rq.overrides.adapter = None,
         Built(wd, rq, i).adapter # None
  PROVE  \E e \in wd.evidence : /\ Describing(wd, e, Built(wd, rq, i))
                                /\ e.capability = TopWeighted(wd.task.weights)
  <1> DEFINE s == Built(wd, rq, i)
             estimate == EstimateVram(s.facts, s.profile, s.served.tokens)
             fit == ScoreOf(wd, rq, s)
             in == ConstraintInputs(wd, env, rq, Merged(wd, rq), s, fit)
             W == wd.task.weights
             top == TopWeighted(W)
  <1>1. i \in DOMAIN ReadCandidates(wd) /\ ~FailsAt(s, estimate, in, 15)
    BY AcceptedIs
  <1>2. in.gate /\ in.top = top /\ in.scores = fit.scores
    BY DEF ConstraintInputs
  <1>3. \A c \in DOMAIN fit.scores :
           LET f == fit.scores[c]
           IN  f.capability = c /\ (f.source \in EvidenceSources => RestsOn(wd, s, f))
    BY <1>1, ScoresOK DEF Goes
  <1>4. top # None
    <2> DEFINE t == wd.task
    <2>1. IsTaskProfile(t)
      BY DEF IsStored
    <2> HIDE DEF t
    <2>2. /\ DOMAIN t.weights # {} /\ IsFiniteSet(DOMAIN t.weights)
          /\ None \notin DOMAIN t.weights /\ \A c \in DOMAIN t.weights : t.weights[c] \in Int
      BY <2>1, Zenon DEF IsTaskProfile
    <2> DEFINE S == DOMAIN t.weights
               val == [c \in S |-> t.weights[c]]
    <2>3. val \in [S -> Int] /\ \A c \in S : val[c] = t.weights[c]
      BY <2>2
    <2>4. \E c \in S : \A d \in S : val[d] <= val[c]
      <3> HIDE DEF val, S
      <3> QED BY <2>2, <2>3, LargestOf DEF S
    <2>5. \E c \in DOMAIN t.weights : \A d \in DOMAIN t.weights : t.weights[d] <= t.weights[c]
      BY <2>3, <2>4
    <2>6. TopWeighted(t.weights) \in DOMAIN t.weights
      BY <2>2, <2>5, Zenon DEF TopWeighted
    <2> QED BY <2>2, <2>6 DEF t
  <1> HIDE DEF s, estimate, fit, in, top
  <1>5. s.adapter # None
    BY DEF s
  <1>6. AdapterMeasured(s, in)
    BY <1>1, <1>2, <1>4, <1>5, FailsWhen DEF AdapterUnmeasured
  <1> DEFINE f == fit.scores[top]
  <1>7. top \in DOMAIN fit.scores /\ f.source \in MeasuredSources
    BY <1>2, <1>6 DEF AdapterMeasured
  <1>a. f.capability = top /\ (f.source \in EvidenceSources => RestsOn(wd, s, f))
    BY <1>3, <1>7
  <1> HIDE DEF f
  <1>8. f.source \in EvidenceSources
    BY <1>7 DEF MeasuredSources, EvidenceSources
  <1>9. \E e \in wd.evidence : Describing(wd, e, s) /\ e.capability = f.capability
    BY <1>a, <1>5, <1>8 DEF RestsOn, MeasuredSources
  <1> QED BY <1>a, <1>9 DEF s, top, W
-----------------------------------------------------------------------------
(* What is true of the candidates of a decision.                           *)

\* The ranking in hand is what routing accepted of what it read, and that was this
\* machine if nothing has changed since.
LEMMA RankedIs ==
  ASSUME DispatchInv, Ranked # {}
  PROVE  /\ Goes(w, q) /\ decision.ordered # <<>> /\ decision.ordered[1] \in Ranked
         /\ decision.budget = BudgetFor(w, q, decision.ordered[1].subject.served)
         /\ "low_evidence" \notin decision.flags =>
               ~(decision.ordered[1].fit.measured < w.policy.min_present)
         /\ \A r \in Ranked : \E i \in Accepted(w, view, q) : r = OutcomeAt(w, view, q, i)
         /\ quiet => view = RoutingView(machine)
  <1>1. Ranked = ToSet(decision.ordered)
    BY DEF Ranked, ToSet
  <1>2. decision # NoDecision
    BY DEF NoDecision, Ranked
  <1>3. decision = Route(w, view, q) /\ (quiet => view = RoutingView(machine))
    BY <1>2 DEF DispatchInv, Current, ViewRead
  <1>4. world \in DOMAIN Worlds
    BY DEF DispatchInv, AttemptInv
  <1>5. IsStored(w)
    BY <1>4, WorldOK
  <1> DEFINE env == view
             d == Route(w, env, q)
  <1>6. d.ordered # <<>>
    <2>1. decision.ordered # <<>>
      BY DEF Ranked
    <2> QED BY <1>3, <2>1
  <1>7. Goes(w, q)
    BY <1>5, <1>6, RouteIs
  <1>8. /\ d.ordered \in Seq(ToSet(d.ordered))
        /\ \A r : r \in ToSet(d.ordered)
                     <=> \E i \in Accepted(w, env, q) : r = OutcomeAt(w, env, q, i)
        /\ d.budget = BudgetFor(w, q, d.ordered[1].subject.served)
        /\ "low_evidence" \notin d.flags =>
              ~(d.ordered[1].fit.measured < w.policy.min_present)
    BY <1>5, <1>6, <1>7, RouteIs
  <1>9. d = decision
    BY <1>3
  <1> HIDE DEF env, d
  <1>10. decision.ordered[1] \in ToSet(decision.ordered)
    <2> DEFINE o == decision.ordered
    <2>1. o \in Seq(ToSet(o)) /\ o # <<>>
      BY <1>6, <1>8, <1>9
    <2> HIDE DEF o
    <2>2. 1 \in DOMAIN o
      BY <2>1
    <2> QED BY <2>2 DEF o, ToSet
  <1>11. \A r \in Ranked : \E i \in Accepted(w, view, q) : r = OutcomeAt(w, view, q, i)
    BY <1>1, <1>8, <1>9 DEF env
  <1>12. /\ decision.ordered # <<>>
         /\ decision.budget = BudgetFor(w, q, decision.ordered[1].subject.served)
         /\ "low_evidence" \notin decision.flags =>
               ~(decision.ordered[1].fit.measured < w.policy.min_present)
    BY <1>6, <1>8, <1>9
  <1> HIDE DEF Ranked
  <1> QED BY <1>1, <1>3, <1>5, <1>7, <1>10, <1>11, <1>12

\* budget_context, of the ranking.
LEMMA BudgetedOK == DispatchInv => Budgeted
  <1> DEFINE asked == RequestedOutput(w, q)
             least == IF w.task.min_output = None THEN asked
                      ELSE Min({asked, w.task.min_output})
  <1> SUFFICES ASSUME DispatchInv, q.input # None, Ranked # {}
               PROVE  /\ \A r \in Ranked : \E output \in least .. asked :
                            q.input + output + SafetyMargin <= r.subject.served.tokens
                      /\ decision.budget.output \in least .. asked
                      /\ q.input + decision.budget.output + SafetyMargin
                            <= decision.ordered[1].subject.served.tokens
    BY Zenon DEF Budgeted
  <1>1. world \in DOMAIN Worlds
    BY DEF DispatchInv, AttemptInv
  <1>2. IsStored(w) /\ IsRequest(q)
    BY <1>1, WorldOK
  <1>3. /\ Goes(w, q) /\ decision.ordered[1] \in Ranked
        /\ decision.budget = BudgetFor(w, q, decision.ordered[1].subject.served)
    BY RankedIs
  <1>4. \A r \in Ranked : \E i \in Accepted(w, view, q) : r = OutcomeAt(w, view, q, i)
    BY RankedIs
  <1> DEFINE B(r) == BudgetFor(w, q, r.subject.served)
  <1>5. ASSUME NEW r \in Ranked
        PROVE  /\ B(r).output \in least .. asked
               /\ q.input + B(r).output + SafetyMargin <= r.subject.served.tokens
    <2>1. PICK i \in Accepted(w, view, q) : r = OutcomeAt(w, view, q, i)
      BY <1>4
    <2>2. r.subject = Built(w, q, i)
      BY <1>2, <1>3, <2>1, AcceptedIs
    <2> DEFINE s == Built(w, q, i)
               b == BudgetFor(w, q, s.served)
    <2>3. b.output \in least .. asked /\ q.input + b.output + SafetyMargin <= s.served.tokens
      BY <1>2, <1>3, HasRoom
    <2> HIDE DEF s, least, asked
    <2> QED BY <2>2, <2>3 DEF s
  <1>6. B(decision.ordered[1]) = decision.budget
    BY <1>3
  <1> HIDE DEF B, least, asked
  <1> QED BY <1>3, <1>5, <1>6

\* device_fits, of the ranking.
LEMMA DeviceHoldsOK == DispatchInv => DeviceHolds
  <1> DEFINE idle == {o \in machine.rows : ~\E j \in machine.others : j.canonical = o.canonical}
             owed == {j \in machine.others :
                         ~\E o \in machine.rows : o.canonical = j.canonical /\ o.gpu = j.gpu}
  <1> SUFFICES ASSUME DispatchInv, quiet, DOMAIN machine.gpus # {}, NEW r \in Ranked
               PROVE  LET g == r.target IN
                      \/ \E o \in machine.rows :
                            o.canonical = r.subject.facts.canonical_id /\ o.gpu = g
                      \/ /\ r.estimate # None
                         /\ machine.gpus[g].used # None /\ machine.gpus[g].total # None
                         /\ r.estimate + w.policy.headroom + machine.gpus[g].used
                                + BytesOn(owed, g)
                              <= machine.gpus[g].total + BytesOn(idle, g)
    BY Zenon DEF DeviceHolds
  <1>1. world \in DOMAIN Worlds
    BY DEF DispatchInv, AttemptInv
  <1>2. IsStored(w) /\ IsRequest(q)
    BY <1>1, WorldOK
  <1>3. Goes(w, q)
    BY RankedIs
  <1>4. /\ IsMachine(machine)
        /\ \E i \in Accepted(w, RoutingView(machine), q) :
              r = OutcomeAt(w, RoutingView(machine), q, i)
    <2>1. machine \in Machines
      BY DEF DispatchInv
    <2>2. IsMachine(machine)
      BY <1>1, <2>1, WorldsAssumption DEF Machines
    <2> QED BY <2>2, RankedIs
  <1>5. PICK i \in Accepted(w, RoutingView(machine), q) :
              r = OutcomeAt(w, RoutingView(machine), q, i)
    BY <1>4
  <1> DEFINE g == r.target
  <1>6. \/ <<r.subject.facts.canonical_id, g>> \in Resident(machine)
        \/ /\ r.estimate # None
           /\ machine.gpus[g].used # None /\ machine.gpus[g].total # None
           /\ r.estimate + w.policy.headroom + machine.gpus[g].used
                   + BytesOn(Reservations(machine), g)
                <= machine.gpus[g].total + BytesOn(Evictable(machine), g)
    BY <1>2, <1>3, <1>4, <1>5, AimedAt
  <1>7. Reservations(machine) = owed /\ Evictable(machine) = idle
    BY DEF Reservations, Evictable, Resident
  <1>8. <<r.subject.facts.canonical_id, g>> \in Resident(machine) =>
           \E o \in machine.rows : o.canonical = r.subject.facts.canonical_id /\ o.gpu = g
    BY DEF Resident
  <1> HIDE DEF owed, idle
  <1> QED BY <1>6, <1>7, <1>8

\* _check_adapter, of the ranking.
LEMMA AdapterGateOK == DispatchInv => AdapterGate
  <1> SUFFICES ASSUME DispatchInv, w.policy.gate, q.overrides.adapter = None,
                      NEW r \in Ranked, r.subject.adapter # None
               PROVE  \E e \in w.evidence : Describes(e, r.subject)
                                               /\ e.capability = TopWeighted(w.task.weights)
    BY Zenon DEF AdapterGate
  <1>1. world \in DOMAIN Worlds
    BY DEF DispatchInv, AttemptInv
  <1>2. IsStored(w) /\ IsRequest(q)
    BY <1>1, WorldOK
  <1>3. \A x \in Ranked : \E i \in Accepted(w, view, q) : x = OutcomeAt(w, view, q, i)
    BY RankedIs
  <1>4. PICK i \in Accepted(w, view, q) : r = OutcomeAt(w, view, q, i)
    BY <1>3
  <1>5. Goes(w, q)
    BY RankedIs
  <1> DEFINE s == Built(w, q, i)
  <1>6. r.subject = s
    BY <1>2, <1>4, <1>5, AcceptedIs
  <1>7. \E e \in w.evidence : Describing(w, e, s) /\ e.capability = TopWeighted(w.task.weights)
    BY <1>2, <1>5, <1>6, GateHolds
  <1> HIDE DEF s
  <1>8. \A e \in w.evidence : Describing(w, e, s) => Describes(e, s)
    BY Zenon DEF Describing, Describes, Concerns
  <1> QED BY <1>6, <1>7, <1>8

\* _merged_constraints, of the ranking.
LEMMA ProfileRespectedOK == DispatchInv => ProfileRespected
  <1> DEFINE base == w.task.constraints
  <1> SUFFICES ASSUME DispatchInv, NEW r \in Ranked
               PROVE  LET s == r.subject IN
                      /\ s.served.tokens >= base.min_context
                      /\ s.facts.canonical_id \notin base.exclude
                      /\ s.facts.remote => base.allow_remote
                      /\ \A c \in base.requires : Supports(s.provider, c)
                      /\ \A c \in DOMAIN r.fit.scores \cap DOMAIN base.min_scores :
                            r.fit.scores[c].score # None
                                => r.fit.scores[c].score >= base.min_scores[c]
    BY Zenon DEF ProfileRespected
  <1>1. world \in DOMAIN Worlds
    BY DEF DispatchInv, AttemptInv
  <1>2. IsStored(w) /\ IsRequest(q)
    BY <1>1, WorldOK
  <1>3. \A x \in Ranked : \E i \in Accepted(w, view, q) : x = OutcomeAt(w, view, q, i)
    BY RankedIs
  <1>4. PICK i \in Accepted(w, view, q) : r = OutcomeAt(w, view, q, i)
    BY <1>3
  <1>5. Goes(w, q)
    BY RankedIs
  <1> DEFINE env == view
             s == Built(w, q, i)
  <1>6. /\ OutcomeAt(w, env, q, i).subject = s
        /\ s.served.tokens >= base.min_context
        /\ s.facts.canonical_id \notin base.exclude
        /\ s.facts.remote => base.allow_remote
        /\ \A c \in base.requires : Supports(s.provider, c)
        /\ LET scores == OutcomeAt(w, env, q, i).fit.scores
           IN  \A c \in DOMAIN scores \cap DOMAIN base.min_scores :
                  scores[c].score # None => scores[c].score >= base.min_scores[c]
    BY <1>2, <1>5, RespectsProfile
  <1>7. r = OutcomeAt(w, env, q, i)
    BY <1>4
  <1> HIDE DEF s, env, base
  <1> QED BY <1>6, <1>7

\* A job that was admitted has a candidate.
LEMMA SomeRanked ==
  ASSUME DispatchInv, job.state \in {"admitted", "executing"}
  PROVE  decision.ordered # <<>>
  <1>1. world \in DOMAIN Worlds /\ Current /\ decision.error = None
    BY DEF DispatchInv, AttemptInv, Verdicts
  <1>2. decision = Route(w, view, q)
    BY <1>1 DEF Current, BeingRouted
  <1>3. IsStored(w)
    BY <1>1, WorldOK
  <1> DEFINE d == Route(w, view, q)
  <1>4. \/ d.error \in {"VALIDATION_ERROR", "ADAPTER_NOT_FOUND"}
        \/ d.error = IF d.ordered = <<>> THEN "NO_ELIGIBLE_MODEL" ELSE None
    BY <1>3, RouteIs
  <1> HIDE DEF d
  <1> QED BY <1>1, <1>2, <1>4, ErrorAssumption DEF RoutingErrors, d

\* The pins of a request, over the attempts.
LEMMA PinHonouredOK == DispatchInv => PinHonoured
  <1> SUFFICES ASSUME DispatchInv, NEW i \in DOMAIN run.tried,
                      job.state \in {"admitted", "executing"}
               PROVE  LET s == Candidates[run.tried[i]].subject
                      IN  /\ q.overrides.model # None => s.facts.canonical_id = q.overrides.model
                          /\ q.overrides.adapter # None =>
                                s.adapter # None /\ s.adapter.name = q.overrides.adapter
    BY Zenon DEF PinHonoured
  <1> DEFINE n == run.tried[i]
  <1>1. /\ world \in DOMAIN Worlds /\ Current /\ decision.error = None
        /\ n \in 1 .. Len(Candidates)
    BY DEF DispatchInv, AttemptInv, Verdicts, Indexed
  <1>2. IsStored(w) /\ IsRequest(q) /\ Follows(decision)
    BY <1>1, WorldOK, DecisionFollows
  <1>3. decision.ordered # <<>>
    BY SomeRanked
  <1> HIDE DEF n
  <1>4. n \in 1 .. Len(decision.ordered) /\ Candidates[n] = decision.ordered[n]
    BY <1>1, <1>2, <1>3, CandidatesListed
  <1>5. Candidates[n] \in Ranked
    BY <1>2, <1>4 DEF Follows, Ranked
  <1>6. \A x \in Ranked : \E k \in Accepted(w, view, q) : x = OutcomeAt(w, view, q, k)
    BY <1>5, RankedIs
  <1>7. Goes(w, q)
    BY <1>5, RankedIs
  <1>8. PICK k \in Accepted(w, view, q) :
            Candidates[n] = OutcomeAt(w, view, q, k)
    BY <1>5, <1>6
  <1>9. Candidates[n].subject = Built(w, q, k) /\ Pinned(q, Built(w, q, k))
    BY <1>2, <1>7, <1>8, AcceptedIs
  <1> QED BY <1>9 DEF Pinned, n

\* The types of the variables.
LEMMA DispatchTyped == DispatchInv => DispatchTypeOK
  <1> SUFFICES ASSUME DispatchInv PROVE DispatchTypeOK
    OBVIOUS
  <1>1. /\ world \in DOMAIN Worlds /\ Current /\ machine \in Machines
        /\ job.state \in Jobs /\ job.attempt \in Nat
        /\ run.index \in Nat /\ run.here \in Nat
        /\ moves \in 0 .. Worlds[world].moves /\ quiet \in BOOLEAN
    BY DEF DispatchInv, AttemptInv, RunShape
  <1>2. Follows(decision) /\ Len(decision.ordered) \in Nat
    <2>1. Follows(decision)
      BY <1>1, DecisionFollows
    <2> DEFINE o == decision.ordered
    <2>2. o \in Seq(ToSet(o))
      BY <2>1 DEF Follows
    <2> HIDE DEF o
    <2>3. Len(o) \in Nat
      BY <2>2
    <2> QED BY <2>1, <2>3 DEF o
  <1>3. run.index <= Len(decision.ordered)
    <2>1. CASE job.state \in {"admitted", "executing"}
      <3>1. run.index <= Len(Candidates) /\ decision.error = None
        BY <2>1 DEF DispatchInv, Indexed, Verdicts
      <3>2. decision.ordered # <<>>
        BY <2>1, SomeRanked
      <3>3. Len(Candidates) \in Nat /\ Len(Candidates) <= Len(decision.ordered)
        BY <1>2, <3>2, CandidatesListed
      <3> QED BY <1>1, <1>2, <3>1, <3>3
    <2>2. CASE job.state \notin {"admitted", "executing"}
      <3>1. run.index = 0
        BY <2>2 DEF DispatchInv, Indexed
      <3> QED BY <1>2, <3>1
    <2> QED BY <2>1, <2>2
  <1>4. run.index \in 0 .. Len(decision.ordered)
    BY <1>1, <1>2, <1>3
  <1> QED BY <1>1, <1>4 DEF DispatchTypeOK

\* route, apply_hard_constraints, rank_candidates, _attempts: whatever is stored and
\* asked for, what is ranked and what is tried is what the request, the profile, the
\* memory of the device and the adapter gate allow.
THEOREM Selections == DispatchSpec => []ChoiceSound
  <1>1. DispatchInv => ChoiceSound
    BY DispatchTyped, BudgetedOK, DeviceHoldsOK, AdapterGateOK, PinHonouredOK,
       ProfileRespectedOK DEF ChoiceSound
  <1> QED BY <1>1, Dispatching, PTL
-----------------------------------------------------------------------------
(* What a decision rests on.                                               *)

\* More terms that are not negative, a larger sum.
LEMMA SumGrows ==
  ASSUME NEW B, IsFiniteSet(B), NEW A \in SUBSET B, NEW f, NEW g,
         \A x \in B : g[x] \in Nat, \A x \in A : f[x] = g[x]
  PROVE  /\ SumFunctionOnSet(f, A) \in Int /\ SumFunctionOnSet(g, B) \in Int
         /\ SumFunctionOnSet(f, A) <= SumFunctionOnSet(g, B)
  <1> DEFINE a == SumLoop(f, A)
             b == SumLoop(g, B)
             T == {s \in SUBSET B : a[s \cap A] <= b[s]}
  <1>1. IsFiniteSet(A) /\ (\A x \in A : f[x] \in Int) /\ \A x \in B : g[x] \in Int
    BY FS_Subset
  <1>2. /\ \A s \in SUBSET A : a[s] \in Int
        /\ a[{}] = 0 /\ SumFunctionOnSet(f, A) = a[A]
        /\ \A s \in SUBSET A : \A x \in s : a[s] = f[x] + a[s \ {x}]
    BY <1>1, SumLoopIs
  <1>3. /\ \A s \in SUBSET B : b[s] \in Int
        /\ b[{}] = 0 /\ SumFunctionOnSet(g, B) = b[B]
        /\ \A s \in SUBSET B : \A x \in s : b[s] = g[x] + b[s \ {x}]
    <2>1. \A x \in B : g[x] \in Int
      BY <1>1
    <2> QED BY <2>1, SumLoopIs
  <1> HIDE DEF a, b
  <1>4. {} \in T
    <2>1. {} \cap A = {}
      OBVIOUS
    <2> QED BY <1>2, <1>3, <2>1
  <1>5. ASSUME NEW s \in SUBSET B, s # {}, \A x \in s : s \ {x} \in T PROVE s \in T
    <2>1. PICK x \in s : TRUE
      BY <1>5
    <2> DEFINE r == s \ {x}
               u == s \cap A
    <2>2. a[r \cap A] <= b[r] /\ b[s] = g[x] + b[r] /\ g[x] \in Nat
      BY <1>3, <1>5, <2>1
    <2>3. u \in SUBSET A /\ a[u] \in Int /\ b[s] \in Int /\ b[r] \in Int /\ r \cap A = u \ {x}
          /\ u \ {x} \in SUBSET A /\ a[u \ {x}] \in Int
      BY <1>2, <1>3
    <2>4. a[u \ {x}] <= b[r]
      BY <2>2, <2>3
    <2>5. CASE x \in A
      <3>1. a[u] = f[x] + a[u \ {x}] /\ f[x] = g[x]
        BY <1>2, <2>3, <2>5
      <3> DEFINE v == u \ {x}
      <3>3. a[u] = g[x] + a[v] /\ a[v] <= b[r] /\ b[s] = g[x] + b[r]
        BY <2>2, <2>4, <3>1
      <3>4. a[u] \in Int /\ a[v] \in Int /\ b[r] \in Int /\ b[s] \in Int /\ g[x] \in Int
        BY <2>2, <2>3
      <3> HIDE DEF u, r, v
      <3>2. a[u] <= b[s]
        BY <3>3, <3>4
      <3> QED BY <3>2 DEF u
    <2>6. CASE x \notin A
      <3>1. u \ {x} = u
        BY <2>6
      <3>3. a[u] <= b[r] /\ b[s] = g[x] + b[r] /\ g[x] \in Nat
        BY <2>2, <2>4, <3>1
      <3>4. a[u] \in Int /\ b[r] \in Int /\ b[s] \in Int
        BY <2>3
      <3> HIDE DEF u, r
      <3>2. a[u] <= b[s]
        BY <3>3, <3>4
      <3> QED BY <3>2 DEF u
    <2> QED BY <2>5, <2>6
  <1> HIDE DEF T
  <1>6. B \in T
    BY <1>4, <1>5, Growing
  <1>7. B \cap A = A
    OBVIOUS
  <1>8. a[A] <= b[B]
    BY <1>6, <1>7 DEF T
  <1> QED BY <1>2, <1>3, <1>8

\* measured_weight.
LEMMA MeasuredIs ==
  ASSUME NEW x
  PROVE  /\ TaskFit(x).scores = x
         /\ TaskFit(x).measured
               = SumFunction([c \in {d \in DOMAIN x : Measured(x[d])} |-> x[c].weight])
  BY DEF TaskFit

\* No capability counts against a model.
Weighed == \A c \in DOMAIN w.task.weights : w.task.weights[c] >= 0

\* build_explanation, of the selected candidate.
LEMMA HonestEvidenceOK == DispatchInv /\ Weighed => HonestEvidence
  <1> DEFINE s == decision.ordered[1].subject
             W == w.task.weights
             Rests(c) ==
                \/ \E e \in w.evidence : Describes(e, s) /\ e.capability = c
                \/ /\ s.adapter = None
                   /\ \E i \in DOMAIN w.capabilities[s.facts.model_id] :
                        LET row == w.capabilities[s.facts.model_id][i]
                        IN  /\ row.capability = c /\ row.source = "manual"
                            /\ row.score # None /\ row.confidence >= MinConfidence
             B == {c \in DOMAIN W : Rests(c)}
             fit == decision.ordered[1].fit
             scores == fit.scores
             M == {c \in DOMAIN scores : Measured(scores[c])}
             mv == [c \in M |-> scores[c].weight]
  <1> SUFFICES ASSUME DispatchInv, Weighed, Ranked # {}, "low_evidence" \notin decision.flags
               PROVE  SumFunctionOnSet(W, B) >= w.policy.min_present
    BY Zenon DEF HonestEvidence
  <1>1. world \in DOMAIN Worlds
    BY DEF DispatchInv, AttemptInv
  <1>2. IsStored(w) /\ IsRequest(q)
    BY <1>1, WorldOK
  <1>3. /\ Goes(w, q) /\ decision.ordered[1] \in Ranked
        /\ ~(fit.measured < w.policy.min_present)
    BY RankedIs
  <1>4. \A x \in Ranked : \E i \in Accepted(w, view, q) : x = OutcomeAt(w, view, q, i)
    BY RankedIs
  <1>5. PICK i \in Accepted(w, view, q) :
           decision.ordered[1] = OutcomeAt(w, view, q, i)
    BY <1>3, <1>4
  <1>6. /\ i \in DOMAIN ReadCandidates(w) /\ s = Built(w, q, i)
        /\ fit = ScoreOf(w, q, Built(w, q, i))
    BY <1>2, <1>3, <1>5, AcceptedIs
  <1>7. /\ DOMAIN scores = DOMAIN W
        /\ \A c \in DOMAIN scores :
              /\ scores[c].capability = c /\ scores[c].weight = W[c]
              /\ scores[c].source \in EvidenceSources => RestsOn(w, s, scores[c])
    <2>1. Merged(w, q) # None
      BY <1>3 DEF Goes
    <2> QED BY <1>2, <1>6, <2>1, ScoresOK
  <1>8. fit.measured = SumFunction(mv)
    <2> DEFINE z == Built(w, q, i)
    <2>1. \E x : fit = TaskFit(x)
      BY <1>6, Zenon DEF ScoreOf, ScoreSubject
    <2>2. PICK x : fit = TaskFit(x)
      BY <2>1
    <2>3. x = scores
      BY <2>2, MeasuredIs
    <2>4. fit.measured
             = SumFunction([c \in {d \in DOMAIN x : Measured(x[d])} |-> x[c].weight])
      BY <2>2, MeasuredIs
    <2> HIDE DEF fit, scores
    <2> QED BY <2>3, <2>4
  <1>9. M \subseteq B
    <2> SUFFICES ASSUME NEW c \in M PROVE c \in DOMAIN W /\ Rests(c)
      OBVIOUS
    <2> DEFINE f == scores[c]
    <2>1. c \in DOMAIN W /\ f.capability = c /\ RestsOn(w, s, f)
      BY <1>7 DEF Measured
    <2> HIDE DEF f, s, W, scores
    <2>2. CASE \E e \in w.evidence : Describing(w, e, s) /\ e.capability = f.capability
      <3>1. \A e \in w.evidence : Describing(w, e, s) => Describes(e, s)
        BY Zenon DEF Describing, Describes, Concerns
      <3> QED BY <2>1, <2>2, <3>1
    <2>3. CASE s.adapter = None /\ ByHand(w, s.facts.model_id, f.capability)
      BY <2>1, <2>3 DEF ByHand, ToSet
    <2> QED BY <2>1, <2>2, <2>3 DEF RestsOn
  <1>10. /\ IsFiniteSet(DOMAIN W) /\ \A c \in DOMAIN W : W[c] \in Int
         /\ w.policy.min_present \in Nat
    <2> DEFINE t == w.task
    <2>1. IsTaskProfile(t)
      BY <1>2 DEF IsStored
    <2> HIDE DEF t
    <2>2. IsFiniteSet(DOMAIN t.weights) /\ \A c \in DOMAIN t.weights : t.weights[c] \in Int
      BY <2>1, Zenon DEF IsTaskProfile
    <2>3. w.policy.min_present \in Nat
      BY <1>2 DEF IsStored, IsPolicy
    <2> QED BY <2>2, <2>3 DEF t
  <1>11. IsFiniteSet(B) /\ \A c \in B : W[c] \in Nat
    <2>1. B \subseteq DOMAIN W
      OBVIOUS
    <2>2. \A c \in DOMAIN W : W[c] \in Nat
      BY <1>10 DEF Weighed
    <2> HIDE DEF B, W
    <2> QED BY <1>10, <2>1, <2>2, FS_Subset
  <1>12. DOMAIN mv = M /\ \A c \in M : mv[c] = W[c]
    BY <1>7
  <1> HIDE DEF M, B, mv, W, fit
  <1>13. SumFunction(mv) = SumFunctionOnSet(mv, M)
    BY <1>12 DEF SumFunction
  <1>14. /\ SumFunctionOnSet(mv, M) \in Int /\ SumFunctionOnSet(W, B) \in Int
         /\ SumFunctionOnSet(mv, M) <= SumFunctionOnSet(W, B)
    BY <1>9, <1>11, <1>12, SumGrows
  <1> QED BY <1>3, <1>8, <1>10, <1>13, <1>14
-----------------------------------------------------------------------------
(* Two stores that hold different measurements and the same otherwise.     *)

\* Two stores that differ in their evidence only.
AllButEvidence(wd, we) ==
    /\ we.models = wd.models /\ we.adapters = wd.adapters /\ we.providers = wd.providers
    /\ we.provider = wd.provider /\ we.capabilities = wd.capabilities
    /\ we.reliability = wd.reliability /\ we.task = wd.task /\ we.policy = wd.policy

\* One pool has the subjects of the other, place by place.
Paired(wd, we, p, p1) ==
    /\ p \in Seq(Pool(wd)) /\ p1 \in Seq(Pool(we)) /\ Len(p1) = Len(p)
    /\ \A i \in 1 .. Len(p) :
          \E m \in ToSet(wd.models), a \in ToSet(wd.adapters) \cup {None} :
              p[i] = Candidate(wd, m, a) /\ p1[i] = Candidate(we, m, a)

\* One more subject.
LEMMA PairedAppend ==
  ASSUME NEW wd, NEW we, AllButEvidence(wd, we), NEW p, NEW p1, Paired(wd, we, p, p1),
         NEW m \in ToSet(wd.models), NEW a \in ToSet(wd.adapters) \cup {None}
  PROVE  Paired(wd, we, Append(p, Candidate(wd, m, a)), Append(p1, Candidate(we, m, a)))
  <1> DEFINE c == Candidate(wd, m, a)
             c1 == Candidate(we, m, a)
             X == Pool(wd)
             X1 == Pool(we)
             Both(x, y) == \E k \in ToSet(wd.models), b \in ToSet(wd.adapters) \cup {None} :
                               x = Candidate(wd, k, b) /\ y = Candidate(we, k, b)
  <1>1. c \in X /\ c1 \in X1 /\ Both(c, c1)
    <2>1. c \in X
      BY DEF Pool
    <2>2. ToSet(we.models) = ToSet(wd.models) /\ ToSet(we.adapters) = ToSet(wd.adapters)
      BY DEF AllButEvidence
    <2>3. c1 \in X1
      BY <2>2 DEF Pool
    <2> HIDE DEF X, X1
    <2> QED BY <2>1, <2>3
  <1>2. /\ p \in Seq(X) /\ p1 \in Seq(X1) /\ Len(p1) = Len(p)
        /\ \A i \in 1 .. Len(p) : Both(p[i], p1[i])
    BY DEF Paired
  <1> HIDE DEF X, X1, c, c1, Both
  <1>3. /\ Append(p, c) \in Seq(X) /\ Append(p1, c1) \in Seq(X1)
        /\ Len(Append(p, c)) = Len(p) + 1 /\ Len(Append(p1, c1)) = Len(Append(p, c))
        /\ Len(p) \in Nat
    BY <1>1, <1>2
  <1>4. ASSUME NEW i \in 1 .. Len(p) + 1 PROVE Both(Append(p, c)[i], Append(p1, c1)[i])
    <2>1. CASE i = Len(p) + 1
      BY <1>1, <1>2, <1>3, <2>1
    <2>2. CASE i # Len(p) + 1
      <3>1. i \in 1 .. Len(p)
        BY <1>3, <2>2
      <3>2. Append(p, c)[i] = p[i] /\ Append(p1, c1)[i] = p1[i]
        BY <1>1, <1>2, <3>1
      <3> QED BY <1>2, <3>1, <3>2
    <2> QED BY <2>1, <2>2
  <1> QED BY <1>3, <1>4 DEF Paired, X, X1, c, c1, Both

\* The subjects of one more model.
LEMMA PairedJoin ==
  ASSUME NEW wd, NEW we, NEW p, NEW p1, Paired(wd, we, p, p1),
         NEW t, NEW t1, Paired(wd, we, t, t1)
  PROVE  Paired(wd, we, p \o t, p1 \o t1)
  <1> DEFINE X == Pool(wd)
             X1 == Pool(we)
             Both(x, y) == \E k \in ToSet(wd.models), b \in ToSet(wd.adapters) \cup {None} :
                               x = Candidate(wd, k, b) /\ y = Candidate(we, k, b)
  <1>1. /\ p \in Seq(X) /\ p1 \in Seq(X1) /\ Len(p1) = Len(p)
        /\ \A i \in 1 .. Len(p) : Both(p[i], p1[i])
    BY DEF Paired
  <1>2. /\ t \in Seq(X) /\ t1 \in Seq(X1) /\ Len(t1) = Len(t)
        /\ \A i \in 1 .. Len(t) : Both(t[i], t1[i])
    BY DEF Paired
  <1> HIDE DEF X, X1, Both
  <1>3. /\ p \o t \in Seq(X) /\ p1 \o t1 \in Seq(X1)
        /\ Len(p \o t) = Len(p) + Len(t) /\ Len(p1 \o t1) = Len(p \o t)
        /\ Len(p) \in Nat /\ Len(t) \in Nat
    <2>1. p \o t \in Seq(X) /\ Len(p \o t) = Len(p) + Len(t)
      BY <1>1, <1>2, ConcatProperties, Zenon
    <2>2. p1 \o t1 \in Seq(X1) /\ Len(p1 \o t1) = Len(p1) + Len(t1)
      BY <1>1, <1>2, ConcatProperties, Zenon
    <2>3. Len(p) \in Nat /\ Len(t) \in Nat
      BY <1>1, <1>2, LenProperties, Zenon
    <2> QED BY <1>1, <1>2, <2>1, <2>2, <2>3
  <1>4. ASSUME NEW i \in 1 .. Len(p) + Len(t) PROVE Both((p \o t)[i], (p1 \o t1)[i])
    <2>1. CASE i <= Len(p)
      <3>1. i \in 1 .. Len(p)
        BY <1>3, <2>1
      <3>2. (p \o t)[i] = p[i] /\ (p1 \o t1)[i] = p1[i]
        BY <1>1, <1>2, <3>1
      <3> QED BY <1>1, <3>1, <3>2
    <2>2. CASE i > Len(p)
      <3>1. i - Len(p) \in 1 .. Len(t)
        BY <1>3, <2>2
      <3>2. (p \o t)[i] = t[i - Len(p)] /\ (p1 \o t1)[i] = t1[i - Len(p)]
        BY <1>1, <1>2, <1>3, <2>2
      <3> QED BY <1>2, <3>1, <3>2
    <2> QED BY <1>3, <2>1, <2>2
  <1> QED BY <1>3, <1>4 DEF Paired, X, X1, Both

\* _read_candidates, for one model: its subjects are the same.
LEMMA CandidatesPaired ==
  ASSUME NEW wd, IsStored(wd), NEW we, AllButEvidence(wd, we), NEW m \in ToSet(wd.models)
  PROVE  Paired(wd, we, CandidatesOf(wd, m), CandidatesOf(we, m))
  <1> DEFINE n == Len(wd.adapters)
             g == AdapterLoop(wd, m)
             h == AdapterLoop(we, m)
             T == {s \in SUBSET (1 .. n) : Paired(wd, we, g[s], h[s])}
             C(i) == Candidate(wd, m, wd.adapters[i])
             D(i) == Candidate(we, m, wd.adapters[i])
             On(i) == RunsOn(wd, m, wd.adapters[i])
  <1>1. /\ wd.adapters \in Seq(ToSet(wd.adapters)) /\ we.adapters = wd.adapters
        /\ we.models = wd.models
    BY DEF IsStored, AllButEvidence
  <1>2. n \in Nat /\ DOMAIN wd.adapters = 1 .. n
    BY <1>1
  <1>3. /\ CandidatesOf(wd, m) = g[1 .. n] /\ g[{}] = <<Candidate(wd, m, None)>>
        /\ \A s \in SUBSET (1 .. n) : s # {} =>
              g[s] = IF On(Max(s)) THEN Append(g[s \ {Max(s)}], C(Max(s)))
                     ELSE g[s \ {Max(s)}]
    BY <1>1, AdapterLoopIs
  <1>4. \A i : RunsOn(we, m, i) <=> RunsOn(wd, m, i)
    BY DEF RunsOn, ProviderOf, AllButEvidence
  <1>5. /\ CandidatesOf(we, m) = h[1 .. n] /\ h[{}] = <<Candidate(we, m, None)>>
        /\ \A s \in SUBSET (1 .. n) : s # {} =>
              h[s] = IF On(Max(s)) THEN Append(h[s \ {Max(s)}], D(Max(s)))
                     ELSE h[s \ {Max(s)}]
    <2>1. we.adapters \in Seq(ToSet(we.adapters)) /\ m \in ToSet(we.models)
      BY <1>1
    <2>2. /\ CandidatesOf(we, m) = h[1 .. Len(we.adapters)]
          /\ h[{}] = <<Candidate(we, m, None)>>
          /\ \A s \in SUBSET (1 .. Len(we.adapters)) : s # {} =>
                h[s] = IF RunsOn(we, m, we.adapters[Max(s)])
                       THEN Append(h[s \ {Max(s)}], Candidate(we, m, we.adapters[Max(s)]))
                       ELSE h[s \ {Max(s)}]
      BY <2>1, AdapterLoopIs
    <2> HIDE DEF h
    <2> QED BY <1>1, <1>4, <2>2
  <1> HIDE DEF g, h
  <1>6. {} \in T
    <2> DEFINE e == <<>>
    <2>1. Paired(wd, we, e, e)
      BY DEF Paired
    <2>2. Append(e, Candidate(wd, m, None)) = g[{}] /\ Append(e, Candidate(we, m, None)) = h[{}]
      BY <1>3, <1>5
    <2> HIDE DEF e
    <2>3. Paired(wd, we, g[{}], h[{}])
      BY <2>1, <2>2, PairedAppend
    <2> QED BY <2>3
  <1>7. ASSUME NEW s \in SUBSET (1 .. n), s # {}, s \ {Max(s)} \in T PROVE s \in T
    <2>1. Max(s) \in 1 .. n
      BY <1>2, <1>7, LastPlace
    <2>2. wd.adapters[Max(s)] \in ToSet(wd.adapters) \cup {None}
      BY <1>2, <2>1 DEF ToSet
    <2> DEFINE a == g[s \ {Max(s)}]
               b == h[s \ {Max(s)}]
    <2>3. Paired(wd, we, a, b)
      BY <1>7
    <2>4. Paired(wd, we, Append(a, C(Max(s))), Append(b, D(Max(s))))
      <3> HIDE DEF a, b
      <3> QED BY <2>2, <2>3, PairedAppend
    <2> HIDE DEF C, D, On
    <2> QED BY <1>3, <1>5, <1>7, <2>3, <2>4
  <1> HIDE DEF T
  <1>8. 1 .. n \in T
    BY <1>2, <1>6, <1>7, Parts
  <1> QED BY <1>3, <1>5, <1>8 DEF T

\* _read_candidates: the subjects of the pool do not depend on measurements.
LEMMA PoolsPaired ==
  ASSUME NEW wd, IsStored(wd), NEW we, AllButEvidence(wd, we)
  PROVE  Paired(wd, we, ReadCandidates(wd), ReadCandidates(we))
  <1> DEFINE n == Len(wd.models)
             g == ModelLoop(wd)
             h == ModelLoop(we)
             T == {s \in SUBSET (1 .. n) : Paired(wd, we, g[s], h[s])}
  <1>1. /\ wd.adapters \in Seq(ToSet(wd.adapters)) /\ we.adapters = wd.adapters
        /\ wd.models \in Seq(ToSet(wd.models)) /\ we.models = wd.models
    BY DEF IsStored, AllButEvidence
  <1>2. n \in Nat /\ DOMAIN wd.models = 1 .. n
    BY <1>1
  <1>3. /\ ReadCandidates(wd) = g[1 .. n] /\ g[{}] = <<>>
        /\ \A s \in SUBSET (1 .. n) : s # {} =>
              g[s] = g[s \ {Max(s)}] \o CandidatesOf(wd, wd.models[Max(s)])
    BY <1>1, ModelLoopIs
  <1>4. /\ ReadCandidates(we) = h[1 .. n] /\ h[{}] = <<>>
        /\ \A s \in SUBSET (1 .. n) : s # {} =>
              h[s] = h[s \ {Max(s)}] \o CandidatesOf(we, wd.models[Max(s)])
    <2>1. we.adapters \in Seq(ToSet(we.adapters)) /\ we.models \in Seq(ToSet(we.models))
      BY <1>1
    <2>2. /\ ReadCandidates(we) = h[1 .. Len(we.models)] /\ h[{}] = <<>>
          /\ \A s \in SUBSET (1 .. Len(we.models)) : s # {} =>
                h[s] = h[s \ {Max(s)}] \o CandidatesOf(we, we.models[Max(s)])
      BY <2>1, ModelLoopIs
    <2> HIDE DEF h
    <2> QED BY <1>1, <2>2
  <1> HIDE DEF g, h
  <1>5. {} \in T
    <2>1. Paired(wd, we, <<>>, <<>>)
      BY DEF Paired
    <2> QED BY <1>3, <1>4, <2>1
  <1>6. ASSUME NEW s \in SUBSET (1 .. n), s # {}, s \ {Max(s)} \in T PROVE s \in T
    <2>1. Max(s) \in 1 .. n
      BY <1>2, <1>6, LastPlace
    <2> DEFINE m == wd.models[Max(s)]
               a == g[s \ {Max(s)}]
               b == h[s \ {Max(s)}]
               c == CandidatesOf(wd, m)
               d == CandidatesOf(we, m)
    <2>2. m \in ToSet(wd.models)
      BY <1>2, <2>1 DEF ToSet
    <2>3. Paired(wd, we, a, b)
      BY <1>6
    <2>4. Paired(wd, we, c, d)
      <3> HIDE DEF m
      <3> QED BY <2>2, CandidatesPaired
    <2>5. g[s] = a \o c /\ h[s] = b \o d
      BY <1>3, <1>4, <1>6
    <2> HIDE DEF a, b, c, d
    <2>6. Paired(wd, we, g[s], h[s])
      BY <2>3, <2>4, <2>5, PairedJoin
    <2> QED BY <2>6
  <1> HIDE DEF T
  <1>7. 1 .. n \in T
    BY <1>2, <1>5, <1>6, Parts
  <1> QED BY <1>3, <1>4, <1>7 DEF T
-----------------------------------------------------------------------------
(* Measurements that do not concern an execution.                          *)

\* The stored measurements that bound_signals_for_routing reads of a subject.
RowsOf(wd, model, key) ==
    {r \in wd.evidence : /\ r.match_state = "bound" /\ r.model = model
                         /\ r.adapter = key /\ WeightsAdmit(r.capability, wd.task.weights)}

\* A measurement of this subject, under this profile, that counts here.
Counts(e, model, key, profile, here) ==
    /\ e.match_state = "bound" /\ e.model = model /\ e.adapter = key /\ e.profile = profile
    /\ MachineAdmits(e.machine, here, e.capability)

\* One store has every measurement of the other that counts for this subject.
Keeps(wd, we, model, key, profile) ==
    /\ we.evidence \subseteq wd.evidence
    /\ \A e \in wd.evidence : Counts(e, model, key, profile, wd.policy.machine)
                                  => e \in we.evidence

\* _selection_key: of two different records one is preferred.
LEMMA KeysDiffer ==
  ASSUME NEW e, IsRecord(e), NEW f, IsRecord(f), NEW here,
         ~KeyLess(SelectionKey(e, here), SelectionKey(f, here)),
         ~KeyLess(SelectionKey(f, here), SelectionKey(e, here))
  PROVE  e.id = f.id
  <1> DEFINE a == SelectionKey(e, here)
             b == SelectionKey(f, here)
  <1>1. /\ DOMAIN a = 1 .. 4 /\ DOMAIN b = 1 .. 4
        /\ \A i \in 1 .. 4 : a[i] \in Nat /\ b[i] \in Nat
        /\ a[4] = e.id /\ b[4] = f.id
    BY DEF SelectionKey, IsRecord
  <1> HIDE DEF a, b
  <1>2. ASSUME NEW i \in 1 .. 4, \A k \in 1 .. i - 1 : a[k] = b[k] PROVE a[i] = b[i]
    <2>1. ~(a[i] < b[i])
      BY <1>1, <1>2 DEF KeyLess, a, b
    <2>2. ~(b[i] < a[i])
      BY <1>1, <1>2 DEF KeyLess, a, b
    <2> QED BY <1>1, <2>1, <2>2
  <1>3. a[1] = b[1]
    BY <1>2
  <1>4. a[2] = b[2]
    BY <1>2, <1>3
  <1>5. a[3] = b[3]
    BY <1>2, <1>3, <1>4
  <1>6. a[4] = b[4]
    BY <1>2, <1>3, <1>4, <1>5
  <1> QED BY <1>1, <1>6

\* collapse_evidence: one record for a capability and a profile.
LEMMA OneKept ==
  ASSUME NEW wd, IsStored(wd), NEW recs \in SUBSET wd.evidence, NEW here,
         NEW e \in Collapse(recs, here), NEW f \in Collapse(recs, here),
         e.capability = f.capability, e.profile = f.profile
  PROVE  e = f
  <1>1. e \in wd.evidence /\ f \in wd.evidence /\ e \in recs /\ f \in recs
    BY DEF Collapse
  <1>2. IsRecord(e) /\ IsRecord(f) /\ (e.id = f.id => e = f)
    BY <1>1 DEF IsStored
  <1>3. /\ ~KeyLess(SelectionKey(e, here), SelectionKey(f, here))
        /\ ~KeyLess(SelectionKey(f, here), SelectionKey(e, here))
    BY <1>1 DEF Collapse
  <1> QED BY <1>2, <1>3, KeysDiffer

\* _selection_key: speed measured here is preferred to speed measured elsewhere.
LEMMA HereFirst ==
  ASSUME NEW e, NEW o, NEW here, MachineAdmits(e.machine, here, e.capability),
         ~MachineAdmits(o.machine, here, o.capability), o.capability = e.capability
  PROVE  ~KeyLess(SelectionKey(e, here), SelectionKey(o, here))
  <1> DEFINE a == SelectionKey(e, here)
             b == SelectionKey(o, here)
  <1>1. e.machine = here /\ o.machine # here /\ here # None
    BY DEF MachineAdmits
  <1>2. DOMAIN a = 1 .. 4 /\ a[1] = 1 /\ b[1] = 0
    BY <1>1 DEF SelectionKey
  <1> HIDE DEF a, b
  <1>3. ASSUME NEW i \in DOMAIN a, a[i] < b[i], \A k \in 1 .. i - 1 : a[k] = b[k] PROVE FALSE
    <2>1. i = 1 \/ 1 \in 1 .. i - 1
      BY <1>2
    <2> QED BY <1>2, <1>3, <2>1
  <1> QED BY <1>3 DEF KeyLess, a, b

\* collapse_evidence: a measurement that does not count displaces none that does.
LEMMA KeptAlike ==
  ASSUME NEW wd, IsStored(wd), NEW we, AllButEvidence(wd, we), NEW model, NEW key, NEW profile,
         Keeps(wd, we, model, key, profile), NEW e,
         Counts(e, model, key, profile, wd.policy.machine)
  PROVE  LET here == wd.policy.machine
         IN  e \in Collapse(RowsOf(wd, model, key), here)
                <=> e \in Collapse(RowsOf(we, model, key), here)
  <1> DEFINE here == wd.policy.machine
             R == RowsOf(wd, model, key)
             S == RowsOf(we, model, key)
  <1>1. S \subseteq R /\ R \subseteq wd.evidence
    BY DEF RowsOf, Keeps, AllButEvidence
  <1>2. \A o \in R : Counts(o, model, key, profile, here) => o \in S
    BY DEF RowsOf, Keeps, AllButEvidence
  <1>3. \A o \in R : (o.profile = profile /\ ~Counts(o, model, key, profile, here))
              => ~MachineAdmits(o.machine, here, o.capability)
    BY DEF RowsOf, Counts
  <1>4. e.profile = profile /\ MachineAdmits(e.machine, here, e.capability)
    BY DEF Counts
  <1> HIDE DEF R, S, here
  <1>5. ASSUME e \in Collapse(R, here) PROVE e \in Collapse(S, here)
    <2>1. e \in R /\ e \in S
      BY <1>2, <1>5 DEF Collapse, here
    <2> QED BY <1>1, <1>5, <2>1 DEF Collapse
  <1>6. ASSUME e \in Collapse(S, here) PROVE e \in Collapse(R, here)
    <2>1. e \in S /\ e \in R
      BY <1>1, <1>6 DEF Collapse
    <2>2. ASSUME NEW o \in R, o.capability = e.capability, o.profile = e.profile
          PROVE  ~KeyLess(SelectionKey(e, here), SelectionKey(o, here))
      <3>1. CASE o \in S
        BY <1>6, <2>2, <3>1 DEF Collapse
      <3>2. CASE o \notin S
        BY <1>2, <1>3, <1>4, <2>2, <3>2, HereFirst
      <3> QED BY <3>1, <3>2
    <2> QED BY <2>1, <2>2 DEF Collapse
  <1> QED BY <1>5, <1>6 DEF R, S, here

\* The signal of a measurement.
Told(e) ==
    [capability |-> e.capability, source |-> "benchmark", score |-> e.score,
     confidence |-> e.confidence, profile |-> e.profile, machine |-> e.machine,
     sample_count |-> e.sample_count, match_state |-> "bound", stale |-> e.stale]

\* bound_signals_for_routing: the signals are those of the records that are kept.
LEMMA BoundSignalsAre ==
  ASSUME NEW wd, IsStored(wd), NEW model, NEW key
  PROVE  LET b == BoundSignals(wd, model, key)
         IN  /\ b \in Seq(ToSet(b))
             /\ \A x : x \in ToSet(b)
                         <=> \E e \in Collapse(RowsOf(wd, model, key), wd.policy.machine) :
                                 x = Told(e)
  <1> DEFINE kept == Collapse(RowsOf(wd, model, key), wd.policy.machine)
             chosen == SetToSeq(kept)
             b == BoundSignals(wd, model, key)
  <1>1. kept \subseteq wd.evidence
    BY DEF Collapse, RowsOf
  <1>2. IsFiniteSet(kept)
    BY <1>1, FS_Subset DEF IsStored
  <1>3. b = [i \in DOMAIN chosen |-> Told(chosen[i])]
    BY DEF BoundSignals, RowsOf, Told
  <1> HIDE DEF kept
  <1>4. chosen \in Seq(kept) /\ ToSet(chosen) = kept
    BY <1>2, Enumerates
  <1>5. b \in Seq(ToSet(b))
    BY BoundSignalsOK
  <1> HIDE DEF chosen, b
  <1>6. \A x : x \in ToSet(b) <=> \E i \in DOMAIN chosen : x = Told(chosen[i])
    BY <1>3 DEF ToSet
  <1>7. \A e : e \in kept <=> \E i \in DOMAIN chosen : e = chosen[i]
    BY <1>4 DEF ToSet
  <1>8. \A x : x \in ToSet(b) <=> \E e \in kept : x = Told(e)
    BY <1>6, <1>7
  <1> QED BY <1>5, <1>8 DEF b, kept

\* A measurement that may be used.
InUse(x, c, profile, here) ==
    x.capability = c /\ x.source = "benchmark" /\ Usable(x, profile, here)

\* bound_signals_for_routing, resolve_capability: the measurements that may be used
\* for a capability are those that count, and there is at most one.
LEMMA UsedAlike ==
  ASSUME NEW wd, IsStored(wd), NEW we, IsStored(we), AllButEvidence(wd, we),
         NEW model, NEW key, NEW profile, Keeps(wd, we, model, key, profile), NEW c
  PROVE  LET here == wd.policy.machine
             b == ToSet(BoundSignals(wd, model, key))
             b1 == ToSet(BoundSignals(we, model, key))
         IN  /\ \A x : (x \in b /\ InUse(x, c, profile, here))
                          <=> (x \in b1 /\ InUse(x, c, profile, here))
             /\ \A x, y \in b : (InUse(x, c, profile, here) /\ InUse(y, c, profile, here))
                          => x = y
  <1> DEFINE here == wd.policy.machine
             b == ToSet(BoundSignals(wd, model, key))
             b1 == ToSet(BoundSignals(we, model, key))
             R == RowsOf(wd, model, key)
             S == RowsOf(we, model, key)
             D == Collapse(R, here)
             D1 == Collapse(S, here)
  <1>1. /\ \A x : x \in b <=> \E e \in D : x = Told(e)
        /\ \A x : x \in b1 <=> \E e \in D1 : x = Told(e)
    <2>1. we.policy.machine = here
      BY DEF AllButEvidence
    <2> QED BY <2>1, BoundSignalsAre
  <1>2. D \subseteq R /\ D1 \subseteq S /\ S \subseteq R /\ R \subseteq wd.evidence
    BY DEF Collapse, RowsOf, Keeps, AllButEvidence
  <1>3. ASSUME NEW e \in R, InUse(Told(e), c, profile, here)
        PROVE  Counts(e, model, key, profile, here) /\ e.capability = c
    <2>1. e.machine # None /\ e.match_state = "bound" /\ e.model = model /\ e.adapter = key
      BY <1>2, <1>3 DEF IsStored, IsRecord, RowsOf
    <2>2. e.capability = c /\ Exclusion(Told(e), profile, here) = None
      BY <1>3 DEF InUse, Usable, Told
    <2>3. e.profile = profile /\ MachineAdmits(e.machine, here, e.capability)
      BY <2>1, <2>2, ExclusionAssumption DEF Exclusion, Told, Exclusions
    <2> QED BY <2>1, <2>2, <2>3 DEF Counts
  <1>4. \A e : Counts(e, model, key, profile, here) => (e \in D <=> e \in D1)
    BY KeptAlike
  <1>5. \A e, f \in D : (e.capability = f.capability /\ e.profile = f.profile) => e = f
    <2> HIDE DEF here, R
    <2> QED BY <1>2, OneKept
  <1> HIDE DEF b, b1, R, S, D, D1, here
  <1>6. ASSUME NEW x PROVE (x \in b /\ InUse(x, c, profile, here))
                              <=> (x \in b1 /\ InUse(x, c, profile, here))
    BY <1>1, <1>2, <1>3, <1>4
  <1>7. ASSUME NEW x \in b, NEW y \in b, InUse(x, c, profile, here), InUse(y, c, profile, here)
        PROVE  x = y
    <2>1. PICK e \in D : x = Told(e)
      BY <1>1
    <2>2. PICK f \in D : y = Told(f)
      BY <1>1
    <2>3. e.capability = c /\ f.capability = c /\ e.profile = profile /\ f.profile = profile
      BY <1>2, <1>3, <1>7, <2>1, <2>2 DEF Counts
    <2> QED BY <1>5, <2>1, <2>2, <2>3
  <1> QED BY <1>6, <1>7 DEF b, b1, here

\* The signals of a capability from one source that may be used, by place.
UsableAt(signals, c, source, profile, mach) ==
    {i \in SignalsOf(signals, c) : signals[i].source = source /\ Usable(signals[i], profile, mach)}

\* The first exclusion of a capability, or None.
Without(signals, c, profile, mach) ==
    LET excluded == {i \in SignalsOf(signals, c) :
                        /\ signals[i].confidence >= MinConfidence
                        /\ Exclusion(signals[i], profile, mach) # None}
    IN  IF excluded = {} THEN None ELSE Exclusion(signals[Min(excluded)], profile, mach)

\* It is an exclusion.
LEMMA WithoutIs ==
  ASSUME NEW signals, NEW c, NEW profile, NEW mach
  PROVE  Without(signals, c, profile, mach) \in Exclusions \cup {None}
  <1>1. \A x : Exclusion(x, profile, mach) \in Exclusions \cup {None}
    BY DEF Exclusion, Exclusions
  <1> QED BY <1>1, Zenon DEF Without

\* Two scores that say the same, but for the name of what is not evidence.
SameScore(r, r1) ==
    /\ r1.capability = r.capability /\ r1.weight = r.weight /\ r1.score = r.score
    /\ r1.confidence = r.confidence /\ r1.stale = r.stale
    /\ r1.source = r.source \/ {r.source, r1.source} \cap EvidenceSources = {}

\* Two sequences of measurements that agree on what may be used for a capability.
Swappable(own, b, b1, c, profile, mach) ==
    /\ own \in Seq(ToSet(own)) /\ b \in Seq(ToSet(b)) /\ b1 \in Seq(ToSet(b1))
    /\ \A x \in ToSet(own) : x.source # "benchmark"
    /\ \A x \in ToSet(b) \cup ToSet(b1) : x.source = "benchmark"
    /\ \A x : (x \in ToSet(b) /\ InUse(x, c, profile, mach))
                  <=> (x \in ToSet(b1) /\ InUse(x, c, profile, mach))
    /\ \A x, y \in ToSet(b) : (InUse(x, c, profile, mach) /\ InUse(y, c, profile, mach)) => x = y

\* The first signal of a source is the same, or there is none in either.
FirstSame(own, b, b1, c, source, profile, mach) ==
    LET s == own \o b
        t == own \o b1
        A == UsableAt(s, c, source, profile, mach)
        B == UsableAt(t, c, source, profile, mach)
    IN  (A = {} <=> B = {}) /\ (A # {} => s[Min(A)] = t[Min(B)] /\ s[Min(A)].source = source)

\* The first usable signals, of a subject that has other measurements as well.
LEMMA FirstAlike ==
  ASSUME NEW own, NEW b, NEW b1,
         NEW c, NEW source, NEW profile, NEW mach,
         Swappable(own, b, b1, c, profile, mach)
  PROVE  FirstSame(own, b, b1, c, source, profile, mach)
  <1> DEFINE s == own \o b
             t == own \o b1
             A == UsableAt(s, c, source, profile, mach)
             B == UsableAt(t, c, source, profile, mach)
             n == Len(own)
             X == ToSet(own) \cup ToSet(b) \cup ToSet(b1)
  <1>a. own \in Seq(X) /\ b \in Seq(X) /\ b1 \in Seq(X)
    BY DEF Swappable
  <1>0. /\ \A x \in ToSet(own) : x.source # "benchmark"
        /\ \A x \in ToSet(b) \cup ToSet(b1) : x.source = "benchmark"
        /\ \A x : (x \in ToSet(b) /\ InUse(x, c, profile, mach))
                      <=> (x \in ToSet(b1) /\ InUse(x, c, profile, mach))
        /\ \A x, y \in ToSet(b) :
              (InUse(x, c, profile, mach) /\ InUse(y, c, profile, mach)) => x = y
    BY DEF Swappable
  <1> HIDE DEF X
  <1>1. /\ n \in Nat /\ Len(b) \in Nat /\ Len(b1) \in Nat
        /\ DOMAIN s = 1 .. n + Len(b) /\ DOMAIN t = 1 .. n + Len(b1)
        /\ \A i \in 1 .. n : s[i] = own[i] /\ t[i] = own[i] /\ own[i] \in ToSet(own)
    BY <1>a DEF ToSet
  <1>2. /\ \A i \in 1 .. n + Len(b) : i > n => s[i] = b[i - n] /\ i - n \in 1 .. Len(b)
        /\ \A i \in 1 .. n + Len(b1) : i > n => t[i] = b1[i - n] /\ i - n \in 1 .. Len(b1)
    BY <1>a
  <1>3. /\ \A i \in 1 .. n + Len(b) : i > n => s[i] \in ToSet(b)
        /\ \A i \in 1 .. n + Len(b1) : i > n => t[i] \in ToSet(b1)
    BY <1>a, <1>2 DEF ToSet
  <1>4. /\ \A x \in ToSet(b) : \E i \in 1 .. n + Len(b) : s[i] = x
        /\ \A x \in ToSet(b1) : \E i \in 1 .. n + Len(b1) : t[i] = x
    <2>1. ASSUME NEW x \in ToSet(b) PROVE \E i \in 1 .. n + Len(b) : s[i] = x
      <3>1. PICK k \in 1 .. Len(b) : x = b[k]
        BY <1>a DEF ToSet
      <3>2. n + k \in 1 .. n + Len(b) /\ s[n + k] = b[k]
        BY <1>a, <1>1, <3>1
      <3> QED BY <3>1, <3>2
    <2>2. ASSUME NEW x \in ToSet(b1) PROVE \E i \in 1 .. n + Len(b1) : t[i] = x
      <3>1. PICK k \in 1 .. Len(b1) : x = b1[k]
        BY <1>a DEF ToSet
      <3>2. n + k \in 1 .. n + Len(b1) /\ t[n + k] = b1[k]
        BY <1>a, <1>1, <3>1
      <3> QED BY <3>1, <3>2
    <2> QED BY <2>1, <2>2
  <1>5. /\ \A i : i \in A <=> /\ i \in 1 .. n + Len(b) /\ s[i].capability = c
                              /\ s[i].source = source /\ Usable(s[i], profile, mach)
        /\ \A i : i \in B <=> /\ i \in 1 .. n + Len(b1) /\ t[i].capability = c
                              /\ t[i].source = source /\ Usable(t[i], profile, mach)
    <2> HIDE DEF s, t
    <2> QED BY <1>1 DEF UsableAt, SignalsOf
  <1> HIDE DEF s, t, A, B, n
  <1>6. A # {} => Min(A) \in A
    <2>1. A \subseteq Nat
      BY <1>1, <1>5
    <2> QED BY <2>1, MinOf
  <1>7. B # {} => Min(B) \in B
    <2>1. B \subseteq Nat
      BY <1>1, <1>5
    <2> QED BY <2>1, MinOf
  <1>8. CASE source = "benchmark"
    <2>1. \A i \in A : s[i] \in ToSet(b) /\ InUse(s[i], c, profile, mach)
      BY <1>0, <1>1, <1>3, <1>5, <1>8 DEF InUse
    <2>2. \A i \in B : t[i] \in ToSet(b1) /\ InUse(t[i], c, profile, mach)
      BY <1>0, <1>1, <1>3, <1>5, <1>8 DEF InUse
    <2>3. \A x \in ToSet(b) : InUse(x, c, profile, mach) => \E i \in A : s[i] = x
      BY <1>4, <1>5, <1>8 DEF InUse
    <2>4. \A x \in ToSet(b1) : InUse(x, c, profile, mach) => \E i \in B : t[i] = x
      BY <1>4, <1>5, <1>8 DEF InUse
    <2>5. A = {} <=> B = {}
      BY <1>0, <2>1, <2>2, <2>3, <2>4
    <2>6. A # {} => s[Min(A)] = t[Min(B)] /\ s[Min(A)].source = source
      BY <1>0, <1>5, <1>6, <1>7, <2>1, <2>2, <2>5
    <2> QED BY <2>5, <2>6 DEF s, t, A, B, FirstSame
  <1>9. CASE source # "benchmark"
    <2>1. \A i : i \in A <=> i \in B
      <3>1. \A i \in A : i \in 1 .. n
        BY <1>0, <1>1, <1>3, <1>5, <1>9
      <3>2. \A i \in B : i \in 1 .. n
        BY <1>0, <1>1, <1>3, <1>5, <1>9
      <3>3. \A i \in 1 .. n : i \in 1 .. n + Len(b) /\ i \in 1 .. n + Len(b1)
        BY <1>1
      <3> QED BY <1>1, <1>5, <3>1, <3>2, <3>3
    <2>2. A = B
      BY <2>1
    <2>3. A # {} => Min(A) \in 1 .. n /\ s[Min(A)] = t[Min(A)]
      <3>1. \A i \in A : i \in 1 .. n
        BY <1>0, <1>1, <1>3, <1>5, <1>9
      <3> QED BY <1>1, <1>6, <3>1
    <2>4. A # {} => s[Min(A)].source = source
      BY <1>5, <1>6
    <2> QED BY <2>2, <2>3, <2>4 DEF s, t, A, B, FirstSame
  <1> QED BY <1>8, <1>9

\* resolve_capability, by what may be used.
LEMMA ResolveIs ==
  ASSUME NEW c, NEW weight, NEW signals, NEW profile, NEW band, NEW require, NEW mach
  PROVE  LET At(source) == UsableAt(signals, c, source, profile, mach)
             First(source) ==
                LET s == signals[Min(At(source))]
                IN  Resolved(c, weight, s.score, s.confidence, s.source, s.stale)
             without == Without(signals, c, profile, mach)
         IN  ResolveCapability(c, weight, signals, profile, band, require, mach) =
                IF At("benchmark") # {} THEN First("benchmark")
                ELSE IF At("production") # {} THEN First("production")
                ELSE IF At("manual") # {} /\ ~require THEN First("manual")
                ELSE IF At("declared") # {} /\ ~require
                THEN Resolved(c, weight, DeclaredScore, DeclaredConfidence, "declared", FALSE)
                ELSE IF band # None /\ ~require
                THEN Resolved(c, weight, band, DeclaredConfidence,
                              IF without = None THEN "prior" ELSE without, FALSE)
                ELSE Resolved(c, weight, None, None,
                              IF without = None THEN "absent" ELSE without, FALSE)
  BY Zenon DEF ResolveCapability, UsableAt, Without

\* resolve_capability: measurements that may not be used do not change a score.
LEMMA ResolvedAlike ==
  ASSUME NEW own, NEW b, NEW b1,
         NEW c, NEW weight, NEW profile, NEW band, NEW require, NEW mach,
         Swappable(own, b, b1, c, profile, mach)
  PROVE  SameScore(ResolveCapability(c, weight, own \o b, profile, band, require, mach),
                   ResolveCapability(c, weight, own \o b1, profile, band, require, mach))
  <1> DEFINE s == own \o b
             t == own \o b1
             A(source) == UsableAt(s, c, source, profile, mach)
             B(source) == UsableAt(t, c, source, profile, mach)
             Of(x) == Resolved(c, weight, x.score, x.confidence, x.source, x.stale)
             v == Without(s, c, profile, mach)
             u == Without(t, c, profile, mach)
             Else(y) == IF band # None /\ ~require
                        THEN Resolved(c, weight, band, DeclaredConfidence,
                                      IF y = None THEN "prior" ELSE y, FALSE)
                        ELSE Resolved(c, weight, None, None,
                                      IF y = None THEN "absent" ELSE y, FALSE)
             declared == Resolved(c, weight, DeclaredScore, DeclaredConfidence, "declared", FALSE)
             r == ResolveCapability(c, weight, s, profile, band, require, mach)
             r1 == ResolveCapability(c, weight, t, profile, band, require, mach)
  <1>1. \A source : /\ A(source) = {} <=> B(source) = {}
                    /\ A(source) # {} => s[Min(A(source))] = t[Min(B(source))]
    <2> SUFFICES ASSUME NEW source
                 PROVE  /\ A(source) = {} <=> B(source) = {}
                        /\ A(source) # {} => s[Min(A(source))] = t[Min(B(source))]
      OBVIOUS
    <2>1. FirstSame(own, b, b1, c, source, profile, mach)
      BY FirstAlike
    <2> QED BY <2>1 DEF FirstSame
  <1>2. r = IF A("benchmark") # {} THEN Of(s[Min(A("benchmark"))])
            ELSE IF A("production") # {} THEN Of(s[Min(A("production"))])
            ELSE IF A("manual") # {} /\ ~require THEN Of(s[Min(A("manual"))])
            ELSE IF A("declared") # {} /\ ~require THEN declared
            ELSE Else(v)
    BY ResolveIs
  <1>3. r1 = IF B("benchmark") # {} THEN Of(t[Min(B("benchmark"))])
             ELSE IF B("production") # {} THEN Of(t[Min(B("production"))])
             ELSE IF B("manual") # {} /\ ~require THEN Of(t[Min(B("manual"))])
             ELSE IF B("declared") # {} /\ ~require THEN declared
             ELSE Else(u)
    BY ResolveIs
  <1>4. v \in Exclusions \cup {None} /\ u \in Exclusions \cup {None}
    BY WithoutIs
  <1> HIDE DEF s, t, A, B, Of, v, u, declared, r, r1
  <1>5. \A x : SameScore(x, x)
    BY DEF SameScore
  <1>6. SameScore(Else(v), Else(u))
    <2> DEFINE a == IF v = None THEN "prior" ELSE v
               a1 == IF u = None THEN "prior" ELSE u
               z == IF v = None THEN "absent" ELSE v
               z1 == IF u = None THEN "absent" ELSE u
    <2>1. {a, a1, z, z1} \cap EvidenceSources = {}
      BY <1>4, ExclusionAssumption DEF Exclusions, EvidenceSources
    <2> HIDE DEF a, a1, z, z1
    <2>2. /\ SameScore(Resolved(c, weight, band, DeclaredConfidence, a, FALSE),
                       Resolved(c, weight, band, DeclaredConfidence, a1, FALSE))
          /\ SameScore(Resolved(c, weight, None, None, z, FALSE),
                       Resolved(c, weight, None, None, z1, FALSE))
      BY <2>1 DEF SameScore, Resolved
    <2> QED BY <2>2 DEF a, a1, z, z1
  <1> HIDE DEF Else
  <1>7. SameScore(r, r1)
    BY <1>1, <1>2, <1>3, <1>5, <1>6
  <1> QED BY <1>7 DEF r, r1, s, t

\* Scores that say the same, and what is made of them.
SameFit(f, g) ==
    /\ DOMAIN g.scores = DOMAIN f.scores
    /\ \A c \in DOMAIN f.scores : SameScore(f.scores[c], g.scores[c])
    /\ g.num = f.num /\ g.present = f.present /\ MeanConfidence(g) = MeanConfidence(f)

\* TaskFit: the sums do not look at the name of what is not evidence.
LEMMA FitAlike ==
  ASSUME NEW D, NEW x, NEW y, DOMAIN x = D, DOMAIN y = D,
         \A c \in D : SameScore(x[c], y[c])
  PROVE  SameFit(TaskFit(x), TaskFit(y))
  <1> DEFINE P == {c \in DOMAIN x : Present(x[c])}
             Q == {c \in DOMAIN y : Present(y[c])}
             C == {c \in DOMAIN x : x[c].confidence # None}
             E == {c \in DOMAIN y : y[c].confidence # None}
  <1>1. P = Q /\ C = E
    BY DEF SameScore, Present
  <1>2. /\ [c \in P |-> x[c].weight * x[c].score * x[c].confidence]
              = [c \in Q |-> y[c].weight * y[c].score * y[c].confidence]
        /\ [c \in P |-> x[c].weight] = [c \in Q |-> y[c].weight]
        /\ [c \in C |-> x[c].confidence] = [c \in E |-> y[c].confidence]
    <2>1. \A c \in P : /\ c \in D /\ x[c].weight = y[c].weight /\ x[c].score = y[c].score
                       /\ x[c].confidence = y[c].confidence
      BY DEF SameScore
    <2>2. \A c \in C : x[c].confidence = y[c].confidence
      BY DEF SameScore
    <2> HIDE DEF P, Q, C, E
    <2> QED BY <1>1, <2>1, <2>2
  <1>3. /\ TaskFit(x).scores = x /\ TaskFit(y).scores = y
        /\ TaskFit(x).num = IF SumFunction([c \in P |-> x[c].weight]) <= 0 THEN 0
              ELSE SumFunction([c \in P |-> x[c].weight * x[c].score * x[c].confidence])
        /\ TaskFit(y).num = IF SumFunction([c \in Q |-> y[c].weight]) <= 0 THEN 0
              ELSE SumFunction([c \in Q |-> y[c].weight * y[c].score * y[c].confidence])
        /\ TaskFit(x).present = IF SumFunction([c \in P |-> x[c].weight]) <= 0 THEN 1
              ELSE SumFunction([c \in P |-> x[c].weight])
        /\ TaskFit(y).present = IF SumFunction([c \in Q |-> y[c].weight]) <= 0 THEN 1
              ELSE SumFunction([c \in Q |-> y[c].weight])
    BY DEF TaskFit
  <1>4. MeanConfidence(TaskFit(x)) = <<SumFunction([c \in C |-> x[c].confidence]),
                                       IF C = {} THEN 1 ELSE Cardinality(C)>>
    BY <1>3, Zenon DEF MeanConfidence
  <1>5. MeanConfidence(TaskFit(y)) = <<SumFunction([c \in E |-> y[c].confidence]),
                                       IF E = {} THEN 1 ELSE Cardinality(E)>>
    BY <1>3, Zenon DEF MeanConfidence
  <1> HIDE DEF P, Q, C, E
  <1>6. MeanConfidence(TaskFit(x)) = MeanConfidence(TaskFit(y))
    BY <1>1, <1>2, <1>4, <1>5
  <1>7. TaskFit(x).num = TaskFit(y).num /\ TaskFit(x).present = TaskFit(y).present
    BY <1>2, <1>3
  <1> QED BY <1>3, <1>6, <1>7 DEF SameFit

\* One subject with other measurements of it.
SameSubject(s, s1) ==
    /\ s1.facts = s.facts /\ s1.provider = s.provider /\ s1.adapter = s.adapter
    /\ s1.profile = s.profile /\ s1.served = s.served

\* _signals_for, _adapter_signals: what is known of a subject beside measurements.
Own(wd, m, a) ==
    IF a = None THEN SignalsFor(wd.capabilities[m.model_id]) ELSE AdapterSignals(a)

\* It is no measurement.
LEMMA OwnIs ==
  ASSUME NEW wd, IsStored(wd), NEW m \in ToSet(wd.models),
         NEW a \in ToSet(wd.adapters) \cup {None}
  PROVE  LET own == Own(wd, m, a)
         IN  own \in Seq(ToSet(own)) /\ \A x \in ToSet(own) : x.source # "benchmark"
  <1> DEFINE recs == wd.capabilities[m.model_id]
             own == Own(wd, m, a)
  <1>1. CASE a = None
    <2>1. m.model_id \in DOMAIN wd.capabilities
      BY DEF IsStored, ToSet
    <2>2. recs \in Seq(ToSet(recs)) /\ \A row \in ToSet(recs) : row.source \in StoredSources
      BY <2>1, Zenon DEF IsStored, IsCapabilityRow
    <2> HIDE DEF recs
    <2>3. SignalsFor(recs) \in
             Seq({SignalOf(row) : row \in {r \in ToSet(recs) : r.score # None}})
      BY <2>2, SignalsForOK
    <2>4. own = SignalsFor(recs)
      BY <1>1 DEF Own, recs
    <2> HIDE DEF own
    <2>5. own \in Seq(ToSet(own))
      BY <2>3, <2>4 DEF ToSet
    <2>6. \A x \in ToSet(own) : \E row \in ToSet(recs) : x = SignalOf(row)
      BY <2>3, <2>4 DEF ToSet
    <2>7. \A row \in ToSet(recs) : SignalOf(row).source # "benchmark"
      BY <2>2 DEF SignalOf, StoredSources
    <2> QED BY <2>5, <2>6, <2>7 DEF own
  <1>2. CASE a # None
    <2>1. IsFiniteSet(a.declared)
      BY <1>2 DEF IsStored, IsAdapterFacts, ToSet
    <2> QED BY <1>2, <2>1, AdapterSignalsOK DEF Own
  <1> QED BY <1>1, <1>2

\* The key of a subject in the store.
KeyWith(a) == IF a = None THEN "" ELSE a.id

\* _build_subject, of a candidate.
SubjectWith(wd, rq, m, a) == BuildSubject(wd, rq, Merged(wd, rq), Candidate(wd, m, a))

\* _build_subject: but for the measurements it is one subject.
LEMMA SubjectsAlike ==
  ASSUME NEW wd, NEW we, AllButEvidence(wd, we), NEW rq, NEW m, NEW a
  PROVE  LET s == SubjectWith(wd, rq, m, a)
             s1 == SubjectWith(we, rq, m, a)
         IN  /\ SameSubject(s, s1) /\ s.adapter = a /\ s.facts = FactsFor(wd, m)
             /\ s.signals = Own(wd, m, a) \o BoundSignals(wd, m.model_id, KeyWith(a))
             /\ s1.signals = Own(wd, m, a) \o BoundSignals(we, m.model_id, KeyWith(a))
  <1> DEFINE k == Candidate(wd, m, a)
             k1 == Candidate(we, m, a)
  <1>1. Merged(we, rq) = Merged(wd, rq)
    BY DEF Merged, AllButEvidence
  <1>2. /\ k1.facts = k.facts /\ k1.provider = k.provider /\ k1.adapter = a /\ k.adapter = a
        /\ k.facts = FactsFor(wd, m)
    BY DEF Candidate, FactsFor, ProviderOf, AllButEvidence
  <1>3. /\ k.signals = Own(wd, m, a) \o BoundSignals(wd, m.model_id, KeyWith(a))
        /\ k1.signals = Own(we, m, a) \o BoundSignals(we, m.model_id, KeyWith(a))
    BY DEF Candidate, Own, KeyWith
  <1>4. Own(we, m, a) = Own(wd, m, a)
    BY DEF Own, AllButEvidence
  <1> HIDE DEF k, k1
  <1>5. we.policy = wd.policy
    BY DEF AllButEvidence
  <1> QED BY <1>1, <1>2, <1>3, <1>4, <1>5 DEF SubjectWith, BuildSubject, SameSubject, k, k1

\* score_subject: measurements that do not count leave every score as it is.
LEMMA ScoresAlike ==
  ASSUME NEW wd, IsStored(wd), NEW we, IsStored(we), AllButEvidence(wd, we), NEW rq,
         NEW m \in ToSet(wd.models), NEW a \in ToSet(wd.adapters) \cup {None},
         Keeps(wd, we, m.model_id, KeyWith(a), SubjectWith(wd, rq, m, a).profile)
  PROVE  SameFit(ScoreOf(wd, rq, SubjectWith(wd, rq, m, a)),
                 ScoreOf(we, rq, SubjectWith(we, rq, m, a)))
  <1> DEFINE s == SubjectWith(wd, rq, m, a)
             s1 == SubjectWith(we, rq, m, a)
             W == wd.task.weights
             here == wd.policy.machine
             band == Band(wd, s.facts)
             require == rq.overrides.require_evidence
             own == Own(wd, m, a)
             b == BoundSignals(wd, m.model_id, KeyWith(a))
             b1 == BoundSignals(we, m.model_id, KeyWith(a))
             x == [c \in DOMAIN W |->
                     ResolveCapability(c, W[c], own \o b, s.profile, band, require, here)]
             y == [c \in DOMAIN W |->
                     ResolveCapability(c, W[c], own \o b1, s.profile, band, require, here)]
  <1>1. /\ SameSubject(s, s1) /\ s.signals = own \o b /\ s1.signals = own \o b1
    BY SubjectsAlike
  <1>2. /\ we.task.weights = W /\ we.policy.machine = here /\ we.models = wd.models
    BY DEF AllButEvidence
  <1> HIDE DEF s, s1, own, b, b1
  <1>3. ScoreOf(wd, rq, s) = TaskFit(x)
    BY <1>1 DEF ScoreOf, ScoreSubject
  <1>4. ScoreOf(we, rq, s1) = TaskFit(y)
    <2>1. Band(we, s1.facts) = band /\ s1.profile = s.profile
      BY <1>1, <1>2 DEF SameSubject, Band
    <2> HIDE DEF band
    <2> QED BY <1>1, <1>2, <2>1 DEF ScoreOf, ScoreSubject
  <1>5. own \in Seq(ToSet(own)) /\ \A z \in ToSet(own) : z.source # "benchmark"
    BY OwnIs DEF own
  <1>6. /\ b \in Seq(ToSet(b)) /\ b1 \in Seq(ToSet(b1))
        /\ \A z \in ToSet(b) \cup ToSet(b1) : z.source = "benchmark"
    <2>1. b \in Seq(ToSet(b)) /\ \A z \in ToSet(b) : \E e : z = Told(e)
      BY BoundSignalsAre DEF b
    <2>2. b1 \in Seq(ToSet(b1)) /\ \A z \in ToSet(b1) : \E e : z = Told(e)
      BY BoundSignalsAre DEF b1
    <2>3. \A e : Told(e).source = "benchmark"
      BY DEF Told
    <2> QED BY <2>1, <2>2, <2>3
  <1>7. ASSUME NEW c \in DOMAIN W PROVE SameScore(x[c], y[c])
    <2>1. /\ \A z : (z \in ToSet(b) /\ InUse(z, c, s.profile, here))
                       <=> (z \in ToSet(b1) /\ InUse(z, c, s.profile, here))
          /\ \A z, v \in ToSet(b) :
                (InUse(z, c, s.profile, here) /\ InUse(v, c, s.profile, here)) => z = v
      BY UsedAlike DEF b, b1, s
    <2>2. Swappable(own, b, b1, c, s.profile, here)
      BY <1>5, <1>6, <2>1 DEF Swappable
    <2>3. SameScore(ResolveCapability(c, W[c], own \o b, s.profile, band, require, here),
                    ResolveCapability(c, W[c], own \o b1, s.profile, band, require, here))
      BY <2>2, ResolvedAlike
    <2> QED BY <2>3
  <1>8. DOMAIN x = DOMAIN W /\ DOMAIN y = DOMAIN W
    OBVIOUS
  <1> HIDE DEF x, y, W
  <1>9. SameFit(TaskFit(x), TaskFit(y))
    BY <1>7, <1>8, FitAlike
  <1> QED BY <1>3, <1>4, <1>9 DEF s, s1

\* The inputs of two passes over one subject, with scores that say the same.
SameInput(in, to) ==
    /\ to.min_context = in.min_context /\ to.required_context = in.required_context
    /\ to.requires = in.requires /\ to.thinking = in.thinking
    /\ to.min_scores = in.min_scores /\ to.exclude = in.exclude
    /\ to.allow_remote = in.allow_remote /\ to.gate = in.gate /\ to.top = in.top
    /\ to.snapshot = in.snapshot /\ to.headroom = in.headroom
    /\ to.resident = in.resident /\ to.loaded = in.loaded /\ to.breakers = in.breakers
    /\ DOMAIN to.scores = DOMAIN in.scores
    /\ \A c \in DOMAIN in.scores : SameScore(in.scores[c], to.scores[c])

\* evaluate_constraints: what fails still does.
LEMMA FailsStill ==
  ASSUME NEW s, NEW s1, SameSubject(s, s1), NEW estimate, NEW in, NEW to, SameInput(in, to),
         NEW i \in 1 .. 17, FailsAt(s, estimate, in, i)
  PROVE  FailsAt(s1, estimate, to, i)
  <1> USE DEF SameSubject, SameInput
  <1>1. CASE i \in {1, 2, 3, 5, 8}
    BY <1>1 DEF FailsAt, Checks
  <1>2. CASE i \in {14, 16}
    <2>1. AdapterIncompatible(s) <=> AdapterIncompatible(s1)
      BY DEF AdapterIncompatible
    <2>2. AdapterConflict(s) <=> AdapterConflict(s1)
      BY DEF AdapterConflict
    <2> QED BY <1>2, <2>1, <2>2 DEF FailsAt, Checks
  <1>3. CASE i \in {4, 6, 7, 12, 13, 17}
    BY <1>3, FailsWhen
  <1>4. CASE i = 9
    <2>1. OutOfMemory(s, estimate, in)
      BY <1>4, FailsWhen
    <2>2. OutOfMemory(s1, estimate, to)
      BY <2>1 DEF OutOfMemory, ResidentHere
    <2> QED BY <1>4, <2>2, FailsWhen
  <1>5. CASE i = 10
    BY <1>5, FailsWhen
  <1>6. CASE i = 11
    <2>1. BelowMinimum(in)
      BY <1>6, FailsWhen
    <2>2. BelowMinimum(to)
      BY <2>1 DEF BelowMinimum, SameScore
    <2> QED BY <1>6, <2>2, FailsWhen
  <1>7. CASE i = 15
    <2>1. AdapterUnmeasured(s, in)
      BY <1>7, FailsWhen
    <2>2. AdapterMeasured(s1, to) => AdapterMeasured(s, in)
      <3> SUFFICES ASSUME AdapterMeasured(s1, to) PROVE AdapterMeasured(s, in)
        OBVIOUS
      <3> DEFINE r == in.scores[in.top]
                 r1 == to.scores[in.top]
      <3>1. /\ in.top \in DOMAIN in.scores /\ Present(r1) /\ r1.source \in MeasuredSources
            /\ SameScore(r, r1)
        BY DEF AdapterMeasured
      <3> HIDE DEF r, r1
      <3>2. r1.source \in EvidenceSources
        BY <3>1 DEF MeasuredSources, EvidenceSources
      <3>3. r.source = r1.source /\ Present(r)
        BY <3>1, <3>2 DEF SameScore, Present
      <3> QED BY <3>1, <3>3 DEF AdapterMeasured, r
    <2>3. AdapterUnmeasured(s1, to)
      BY <2>1, <2>2 DEF AdapterUnmeasured
    <2> QED BY <1>7, <2>3, FailsWhen
  <1> QED BY <1>1, <1>2, <1>3, <1>4, <1>5, <1>6, <1>7

\* evaluate_constraints: the verdict is the same.
LEMMA VerdictAlike ==
  ASSUME NEW s, NEW s1, SameSubject(s, s1), NEW estimate, NEW in, NEW to, SameInput(in, to)
  PROVE  EvaluateConstraints(s1, estimate, to) = EvaluateConstraints(s, estimate, in)
  <1> DEFINE F == {i \in 1 .. 17 : FailsAt(s, estimate, in, i)}
             G == {i \in 1 .. 17 : FailsAt(s1, estimate, to, i)}
  <1>1. SameSubject(s1, s) /\ SameInput(to, in)
    BY DEF SameSubject, SameInput, SameScore
  <1>2. F = G
    BY <1>1, FailsStill
  <1>3. \A i \in 1 .. 17 : Reason(s1, estimate, to, i) = Reason(s, estimate, in, i)
    BY DEF Reason, Checks, SameSubject
  <1>4. EvaluateConstraints(s, estimate, in)
           = IF F = {} THEN None ELSE Reason(s, estimate, in, Min(F))
    <2>1. DOMAIN Checks(s, estimate, in) = 1 .. 17
      BY DEF Checks
    <2> QED BY <2>1 DEF EvaluateConstraints, Reason, FailsAt
  <1>5. EvaluateConstraints(s1, estimate, to)
           = IF G = {} THEN None ELSE Reason(s1, estimate, to, Min(G))
    <2>1. DOMAIN Checks(s1, estimate, to) = 1 .. 17
      BY DEF Checks
    <2> QED BY <2>1 DEF EvaluateConstraints, Reason, FailsAt
  <1>6. F # {} => Min(F) \in 1 .. 17
    <2>1. F \subseteq Nat /\ F \subseteq 1 .. 17
      OBVIOUS
    <2> HIDE DEF F
    <2> QED BY <2>1, MinOf
  <1> HIDE DEF F, G
  <1> QED BY <1>2, <1>3, <1>4, <1>5, <1>6

\* Two outcomes that are ranked alike.
SameOutcome(e, e1) ==
    /\ SameSubject(e.subject, e1.subject) /\ e1.reason = e.reason /\ e1.estimate = e.estimate
    /\ e.reason = None => /\ SameFit(e.fit, e1.fit) /\ e1.factor = e.factor
                          /\ e1.target = e.target /\ e1.resident = e.resident

\* route(), for one candidate: measurements that do not count change nothing.
LEMMA OutcomesAlike ==
  ASSUME NEW wd, IsStored(wd), NEW we, IsStored(we), AllButEvidence(wd, we), NEW env, NEW rq,
         NEW m \in ToSet(wd.models), NEW a \in ToSet(wd.adapters) \cup {None},
         Keeps(wd, we, m.model_id, KeyWith(a), SubjectWith(wd, rq, m, a).profile)
  PROVE  SameOutcome(Evaluate(wd, env, rq, Merged(wd, rq), SubjectWith(wd, rq, m, a)),
                     Evaluate(we, env, rq, Merged(we, rq), SubjectWith(we, rq, m, a)))
  <1> DEFINE s == SubjectWith(wd, rq, m, a)
             s1 == SubjectWith(we, rq, m, a)
             c == Merged(wd, rq)
             fit == ScoreOf(wd, rq, s)
             fit1 == ScoreOf(we, rq, s1)
             in == ConstraintInputs(wd, env, rq, c, s, fit)
             to == ConstraintInputs(we, env, rq, c, s1, fit1)
             estimate == EstimateVram(s.facts, s.profile, s.served.tokens)
             e == Evaluate(wd, env, rq, c, s)
             e1 == Evaluate(we, env, rq, Merged(we, rq), s1)
             reason == EvaluateConstraints(s, estimate, in)
  <1>1. SameSubject(s, s1)
    BY SubjectsAlike
  <1>2. SameFit(fit, fit1)
    BY ScoresAlike
  <1>3. /\ Merged(we, rq) = c /\ we.task = wd.task /\ we.policy = wd.policy
        /\ we.reliability = wd.reliability
    BY DEF Merged, AllButEvidence
  <1> HIDE DEF s, s1, c, fit, fit1
  <1>4. SameInput(in, to)
    <2>1. BudgetFor(we, rq, s1.served) = BudgetFor(wd, rq, s.served)
      BY <1>1, <1>3 DEF SameSubject, BudgetFor, RequestedOutput
    <2> QED BY <1>2, <1>3, <2>1 DEF ConstraintInputs, SameInput, SameFit
  <1>5. EstimateVram(s1.facts, s1.profile, s1.served.tokens) = estimate
    BY <1>1 DEF SameSubject
  <1>6. CASE s.served = None
    <2>1. s1.served = None
      BY <1>1, <1>6 DEF SameSubject
    <2>2. /\ e = [subject |-> s, reason |-> "context_too_small", estimate |-> None]
          /\ e1 = [subject |-> s1, reason |-> "context_too_small", estimate |-> None]
      BY <1>6, <2>1 DEF Evaluate
    <2>3. "context_too_small" # None
      BY ReasonAssumption DEF RejectionReasons
    <2> QED BY <1>1, <2>2, <2>3 DEF SameOutcome, s, s1, c
  <1>7. CASE s.served # None
    <2>1. s1.served # None
      BY <1>1, <1>7 DEF SameSubject
    <2>2. /\ e = Outcome(wd, rq, s, fit, estimate, in)
          /\ e1 = Outcome(we, rq, s1, fit1, estimate, to)
      BY <1>3, <1>5, <1>7, <2>1 DEF Evaluate, Constrained, fit, fit1
    <2>3. EvaluateConstraints(s1, estimate, to) = reason
      <3> HIDE DEF in, to, estimate
      <3> QED BY <1>1, <1>4, VerdictAlike
    <2>4. to.loaded = in.loaded /\ TargetGpu(s1, estimate, to) = TargetGpu(s, estimate, in)
      <3> HIDE DEF in, to, estimate
      <3> QED BY <1>1, <1>4 DEF SameInput, SameSubject, TargetGpu, ResidentHere
    <2>5. KeyOf(s1) = KeyOf(s) /\ s1.facts = s.facts
      BY <1>1 DEF KeyOf, SameSubject
    <2> HIDE DEF in, to, estimate, e, e1, reason
    <2>6. CASE reason # None
      <3>1. /\ e = [subject |-> s, reason |-> reason, estimate |-> estimate]
            /\ e1 = [subject |-> s1, reason |-> reason, estimate |-> estimate]
        BY <2>2, <2>3, <2>6 DEF Outcome, reason
      <3> QED BY <1>1, <2>6, <3>1 DEF SameOutcome, e, e1, s, s1, c
    <2>7. CASE reason = None
      <3> DEFINE loaded == in.loaded
                 factor == FactorProduct(
                      IF KeyOf(s) \in DOMAIN wd.reliability THEN wd.reliability[KeyOf(s)] ELSE One,
                      ResidencyTerm(s.facts.canonical_id, loaded, wd.policy.bonus,
                                    wd.policy.penalty, rq.overrides.ignore_residency),
                      s.facts.remote, wd.policy.remote_cost)
                 target == TargetGpu(s, estimate, in)
                 held == s.facts.canonical_id \in loaded
      <3>1. e = [subject |-> s, reason |-> None, estimate |-> estimate, fit |-> fit,
                 factor |-> factor, target |-> target, resident |-> held]
        BY <2>2, <2>7 DEF Outcome, reason
      <3>2. e1 = [subject |-> s1, reason |-> None, estimate |-> estimate, fit |-> fit1,
                  factor |-> factor, target |-> target, resident |-> held]
        BY <1>3, <2>2, <2>3, <2>4, <2>5, <2>7 DEF Outcome
      <3> HIDE DEF factor, target, held
      <3>3. SameOutcome(e, e1)
        BY <1>1, <1>2, <3>1, <3>2 DEF SameOutcome
      <3> QED BY <3>3 DEF e, e1, s, s1, c
    <2> QED BY <2>6, <2>7
  <1> QED BY <1>6, <1>7

\* order_key, by what it reads.
Precedes(fa, fb, ca, cb, ra, rb, ea, eb, ka, kb) ==
    FirstDifference(<<
      <<QuotientLess(fb[1], fb[2], fa[1], fa[2]), QuotientLess(fa[1], fa[2], fb[1], fb[2])>>,
      <<QuotientLess(cb[1], cb[2], ca[1], ca[2]), QuotientLess(ca[1], ca[2], cb[1], cb[2])>>,
      <<ra /\ ~rb, rb /\ ~ra>>,
      <<ea # None /\ (eb = None \/ ea < eb), eb # None /\ (ea = None \/ eb < ea)>>,
      <<ka.canonical_id < kb.canonical_id, kb.canonical_id < ka.canonical_id>>,
      <<ka.model_id < kb.model_id, kb.model_id < ka.model_id>> >>)

\* An accepted candidate, and the same with other measurements.
Twins(e, e1) == e.reason = None /\ SameOutcome(e, e1)

\* order_key: candidates that are alike compare alike.
LEMMA OrderAlike ==
  ASSUME NEW a, NEW a1, Twins(a, a1), NEW b, NEW b1, Twins(b, b1)
  PROVE  OrderedBefore(a1, b1) = OrderedBefore(a, b)
  <1>1. \A x, y : OrderedBefore(x, y) =
           Precedes(FinalScore(x), FinalScore(y), MeanConfidence(x.fit), MeanConfidence(y.fit),
                    x.resident, y.resident, x.estimate, y.estimate,
                    x.subject.facts, y.subject.facts)
    BY Zenon DEF OrderedBefore, Precedes
  <1>2. \A x, y : Twins(x, y) =>
           /\ FinalScore(y) = FinalScore(x) /\ MeanConfidence(y.fit) = MeanConfidence(x.fit)
           /\ y.resident = x.resident /\ y.estimate = x.estimate
           /\ y.subject.facts = x.subject.facts
    BY DEF Twins, SameOutcome, SameSubject, SameFit, FinalScore
  <1> QED BY <1>1, <1>2

\* Where Placed puts a candidate, and what it moves.
Slot(s, e) ==
    LET behind == {i \in DOMAIN s : OrderedBefore(e, s[i])}
    IN  IF behind = {} THEN Len(s) + 1 ELSE Min(behind)

\* p is s with e at place k.
Inserted(Y, s, e, k, p) ==
    /\ k \in 1 .. Len(s) + 1 /\ p \in Seq(Y) /\ Len(p) = Len(s) + 1
    /\ \A i \in 1 .. Len(s) + 1 :
          p[i] = IF i < k THEN s[i] ELSE IF i = k THEN e ELSE s[i - 1]

\* rank_candidates: a candidate in its place, the others as they were.
LEMMA PlacedIs ==
  ASSUME NEW Y, NEW s \in Seq(Y), NEW e \in Y
  PROVE  Inserted(Y, s, e, Slot(s, e), Placed(s, e))
  <1> DEFINE behind == {i \in DOMAIN s : OrderedBefore(e, s[i])}
             k == Slot(s, e)
             a == SubSeq(s, 1, k - 1)
             b == SubSeq(s, k, Len(s))
             one == <<e>>
             p == Placed(s, e)
  <1>1. Len(s) \in Nat /\ DOMAIN s = 1 .. Len(s)
    OBVIOUS
  <1>2. k \in 1 .. Len(s) + 1
    <2>1. behind # {} => Min(behind) \in behind
      <3>1. behind \subseteq Nat
        OBVIOUS
      <3> HIDE DEF behind
      <3> QED BY <3>1, MinOf
    <2>2. behind \subseteq 1 .. Len(s)
      OBVIOUS
    <2>3. k = IF behind = {} THEN Len(s) + 1 ELSE Min(behind)
      BY DEF Slot
    <2> HIDE DEF behind, k
    <2>4. CASE behind = {}
      BY <1>1, <2>3, <2>4
    <2>5. CASE behind # {}
      <3>1. Min(behind) \in 1 .. Len(s)
        BY <2>1, <2>2, <2>5
      <3> QED BY <1>1, <2>3, <2>5, <3>1
    <2> QED BY <2>4, <2>5
  <1>3. p = (a \o one) \o b
    BY DEF Placed, InsertAt, Slot
  <1>4. p \in Seq(Y)
    BY PlacedOK
  <1> HIDE DEF k, p
  <1>5. /\ a \in Seq(Y) /\ Len(a) = k - 1 /\ \A i \in 1 .. k - 1 : a[i] = s[i]
    BY <1>1, <1>2
  <1>6. /\ b \in Seq(Y) /\ Len(b) = Len(s) + 1 - k
        /\ \A i \in 1 .. Len(s) + 1 - k : b[i] = s[k + i - 1]
    BY <1>1, <1>2
  <1> HIDE DEF a, b
  <1>7. one \in Seq(Y) /\ Len(one) = 1 /\ one[1] = e
    OBVIOUS
  <1> HIDE DEF one
  <1> DEFINE c == a \o one
  <1>8. /\ c \in Seq(Y) /\ Len(c) = k /\ c[k] = e
        /\ \A i \in 1 .. k - 1 : c[i] = s[i]
    <2>1. c \in Seq(Y) /\ Len(c) = Len(a) + Len(one) /\ c[Len(a) + 1] = one[1]
      <3> HIDE DEF c
      <3>1. a \in Seq(Y) /\ one \in Seq(Y) /\ Len(one) = 1
        BY <1>5, <1>7
      <3>2. c \in Seq(Y) /\ Len(c) = Len(a) + Len(one)
        BY <3>1, ConcatProperties DEF c
      <3>3. Len(a) \in Nat /\ Len(a) + 1 \in 1 .. Len(a) + Len(one) /\ Len(a) + 1 > Len(a)
            /\ (Len(a) + 1) - Len(a) = 1
        BY <3>1
      <3>4. \A i \in 1 .. Len(a) + Len(one) : i > Len(a) => c[i] = one[i - Len(a)]
        BY <3>1, ConcatProperties DEF c
      <3> QED BY <3>2, <3>3, <3>4
    <2>2. \A i \in 1 .. Len(a) : c[i] = a[i]
      BY <1>5, <1>7
    <2>3. k \in Nat /\ Len(a) + Len(one) = k /\ Len(a) + 1 = k
      BY <1>1, <1>2, <1>5, <1>7
    <2> HIDE DEF c
    <2> QED BY <1>5, <1>7, <2>1, <2>2, <2>3
  <1> HIDE DEF c
  <1>9. Len(p) = Len(s) + 1
    <2>1. Len(c \o b) = Len(c) + Len(b)
      BY <1>6, <1>8
    <2>2. Len(p) = k + (Len(s) + 1 - k)
      BY <1>3, <1>6, <1>8, <2>1 DEF c
    <2> QED BY <1>1, <1>2, <2>2
  <1>10. ASSUME NEW i \in 1 .. Len(s) + 1
         PROVE  p[i] = IF i < k THEN s[i] ELSE IF i = k THEN e ELSE s[i - 1]
    <2>1. p = c \o b
      BY <1>3 DEF c
    <2>2. CASE i <= k
      <3>1. i \in 1 .. Len(c)
        BY <1>2, <1>8, <2>2
      <3>2. p[i] = c[i]
        BY <1>6, <1>8, <2>1, <3>1
      <3>3. i = k \/ i \in 1 .. k - 1
        BY <1>2, <2>2
      <3> QED BY <1>8, <3>2, <3>3
    <2>3. CASE i > k
      <3>1. i - k \in 1 .. Len(s) + 1 - k /\ k + (i - k) - 1 = i - 1 /\ ~(i < k) /\ i # k
        BY <1>1, <1>2, <2>3
      <3>2. p[i] = b[i - k]
        <4>1. i \in 1 .. Len(c) + Len(b) /\ ~(i <= Len(c)) /\ Len(c) = k
          BY <1>1, <1>2, <1>6, <1>8, <2>3
        <4>2. \A j \in 1 .. Len(c) + Len(b) :
                 (c \o b)[j] = IF j <= Len(c) THEN c[j] ELSE b[j - Len(c)]
          BY <1>6, <1>8, ConcatProperties, Zenon
        <4> QED BY <2>1, <4>1, <4>2
      <3>3. b[i - k] = s[i - 1]
        BY <1>6, <3>1
      <3> QED BY <3>1, <3>2, <3>3
    <2> QED BY <1>2, <2>2, <2>3
  <1> QED BY <1>2, <1>4, <1>9, <1>10 DEF k, p, Inserted

\* Two rankings that are alike, place by place.
RankedAlike(p, p1) ==
    /\ p \in Seq(ToSet(p)) /\ p1 \in Seq(ToSet(p1)) /\ Len(p1) = Len(p)
    /\ \A i \in 1 .. Len(p) : Twins(p[i], p1[i])

\* A sequence is one of its elements, and of any set that holds them.
LEMMA OwnElements ==
  ASSUME NEW Y, NEW s \in Seq(Y)
  PROVE  s \in Seq(ToSet(s))
  BY DEF ToSet

\* rank_candidates: candidates that are alike get the same place.
LEMMA PlacedAlike ==
  ASSUME NEW p, NEW p1, RankedAlike(p, p1), NEW e, NEW e1, Twins(e, e1)
  PROVE  RankedAlike(Placed(p, e), Placed(p1, e1))
  <1> DEFINE k == Slot(p, e)
             n == Len(p)
             Y == ToSet(p) \cup {e}
             Y1 == ToSet(p1) \cup {e1}
             x == Placed(p, e)
             x1 == Placed(p1, e1)
  <1>1. /\ p \in Seq(Y) /\ p1 \in Seq(Y1) /\ Len(p1) = n /\ n \in Nat /\ e \in Y /\ e1 \in Y1
        /\ DOMAIN p = 1 .. n /\ DOMAIN p1 = 1 .. n
        /\ \A i \in 1 .. n : Twins(p[i], p1[i])
    BY DEF RankedAlike
  <1>2. Slot(p1, e1) = k
    <2>1. \A i \in 1 .. n : OrderedBefore(e1, p1[i]) = OrderedBefore(e, p[i])
      BY <1>1, OrderAlike
    <2>2. {i \in DOMAIN p1 : OrderedBefore(e1, p1[i])} = {i \in DOMAIN p : OrderedBefore(e, p[i])}
      BY <1>1, <2>1
    <2> QED BY <1>1, <2>2 DEF Slot
  <1> HIDE DEF Y, Y1
  <1>3. /\ k \in 1 .. n + 1 /\ x \in Seq(Y) /\ Len(x) = n + 1
        /\ \A i \in 1 .. n + 1 : x[i] = IF i < k THEN p[i] ELSE IF i = k THEN e ELSE p[i - 1]
    <2>1. Inserted(Y, p, e, k, x)
      BY <1>1, PlacedIs
    <2> HIDE DEF k, x
    <2> QED BY <2>1 DEF Inserted
  <1>4. /\ x1 \in Seq(Y1) /\ Len(x1) = n + 1
        /\ \A i \in 1 .. n + 1 : x1[i] = IF i < k THEN p1[i] ELSE IF i = k THEN e1 ELSE p1[i - 1]
    <2>1. Inserted(Y1, p1, e1, Slot(p1, e1), x1)
      BY <1>1, PlacedIs
    <2> HIDE DEF k, x1
    <2> QED BY <1>1, <1>2, <2>1 DEF Inserted
  <1> HIDE DEF x, x1, k, n
  <1>5. ASSUME NEW i \in 1 .. n + 1 PROVE Twins(x[i], x1[i])
    <2>1. CASE i < k
      <3>1. i \in 1 .. n
        BY <1>1, <1>3, <2>1
      <3> QED BY <1>1, <1>3, <1>4, <2>1, <3>1
    <2>2. CASE i = k
      BY <1>3, <1>4, <2>2
    <2>3. CASE i > k
      <3>1. i - 1 \in 1 .. n /\ ~(i < k) /\ i # k
        BY <1>1, <1>3, <2>3
      <3> QED BY <1>1, <1>3, <1>4, <3>1
    <2> QED BY <1>3, <2>1, <2>2, <2>3
  <1>6. x \in Seq(ToSet(x)) /\ x1 \in Seq(ToSet(x1))
    BY <1>3, <1>4, OwnElements
  <1> QED BY <1>3, <1>4, <1>5, <1>6 DEF RankedAlike, x, x1

\* rank_candidates: pools that are alike are ranked alike.
LEMMA RankingsAlike ==
  ASSUME NEW Y, NEW o \in Seq(Y), NEW Y1, NEW o1 \in Seq(Y1), Len(o1) = Len(o),
         NEW eligible \in SUBSET DOMAIN o, \A i \in eligible : Twins(o[i], o1[i])
  PROVE  RankedAlike(RankCandidates(o, eligible), RankCandidates(o1, eligible))
  <1> DEFINE n == Len(o)
             g == Ranking(o, eligible)
             h == Ranking(o1, eligible)
             T == {s \in SUBSET (1 .. n) : RankedAlike(g[s], h[s])}
  <1>1. n \in Nat /\ DOMAIN o = 1 .. n /\ DOMAIN o1 = 1 .. n /\ Len(o1) = n
    OBVIOUS
  <1>2. /\ RankCandidates(o, eligible) = g[1 .. n] /\ g[{}] = <<>>
        /\ \A s \in SUBSET (1 .. n) : s # {} =>
              g[s] = IF Max(s) \in eligible THEN Placed(g[s \ {Max(s)}], o[Max(s)])
                     ELSE g[s \ {Max(s)}]
    BY RankingIs
  <1>3. /\ RankCandidates(o1, eligible) = h[1 .. n] /\ h[{}] = <<>>
        /\ \A s \in SUBSET (1 .. n) : s # {} =>
              h[s] = IF Max(s) \in eligible THEN Placed(h[s \ {Max(s)}], o1[Max(s)])
                     ELSE h[s \ {Max(s)}]
    <2>1. eligible \in SUBSET DOMAIN o1
      BY <1>1
    <2> QED BY <1>1, <2>1, RankingIs
  <1> HIDE DEF g, h, n
  <1>4. {} \in T
    <2>1. RankedAlike(<<>>, <<>>)
      BY DEF RankedAlike
    <2> QED BY <1>2, <1>3, <2>1
  <1>5. ASSUME NEW s \in SUBSET (1 .. n), s # {}, s \ {Max(s)} \in T PROVE s \in T
    <2> DEFINE k == Max(s)
               a == g[s \ {k}]
               b == h[s \ {k}]
    <2>1. RankedAlike(a, b)
      BY <1>5
    <2>2. CASE k \in eligible
      <3>1. Twins(o[k], o1[k])
        BY <2>2
      <3>2. g[s] = Placed(a, o[k]) /\ h[s] = Placed(b, o1[k])
        BY <1>2, <1>3, <1>5, <2>2
      <3> HIDE DEF a, b, k
      <3>3. RankedAlike(g[s], h[s])
        BY <2>1, <3>1, <3>2, PlacedAlike
      <3> QED BY <3>3
    <2>3. CASE k \notin eligible
      <3>1. g[s] = a /\ h[s] = b
        BY <1>2, <1>3, <1>5, <2>3
      <3> HIDE DEF a, b, k
      <3> QED BY <2>1, <3>1
    <2> QED BY <2>2, <2>3
  <1> HIDE DEF T
  <1>6. 1 .. n \in T
    BY <1>1, <1>4, <1>5, Parts
  <1> QED BY <1>2, <1>3, <1>6 DEF T

\* route(): the ranking of a decision.
LEMMA OrderedIs ==
  ASSUME NEW wd, NEW env, NEW rq, Goes(wd, rq)
  PROVE  LET o == OutcomesOf(wd, env, rq, Merged(wd, rq), ReadCandidates(wd))
         IN  Route(wd, env, rq).ordered
                = RankCandidates(o, {i \in DOMAIN o : Considered(rq, o[i]) /\ o[i].reason = None})
  <1> DEFINE o == OutcomesOf(wd, env, rq, Merged(wd, rq), ReadCandidates(wd))
             considered == {i \in DOMAIN o : Considered(rq, o[i])}
             eligible == {i \in considered : o[i].reason = None}
             both == {i \in DOMAIN o : Considered(rq, o[i]) /\ o[i].reason = None}
  <1>1. Route(wd, env, rq) = Decide(wd, env, rq, o)
    BY DEF Route, RouteOver, Goes, Merged
  <1>2. eligible = both
    OBVIOUS
  <1> HIDE DEF o
  <1>3. Decide(wd, env, rq, o).ordered = RankCandidates(o, eligible)
    BY DEF Decide, Conclude, Persist
  <1> HIDE DEF eligible
  <1> QED BY <1>1, <1>2, <1>3 DEF o

\* A store without the measurements that count for no candidate of the pool.
Thinned(wd, we, rq) ==
    /\ IsStored(wd) /\ IsStored(we) /\ AllButEvidence(wd, we)
    /\ \A i \in DOMAIN ReadCandidates(wd) :
          \A m \in ToSet(wd.models), a \in ToSet(wd.adapters) \cup {None} :
             ReadCandidates(wd)[i] = Candidate(wd, m, a) =>
                Keeps(wd, we, m.model_id, KeyWith(a), SubjectWith(wd, rq, m, a).profile)

\* route(): the outcomes of the pool, place by place.
LEMMA PoolAlike ==
  ASSUME NEW wd, NEW we, NEW env, NEW rq, Thinned(wd, we, rq)
  PROVE  LET o == OutcomesOf(wd, env, rq, Merged(wd, rq), ReadCandidates(wd))
             o1 == OutcomesOf(we, env, rq, Merged(we, rq), ReadCandidates(we))
         IN  /\ o \in Seq(ToSet(o)) /\ o1 \in Seq(ToSet(o1)) /\ Len(o1) = Len(o)
             /\ \A i \in DOMAIN o : SameOutcome(o[i], o1[i])
             /\ UnknownAdapter(rq, ReadCandidates(wd)) <=> UnknownAdapter(rq, ReadCandidates(we))
  <1> DEFINE pool == ReadCandidates(wd)
             pool1 == ReadCandidates(we)
             n == Len(pool)
             o == OutcomesOf(wd, env, rq, Merged(wd, rq), pool)
             o1 == OutcomesOf(we, env, rq, Merged(we, rq), pool1)
             E(x) == Evaluate(wd, env, rq, Merged(wd, rq), BuildSubject(wd, rq, Merged(wd, rq), x))
             E1(x) == Evaluate(we, env, rq, Merged(we, rq), BuildSubject(we, rq, Merged(we, rq), x))
  <1>1. IsStored(wd) /\ IsStored(we) /\ AllButEvidence(wd, we)
    BY DEF Thinned
  <1>2. Paired(wd, we, pool, pool1)
    BY <1>1, PoolsPaired
  <1>3. /\ n \in Nat /\ DOMAIN pool = 1 .. n /\ DOMAIN pool1 = 1 .. n /\ Len(pool1) = n
        /\ \A i \in 1 .. n : \E m \in ToSet(wd.models), a \in ToSet(wd.adapters) \cup {None} :
              pool[i] = Candidate(wd, m, a) /\ pool1[i] = Candidate(we, m, a)
    BY <1>2 DEF Paired
  <1>4. o = [i \in 1 .. n |-> E(pool[i])] /\ o1 = [i \in 1 .. n |-> E1(pool1[i])]
    BY <1>3 DEF OutcomesOf
  <1>5. ASSUME NEW i \in 1 .. n
        PROVE  /\ SameOutcome(E(pool[i]), E1(pool1[i])) /\ pool[i].adapter = pool1[i].adapter
    <2>1. PICK m \in ToSet(wd.models), a \in ToSet(wd.adapters) \cup {None} :
             pool[i] = Candidate(wd, m, a) /\ pool1[i] = Candidate(we, m, a)
      BY <1>3
    <2>2. Keeps(wd, we, m.model_id, KeyWith(a), SubjectWith(wd, rq, m, a).profile)
      BY <1>3, <2>1 DEF Thinned
    <2>3. SameOutcome(Evaluate(wd, env, rq, Merged(wd, rq), SubjectWith(wd, rq, m, a)),
                      Evaluate(we, env, rq, Merged(we, rq), SubjectWith(we, rq, m, a)))
      BY <1>1, <2>2, OutcomesAlike
    <2>4. Candidate(wd, m, a).adapter = a /\ Candidate(we, m, a).adapter = a
      BY DEF Candidate
    <2> HIDE DEF pool, pool1
    <2> QED BY <2>1, <2>3, <2>4 DEF SubjectWith
  <1> HIDE DEF pool, pool1, E, E1, o, o1, n
  <1>6. o \in Seq(ToSet(o)) /\ o1 \in Seq(ToSet(o1)) /\ Len(o1) = Len(o) /\ DOMAIN o = 1 .. n
    <2>1. n \in Nat
      BY <1>3
    <2>2. DOMAIN o = 1 .. n /\ DOMAIN o1 = 1 .. n
      BY <1>4
    <2>3. o = [i \in 1 .. n |-> o[i]] /\ o1 = [i \in 1 .. n |-> o1[i]]
      BY <1>4
    <2>4. (\A i \in 1 .. n : o[i] \in ToSet(o)) /\ \A i \in 1 .. n : o1[i] \in ToSet(o1)
      BY <2>2 DEF ToSet
    <2>5. o \in Seq(ToSet(o)) /\ Len(o) = n
      BY <2>1, <2>3, <2>4
    <2>6. o1 \in Seq(ToSet(o1)) /\ Len(o1) = n
      BY <2>1, <2>3, <2>4
    <2> QED BY <2>2, <2>5, <2>6
  <1>7. \A i \in DOMAIN o : SameOutcome(o[i], o1[i])
    BY <1>4, <1>5, <1>6
  <1>8. UnknownAdapter(rq, pool) <=> UnknownAdapter(rq, pool1)
    BY <1>3, <1>5 DEF UnknownAdapter
  <1> QED BY <1>6, <1>7, <1>8 DEF o, o1, pool, pool1

\* route(): the ranking does not depend on measurements that count for nothing.
LEMMA RoutesAlike ==
  ASSUME NEW wd, NEW we, NEW env, NEW rq, Thinned(wd, we, rq), Goes(wd, rq)
  PROVE  RankedAlike(Route(wd, env, rq).ordered, Route(we, env, rq).ordered)
  <1> DEFINE o == OutcomesOf(wd, env, rq, Merged(wd, rq), ReadCandidates(wd))
             o1 == OutcomesOf(we, env, rq, Merged(we, rq), ReadCandidates(we))
             In(x) == Considered(rq, x) /\ x.reason = None
             eligible == {i \in DOMAIN o : Considered(rq, o[i]) /\ o[i].reason = None}
             eligible1 == {i \in DOMAIN o1 : Considered(rq, o1[i]) /\ o1[i].reason = None}
  <1>1. /\ o \in Seq(ToSet(o)) /\ o1 \in Seq(ToSet(o1)) /\ Len(o1) = Len(o)
        /\ \A i \in DOMAIN o : SameOutcome(o[i], o1[i])
        /\ UnknownAdapter(rq, ReadCandidates(wd)) <=> UnknownAdapter(rq, ReadCandidates(we))
    BY PoolAlike
  <1>2. Merged(we, rq) = Merged(wd, rq)
    BY DEF Merged, Thinned, AllButEvidence
  <1>3. Goes(we, rq)
    BY <1>1, <1>2 DEF Goes
  <1>4. /\ Route(wd, env, rq).ordered = RankCandidates(o, eligible)
        /\ Route(we, env, rq).ordered = RankCandidates(o1, eligible1)
    BY <1>3, OrderedIs
  <1> HIDE DEF o, o1
  <1>5. DOMAIN o1 = DOMAIN o
    BY <1>1
  <1>6. \A x, y : SameOutcome(x, y) => (Considered(rq, y) <=> Considered(rq, x))
    BY DEF SameOutcome, SameSubject, Considered, Pinned
  <1>7. eligible1 = eligible
    <2>1. \A i \in DOMAIN o : o1[i].reason = o[i].reason
      BY <1>1 DEF SameOutcome
    <2> QED BY <1>1, <1>5, <1>6, <2>1
  <1>8. \A i \in eligible : Twins(o[i], o1[i])
    BY <1>1 DEF Twins
  <1>9. eligible \in SUBSET DOMAIN o
    OBVIOUS
  <1> HIDE DEF eligible, eligible1
  <1>10. RankedAlike(RankCandidates(o, eligible), RankCandidates(o1, eligible))
    BY <1>1, <1>8, <1>9, RankingsAlike
  <1> QED BY <1>4, <1>7, <1>10

\* What the caller sees of rankings that are alike is the same.
LEMMA ShownAlike ==
  ASSUME NEW d, NEW d1, RankedAlike(d.ordered, d1.ordered)
  PROVE  Shown(d1) = Shown(d)
  <1> DEFINE p == d.ordered
             p1 == d1.ordered
             n == Len(p)
             V(x) == <<SubjectOf(x.subject.facts, x.subject.adapter), FinalScore(x), x.target>>
  <1>1. /\ n \in Nat /\ DOMAIN p = 1 .. n /\ DOMAIN p1 = 1 .. n
        /\ \A i \in 1 .. n : Twins(p[i], p1[i])
    BY DEF RankedAlike
  <1>2. \A x, y : Twins(x, y) => V(y) = V(x)
    BY DEF Twins, SameOutcome, SameSubject, SameFit, FinalScore
  <1>3. Shown(d) = [i \in DOMAIN p |-> V(p[i])] /\ Shown(d1) = [i \in DOMAIN p1 |-> V(p1[i])]
    BY DEF Shown
  <1> HIDE DEF p, p1, n, V
  <1> QED BY <1>1, <1>2, <1>3

\* resolve_capability, collapse_evidence, of the decision a job holds.
LEMMA ExclusionNeutralOK == DispatchInv => ExclusionNeutral
  <1> DEFINE pool == ReadCandidates(w)
             env == RoutingView(machine)
             merged == MergedConstraints(w.task.constraints, q.constraints)
             kept == {e \in w.evidence : \E i \in DOMAIN pool :
                         Concerns(e, BuildSubject(w, q, merged, pool[i]))}
             we == [w EXCEPT !.evidence = kept]
  <1> SUFFICES ASSUME DispatchInv, job.state = "leased", quiet,
                      decision.error \in {None, "NO_ELIGIBLE_MODEL"}
               PROVE  Shown(decision) = Shown(Route(we, env, q))
    BY Zenon DEF ExclusionNeutral
  <1>1. world \in DOMAIN Worlds
    BY DEF DispatchInv, AttemptInv
  <1>2. IsStored(w) /\ IsRequest(q)
    BY <1>1, WorldOK
  <1>3. decision = Route(w, env, q)
    <2>1. job.state \notin BeingRouted \cup {"queued"}
      BY DEF BeingRouted
    <2>2. decision = Route(w, view, q)
      BY <2>1, Zenon DEF DispatchInv, Current
    <2>3. view = RoutingView(machine)
      BY <2>1 DEF DispatchInv, ViewRead
    <2> QED BY <2>2, <2>3
  <1>4. Goes(w, q)
    <2>1. ~Goes(w, q) => decision.error \in {"VALIDATION_ERROR", "ADAPTER_NOT_FOUND"}
      BY <1>2, <1>3, RouteIs
    <2> QED BY <2>1, ErrorAssumption DEF RoutingErrors
  <1>5. /\ AllButEvidence(w, we) /\ we.evidence = kept /\ DOMAIN we = DOMAIN w
    <2> DEFINE z == w
    <2>1. DOMAIN z = {"models", "adapters", "providers", "provider", "capabilities", "evidence",
                      "reliability", "task", "policy"}
      BY <1>2 DEF IsStored
    <2> HIDE DEF z, kept
    <2>2. /\ AllButEvidence(z, [z EXCEPT !.evidence = kept])
          /\ [z EXCEPT !.evidence = kept].evidence = kept
          /\ DOMAIN [z EXCEPT !.evidence = kept] = DOMAIN z
      BY <2>1 DEF AllButEvidence
    <2> QED BY <2>2 DEF z
  <1>6. kept \subseteq w.evidence
    OBVIOUS
  <1>7. \A e \in w.evidence : \A i \in DOMAIN pool :
           Concerns(e, BuildSubject(w, q, merged, pool[i])) => e \in kept
    OBVIOUS
  <1> HIDE DEF we, kept
  <1>8. IsStored(we)
    <2>1. IsFiniteSet(kept)
      BY <1>2, <1>6, FS_Subset DEF IsStored
    <2> QED BY <1>2, <1>5, <1>6, <2>1 DEF IsStored, AllButEvidence
  <1>9. ASSUME NEW i \in DOMAIN pool, NEW m \in ToSet(w.models),
               NEW a \in ToSet(w.adapters) \cup {None}, pool[i] = Candidate(w, m, a)
        PROVE  Keeps(w, we, m.model_id, KeyWith(a), SubjectWith(w, q, m, a).profile)
    <2> DEFINE s == SubjectWith(w, q, m, a)
    <2>1. s = BuildSubject(w, q, merged, pool[i])
      BY <1>9 DEF SubjectWith, Merged
    <2>2. s.facts = FactsFor(w, m) /\ s.adapter = a
      <3>1. AllButEvidence(w, w)
        BY DEF AllButEvidence
      <3> QED BY <3>1, SubjectsAlike
    <2>3. IsModelFacts(m)
      BY <1>2 DEF IsStored, ToSet
    <2>4. s.facts.model_id = m.model_id
      BY <2>2, <2>3 DEF FactsFor, IsModelFacts
    <2> HIDE DEF s
    <2>5. KeyOf(s) = <<m.model_id, KeyWith(a)>>
      BY <2>2, <2>4 DEF KeyOf, KeyWith
    <2>6. ASSUME NEW e \in w.evidence,
                 Counts(e, m.model_id, KeyWith(a), s.profile, w.policy.machine)
          PROVE  Concerns(e, s)
      BY <2>5, <2>6 DEF Counts, Concerns, MachineAdmits
    <2>7. \A e \in w.evidence :
             Counts(e, m.model_id, KeyWith(a), s.profile, w.policy.machine) => e \in we.evidence
      BY <1>5, <1>7, <2>1, <2>6
    <2> QED BY <1>5, <1>6, <2>7 DEF Keeps, s
  <1>10. Thinned(w, we, q)
    <2> HIDE DEF pool
    <2>1. \A i \in DOMAIN pool :
             \A m \in ToSet(w.models), a \in ToSet(w.adapters) \cup {None} :
                pool[i] = Candidate(w, m, a) =>
                   Keeps(w, we, m.model_id, KeyWith(a), SubjectWith(w, q, m, a).profile)
      BY <1>9
    <2> QED BY <1>2, <1>5, <1>8, <2>1 DEF Thinned, pool
  <1> HIDE DEF env
  <1>11. RankedAlike(Route(w, env, q).ordered, Route(we, env, q).ordered)
    BY <1>4, <1>10, RoutesAlike
  <1>12. Shown(Route(we, env, q)) = Shown(Route(w, env, q))
    BY <1>11, ShownAlike
  <1> QED BY <1>3, <1>12

\* resolve_capability, collapse_evidence: a measurement that does not concern the
\* execution it is stored for changes nothing.
THEOREM Neutrality == DispatchSpec => []ExclusionNeutral
  <1> QED BY ExclusionNeutralOK, Dispatching, PTL

\* A decision rests on the measurements that describe the execution and on no
\* others, and says so, where no weight is negative.
THEOREM Grounds == DispatchSpec => [](Weighed => EvidenceSound)
  <1>1. DispatchInv => (Weighed => EvidenceSound)
    BY HonestEvidenceOK, ExclusionNeutralOK DEF EvidenceSound
  <1> QED BY <1>1, Dispatching, PTL
=============================================================================

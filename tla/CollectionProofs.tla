-------------------------- MODULE CollectionProofs --------------------------
(***************************************************************************)
(* The safety of what a program collects, for any sizes, limits, callers   *)
(* and answers: of the cache that callers of OSV share (OsvCache), and of  *)
(* the discovery, the crawls and the profile of a collection (Collection). *)
(*                                                                         *)
(* That all calls see the same evidence rests on a ready entry staying as  *)
(* it is, which rests on only an owner writing to an entry, and that on    *)
(* there being one owner per entry in flight; a waiter that was woken with *)
(* a body still finds the same body in the cache.                          *)
(*                                                                         *)
(* A discovery is honest because a query holds the pages before its token  *)
(* and no others.  A crawl skips nothing because the count of its answers  *)
(* tells whether the records it reads are still those of its probe; and a  *)
(* profile accounts for every file because of the tables of its walks.     *)
(***************************************************************************)
EXTENDS OsvCache, Collection, TLAPS, WellFoundedInduction, FiniteSetTheorems, SequenceTheorems

-----------------------------------------------------------------------------
(* The shared cache of the OSV client.                                     *)
Owning ==
  /\ \A c \in Caller : pc[c] = "fetching" =>
       asked[c] \in Query /\ cache[asked[c]] = "inflight" /\ got[c] = "none"
  /\ \A c, d \in Caller :
       pc[c] = "fetching" /\ pc[d] = "fetching" /\ asked[c] = asked[d] => c = d
  /\ \A q \in Query :
       cache[q] = "inflight" => \E c \in Caller : pc[c] = "fetching" /\ asked[c] = q

Waiting ==
  \A c \in Caller : pc[c] = "waiting" =>
    /\ asked[c] \in Query
    /\ got[c] = "none" => cache[asked[c]] = "inflight"
    /\ got[c] \in Body => cache[asked[c]] = got[c]

Resting ==
  \A c \in Caller : pc[c] \in {"idle", "next"} => asked[c] = "none" /\ got[c] = "none"

Budgets == Cardinality(Entries) <= MaxEntries /\ cacheBytes <= MaxBytes

IInv ==
  /\ TypeOK
  /\ Owning
  /\ Waiting
  /\ Resting
  /\ EvidenceAgrees
  /\ Budgets

LEMMA Marks ==
  \A b \in Body : b \notin {"absent", "inflight", "failed", "canceled", "none"}
BY OsvCacheAssumption
-----------------------------------------------------------------------------

LEMMA InitEstablishes == Init => IInv
<1> SUFFICES ASSUME Init PROVE IInv
  OBVIOUS
<1>1. TypeOK
  BY DEF Init, TypeOK, Outcome, Nothing
<1>2. Owning /\ Waiting /\ Resting /\ EvidenceAgrees
  BY DEF Init, Owning, Waiting, Resting, EvidenceAgrees, Nothing
<1>3. Budgets
  <2>1. Entries = {}
    BY DEF Init, Entries
  <2> QED
    BY <2>1, FS_EmptySet, OsvCacheAssumption DEF Init, Budgets
<1> QED
  BY <1>1, <1>2, <1>3 DEF IInv

(* A step that leaves the cache alone, and all callers but one, who is not *)
(* an owner before or after it and does not hold an entry afterwards.      *)
LEMMA LocalStep ==
  ASSUME IInv, NEW c \in Caller,
         UNCHANGED <<cache, cacheBytes>>,
         pc[c] # "fetching", pc'[c] \in {"idle", "next"},
         asked'[c] = "none", got'[c] = "none",
         \A d \in Caller : d # c => pc'[d] = pc[d] /\ asked'[d] = asked[d] /\ got'[d] = got[d]
  PROVE  Owning' /\ Waiting' /\ Resting' /\ Budgets'
<1> USE DEF IInv
<1>1. \A d \in Caller : pc'[d] \in {"fetching", "waiting"} => d # c
  OBVIOUS
<1>2. \A d \in Caller : pc[d] = "fetching" => pc'[d] = "fetching" /\ asked'[d] = asked[d]
  OBVIOUS
<1>3. Owning'
  BY <1>1, <1>2 DEF Owning
<1>4. Waiting'
  BY <1>1 DEF Waiting
<1>5. Resting'
  BY DEF Resting
<1>6. Budgets'
  BY DEF Budgets, Entries
<1> QED
  BY <1>3, <1>4, <1>5, <1>6

LEMMA GiveUpStep ==
  ASSUME IInv, NEW c \in Caller, GiveUp(c), pc[c] # "fetching",
         UNCHANGED <<cache, cacheBytes>>
  PROVE  IInv'
<1> USE DEF IInv
<1>1. TypeOK'
  BY DEF GiveUp, TypeOK, Nothing
<1>2. Owning' /\ Waiting' /\ Resting' /\ Budgets'
  BY LocalStep DEF GiveUp, TypeOK
<1>3. EvidenceAgrees'
  BY DEF GiveUp, EvidenceAgrees, TypeOK, Nothing
<1> QED
  BY <1>1, <1>2, <1>3

LEMMA KeepStep ==
  ASSUME IInv, NEW c \in Caller, NEW q \in Query, NEW b \in Body, Keep(c, q, b),
         cache[q] = b, pc[c] # "fetching", UNCHANGED <<cache, cacheBytes>>
  PROVE  IInv'
<1> DEFINE more == [used[c] EXCEPT ![q] = b]
<1>1. CASE GiveUp(c)
  BY <1>1, GiveUpStep
<1>2. CASE /\ used' = [used EXCEPT ![c] = more]
           /\ todo' = [todo EXCEPT ![c] = @ \ {q}]
           /\ pc' = [pc EXCEPT ![c] = "next"]
           /\ asked' = [asked EXCEPT ![c] = "none"]
           /\ got' = [got EXCEPT ![c] = "none"]
           /\ UNCHANGED <<live, evidence>>
  <2> USE DEF IInv
  <2>1. TypeOK'
    BY <1>2 DEF TypeOK
  <2>2. Owning' /\ Waiting' /\ Resting' /\ Budgets'
    BY <1>2, LocalStep DEF TypeOK
  <2>3. EvidenceAgrees'
    BY <1>2 DEF EvidenceAgrees, TypeOK
  <2> QED
    BY <2>1, <2>2, <2>3
<1> QED
  BY <1>1, <1>2 DEF Keep

LEMMA ContinueStep ==
  ASSUME IInv, NEW c \in Caller, NEW q \in Query, NEW outcome, Continue(c, q, outcome),
         outcome \in Body => cache[q] = outcome,
         pc[c] # "fetching", UNCHANGED <<cache, cacheBytes>>
  PROVE  IInv'
BY GiveUpStep, KeepStep DEF Continue

LEMMA EnrichStep ==
  ASSUME IInv, NEW c \in Caller, NEW queries \in SUBSET Query, Enrich(c, queries)
  PROVE  IInv'
<1> USE DEF IInv
<1>1. TypeOK'
  BY DEF Enrich, TypeOK
<1>2. Owning' /\ Waiting' /\ Resting' /\ Budgets'
  BY LocalStep DEF Enrich, TypeOK, Resting
<1>3. EvidenceAgrees'
  BY DEF Enrich, EvidenceAgrees
<1> QED
  BY <1>1, <1>2, <1>3

LEMMA ConcludeStep ==
  ASSUME IInv, NEW c \in Caller, Conclude(c)
  PROVE  IInv'
<1> USE DEF IInv
<1>1. TypeOK'
  BY DEF Conclude, TypeOK, Nothing
<1>2. Owning' /\ Waiting' /\ Resting' /\ Budgets'
  BY LocalStep DEF Conclude, TypeOK, Resting
<1>3. EvidenceAgrees'
  BY DEF Conclude, EvidenceAgrees, TypeOK, Nothing
<1> QED
  BY <1>1, <1>2, <1>3

LEMMA CancelStep ==
  ASSUME IInv, NEW c \in Caller, Cancel(c)
  PROVE  IInv'
<1> USE DEF IInv
<1>1. TypeOK'
  BY DEF Cancel, TypeOK
<1>2. Owning' /\ Waiting' /\ Resting' /\ EvidenceAgrees' /\ Budgets'
  BY DEF Cancel, Owning, Waiting, Resting, EvidenceAgrees, Budgets, Entries
<1> QED
  BY <1>1, <1>2

LEMMA WaitStep ==
  ASSUME IInv, NEW c \in Caller, NEW q \in Query, Wait(c, q)
  PROVE  IInv'
<1> USE DEF IInv
<1>1. TypeOK'
  BY DEF Wait, TypeOK
<1>2. got[c] = "none" /\ pc'[c] = "waiting" /\ asked'[c] = q
  BY DEF Wait, Resting, TypeOK
<1>3. \A d \in Caller : d # c => pc'[d] = pc[d] /\ asked'[d] = asked[d]
  BY DEF Wait, TypeOK
<1>4. pc[c] = "next" /\ cache[q] = "inflight" /\ UNCHANGED <<cache, cacheBytes, got, used, evidence>>
  BY DEF Wait
<1>5. Owning'
  <2>1. \A d \in Caller : pc'[d] = "fetching" <=> pc[d] = "fetching"
    BY <1>2, <1>3, <1>4
  <2>2. \A d \in Caller : pc[d] = "fetching" => asked'[d] = asked[d]
    BY <1>3, <1>4
  <2> QED
    BY <1>4, <2>1, <2>2 DEF Owning
<1>6. Waiting'
  BY <1>2, <1>3, <1>4, Marks DEF Waiting
<1>7. Resting' /\ EvidenceAgrees' /\ Budgets'
  BY <1>2, <1>3, <1>4 DEF Resting, EvidenceAgrees, Budgets, Entries
<1> QED
  BY <1>1, <1>5, <1>6, <1>7

(* The entry an owner adds is one of at most MaxEntries.                   *)
LEMMA OwnStep ==
  ASSUME IInv, NEW c \in Caller, NEW q \in Query, Own(c, q)
  PROVE  IInv'
<1> USE DEF IInv
<1>1. TypeOK'
  BY DEF Own, TypeOK
<1>2. /\ pc[c] = "next" /\ got[c] = "none" /\ pc'[c] = "fetching" /\ asked'[c] = q
      /\ cache[q] = "absent" /\ cache'[q] = "inflight"
      /\ UNCHANGED <<cacheBytes, got, used, evidence>>
  BY DEF Own, Resting, TypeOK
<1>3. \A d \in Caller : d # c => pc'[d] = pc[d] /\ asked'[d] = asked[d]
  BY DEF Own, TypeOK
<1>4. \A p \in Query : p # q => cache'[p] = cache[p]
  BY DEF Own, TypeOK
<1>5. Owning'
  <2>1. \A d \in Caller : d # c /\ pc[d] = "fetching" => asked[d] # q
    BY <1>2 DEF Owning
  <2>2. \A d \in Caller : pc'[d] = "fetching" =>
          asked'[d] \in Query /\ cache'[asked'[d]] = "inflight" /\ got'[d] = "none"
    BY <1>2, <1>3, <1>4, <2>1 DEF Owning
  <2>3. \A d, e \in Caller :
          pc'[d] = "fetching" /\ pc'[e] = "fetching" /\ asked'[d] = asked'[e] => d = e
    BY <1>2, <1>3, <2>1 DEF Owning
  <2>4. ASSUME NEW p \in Query, cache'[p] = "inflight"
        PROVE  \E d \in Caller : pc'[d] = "fetching" /\ asked'[d] = p
    <3>1. CASE p = q
      BY <1>2, <3>1
    <3>2. CASE p # q
      <4>1. PICK d \in Caller : pc[d] = "fetching" /\ asked[d] = p
        BY <1>4, <2>4, <3>2 DEF Owning
      <4> QED
        BY <1>2, <1>3, <4>1
    <3> QED
      BY <3>1, <3>2
  <2> QED
    BY <2>2, <2>3, <2>4 DEF Owning
<1>6. Waiting'
  <2>1. \A d \in Caller : pc[d] = "waiting" /\ got[d] \in Body => asked[d] # q
    BY <1>2, Marks DEF Waiting
  <2> QED
    BY <1>2, <1>3, <1>4, <2>1 DEF Waiting
<1>7. Resting'
  BY <1>2, <1>3 DEF Resting
<1>8. EvidenceAgrees'
  <2>1. evidence[q] = {}
    BY <1>2, Marks DEF EvidenceAgrees, TypeOK
  <2>2. \A d \in Caller : used[d][q] = "none"
    BY <1>2, Marks DEF EvidenceAgrees, TypeOK
  <2> QED
    BY <1>2, <1>4, <2>1, <2>2 DEF EvidenceAgrees
<1>9. Budgets'
  <2>1. IsFiniteSet(Entries) /\ q \notin Entries
    BY <1>2, FS_Subset, OsvCacheAssumption DEF Entries
  <2>2. Entries' = Entries \cup {q}
    BY <1>2, <1>4 DEF Entries
  <2>3. Cardinality(Entries') = Cardinality(Entries) + 1 /\ Cardinality(Entries) \in Nat
    BY <2>1, <2>2, FS_AddElement, FS_CardinalityType
  <2> QED
    BY <1>2, <2>3, OsvCacheAssumption DEF Budgets, Own
<1> QED
  BY <1>1, <1>5, <1>6, <1>7, <1>8, <1>9

(* An owner answers for its entry alone: the other owners own others, and  *)
(* whoever holds this entry learns what the cache now says.                *)
LEMMA FetchedStep ==
  ASSUME IInv, NEW c \in Caller, NEW answer \in Answer, Fetched(c, answer)
  PROVE  IInv'
<1> USE DEF IInv
<1> DEFINE q == asked[c]
           outcome == Verdict(c, answer)
<1>1. /\ pc[c] = "fetching" /\ q \in Query /\ q # "none"
      /\ cache[q] = "inflight" /\ got[c] = "none"
  BY OsvCacheAssumption DEF Fetched, Owning
<1>2. /\ outcome \in Outcome /\ outcome # "none" /\ outcome # "inflight"
      /\ outcome \in Body => Bytes[outcome] <= MaxBytes - cacheBytes
  <2>1. answer \in Outcome
    BY DEF Answer, Outcome
  <2> QED
    BY <2>1, Marks, OsvCacheAssumption DEF Verdict, Outcome, Budgets, TypeOK
<1>3. /\ cache'[q] = Stored(outcome)
      /\ \A p \in Query : p # q => cache'[p] = cache[p]
      /\ pc'[c] = "waiting"
      /\ \A d \in Caller : d # c => pc'[d] = pc[d]
      /\ \A d \in Caller : got'[d] = IF asked[d] = q /\ got[d] = "none" THEN outcome ELSE got[d]
      /\ UNCHANGED <<live, todo, asked, used, evidence>>
  BY <1>1 DEF Fetched, Published, Holding, TypeOK
<1>4. /\ Stored(outcome) \in Body \cup {"absent", "failed"}
      /\ outcome \in Body => Stored(outcome) = outcome
  BY <1>2, Marks DEF Stored, Outcome
<1>5. TypeOK'
  <2>1. cacheBytes' \in Nat
    BY OsvCacheAssumption DEF Fetched, TypeOK
  <2>2. cache' \in [Query -> Body \cup {"absent", "inflight", "failed"}]
    BY <1>4 DEF Fetched, TypeOK
  <2>3. got' \in [Caller -> Outcome \cup {"none"}]
    BY <1>2 DEF Fetched, Published, TypeOK
  <2>4. pc' \in [Caller -> {"idle", "next", "waiting", "fetching"}]
    BY DEF Fetched, TypeOK
  <2> QED
    BY <1>3, <2>1, <2>2, <2>3, <2>4 DEF TypeOK
<1>6. Owning'
  <2>1. \A d \in Caller : pc'[d] = "fetching" <=> pc[d] = "fetching" /\ d # c
    BY <1>3
  <2>2. \A d \in Caller : pc[d] = "fetching" /\ d # c => asked[d] # q
    BY <1>1 DEF Owning
  <2>3. \A d \in Caller : pc'[d] = "fetching" =>
          asked'[d] \in Query /\ cache'[asked'[d]] = "inflight" /\ got'[d] = "none"
    BY <1>3, <2>1, <2>2 DEF Owning
  <2>4. \A d, e \in Caller :
          pc'[d] = "fetching" /\ pc'[e] = "fetching" /\ asked'[d] = asked'[e] => d = e
    BY <1>3, <2>1 DEF Owning
  <2>5. ASSUME NEW p \in Query, cache'[p] = "inflight"
        PROVE  \E d \in Caller : pc'[d] = "fetching" /\ asked'[d] = p
    <3>1. p # q
      BY <1>3, <1>4, <2>5, Marks
    <3>2. PICK d \in Caller : pc[d] = "fetching" /\ asked[d] = p
      BY <1>3, <2>5, <3>1 DEF Owning
    <3> QED
      BY <1>3, <2>1, <3>1, <3>2
  <2> QED
    BY <2>3, <2>4, <2>5 DEF Owning
<1>7. Waiting'
  <2> SUFFICES ASSUME NEW d \in Caller, pc'[d] = "waiting"
               PROVE  /\ asked[d] \in Query
                      /\ got'[d] = "none" => cache'[asked[d]] = "inflight"
                      /\ got'[d] \in Body => cache'[asked[d]] = got'[d]
    BY <1>3 DEF Waiting
  <2>1. asked[d] \in Query /\ (d = c \/ pc[d] = "waiting")
    BY <1>1, <1>3 DEF Waiting
  <2>2. CASE asked[d] = q /\ got[d] = "none"
    BY <1>2, <1>3, <1>4, <2>1, <2>2
  <2>3. CASE asked[d] = q /\ got[d] # "none"
    BY <1>1, <1>3, <2>1, <2>3, Marks DEF Waiting
  <2>4. CASE asked[d] # q
    BY <1>3, <2>1, <2>4 DEF Waiting
  <2> QED
    BY <2>2, <2>3, <2>4
<1>8. Resting'
  BY <1>1, <1>3 DEF Resting
<1>9. EvidenceAgrees'
  <2>1. evidence[q] = {} /\ \A d \in Caller : used[d][q] = "none"
    BY <1>1, Marks DEF EvidenceAgrees, TypeOK
  <2> QED
    BY <1>3, <2>1 DEF EvidenceAgrees
<1>10. Budgets'
  <2>1. Entries' \subseteq Entries
    BY <1>1, <1>3 DEF Entries
  <2>2. IsFiniteSet(Entries)
    BY FS_Subset, OsvCacheAssumption DEF Entries
  <2>3. Cardinality(Entries') <= Cardinality(Entries) /\ Cardinality(Entries') \in Nat /\ Cardinality(Entries) \in Nat
    BY <2>1, <2>2, FS_Subset, FS_CardinalityType
  <2>4. cacheBytes' <= MaxBytes
    BY <1>2, OsvCacheAssumption DEF Fetched, Budgets, TypeOK
  <2> QED
    BY <2>3, <2>4, OsvCacheAssumption DEF Budgets
<1> QED
  BY <1>5, <1>6, <1>7, <1>8, <1>9, <1>10

-----------------------------------------------------------------------------

LEMMA CallerStepPreserves ==
  ASSUME IInv, NEW c \in Caller, CallerStep(c)
  PROVE  IInv'
<1>1. CASE \E q \in Query : Hit(c, q)
  BY <1>1, ContinueStep DEF Hit
<1>2. CASE \E q \in Query : Wait(c, q)
  BY <1>2, WaitStep
<1>3. CASE \E q \in Query : Full(c, q)
  BY <1>3, GiveUpStep DEF Full
<1>4. CASE \E q \in Query : Own(c, q)
  BY <1>4, OwnStep
<1>5. CASE \E answer \in Answer : Fetched(c, answer)
  BY <1>5, FetchedStep
<1>6. CASE Resume(c)
  <2>1. asked[c] \in Query /\ (got[c] \in Body => cache[asked[c]] = got[c]) /\ pc[c] # "fetching"
    BY <1>6 DEF IInv, Waiting, Resume
  <2> QED
    BY <1>6, <2>1, ContinueStep DEF Resume
<1>7. CASE Conclude(c)
  BY <1>7, ConcludeStep
<1> QED
  BY <1>1, <1>2, <1>3, <1>4, <1>5, <1>6, <1>7 DEF CallerStep

LEMMA NextPreserves == IInv /\ [Next]_vars => IInv'
<1> SUFFICES ASSUME IInv, [Next]_vars PROVE IInv'
  OBVIOUS
<1>1. CASE \E c \in Caller : \E queries \in SUBSET Query : Enrich(c, queries)
  BY <1>1, EnrichStep
<1>2. CASE \E c \in Caller : CallerStep(c)
  BY <1>2, CallerStepPreserves
<1>3. CASE \E c \in Caller : Cancel(c)
  BY <1>3, CancelStep
<1>4. CASE UNCHANGED vars
  BY <1>4 DEF vars, IInv, TypeOK, Owning, Waiting, Resting, EvidenceAgrees, Budgets, Entries
<1> QED
  BY <1>1, <1>2, <1>3, <1>4 DEF Next

(* The inductive invariant holds in every state.                           *)
THEOREM Inductive == Spec => []IInv
BY InitEstablishes, NextPreserves, PTL DEF Spec

(* Every variable keeps its type.                                          *)
THEOREM TypeCorrect == Spec => []TypeOK
<1>1. IInv => TypeOK
  BY DEF IInv
<1> QED
  BY <1>1, Inductive, PTL

(* Whatever the callers do and cancel, all of them see the same evidence   *)
(* for a query (client.go:302-346).                                        *)
THEOREM OneEvidence == Spec => []EvidenceAgrees
<1>1. IInv => EvidenceAgrees
  BY DEF IInv
<1> QED
  BY <1>1, Inductive, PTL

(* The counter of bytes is the truth.                                      *)
Tallied == IsFiniteSet(KeptBytes) /\ cacheBytes = Cardinality(KeptBytes)

(* A step that leaves the ready entries and the counter alone.             *)
LEMMA BytesStay ==
  ASSUME Tallied, UNCHANGED cacheBytes,
         \A q \in Query : cache[q] \in Body \/ cache'[q] \in Body => cache'[q] = cache[q]
  PROVE  Tallied'
<1>1. Ready' = Ready /\ \A q \in Ready : cache'[q] = cache[q]
  BY DEF Ready
<1>2. KeptBytes' = KeptBytes
  BY <1>1 DEF KeptBytes
<1> QED
  BY <1>2 DEF Tallied

(* A body an owner stores adds its bytes to those of the others.           *)
LEMMA BytesAdded ==
  ASSUME Tallied, NEW q \in Query, NEW b \in Body, cache[q] \notin Body, cache'[q] = b,
         \A p \in Query : p # q => cache'[p] = cache[p],
         cacheBytes' = cacheBytes + Bytes[b]
  PROVE  Tallied'
<1> DEFINE more == {q} \X (1 .. Bytes[b])
<1>1. Bytes[b] \in Nat
  BY OsvCacheAssumption
<1>2. Ready' = Ready \cup {q} /\ q \notin Ready /\ \A p \in Ready : cache'[p] = cache[p]
  BY DEF Ready
<1>3. KeptBytes' = KeptBytes \cup more
  <2>1. KeptBytes' = UNION {{p} \X (1 .. Bytes[cache'[p]]) : p \in Ready \cup {q}}
    BY <1>2 DEF KeptBytes
  <2>2. \A p \in Ready : {p} \X (1 .. Bytes[cache'[p]]) = {p} \X (1 .. Bytes[cache[p]])
    BY <1>2
  <2>3. {q} \X (1 .. Bytes[cache'[q]]) = more
    OBVIOUS
  <2> HIDE DEF more
  <2> QED
    BY <2>1, <2>2, <2>3 DEF KeptBytes
<1>4. KeptBytes \cap more = {}
  BY <1>2 DEF KeptBytes
<1>5. IsFiniteSet(more) /\ Cardinality(more) = Bytes[b]
  <2>1. IsFiniteSet(1 .. Bytes[b]) /\ Cardinality(1 .. Bytes[b]) = Bytes[b]
    <3>1. IsFiniteSet(1 .. Bytes[b]) /\ Cardinality(1 .. Bytes[b]) = IF 1 > Bytes[b] THEN 0 ELSE Bytes[b] - 1 + 1
      BY <1>1, FS_Interval
    <3> QED
      BY <1>1, <3>1
  <2>2. IsFiniteSet({q}) /\ Cardinality({q}) = 1
    BY FS_Singleton
  <2>3. IsFiniteSet(more) /\ Cardinality(more) = Cardinality({q}) * Cardinality(1 .. Bytes[b])
    BY <2>1, <2>2, FS_Product
  <2>4. 1 * Bytes[b] = Bytes[b]
    BY <1>1
  <2> QED
    BY <2>1, <2>2, <2>3, <2>4
<1> HIDE DEF more
<1>6. /\ IsFiniteSet(KeptBytes \cup more)
      /\ Cardinality(KeptBytes \cup more) = Cardinality(KeptBytes) + Cardinality(more) - Cardinality({})
  BY <1>4, <1>5, FS_Union DEF Tallied
<1>7. Cardinality({}) = 0 /\ Cardinality(KeptBytes) \in Nat
  BY FS_EmptySet, FS_CardinalityType DEF Tallied
<1>8. Cardinality(KeptBytes \cup more) = Cardinality(KeptBytes) + Bytes[b]
  BY <1>1, <1>5, <1>6, <1>7
<1> QED
  BY <1>3, <1>6, <1>8 DEF Tallied

LEMMA BytesCounted == Spec => []Tallied
<1>1. Init => Tallied
  <2> SUFFICES ASSUME Init PROVE Tallied
    OBVIOUS
  <2>1. Ready = {}
    BY Marks DEF Init, Ready
  <2>2. KeptBytes = {}
    BY <2>1 DEF KeptBytes
  <2> QED
    BY <2>2, FS_EmptySet DEF Init, Tallied
<1>2. IInv /\ Tallied /\ [Next]_vars => Tallied'
  <2> SUFFICES ASSUME IInv, Tallied, [Next]_vars PROVE Tallied'
    OBVIOUS
  <2>1. CASE UNCHANGED <<cache, cacheBytes>>
    BY <2>1, BytesStay
  <2>2. CASE \E c \in Caller : \E p \in Query : Own(c, p)
    <3>1. PICK c \in Caller, p \in Query : Own(c, p)
      BY <2>2
    <3>2. /\ cache[p] = "absent" /\ cache' = [cache EXCEPT ![p] = "inflight"]
          /\ UNCHANGED cacheBytes
      BY <3>1 DEF Own
    <3>3. /\ cache[p] \notin Body /\ cache'[p] \notin Body
          /\ \A q \in Query : q # p => cache'[q] = cache[q]
      BY <3>2, Marks DEF IInv, TypeOK
    <3> QED
      BY <3>2, <3>3, BytesStay
  <2>3. CASE \E c \in Caller : \E answer \in Answer : Fetched(c, answer)
    <3>1. PICK c \in Caller, answer \in Answer : Fetched(c, answer)
      BY <2>3
    <3> DEFINE q == asked[c]
               outcome == Verdict(c, answer)
    <3>2. /\ q \in Query /\ cache[q] = "inflight" /\ cache' = [cache EXCEPT ![q] = Stored(outcome)]
          /\ cacheBytes' = IF outcome \in Body THEN cacheBytes + Bytes[outcome] ELSE cacheBytes
      BY <3>1 DEF Fetched, IInv, Owning
    <3> HIDE DEF q, outcome
    <3>3. /\ cache[q] \notin Body /\ cache'[q] = Stored(outcome)
          /\ \A p \in Query : p # q => cache'[p] = cache[p]
      BY <3>2, Marks DEF IInv, TypeOK
    <3>4. CASE outcome \in Body
      <4>1. Stored(outcome) = outcome
        BY <3>4, Marks DEF Stored
      <4> QED
        BY <3>2, <3>3, <3>4, <4>1, BytesAdded
    <3>5. CASE outcome \notin Body
      <4>1. Stored(outcome) \notin Body
        BY <3>5, Marks DEF Stored
      <4> QED
        BY <3>2, <3>3, <3>5, <4>1, BytesStay
    <3> QED
      BY <3>4, <3>5
  <2> QED
    BY <2>1, <2>2, <2>3
    DEF vars, Next, CallerStep, Enrich, Cancel, Hit, Wait, Full, Resume, Conclude
<1> QED
  BY <1>1, <1>2, Inductive, PTL DEF Spec

(* The cache never exceeds either of its two budgets, and its counter is   *)
(* the size of the bodies in it (client.go:323-326, 334-336).              *)
THEOREM NeverOverBudget == Spec => []WithinBudget
<1>1. IInv /\ Tallied => WithinBudget
  BY DEF IInv, Budgets, Tallied, WithinBudget
<1> QED
  BY <1>1, Inductive, BytesCounted, PTL

(* At most one request is out for a query, whoever waits waits for one     *)
(* that is, and an entry in flight always has its owner.                   *)
THEOREM OneFlight == Spec => []SingleFlight
<1>1. IInv => SingleFlight
  <2> SUFFICES ASSUME IInv PROVE SingleFlight
    OBVIOUS
  <2> USE DEF IInv
  <2>1. ASSUME NEW q \in Query
        PROVE  Cardinality({c \in Caller : pc[c] = "fetching" /\ asked[c] = q})
                 = IF cache[q] = "inflight" THEN 1 ELSE 0
    <3> DEFINE owners == {c \in Caller : pc[c] = "fetching" /\ asked[c] = q}
    <3>1. CASE cache[q] = "inflight"
      <4>1. PICK c \in Caller : pc[c] = "fetching" /\ asked[c] = q
        BY <3>1 DEF Owning
      <4>2. owners = {c}
        BY <4>1 DEF Owning
      <4> QED
        BY <3>1, <4>2, FS_Singleton
    <3>2. CASE cache[q] # "inflight"
      <4>1. owners = {}
        BY <3>2 DEF Owning
      <4> QED
        BY <3>2, <4>1, FS_EmptySet
    <3> QED
      BY <3>1, <3>2
  <2> QED
    BY <2>1 DEF SingleFlight, Waiting
<1> QED
  BY <1>1, Inductive, PTL

(* What a query came to stays, and a cancellation is never part of it.     *)
THEOREM NoCancellationCached == Spec => CancellationNotCached
<1> DEFINE Stays ==
      \A q \in Query :
       /\ cache[q] \in Body \cup {"failed"} => cache'[q] = cache[q]
       /\ cache[q] = "inflight" /\ cache'[q] \notin {"inflight", "absent"}
            => \E c \in Caller : pc[c] = "fetching" /\ asked[c] = q /\ live[c]
<1>1. IInv /\ [Next]_vars => [Stays]_vars
  <2> SUFFICES ASSUME IInv, Next, NEW q \in Query
               PROVE  /\ cache[q] \in Body \cup {"failed"} => cache'[q] = cache[q]
                      /\ cache[q] = "inflight" /\ cache'[q] \notin {"inflight", "absent"}
                           => \E c \in Caller : pc[c] = "fetching" /\ asked[c] = q /\ live[c]
    OBVIOUS
  <2> USE DEF IInv
  <2>1. CASE cache' = cache
    BY <2>1
  <2>2. CASE \E c \in Caller : \E p \in Query : Own(c, p)
    <3>1. PICK c \in Caller, p \in Query : Own(c, p)
      BY <2>2
    <3>2. cache[p] = "absent" /\ cache' = [cache EXCEPT ![p] = "inflight"]
      BY <3>1 DEF Own
    <3> QED
      BY <3>2, Marks DEF TypeOK
  <2>3. CASE \E c \in Caller : \E answer \in Answer : Fetched(c, answer)
    <3>1. PICK c \in Caller, answer \in Answer : Fetched(c, answer)
      BY <2>3
    <3>2. /\ pc[c] = "fetching" /\ cache[asked[c]] = "inflight"
          /\ cache' = [cache EXCEPT ![asked[c]] = Stored(Verdict(c, answer))]
      BY <3>1 DEF Fetched, Owning
    <3>3. ~live[c] => Stored(Verdict(c, answer)) = "absent"
      BY DEF Verdict, Stored
    <3> QED
      BY <3>2, <3>3, Marks DEF TypeOK
  <2> QED
    BY <2>1, <2>2, <2>3 DEF Next, CallerStep, Enrich, Cancel, Hit, Wait, Full, Resume, Conclude
<1> QED
  BY <1>1, Inductive, PTL DEF CancellationNotCached, Spec
-----------------------------------------------------------------------------

(* The least of a set of numbers, for arguments by induction.              *)
LEMMA Least ==
  ASSUME NEW S \in SUBSET Nat, S # {}
  PROVE  \E least \in S : \A k \in S : least <= k
<1>1. PICK least \in S : \A k \in S : ~(<<k, least>> \in OpToRel(<, Nat))
  BY NatLessThanWellFounded, WFMin
<1>2. \A k \in S : ~(k < least)
  BY <1>1 DEF OpToRel
<1>3. \A k \in S : k \in Nat /\ least \in Nat
  OBVIOUS
<1> QED
  BY <1>2, <1>3

(* Induction up to a number, over a set instead of a predicate.            *)
LEMMA UpTo ==
  ASSUME NEW n \in Nat, NEW S, 0 \in S, \A k \in 1 .. n : k - 1 \in S => k \in S
  PROVE  \A k \in 0 .. n : k \in S
<1> DEFINE Bad == {k \in 0 .. n : k \notin S}
<1> SUFFICES ASSUME Bad # {} PROVE FALSE
  OBVIOUS
<1>1. PICK k \in Bad : \A j \in Bad : k <= j
  <2>1. Bad \in SUBSET Nat
    OBVIOUS
  <2> HIDE DEF Bad
  <2> QED
    BY <2>1, Least
<1>2. k \in 1 .. n
  OBVIOUS
<1>3. k - 1 \in 0 .. n /\ k - 1 \notin Bad
  BY <1>1, <1>2
<1> QED
  BY <1>2, <1>3

(* A recursion over numbers is a function, whose steps are functions.      *)
Steps(step, n, X, base) == base \in X /\ step \in [1 .. n -> [X -> X]]
Computes(f, step, n, X, base) ==
  f \in [0 .. n -> X] /\ f[0] = base /\ \A k \in 1 .. n : f[k] = step[k][f[k - 1]]

LEMMA Recursion ==
  ASSUME NEW n \in Nat, NEW X, NEW base, NEW step, Steps(step, n, X, base)
  PROVE  \E f : Computes(f, step, n, X, base)
<1> USE DEF Steps
<1> DEFINE Solves(f, k) == f[0] = base /\ \A i \in 1 .. k : f[i] = step[i][f[i - 1]]
           S == {k \in 0 .. n : \E f \in [0 .. k -> X] : Solves(f, k)}
<1>1. 0 \in S
  <2> DEFINE f == [k \in 0 .. 0 |-> base]
  <2>1. f \in [0 .. 0 -> X] /\ Solves(f, 0)
    OBVIOUS
  <2>2. 0 \in 0 .. n
    OBVIOUS
  <2> HIDE DEF f
  <2> QED
    BY <2>1, <2>2
<1>2. ASSUME NEW k \in 1 .. n, k - 1 \in S PROVE k \in S
  <2>1. PICK f \in [0 .. (k - 1) -> X] : Solves(f, k - 1)
    BY <1>2
  <2> DEFINE g == [i \in 0 .. k |-> IF i = k THEN step[k][f[k - 1]] ELSE f[i]]
  <2>2. f[k - 1] \in X /\ step[k] \in [X -> X]
    OBVIOUS
  <2>3. g \in [0 .. k -> X]
    BY <2>2
  <2>4. \A i \in 0 .. (k - 1) : g[i] = f[i]
    OBVIOUS
  <2>5. g[k] = step[k][f[k - 1]]
    OBVIOUS
  <2> HIDE DEF g
  <2>6. Solves(g, k)
    <3>1. g[0] = base
      BY <2>1, <2>4
    <3>2. ASSUME NEW i \in 1 .. k PROVE g[i] = step[i][g[i - 1]]
      <4>1. CASE i = k
        BY <4>1, <2>4, <2>5
      <4>2. CASE i # k
        <5>1. i \in 1 .. (k - 1) /\ i \in 0 .. (k - 1) /\ i - 1 \in 0 .. (k - 1)
          BY <4>2
        <5> QED
          BY <5>1, <2>1, <2>4
      <4> QED
        BY <4>1, <4>2
    <3> QED
      BY <3>1, <3>2
  <2> QED
    BY <2>3, <2>6
<1> HIDE DEF S
<1>3. \A k \in 0 .. n : k \in S
  BY <1>1, <1>2, UpTo
<1>4. n \in 0 .. n
  OBVIOUS
<1> QED
  BY <1>3, <1>4 DEF S, Computes
-----------------------------------------------------------------------------
(* What Kept keeps, and that it keeps nothing twice.                       *)
LEMMA KeptElements ==
  ASSUME NEW U, NEW list \in Seq(U), NEW T
  PROVE  /\ Kept(list, T) \in Seq(U)
         /\ Range(Kept(list, T)) = Range(list) \cap T
         /\ IsInjective(list) => IsInjective(Kept(list, T))
<1> DEFINE n == Len(list)
           step == [k \in 1 .. n |-> [x \in Seq(U) |->
                      IF list[k] \in T THEN Append(x, list[k]) ELSE x]]
           Rule(f) == [k \in 0 .. n |-> IF k = 0 THEN <<>>
                         ELSE IF list[k] \in T THEN Append(f[k - 1], list[k]) ELSE f[k - 1]]
           kept == CHOOSE f : f = Rule(f)
<1>1. n \in Nat /\ \A k \in 1 .. n : list[k] \in U
  OBVIOUS
<1>2. \A k \in 1 .. n : \A x \in Seq(U) : step[k][x] \in Seq(U)
  BY <1>1
<1>3. step \in [1 .. n -> [Seq(U) -> Seq(U)]]
  BY <1>2
<1>4. <<>> \in Seq(U)
  OBVIOUS
<1>5. PICK g : Computes(g, step, n, Seq(U), <<>>)
  <2>1. Steps(step, n, Seq(U), <<>>)
    BY <1>3, <1>4 DEF Steps
  <2> HIDE DEF step, n
  <2> QED
    BY <1>1, <2>1, Recursion
<1>6. \A k \in 1 .. n : g[k - 1] \in Seq(U)
  <2> HIDE DEF n
  <2>1. \A k \in 1 .. n : k - 1 \in 0 .. n
    BY <1>1
  <2> QED
    BY <1>5, <2>1 DEF Computes
<1>7. \A k \in 0 .. n : g[k] = IF k = 0 THEN <<>>
                         ELSE IF list[k] \in T THEN Append(g[k - 1], list[k]) ELSE g[k - 1]
  <2>1. \A k \in 1 .. n : step[k][g[k - 1]] =
          IF list[k] \in T THEN Append(g[k - 1], list[k]) ELSE g[k - 1]
    BY <1>6
  <2>2. g[0] = <<>> /\ \A k \in 1 .. n : g[k] = step[k][g[k - 1]]
    BY <1>5 DEF Computes
  <2> HIDE DEF step, n
  <2> QED
    BY <1>1, <2>1, <2>2
<1>8. g = Rule(g)
  BY <1>5, <1>7 DEF Computes
<1>9. kept = Rule(kept)
  <2>1. \E f : f = Rule(f)
    BY <1>8
  <2> HIDE DEF Rule
  <2> QED
    BY <2>1
<1>10. Kept(list, T) = kept[n]
  BY DEF Kept
<1> DEFINE Sound(k) == /\ kept[k] \in Seq(U)
                       /\ \A x : x \in Range(kept[k]) <=> x \in T /\ \E i \in 1 .. k : list[i] = x
                       /\ IsInjective(list) => IsInjective(kept[k])
           S == {k \in 0 .. n : Sound(k)}
<1>11. kept[0] = <<>> /\ \A k \in 1 .. n :
         kept[k] = IF list[k] \in T THEN Append(kept[k - 1], list[k]) ELSE kept[k - 1]
  <2> HIDE DEF kept
  <2>1. DOMAIN kept = 0 .. n /\ \A k \in 0 .. n : kept[k] = Rule(kept)[k]
    BY <1>9
  <2>2. \A k \in 0 .. n : kept[k] = IF k = 0 THEN <<>>
          ELSE IF list[k] \in T THEN Append(kept[k - 1], list[k]) ELSE kept[k - 1]
    BY <2>1
  <2>3. 0 \in 0 .. n /\ \A k \in 1 .. n : k \in 0 .. n /\ k # 0
    BY <1>1
  <2> HIDE DEF n
  <2> QED
    BY <2>2, <2>3
<1> HIDE DEF kept
<1>12. 0 \in S
  <2>1. kept[0] = <<>> /\ kept[0] \in Seq(U) /\ DOMAIN kept[0] = {}
    BY <1>11
  <2>2. Range(kept[0]) = {} /\ IsInjective(kept[0])
    BY <2>1 DEF Range, IsInjective
  <2>3. 0 \in 0 .. n /\ ~ \E i \in 1 .. 0 : TRUE
    BY <1>1
  <2> QED
    BY <2>1, <2>2, <2>3
<1>13. ASSUME NEW k \in 1 .. n, k - 1 \in S PROVE k \in S
  <2>1. k - 1 \in 0 .. n /\ Sound(k - 1)
    BY <1>13
  <2> DEFINE s == kept[k - 1]
  <2>2. CASE list[k] \in T
    <3>1. kept[k] = Append(s, list[k])
      BY <1>11, <2>2
    <3> HIDE DEF s
    <3>2. s \in Seq(U) /\ list[k] \in U /\ Len(s) \in Nat
      BY <2>1, <1>1 DEF s
    <3>3. kept[k] \in Seq(U) /\ DOMAIN kept[k] = 1 .. (Len(s) + 1) /\ DOMAIN s = 1 .. Len(s)
      BY <3>1, <3>2
    <3>4. kept[k][Len(s) + 1] = list[k] /\ \A i \in 1 .. Len(s) : kept[k][i] = s[i]
      BY <3>1, <3>2
    <3>5. \A x : x \in Range(kept[k]) <=> x \in Range(s) \/ x = list[k]
      <4>1. \A i \in DOMAIN kept[k] : i \in DOMAIN s \/ i = Len(s) + 1
        BY <3>2, <3>3
      <4>2. Len(s) + 1 \in DOMAIN kept[k] /\ DOMAIN s \subseteq DOMAIN kept[k]
        BY <3>2, <3>3
      <4>3. \A i \in DOMAIN s : kept[k][i] = s[i]
        BY <3>3, <3>4
      <4> QED
        BY <4>1, <4>2, <4>3, <3>4 DEF Range
    <3>6. \A x : x \in Range(s) <=> x \in T /\ \E i \in 1 .. (k - 1) : list[i] = x
      BY <2>1 DEF s
    <3>7. \A x : x \in Range(kept[k]) <=> x \in T /\ \E i \in 1 .. k : list[i] = x
      BY <2>2, <3>5, <3>6
    <3>8. IsInjective(list) => IsInjective(kept[k])
      <4> SUFFICES ASSUME IsInjective(list) PROVE IsInjective(kept[k])
        OBVIOUS
      <4>1. list[k] \notin Range(s)
        BY <1>1, <3>6 DEF IsInjective
      <4>2. \A i \in 1 .. Len(s) : s[i] # list[k]
        BY <4>1, <3>3 DEF Range
      <4>3. IsInjective(s)
        BY <2>1 DEF s
      <4> QED
        BY <4>2, <4>3, <3>2, <3>3, <3>4 DEF IsInjective
    <3> QED
      BY <3>3, <3>7, <3>8
  <2>3. CASE list[k] \notin T
    <3>1. kept[k] = s
      BY <1>11, <2>3
    <3>2. \A x : x \in Range(s) <=> x \in T /\ \E i \in 1 .. (k - 1) : list[i] = x
      BY <2>1
    <3>3. \A x : x \in Range(kept[k]) <=> x \in T /\ \E i \in 1 .. k : list[i] = x
      BY <3>1, <3>2, <2>3
    <3> QED
      BY <2>1, <3>1, <3>3
  <2> QED
    BY <2>2, <2>3
<1> HIDE DEF S
<1>14. \A k \in 0 .. n : k \in S
  BY <1>1, <1>12, <1>13, UpTo
<1>15. n \in 0 .. n
  BY <1>1
<1>16. Sound(n)
  BY <1>14, <1>15 DEF S
<1>17. Range(list) = {list[i] : i \in 1 .. n}
  BY DEF Range
<1> QED
  BY <1>10, <1>16, <1>17
-----------------------------------------------------------------------------
(* What the discovery knows of each query: one of a later batch has not    *)
(* been asked; one of the batch has the ids of the pages before its token; *)
(* all others are settled.                                                 *)

Errors == {NoError, "invalid", "context", "skipped", "request", "id", "repeated", "pages"}

Result(i) == [ids : SUBSET (Everywhere(i) \ {BadId}), complete : BOOLEAN, error : Errors]

DiscoveryTyped ==
  /\ catalog \in Catalogs \cup {<<>>} /\ page \in Nat
  /\ DOMAIN results = DOMAIN catalog /\ DOMAIN token = DOMAIN catalog
  /\ DOMAIN seen = DOMAIN catalog
  /\ results = [i \in DOMAIN results |-> results[i]]
  /\ \A i \in DOMAIN catalog : results[i] \in Result(i)
  /\ pending \in Seq(DOMAIN catalog) /\ active \in Seq(DOMAIN catalog)
  /\ IsInjective(pending) /\ Range(pending) \cap Range(active) = {}

Open(r) == r.error = NoError /\ ~r.complete

Later == \A i \in Range(pending) :
  Open(results[i]) /\ results[i].ids = {} /\ token[i] = 1 /\ seen[i] = {}

(* Query i has its first pages and is to ask for page t, the given ones not *)
(* again unless it loops.                                                   *)
Standing(i, r, t, given, p) ==
  /\ t \in 1 .. Len(catalog[i].pages) /\ given \subseteq 1 .. t
  /\ catalog[i].loops \/ p = t
  /\ \A k \in 1 .. (t - 1) : catalog[i].pages[k] \subseteq r.ids /\ BadId \notin catalog[i].pages[k]

Underway == \A i \in Range(active) :
  Open(results[i]) /\ Standing(i, results[i], token[i], seen[i], page)

Settled == \A i \in DOMAIN catalog :
  i \notin Range(pending) \cup Range(active) => (results[i].complete <=> results[i].error = NoError)

(* What DiscoveryHonest says of one result at any time.                     *)
Honest(i, r) ==
  /\ r.complete => /\ r.ids = Everywhere(i) /\ BadId \notin r.ids
                   /\ r.error = NoError /\ ~catalog[i].loops
  /\ r.error = "id" => BadId \in Everywhere(i)
  /\ r.error = "repeated" => catalog[i].loops
  /\ r.error = "pages" => catalog[i].loops \/ Len(catalog[i].pages) > MaxPages

DInv == /\ DiscoveryTyped /\ Later /\ Underway /\ Settled
        /\ \A i \in DOMAIN catalog : Honest(i, results[i])

LEMMA CatalogFacts ==
  ASSUME catalog \in Catalogs \cup {<<>>}, NEW i \in DOMAIN catalog
  PROVE  /\ catalog[i].valid \in BOOLEAN /\ catalog[i].loops \in BOOLEAN
         /\ Len(catalog[i].pages) \in Nat /\ Len(catalog[i].pages) >= 1
         /\ DOMAIN catalog[i].pages = 1 .. Len(catalog[i].pages)
<1>1. catalog \in Catalogs /\ catalog[i] \in Range(catalog)
  BY DEF Range
<1>2. /\ catalog[i].valid \in BOOLEAN /\ catalog[i].loops \in BOOLEAN
      /\ catalog[i].pages \in Seq(Range(catalog[i].pages)) /\ catalog[i].pages # <<>>
  BY <1>1, OsvDiscoveryAssumption
<1> DEFINE p == catalog[i].pages
<1>3. p \in Seq(Range(p)) /\ p # <<>>
  BY <1>2
<1> HIDE DEF p
<1>4. Len(p) \in Nat /\ DOMAIN p = 1 .. Len(p) /\ Len(p) # 0
  BY <1>3
<1> QED
  BY <1>2, <1>4 DEF p

(* A page that is answered: the query is settled honestly, or goes on.      *)
LEMMA PageApplied ==
  ASSUME DiscoveryTyped, NEW i \in DOMAIN catalog, NEW r \in Result(i), NEW t, NEW given,
         Open(r), Standing(i, r, t, given, page)
  PROVE  LET next == Following(i, t)
             after == Applied(r, [ids |-> catalog[i].pages[t], next |-> next], given)
         IN /\ after \in Result(i) /\ Honest(i, after)
            /\ Open(after) => Standing(i, after, next, given \cup {next}, page + 1)
            /\ ~Open(after) => (after.complete <=> after.error = NoError)
<1> DEFINE pages == catalog[i].pages
           next == Following(i, t)
           answer == [ids |-> pages[t], next |-> next]
           more == [r EXCEPT !.ids = @ \cup (answer.ids \ {BadId})]
           after == Applied(r, answer, given)
<1>1. /\ catalog[i].loops \in BOOLEAN /\ Len(pages) \in Nat /\ Len(pages) >= 1
      /\ DOMAIN pages = 1 .. Len(pages)
  BY CatalogFacts DEF DiscoveryTyped
<1>2. /\ t \in 1 .. Len(pages) /\ given \subseteq 1 .. t /\ (catalog[i].loops \/ page = t)
      /\ \A k \in 1 .. (t - 1) : pages[k] \subseteq r.ids /\ BadId \notin pages[k]
  BY DEF Standing
<1>3. /\ r.ids \subseteq Everywhere(i) \ {BadId} /\ ~r.complete /\ r.error = NoError
      /\ r = [ids |-> r.ids, complete |-> r.complete, error |-> r.error]
  BY DEF Result, Open
<1>4. pages[t] \subseteq Everywhere(i) /\ \A k \in DOMAIN pages : pages[k] \subseteq Everywhere(i)
  BY <1>1, <1>2 DEF Everywhere, Range
<1>5. more = [ids |-> r.ids \cup (pages[t] \ {BadId}), complete |-> FALSE, error |-> NoError]
  <2>1. more = [ids |-> r.ids \cup (pages[t] \ {BadId}), complete |-> r.complete, error |-> r.error]
    BY DEF Result
  <2>2. r.complete = FALSE
    BY DEF Result, Open
  <2> QED
    BY <2>1, <2>2, <1>3
<1>6. more.ids \subseteq Everywhere(i) \ {BadId}
  BY <1>3, <1>4, <1>5
<1>7. after = IF BadId \in pages[t] THEN [more EXCEPT !.error = "id"]
              ELSE IF next = 0 THEN [more EXCEPT !.complete = TRUE]
              ELSE IF next \in given THEN [more EXCEPT !.error = "repeated"]
              ELSE IF page >= MaxPages THEN [more EXCEPT !.error = "pages"]
              ELSE more
  BY DEF Applied
<1>8. next = IF t < Len(pages) THEN t + 1 ELSE IF catalog[i].loops THEN t ELSE 0
  BY DEF Following
<1> DEFINE ids == r.ids \cup (pages[t] \ {BadId})
           Goal == /\ after \in Result(i) /\ Honest(i, after)
                   /\ Open(after) => Standing(i, after, next, given \cup {next}, page + 1)
                   /\ ~Open(after) => (after.complete <=> after.error = NoError)
<1> SUFFICES Goal
  OBVIOUS
<1> HIDE DEF more, after, next, pages, ids
<1>9. CASE BadId \in pages[t]
  <2>1. after = [ids |-> ids, complete |-> FALSE, error |-> "id"]
    BY <1>5, <1>7, <1>9 DEF ids
  <2>2. BadId \in Everywhere(i)
    BY <1>4, <1>9
  <2> QED
    BY <2>1, <2>2, <1>5, <1>6 DEF Result, Honest, Open, NoError, Errors, ids
<1>10. CASE BadId \notin pages[t] /\ next = 0
  <2>1. after = [ids |-> ids, complete |-> TRUE, error |-> NoError]
    BY <1>5, <1>7, <1>10 DEF ids
  <2>2. t = Len(pages) /\ ~catalog[i].loops
    BY <1>1, <1>2, <1>8, <1>10
  <2>3. \A k \in 1 .. Len(pages) : pages[k] \subseteq ids
    <3>1. \A k \in 1 .. t : k \in 1 .. (t - 1) \/ k = t
      BY <1>1, <1>2
    <3> QED
      BY <3>1, <2>2, <1>2, <1>10 DEF ids
  <2>4. ids = Everywhere(i) /\ BadId \notin ids
    <3>1. Everywhere(i) \subseteq ids
      BY <2>3, <1>1 DEF Everywhere, Range, pages
    <3> QED
      BY <3>1, <1>5, <1>6 DEF ids
  <2> QED
    BY <2>1, <2>2, <2>4 DEF Result, Honest, Open, NoError, Errors
<1>11. CASE BadId \notin pages[t] /\ next # 0 /\ next \in given
  <2>1. after = [ids |-> ids, complete |-> FALSE, error |-> "repeated"]
    BY <1>5, <1>7, <1>11 DEF ids
  <2>2. catalog[i].loops
    BY <1>1, <1>2, <1>8, <1>11
  <2> QED
    BY <2>1, <2>2, <1>5, <1>6 DEF Result, Honest, Open, NoError, Errors, ids
<1>12. CASE BadId \notin pages[t] /\ next # 0 /\ next \notin given /\ page >= MaxPages
  <2>1. after = [ids |-> ids, complete |-> FALSE, error |-> "pages"]
    BY <1>5, <1>7, <1>12 DEF ids
  <2>2. catalog[i].loops \/ Len(pages) > MaxPages
    BY <1>1, <1>2, <1>8, <1>12, OsvDiscoveryAssumption
  <2> QED
    BY <2>1, <2>2, <1>5, <1>6 DEF Result, Honest, Open, NoError, Errors, ids, pages
<1>13. CASE BadId \notin pages[t] /\ next # 0 /\ next \notin given /\ ~(page >= MaxPages)
  <2>1. after = [ids |-> ids, complete |-> FALSE, error |-> NoError]
    BY <1>5, <1>7, <1>13 DEF ids
  <2>2. /\ next \in 1 .. Len(pages) /\ given \cup {next} \subseteq 1 .. next
        /\ next = t \/ next = t + 1
    BY <1>1, <1>2, <1>8, <1>13
  <2>3. catalog[i].loops \/ page + 1 = next
    BY <1>1, <1>2, <1>8, <1>13
  <2>4. \A k \in 1 .. (next - 1) : pages[k] \subseteq ids /\ BadId \notin pages[k]
    <3>1. \A k \in 1 .. (next - 1) : k \in 1 .. (t - 1) \/ k = t
      BY <1>2, <2>2
    <3> QED
      BY <3>1, <1>2, <1>13 DEF ids
  <2>5. Standing(i, after, next, given \cup {next}, page + 1)
    BY <2>1, <2>2, <2>3, <2>4 DEF Standing, pages
  <2>6. after \in Result(i) /\ Honest(i, after) /\ Open(after)
    BY <2>1, <1>5, <1>6 DEF Result, Honest, Open, NoError, Errors, ids
  <2> QED
    BY <2>5, <2>6
<1> QED
  BY <1>9, <1>10, <1>11, <1>12, <1>13

-----------------------------------------------------------------------------
(* Every step of the discovery keeps what it knows.                        *)

LEMMA DiscoveryStarts == DiscoveryIdle => DInv
<1> SUFFICES ASSUME DiscoveryIdle PROVE DInv
  OBVIOUS
<1>1. /\ catalog = <<>> /\ pending = <<>> /\ active = <<>> /\ page = 0
      /\ token = <<>> /\ seen = <<>> /\ results = <<>>
  BY DEF DiscoveryIdle
<1>2. DOMAIN catalog = {} /\ Range(pending) = {} /\ Range(active) = {}
  BY <1>1 DEF Range
<1>3. DiscoveryTyped
  BY <1>1, <1>2 DEF DiscoveryTyped, IsInjective
<1> QED
  BY <1>2, <1>3 DEF DInv, Later, Underway, Settled

LEMMA DiscoveryRests == DInv /\ UNCHANGED discovery => DInv'
<1> SUFFICES ASSUME DInv, UNCHANGED discovery PROVE DInv'
  OBVIOUS
<1>1. /\ catalog' = catalog /\ pending' = pending /\ active' = active /\ page' = page
      /\ token' = token /\ seen' = seen /\ results' = results
  BY DEF discovery
<1> QED
  BY <1>1 DEF DInv, DiscoveryTyped, Later, Underway, Settled, Honest, Result, Open, Standing, Everywhere

LEMMA DiscoveryBegins == DInv /\ DiscoveryBegin => DInv'
<1> SUFFICES ASSUME DInv, DiscoveryBegin PROVE DInv'
  OBVIOUS
<1> DEFINE all == [i \in DOMAIN catalog' |-> i]
           valid == {i \in DOMAIN catalog' : catalog'[i].valid}
<1>1. /\ catalog' \in Catalogs /\ pending' = Kept(all, valid) /\ active' = <<>> /\ page' = 0
      /\ results' = [i \in DOMAIN catalog' |-> Empty(i)]
      /\ token' = [i \in DOMAIN catalog' |-> 1] /\ seen' = [i \in DOMAIN catalog' |-> {}]
  BY DEF DiscoveryBegin
<1>2. catalog' \in Seq(Range(catalog'))
  BY <1>1, OsvDiscoveryAssumption
<1>3. PICK n \in Nat : DOMAIN catalog' = 1 .. n
  BY <1>2
<1>4. all \in Seq(DOMAIN catalog') /\ Range(all) = DOMAIN catalog' /\ IsInjective(all)
  BY <1>3 DEF Range, IsInjective
<1>5. /\ pending' \in Seq(DOMAIN catalog') /\ Range(pending') = Range(all) \cap valid
      /\ IsInjective(pending')
  <2> HIDE DEF all, valid
  <2> QED
    BY <1>1, <1>4, KeptElements
<1>6. Range(pending') = valid /\ Range(active') = {} /\ active' \in Seq(DOMAIN catalog')
  <2>1. Range(all) \cap valid = valid
    BY <1>4
  <2>2. Range(active') = {}
    BY <1>1 DEF Range
  <2> QED
    <3>1. active' \in Seq(DOMAIN catalog')
      BY <1>1
    <3> HIDE DEF all, valid
    <3> QED
      BY <1>5, <2>1, <2>2, <3>1
<1>7. ASSUME NEW i \in DOMAIN catalog'
      PROVE /\ results'[i].ids = {} /\ results'[i].complete = FALSE
            /\ results'[i].error = IF i \in valid THEN NoError ELSE "invalid"
            /\ results'[i] \in [ids : {{}}, complete : {FALSE}, error : Errors]
            /\ token'[i] = 1 /\ seen'[i] = {}
  <2>1. results'[i] = [ids |-> {}, complete |-> FALSE,
                       error |-> IF catalog'[i].valid THEN NoError ELSE "invalid"]
    BY <1>1 DEF Empty
  <2> DEFINE e == IF catalog'[i].valid THEN NoError ELSE "invalid"
  <2>2. e \in Errors /\ e = IF i \in valid THEN NoError ELSE "invalid"
    BY DEF Errors, NoError
  <2> HIDE DEF e, valid
  <2>3. results'[i] = [ids |-> {}, complete |-> FALSE, error |-> e]
    BY <2>1 DEF e
  <2>4. token'[i] = 1 /\ seen'[i] = {}
    BY <1>1
  <2> QED
    BY <2>2, <2>3, <2>4
<1> HIDE DEF all, valid
<1>8. DiscoveryTyped'
  <2>1. \A i \in DOMAIN catalog' : results'[i] \in Result(i)'
    BY <1>7 DEF Result
  <2>2. results' = [i \in DOMAIN results' |-> results'[i]] /\ DOMAIN results' = DOMAIN catalog'
        /\ DOMAIN token' = DOMAIN catalog' /\ DOMAIN seen' = DOMAIN catalog'
    BY <1>1
  <2> QED
    BY <2>1, <2>2, <1>1, <1>5, <1>6 DEF DiscoveryTyped
<1>9. Later'
  BY <1>5, <1>6, <1>7 DEF Later, Open, NoError, valid
<1>10. Underway' /\ Settled'
  BY <1>6, <1>7 DEF Underway, Settled, NoError
<1>11. \A i \in DOMAIN catalog' : Honest(i, results[i])'
  BY <1>7 DEF Honest, NoError
<1> QED
  BY <1>8, <1>9, <1>10, <1>11 DEF DInv

LEMMA BatchKeeps == DInv /\ Batch => DInv'
<1> SUFFICES ASSUME DInv, Batch PROVE DInv'
  OBVIOUS
<1> DEFINE n == IF BatchSize < Len(pending) THEN BatchSize ELSE Len(pending)
<1>1. /\ active = <<>> /\ pending # <<>> /\ page' = 1
      /\ active' = SubSeq(pending, 1, n) /\ pending' = SubSeq(pending, n + 1, Len(pending))
      /\ UNCHANGED <<catalog, token, seen, results>>
  BY DEF Batch
<1>2. pending \in Seq(DOMAIN catalog) /\ IsInjective(pending)
  BY DEF DInv, DiscoveryTyped
<1> DEFINE m == Len(pending)
<1>3. m \in Nat /\ n \in 1 .. m /\ DOMAIN pending = 1 .. m
  BY <1>1, <1>2, OsvDiscoveryAssumption
<1>4. /\ active' \in Seq(DOMAIN catalog) /\ DOMAIN active' = 1 .. n
      /\ \A k \in 1 .. n : active'[k] = pending[k]
  <2> HIDE DEF n
  <2> QED
    BY <1>1, <1>2, <1>3
<1>5. /\ pending' \in Seq(DOMAIN catalog) /\ DOMAIN pending' = 1 .. (m - n)
      /\ \A k \in 1 .. (m - n) : pending'[k] = pending[n + k]
  <2> HIDE DEF n
  <2> QED
    BY <1>1, <1>2, <1>3
<1> HIDE DEF n, m
<1>6. \A x : x \in Range(active') => \E k \in 1 .. n : x = pending[k]
  BY <1>4 DEF Range
<1>7. \A x : x \in Range(pending') => \E k \in 1 .. m : x = pending[k] /\ k > n
  <2>1. \A k \in 1 .. (m - n) : n + k \in 1 .. m /\ n + k > n
    BY <1>3
  <2> QED
    BY <2>1, <1>5 DEF Range
<1>8. Range(pending) = Range(active') \cup Range(pending')
  <2>1. Range(active') \cup Range(pending') \subseteq Range(pending)
    <3>1. \A k \in 1 .. n : k \in 1 .. m
      BY <1>3
    <3> QED
      BY <1>3, <1>6, <1>7, <3>1 DEF Range
  <2>2. ASSUME NEW k \in 1 .. m PROVE pending[k] \in Range(active') \cup Range(pending')
    <3>1. CASE k <= n
      <4>1. k \in 1 .. n
        BY <1>3, <3>1
      <4> QED
        BY <4>1, <1>4 DEF Range
    <3>2. CASE k > n
      <4>1. k - n \in 1 .. (m - n) /\ n + (k - n) = k
        BY <1>3, <3>2
      <4> QED
        BY <4>1, <1>5 DEF Range
    <3> QED
      BY <1>3, <3>1, <3>2
  <2> QED
    BY <2>1, <2>2, <1>3 DEF Range
<1>9. Range(pending') \cap Range(active') = {}
  <2> SUFFICES ASSUME NEW x \in Range(pending'), x \in Range(active') PROVE FALSE
    OBVIOUS
  <2>1. PICK k \in 1 .. n : x = pending[k]
    BY <1>6
  <2>2. PICK l \in 1 .. m : x = pending[l] /\ l > n
    BY <1>7
  <2>3. k \in 1 .. m /\ k # l
    BY <1>3, <2>1, <2>2
  <2> QED
    BY <1>2, <1>3, <2>1, <2>2, <2>3 DEF IsInjective
<1>10. IsInjective(pending')
  <2> SUFFICES ASSUME NEW k \in 1 .. (m - n), NEW l \in 1 .. (m - n), pending'[k] = pending'[l]
               PROVE  k = l
    BY <1>5 DEF IsInjective
  <2>1. n + k \in 1 .. m /\ n + l \in 1 .. m
    BY <1>3
  <2>2. n + k = n + l
    BY <2>1, <1>2, <1>3, <1>5 DEF IsInjective
  <2> QED
    BY <1>3, <2>2
<1>11. Range(active) = {}
  BY <1>1 DEF Range
<1>12. DiscoveryTyped'
  BY <1>1, <1>4, <1>5, <1>9, <1>10 DEF DInv, DiscoveryTyped, Result, Everywhere
<1>13. Later'
  BY <1>1, <1>8 DEF DInv, Later, Open
<1>14. Underway'
  <2> SUFFICES ASSUME NEW i \in Range(active')
               PROVE  Open(results[i]) /\ Standing(i, results[i], token[i], seen[i], 1)
    BY <1>1 DEF Underway, Open, Standing
  <2>1. i \in Range(pending) /\ i \in DOMAIN catalog
    BY <1>2, <1>8 DEF Range
  <2>2. Open(results[i]) /\ token[i] = 1 /\ seen[i] = {}
    BY <2>1 DEF DInv, Later
  <2>3. Len(catalog[i].pages) \in Nat /\ Len(catalog[i].pages) >= 1
    BY <2>1, CatalogFacts DEF DInv, DiscoveryTyped
  <2> QED
    BY <2>2, <2>3 DEF Standing
<1>15. Settled'
  BY <1>1, <1>8, <1>11 DEF DInv, Settled
<1>16. \A i \in DOMAIN catalog' : Honest(i, results[i])'
  BY <1>1 DEF DInv, Honest, Everywhere
<1> QED
  BY <1>12, <1>13, <1>14, <1>15, <1>16 DEF DInv

(* All queries of a list get an error that says nothing of OSV's answers.   *)
LEMMA Marked ==
  ASSUME DInv, NEW list, Range(list) \subseteq DOMAIN catalog,
         NEW rs, DOMAIN rs = DOMAIN catalog,
         \A i \in DOMAIN catalog : rs[i] \in Result(i) /\ Honest(i, rs[i]),
         \A i \in Range(list) : ~rs[i].complete,
         NEW error \in {"context", "skipped", "request"}
  PROVE  LET after == Mark(rs, list, error)
         IN /\ after = [i \in DOMAIN catalog |-> after[i]]
            /\ \A i \in DOMAIN catalog :
                 /\ after[i] \in Result(i) /\ Honest(i, after[i])
                 /\ i \notin Range(list) => after[i] = rs[i]
                 /\ i \in Range(list) => ~after[i].complete /\ after[i].error # NoError
<1> DEFINE after == Mark(rs, list, error)
<1>1. /\ after = [i \in DOMAIN catalog |-> after[i]]
      /\ \A i \in DOMAIN catalog : after[i] =
           IF i \in Range(list) THEN [rs[i] EXCEPT !.error = error] ELSE rs[i]
  BY DEF Mark
<1> HIDE DEF after
<1>2. ASSUME NEW i \in DOMAIN catalog, i \in Range(list)
      PROVE  after[i] \in Result(i) /\ Honest(i, after[i])
             /\ ~after[i].complete /\ after[i].error # NoError
  <2>1. after[i] = [rs[i] EXCEPT !.error = error] /\ ~rs[i].complete /\ rs[i] \in Result(i)
    BY <1>1, <1>2
  <2>2. after[i].ids = rs[i].ids /\ after[i].complete = rs[i].complete /\ after[i].error = error
        /\ after[i] \in Result(i)
    BY <2>1 DEF Result, Errors
  <2> QED
    BY <2>1, <2>2 DEF Honest, NoError
<1>3. \A i \in DOMAIN catalog : i \notin Range(list) => after[i] = rs[i]
  BY <1>1
<1> QED
  BY <1>1, <1>2, <1>3 DEF after

LEMMA Members ==
  ASSUME DiscoveryTyped
  PROVE  Range(pending) \subseteq DOMAIN catalog /\ Range(active) \subseteq DOMAIN catalog
BY DEF DiscoveryTyped, Range

LEMMA RequestFailedKeeps == DInv /\ RequestFailed => DInv'
<1> SUFFICES ASSUME DInv, RequestFailed PROVE DInv'
  OBVIOUS
<1>1. /\ results' = Mark(results, active, "request") /\ active' = <<>>
      /\ UNCHANGED <<catalog, pending, page, token, seen>>
  BY DEF RequestFailed
<1>2. Range(pending) \subseteq DOMAIN catalog /\ Range(active) \subseteq DOMAIN catalog
      /\ Range(pending) \cap Range(active) = {}
  BY Members DEF DInv, DiscoveryTyped
<1>3. /\ results' = [i \in DOMAIN catalog |-> results'[i]]
      /\ \A i \in DOMAIN catalog :
           /\ results'[i] \in Result(i) /\ Honest(i, results'[i])
           /\ i \notin Range(active) => results'[i] = results[i]
           /\ i \in Range(active) => ~results'[i].complete /\ results'[i].error # NoError
  <2>1. /\ DOMAIN results = DOMAIN catalog
        /\ \A i \in DOMAIN catalog : results[i] \in Result(i) /\ Honest(i, results[i])
        /\ \A i \in Range(active) : ~results[i].complete
    BY DEF DInv, DiscoveryTyped, Underway, Open
  <2> QED
    BY <1>1, <1>2, <2>1, Marked
<1>4. Range(active') = {} /\ active' \in Seq(DOMAIN catalog)
  BY <1>1 DEF Range
<1>5. DiscoveryTyped'
  BY <1>1, <1>3, <1>4 DEF DInv, DiscoveryTyped, Result, Everywhere
<1>6. Later'
  BY <1>1, <1>2, <1>3 DEF DInv, Later, Open
<1>7. Underway' /\ Settled'
  BY <1>1, <1>2, <1>3, <1>4 DEF DInv, Underway, Settled
<1>8. \A i \in DOMAIN catalog' : Honest(i, results[i])'
  BY <1>1, <1>3 DEF Honest, Everywhere
<1> QED
  BY <1>5, <1>6, <1>7, <1>8 DEF DInv

LEMMA InterruptedKeeps == DInv /\ Interrupted => DInv'
<1> SUFFICES ASSUME DInv, Interrupted PROVE DInv'
  OBVIOUS
<1> DEFINE first == Mark(results, active, "context")
<1>1. /\ results' = Mark(first, pending, "skipped") /\ active' = <<>> /\ pending' = <<>>
      /\ UNCHANGED <<catalog, page, token, seen>>
  BY DEF Interrupted
<1>2. Range(pending) \subseteq DOMAIN catalog /\ Range(active) \subseteq DOMAIN catalog
      /\ Range(pending) \cap Range(active) = {}
  BY Members DEF DInv, DiscoveryTyped
<1>3. /\ first = [i \in DOMAIN catalog |-> first[i]]
      /\ \A i \in DOMAIN catalog :
           /\ first[i] \in Result(i) /\ Honest(i, first[i])
           /\ i \notin Range(active) => first[i] = results[i]
           /\ i \in Range(active) => ~first[i].complete /\ first[i].error # NoError
  <2>1. /\ DOMAIN results = DOMAIN catalog
        /\ \A i \in DOMAIN catalog : results[i] \in Result(i) /\ Honest(i, results[i])
        /\ \A i \in Range(active) : ~results[i].complete
    BY DEF DInv, DiscoveryTyped, Underway, Open
  <2> QED
    BY <1>2, <2>1, Marked
<1> HIDE DEF first
<1>4. /\ results' = [i \in DOMAIN catalog |-> results'[i]]
      /\ \A i \in DOMAIN catalog :
           /\ results'[i] \in Result(i) /\ Honest(i, results'[i])
           /\ i \notin Range(pending) => results'[i] = first[i]
           /\ i \in Range(pending) => ~results'[i].complete /\ results'[i].error # NoError
  <2>1. \A i \in Range(pending) : ~first[i].complete
    BY <1>2, <1>3 DEF DInv, Later, Open
  <2>2. DOMAIN first = DOMAIN catalog
    BY <1>3
  <2> QED
    BY <1>1, <1>2, <1>3, <2>1, <2>2, Marked
<1>5. /\ Range(active') = {} /\ active' \in Seq(DOMAIN catalog)
      /\ Range(pending') = {} /\ pending' \in Seq(DOMAIN catalog) /\ IsInjective(pending')
  BY <1>1 DEF Range, IsInjective
<1>6. DiscoveryTyped'
  BY <1>1, <1>4, <1>5 DEF DInv, DiscoveryTyped, Result, Everywhere
<1>7. Later' /\ Underway'
  BY <1>5 DEF Later, Underway
<1>8. Settled'
  BY <1>1, <1>2, <1>3, <1>4 DEF DInv, Settled
<1>9. \A i \in DOMAIN catalog' : Honest(i, results[i])'
  BY <1>1, <1>4 DEF Honest, Everywhere
<1> QED
  BY <1>6, <1>7, <1>8, <1>9 DEF DInv

LEMMA AnsweredKeeps == DInv /\ Answered => DInv'
<1> SUFFICES ASSUME DInv, Answered PROVE DInv'
  OBVIOUS
<1> DEFINE rs == [i \in DOMAIN results |->
                    IF \E j \in DOMAIN active : Target(j) = i
                    THEN LET j == CHOOSE k \in DOMAIN active : Target(k) = i
                         IN Applied(results[i], Reply[j], seen[i])
                    ELSE results[i]]
           going == {i \in DOMAIN rs : rs[i].error = NoError /\ ~rs[i].complete}
           next(i) == Following(i, token[i])
           answer(i) == [ids |-> catalog[i].pages[token[i]], next |-> next(i)]
<1>1. /\ results' = rs /\ active' = Kept(active, going) /\ page' = page + 1
      /\ token' = [i \in DOMAIN token |-> IF i \in Range(active') THEN next(i) ELSE token[i]]
      /\ seen' = [i \in DOMAIN seen |->
                    IF i \in Range(active') THEN seen[i] \cup {next(i)} ELSE seen[i]]
      /\ UNCHANGED <<catalog, pending>>
  BY DEF Answered
<1>2. /\ Range(pending) \subseteq DOMAIN catalog /\ Range(active) \subseteq DOMAIN catalog
      /\ Range(pending) \cap Range(active) = {} /\ active \in Seq(DOMAIN catalog)
      /\ DOMAIN results = DOMAIN catalog /\ DOMAIN token = DOMAIN catalog
      /\ DOMAIN seen = DOMAIN catalog /\ page \in Nat /\ page + 1 \in Nat
  BY Members DEF DInv, DiscoveryTyped
<1>3. \A i \in DOMAIN catalog : i \in Range(active) => rs[i] = Applied(results[i], answer(i), seen[i])
  <2> SUFFICES ASSUME NEW i \in DOMAIN catalog, i \in Range(active)
               PROVE  rs[i] = Applied(results[i], answer(i), seen[i])
    OBVIOUS
  <2> DEFINE j == CHOOSE k \in DOMAIN active : Target(k) = i
  <2>1. \E k \in DOMAIN active : Target(k) = i
    BY DEF Range, Target
  <2>2. rs[i] = Applied(results[i], Reply[j], seen[i])
    BY <1>2, <2>1
  <2>3. j \in DOMAIN active /\ active[j] = i
    BY <2>1 DEF Target
  <2> HIDE DEF j
  <2>4. Reply[j] = answer(i)
    BY <2>3 DEF Reply
  <2> QED
    BY <2>2, <2>4
<1>4. \A i \in DOMAIN catalog : i \notin Range(active) => rs[i] = results[i]
  <2> SUFFICES ASSUME NEW i \in DOMAIN catalog, i \notin Range(active)
               PROVE  rs[i] = results[i]
    OBVIOUS
  <2>1. ~ \E k \in DOMAIN active : Target(k) = i
    BY DEF Range, Target
  <2> QED
    BY <1>2, <2>1
<1>5. DOMAIN rs = DOMAIN catalog /\ rs = [i \in DOMAIN rs |-> rs[i]]
  BY <1>2
<1>6. ASSUME NEW i \in DOMAIN catalog, i \in Range(active)
      PROVE  /\ rs[i] \in Result(i) /\ Honest(i, rs[i])
             /\ Open(rs[i]) => Standing(i, rs[i], next(i), seen[i] \cup {next(i)}, page + 1)
             /\ ~Open(rs[i]) => (rs[i].complete <=> rs[i].error = NoError)
  <2>1. DiscoveryTyped /\ results[i] \in Result(i) /\ Open(results[i])
        /\ Standing(i, results[i], token[i], seen[i], page)
    BY <1>6 DEF DInv, DiscoveryTyped, Underway
  <2>2. rs[i] = Applied(results[i], answer(i), seen[i])
    BY <1>3, <1>6
  <2> HIDE DEF rs
  <2> QED
    BY <2>1, <2>2, PageApplied
<1> HIDE DEF rs
<1>7. /\ active' \in Seq(DOMAIN catalog) /\ Range(active') = Range(active) \cap going
  BY <1>1, <1>2, KeptElements
<1>8. \A i \in Range(active') : i \in Range(active) /\ i \in DOMAIN catalog /\ Open(rs[i])
  BY <1>7, <1>2 DEF Open
<1>9. \A i \in Range(active) : i \notin Range(active') => ~Open(rs[i])
  BY <1>2, <1>5, <1>7 DEF Open
<1> HIDE DEF going
<1>10. \A i \in DOMAIN catalog : rs[i] \in Result(i) /\ Honest(i, rs[i])
  BY <1>4, <1>6 DEF DInv, DiscoveryTyped
<1>11. DiscoveryTyped'
  <2>1. Range(pending') \cap Range(active') = {}
    BY <1>1, <1>2, <1>8
  <2>2. DOMAIN token' = DOMAIN catalog /\ DOMAIN seen' = DOMAIN catalog
    <3> HIDE DEF next
    <3> QED
      BY <1>1, <1>2
  <2>3. \A i \in DOMAIN catalog' : results'[i] \in Result(i)'
    BY <1>1, <1>10 DEF Result, Everywhere
  <2>4. /\ catalog' \in Catalogs \cup {<<>>} /\ page' \in Nat
        /\ DOMAIN results' = DOMAIN catalog' /\ results' = [i \in DOMAIN results' |-> results'[i]]
        /\ pending' \in Seq(DOMAIN catalog') /\ active' \in Seq(DOMAIN catalog')
        /\ IsInjective(pending')
    BY <1>1, <1>2, <1>5, <1>7 DEF DInv, DiscoveryTyped
  <2> QED
    BY <2>1, <2>2, <2>3, <2>4, <1>1 DEF DiscoveryTyped
<1>12. Later'
  <2> SUFFICES ASSUME NEW i \in Range(pending)
               PROVE  Open(rs[i]) /\ rs[i].ids = {} /\ token'[i] = 1 /\ seen'[i] = {}
    BY <1>1 DEF Later, Open
  <2>1. i \in DOMAIN catalog /\ i \notin Range(active) /\ i \notin Range(active')
    BY <1>2, <1>8
  <2>2. rs[i] = results[i] /\ token'[i] = token[i] /\ seen'[i] = seen[i]
    <3> HIDE DEF next
    <3> QED
      BY <2>1, <1>1, <1>2, <1>4
  <2> QED
    BY <2>2 DEF DInv, Later
<1>13. Underway'
  <2> SUFFICES ASSUME NEW i \in Range(active')
               PROVE  Open(rs[i]) /\ Standing(i, rs[i], token'[i], seen'[i], page + 1)
    BY <1>1 DEF Underway, Open, Standing
  <2>1. i \in DOMAIN catalog /\ i \in Range(active) /\ Open(rs[i])
    BY <1>8
  <2>2. token'[i] = next(i) /\ seen'[i] = seen[i] \cup {next(i)}
    <3> HIDE DEF next
    <3> QED
      BY <2>1, <1>1, <1>2
  <2> QED
    BY <2>1, <2>2, <1>6
<1>14. Settled'
  <2> SUFFICES ASSUME NEW i \in DOMAIN catalog, i \notin Range(pending), i \notin Range(active')
               PROVE  rs[i].complete <=> rs[i].error = NoError
    BY <1>1 DEF Settled
  <2>1. CASE i \in Range(active)
    BY <2>1, <1>6, <1>9
  <2>2. CASE i \notin Range(active)
    BY <2>2, <1>4 DEF DInv, Settled
  <2> QED
    BY <2>1, <2>2
<1>15. \A i \in DOMAIN catalog' : Honest(i, results[i])'
  BY <1>1, <1>10 DEF Honest, Everywhere
<1> QED
  BY <1>11, <1>12, <1>13, <1>14, <1>15 DEF DInv

LEMMA DiscoveryKeeps == DInv /\ [CollectionNext]_collectionVars => DInv'
<1> SUFFICES ASSUME DInv, [CollectionNext]_collectionVars PROVE DInv'
  OBVIOUS
<1>1. CASE StartDiscovery
  BY <1>1, DiscoveryBegins DEF StartDiscovery
<1>2. CASE Discover
  BY <1>2, BatchKeeps, InterruptedKeeps, RequestFailedKeeps, AnsweredKeeps
     DEF Discover, DiscoveryStep
<1>3. CASE UNCHANGED discovery
  BY <1>3, DiscoveryRests
<1>4. CASE CloneFails \/ Clone \/ ResolveFails \/ Resolve \/ Profile \/ ProfileFails \/ HandOn
  BY <1>3, <1>4 DEF CloneFails, Clone, ResolveFails, Resolve, Profile, ProfileFails, HandOn
<1>5. CASE StartCrawl \/ Crawl \/ Return \/ NvdChanges \/ CancelContext \/ Done
  BY <1>3, <1>5 DEF StartCrawl, Crawl, Return, NvdChanges, CancelContext, Done, collectionVars
<1>6. CASE UNCHANGED collectionVars
  BY <1>3, <1>6 DEF collectionVars
<1> QED
  BY <1>1, <1>2, <1>4, <1>5, <1>6 DEF CollectionNext, Program

(* Of every query OSV is asked, the program ends up with all ids of all    *)
(* its pages or with an error, never both, and with no id of another       *)
(* query, whatever the catalog, the size of a batch and the page limit,    *)
(* and wherever a request fails or the context ends (osv.DiscoveryClient). *)
THEOREM DiscoveryIsHonest == CollectionSpec => []DiscoveryHonest
<1>1. CollectionInit => DInv
  BY DiscoveryStarts DEF CollectionInit
<1>2. DInv => DiscoveryHonest
  <2> SUFFICES ASSUME DInv, NEW i \in DOMAIN results
               PROVE  /\ results[i].ids \subseteq Everywhere(i) /\ Honest(i, results[i])
                      /\ DiscoveryDone => (results[i].complete <=> results[i].error = NoError)
    BY DEF DiscoveryHonest, Honest
  <2>1. i \in DOMAIN catalog /\ results[i] \in Result(i)
    BY DEF DInv, DiscoveryTyped
  <2>2. results[i].ids \subseteq Everywhere(i) /\ Honest(i, results[i])
    BY <2>1 DEF DInv, Result
  <2>3. DiscoveryDone => i \notin Range(pending) \cup Range(active)
    BY DEF DiscoveryDone, Range
  <2> QED
    BY <2>1, <2>2, <2>3 DEF DInv, Settled
<1> QED
  BY <1>1, <1>2, DiscoveryKeeps, PTL DEF CollectionSpec
-----------------------------------------------------------------------------
(* What a crawl knows of the database it pages through.                    *)

Rec == [id : Nat, pub : Nat, mod : Nat]
CrawlState ==
  [mode : {"none", "simple", "tail", "latest", "window"}, explicit : BOOLEAN,
   at : {"idle", "probe", "page", "done", "failed"}, requests : Nat, total : Nat, upper : Nat,
   end : Nat, pass : {"pub", "mod"}, probe : Seq(Rec), newer : Nat, selected : SUBSET Rec]

Sorted(records) == \A i, j \in DOMAIN records : i <= j => records[i].pub <= records[j].pub
Distinct(records) == \A i, j \in DOMAIN records : records[i].id = records[j].id => i = j
Unique(S) == \A r, s \in S : r.id = s.id => r = s
Has(S, r) == \E s \in S : s.id = r.id /\ s.pub >= r.pub

CrawlTyped ==
  /\ db \in Seq(Rec) /\ Sorted(db) /\ crawl \in CrawlState /\ IsFiniteSet(crawl.selected)
  /\ stable \subseteq Ids(Range(db)) /\ edits \in Seq({"add", "withdraw", "modify", "leave"})

(* The count of a query tells of the records that came or went.             *)
Counted(hits) == /\ ~Happened("add") => Len(hits) <= crawl.total
                 /\ ~Happened("withdraw") => Len(hits) >= crawl.total

(* If the count is still that of the probe, what lies past upper was read,  *)
(* and nothing else was.                                                    *)
ReadFromEnd ==
  /\ \A i \in DOMAIN db : i > crawl.upper => Has(crawl.selected, db[i])
  /\ \A s \in crawl.selected :
       \E i \in DOMAIN db : i > crawl.upper /\ db[i].id = s.id /\ db[i].pub = s.pub

SimpleInv ==
  /\ Distinct(db)
  /\ crawl.at = "probe" => crawl.selected = {}
  /\ crawl.at = "page" =>
       /\ crawl.upper \in 1 .. crawl.total /\ Counted(db)
       /\ Count <= crawl.total /\ crawl.total < Count + crawl.upper
       /\ ~Unseen /\ Len(db) = crawl.total => ReadFromEnd /\ Unique(crawl.selected)

TailInv ==
  /\ Unique(crawl.selected) /\ Cardinality(crawl.selected) < Count
  /\ crawl.at = "probe" => crawl.selected = {}
  /\ crawl.at = "page" =>
       /\ crawl.upper \in 1 .. crawl.total /\ Counted(db)
       /\ ~Unseen /\ Len(db) = crawl.total => ReadFromEnd

(* Of the windows passed all that stayed was read, and nothing older.       *)
Passed ==
  /\ Unique(crawl.selected) /\ Cardinality(crawl.selected) < Count
  /\ crawl.explicit => From <= crawl.end
  /\ crawl.at = "probe" => \A s \in crawl.selected : s.pub >= crawl.end
  /\ ~Unseen => \A r \in Range(db) :
       r.id \in stable /\ Wanted(r) /\ r.pub > crawl.end => Has(crawl.selected, r)

(* The window being read: its probe is its first page, and the records     *)
(* that stay are read down to that page at the latest.                      *)
Reading ==
  LET hits == InWindow
  IN /\ Counted(hits)
     /\ crawl.newer \in Start(crawl) .. crawl.end
     /\ \A s \in crawl.selected : s.pub >= crawl.newer
     /\ crawl.upper <= crawl.total
     /\ crawl.upper = crawl.total \/ \E k \in 0 .. crawl.upper : crawl.upper = k * PageSize
     /\ Len(crawl.probe) = IF PageSize < crawl.total THEN PageSize ELSE crawl.total
     /\ Sorted(crawl.probe)
     /\ \A r \in Range(crawl.probe) : r.pub \in Start(crawl) .. crawl.end
     /\ ~Unseen /\ Len(hits) = crawl.total =>
          /\ \A i \in DOMAIN hits : i > crawl.upper => Has(crawl.selected, hits[i])
          /\ \A i \in DOMAIN crawl.probe :
               crawl.probe[i].id = hits[i].id /\ crawl.probe[i].pub = hits[i].pub
     /\ ~Unseen /\ crawl.upper <= PageSize => \A r \in Range(hits) :
          r.id \in stable => \/ Has(crawl.selected, r)
                             \/ crawl.upper > 0 /\ Has(Range(crawl.probe), r)

LatestInv == Passed /\ (crawl.at = "page" => Reading)

(* A crawl forwards has read what stayed before its position.               *)
WindowInv ==
  LET hits == Dated(db, crawl.pass, From, Now)
  IN /\ Unique(crawl.selected)
     /\ ~Unseen =>
          /\ \A i \in DOMAIN hits :
               i <= crawl.upper /\ hits[i].id \in stable => hits[i].id \in Ids(crawl.selected)
          /\ crawl.pass = "mod" => \A r \in Range(db) :
               r.id \in stable /\ r.pub \in From .. Now => r.id \in Ids(crawl.selected)

CrawlInv ==
  /\ CrawlTyped /\ NoStableSkipped
  /\ Asking => \/ crawl.mode = "simple" /\ SimpleInv
               \/ crawl.mode = "tail" /\ TailInv
               \/ crawl.mode = "latest" /\ LatestInv
               \/ crawl.mode = "window" /\ WindowInv
-----------------------------------------------------------------------------
(* Merging a page: nothing is made up, of every id one record stays, and   *)
(* none that is older than the ones it stands for.                         *)

Covers(R, S, key) == \A x \in S : \E y \in R : y.id = x.id /\ y[key] >= x[key]

LEMMA KeyType == ASSUME NEW r \in Rec, NEW key \in {"pub", "mod"} PROVE r[key] \in Nat
BY DEF Rec

Puts(S, r, key) == S \in SUBSET Rec /\ IsFiniteSet(S) /\ r \in Rec /\ key \in {"pub", "mod"}

LEMMA PutKeeps ==
  ASSUME NEW S, NEW r, NEW key, Puts(S, r, key)
  PROVE  LET R == Put(S, r, key)
         IN /\ R \subseteq S \cup {r} /\ IsFiniteSet(R)
            /\ Unique(S) => Unique(R)
            /\ Covers(R, S \cup {r}, key)
            /\ \A T \in SUBSET Rec : Covers(S, T, key) => Covers(R, T \cup {r}, key)
<1> USE DEF Puts
<1> DEFINE R == Put(S, r, key)
           Goal == /\ R \subseteq S \cup {r} /\ IsFiniteSet(R)
                   /\ Unique(S) => Unique(R)
                   /\ Covers(R, S \cup {r}, key)
                   /\ \A T \in SUBSET Rec : Covers(S, T, key) => Covers(R, T \cup {r}, key)
<1> SUFFICES Goal
  OBVIOUS
<1>1. CASE \E s \in S : s.id = r.id /\ s[key] >= r[key]
  <2>1. R = S
    BY <1>1 DEF Put
  <2>2. Covers(S, S \cup {r}, key)
    BY <1>1, KeyType DEF Covers
  <2>3. ASSUME NEW T \in SUBSET Rec, Covers(S, T, key) PROVE Covers(S, T \cup {r}, key)
    BY <1>1, <2>3 DEF Covers
  <2> HIDE DEF R
  <2> QED
    BY <2>1, <2>2, <2>3
<1>2. CASE ~ \E s \in S : s.id = r.id /\ s[key] >= r[key]
  <2> DEFINE rest == {s \in S : s.id # r.id}
  <2>1. R = rest \cup {r}
    BY <1>2 DEF Put
  <2>2. IsFiniteSet(R)
    <3>1. rest \in SUBSET S
      OBVIOUS
    <3> HIDE DEF rest, R
    <3>2. IsFiniteSet(rest)
      BY <3>1, FS_Subset
    <3> QED
      BY <2>1, <3>2, FS_AddElement
  <2>3. R \subseteq S \cup {r}
    BY <2>1
  <2>4. Unique(S) => Unique(R)
    BY <2>1 DEF Unique
  <2>5. ASSUME NEW x \in S PROVE \E y \in R : y.id = x.id /\ y[key] >= x[key]
    <3>1. x[key] \in Nat /\ r[key] \in Nat
      BY KeyType
    <3>2. CASE x.id = r.id
      <4>1. r[key] >= x[key]
        BY <1>2, <3>1, <3>2
      <4> QED
        BY <2>1, <3>2, <4>1
    <3>3. CASE x.id # r.id
      BY <2>1, <3>1, <3>3
    <3> QED
      BY <3>2, <3>3
  <2>6. r \in R /\ r[key] >= r[key] /\ r[key] \in Nat
    BY <2>1, KeyType
  <2> HIDE DEF R
  <2>7. Covers(R, S \cup {r}, key)
    BY <2>5, <2>6 DEF Covers
  <2>8. ASSUME NEW T \in SUBSET Rec, Covers(S, T, key) PROVE Covers(R, T \cup {r}, key)
    <3> SUFFICES ASSUME NEW x \in T PROVE \E y \in R : y.id = x.id /\ y[key] >= x[key]
      BY <2>6 DEF Covers
    <3>1. PICK s \in S : s.id = x.id /\ s[key] >= x[key]
      BY <2>8 DEF Covers
    <3>2. CASE s.id = r.id
      <4>1. s[key] \in Nat /\ r[key] \in Nat /\ ~(s[key] >= r[key])
        BY <1>2, <3>2, KeyType
      <4>2. r[key] >= x[key] /\ x[key] \in Nat
        BY <3>1, <4>1, KeyType
      <4> QED
        BY <2>6, <3>1, <3>2, <4>2
    <3>3. CASE s.id # r.id
      BY <2>1, <3>1, <3>3
    <3> QED
      BY <3>2, <3>3
  <2> QED
    BY <2>2, <2>3, <2>4, <2>7, <2>8
<1> QED
  BY <1>1, <1>2

LEMMA MergeKeeps ==
  ASSUME NEW S \in SUBSET Rec, IsFiniteSet(S), NEW list \in Seq(Rec), NEW key \in {"pub", "mod"}
  PROVE  LET R == Merge(S, list, key)
         IN /\ R \subseteq S \cup Range(list) /\ IsFiniteSet(R)
            /\ Unique(S) => Unique(R)
            /\ Covers(R, S \cup Range(list), key)
<1> DEFINE n == Len(list)
           step == [k \in 1 .. n |-> [x \in SUBSET Rec |-> Put(x, list[k], key)]]
           Rule(f) == [k \in 0 .. n |-> IF k = 0 THEN S ELSE Put(f[k - 1], list[k], key)]
           merged == CHOOSE f : f = Rule(f)
<1>1. n \in Nat /\ \A k \in 1 .. n : list[k] \in Rec
  OBVIOUS
<1>2. \A k \in 1 .. n : \A x \in SUBSET Rec : Put(x, list[k], key) \in SUBSET Rec
  BY <1>1 DEF Put
<1>3. step \in [1 .. n -> [SUBSET Rec -> SUBSET Rec]]
  BY <1>2
<1>4. PICK g : Computes(g, step, n, SUBSET Rec, S)
  <2>1. Steps(step, n, SUBSET Rec, S)
    BY <1>3 DEF Steps
  <2> HIDE DEF step, n
  <2> QED
    BY <1>1, <2>1, Recursion
<1>5. \A k \in 1 .. n : g[k - 1] \in SUBSET Rec
  <2> HIDE DEF n
  <2>1. \A k \in 1 .. n : k - 1 \in 0 .. n
    BY <1>1
  <2> QED
    BY <1>4, <2>1 DEF Computes
<1>6. \A k \in 0 .. n : g[k] = IF k = 0 THEN S ELSE Put(g[k - 1], list[k], key)
  <2>1. \A k \in 1 .. n : step[k][g[k - 1]] = Put(g[k - 1], list[k], key)
    BY <1>5
  <2>2. g[0] = S /\ \A k \in 1 .. n : g[k] = step[k][g[k - 1]]
    BY <1>4 DEF Computes
  <2> HIDE DEF step, n
  <2> QED
    BY <1>1, <2>1, <2>2
<1>7. g = Rule(g)
  BY <1>4, <1>6 DEF Computes
<1>8. merged = Rule(merged)
  <2>1. \E f : f = Rule(f)
    BY <1>7
  <2> HIDE DEF Rule
  <2> QED
    BY <2>1
<1>9. Merge(S, list, key) = merged[n]
  BY DEF Merge
<1>10. merged[0] = S /\ \A k \in 1 .. n : merged[k] = Put(merged[k - 1], list[k], key)
  <2> HIDE DEF merged
  <2>1. \A k \in 0 .. n : merged[k] = Rule(merged)[k]
    BY <1>8
  <2>2. \A k \in 0 .. n : merged[k] = IF k = 0 THEN S ELSE Put(merged[k - 1], list[k], key)
    BY <2>1
  <2>3. 0 \in 0 .. n /\ \A k \in 1 .. n : k \in 0 .. n /\ k # 0
    BY <1>1
  <2> HIDE DEF n
  <2> QED
    BY <2>2, <2>3
<1> HIDE DEF merged
<1> DEFINE Upto(k) == {list[i] : i \in 1 .. k}
           Sound(k) == /\ merged[k] \subseteq S \cup Upto(k) /\ IsFiniteSet(merged[k])
                       /\ Unique(S) => Unique(merged[k])
                       /\ Covers(merged[k], S \cup Upto(k), key)
           Good == {k \in 0 .. n : Sound(k)}
<1>11. 0 \in Good
  <2>1. Upto(0) = {} /\ 0 \in 0 .. n
    BY <1>1
  <2>2. Covers(S, S, key)
    <3> SUFFICES ASSUME NEW x \in S PROVE x[key] >= x[key]
      BY DEF Covers
    <3> QED
      BY KeyType
  <2>3. S \cup Upto(0) = S
    BY <2>1
  <2> HIDE DEF Upto
  <2> QED
    BY <1>10, <2>1, <2>2, <2>3
<1>12. ASSUME NEW k \in 1 .. n, k - 1 \in Good PROVE k \in Good
  <2>1. Sound(k - 1) /\ list[k] \in Rec /\ merged[k] = Put(merged[k - 1], list[k], key)
    BY <1>1, <1>10, <1>12
  <2>2. Upto(k) = Upto(k - 1) \cup {list[k]}
    <3>1. \A i \in 1 .. k : i \in 1 .. (k - 1) \/ i = k
      BY <1>1
    <3>2. k \in 1 .. k /\ \A i \in 1 .. (k - 1) : i \in 1 .. k
      BY <1>1
    <3> QED
      BY <3>1, <3>2
  <2>3. Upto(k - 1) \subseteq Rec
    BY <1>1
  <2> HIDE DEF Upto
  <2>4. merged[k - 1] \in SUBSET Rec /\ S \cup Upto(k - 1) \in SUBSET Rec
    BY <2>1, <2>3
  <2>5. S \cup Upto(k) = (S \cup Upto(k - 1)) \cup {list[k]}
    BY <2>2
  <2>6. Sound(k)
    <3>1. /\ merged[k] \subseteq merged[k - 1] \cup {list[k]} /\ IsFiniteSet(merged[k])
          /\ Unique(merged[k - 1]) => Unique(merged[k])
          /\ \A T \in SUBSET Rec : Covers(merged[k - 1], T, key) => Covers(merged[k], T \cup {list[k]}, key)
      <4> DEFINE m == merged[k - 1]
                 r == list[k]
      <4>1. m \in SUBSET Rec /\ IsFiniteSet(m) /\ r \in Rec /\ merged[k] = Put(m, r, key)
        BY <2>1, <2>4
      <4> HIDE DEF m, r
      <4>2. /\ merged[k] \subseteq m \cup {r} /\ IsFiniteSet(merged[k])
            /\ Unique(m) => Unique(merged[k])
            /\ \A T \in SUBSET Rec : Covers(m, T, key) => Covers(merged[k], T \cup {r}, key)
        <5>1. Puts(m, r, key)
          BY <4>1 DEF Puts
        <5>2. /\ Put(m, r, key) \subseteq m \cup {r} /\ IsFiniteSet(Put(m, r, key))
              /\ Unique(m) => Unique(Put(m, r, key))
              /\ \A T \in SUBSET Rec : Covers(m, T, key) => Covers(Put(m, r, key), T \cup {r}, key)
          BY <5>1, PutKeeps
        <5> QED
          BY <4>1, <5>2
      <4> QED
        BY <4>2 DEF m, r
    <3> QED
      BY <2>1, <2>2, <2>4, <2>5, <3>1
  <2> QED
    BY <2>6
<1> HIDE DEF Good
<1>13. \A k \in 0 .. n : k \in Good
  BY <1>1, <1>11, <1>12, UpTo
<1>14. n \in 0 .. n
  BY <1>1
<1>15. Sound(n)
  BY <1>13, <1>14 DEF Good
<1>16. Range(list) = Upto(n)
  BY DEF Range
<1> HIDE DEF Upto
<1> QED
  BY <1>9, <1>15, <1>16
-----------------------------------------------------------------------------
(* The hits of a query, in order, and those of a database put together.    *)

Dates(f, list, date, from, to) ==
  /\ f \in [0 .. Len(list) -> Seq(Rec)] /\ f[0] = <<>>
  /\ \A k \in 1 .. Len(list) :
       f[k] = IF list[k][date] \in from .. to THEN Append(f[k - 1], list[k]) ELSE f[k - 1]

LEMMA DatedRule ==
  ASSUME NEW list \in Seq(Rec), NEW date, NEW from, NEW to
  PROVE  \E f : Dates(f, list, date, from, to) /\ Dated(list, date, from, to) = f[Len(list)]
<1> DEFINE n == Len(list)
           step == [k \in 1 .. n |-> [x \in Seq(Rec) |->
                      IF list[k][date] \in from .. to THEN Append(x, list[k]) ELSE x]]
           Rule(f) == [k \in 0 .. n |-> IF k = 0 THEN <<>>
                         ELSE IF list[k][date] \in from .. to THEN Append(f[k - 1], list[k])
                         ELSE f[k - 1]]
           hits == CHOOSE f : f = Rule(f)
<1>1. n \in Nat /\ \A k \in 1 .. n : list[k] \in Rec
  OBVIOUS
<1>2. \A k \in 1 .. n : \A x \in Seq(Rec) : step[k][x] \in Seq(Rec)
  BY <1>1
<1>3. step \in [1 .. n -> [Seq(Rec) -> Seq(Rec)]]
  BY <1>2
<1>4. <<>> \in Seq(Rec)
  OBVIOUS
<1>5. PICK g : Computes(g, step, n, Seq(Rec), <<>>)
  <2>1. Steps(step, n, Seq(Rec), <<>>)
    BY <1>3, <1>4 DEF Steps
  <2> HIDE DEF step, n
  <2> QED
    BY <1>1, <2>1, Recursion
<1>6. \A k \in 1 .. n : g[k - 1] \in Seq(Rec)
  <2> HIDE DEF n
  <2>1. \A k \in 1 .. n : k - 1 \in 0 .. n
    BY <1>1
  <2> QED
    BY <1>5, <2>1 DEF Computes
<1>7. \A k \in 0 .. n : g[k] = IF k = 0 THEN <<>>
                         ELSE IF list[k][date] \in from .. to THEN Append(g[k - 1], list[k])
                         ELSE g[k - 1]
  <2>1. \A k \in 1 .. n : step[k][g[k - 1]] =
          IF list[k][date] \in from .. to THEN Append(g[k - 1], list[k]) ELSE g[k - 1]
    BY <1>6
  <2>2. g[0] = <<>> /\ \A k \in 1 .. n : g[k] = step[k][g[k - 1]]
    BY <1>5 DEF Computes
  <2> HIDE DEF step, n
  <2> QED
    BY <1>1, <2>1, <2>2
<1>8. g = Rule(g)
  BY <1>5, <1>7 DEF Computes
<1>9. hits = Rule(hits)
  <2>1. \E f : f = Rule(f)
    BY <1>8
  <2> HIDE DEF Rule
  <2> QED
    BY <2>1
<1>10. Dated(list, date, from, to) = hits[n]
  BY DEF Dated
<1>11. DOMAIN hits = 0 .. n /\ hits[0] = <<>> /\ \A k \in 1 .. n :
         hits[k] = IF list[k][date] \in from .. to THEN Append(hits[k - 1], list[k]) ELSE hits[k - 1]
  <2> HIDE DEF hits
  <2>1. DOMAIN hits = 0 .. n /\ \A k \in 0 .. n : hits[k] = Rule(hits)[k]
    BY <1>9
  <2>2. \A k \in 0 .. n : hits[k] = IF k = 0 THEN <<>>
          ELSE IF list[k][date] \in from .. to THEN Append(hits[k - 1], list[k]) ELSE hits[k - 1]
    BY <2>1
  <2>3. 0 \in 0 .. n /\ \A k \in 1 .. n : k \in 0 .. n /\ k # 0
    BY <1>1
  <2> HIDE DEF n
  <2> QED
    BY <2>1, <2>2, <2>3
<1>12. hits = [k \in 0 .. n |-> hits[k]]
  <2> HIDE DEF hits
  <2> QED
    BY <1>9
<1> HIDE DEF hits
<1> DEFINE Good == {k \in 0 .. n : hits[k] \in Seq(Rec)}
<1>13. 0 \in Good
  <2>1. 0 \in 0 .. n /\ hits[0] \in Seq(Rec)
    BY <1>1, <1>4, <1>11
  <2> QED
    BY <2>1
<1>14. ASSUME NEW k \in 1 .. n, k - 1 \in Good PROVE k \in Good
  <2>1. hits[k - 1] \in Seq(Rec) /\ list[k] \in Rec /\ k \in 0 .. n
    BY <1>1, <1>14
  <2>2. Append(hits[k - 1], list[k]) \in Seq(Rec)
    BY <2>1
  <2>3. hits[k] \in Seq(Rec)
    <3> HIDE DEF n
    <3> QED
      BY <2>1, <2>2, <1>11
  <2> QED
    BY <2>1, <2>3
<1>15. \A k \in 0 .. n : k \in Good
  <2> HIDE DEF Good
  <2> QED
    BY <1>1, <1>13, <1>14, UpTo
<1>16. Dates(hits, list, date, from, to)
  BY <1>11, <1>12, <1>15 DEF Dates
<1> QED
  BY <1>10, <1>16

LEMMA DatedElements ==
  ASSUME NEW list \in Seq(Rec), NEW date, NEW from, NEW to
  PROVE  LET hits == Dated(list, date, from, to)
         IN /\ hits \in Seq(Rec)
            /\ \A r : r \in Range(hits) <=> r \in Range(list) /\ r[date] \in from .. to
            /\ Sorted(list) => Sorted(hits)
<1>1. PICK f : Dates(f, list, date, from, to) /\ Dated(list, date, from, to) = f[Len(list)]
  BY DatedRule
<1> DEFINE n == Len(list)
           In(r) == r[date] \in from .. to
           Sound(k) == /\ f[k] \in Seq(Rec)
                       /\ \A r : r \in Range(f[k]) <=> In(r) /\ \E i \in 1 .. k : list[i] = r
                       /\ Sorted(list) => Sorted(f[k])
           Good == {k \in 0 .. n : Sound(k)}
<1>2. n \in Nat /\ DOMAIN list = 1 .. n /\ \A k \in 1 .. n : list[k] \in Rec
  OBVIOUS
<1>3. f[0] = <<>> /\ \A k \in 1 .. n : f[k] = IF In(list[k]) THEN Append(f[k - 1], list[k]) ELSE f[k - 1]
  BY <1>1 DEF Dates
<1>4. 0 \in Good
  <2>1. f[0] = <<>> /\ f[0] \in Seq(Rec) /\ DOMAIN f[0] = {}
    BY <1>3
  <2>2. Range(f[0]) = {} /\ Sorted(f[0])
    BY <2>1 DEF Range, Sorted
  <2>3. 0 \in 0 .. n /\ ~ \E i \in 1 .. 0 : TRUE
    BY <1>2
  <2> QED
    BY <2>1, <2>2, <2>3
<1>5. ASSUME NEW k \in 1 .. n, k - 1 \in Good PROVE k \in Good
  <2>1. Sound(k - 1)
    BY <1>5
  <2> DEFINE s == f[k - 1]
  <2>2. s \in Seq(Rec) /\ list[k] \in Rec
    BY <1>2, <2>1
  <2>3. \A r : r \in Range(s) <=> In(r) /\ \E i \in 1 .. (k - 1) : list[i] = r
    BY <2>1
  <2>4. CASE In(list[k])
    <3>1. f[k] = Append(s, list[k])
      BY <1>3, <2>4
    <3> HIDE DEF s
    <3> DEFINE m == Len(s)
    <3>2. m \in Nat /\ DOMAIN s = 1 .. m /\ DOMAIN f[k] = 1 .. (m + 1) /\ f[k] \in Seq(Rec)
      BY <3>1, <2>2
    <3>3. f[k][m + 1] = list[k] /\ \A i \in 1 .. m : f[k][i] = s[i]
      BY <3>1, <2>2
    <3> HIDE DEF m
    <3>4. \A i \in DOMAIN f[k] : i \in 1 .. m \/ i = m + 1
      BY <3>2
    <3>5. \A r : r \in Range(f[k]) <=> r \in Range(s) \/ r = list[k]
      <4>1. m + 1 \in DOMAIN f[k] /\ \A i \in 1 .. m : i \in DOMAIN f[k]
        BY <3>2
      <4> QED
        BY <4>1, <3>2, <3>3, <3>4 DEF Range
    <3>6. \A r : r \in Range(f[k]) <=> In(r) /\ \E i \in 1 .. k : list[i] = r
      <4> HIDE DEF In
      <4>1. \A i \in 1 .. k : i \in 1 .. (k - 1) \/ i = k
        BY <1>2
      <4>2. k \in 1 .. k /\ \A i \in 1 .. (k - 1) : i \in 1 .. k
        BY <1>2
      <4> QED
        BY <4>1, <4>2, <2>3, <2>4, <3>5
    <3>7. Sorted(list) => Sorted(f[k])
      <4> SUFFICES ASSUME Sorted(list) PROVE Sorted(f[k])
        OBVIOUS
      <4>1. Sorted(s)
        BY <2>1 DEF s
      <4>2. ASSUME NEW i \in 1 .. m PROVE s[i].pub <= list[k].pub
        <5>1. s[i] \in Range(s)
          BY <3>2 DEF Range
        <5>2. PICK j \in 1 .. (k - 1) : list[j] = s[i]
          BY <2>3, <5>1
        <5>3. j \in DOMAIN list /\ k \in DOMAIN list /\ j <= k
          BY <1>2
        <5> QED
          BY <5>2, <5>3 DEF Sorted
      <4>3. list[k].pub <= list[k].pub
        BY <2>2 DEF Rec
      <4> SUFFICES ASSUME NEW i \in 1 .. (m + 1), NEW j \in 1 .. (m + 1), i <= j
                   PROVE  f[k][i].pub <= f[k][j].pub
        BY <3>2 DEF Sorted
      <4>4. CASE j = m + 1
        BY <4>2, <4>3, <4>4, <3>2, <3>3, <3>4
      <4>5. CASE j \in 1 .. m
        <5>1. i \in 1 .. m
          BY <3>2, <4>5
        <5> QED
          BY <4>1, <4>5, <5>1, <3>2, <3>3 DEF Sorted
      <4> QED
        BY <4>4, <4>5, <3>2
    <3> QED
      BY <3>2, <3>6, <3>7
  <2>5. CASE ~In(list[k])
    <3>1. f[k] = s
      BY <1>3, <2>5
    <3>2. \A r : r \in Range(f[k]) <=> In(r) /\ \E i \in 1 .. k : list[i] = r
      <4>1. \A i \in 1 .. k : i \in 1 .. (k - 1) \/ i = k
        BY <1>2
      <4>2. \A i \in 1 .. (k - 1) : i \in 1 .. k
        BY <1>2
      <4> HIDE DEF In
      <4> QED
        BY <4>1, <4>2, <2>3, <2>5, <3>1
    <3> QED
      BY <2>1, <3>1, <3>2
  <2> QED
    BY <2>4, <2>5
<1> HIDE DEF Good
<1>6. \A k \in 0 .. n : k \in Good
  BY <1>2, <1>4, <1>5, UpTo
<1>7. n \in 0 .. n
  BY <1>2
<1>8. Sound(n)
  BY <1>6, <1>7 DEF Good
<1>9. Range(list) = {list[i] : i \in 1 .. n}
  BY <1>2 DEF Range
<1> QED
  BY <1>1, <1>8, <1>9

(* What is asked of two parts is what the parts answer.                     *)
LEMMA DatedConcat ==
  ASSUME NEW P \in Seq(Rec), NEW Q \in Seq(Rec), NEW date, NEW from, NEW to
  PROVE  Dated(P \o Q, date, from, to) = Dated(P, date, from, to) \o Dated(Q, date, from, to)
<1> DEFINE m == Len(P)
           n == Len(Q)
           L == P \o Q
           In(r) == r[date] \in from .. to
<1>1. L \in Seq(Rec) /\ m \in Nat /\ n \in Nat /\ Len(L) = m + n
  OBVIOUS
<1>2. /\ \A i \in 1 .. m : L[i] = P[i] /\ P[i] \in Rec
      /\ \A i \in 1 .. n : L[m + i] = Q[i] /\ Q[i] \in Rec
  OBVIOUS
<1> HIDE DEF L
<1>3. PICK p : Dates(p, P, date, from, to) /\ Dated(P, date, from, to) = p[m]
  BY DatedRule
<1>4. PICK q : Dates(q, Q, date, from, to) /\ Dated(Q, date, from, to) = q[n]
  BY DatedRule
<1>5. PICK h : Dates(h, L, date, from, to) /\ Dated(L, date, from, to) = h[Len(L)]
  BY <1>1, DatedRule
<1>6. /\ p[0] = <<>> /\ \A k \in 1 .. m : p[k] = IF In(P[k]) THEN Append(p[k - 1], P[k]) ELSE p[k - 1]
      /\ \A k \in 0 .. m : p[k] \in Seq(Rec)
  BY <1>3 DEF Dates
<1>7. /\ q[0] = <<>> /\ \A k \in 1 .. n : q[k] = IF In(Q[k]) THEN Append(q[k - 1], Q[k]) ELSE q[k - 1]
      /\ \A k \in 0 .. n : q[k] \in Seq(Rec)
  BY <1>4 DEF Dates
<1>8. h[0] = <<>> /\ \A k \in 1 .. (m + n) :
        h[k] = IF In(L[k]) THEN Append(h[k - 1], L[k]) ELSE h[k - 1]
  BY <1>1, <1>5 DEF Dates
<1> HIDE DEF m, n, In
<1> DEFINE First == {k \in 0 .. m : h[k] = p[k]}
<1>9. \A k \in 0 .. m : k \in First
  <2>1. 0 \in First
    BY <1>1, <1>6, <1>8
  <2>2. ASSUME NEW k \in 1 .. m, k - 1 \in First PROVE k \in First
    <3>1. k \in 1 .. (m + n) /\ k \in 0 .. m
      BY <1>1
    <3>2. h[k] = IF In(P[k]) THEN Append(p[k - 1], P[k]) ELSE p[k - 1]
      BY <3>1, <1>2, <1>8, <2>2
    <3> QED
      BY <3>1, <3>2, <1>6
  <2> HIDE DEF First
  <2> QED
    BY <1>1, <2>1, <2>2, UpTo
<1> DEFINE Second == {k \in 0 .. n : h[m + k] = p[m] \o q[k]}
<1>10. \A k \in 0 .. n : k \in Second
  <2>1. p[m] \in Seq(Rec) /\ h[m] = p[m]
    BY <1>1, <1>6, <1>9
  <2>2. 0 \in Second
    <3>1. p[m] \o <<>> = p[m]
      BY <2>1, ConcatEmptySeq
    <3>2. 0 \in 0 .. n /\ m + 0 = m
      BY <1>1
    <3> QED
      BY <2>1, <3>1, <3>2, <1>7
  <2>3. ASSUME NEW k \in 1 .. n, k - 1 \in Second PROVE k \in Second
    <3>1. m + k \in 1 .. (m + n) /\ k \in 0 .. n /\ k - 1 \in 0 .. n /\ (m + k) - 1 = m + (k - 1)
      BY <1>1
    <3>2. h[m + (k - 1)] = p[m] \o q[k - 1]
      BY <2>3
    <3>3. h[m + k] = IF In(Q[k]) THEN Append(p[m] \o q[k - 1], Q[k]) ELSE p[m] \o q[k - 1]
      <4>1. L[m + k] = Q[k]
        BY <1>2
      <4>2. h[m + k] = IF In(L[m + k]) THEN Append(h[(m + k) - 1], L[m + k]) ELSE h[(m + k) - 1]
        BY <3>1, <1>8
      <4> QED
        BY <4>1, <4>2, <3>1, <3>2
    <3>4. q[k - 1] \in Seq(Rec) /\ Q[k] \in Rec
      BY <3>1, <1>2, <1>7
    <3>5. CASE In(Q[k])
      <4>1. q[k] = Append(q[k - 1], Q[k]) /\ h[m + k] = Append(p[m] \o q[k - 1], Q[k])
        BY <3>3, <3>5, <1>7
      <4> DEFINE a == p[m]
                 b == q[k - 1]
                 x == Q[k]
      <4>2. a \in Seq(Rec) /\ b \in Seq(Rec) /\ x \in Rec
        BY <2>1, <3>4
      <4> HIDE DEF a, b, x
      <4>3. Append(a \o b, x) = a \o Append(b, x)
        <5>1. Append(a \o b, x) = (a \o b) \o <<x>> /\ Append(b, x) = b \o <<x>>
          BY <4>2, AppendIsConcat, ConcatProperties
        <5>2. <<x>> \in Seq(Rec)
          BY <4>2
        <5> QED
          BY <4>2, <5>1, <5>2, ConcatAssociative
      <4>4. h[m + k] = p[m] \o q[k]
        BY <4>1, <4>3 DEF a, b, x
      <4> QED
        BY <3>1, <4>4
    <3>6. CASE ~In(Q[k])
      BY <3>1, <3>3, <3>6, <1>7
    <3> QED
      BY <3>5, <3>6
  <2> HIDE DEF Second
  <2> QED
    BY <1>1, <2>2, <2>3, UpTo
<1>11. h[m + n] = p[m] \o q[n]
  <2>1. n \in 0 .. n
    BY <1>1
  <2>2. n \in Second
    <3> HIDE DEF Second
    <3> QED
      BY <2>1, <1>10
  <2> QED
    BY <2>2
<1> QED
  BY <1>1, <1>3, <1>4, <1>5, <1>11 DEF L, m, n

LEMMA DatedSingle ==
  ASSUME NEW r \in Rec, NEW date, NEW from, NEW to
  PROVE  Dated(<<r>>, date, from, to) = IF r[date] \in from .. to THEN <<r>> ELSE <<>>
<1>1. <<r>> \in Seq(Rec) /\ Len(<<r>>) = 1 /\ <<r>>[1] = r
  OBVIOUS
<1>2. PICK f : Dates(f, <<r>>, date, from, to) /\ Dated(<<r>>, date, from, to) = f[1]
  BY <1>1, DatedRule
<1>3. f[0] = <<>> /\ f[1] = IF r[date] \in from .. to THEN Append(f[0], r) ELSE f[0]
  <2>1. 1 \in 1 .. 1 /\ 1 - 1 = 0
    OBVIOUS
  <2> HIDE <1>2
  <2>2. \A k \in 1 .. 1 : f[k] = IF <<r>>[k][date] \in from .. to THEN Append(f[k - 1], <<r>>[k]) ELSE f[k - 1]
    BY <1>1, <1>2 DEF Dates
  <2>3. f[0] = <<>>
    BY <1>2 DEF Dates
  <2> QED
    BY <1>1, <2>1, <2>2, <2>3
<1>4. Append(<<>>, r) = <<r>>
  OBVIOUS
<1> QED
  BY <1>2, <1>3, <1>4
-----------------------------------------------------------------------------
(* NVD's changes, in the database and in what a query hits of it.          *)

Between(P, M, Q) == (P \o M) \o Q
Edited(old, new, was, is) ==
  \E P, Q \in Seq(Rec) : old = Between(P, was, Q) /\ new = Between(P, is, Q)

LEMMA DatedEmpty ==
  ASSUME NEW date, NEW from, NEW to
  PROVE  Dated(<<>>, date, from, to) = <<>>
<1>1. <<>> \in Seq(Rec) /\ Len(<<>>) = 0
  OBVIOUS
<1>2. PICK f : Dates(f, <<>>, date, from, to) /\ Dated(<<>>, date, from, to) = f[0]
  BY <1>1, DatedRule
<1> QED
  BY <1>2 DEF Dates

LEMMA DatedType ==
  ASSUME NEW list \in Seq(Rec), NEW date, NEW from, NEW to
  PROVE  Dated(list, date, from, to) \in Seq(Rec)
BY DatedElements

LEMMA DatedParts ==
  ASSUME NEW P \in Seq(Rec), NEW M \in Seq(Rec), NEW Q \in Seq(Rec), NEW date, NEW from, NEW to
  PROVE  Dated(Between(P, M, Q), date, from, to) =
           Between(Dated(P, date, from, to), Dated(M, date, from, to), Dated(Q, date, from, to))
<1>1. P \o M \in Seq(Rec)
  BY ConcatProperties
<1>2. Dated(P \o M, date, from, to) = Dated(P, date, from, to) \o Dated(M, date, from, to)
  BY DatedConcat
<1> DEFINE X == P \o M
<1>3. X \in Seq(Rec)
  BY <1>1
<1> HIDE DEF X
<1>4. Dated(X \o Q, date, from, to) = Dated(X, date, from, to) \o Dated(Q, date, from, to)
  BY <1>3, DatedConcat
<1> QED
  BY <1>2, <1>4 DEF X, Between

LEMMA DatedEdited ==
  ASSUME NEW was \in Seq(Rec), NEW is \in Seq(Rec), NEW old, NEW new, Edited(old, new, was, is),
         NEW date, NEW from, NEW to
  PROVE  Edited(Dated(old, date, from, to), Dated(new, date, from, to),
                Dated(was, date, from, to), Dated(is, date, from, to))
<1>1. PICK P \in Seq(Rec), Q \in Seq(Rec) : old = Between(P, was, Q) /\ new = Between(P, is, Q)
  BY DEF Edited
<1>2. Dated(P, date, from, to) \in Seq(Rec) /\ Dated(Q, date, from, to) \in Seq(Rec)
  BY DatedType
<1>3. Dated(Between(P, was, Q), date, from, to) =
        Between(Dated(P, date, from, to), Dated(was, date, from, to), Dated(Q, date, from, to))
  BY DatedParts
<1>4. Dated(Between(P, is, Q), date, from, to) =
        Between(Dated(P, date, from, to), Dated(is, date, from, to), Dated(Q, date, from, to))
  BY DatedParts
<1> QED
  BY <1>1, <1>2, <1>3, <1>4 DEF Edited

(* One record more, at some position.                                       *)
Inserts(old, new, r) ==
  /\ Len(new) = Len(old) + 1
  /\ \E o \in 0 .. Len(old) :
       /\ \A i \in 1 .. o : new[i] = old[i]
       /\ new[o + 1] = r
       /\ \A i \in (o + 1) .. Len(old) : new[i + 1] = old[i]

Alike(old, new) ==
  Len(new) = Len(old) /\ \A i \in 1 .. Len(old) : new[i].id = old[i].id /\ new[i].pub = old[i].pub

LEMMA SameEdit == ASSUME NEW old, NEW new, Edited(old, new, <<>>, <<>>) PROVE new = old
BY DEF Edited, Between

LEMMA Positions ==
  ASSUME NEW P \in Seq(Rec), NEW r \in Rec, NEW Q \in Seq(Rec)
  PROVE  LET all == Between(P, <<r>>, Q)
         IN /\ Len(all) = (Len(P) + 1) + Len(Q)
            /\ all[Len(P) + 1] = r
            /\ \A i \in 1 .. Len(P) : all[i] = P[i]
            /\ \A i \in 1 .. Len(Q) : all[(Len(P) + 1) + i] = Q[i]
<1> DEFINE R == P \o <<r>>
           m == Len(P)
           n == Len(Q)
<1>1. <<r>> \in Seq(Rec) /\ Len(<<r>>) = 1 /\ <<r>>[1] = r /\ m \in Nat /\ n \in Nat
  OBVIOUS
<1>2. R \in Seq(Rec) /\ Len(R) = m + 1 /\ \A i \in 1 .. m + 1 : R[i] = IF i <= m THEN P[i] ELSE <<r>>[i - m]
  BY <1>1, ConcatProperties
<1> HIDE DEF R
<1>3. R[m + 1] = r /\ \A i \in 1 .. m : R[i] = P[i]
  <2> HIDE DEF m
  <2>1. m + 1 \in 1 .. m + 1 /\ ~(m + 1 <= m) /\ (m + 1) - m = 1 /\ \A i \in 1 .. m : i \in 1 .. m + 1 /\ i <= m
    BY <1>1
  <2> QED
    BY <1>1, <1>2, <2>1
<1> DEFINE all == R \o Q
<1>4. Len(all) = (m + 1) + n
      /\ \A i \in 1 .. (m + 1) + n : all[i] = IF i <= m + 1 THEN R[i] ELSE Q[i - (m + 1)]
  <2>1. /\ Len(all) = Len(R) + Len(Q)
        /\ \A i \in 1 .. Len(R) + Len(Q) : all[i] = IF i <= Len(R) THEN R[i] ELSE Q[i - Len(R)]
    BY <1>2, ConcatProperties
  <2> HIDE DEF all, m
  <2> QED
    BY <1>2, <2>1
<1>5. all = Between(P, <<r>>, Q)
  BY DEF Between, R
<1> HIDE DEF all, m, n
<1>6. ASSUME NEW i \in 1 .. m PROVE all[i] = P[i]
  <2>1. i \in 1 .. (m + 1) + n /\ i <= m + 1
    BY <1>1
  <2> QED
    BY <2>1, <1>3, <1>4
<1>7. all[m + 1] = r
  <2>1. m + 1 \in 1 .. (m + 1) + n /\ m + 1 <= m + 1
    BY <1>1
  <2> QED
    BY <2>1, <1>3, <1>4
<1>8. ASSUME NEW i \in 1 .. n PROVE all[(m + 1) + i] = Q[i]
  <2>1. (m + 1) + i \in 1 .. (m + 1) + n /\ ~((m + 1) + i <= m + 1) /\ ((m + 1) + i) - (m + 1) = i
    BY <1>1
  <2> QED
    BY <2>1, <1>4
<1> QED
  BY <1>4, <1>5, <1>6, <1>7, <1>8 DEF m, n

LEMMA InsertEdit ==
  ASSUME NEW old, NEW new, NEW r \in Rec, Edited(old, new, <<>>, <<r>>)
  PROVE  Inserts(old, new, r)
<1>1. PICK P \in Seq(Rec), Q \in Seq(Rec) : old = Between(P, <<>>, Q) /\ new = Between(P, <<r>>, Q)
  BY DEF Edited
<1> DEFINE m == Len(P)
           n == Len(Q)
<1>2. m \in Nat /\ n \in Nat /\ old = P \o Q
  BY <1>1, ConcatEmptySeq DEF Between
<1>3. Len(old) = m + n /\ \A i \in 1 .. (m + n) : old[i] = IF i <= m THEN P[i] ELSE Q[i - m]
  BY <1>2, ConcatProperties
<1>4. /\ Len(new) = (m + 1) + n /\ new[m + 1] = r
      /\ \A i \in 1 .. m : new[i] = P[i]
      /\ \A i \in 1 .. n : new[(m + 1) + i] = Q[i]
  BY <1>1, Positions
<1> HIDE DEF m, n
<1>5. m \in 0 .. Len(old) /\ Len(new) = Len(old) + 1
  BY <1>2, <1>3, <1>4
<1>6. \A i \in 1 .. m : new[i] = old[i]
  BY <1>2, <1>3, <1>4
<1>7. \A i \in (m + 1) .. Len(old) : new[i + 1] = old[i]
  <2> SUFFICES ASSUME NEW i \in (m + 1) .. (m + n) PROVE new[i + 1] = old[i]
    BY <1>3
  <2>1. i - m \in 1 .. n /\ (m + 1) + (i - m) = i + 1 /\ i \in 1 .. (m + n) /\ ~(i <= m)
    BY <1>2
  <2>2. new[(m + 1) + (i - m)] = Q[i - m]
    BY <2>1, <1>4
  <2>3. old[i] = Q[i - m]
    BY <2>1, <1>3
  <2> QED
    BY <2>1, <2>2, <2>3
<1> QED
  BY <1>4, <1>5, <1>6, <1>7 DEF Inserts

LEMMA DeleteEdit ==
  ASSUME NEW old, NEW new, NEW r \in Rec, Edited(old, new, <<r>>, <<>>)
  PROVE  Inserts(new, old, r)
<1>1. Edited(new, old, <<>>, <<r>>)
  BY DEF Edited, Between
<1> QED
  BY <1>1, InsertEdit

LEMMA ReplaceEdit ==
  ASSUME NEW old, NEW new, NEW r \in Rec, NEW s \in Rec, r.id = s.id, r.pub = s.pub,
         Edited(old, new, <<r>>, <<s>>)
  PROVE  Alike(old, new)
<1>1. PICK P \in Seq(Rec), Q \in Seq(Rec) : old = Between(P, <<r>>, Q) /\ new = Between(P, <<s>>, Q)
  BY DEF Edited
<1> DEFINE m == Len(P)
           n == Len(Q)
<1>2. m \in Nat /\ n \in Nat
  OBVIOUS
<1>3. /\ Len(old) = (m + 1) + n /\ old[m + 1] = r
      /\ \A i \in 1 .. m : old[i] = P[i]
      /\ \A i \in 1 .. n : old[(m + 1) + i] = Q[i]
  BY <1>1, Positions
<1>4. /\ Len(new) = (m + 1) + n /\ new[m + 1] = s
      /\ \A i \in 1 .. m : new[i] = P[i]
      /\ \A i \in 1 .. n : new[(m + 1) + i] = Q[i]
  BY <1>1, Positions
<1> HIDE DEF m, n
<1>5. ASSUME NEW i \in 1 .. (m + 1) + n PROVE new[i].id = old[i].id /\ new[i].pub = old[i].pub
  <2>1. CASE i \in 1 .. m
    <3>1. new[i] = old[i]
      BY <2>1, <1>3, <1>4
    <3> QED
      BY <3>1
  <2>2. CASE i = m + 1
    BY <2>2, <1>3, <1>4
  <2>3. CASE i > m + 1
    <3>1. i - (m + 1) \in 1 .. n /\ (m + 1) + (i - (m + 1)) = i
      BY <1>2, <2>3
    <3>2. new[(m + 1) + (i - (m + 1))] = old[(m + 1) + (i - (m + 1))]
      BY <3>1, <1>3, <1>4
    <3>3. new[i] = old[i]
      BY <3>1, <3>2
    <3> QED
      BY <3>3
  <2> QED
    BY <1>2, <2>1, <2>2, <2>3
<1> QED
  BY <1>3, <1>4, <1>5 DEF Alike

(* A set of positions that holds all positions below its own is a prefix.   *)
LEMMA PrefixSet ==
  ASSUME NEW n \in Nat, NEW D \in SUBSET (1 .. n), \A i \in D : \A j \in 1 .. n : j <= i => j \in D
  PROVE  Cardinality(D) \in 0 .. n /\ D = 1 .. Cardinality(D)
<1>1. CASE D = 1 .. n
  <2>1. Cardinality(1 .. n) = n
    BY FS_Interval
  <2> QED
    BY <1>1, <2>1
<1>2. CASE D # 1 .. n
  <2> DEFINE Out == (1 .. n) \ D
  <2>1. Out \in SUBSET Nat /\ Out # {}
    <3>1. D \subseteq 1 .. n
      OBVIOUS
    <3>2. \E x : x \in 1 .. n /\ x \notin D
      BY <1>2, <3>1
    <3> QED
      BY <3>2
  <2>2. PICK k \in Out : \A j \in Out : k <= j
    <3> HIDE DEF Out
    <3> QED
      BY <2>1, Least
  <2>3. k \in 1 .. n /\ k \notin D
    OBVIOUS
  <2>4. \A j \in 1 .. n : j < k <=> j \in D
    <3>1. \A j \in 1 .. n : j < k => j \in D
      BY <2>2, <2>3
    <3>2. \A j \in D : j < k
      BY <2>3
    <3> QED
      BY <3>1, <3>2
  <2>5. D = 1 .. (k - 1)
    <3>1. \A j \in 1 .. (k - 1) : j \in 1 .. n /\ j < k
      BY <2>3
    <3>2. \A j \in 1 .. n : j < k => j \in 1 .. (k - 1)
      BY <2>3
    <3>3. \A j \in D : j \in 1 .. n
      OBVIOUS
    <3> QED
      BY <2>4, <3>1, <3>2, <3>3
  <2>6. Cardinality(1 .. (k - 1)) = k - 1
    <3>1. k - 1 \in Int /\ (1 > k - 1 => k - 1 = 0) /\ (k - 1) - 1 + 1 = k - 1
      BY <2>3
    <3> QED
      BY <3>1, FS_Interval
  <2>7. k - 1 \in 0 .. n
    BY <2>3
  <2> HIDE DEF Out
  <2> QED
    BY <2>5, <2>6, <2>7
<1> QED
  BY <1>1, <1>2

LEMMA InsertedShape ==
  ASSUME NEW s \in Seq(Rec), Sorted(s), NEW r \in Rec
  PROVE  /\ Inserted(r, s) \in Seq(Rec) /\ Sorted(Inserted(r, s))
         /\ Edited(s, Inserted(r, s), <<>>, <<r>>)
<1> DEFINE n == Len(s)
           D == {i \in DOMAIN s : s[i].pub <= r.pub}
           o == Cardinality(D)
           P == SubSeq(s, 1, o)
           Q == SubSeq(s, o + 1, n)
           N == Inserted(r, s)
<1>1. n \in Nat /\ DOMAIN s = 1 .. n /\ \A i \in 1 .. n : s[i] \in Rec /\ s[i].pub \in Nat
  <2>1. n \in Nat /\ DOMAIN s = 1 .. n /\ \A i \in 1 .. n : s[i] \in Rec
    OBVIOUS
  <2>2. \A x \in Rec : x.pub \in Nat
    BY DEF Rec
  <2> HIDE DEF n
  <2> QED
    BY <2>1, <2>2
<1>2. r.pub \in Nat
  BY DEF Rec
<1>3. o \in 0 .. n /\ D = 1 .. o
  <2>1. D \in SUBSET (1 .. n)
    BY <1>1
  <2>2. \A i \in D : \A j \in 1 .. n : j <= i => j \in D
    BY <1>1, <1>2 DEF Sorted
  <2> HIDE DEF D, n
  <2> QED
    BY <1>1, <2>1, <2>2, PrefixSet
<1>4. N = (P \o <<r>>) \o Q
  BY DEF Inserted
<1>5. /\ \A i \in 1 .. o : s[i].pub <= r.pub
      /\ \A i \in (o + 1) .. n : s[i].pub >= r.pub
  <2>1. \A i \in 1 .. o : i \in D
    BY <1>3
  <2>2. \A i \in (o + 1) .. n : i \in 1 .. n /\ i \notin D
    <3> HIDE DEF D, o, n
    <3>1. \A i \in (o + 1) .. n : i \in 1 .. n /\ i \notin 1 .. o
      BY <1>1, <1>3
    <3> QED
      BY <1>3, <3>1
  <2>3. \A i \in 1 .. n : i \notin D => ~(s[i].pub <= r.pub)
    BY <1>1
  <2>4. \A i \in 1 .. n : ~(s[i].pub <= r.pub) => s[i].pub >= r.pub
    <3> HIDE DEF n
    <3> QED
      BY <1>1, <1>2
  <2>5. \A i \in D : s[i].pub <= r.pub
    OBVIOUS
  <2> HIDE DEF D, o, n
  <2> QED
    BY <2>1, <2>2, <2>3, <2>4, <2>5
<1> HIDE DEF o, D, N
<1>6. P \in Seq(Rec) /\ Q \in Seq(Rec) /\ s = P \o Q
  <2>1. o \in 0 .. n /\ n \in n .. n /\ o \in Int /\ n \in o .. n
    BY <1>1, <1>3
  <2>2. SubSeq(s, 1, o) \o SubSeq(s, o + 1, n) = SubSeq(s, 1, n)
    <3>1. 1 \in 1 .. Len(s) + 1 /\ o \in 1 - 1 .. Len(s) /\ n \in o .. Len(s)
      BY <1>1, <2>1
    <3> QED
      BY <3>1, ConcatAdjacentSubSeq
  <2>3. SubSeq(s, 1, n) = s
    BY SubSeqFull
  <2>4. P \in Seq(Rec)
    <3>1. \A i \in 1 .. o : s[i] \in Rec
      BY <1>1, <1>3
    <3> QED
      BY <2>1, <3>1, SubSeqProperties
  <2>5. Q \in Seq(Rec)
    <3>1. \A i \in (o + 1) .. n : s[i] \in Rec
      BY <1>1, <1>3
    <3> QED
      BY <2>1, <3>1, SubSeqProperties
  <2> QED
    BY <2>2, <2>3, <2>4, <2>5
<1>7. Edited(s, N, <<>>, <<r>>) /\ N \in Seq(Rec)
  <2> HIDE DEF P, Q
  <2>1. P \o <<>> = P
    BY <1>6, ConcatEmptySeq
  <2>2. <<r>> \in Seq(Rec)
    OBVIOUS
  <2>3. P \o <<r>> \in Seq(Rec)
    BY <1>6, <2>2, ConcatProperties
  <2>4. N \in Seq(Rec)
    BY <1>4, <1>6, <2>3, ConcatProperties
  <2> QED
    BY <1>4, <1>6, <2>1, <2>4 DEF Edited, Between
<1>8. /\ Len(N) = n + 1 /\ DOMAIN N = 1 .. (n + 1)
      /\ \A i \in 1 .. o : N[i] = s[i]
      /\ N[o + 1] = r
      /\ \A i \in (o + 2) .. (n + 1) : N[i] = s[i - 1]
  <2>1. P \in Seq(Rec) /\ Len(P) = o /\ \A i \in 1 .. o : P[i] = s[i]
    <3>1. \A i \in 1 .. o : s[i] \in Rec
      BY <1>1, <1>3
    <3>2. /\ P \in Seq(Rec) /\ Len(P) = IF 1 <= o THEN o - 1 + 1 ELSE 0
          /\ \A i \in 1 .. o - 1 + 1 : P[i] = s[1 + i - 1]
      BY <1>3, <3>1, SubSeqProperties
    <3> HIDE DEF P
    <3>3. o - 1 + 1 = o /\ \A i \in 1 .. o : 1 + i - 1 = i
      BY <1>3
    <3>4. Len(P) = o
      BY <1>3, <3>2
    <3> QED
      BY <3>2, <3>3, <3>4
  <2>2. Q \in Seq(Rec) /\ Len(Q) = n - o /\ \A i \in 1 .. (n - o) : Q[i] = s[o + i]
    <3>1. \A i \in (o + 1) .. n : s[i] \in Rec
      BY <1>1, <1>3
    <3>2. /\ Q \in Seq(Rec) /\ Len(Q) = IF o + 1 <= n THEN n - (o + 1) + 1 ELSE 0
          /\ \A i \in 1 .. n - (o + 1) + 1 : Q[i] = s[(o + 1) + i - 1]
      BY <1>1, <1>3, <3>1, SubSeqProperties
    <3> HIDE DEF Q
    <3>3. Len(Q) = n - o
      <4> HIDE DEF n
      <4>1. o + 1 <= n => n - (o + 1) + 1 = n - o
        BY <1>1, <1>3
      <4>2. ~(o + 1 <= n) => n - o = 0
        BY <1>1, <1>3
      <4> QED
        BY <3>2, <4>1, <4>2
    <3>4. ASSUME NEW i \in 1 .. (n - o) PROVE Q[i] = s[o + i]
      <4>1. i \in 1 .. n - (o + 1) + 1 /\ (o + 1) + i - 1 = o + i
        BY <1>1, <1>3
      <4> QED
        BY <3>2, <4>1
    <3> QED
      BY <3>2, <3>3, <3>4
  <2> HIDE DEF P, Q
  <2> DEFINE R == P \o <<r>>
  <2>3. R \in Seq(Rec) /\ Len(R) = o + 1 /\ \A i \in 1 .. o + 1 : R[i] = IF i <= o THEN P[i] ELSE r
    <3>1. <<r>> \in Seq(Rec) /\ Len(<<r>>) = 1 /\ <<r>>[1] = r
      OBVIOUS
    <3>2. /\ R \in Seq(Rec) /\ Len(R) = o + 1
          /\ \A i \in 1 .. o + 1 : R[i] = IF i <= o THEN P[i] ELSE <<r>>[i - o]
      BY <2>1, <3>1, ConcatProperties
    <3> HIDE DEF R
    <3>3. \A i \in 1 .. o + 1 : ~(i <= o) => i - o = 1
      BY <1>3
    <3> QED
      BY <3>1, <3>2, <3>3
  <2> HIDE DEF R
  <2>4. /\ Len(N) = (o + 1) + (n - o)
        /\ \A i \in 1 .. (o + 1) + (n - o) : N[i] = IF i <= o + 1 THEN R[i] ELSE Q[i - (o + 1)]
    <3>1. N = R \o Q
      BY <1>4 DEF R
    <3> HIDE DEF n
    <3> QED
      BY <2>2, <2>3, <3>1
  <2>5. (o + 1) + (n - o) = n + 1
    BY <1>1, <1>3
  <2>6. DOMAIN N = 1 .. (n + 1)
    BY <1>7, <2>4, <2>5
  <2>7. ASSUME NEW i \in (o + 2) .. (n + 1) PROVE N[i] = s[i - 1]
    <3>1. i \in 1 .. (n + 1) /\ ~(i <= o + 1) /\ i - (o + 1) \in 1 .. (n - o) /\ o + (i - (o + 1)) = i - 1
      BY <1>1, <1>3
    <3> QED
      BY <2>2, <2>4, <2>5, <3>1
  <2>8. \A i \in 1 .. o : N[i] = s[i]
    BY <1>1, <1>3, <2>1, <2>3, <2>4, <2>5
  <2>9. N[o + 1] = r
    <3>1. o + 1 \in 1 .. o + 1 /\ o + 1 \in 1 .. (n + 1) /\ ~(o + 1 <= o)
      BY <1>1, <1>3
    <3> QED
      BY <2>3, <2>4, <2>5, <3>1
  <2> QED
    BY <2>4, <2>5, <2>6, <2>7, <2>8, <2>9
<1>9. Sorted(N)
  <2> HIDE DEF n, P, Q
  <2> SUFFICES ASSUME NEW i \in 1 .. (n + 1), NEW j \in 1 .. (n + 1), i <= j
               PROVE  N[i].pub <= N[j].pub
    BY <1>8 DEF Sorted
  <2>0. \A a, b \in 1 .. n : a <= b => s[a].pub <= s[b].pub
    BY <1>1 DEF Sorted
  <2>1. CASE j <= o
    <3>1. i \in 1 .. o /\ j \in 1 .. o /\ i \in 1 .. n /\ j \in 1 .. n
      BY <1>1, <1>3, <2>1
    <3> QED
      BY <3>1, <2>0, <1>8
  <2>2. CASE j = o + 1
    <3>1. i \in 1 .. o \/ i = o + 1
      BY <1>1, <1>3, <2>2
    <3> QED
      BY <3>1, <2>2, <1>2, <1>5, <1>8
  <2>3. CASE j \in (o + 2) .. (n + 1)
    <3>1. j - 1 \in (o + 1) .. n /\ j - 1 \in 1 .. n
      BY <1>1, <1>3, <2>3
    <3>2. N[j] = s[j - 1]
      BY <2>3, <1>8
    <3>3. CASE i \in 1 .. o
      <4>1. i \in 1 .. n /\ i <= j - 1
        BY <1>1, <1>3, <2>3, <3>3
      <4> QED
        BY <4>1, <3>1, <3>2, <3>3, <2>0, <1>8
    <3>4. CASE i = o + 1
      BY <3>1, <3>2, <3>4, <1>2, <1>5, <1>8, <1>1
    <3>5. CASE i \in (o + 2) .. (n + 1)
      <4>1. i - 1 \in 1 .. n /\ i - 1 <= j - 1
        BY <1>1, <1>3, <3>5
      <4> QED
        BY <4>1, <3>1, <3>2, <3>5, <2>0, <1>8
    <3> QED
      BY <3>3, <3>4, <3>5, <1>1, <1>3
  <2> QED
    BY <2>1, <2>2, <2>3, <1>1, <1>3
<1> QED
  BY <1>7, <1>9 DEF N
-----------------------------------------------------------------------------
(* What a change of NVD does to the database, to the records that stay and *)
(* to what a query hits.                                                   *)

LEMMA SplitAt ==
  ASSUME NEW s \in Seq(Rec), NEW i \in DOMAIN s
  PROVE  \E P, Q \in Seq(Rec) :
           /\ s = Between(P, <<s[i]>>, Q) /\ RemoveAt(s, i) = Between(P, <<>>, Q)
           /\ \A x \in Rec : [s EXCEPT ![i] = x] = Between(P, <<x>>, Q)
<1> DEFINE n == Len(s)
           P == SubSeq(s, 1, i - 1)
           Q == SubSeq(s, i + 1, n)
<1>1. n \in Nat /\ DOMAIN s = 1 .. n /\ i \in 1 .. n /\ \A j \in 1 .. n : s[j] \in Rec
  OBVIOUS
<1>2. P \in Seq(Rec) /\ Len(P) = i - 1 /\ \A j \in 1 .. (i - 1) : P[j] = s[j]
  <2>1. \A j \in 1 .. (i - 1) : s[j] \in Rec
    BY <1>1
  <2>2. /\ P \in Seq(Rec) /\ Len(P) = IF 1 <= i - 1 THEN (i - 1) - 1 + 1 ELSE 0
        /\ \A j \in 1 .. (i - 1) - 1 + 1 : P[j] = s[1 + j - 1]
    BY <1>1, <2>1, SubSeqProperties
  <2> HIDE DEF P, n
  <2>3. Len(P) = i - 1
    BY <1>1, <2>2
  <2>4. \A j \in 1 .. (i - 1) : j \in 1 .. (i - 1) - 1 + 1 /\ 1 + j - 1 = j
    BY <1>1
  <2> QED
    BY <2>2, <2>3, <2>4
<1>3. Q \in Seq(Rec) /\ Len(Q) = n - i /\ \A j \in 1 .. (n - i) : Q[j] = s[i + j]
  <2>1. \A j \in (i + 1) .. n : s[j] \in Rec
    BY <1>1
  <2>2. /\ Q \in Seq(Rec) /\ Len(Q) = IF i + 1 <= n THEN n - (i + 1) + 1 ELSE 0
        /\ \A j \in 1 .. n - (i + 1) + 1 : Q[j] = s[(i + 1) + j - 1]
    BY <1>1, <2>1, SubSeqProperties
  <2> HIDE DEF Q, n
  <2>3. Len(Q) = n - i
    BY <1>1, <2>2
  <2>4. \A j \in 1 .. (n - i) : j \in 1 .. n - (i + 1) + 1 /\ (i + 1) + j - 1 = i + j
    BY <1>1
  <2> QED
    BY <2>2, <2>3, <2>4
<1>4. RemoveAt(s, i) = P \o Q
  BY DEF RemoveAt
<1> HIDE DEF P, Q, n
<1>5. RemoveAt(s, i) = Between(P, <<>>, Q)
  BY <1>2, <1>4, ConcatEmptySeq DEF Between
<1>6. ASSUME NEW x \in Rec PROVE [s EXCEPT ![i] = x] = Between(P, <<x>>, Q)
  <2> DEFINE all == Between(P, <<x>>, Q)
             t == [s EXCEPT ![i] = x]
  <2>1. t \in Seq(Rec) /\ Len(t) = n /\ \A j \in 1 .. n : t[j] = IF j = i THEN x ELSE s[j]
    <3>1. i \in 1 .. Len(s)
      OBVIOUS
    <3> QED
      BY <3>1, ExceptSeq DEF n
  <2>2. all \in Seq(Rec)
    <3>1. <<x>> \in Seq(Rec)
      OBVIOUS
    <3>2. P \o <<x>> \in Seq(Rec)
      BY <3>1, <1>2, ConcatProperties
    <3> QED
      BY <3>2, <1>3, ConcatProperties DEF Between
  <2>3. /\ Len(all) = (Len(P) + 1) + Len(Q)
        /\ all[Len(P) + 1] = x
        /\ \A j \in 1 .. Len(P) : all[j] = P[j]
        /\ \A j \in 1 .. Len(Q) : all[(Len(P) + 1) + j] = Q[j]
    BY <1>2, <1>3, Positions
  <2> HIDE DEF all, t
  <2>4. Len(all) = n /\ all[i] = x
    BY <1>1, <1>2, <1>3, <2>3
  <2>5. ASSUME NEW j \in 1 .. n PROVE all[j] = t[j]
    <3>1. CASE j \in 1 .. (i - 1)
      <4>1. j # i
        BY <1>1, <3>1
      <4> QED
        BY <3>1, <4>1, <1>2, <2>1, <2>3
    <3>2. CASE j = i
      BY <3>2, <2>1, <2>4
    <3>3. CASE j > i
      <4>1. j - i \in 1 .. (n - i) /\ (Len(P) + 1) + (j - i) = j /\ i + (j - i) = j /\ j # i
        BY <1>1, <1>2, <3>3
      <4>2. all[(Len(P) + 1) + (j - i)] = Q[j - i]
        BY <4>1, <1>3, <2>3
      <4>3. Q[j - i] = s[i + (j - i)]
        BY <4>1, <1>3
      <4> QED
        BY <4>1, <4>2, <4>3, <2>1
    <3> QED
      BY <1>1, <3>1, <3>2, <3>3
  <2>6. all = t
    BY <2>1, <2>2, <2>4, <2>5, SeqEqual
  <2> QED
    BY <2>6 DEF all, t
<1>7. s = Between(P, <<s[i]>>, Q)
  <2>1. s[i] \in Rec
    BY <1>1
  <2>2. [s EXCEPT ![i] = s[i]] = s
    OBVIOUS
  <2> QED
    BY <1>6, <2>1, <2>2
<1> QED
  BY <1>2, <1>3, <1>5, <1>6, <1>7

LEMMA BetweenType ==
  ASSUME NEW P \in Seq(Rec), NEW M \in Seq(Rec), NEW Q \in Seq(Rec)
  PROVE  Between(P, M, Q) \in Seq(Rec)
BY ConcatProperties DEF Between

LEMMA InsertsRange ==
  ASSUME NEW old \in Seq(Rec), NEW new \in Seq(Rec), NEW r, Inserts(old, new, r)
  PROVE  Range(new) = Range(old) \cup {r}
<1>1. PICK o \in 0 .. Len(old) : /\ \A i \in 1 .. o : new[i] = old[i]
                                 /\ new[o + 1] = r
                                 /\ \A i \in (o + 1) .. Len(old) : new[i + 1] = old[i]
  BY DEF Inserts
<1> DEFINE n == Len(old)
<1>2. n \in Nat /\ Len(new) = n + 1 /\ DOMAIN old = 1 .. n /\ DOMAIN new = 1 .. (n + 1) /\ o \in 0 .. n
  BY DEF Inserts
<1>3. \A i \in (o + 1) .. n : new[i + 1] = old[i]
  BY <1>1
<1> HIDE DEF n
<1>4. ASSUME NEW i \in 1 .. n PROVE old[i] \in Range(new)
  <2>1. CASE i \in 1 .. o
    <3>1. i \in DOMAIN new
      BY <1>2
    <3> QED
      BY <2>1, <3>1, <1>1 DEF Range
  <2>2. CASE i \in (o + 1) .. n
    <3>1. i + 1 \in DOMAIN new
      BY <1>2
    <3> QED
      BY <2>2, <3>1, <1>3 DEF Range
  <2> QED
    BY <1>2, <2>1, <2>2
<1>5. r \in Range(new)
  <2>1. o + 1 \in DOMAIN new
    BY <1>2
  <2> QED
    BY <2>1, <1>1 DEF Range
<1>6. ASSUME NEW j \in 1 .. (n + 1) PROVE new[j] = r \/ \E i \in 1 .. n : new[j] = old[i]
  <2>1. CASE j \in 1 .. o
    <3>1. j \in 1 .. n
      BY <1>2, <2>1
    <3> QED
      BY <2>1, <3>1, <1>1
  <2>2. CASE j = o + 1
    BY <2>2, <1>1
  <2>3. CASE j > o + 1
    <3>1. j - 1 \in (o + 1) .. n /\ j - 1 \in 1 .. n /\ (j - 1) + 1 = j
      BY <1>2, <2>3
    <3>2. new[(j - 1) + 1] = old[j - 1]
      BY <3>1, <1>3
    <3> QED
      BY <3>1, <3>2
  <2> QED
    BY <1>2, <2>1, <2>2, <2>3
<1>7. Range(new) = {new[j] : j \in 1 .. (n + 1)} /\ Range(old) = {old[i] : i \in 1 .. n}
  BY <1>2 DEF Range
<1> QED
  BY <1>4, <1>5, <1>6, <1>7

LEMMA RemovalSorted ==
  ASSUME NEW old \in Seq(Rec), NEW new \in Seq(Rec), NEW r, Inserts(old, new, r), Sorted(new)
  PROVE  Sorted(old)
<1>1. PICK o \in 0 .. Len(old) : /\ \A i \in 1 .. o : new[i] = old[i]
                                 /\ \A i \in (o + 1) .. Len(old) : new[i + 1] = old[i]
  BY DEF Inserts
<1> DEFINE n == Len(old)
<1>2. n \in Nat /\ DOMAIN old = 1 .. n /\ DOMAIN new = 1 .. (n + 1) /\ o \in 0 .. n
  BY DEF Inserts
<1>3. \A i \in (o + 1) .. n : new[i + 1] = old[i]
  BY <1>1
<1> HIDE DEF n
<1> DEFINE at(i) == IF i <= o THEN i ELSE i + 1
<1>4. \A i \in 1 .. n : at(i) \in 1 .. (n + 1) /\ new[at(i)] = old[i]
  <2> SUFFICES ASSUME NEW i \in 1 .. n PROVE at(i) \in 1 .. (n + 1) /\ new[at(i)] = old[i]
    OBVIOUS
  <2>1. CASE i <= o
    <3>1. i \in 1 .. o /\ at(i) = i /\ i \in 1 .. (n + 1)
      BY <1>2, <2>1
    <3> QED
      BY <3>1, <1>1
  <2>2. CASE ~(i <= o)
    <3>1. i \in (o + 1) .. n /\ at(i) = i + 1 /\ i + 1 \in 1 .. (n + 1)
      BY <1>2, <2>2
    <3> QED
      BY <3>1, <1>3
  <2> QED
    BY <2>1, <2>2
<1>5. \A i, j \in 1 .. n : i <= j => at(i) <= at(j)
  BY <1>2
<1> HIDE DEF at
<1>6. \A a, b \in 1 .. (n + 1) : a <= b => new[a].pub <= new[b].pub
  BY <1>2 DEF Sorted
<1> SUFFICES ASSUME NEW i \in 1 .. n, NEW j \in 1 .. n, i <= j PROVE old[i].pub <= old[j].pub
  BY <1>2 DEF Sorted
<1>7. new[at(i)].pub <= new[at(j)].pub
  BY <1>4, <1>5, <1>6
<1> QED
  BY <1>4, <1>7

LEMMA AlikeSorted ==
  ASSUME NEW old \in Seq(Rec), NEW new \in Seq(Rec), Alike(old, new), Sorted(old)
  PROVE  Sorted(new)
<1> DEFINE n == Len(old)
<1>1. n \in Nat /\ DOMAIN old = 1 .. n /\ DOMAIN new = 1 .. n /\ \A i \in 1 .. n : new[i].pub = old[i].pub
  BY DEF Alike
<1> HIDE DEF n
<1> QED
  BY <1>1 DEF Sorted

LEMMA AddEdits ==
  ASSUME CrawlTyped, Add
  PROVE  \E r \in Rec : /\ r.id \notin Ids(Range(db)) /\ Edited(db, db', <<>>, <<r>>)
                        /\ db' \in Seq(Rec) /\ Sorted(db')
<1>1. PICK r \in NewRecords : r.id \notin Ids(Range(db)) /\ db' = Inserted(r, db)
  BY DEF Add
<1>2. r \in Rec
  <2>1. r \in NewRecords \cup UNION {Range(d) : d \in Databases}
    OBVIOUS
  <2>2. r = [id |-> r.id, pub |-> r.pub, mod |-> r.mod] /\ {r.id, r.pub, r.mod} \subseteq Nat
    BY <2>1, NvdCrawlAssumption
  <2> QED
    BY <2>2 DEF Rec
<1>3. db \in Seq(Rec) /\ Sorted(db)
  BY DEF CrawlTyped
<1> QED
  BY <1>1, <1>2, <1>3, InsertedShape

LEMMA WithdrawEdits ==
  ASSUME CrawlTyped, Withdraw
  PROVE  \E r \in Rec : /\ Edited(db, db', <<r>>, <<>>) /\ stable' = stable \ {r.id}
                        /\ db' \in Seq(Rec) /\ Sorted(db')
<1>1. PICK i \in DOMAIN db : db' = RemoveAt(db, i) /\ stable' = stable \ {db[i].id}
  BY DEF Withdraw
<1>2. db \in Seq(Rec) /\ Sorted(db)
  BY DEF CrawlTyped
<1>3. PICK P \in Seq(Rec), Q \in Seq(Rec) : db = Between(P, <<db[i]>>, Q) /\ db' = Between(P, <<>>, Q)
  BY <1>1, <1>2, SplitAt
<1> DEFINE r == db[i]
<1>4. r \in Rec
  BY <1>2
<1>5. db' \in Seq(Rec)
  <2>1. <<>> \in Seq(Rec)
    OBVIOUS
  <2> QED
    BY <1>3, <2>1, BetweenType
<1> HIDE DEF r
<1>6. Edited(db, db', <<r>>, <<>>)
  BY <1>3 DEF Edited, r
<1>7. Inserts(db', db, r)
  BY <1>4, <1>6, DeleteEdit
<1>8. Sorted(db')
  BY <1>2, <1>5, <1>7, RemovalSorted
<1> QED
  BY <1>1, <1>4, <1>5, <1>6, <1>8 DEF r

LEMMA ModifyEdits ==
  ASSUME CrawlTyped, Modify
  PROVE  \E r, s \in Rec :
           /\ s.id = r.id /\ s.pub = r.pub /\ r.mod <= Now /\ s.mod = Now + 1
           /\ Edited(db, db', <<r>>, <<s>>) /\ db' \in Seq(Rec) /\ Sorted(db')
           /\ edits' = Append(edits, IF r.mod >= From THEN "leave" ELSE "modify")
<1>1. PICK i \in DOMAIN db : /\ db[i].mod <= Now
                             /\ edits' = Append(edits, IF db[i].mod >= From THEN "leave" ELSE "modify")
                             /\ db' = [db EXCEPT ![i].mod = Now + 1]
  BY DEF Modify, Change
<1>2. db \in Seq(Rec) /\ Sorted(db)
  BY DEF CrawlTyped
<1> DEFINE r == db[i]
           s == [db[i] EXCEPT !.mod = Now + 1]
<1>3. r \in Rec
  BY <1>2
<1>4. s \in Rec /\ s.id = r.id /\ s.pub = r.pub /\ s.mod = Now + 1
  <2>1. Now + 1 \in Nat
    BY NvdCrawlAssumption
  <2> QED
    BY <1>3, <2>1 DEF Rec
<1>5. db' = [db EXCEPT ![i] = s]
  BY <1>1
<1>6. PICK P \in Seq(Rec), Q \in Seq(Rec) :
        db = Between(P, <<db[i]>>, Q) /\ \A x \in Rec : [db EXCEPT ![i] = x] = Between(P, <<x>>, Q)
  BY <1>2, SplitAt
<1> HIDE DEF s
<1>7. db' = Between(P, <<s>>, Q)
  BY <1>4, <1>5, <1>6
<1>8. db' \in Seq(Rec)
  <2>1. <<s>> \in Seq(Rec)
    BY <1>4
  <2> QED
    BY <1>7, <2>1, BetweenType
<1> HIDE DEF r
<1>9. Edited(db, db', <<r>>, <<s>>)
  BY <1>6, <1>7 DEF Edited, r
<1>10. Alike(db, db')
  BY <1>3, <1>4, <1>9, ReplaceEdit
<1>11. Sorted(db')
  BY <1>2, <1>8, <1>10, AlikeSorted
<1> QED
  BY <1>1, <1>3, <1>4, <1>8, <1>9, <1>11 DEF r

(* How the hits of a query follow a change: one at most comes, and is none *)
(* of those that stay, or one at most goes, or the records stay in place.   *)
Follows(old, new, date) ==
  \/ /\ edits' = Append(edits, "add")
     /\ new = old \/ \E r \in Rec : r.id \notin stable /\ Inserts(old, new, r)
  \/ /\ edits' = Append(edits, "withdraw")
     /\ new = old \/ \E r \in Rec : Inserts(new, old, r)
  \/ edits' = Append(edits, "modify") /\ Alike(old, new)
  \/ edits' = Append(edits, "leave") /\ (date = "pub" => Alike(old, new))

LEMMA AlikeSelf == ASSUME NEW s PROVE Alike(s, s)
BY DEF Alike

LEMMA DatabaseFollows ==
  ASSUME CrawlTyped, CrawlEnvironment
  PROVE  db' \in Seq(Rec) /\ Sorted(db') /\ Follows(db, db', "pub")
<1>0. stable \subseteq Ids(Range(db))
  BY DEF CrawlTyped
<1>1. CASE Add
  <2>1. PICK r \in Rec : /\ r.id \notin Ids(Range(db)) /\ Edited(db, db', <<>>, <<r>>)
                         /\ db' \in Seq(Rec) /\ Sorted(db')
    BY <1>1, AddEdits
  <2>2. Inserts(db, db', r)
    BY <2>1, InsertEdit
  <2>3. edits' = Append(edits, "add")
    BY <1>1 DEF Add, Change
  <2> QED
    BY <2>1, <2>2, <2>3, <1>0 DEF Follows
<1>2. CASE Withdraw
  <2>1. PICK r \in Rec : Edited(db, db', <<r>>, <<>>) /\ db' \in Seq(Rec) /\ Sorted(db')
    BY <1>2, WithdrawEdits
  <2>2. Inserts(db', db, r)
    BY <2>1, DeleteEdit
  <2>3. edits' = Append(edits, "withdraw")
    BY <1>2 DEF Withdraw, Change
  <2> QED
    BY <2>1, <2>2, <2>3 DEF Follows
<1>3. CASE Modify
  <2>1. PICK r \in Rec, s \in Rec :
           /\ s.id = r.id /\ s.pub = r.pub
           /\ Edited(db, db', <<r>>, <<s>>) /\ db' \in Seq(Rec) /\ Sorted(db')
           /\ edits' = Append(edits, IF r.mod >= From THEN "leave" ELSE "modify")
    BY <1>3, ModifyEdits
  <2>2. Alike(db, db')
    BY <2>1, ReplaceEdit
  <2> QED
    BY <2>1, <2>2 DEF Follows
<1> QED
  BY <1>1, <1>2, <1>3 DEF CrawlEnvironment

LEMMA HitsFollow ==
  ASSUME CrawlTyped, CrawlEnvironment, NEW date \in {"pub", "mod"}, NEW from \in {From} \cup Nat,
         NEW to \in Nat, date = "mod" => from = From /\ to = Now
  PROVE  Follows(Dated(db, date, from, to), Dated(db', date, from, to), date)
<1> DEFINE old == Dated(db, date, from, to)
           new == Dated(db', date, from, to)
<1>0. stable \subseteq Ids(Range(db))
  BY DEF CrawlTyped
<1>1. CASE Add
  <2>1. PICK r \in Rec : r.id \notin Ids(Range(db)) /\ Edited(db, db', <<>>, <<r>>)
    BY <1>1, AddEdits
  <2>2. edits' = Append(edits, "add")
    BY <1>1 DEF Add, Change
  <2>3. Edited(old, new, Dated(<<>>, date, from, to), Dated(<<r>>, date, from, to))
    <3>1. <<>> \in Seq(Rec) /\ <<r>> \in Seq(Rec)
      OBVIOUS
    <3> QED
      BY <2>1, <3>1, DatedEdited
  <2>4. Edited(old, new, <<>>, <<>>) \/ Edited(old, new, <<>>, <<r>>)
    BY <2>3, DatedEmpty, DatedSingle
  <2> HIDE DEF old, new
  <2>5. new = old \/ Inserts(old, new, r)
    BY <2>4, SameEdit, InsertEdit
  <2> QED
    BY <2>1, <2>2, <2>5, <1>0 DEF Follows, old, new
<1>2. CASE Withdraw
  <2>1. PICK r \in Rec : Edited(db, db', <<r>>, <<>>)
    BY <1>2, WithdrawEdits
  <2>2. edits' = Append(edits, "withdraw")
    BY <1>2 DEF Withdraw, Change
  <2>3. Edited(old, new, Dated(<<r>>, date, from, to), Dated(<<>>, date, from, to))
    <3>1. <<>> \in Seq(Rec) /\ <<r>> \in Seq(Rec)
      OBVIOUS
    <3> QED
      BY <2>1, <3>1, DatedEdited
  <2>4. Edited(old, new, <<>>, <<>>) \/ Edited(old, new, <<r>>, <<>>)
    BY <2>3, DatedEmpty, DatedSingle
  <2> HIDE DEF old, new
  <2>5. new = old \/ Inserts(new, old, r)
    BY <2>4, SameEdit, DeleteEdit
  <2> QED
    BY <2>1, <2>2, <2>5 DEF Follows, old, new
<1>3. CASE Modify
  <2>1. PICK r \in Rec, s \in Rec :
           /\ s.id = r.id /\ s.pub = r.pub /\ r.mod <= Now /\ s.mod = Now + 1
           /\ Edited(db, db', <<r>>, <<s>>)
           /\ edits' = Append(edits, IF r.mod >= From THEN "leave" ELSE "modify")
    BY <1>3, ModifyEdits
  <2>2. Edited(old, new, Dated(<<r>>, date, from, to), Dated(<<s>>, date, from, to))
    <3>1. <<r>> \in Seq(Rec) /\ <<s>> \in Seq(Rec)
      OBVIOUS
    <3> QED
      BY <2>1, <3>1, DatedEdited
  <2>3. Dated(<<r>>, date, from, to) = IF r[date] \in from .. to THEN <<r>> ELSE <<>>
    BY DatedSingle
  <2>4. Dated(<<s>>, date, from, to) = IF s[date] \in from .. to THEN <<s>> ELSE <<>>
    BY DatedSingle
  <2> HIDE DEF old, new
  <2>5. CASE date = "pub"
    <3>1. r[date] = s[date]
      BY <2>1, <2>5
    <3>2. Edited(old, new, <<>>, <<>>) \/ Edited(old, new, <<r>>, <<s>>)
      BY <2>2, <2>3, <2>4, <3>1
    <3>3. Alike(old, new)
      BY <2>1, <3>2, SameEdit, ReplaceEdit, AlikeSelf
    <3> QED
      BY <2>1, <3>3 DEF Follows, old, new
  <2>6. CASE date = "mod" /\ ~(r.mod >= From)
    <3>1. r.mod \notin from .. to /\ s.mod \notin from .. to
      <4>1. r.mod \in Nat /\ From \in Nat /\ Now \in Nat
        BY NvdCrawlAssumption DEF Rec
      <4> QED
        BY <2>1, <2>6, <4>1
    <3>2. Edited(old, new, <<>>, <<>>)
      BY <2>2, <2>3, <2>4, <2>6, <3>1
    <3>3. Alike(old, new)
      BY <3>2, SameEdit, AlikeSelf
    <3> QED
      BY <2>1, <2>6, <3>3 DEF Follows, old, new
  <2>7. CASE date = "mod" /\ r.mod >= From
    BY <2>1, <2>7 DEF Follows
  <2> QED
    BY <2>5, <2>6, <2>7
<1> QED
  BY <1>1, <1>2, <1>3 DEF CrawlEnvironment

(* A record that stays was there before, with its date of publication.      *)
LEMMA Persist ==
  ASSUME CrawlTyped, CrawlEnvironment
  PROVE  /\ stable' \subseteq stable /\ stable' \subseteq Ids(Range(db'))
         /\ \A r \in Range(db') : r.id \in stable' =>
              \E q \in Range(db) : q.id = r.id /\ q.pub = r.pub
<1>0. stable \subseteq Ids(Range(db)) /\ db \in Seq(Rec) /\ db' \in Seq(Rec)
  BY DatabaseFollows DEF CrawlTyped
<1>1. CASE Add
  <2>1. PICK r \in Rec : r.id \notin Ids(Range(db)) /\ Edited(db, db', <<>>, <<r>>)
    BY <1>1, AddEdits
  <2>2. Range(db') = Range(db) \cup {r}
    BY <2>1, <1>0, InsertEdit, InsertsRange
  <2>3. stable' = stable
    BY <1>1 DEF Add
  <2> QED
    BY <1>0, <2>1, <2>2, <2>3 DEF Ids
<1>2. CASE Withdraw
  <2>1. PICK r \in Rec : Edited(db, db', <<r>>, <<>>) /\ stable' = stable \ {r.id}
    BY <1>2, WithdrawEdits
  <2>2. Range(db) = Range(db') \cup {r}
    BY <2>1, <1>0, DeleteEdit, InsertsRange
  <2> QED
    BY <1>0, <2>1, <2>2 DEF Ids
<1>3. CASE Modify
  <2>1. PICK r \in Rec, s \in Rec :
           s.id = r.id /\ s.pub = r.pub /\ Edited(db, db', <<r>>, <<s>>)
    BY <1>3, ModifyEdits
  <2>2. Alike(db, db')
    BY <2>1, ReplaceEdit
  <2>3. stable' = stable
    BY <1>3 DEF Modify
  <2> DEFINE n == Len(db)
  <2>4. /\ Range(db) = {db[i] : i \in 1 .. n} /\ Range(db') = {db'[i] : i \in 1 .. n}
        /\ \A i \in 1 .. n : db'[i].id = db[i].id /\ db'[i].pub = db[i].pub
    BY <1>0, <2>2 DEF Range, Alike
  <2> HIDE DEF n
  <2> QED
    BY <1>0, <2>3, <2>4 DEF Ids
<1> QED
  BY <1>1, <1>2, <1>3 DEF CrawlEnvironment

LEMMA HappenedLater ==
  ASSUME CrawlTyped, NEW kind \in {"add", "withdraw", "modify", "leave"}, edits' = Append(edits, kind)
  PROVE  Range(edits') = Range(edits) \cup {kind}
<1> DEFINE n == Len(edits)
<1>1. edits \in Seq({"add", "withdraw", "modify", "leave"}) /\ n \in Nat
  BY DEF CrawlTyped
<1>2. /\ DOMAIN edits' = 1 .. (n + 1) /\ edits'[n + 1] = kind
      /\ DOMAIN edits = 1 .. n /\ \A i \in 1 .. n : edits'[i] = edits[i]
  <2>1. DOMAIN edits = 1 .. n
    BY <1>1
  <2>2. DOMAIN Append(edits, kind) = 1 .. (n + 1)
    <3>1. /\ Append(edits, kind) \in Seq({"add", "withdraw", "modify", "leave"})
          /\ Len(Append(edits, kind)) = n + 1
      BY <1>1, AppendProperties
    <3> QED
      BY <3>1, LenProperties
  <2>3. Append(edits, kind)[n + 1] = kind /\ \A i \in 1 .. n : Append(edits, kind)[i] = edits[i]
    BY <1>1, AppendProperties
  <2> QED
    BY <2>1, <2>2, <2>3
<1> HIDE DEF n
<1>3. \A i \in 1 .. (n + 1) : i \in 1 .. n \/ i = n + 1
  BY <1>1
<1>4. n + 1 \in 1 .. (n + 1) /\ \A i \in 1 .. n : i \in 1 .. (n + 1)
  BY <1>1
<1> QED
  BY <1>2, <1>3, <1>4 DEF Range

(* As long as records only come or only go, a count that is still the      *)
(* probe's means that nothing did.                                          *)
LEMMA CountTells ==
  ASSUME CrawlTyped, CrawlEnvironment, NEW old \in Seq(Rec), NEW new \in Seq(Rec),
         Follows(old, new, "pub"), Counted(old), crawl.total \in Nat
  PROVE  /\ ~Happened("add")' => Len(new) <= crawl.total
         /\ ~Happened("withdraw")' => Len(new) >= crawl.total
         /\ ~(Happened("withdraw") /\ Happened("add"))' /\ Len(new) = crawl.total =>
              Len(old) = crawl.total /\ Alike(old, new)
<1>1. Len(old) \in Nat /\ Len(new) \in Nat
  OBVIOUS
<1>2. /\ ~Happened("add") => Len(old) <= crawl.total
      /\ ~Happened("withdraw") => Len(old) >= crawl.total
  BY DEF Counted
<1>3. CASE edits' = Append(edits, "add")
           /\ (new = old \/ \E r \in Rec : r.id \notin stable /\ Inserts(old, new, r))
  <2>1. Happened("add")' /\ (Happened("withdraw")' <=> Happened("withdraw"))
    <3>1. Range(edits') = Range(edits) \cup {"add"}
      BY <1>3, HappenedLater
    <3> QED
      BY <3>1 DEF Happened
  <2>2. new = old \/ Len(new) = Len(old) + 1
    BY <1>3 DEF Inserts
  <2> QED
    BY <1>1, <1>2, <2>1, <2>2, AlikeSelf
<1>4. CASE edits' = Append(edits, "withdraw")
           /\ (new = old \/ \E r \in Rec : Inserts(new, old, r))
  <2>1. Happened("withdraw")' /\ (Happened("add")' <=> Happened("add"))
    <3>1. Range(edits') = Range(edits) \cup {"withdraw"}
      BY <1>4, HappenedLater
    <3> QED
      BY <3>1 DEF Happened
  <2>2. new = old \/ Len(old) = Len(new) + 1
    BY <1>4 DEF Inserts
  <2> QED
    BY <1>1, <1>2, <2>1, <2>2, AlikeSelf
<1>5. CASE (edits' = Append(edits, "modify") \/ edits' = Append(edits, "leave")) /\ Alike(old, new)
  <2>1. (Happened("add")' <=> Happened("add")) /\ (Happened("withdraw")' <=> Happened("withdraw"))
    <3>1. Range(edits') = Range(edits) \cup {"modify"} \/ Range(edits') = Range(edits) \cup {"leave"}
      BY <1>5, HappenedLater
    <3> QED
      BY <3>1 DEF Happened
  <2>2. Len(new) = Len(old)
    BY <1>5 DEF Alike
  <2> QED
    BY <1>1, <1>2, <1>5, <2>1, <2>2
<1> QED
  BY <1>3, <1>4, <1>5 DEF Follows
-----------------------------------------------------------------------------
(* What a crawl knows survives every change of NVD.                        *)

LEMMA DistinctGrows ==
  ASSUME NEW old \in Seq(Rec), NEW new \in Seq(Rec), NEW r, Inserts(old, new, r),
         Distinct(old), r.id \notin Ids(Range(old))
  PROVE  Distinct(new)
<1>1. PICK o \in 0 .. Len(old) : /\ \A i \in 1 .. o : new[i] = old[i]
                                 /\ new[o + 1] = r
                                 /\ \A i \in (o + 1) .. Len(old) : new[i + 1] = old[i]
  BY DEF Inserts
<1> DEFINE n == Len(old)
           from(i) == IF i <= o THEN i ELSE i - 1
<1>2. n \in Nat /\ DOMAIN old = 1 .. n /\ DOMAIN new = 1 .. (n + 1) /\ o \in 0 .. n
  BY DEF Inserts
<1>3. \A i \in (o + 1) .. n : new[i + 1] = old[i]
  BY <1>1
<1> HIDE DEF n
<1>4. ASSUME NEW i \in 1 .. (n + 1), i # o + 1
      PROVE from(i) \in 1 .. n /\ new[i] = old[from(i)] /\ new[i].id # r.id
  <2>1. from(i) \in 1 .. n /\ new[i] = old[from(i)]
    <3>1. CASE i <= o
      <4>1. i \in 1 .. o /\ i \in 1 .. n /\ from(i) = i
        BY <1>2, <3>1
      <4> QED
        BY <4>1, <1>1
    <3>2. CASE ~(i <= o)
      <4>1. i - 1 \in (o + 1) .. n /\ i - 1 \in 1 .. n /\ from(i) = i - 1 /\ (i - 1) + 1 = i
        BY <1>2, <1>4, <3>2
      <4>2. new[(i - 1) + 1] = old[i - 1]
        BY <4>1, <1>3
      <4> QED
        BY <4>1, <4>2
    <3> QED
      BY <3>1, <3>2
  <2> HIDE DEF from
  <2>2. old[from(i)] \in Range(old)
    BY <2>1, <1>2 DEF Range
  <2> QED
    BY <2>1, <2>2 DEF Ids
<1> SUFFICES ASSUME NEW i \in 1 .. (n + 1), NEW j \in 1 .. (n + 1), new[i].id = new[j].id
             PROVE  i = j
  BY <1>2 DEF Distinct
<1>5. CASE i = o + 1 \/ j = o + 1
  BY <1>1, <1>4, <1>5
<1>6. CASE i # o + 1 /\ j # o + 1
  <2>1. /\ from(i) \in 1 .. n /\ new[i] = old[from(i)]
        /\ from(j) \in 1 .. n /\ new[j] = old[from(j)]
    BY <1>4, <1>6
  <2> HIDE DEF from
  <2>2. from(i) = from(j)
    BY <2>1, <1>2 DEF Distinct
  <2> QED
    BY <2>2, <1>2, <1>6 DEF from
<1> QED
  BY <1>5, <1>6

LEMMA DistinctShrinks ==
  ASSUME NEW old \in Seq(Rec), NEW new \in Seq(Rec), NEW r, Inserts(old, new, r), Distinct(new)
  PROVE  Distinct(old)
<1>1. PICK o \in 0 .. Len(old) : /\ \A i \in 1 .. o : new[i] = old[i]
                                 /\ \A i \in (o + 1) .. Len(old) : new[i + 1] = old[i]
  BY DEF Inserts
<1> DEFINE n == Len(old)
           at(i) == IF i <= o THEN i ELSE i + 1
<1>2. n \in Nat /\ DOMAIN old = 1 .. n /\ DOMAIN new = 1 .. (n + 1) /\ o \in 0 .. n
  BY DEF Inserts
<1>3. \A i \in (o + 1) .. n : new[i + 1] = old[i]
  BY <1>1
<1> HIDE DEF n
<1>4. ASSUME NEW i \in 1 .. n PROVE at(i) \in 1 .. (n + 1) /\ new[at(i)] = old[i]
  <2>1. CASE i <= o
    <3>1. i \in 1 .. o /\ at(i) = i /\ i \in 1 .. (n + 1)
      BY <1>2, <2>1
    <3> QED
      BY <3>1, <1>1
  <2>2. CASE ~(i <= o)
    <3>1. i \in (o + 1) .. n /\ at(i) = i + 1 /\ i + 1 \in 1 .. (n + 1)
      BY <1>2, <2>2
    <3> QED
      BY <3>1, <1>3
  <2> QED
    BY <2>1, <2>2
<1> SUFFICES ASSUME NEW i \in 1 .. n, NEW j \in 1 .. n, old[i].id = old[j].id PROVE i = j
  BY <1>2 DEF Distinct
<1>5. at(i) = at(j)
  <2> HIDE DEF at
  <2> QED
    BY <1>2, <1>4 DEF Distinct
<1> QED
  BY <1>2, <1>5

LEMMA DistinctStays ==
  ASSUME CrawlTyped, CrawlEnvironment, Distinct(db)
  PROVE  Distinct(db')
<1>0. db \in Seq(Rec) /\ db' \in Seq(Rec)
  BY DatabaseFollows DEF CrawlTyped
<1>1. CASE Add
  <2>1. PICK r \in Rec : r.id \notin Ids(Range(db)) /\ Edited(db, db', <<>>, <<r>>)
    BY <1>1, AddEdits
  <2> QED
    BY <2>1, <1>0, InsertEdit, DistinctGrows
<1>2. CASE Withdraw
  <2>1. PICK r \in Rec : Edited(db, db', <<r>>, <<>>)
    BY <1>2, WithdrawEdits
  <2> QED
    BY <2>1, <1>0, DeleteEdit, DistinctShrinks
<1>3. CASE Modify
  <2>1. PICK r \in Rec, s \in Rec : s.id = r.id /\ s.pub = r.pub /\ Edited(db, db', <<r>>, <<s>>)
    BY <1>3, ModifyEdits
  <2>2. Alike(db, db')
    BY <2>1, ReplaceEdit
  <2>3. DOMAIN db' = DOMAIN db /\ \A i \in DOMAIN db : db'[i].id = db[i].id
    BY <2>2, <1>0 DEF Alike
  <2> QED
    BY <2>3 DEF Distinct
<1> QED
  BY <1>1, <1>2, <1>3 DEF CrawlEnvironment

LEMMA ChangeFrame ==
  ASSUME CrawlEnvironment
  PROVE  Asking /\ crawl' = crawl
         /\ \E kind \in {"add", "withdraw", "modify", "leave"} : edits' = Append(edits, kind)
BY DEF CrawlEnvironment, Add, Withdraw, Modify, Change

LEMMA TypedStays == CrawlTyped /\ CrawlEnvironment => CrawlTyped'
<1> SUFFICES ASSUME CrawlTyped, CrawlEnvironment PROVE CrawlTyped'
  OBVIOUS
<1>1. crawl' = crawl
      /\ \E kind \in {"add", "withdraw", "modify", "leave"} : edits' = Append(edits, kind)
  BY ChangeFrame
<1>2. edits' \in Seq({"add", "withdraw", "modify", "leave"})
  BY <1>1 DEF CrawlTyped
<1>3. db' \in Seq(Rec) /\ Sorted(db')
  BY DatabaseFollows
<1>4. stable' \subseteq Ids(Range(db'))
  BY Persist
<1>5. crawl' \in CrawlState /\ IsFiniteSet(crawl'.selected)
  BY <1>1 DEF CrawlTyped
<1> QED
  BY <1>2, <1>3, <1>4, <1>5 DEF CrawlTyped

(* An edit that is seen later was seen before.                              *)
LEMMA UnseenStays ==
  ASSUME CrawlTyped, CrawlEnvironment, ~Unseen'
  PROVE  ~Unseen /\ (crawl.mode # "window" => ~(Happened("withdraw") /\ Happened("add"))')
<1>1. crawl' = crawl /\ \E kind \in {"add", "withdraw", "modify", "leave"} : edits' = Append(edits, kind)
  BY ChangeFrame
<1>2. Range(edits) \subseteq Range(edits')
  BY <1>1, HappenedLater
<1> QED
  BY <1>1, <1>2 DEF Unseen, Happened

LEMMA CountedStays ==
  ASSUME CrawlTyped, CrawlEnvironment, NEW old \in Seq(Rec), NEW new \in Seq(Rec),
         Follows(old, new, "pub"), Counted(old)
  PROVE  /\ ~Happened("add")' => Len(new) <= crawl'.total
         /\ ~Happened("withdraw")' => Len(new) >= crawl'.total
         /\ crawl.mode # "window" /\ ~Unseen' /\ Len(new) = crawl'.total =>
              ~Unseen /\ Len(old) = crawl.total /\ Alike(old, new)
<1>1. crawl' = crawl /\ crawl.total \in Nat
  BY ChangeFrame DEF CrawlTyped, CrawlState
<1> QED
  BY <1>1, CountTells, UnseenStays

LEMMA ReadStays ==
  ASSUME CrawlTyped, db' \in Seq(Rec), Alike(db, db'), crawl' = crawl, ReadFromEnd
  PROVE  ReadFromEnd'
<1>1. DOMAIN db' = DOMAIN db /\ \A i \in DOMAIN db : db'[i].id = db[i].id /\ db'[i].pub = db[i].pub
  BY DEF CrawlTyped, Alike
<1> QED
  BY <1>1 DEF ReadFromEnd, Has

LEMMA SimpleStays ==
  CrawlTyped /\ CrawlEnvironment /\ crawl.mode = "simple" /\ SimpleInv => SimpleInv'
<1> SUFFICES ASSUME CrawlTyped, CrawlEnvironment, crawl.mode = "simple", SimpleInv PROVE SimpleInv'
  OBVIOUS
<1>1. crawl' = crawl /\ db \in Seq(Rec) /\ db' \in Seq(Rec) /\ Follows(db, db', "pub")
  BY ChangeFrame, DatabaseFollows DEF CrawlTyped
<1>2. Distinct(db')
  BY DistinctStays DEF SimpleInv
<1>3. CASE crawl.at = "page"
  <2>1. /\ crawl.upper \in 1 .. crawl.total /\ Counted(db)
        /\ Count <= crawl.total /\ crawl.total < Count + crawl.upper
        /\ ~Unseen /\ Len(db) = crawl.total => ReadFromEnd /\ Unique(crawl.selected)
    BY <1>3 DEF SimpleInv
  <2>2. /\ ~Happened("add")' => Len(db') <= crawl'.total
        /\ ~Happened("withdraw")' => Len(db') >= crawl'.total
        /\ ~Unseen' /\ Len(db') = crawl'.total =>
             ~Unseen /\ Len(db) = crawl.total /\ Alike(db, db')
    BY <1>1, <2>1, CountedStays
  <2>3. ~Unseen' /\ Len(db') = crawl'.total => ReadFromEnd' /\ Unique(crawl'.selected)
    BY <1>1, <2>1, <2>2, ReadStays
  <2> QED
    BY <1>1, <1>2, <1>3, <2>1, <2>2, <2>3 DEF SimpleInv, Counted
<1>4. CASE crawl.at # "page"
  BY <1>1, <1>2, <1>4 DEF SimpleInv
<1> QED
  BY <1>3, <1>4

LEMMA TailStays ==
  CrawlTyped /\ CrawlEnvironment /\ crawl.mode = "tail" /\ TailInv => TailInv'
<1> SUFFICES ASSUME CrawlTyped, CrawlEnvironment, crawl.mode = "tail", TailInv PROVE TailInv'
  OBVIOUS
<1>1. crawl' = crawl /\ db \in Seq(Rec) /\ db' \in Seq(Rec) /\ Follows(db, db', "pub")
  BY ChangeFrame, DatabaseFollows DEF CrawlTyped
<1>2. CASE crawl.at = "page"
  <2>1. /\ crawl.upper \in 1 .. crawl.total /\ Counted(db)
        /\ ~Unseen /\ Len(db) = crawl.total => ReadFromEnd
    BY <1>2 DEF TailInv
  <2>2. /\ ~Happened("add")' => Len(db') <= crawl'.total
        /\ ~Happened("withdraw")' => Len(db') >= crawl'.total
        /\ ~Unseen' /\ Len(db') = crawl'.total =>
             ~Unseen /\ Len(db) = crawl.total /\ Alike(db, db')
    BY <1>1, <2>1, CountedStays
  <2>3. ~Unseen' /\ Len(db') = crawl'.total => ReadFromEnd'
    BY <1>1, <2>1, <2>2, ReadStays
  <2> QED
    BY <1>1, <1>2, <2>1, <2>2, <2>3 DEF TailInv, Counted
<1>3. CASE crawl.at # "page"
  BY <1>1, <1>3 DEF TailInv
<1> QED
  BY <1>2, <1>3

LEMMA StartType ==
  ASSUME crawl \in CrawlState
  PROVE  /\ crawl.end \in Nat /\ Start(crawl) \in Nat
         /\ crawl.explicit => From <= Start(crawl)
         /\ ~crawl.explicit \/ From <= crawl.end => Start(crawl) <= crawl.end
<1> DEFINE start == IF crawl.end > Width THEN crawl.end - Width ELSE 0
<1>1. crawl.end \in Nat /\ Width \in Nat /\ From \in Nat
  BY NvdCrawlAssumption DEF CrawlState
<1>2. start \in Nat /\ start <= crawl.end
  BY <1>1
<1>3. Start(crawl) = IF crawl.explicit THEN Max({start, From}) ELSE start
  BY DEF Start
<1> HIDE DEF start
<1>4. Max({start, From}) = IF start >= From THEN start ELSE From
  <2> DEFINE m == CHOOSE x \in {start, From} : \A y \in {start, From} : x >= y
  <2>1. \E x \in {start, From} : \A y \in {start, From} : x >= y
    BY <1>1, <1>2
  <2>2. m \in {start, From} /\ m >= start /\ m >= From
    BY <2>1
  <2>3. m = Max({start, From})
    BY DEF Max
  <2> HIDE DEF m
  <2> QED
    BY <1>1, <1>2, <2>2, <2>3
<1> QED
  BY <1>1, <1>2, <1>3, <1>4

LEMMA WantedLatest ==
  ASSUME crawl.mode = "latest", NEW r
  PROVE  Wanted(r) <=> r.pub <= Now /\ (crawl.explicit => r.pub >= From)
BY DEF Wanted

LEMMA PassedStays ==
  CrawlTyped /\ CrawlEnvironment /\ crawl.mode = "latest" /\ Passed => Passed'
<1> SUFFICES ASSUME CrawlTyped, CrawlEnvironment, crawl.mode = "latest", Passed PROVE Passed'
  OBVIOUS
<1>1. crawl' = crawl
  BY ChangeFrame
<1>2. ASSUME ~Unseen', NEW r \in Range(db'), r.id \in stable', Wanted(r)', r.pub > crawl.end
      PROVE  Has(crawl.selected, r)
  <2>1. PICK q \in Range(db) : q.id = r.id /\ q.pub = r.pub
    BY <1>2, Persist
  <2>2. q.id \in stable /\ ~Unseen
    BY <1>2, <2>1, Persist, UnseenStays
  <2>3. r.pub <= Now /\ (crawl.explicit => r.pub >= From)
    BY <1>1, <1>2 DEF Wanted
  <2>4. Wanted(q)
    BY <2>1, <2>3, WantedLatest
  <2> QED
    BY <1>2, <2>1, <2>2, <2>4 DEF Passed, Has
<1>3. /\ Unique(crawl.selected) /\ Cardinality(crawl.selected) < Count
      /\ crawl.explicit => From <= crawl.end
      /\ crawl.at = "probe" => \A s \in crawl.selected : s.pub >= crawl.end
  BY DEF Passed
<1> QED
  BY <1>1, <1>2, <1>3 DEF Passed

LEMMA ReadingStays ==
  CrawlTyped /\ CrawlEnvironment /\ crawl.mode = "latest" /\ Reading => Reading'
<1> SUFFICES ASSUME CrawlTyped, CrawlEnvironment, crawl.mode = "latest", Reading PROVE Reading'
  OBVIOUS
<1> DEFINE from == Start(crawl)
           to == crawl.end
           old == Dated(db, "pub", from, to)
           new == Dated(db', "pub", from, to)
<1>1. crawl' = crawl /\ db \in Seq(Rec) /\ db' \in Seq(Rec) /\ crawl \in CrawlState
  BY ChangeFrame, DatabaseFollows DEF CrawlTyped
<1>2. from \in Nat /\ to \in Nat
  BY <1>1, StartType
<1>3. InWindow = old /\ InWindow' = new
  BY <1>1 DEF InWindow
<1> HIDE DEF from, to
<1>4. old \in Seq(Rec) /\ new \in Seq(Rec)
  BY <1>1, DatedType
<1>5. Follows(old, new, "pub")
  BY <1>2, HitsFollow
<1>6. /\ \A r : r \in Range(old) <=> r \in Range(db) /\ r.pub \in from .. to
      /\ \A r : r \in Range(new) <=> r \in Range(db') /\ r.pub \in from .. to
  BY <1>1, DatedElements
<1> HIDE DEF old, new
<1>7. /\ Counted(old)
      /\ ~Unseen /\ Len(old) = crawl.total =>
          /\ \A i \in DOMAIN old : i > crawl.upper => Has(crawl.selected, old[i])
          /\ \A i \in DOMAIN crawl.probe :
               crawl.probe[i].id = old[i].id /\ crawl.probe[i].pub = old[i].pub
      /\ ~Unseen /\ crawl.upper <= PageSize => \A r \in Range(old) :
          r.id \in stable => \/ Has(crawl.selected, r)
                             \/ crawl.upper > 0 /\ Has(Range(crawl.probe), r)
      /\ Len(crawl.probe) = IF PageSize < crawl.total THEN PageSize ELSE crawl.total
  BY <1>3 DEF Reading
<1>8. /\ ~Happened("add")' => Len(new) <= crawl'.total
      /\ ~Happened("withdraw")' => Len(new) >= crawl'.total
      /\ ~Unseen' /\ Len(new) = crawl'.total =>
             ~Unseen /\ Len(old) = crawl.total /\ Alike(old, new)
  BY <1>4, <1>5, <1>7, CountedStays
<1>9. ASSUME ~Unseen', Len(new) = crawl.total
      PROVE  /\ \A i \in DOMAIN new : i > crawl.upper => Has(crawl.selected, new[i])
             /\ \A i \in DOMAIN crawl.probe :
                  crawl.probe[i].id = new[i].id /\ crawl.probe[i].pub = new[i].pub
  <2>1. ~Unseen /\ Len(old) = crawl.total /\ Alike(old, new)
    BY <1>1, <1>8, <1>9
  <2>2. /\ DOMAIN new = DOMAIN old /\ DOMAIN old = 1 .. crawl.total
        /\ \A i \in DOMAIN old : new[i].id = old[i].id /\ new[i].pub = old[i].pub
    BY <2>1, <1>4 DEF Alike
  <2>3. DOMAIN crawl.probe \subseteq DOMAIN old
    <3>1. crawl.probe \in Seq(Rec) /\ crawl.total \in Nat /\ PageSize \in Nat
      BY <1>1, NvdCrawlAssumption DEF CrawlState
    <3>2. DOMAIN crawl.probe = 1 .. Len(crawl.probe) /\ Len(crawl.probe) <= crawl.total
      BY <3>1, <1>7
    <3> QED
      BY <2>2, <3>1, <3>2
  <2> QED
    BY <1>7, <2>1, <2>2, <2>3 DEF Has
<1>10. ASSUME ~Unseen', crawl.upper <= PageSize, NEW r \in Range(new), r.id \in stable'
       PROVE  \/ Has(crawl.selected, r)
              \/ crawl.upper > 0 /\ Has(Range(crawl.probe), r)
  <2>1. r \in Range(db') /\ r.pub \in from .. to
    BY <1>6
  <2>2. PICK q \in Range(db) : q.id = r.id /\ q.pub = r.pub
    BY <1>10, <2>1, Persist
  <2>3. q \in Range(old) /\ q.id \in stable /\ ~Unseen
    BY <1>6, <1>10, <2>1, <2>2, Persist, UnseenStays
  <2> QED
    BY <1>7, <1>10, <2>2, <2>3 DEF Has
<1>11. /\ crawl.newer \in Start(crawl) .. crawl.end
       /\ \A s \in crawl.selected : s.pub >= crawl.newer
       /\ crawl.upper <= crawl.total
       /\ crawl.upper = crawl.total \/ \E k \in 0 .. crawl.upper : crawl.upper = k * PageSize
       /\ Len(crawl.probe) = IF PageSize < crawl.total THEN PageSize ELSE crawl.total
       /\ Sorted(crawl.probe)
       /\ \A r \in Range(crawl.probe) : r.pub \in Start(crawl) .. crawl.end
  BY DEF Reading
<1> QED
  BY <1>1, <1>3, <1>8, <1>9, <1>10, <1>11 DEF Reading, Counted

LEMMA WindowStays ==
  CrawlTyped /\ CrawlEnvironment /\ crawl.mode = "window" /\ WindowInv => WindowInv'
<1> SUFFICES ASSUME CrawlTyped, CrawlEnvironment, crawl.mode = "window", WindowInv PROVE WindowInv'
  OBVIOUS
<1> DEFINE old == Dated(db, crawl.pass, From, Now)
           new == Dated(db', crawl.pass, From, Now)
<1>1. crawl' = crawl /\ db \in Seq(Rec) /\ db' \in Seq(Rec) /\ crawl.pass \in {"pub", "mod"}
      /\ crawl.upper \in Nat
  BY ChangeFrame, DatabaseFollows DEF CrawlTyped, CrawlState
<1>2. old \in Seq(Rec) /\ new \in Seq(Rec)
  BY <1>1, DatedType
<1>3. Follows(old, new, crawl.pass)
  <2>1. From \in {From} \cup Nat /\ Now \in Nat
    BY NvdCrawlAssumption
  <2> QED
    BY <1>1, <2>1, HitsFollow
<1> HIDE DEF old, new
<1>4. /\ Unique(crawl.selected)
      /\ ~Unseen =>
          /\ \A i \in DOMAIN old :
               i <= crawl.upper /\ old[i].id \in stable => old[i].id \in Ids(crawl.selected)
          /\ crawl.pass = "mod" => \A r \in Range(db) :
               r.id \in stable /\ r.pub \in From .. Now => r.id \in Ids(crawl.selected)
  BY DEF WindowInv, old
<1>5. ASSUME ~Unseen', NEW i \in DOMAIN new, i <= crawl.upper, new[i].id \in stable'
      PROVE  new[i].id \in Ids(crawl.selected)
  <2>1. ~Unseen /\ stable' \subseteq stable /\ new[i].id \in stable
    BY <1>5, UnseenStays, Persist
  <2>2. ~Happened("withdraw")' /\ ~Happened("leave")'
    BY <1>1, <1>5 DEF Unseen
  <2>3. edits' # Append(edits, "withdraw") /\ edits' # Append(edits, "leave")
    BY <2>2, HappenedLater DEF Happened
  <2>4. CASE new = old \/ Alike(old, new)
    <3>1. i \in DOMAIN old /\ new[i].id = old[i].id
      BY <2>4, <1>2 DEF Alike
    <3> QED
      BY <3>1, <2>1, <1>4, <1>5
  <2>5. CASE \E r \in Rec : r.id \notin stable /\ Inserts(old, new, r)
    <3>1. PICK r \in Rec : r.id \notin stable /\ Inserts(old, new, r)
      BY <2>5
    <3>2. PICK o \in 0 .. Len(old) : /\ \A j \in 1 .. o : new[j] = old[j]
                                     /\ new[o + 1] = r
                                     /\ \A j \in (o + 1) .. Len(old) : new[j + 1] = old[j]
      BY <3>1 DEF Inserts
    <3> DEFINE n == Len(old)
    <3>3. n \in Nat /\ DOMAIN old = 1 .. n /\ i \in 1 .. (n + 1) /\ o \in 0 .. n
      BY <1>2, <3>1 DEF Inserts
    <3>4. \A j \in (o + 1) .. n : new[j + 1] = old[j]
      BY <3>2
    <3> HIDE DEF n
    <3>5. i # o + 1
      BY <2>1, <3>1, <3>2
    <3>6. CASE i <= o
      <4>1. i \in 1 .. o /\ i \in DOMAIN old
        BY <3>3, <3>6
      <4> QED
        BY <4>1, <3>2, <2>1, <1>4, <1>5
    <3>7. CASE i > o + 1
      <4>1. i - 1 \in (o + 1) .. n /\ i - 1 \in DOMAIN old /\ (i - 1) + 1 = i /\ i - 1 <= crawl.upper
        BY <3>3, <3>7, <1>1, <1>5
      <4>2. new[(i - 1) + 1] = old[i - 1]
        BY <4>1, <3>4
      <4> QED
        BY <4>1, <4>2, <2>1, <1>4
    <3> QED
      BY <3>3, <3>5, <3>6, <3>7
  <2> QED
    BY <1>3, <2>3, <2>4, <2>5 DEF Follows
<1>6. ASSUME ~Unseen', crawl.pass = "mod", NEW r \in Range(db'), r.id \in stable', r.pub \in From .. Now
      PROVE  r.id \in Ids(crawl.selected)
  <2>1. PICK q \in Range(db) : q.id = r.id /\ q.pub = r.pub
    BY <1>6, Persist
  <2>2. ~Unseen /\ q.id \in stable
    BY <1>6, <2>1, UnseenStays, Persist
  <2> QED
    BY <1>4, <1>6, <2>1, <2>2
<1> QED
  BY <1>1, <1>4, <1>5, <1>6 DEF WindowInv, new

LEMMA EnvironmentKeeps == CrawlInv /\ CrawlEnvironment => CrawlInv'
<1> SUFFICES ASSUME CrawlInv, CrawlEnvironment PROVE CrawlInv'
  OBVIOUS
<1>1. crawl' = crawl /\ Asking
  BY ChangeFrame
<1>2. CrawlTyped /\ CrawlTyped'
  BY TypedStays DEF CrawlInv
<1>3. Asking' /\ NoStableSkipped'
  BY <1>1 DEF Asking, NoStableSkipped
<1>4. CASE crawl.mode = "simple" /\ SimpleInv
  BY <1>1, <1>2, <1>3, <1>4, SimpleStays DEF CrawlInv
<1>5. CASE crawl.mode = "tail" /\ TailInv
  BY <1>1, <1>2, <1>3, <1>5, TailStays DEF CrawlInv
<1>6. CASE crawl.mode = "latest" /\ LatestInv
  <2>1. Passed' /\ (crawl'.at = "page" => Reading')
    BY <1>1, <1>2, <1>6, PassedStays, ReadingStays DEF LatestInv
  <2> QED
    BY <1>1, <1>2, <1>3, <1>6, <2>1 DEF CrawlInv, LatestInv
<1>7. CASE crawl.mode = "window" /\ WindowInv
  BY <1>1, <1>2, <1>3, <1>7, WindowStays DEF CrawlInv
<1> QED
  BY <1>1, <1>4, <1>5, <1>6, <1>7 DEF CrawlInv
-----------------------------------------------------------------------------
(* What a crawl gives: the newest of the records it selected.              *)
Records(S) == S \subseteq Rec /\ IsFiniteSet(S)
Precedes(s, r) == s.pub > r.pub \/ (s.pub = r.pub /\ s.id < r.id)

LEMMA UniqueCount ==
  ASSUME NEW S, Records(S), Unique(S)
  PROVE  Cardinality(Ids(S)) = Cardinality(S)
<1> DEFINE f == [s \in S |-> s.id]
<1>1. f \in Bijection(S, Ids(S))
  BY DEF Bijection, Injection, IsInjective, Surjection, Ids, Unique
<1> QED
  BY <1>1, FS_Bijection DEF Records, ExistsBijection

LEMMA NewestFirst ==
  ASSUME NEW S, Records(S), Unique(S)
  PROVE  LET rank == [r \in S |-> Cardinality({s \in S : Precedes(s, r)})]
             last == Cardinality(S) - 1
         IN /\ rank \in Bijection(S, 0 .. last)
            /\ \A s, r \in S : Precedes(s, r) => rank[s] < rank[r]
<1> DEFINE before(x) == {y \in S : Precedes(y, x)}
           rank == [x \in S |-> Cardinality(before(x))]
           n == Cardinality(S)
<1>0. n \in Nat /\ \A x \in S : x.pub \in Nat /\ x.id \in Nat
  BY FS_CardinalityType DEF Records, Rec
<1>1. /\ \A x \in S : ~Precedes(x, x)
      /\ \A x, y, z \in S : Precedes(x, y) /\ Precedes(y, z) => Precedes(x, z)
      /\ \A x, y \in S : x # y => Precedes(x, y) \/ Precedes(y, x)
  <2>1. ASSUME NEW x \in S PROVE ~Precedes(x, x)
    BY <1>0 DEF Precedes
  <2>2. ASSUME NEW x \in S, NEW y \in S, NEW z \in S, Precedes(x, y), Precedes(y, z)
        PROVE  Precedes(x, z)
    BY <1>0, <2>2 DEF Precedes
  <2>3. ASSUME NEW x \in S, NEW y \in S, x # y PROVE Precedes(x, y) \/ Precedes(y, x)
    <3>1. x.id # y.id
      BY <2>3 DEF Unique
    <3> QED
      BY <1>0, <3>1 DEF Precedes
  <2> QED
    BY <2>1, <2>2, <2>3
<1>2. /\ \A x \in S : before(x) \in SUBSET S /\ before(x) \cup {x} \in SUBSET S /\ x \notin before(x)
      /\ \A x, y \in S : Precedes(x, y) => before(x) \cup {x} \in SUBSET before(y)
  BY <1>1
<1> HIDE DEF before, n
<1>3. ASSUME NEW x \in S
      PROVE  /\ IsFiniteSet(before(x)) /\ Cardinality(before(x)) \in Nat
             /\ Cardinality(before(x) \cup {x}) = Cardinality(before(x)) + 1
             /\ Cardinality(before(x)) <= n - 1
  <2>1. before(x) \in SUBSET S /\ before(x) \cup {x} \in SUBSET S /\ x \notin before(x)
    BY <1>2
  <2>2. IsFiniteSet(before(x)) /\ Cardinality(before(x)) \in Nat
    BY <2>1, FS_Subset, FS_CardinalityType DEF Records
  <2>3. Cardinality(before(x) \cup {x}) = Cardinality(before(x)) + 1
    BY <2>1, <2>2, FS_AddElement
  <2>4. Cardinality(before(x) \cup {x}) <= n
    BY <2>1, FS_Subset DEF n, Records
  <2>5. Cardinality(before(x)) <= n - 1
    BY <1>0, <2>2, <2>3, <2>4
  <2> QED
    BY <2>2, <2>3, <2>5
<1>4. ASSUME NEW x \in S, NEW y \in S, Precedes(x, y) PROVE rank[x] < rank[y]
  <2>1. before(x) \cup {x} \in SUBSET before(y)
    BY <1>2, <1>4
  <2>2. Cardinality(before(x) \cup {x}) <= Cardinality(before(y))
    BY <1>3, <2>1, FS_Subset
  <2>3. /\ Cardinality(before(x)) \in Nat /\ Cardinality(before(y)) \in Nat
        /\ Cardinality(before(x) \cup {x}) = Cardinality(before(x)) + 1
    BY <1>3
  <2>4. Cardinality(before(x)) < Cardinality(before(y))
    BY <2>2, <2>3
  <2> QED
    BY <2>4
<1>5. rank \in [S -> 0 .. (n - 1)]
  <2> SUFFICES ASSUME NEW x \in S PROVE Cardinality(before(x)) \in 0 .. (n - 1)
    OBVIOUS
  <2>1. Cardinality(before(x)) \in Nat /\ Cardinality(before(x)) <= n - 1
    BY <1>3
  <2> QED
    BY <1>0, <2>1
<1> HIDE DEF rank
<1>6. rank \in Injection(S, 0 .. (n - 1))
  <2> SUFFICES ASSUME NEW x \in S, NEW y \in S, rank[x] = rank[y] PROVE x = y
    BY <1>5 DEF Injection, IsInjective
  <2>1. rank[x] \in Nat /\ rank[y] \in Nat
    BY <1>0, <1>5
  <2>2. ~Precedes(x, y) /\ ~Precedes(y, x)
    BY <1>4, <2>1
  <2> QED
    BY <1>1, <2>2
<1>7. IsFiniteSet(0 .. (n - 1)) /\ Cardinality(0 .. (n - 1)) = n
  <2>1. 0 \in Int /\ n - 1 \in Int
    BY <1>0
  <2>2. IsFiniteSet(0 .. (n - 1)) /\ Cardinality(0 .. (n - 1)) = IF 0 > n - 1 THEN 0 ELSE (n - 1) - 0 + 1
    BY <2>1, FS_Interval
  <2> QED
    BY <1>0, <2>2
<1>8. rank \in Surjection(S, 0 .. (n - 1))
  BY <1>6, <1>7, FS_Injection DEF n
<1> QED
  BY <1>4, <1>6, <1>8 DEF Bijection, rank, before, n

LEMMA NewestFacts ==
  ASSUME NEW S, Records(S), Unique(S)
  PROVE  LET N == Newest(S)
         IN /\ N \subseteq S
            /\ Cardinality(S) >= Count => Cardinality(N) = Count
            /\ Cardinality(S) < Count => N = S
            /\ \A r \in S, s \in N : r \notin N => s.pub >= r.pub
<1> DEFINE rank == [r \in S |-> Cardinality({s \in S : Precedes(s, r)})]
           n == Cardinality(S)
           N == Newest(S)
<1>1. /\ rank \in Bijection(S, 0 .. (n - 1))
      /\ \A s, r \in S : Precedes(s, r) => rank[s] < rank[r]
  BY NewestFirst
<1>2. N = {r \in S : rank[r] < Count}
  BY DEF Newest, Precedes
<1>3. n \in Nat /\ Count \in Nat /\ Count > 0 /\ \A x \in S : x.pub \in Nat /\ x.id \in Nat
  BY FS_CardinalityType, NvdCrawlAssumption DEF Records, Rec
<1> HIDE DEF rank, n, N
<1>4. /\ rank \in [S -> 0 .. (n - 1)]
      /\ \A x, y \in S : rank[x] = rank[y] => x = y
      /\ \A k \in 0 .. (n - 1) : \E x \in S : rank[x] = k
  BY <1>1 DEF Bijection, Injection, IsInjective, Surjection
<1>5. \A x \in S : rank[x] \in Nat /\ rank[x] < n
  BY <1>3, <1>4
<1>6. ASSUME n >= Count PROVE Cardinality(N) = Count
  <2> DEFINE g == [r \in N |-> rank[r]]
             T == 0 .. (Count - 1)
  <2>1. \A r \in N : g[r] \in T
    BY <1>2, <1>3, <1>5
  <2>2. \A k \in T : \E r \in N : g[r] = k
    <3> SUFFICES ASSUME NEW k \in T PROVE \E r \in N : rank[r] = k
      OBVIOUS
    <3>1. k \in 0 .. (n - 1) /\ k < Count
      BY <1>3, <1>6
    <3> QED
      BY <3>1, <1>2, <1>4
  <2>3. \A r, s \in N : g[r] = g[s] => r = s
    BY <1>2, <1>4
  <2>4. IsFiniteSet(N)
    BY <1>2, FS_Subset DEF Records
  <2>5. g \in Bijection(N, T)
    BY <2>1, <2>2, <2>3 DEF Bijection, Injection, IsInjective, Surjection
  <2>6. Cardinality(T) = Cardinality(N)
    BY <2>4, <2>5, FS_Bijection DEF ExistsBijection
  <2>7. Cardinality(T) = Count
    <3>1. Cardinality(T) = IF 0 > Count - 1 THEN 0 ELSE (Count - 1) - 0 + 1
      BY <1>3, FS_Interval
    <3> QED
      BY <1>3, <3>1
  <2> QED
    BY <2>6, <2>7
<1>7. ASSUME n < Count PROVE N = S
  BY <1>2, <1>3, <1>5, <1>7
<1>8. ASSUME NEW r \in S, NEW s \in N, r \notin N PROVE s.pub >= r.pub
  <2>1. s \in S /\ rank[s] < Count /\ ~(rank[r] < Count) /\ rank[s] \in Nat /\ rank[r] \in Nat
    BY <1>2, <1>5, <1>8
  <2>2. ~Precedes(r, s)
    BY <2>1, <1>1, <1>3
  <2> QED
    BY <2>1, <2>2, <1>3 DEF Precedes
<1> QED
  BY <1>2, <1>6, <1>7, <1>8 DEF n, N
-----------------------------------------------------------------------------
(* Pages.                                                                  *)

LEMMA LesserOf ==
  ASSUME NEW a \in Nat, NEW b \in Nat
  PROVE  Min({a, b}) = IF a <= b THEN a ELSE b
<1> DEFINE m == CHOOSE x \in {a, b} : \A y \in {a, b} : x <= y
<1>1. \E x \in {a, b} : \A y \in {a, b} : x <= y
  OBVIOUS
<1>2. m \in {a, b} /\ m <= a /\ m <= b
  BY <1>1
<1>3. m = Min({a, b})
  BY DEF Min
<1> HIDE DEF m
<1> QED
  BY <1>2, <1>3

LEMMA LeastOfThree ==
  ASSUME NEW a \in Nat, NEW b \in Nat, NEW c \in Nat
  PROVE  LET m == Min({a, b, c}) IN m \in {a, b, c} /\ m <= a /\ m <= b /\ m <= c
<1> DEFINE m == CHOOSE x \in {a, b, c} : \A y \in {a, b, c} : x <= y
<1>1. \E x \in {a, b, c} : \A y \in {a, b, c} : x <= y
  OBVIOUS
<1>2. m \in {a, b, c} /\ m <= a /\ m <= b /\ m <= c
  BY <1>1
<1>3. m = Min({a, b, c})
  BY DEF Min
<1> HIDE DEF m
<1> QED
  BY <1>2, <1>3

(* A page ends after its size, or where the answer ends.                    *)
LEMMA Served ==
  ASSUME NEW hits \in Seq(Rec), NEW start \in Nat, NEW size \in Nat
  PROVE  LET answer == Serve(hits, start, size)
             stop == IF start + size <= Len(hits) THEN start + size ELSE Len(hits)
             list == answer.page
         IN /\ answer.total = Len(hits) /\ list \in Seq(Rec)
            /\ Len(list) = IF start < stop THEN stop - start ELSE 0
            /\ \A i \in 1 .. Len(list) : start + i \in DOMAIN hits /\ list[i] = hits[start + i]
            /\ \A i \in DOMAIN hits : start < i /\ i <= stop => hits[i] \in Range(list)
            /\ Sorted(hits) => Sorted(list)
<1> DEFINE n == Len(hits)
           stop == IF start + size <= n THEN start + size ELSE n
           answer == Serve(hits, start, size)
           list == SubSeq(hits, start + 1, stop)
<1>1. n \in Nat /\ DOMAIN hits = 1 .. n /\ \A i \in 1 .. n : hits[i] \in Rec
  OBVIOUS
<1>2. Min({start + size, n}) = stop
  <2>1. start + size \in Nat
    OBVIOUS
  <2> QED
    BY <1>1, <2>1, LesserOf
<1>3. answer.total = n /\ answer.page = list
  BY <1>2 DEF Serve
<1>4. stop \in Nat /\ stop <= n
  BY <1>1
<1> HIDE DEF n, stop, answer
<1>5. /\ Len(list) = IF start + 1 <= stop THEN stop - start ELSE 0
      /\ \A i \in 1 .. Len(list) : list[i] = hits[start + i]
  <2>1. Len(list) = IF start + 1 <= stop THEN stop - (start + 1) + 1 ELSE 0
    BY <1>4, SubSeqProperties DEF n
  <2>2. \A i \in 1 .. Len(list) : list[i] = hits[(start + 1) + i - 1]
    BY <1>1, <1>4 DEF n
  <2> QED
    BY <1>4, <2>1, <2>2
<1>6. list \in Seq(Rec) /\ DOMAIN list = 1 .. Len(list) /\ Len(list) \in Nat
  <2>1. \A i \in (start + 1) .. stop : hits[i] \in Rec
    BY <1>1, <1>4
  <2>2. list \in Seq(Rec)
    BY <1>1, <1>4, <2>1, SubSeqProperties DEF n
  <2> QED
    BY <2>2
<1> HIDE DEF list
<1>7. ASSUME NEW i \in 1 .. Len(list) PROVE start + i \in 1 .. n
  BY <1>1, <1>4, <1>5, <1>6
<1>8. ASSUME NEW i \in DOMAIN hits, start < i, i <= stop PROVE hits[i] \in Range(list)
  <2>1. i - start \in 1 .. Len(list) /\ start + (i - start) = i
    BY <1>1, <1>4, <1>5, <1>8
  <2> QED
    BY <2>1, <1>5, <1>6 DEF Range
<1>9. ASSUME Sorted(hits), NEW i \in 1 .. Len(list), NEW j \in 1 .. Len(list), i <= j
      PROVE  list[i].pub <= list[j].pub
  <2>1. start + i \in 1 .. n /\ start + j \in 1 .. n /\ start + i <= start + j
    BY <1>7, <1>9
  <2> QED
    BY <2>1, <1>1, <1>5, <1>9 DEF Sorted
<1>10. Sorted(hits) => Sorted(list)
  BY <1>6, <1>9 DEF Sorted
<1>11. /\ answer.total = n /\ answer.page \in Seq(Rec)
       /\ Len(answer.page) = IF start < stop THEN stop - start ELSE 0
       /\ \A i \in 1 .. Len(answer.page) : start + i \in DOMAIN hits /\ answer.page[i] = hits[start + i]
       /\ \A i \in DOMAIN hits : start < i /\ i <= stop => hits[i] \in Range(answer.page)
       /\ Sorted(hits) => Sorted(answer.page)
  BY <1>1, <1>3, <1>4, <1>5, <1>6, <1>7, <1>8, <1>10
<1> QED
  BY <1>11 DEF answer, stop, n

(* The first offset of the aligned page before another offset.              *)
LEMMA AlignedPage ==
  ASSUME NEW u \in Nat, u > 0
  PROVE  LET k == (u - 1) \div PageSize
             start == k * PageSize
         IN /\ start \in Nat /\ start < u /\ u <= start + PageSize /\ k \in 0 .. start
            /\ \A m \in Nat : u = m * PageSize => u = start + PageSize
<1> DEFINE k == (u - 1) \div PageSize
           start == k * PageSize
<1>1. PageSize \in Nat /\ PageSize > 0
  BY NvdCrawlAssumption
<1>2. k \in Nat /\ start <= u - 1 /\ u - 1 < start + PageSize
  BY <1>1
<1> HIDE DEF k
<1>3. start \in Nat /\ k <= start
  BY <1>1, <1>2
<1>4. ASSUME NEW m \in Nat, u = m * PageSize PROVE u = start + PageSize
  <2>1. CASE m <= k
    <3>1. m * PageSize <= k * PageSize
      BY <1>1, <1>2, <2>1
    <3> QED
      BY <3>1, <1>2, <1>3, <1>4
  <2>2. CASE m = k + 1
    <3>1. m * PageSize = k * PageSize + PageSize
      BY <1>1, <1>2, <2>2
    <3> QED
      BY <3>1, <1>4
  <2>3. CASE m >= k + 2
    <3>1. PICK d \in Nat : m = (k + 2) + d
      <4>1. m - (k + 2) \in Nat /\ m = (k + 2) + (m - (k + 2))
        BY <1>2, <2>3
      <4> QED
        BY <4>1
    <3>2. m * PageSize = k * PageSize + PageSize + PageSize + d * PageSize
      BY <1>1, <1>2, <3>1
    <3>3. d * PageSize \in Nat
      BY <1>1
    <3> QED
      BY <1>1, <1>2, <1>3, <1>4, <3>2, <3>3
  <2> QED
    BY <1>2, <2>1, <2>2, <2>3
<1> QED
  BY <1>1, <1>2, <1>3, <1>4 DEF k

(* Every record wanted, or among the newest.                                *)
LEMMA HasMore ==
  ASSUME NEW S, NEW R, NEW r, S \subseteq Rec, R \subseteq Rec, r \in Rec,
         Covers(R, S, "pub"), Has(S, r)
  PROVE  Has(R, r)
<1>1. PICK s \in S : s.id = r.id /\ s.pub >= r.pub
  BY DEF Has
<1>2. PICK y \in R : y.id = s.id /\ y.pub >= s.pub
  BY DEF Covers
<1>3. y.pub \in Nat /\ s.pub \in Nat /\ r.pub \in Nat
  BY DEF Rec
<1>4. y.id = r.id /\ y.pub >= r.pub
  BY <1>1, <1>2, <1>3
<1> QED
  BY <1>4 DEF Has
-----------------------------------------------------------------------------
(* What a crawl knows survives every step of its own.                      *)
Quiet == UNCHANGED <<db, stable, edits>>

LEMMA FreshType ==
  ASSUME NEW mode \in {"none", "simple", "tail", "latest", "window"}, NEW explicit \in BOOLEAN
  PROVE  Fresh(mode, explicit) \in CrawlState
<1>1. <<>> \in Seq(Rec) /\ {} \in SUBSET Rec /\ Now \in Nat /\ Now + 1 \in Nat
  BY NvdCrawlAssumption
<1> QED
  BY <1>1 DEF Fresh, CrawlState

LEMMA FailedType ==
  ASSUME crawl \in CrawlState
  PROVE  /\ Failed(crawl) \in CrawlState /\ Failed(crawl).selected = {} /\ Failed(crawl).at = "failed"
         /\ Failed(crawl).mode = crawl.mode /\ Failed(crawl).explicit = crawl.explicit
<1>1. crawl.mode \in {"none", "simple", "tail", "latest", "window"} /\ crawl.explicit \in BOOLEAN
  BY DEF CrawlState
<1>2. Fresh(crawl.mode, crawl.explicit) \in CrawlState
  BY <1>1, FreshType
<1>3. /\ Failed(crawl) = [Fresh(crawl.mode, crawl.explicit) EXCEPT !.at = "failed"]
      /\ Fresh(crawl.mode, crawl.explicit).mode = crawl.mode
      /\ Fresh(crawl.mode, crawl.explicit).explicit = crawl.explicit
      /\ Fresh(crawl.mode, crawl.explicit).selected = {}
  BY DEF Failed, Fresh
<1> QED
  BY <1>2, <1>3 DEF CrawlState

LEMMA AskedType ==
  ASSUME crawl \in CrawlState
  PROVE  /\ Asked(crawl) \in CrawlState
         /\ Asked(crawl).mode = crawl.mode /\ Asked(crawl).explicit = crawl.explicit
         /\ Asked(crawl).selected \in {crawl.selected, {}}
         /\ Asked(crawl).at # "failed" => Asked(crawl) = [crawl EXCEPT !.requests = @ + 1]
<1>1. CASE crawl.requests >= MaxRequests
  BY <1>1, FailedType DEF Asked
<1>2. CASE ~(crawl.requests >= MaxRequests)
  BY <1>2 DEF Asked, CrawlState
<1> QED
  BY <1>1, <1>2

LEMMA TypedQuiet ==
  ASSUME CrawlTyped, Quiet, crawl' \in CrawlState, IsFiniteSet(crawl'.selected)
  PROVE  CrawlTyped'
BY DEF CrawlTyped, Quiet

LEMMA FailStep == CrawlTyped /\ Step(Failed(crawl)) => CrawlInv'
<1> SUFFICES ASSUME CrawlTyped, Step(Failed(crawl)) PROVE CrawlInv'
  OBVIOUS
<1>1. crawl' \in CrawlState /\ crawl'.selected = {} /\ crawl'.at = "failed" /\ Quiet
  BY FailedType DEF CrawlTyped, Step, Quiet
<1>2. CrawlTyped'
  BY <1>1, TypedQuiet, FS_EmptySet
<1> QED
  BY <1>1, <1>2 DEF CrawlInv, NoStableSkipped, Asking

(* What has not changed tells what it told.                                 *)
LEMMA QuietFrame ==
  ASSUME Quiet, crawl'.mode = crawl.mode, crawl'.explicit = crawl.explicit
  PROVE  /\ Unseen' <=> Unseen
         /\ Happened("add")' = Happened("add") /\ Happened("withdraw")' = Happened("withdraw")
         /\ \A r : Wanted(r)' <=> Wanted(r)
<1>1. edits' = edits
  BY DEF Quiet
<1>2. \A kind : Happened(kind)' = Happened(kind)
  BY <1>1 DEF Happened
<1> QED
  BY <1>2 DEF Unseen, Wanted, Happened

LEMMA GiveStep ==
  ASSUME CrawlTyped, Quiet, crawl' \in CrawlState, IsFiniteSet(crawl'.selected),
         crawl'.at = "done", NoStableSkipped'
  PROVE  CrawlInv'
BY TypedQuiet DEF CrawlInv, Asking

(* The newest of the records found: nothing that was wanted and stayed is  *)
(* newer than what was given.                                               *)
Gives(c, S) ==
  /\ c \in CrawlState /\ c.mode = crawl.mode /\ c.explicit = crawl.explicit
  /\ Records(S) /\ Unique(S)
  /\ Cardinality(S) >= Count \/ (crawl.mode = "latest" /\ crawl.explicit)
  /\ ~Unseen => \A r \in Range(db) : r.id \in stable /\ Wanted(r) =>
       Has(S, r) \/ (Cardinality(S) >= Count /\ \A s \in S : s.pub >= r.pub)

LEMMA GiveNewest ==
  ASSUME CrawlTyped, crawl.mode \in {"tail", "latest"}, NEW c, NEW S, Gives(c, S),
         Step(Gave(c, Newest(S)))
  PROVE  CrawlInv'
<1> DEFINE N == Newest(S)
<1>1. /\ N \subseteq S
      /\ Cardinality(S) >= Count => Cardinality(N) = Count
      /\ Cardinality(S) < Count => N = S
      /\ \A r \in S, s \in N : r \notin N => s.pub >= r.pub
  BY NewestFacts DEF Gives
<1>2. /\ c \in CrawlState /\ c.mode = crawl.mode /\ c.explicit = crawl.explicit
      /\ S \subseteq Rec /\ IsFiniteSet(S) /\ Unique(S)
      /\ Cardinality(S) >= Count \/ (crawl.mode = "latest" /\ crawl.explicit)
      /\ ~Unseen => \A r \in Range(db) : r.id \in stable /\ Wanted(r) =>
           Has(S, r) \/ (Cardinality(S) >= Count /\ \A s \in S : s.pub >= r.pub)
  BY DEF Gives, Records
<1> HIDE DEF N
<1>3. /\ crawl' \in CrawlState /\ crawl'.mode = crawl.mode /\ crawl'.explicit = crawl.explicit
      /\ crawl'.at = "done" /\ crawl'.selected = N /\ Quiet
  BY <1>1, <1>2 DEF Step, Gave, CrawlState, Quiet, N
<1>4. IsFiniteSet(N) /\ Unique(N) /\ Records(N)
  BY <1>1, <1>2, FS_Subset DEF Unique, Records
<1>5. Cardinality(S) \in Nat /\ Count \in Nat
  BY <1>2, FS_CardinalityType, NvdCrawlAssumption
<1>6. Cardinality(Ids(crawl'.selected)) = Cardinality(crawl'.selected)
  BY <1>3, <1>4, UniqueCount
<1>7. ASSUME ~Unseen', NEW r \in Range(db'), r.id \in stable', Wanted(r)'
      PROVE  r.id \in Ids(N) \/ (Cardinality(N) = Count /\ \A s \in N : s.pub >= r.pub)
  <2>1. ~Unseen /\ r \in Range(db) /\ r.id \in stable /\ Wanted(r)
    BY <1>3, <1>7, QuietFrame DEF Quiet
  <2>2. r \in Rec
    BY <2>1 DEF CrawlTyped, Range
  <2>3. CASE Has(S, r)
    <3>1. PICK y \in S : y.id = r.id /\ y.pub >= r.pub
      BY <2>3 DEF Has
    <3>2. CASE y \in N
      BY <3>1, <3>2 DEF Ids
    <3>3. CASE y \notin N
      <4>1. Cardinality(N) = Count
        BY <1>1, <1>5, <3>3
      <4>2. ASSUME NEW s \in N PROVE s.pub >= r.pub
        <5>1. s.pub >= y.pub /\ s \in Rec /\ y \in Rec
          BY <1>1, <1>2, <3>3
        <5>2. s.pub \in Nat /\ y.pub \in Nat /\ r.pub \in Nat
          BY <2>2, <5>1 DEF Rec
        <5> QED
          BY <3>1, <5>1, <5>2
      <4> QED
        BY <4>1, <4>2
    <3> QED
      BY <3>2, <3>3
  <2>4. CASE Cardinality(S) >= Count /\ \A s \in S : s.pub >= r.pub
    BY <1>1, <2>4
  <2> QED
    BY <1>2, <2>1, <2>3, <2>4
<1>8. Cardinality(crawl'.selected) = Count \/ (crawl'.mode = "latest" /\ crawl'.explicit)
  BY <1>1, <1>2, <1>3
<1>9. crawl'.mode # "window" /\ crawl'.mode # "simple"
  BY <1>3
<1>10. NoStableSkipped'
  BY <1>3, <1>6, <1>7, <1>8, <1>9 DEF NoStableSkipped
<1> QED
  BY <1>3, <1>4, <1>10, GiveStep
-----------------------------------------------------------------------------
(* Crawls from the end of the database.                                    *)
ReadFrom(S, u) ==
  /\ \A i \in DOMAIN db : i > u => Has(S, db[i])
  /\ \A s \in S : \E i \in DOMAIN db : i > u /\ db[i].id = s.id /\ db[i].pub = s.pub

LEMMA ReadFromHere == ReadFromEnd <=> ReadFrom(crawl.selected, crawl.upper)
BY DEF ReadFromEnd, ReadFrom

LEMMA ReadOneMore ==
  ASSUME db \in Seq(Rec), NEW start \in Nat, NEW size \in Nat, NEW u \in Nat, u = start + size, u <= Len(db),
         NEW S, S \subseteq Rec, NEW R, ReadFrom(S, u),
         R \subseteq S \cup Range(Serve(db, start, size).page),
         Covers(R, S \cup Range(Serve(db, start, size).page), "pub")
  PROVE  ReadFrom(R, start)
<1> DEFINE list == Serve(db, start, size).page
<1>1. /\ list \in Seq(Rec)
      /\ \A i \in 1 .. Len(list) : start + i \in DOMAIN db /\ list[i] = db[start + i]
      /\ \A i \in DOMAIN db : start < i /\ i <= u => db[i] \in Range(list)
  BY Served
<1> HIDE DEF list
<1>2. DOMAIN db \subseteq Nat /\ \A i \in DOMAIN db : db[i] \in Rec
  BY DEF Range
<1>3. Range(list) \subseteq Rec /\ R \subseteq Rec /\ DOMAIN list = 1 .. Len(list) /\ Len(list) \in Nat
  BY <1>1 DEF Range, list
<1>4. ASSUME NEW i \in DOMAIN db, i > start PROVE Has(R, db[i])
  <2>1. CASE i > u
    <3>1. Has(S, db[i])
      BY <2>1 DEF ReadFrom
    <3>2. Covers(R, S, "pub")
      BY DEF Covers
    <3> QED
      BY <3>1, <3>2, <1>2, <1>3, HasMore
  <2>2. CASE ~(i > u)
    <3>1. db[i] \in Range(list)
      BY <1>1, <1>2, <1>4, <2>2
    <3>2. PICK y \in R : y.id = db[i].id /\ y.pub >= db[i].pub
      BY <3>1 DEF Covers, list
    <3> QED
      BY <3>2 DEF Has
  <2> QED
    BY <2>1, <2>2
<1>5. ASSUME NEW s \in R PROVE \E i \in DOMAIN db : i > start /\ db[i].id = s.id /\ db[i].pub = s.pub
  <2>1. CASE s \in S
    <3>1. PICK i \in DOMAIN db : i > u /\ db[i].id = s.id /\ db[i].pub = s.pub
      BY <2>1 DEF ReadFrom
    <3>2. i > start
      BY <1>2, <3>1
    <3> QED
      BY <3>1, <3>2
  <2>2. CASE s \in Range(list)
    <3>1. PICK j \in 1 .. Len(list) : s = list[j]
      BY <1>3, <2>2 DEF Range
    <3>2. start + j \in DOMAIN db /\ s = db[start + j] /\ start + j > start
      BY <1>1, <1>3, <3>1
    <3> QED
      BY <3>2
  <2> QED
    BY <2>1, <2>2 DEF list
<1> QED
  BY <1>4, <1>5 DEF ReadFrom

LEMMA PageRecords ==
  ASSUME NEW list \in Seq(Rec)
  PROVE  /\ Records(Range(list)) /\ DOMAIN list = 1 .. Len(list) /\ Len(list) \in Nat
         /\ \A i \in DOMAIN list : list[i] \in Rec /\ list[i].pub \in Nat
<1>1. DOMAIN list = 1 .. Len(list) /\ Len(list) \in Nat /\ \A i \in DOMAIN list : list[i] \in Rec
  OBVIOUS
<1>2. IsFiniteSet(1 .. Len(list))
  BY <1>1, FS_Interval
<1>3. list \in Surjection(DOMAIN list, Range(list)) /\ Range(list) \subseteq Rec
  BY <1>1 DEF Surjection, Range
<1>4. IsFiniteSet(Range(list))
  BY <1>1, <1>2, <1>3, FS_Surjection
<1> QED
  BY <1>1, <1>3, <1>4 DEF Records, Rec

(* What is older than the records read from the end.                       *)
LEMMA OlderThanRead ==
  ASSUME db \in Seq(Rec), Sorted(db), NEW S, NEW u \in Nat, ReadFrom(S, u), NEW r \in Range(db)
  PROVE  Has(S, r) \/ \A s \in S : s.pub >= r.pub
<1>1. PICK i \in DOMAIN db : r = db[i]
  BY DEF Range
<1>2. DOMAIN db \subseteq Nat /\ \A j \in DOMAIN db : db[j].pub \in Nat
  <2>1. DOMAIN db \subseteq Nat /\ \A j \in DOMAIN db : db[j] \in Rec
    OBVIOUS
  <2> QED
    BY <2>1 DEF Rec
<1>3. CASE i > u
  BY <1>1, <1>3 DEF ReadFrom
<1>4. CASE ~(i > u)
  <2>1. ASSUME NEW s \in S PROVE s.pub >= r.pub
    <3>1. PICK j \in DOMAIN db : j > u /\ db[j].pub = s.pub
      BY DEF ReadFrom
    <3>2. i <= j
      BY <1>2, <1>4, <3>1
    <3>3. db[i].pub <= db[j].pub
      BY <3>2 DEF Sorted
    <3> QED
      BY <1>1, <1>2, <3>1, <3>3
  <2> QED
    BY <2>1
<1> QED
  BY <1>3, <1>4

(* As many records were read from the end as there are.                     *)
LEMMA ReadCount ==
  ASSUME db \in Seq(Rec), Distinct(db), NEW S, Records(S), Unique(S),
         NEW u \in Nat, u <= Len(db), ReadFrom(S, u)
  PROVE  Cardinality(S) = Len(db) - u
<1> DEFINE T == (u + 1) .. Len(db)
           at == [i \in T |-> db[i].id]
<1>1. DOMAIN db = 1 .. Len(db) /\ Len(db) \in Nat
  OBVIOUS
<1>2. \A i \in T : i \in DOMAIN db /\ i > u
  BY <1>1
<1>3. \A i \in DOMAIN db : i > u => i \in T
  BY <1>1
<1>4. IsFiniteSet(T) /\ Cardinality(T) = Len(db) - u
  <2>1. u + 1 \in Int /\ Len(db) \in Int
    BY <1>1
  <2>2. IsFiniteSet(T) /\ Cardinality(T) = IF u + 1 > Len(db) THEN 0 ELSE Len(db) - (u + 1) + 1
    BY <2>1, FS_Interval
  <2> QED
    BY <1>1, <2>2
<1> HIDE DEF T
<1>5. \A i \in T : at[i] \in Ids(S)
  BY <1>2 DEF ReadFrom, Has, Ids
<1>6. \A i, j \in T : at[i] = at[j] => i = j
  BY <1>2 DEF Distinct
<1>7. \A x \in Ids(S) : \E i \in T : at[i] = x
  <2> SUFFICES ASSUME NEW s \in S PROVE \E i \in T : at[i] = s.id
    BY DEF Ids
  <2>1. PICK i \in DOMAIN db : i > u /\ db[i].id = s.id
    BY DEF ReadFrom
  <2> QED
    BY <2>1, <1>3
<1>8. at \in Bijection(T, Ids(S))
  BY <1>5, <1>6, <1>7 DEF Bijection, Injection, IsInjective, Surjection
<1>9. Cardinality(Ids(S)) = Cardinality(T)
  BY <1>4, <1>8, FS_Bijection DEF ExistsBijection
<1> QED
  BY <1>4, <1>9, UniqueCount

(* The number of records tells that their ids differ.                      *)
LEMMA CountDistinct ==
  ASSUME NEW s \in Seq(Rec), Cardinality(Ids(Range(s))) = Len(s)
  PROVE  Distinct(s)
<1> DEFINE at == [i \in DOMAIN s |-> s[i].id]
<1>1. DOMAIN s = 1 .. Len(s) /\ Len(s) \in Nat
  OBVIOUS
<1>2. IsFiniteSet(DOMAIN s) /\ Cardinality(DOMAIN s) = Len(s)
  <2>1. 1 \in Int /\ Len(s) \in Int
    BY <1>1
  <2>2. IsFiniteSet(1 .. Len(s)) /\ Cardinality(1 .. Len(s)) = IF 1 > Len(s) THEN 0 ELSE Len(s) - 1 + 1
    BY <2>1, FS_Interval
  <2> QED
    BY <1>1, <2>2
<1>3. at \in Surjection(DOMAIN s, Ids(Range(s)))
  BY DEF Surjection, Ids, Range
<1>4. at \in Injection(DOMAIN s, Ids(Range(s)))
  BY <1>2, <1>3, FS_SurjSameCardinalityImpliesInj
<1> QED
  BY <1>4 DEF Injection, IsInjective, Distinct

LEMMA BeginKeeps ==
  ASSUME NEW mode \in {"simple", "tail", "latest", "window"}, CrawlBegin(mode)
  PROVE  CrawlInv'
<1>1. /\ db' \in Databases /\ stable' = Ids(Range(db')) /\ edits' = <<>>
      /\ mode # "tail" => Cardinality(stable') = Len(db')
  BY DEF CrawlBegin
<1>2. PICK explicit \in BOOLEAN : crawl' = Fresh(mode, explicit)
  BY DEF CrawlBegin
<1>3. db' \in Seq(Rec) /\ Sorted(db')
  <2>1. /\ \A r \in Range(db') : r = [id |-> r.id, pub |-> r.pub, mod |-> r.mod] /\ {r.id, r.pub, r.mod} \subseteq Nat
        /\ db' \in Seq(Range(db'))
        /\ \A i, j \in DOMAIN db' : i <= j => db'[i].pub <= db'[j].pub
    BY <1>1, NvdCrawlAssumption
  <2>2. Range(db') \subseteq Rec
    <3> SUFFICES ASSUME NEW r \in Range(db') PROVE r \in Rec
      OBVIOUS
    <3>1. r.id \in Nat /\ r.pub \in Nat /\ r.mod \in Nat
      BY <2>1
    <3> QED
      BY <2>1, <3>1 DEF Rec
  <2> QED
    BY <2>1, <2>2 DEF Sorted
<1>4. /\ crawl' \in CrawlState /\ crawl'.selected = {} /\ crawl'.at = "probe" /\ crawl'.mode = mode
      /\ crawl'.explicit = explicit /\ crawl'.end = Now /\ crawl'.pass = "pub" /\ crawl'.upper = 0
  <2>1. Fresh(mode, explicit) \in CrawlState
    BY FreshType
  <2> QED
    BY <1>2, <2>1 DEF Fresh
<1>5. CrawlTyped'
  BY <1>1, <1>3, <1>4, FS_EmptySet DEF CrawlTyped
<1>6. NoStableSkipped' /\ Asking'
  BY <1>4 DEF NoStableSkipped, Asking
<1>7. Unique({}) /\ Cardinality({}) < Count
  BY FS_EmptySet, NvdCrawlAssumption DEF Unique
<1>8. CASE mode = "simple"
  <2>1. Distinct(db')
    BY <1>1, <1>3, <1>8, CountDistinct
  <2> QED
    BY <1>4, <1>5, <1>6, <1>8, <2>1 DEF CrawlInv, SimpleInv
<1>9. CASE mode = "tail"
  BY <1>4, <1>5, <1>6, <1>7, <1>9 DEF CrawlInv, TailInv
<1>10. CASE mode = "latest"
  <2>1. From <= Now /\ Now \in Nat /\ \A r \in Range(db') : r.pub \in Nat
    <3>1. \A r \in Range(db') : r \in Rec
      BY <1>3 DEF Range
    <3> QED
      BY <3>1, NvdCrawlAssumption DEF Rec
  <2>2. \A r \in Range(db') : Wanted(r)' => ~(r.pub > Now)
    BY <1>4, <1>10, <2>1 DEF Wanted
  <2>3. Passed'
    BY <1>4, <1>7, <2>1, <2>2 DEF Passed
  <2> QED
    BY <1>4, <1>5, <1>6, <1>10, <2>3 DEF CrawlInv, LatestInv
<1>11. CASE mode = "window"
  <2>1. Dated(db', "pub", From, Now) \in Seq(Rec)
    BY <1>3, DatedType
  <2>2. \A i \in DOMAIN Dated(db', "pub", From, Now) : ~(i <= 0)
    BY <2>1
  <2>3. WindowInv'
    BY <1>4, <1>7, <2>2 DEF WindowInv
  <2> QED
    BY <1>4, <1>5, <1>6, <1>11, <2>3 DEF CrawlInv
<1> QED
  BY <1>8, <1>9, <1>10, <1>11

LEMMA ProbeKeeps == CrawlInv /\ Probe => CrawlInv'
<1> SUFFICES ASSUME CrawlInv, Probe PROVE CrawlInv'
  OBVIOUS
<1> DEFINE total == Len(db)
           next == [Asked(crawl) EXCEPT !.at = "page", !.total = total, !.upper = total]
<1>1. CrawlTyped /\ crawl.mode \in {"simple", "tail"} /\ crawl.at = "probe" /\ Asking
  BY DEF CrawlInv, Probe, FromEnd, Asking
<1>2. total \in Nat /\ DOMAIN db = 1 .. total /\ crawl \in CrawlState /\ db \in Seq(Rec)
  BY <1>1 DEF CrawlTyped
<1>3. CASE total < Count
  BY <1>1, <1>3, FailStep DEF Probe
<1>4. CASE ~(total < Count)
  <2>1. Step(next)
    BY <1>4 DEF Probe
  <2>2. crawl.selected = {}
    BY <1>1 DEF CrawlInv, SimpleInv, TailInv
  <2>3. /\ Asked(crawl) \in CrawlState /\ Asked(crawl).mode = crawl.mode
        /\ Asked(crawl).explicit = crawl.explicit /\ Asked(crawl).selected = {}
    BY <1>2, <2>2, AskedType
  <2>4. /\ crawl' \in CrawlState /\ crawl'.mode = crawl.mode /\ crawl'.explicit = crawl.explicit
        /\ crawl'.selected = {} /\ crawl'.at = "page" /\ crawl'.total = total /\ crawl'.upper = total /\ Quiet
    BY <1>2, <2>1, <2>3 DEF Step, CrawlState, Quiet
  <2>5. CrawlTyped'
    BY <1>1, <2>4, TypedQuiet, FS_EmptySet
  <2>6. NoStableSkipped' /\ Asking'
    BY <2>4 DEF NoStableSkipped, Asking
  <2>7. Unique({}) /\ Cardinality({}) < Count /\ Count \in Nat /\ Count > 0
    BY FS_EmptySet, NvdCrawlAssumption DEF Unique
  <2>8. Counted(db)' /\ ReadFromEnd' /\ db' = db /\ DOMAIN db' = 1 .. total /\ crawl'.upper \in 1 .. crawl'.total
    <3>1. \A i \in DOMAIN db : ~(i > total)
      BY <1>2
    <3> QED
      BY <1>2, <1>4, <2>4, <2>7, <3>1 DEF Counted, ReadFromEnd, Quiet
  <2>9. CASE crawl.mode = "simple"
    <3>1. Distinct(db)
      BY <1>1, <2>9 DEF CrawlInv, SimpleInv
    <3>2. Count <= crawl'.total /\ crawl'.total < Count + crawl'.upper
      BY <1>2, <1>4, <2>4, <2>7
    <3>3. SimpleInv'
      BY <2>4, <2>7, <2>8, <3>1, <3>2 DEF SimpleInv
    <3> QED
      BY <2>4, <2>5, <2>6, <2>9, <3>3 DEF CrawlInv
  <2>10. CASE crawl.mode = "tail"
    <3>1. TailInv'
      BY <2>4, <2>7, <2>8 DEF TailInv
    <3> QED
      BY <2>4, <2>5, <2>6, <2>10, <3>1 DEF CrawlInv
  <2> QED
    BY <1>1, <2>9, <2>10
<1> QED
  BY <1>3, <1>4

LEMMA SimplePageKeeps == CrawlInv /\ SimplePage => CrawlInv'
<1> SUFFICES ASSUME CrawlInv, SimplePage PROVE CrawlInv'
  OBVIOUS
<1> DEFINE have == crawl.total - crawl.upper
           size == Min({Count - have, PageSize})
           start == crawl.upper - size
           answer == Serve(db, start, size)
           R == crawl.selected \cup Range(answer.page)
           more == [crawl EXCEPT !.selected = R, !.upper = start]
           Rejects == answer.total # crawl.total \/ Len(answer.page) # size
<1>1. /\ CrawlTyped /\ crawl.mode = "simple" /\ crawl.at = "page" /\ crawl \in CrawlState
      /\ db \in Seq(Rec) /\ Sorted(db) /\ IsFiniteSet(crawl.selected) /\ crawl.selected \subseteq Rec
  BY DEF CrawlInv, SimplePage, CrawlTyped, CrawlState
<1>2. SimpleInv
  BY <1>1 DEF CrawlInv, Asking
<1>3. /\ Distinct(db) /\ crawl.upper \in 1 .. crawl.total /\ Counted(db)
      /\ Count <= crawl.total /\ crawl.total < Count + crawl.upper
      /\ ~Unseen /\ Len(db) = crawl.total => ReadFromEnd /\ Unique(crawl.selected)
  BY <1>1, <1>2 DEF SimpleInv
<1>4. /\ Count \in Nat /\ PageSize \in Nat /\ PageSize > 0 /\ crawl.total \in Nat /\ crawl.upper \in Nat
  BY <1>1, NvdCrawlAssumption DEF CrawlState
<1>5. size \in Nat /\ size > 0 /\ size <= Count - have /\ start \in Nat /\ start < crawl.upper
      /\ start + size = crawl.upper
  <2>1. Count - have \in Nat /\ Count - have > 0 /\ Count - have <= crawl.upper
    BY <1>3, <1>4
  <2> HIDE DEF have
  <2>2. size = IF Count - have <= PageSize THEN Count - have ELSE PageSize
    BY <1>4, <2>1, LesserOf
  <2> HIDE DEF size
  <2> QED
    BY <1>4, <2>1, <2>2
<1>6. Step(IF Rejects THEN Failed(crawl) ELSE IF have + size = Count THEN Gave(more, R) ELSE more)
  BY DEF SimplePage
<1> HIDE DEF size, start
<1>7. /\ answer.total = Len(db) /\ answer.page \in Seq(Rec)
      /\ \A i \in 1 .. Len(answer.page) : start + i \in DOMAIN db /\ answer.page[i] = db[start + i]
  BY <1>1, <1>5, Served
<1>8. Range(answer.page) \subseteq Rec /\ IsFiniteSet(Range(answer.page))
      /\ DOMAIN answer.page = 1 .. Len(answer.page) /\ Len(answer.page) \in Nat
  BY <1>7, PageRecords DEF Records
<1> HIDE DEF answer
<1>9. R \subseteq Rec /\ IsFiniteSet(R)
  BY <1>1, <1>8, FS_Union
<1>10. CASE Rejects
  BY <1>1, <1>6, <1>10, FailStep
<1>11. CASE ~Rejects
  <2> DEFINE ok == Step(IF have + size = Count THEN Gave(more, R) ELSE more)
  <2>1. ok /\ Len(db) = crawl.total
    BY <1>6, <1>7, <1>11
  <2>2. ASSUME ~Unseen PROVE ReadFrom(R, start) /\ Unique(R)
    <3>1. ReadFrom(crawl.selected, crawl.upper) /\ Unique(crawl.selected)
      BY <1>3, <2>1, <2>2, ReadFromHere
    <3>2. Covers(R, crawl.selected \cup Range(answer.page), "pub")
      <4> SUFFICES ASSUME NEW x \in R PROVE x["pub"] >= x["pub"]
        BY DEF Covers
      <4>1. x \in Rec /\ x.pub \in Nat
        BY <1>9 DEF Rec
      <4> QED
        BY <4>1
    <3>3. ReadFrom(R, start)
      <4>1. /\ R \subseteq crawl.selected \cup Range(Serve(db, start, size).page)
            /\ Covers(R, crawl.selected \cup Range(Serve(db, start, size).page), "pub")
        BY <3>2 DEF answer
      <4>2. crawl.upper <= Len(db) /\ crawl.upper = start + size
        BY <1>3, <1>4, <1>5, <2>1
      <4> HIDE DEF R
      <4> QED
        BY <1>1, <1>4, <1>5, <3>1, <4>1, <4>2, ReadOneMore
    <3>4. ASSUME NEW x \in crawl.selected, NEW y \in Range(answer.page) PROVE x.id # y.id
      <4>1. PICK i \in DOMAIN db : i > crawl.upper /\ db[i].id = x.id
        BY <3>1 DEF ReadFrom
      <4>2. PICK j \in 1 .. Len(answer.page) : y = answer.page[j]
        BY <1>8 DEF Range
      <4>3. start + j \in DOMAIN db /\ y = db[start + j]
        BY <1>7, <4>2
      <4>4. j <= size /\ j \in Nat /\ i \in Nat
        BY <1>8, <1>11, <1>5
      <4>5. start + j # i
        BY <4>1, <4>4, <1>5, <1>4
      <4> QED
        BY <1>3, <4>1, <4>3, <4>5 DEF Distinct
    <3>5. ASSUME NEW x \in Range(answer.page), NEW y \in Range(answer.page), x.id = y.id PROVE x = y
      <4>1. PICK i \in 1 .. Len(answer.page), j \in 1 .. Len(answer.page) : x = answer.page[i] /\ y = answer.page[j]
        BY <1>8 DEF Range
      <4>2. /\ start + i \in DOMAIN db /\ start + j \in DOMAIN db
            /\ x = db[start + i] /\ y = db[start + j]
        BY <1>7, <4>1
      <4>3. start + i = start + j
        BY <1>3, <3>5, <4>2 DEF Distinct
      <4> QED
        BY <4>2, <4>3
    <3>6. Unique(R)
      BY <3>1, <3>4, <3>5 DEF Unique
    <3> QED
      BY <3>3, <3>6
  <2>3. CASE have + size = Count
    <3>1. Step(Gave(more, R))
      BY <2>1, <2>3
    <3> HIDE DEF R, have
    <3>2. /\ crawl' \in CrawlState /\ crawl'.mode = "simple" /\ crawl'.explicit = crawl.explicit
          /\ crawl'.at = "done" /\ crawl'.selected = R /\ Quiet
      BY <1>1, <1>5, <1>9, <3>1 DEF Step, Gave, CrawlState, Quiet
    <3>3. Unseen' <=> Unseen
      BY <1>1, <3>2, QuietFrame
    <3>4. ASSUME ~Unseen'
          PROVE  /\ Cardinality(Ids(R)) = Cardinality(R)
                 /\ \A r \in Range(db) :
                      r.id \in Ids(R) \/ (Cardinality(R) = Count /\ \A s \in R : s.pub >= r.pub)
      <4>1. ReadFrom(R, start) /\ Unique(R) /\ Records(R)
        BY <1>9, <2>2, <3>3, <3>4 DEF Records
      <4>2. start <= Len(db)
        BY <1>3, <1>4, <1>5, <2>1
      <4>3. Cardinality(R) = Len(db) - start
        BY <1>1, <1>3, <1>5, <4>1, <4>2, ReadCount
      <4>4. Len(db) - start = Count
        BY <1>4, <1>5, <2>1, <2>3 DEF have
      <4>5. \A r \in Range(db) : Has(R, r) \/ \A s \in R : s.pub >= r.pub
        BY <1>1, <1>5, <4>1, OlderThanRead
      <4> QED
        BY <4>1, <4>3, <4>4, <4>5, UniqueCount DEF Has, Ids
    <3>5. NoStableSkipped'
      BY <3>2, <3>4 DEF NoStableSkipped, Quiet
    <3> QED
      BY <1>1, <1>9, <3>2, <3>5, GiveStep
  <2>4. CASE have + size # Count
    <3>1. Step(more)
      BY <2>1, <2>4
    <3>0. start > 0 /\ crawl.total < Count + start
      BY <1>3, <1>4, <1>5, <2>4
    <3> HIDE DEF R, have
    <3>2. /\ crawl' \in CrawlState /\ crawl'.mode = "simple" /\ crawl'.explicit = crawl.explicit
          /\ crawl'.at = "page" /\ crawl'.selected = R /\ crawl'.upper = start
          /\ crawl'.total = crawl.total /\ Quiet
      BY <1>1, <1>5, <1>9, <3>1 DEF Step, CrawlState, Quiet
    <3>3. /\ Unseen' <=> Unseen
          /\ Happened("add")' = Happened("add") /\ Happened("withdraw")' = Happened("withdraw")
      BY <1>1, <3>2, QuietFrame
    <3>4. CrawlTyped' /\ NoStableSkipped' /\ Asking'
      BY <1>1, <1>9, <3>2, TypedQuiet DEF NoStableSkipped, Asking
    <3>5. ~Unseen' => ReadFromEnd' /\ Unique(R)
      BY <2>2, <3>2, <3>3 DEF ReadFrom, ReadFromEnd, Quiet
    <3>6. Counted(db)'
      BY <1>3, <3>2, <3>3 DEF Counted, Quiet
    <3>7. start \in 1 .. crawl.total
      BY <1>3, <1>4, <1>5, <3>0
    <3>8. SimpleInv'
      BY <1>3, <3>0, <3>2, <3>5, <3>6, <3>7 DEF SimpleInv, Quiet
    <3> QED
      BY <3>2, <3>4, <3>8 DEF CrawlInv
  <2> QED
    BY <2>3, <2>4
<1> QED
  BY <1>10, <1>11

LEMMA TailPageKeeps == CrawlInv /\ TailPage => CrawlInv'
<1> SUFFICES ASSUME CrawlInv, TailPage PROVE CrawlInv'
  OBVIOUS
<1> DEFINE size == Min({Count - Cardinality(crawl.selected), PageSize, crawl.upper})
           start == crawl.upper - size
           answer == Serve(db, start, size)
           after == Asked(crawl)
           R == Merge(after.selected, answer.page, "pub")
           more == [after EXCEPT !.selected = R, !.upper = start]
           Rejects == after.at = "failed" \/ answer.total # crawl.total
                    \/ Last(answer.page).pub > crawl.newer
<1>1. /\ CrawlTyped /\ crawl.mode = "tail" /\ crawl.at = "page" /\ crawl \in CrawlState
      /\ db \in Seq(Rec) /\ Sorted(db) /\ IsFiniteSet(crawl.selected) /\ crawl.selected \in SUBSET Rec
  BY DEF CrawlInv, TailPage, CrawlTyped, CrawlState
<1>2. TailInv
  BY <1>1 DEF CrawlInv, Asking
<1>3. /\ Unique(crawl.selected) /\ Cardinality(crawl.selected) < Count
      /\ crawl.upper \in 1 .. crawl.total /\ Counted(db)
      /\ ~Unseen /\ Len(db) = crawl.total => ReadFromEnd
  BY <1>1, <1>2 DEF TailInv
<1>4. /\ Count \in Nat /\ PageSize \in Nat /\ PageSize > 0 /\ crawl.total \in Nat /\ crawl.upper \in Nat
      /\ Cardinality(crawl.selected) \in Nat
  BY <1>1, NvdCrawlAssumption, FS_CardinalityType DEF CrawlState
<1>5. size \in Nat /\ size > 0 /\ start \in Nat /\ start < crawl.upper /\ start + size = crawl.upper
  <2> DEFINE few == Count - Cardinality(crawl.selected)
  <2>1. few \in Nat /\ few > 0
    BY <1>3, <1>4
  <2> HIDE DEF few
  <2>2. size \in {few, PageSize, crawl.upper} /\ size <= crawl.upper
    BY <1>4, <2>1, LeastOfThree DEF few
  <2> HIDE DEF size
  <2> QED
    BY <1>3, <1>4, <2>1, <2>2
<1>6. Step(IF Rejects THEN Failed(crawl)
           ELSE IF Cardinality(R) >= Count THEN Gave(more, Newest(R))
           ELSE IF start = 0 THEN Failed(crawl)
           ELSE [more EXCEPT !.newer = Head(answer.page).pub])
  BY DEF TailPage
<1> HIDE DEF size, start
<1>7. /\ answer.total = Len(db) /\ answer.page \in Seq(Rec)
      /\ Len(answer.page) = LET stop == IF start + size <= Len(db) THEN start + size ELSE Len(db)
                            IN  IF start < stop THEN stop - start ELSE 0
  BY <1>1, <1>5, Served
<1> HIDE DEF answer
<1>8. CASE Rejects
  BY <1>1, <1>6, <1>8, FailStep
<1>9. CASE ~Rejects
  <2>1. /\ Len(db) = crawl.total
        /\ Step(IF Cardinality(R) >= Count THEN Gave(more, Newest(R))
                ELSE IF start = 0 THEN Failed(crawl)
                ELSE [more EXCEPT !.newer = Head(answer.page).pub])
    BY <1>6, <1>7, <1>9
  <2>2. after = [crawl EXCEPT !.requests = @ + 1] /\ after.selected = crawl.selected
    BY <1>1, <1>9, AskedType DEF CrawlState
  <2> HIDE DEF after
  <2>3. /\ R \subseteq crawl.selected \cup Range(answer.page) /\ IsFiniteSet(R) /\ Unique(R)
        /\ Covers(R, crawl.selected \cup Range(answer.page), "pub")
    BY <1>1, <1>3, <1>7, <2>2, MergeKeeps
  <2>4. Records(R) /\ Cardinality(R) \in Nat
    BY <1>1, <1>7, <2>3, PageRecords, FS_CardinalityType DEF Records
  <2> HIDE DEF R
  <2>5. /\ more \in CrawlState /\ more.mode = "tail" /\ more.explicit = crawl.explicit
        /\ more.selected = R /\ more.upper = start /\ more.total = crawl.total /\ more.at = "page"
    <3>1. /\ after \in CrawlState /\ after.mode = "tail" /\ after.explicit = crawl.explicit
      BY <1>1, AskedType DEF after
    <3>3. after.total = crawl.total /\ after.at = "page"
      BY <1>1, <2>2 DEF CrawlState
    <3>2. R \in SUBSET Rec
      BY <2>4 DEF Records
    <3> QED
      BY <1>5, <3>1, <3>2, <3>3 DEF CrawlState
  <2> HIDE DEF more
  <2>6. ASSUME ~Unseen PROVE ReadFrom(R, start)
    <3>1. ReadFrom(crawl.selected, crawl.upper)
      BY <1>3, <2>1, <2>6, ReadFromHere
    <3>2. crawl.upper <= Len(db)
      BY <1>3, <1>4, <2>1
    <3> QED
      BY <1>1, <1>4, <1>5, <2>3, <3>1, <3>2, ReadOneMore DEF answer
  <2>7. CASE Cardinality(R) >= Count
    <3>1. Step(Gave(more, Newest(R)))
      BY <2>1, <2>7
    <3>2. ~Unseen => \A r \in Range(db) : Has(R, r) \/ \A s \in R : s.pub >= r.pub
      BY <1>1, <1>5, <2>6, OlderThanRead
    <3>3. Gives(more, R)
      BY <1>1, <2>3, <2>4, <2>5, <2>7, <3>2 DEF Gives
    <3> QED
      BY <1>1, <3>1, <3>3, GiveNewest
  <2>8. CASE ~(Cardinality(R) >= Count) /\ start = 0
    BY <1>1, <2>1, <2>8, FailStep
  <2>9. CASE ~(Cardinality(R) >= Count) /\ start # 0
    <3>1. Step([more EXCEPT !.newer = Head(answer.page).pub])
      BY <2>1, <2>9
    <3>2. Head(answer.page).pub \in Nat
      <4>1. Len(answer.page) = size
        BY <1>3, <1>4, <1>5, <1>7, <2>1
      <4>2. answer.page # <<>> /\ Head(answer.page) = answer.page[1] /\ 1 \in DOMAIN answer.page
        BY <1>5, <1>7, <4>1
      <4> QED
        BY <1>7, <4>2, PageRecords
    <3>3. /\ crawl' \in CrawlState /\ crawl'.mode = "tail" /\ crawl'.explicit = crawl.explicit
          /\ crawl'.at = "page" /\ crawl'.selected = R /\ crawl'.upper = start
          /\ crawl'.total = crawl.total /\ Quiet
      BY <2>5, <3>1, <3>2 DEF Step, CrawlState, Quiet
    <3>4. /\ Unseen' <=> Unseen
          /\ Happened("add")' = Happened("add") /\ Happened("withdraw")' = Happened("withdraw")
      BY <1>1, <3>3, QuietFrame
    <3>5. CrawlTyped' /\ NoStableSkipped' /\ Asking'
      BY <1>1, <2>3, <3>3, TypedQuiet DEF NoStableSkipped, Asking
    <3>6. ~Unseen' => ReadFromEnd'
      BY <2>6, <3>3, <3>4 DEF ReadFrom, ReadFromEnd, Quiet
    <3>7. Counted(db)'
      BY <1>3, <3>3, <3>4 DEF Counted, Quiet
    <3>8. start \in 1 .. crawl.total /\ Cardinality(R) < Count
      BY <1>3, <1>4, <1>5, <2>4, <2>9
    <3>9. TailInv'
      BY <2>3, <3>3, <3>6, <3>7, <3>8 DEF TailInv
    <3> QED
      BY <3>3, <3>5, <3>9 DEF CrawlInv
  <2> QED
    BY <2>7, <2>8, <2>9
<1> QED
  BY <1>8, <1>9
-----------------------------------------------------------------------------
(* Crawls by windows, backwards and forwards.                              *)

LEMMA WindowHits ==
  ASSUME CrawlTyped
  PROVE  /\ InWindow \in Seq(Rec) /\ Sorted(InWindow) /\ DOMAIN InWindow = 1 .. Len(InWindow)
         /\ \A r : r \in Range(InWindow) <=> r \in Range(db) /\ r.pub \in Start(crawl) .. crawl.end
         /\ Start(crawl) \in Nat /\ crawl.end \in Nat /\ Len(InWindow) \in Nat
         /\ ~crawl.explicit \/ From <= crawl.end => Start(crawl) <= crawl.end
<1>1. db \in Seq(Rec) /\ Sorted(db) /\ crawl \in CrawlState
  BY DEF CrawlTyped
<1> DEFINE from == Start(crawl)
           to == crawl.end
           hits == Dated(db, "pub", from, to)
<1>2. from \in Nat /\ to \in Nat /\ (~crawl.explicit \/ From <= to => from <= to)
  BY <1>1, StartType
<1>3. InWindow = hits
  BY DEF InWindow
<1> HIDE DEF from, to
<1>4. /\ hits \in Seq(Rec) /\ Sorted(hits)
      /\ \A r : r \in Range(hits) <=> r \in Range(db) /\ r.pub \in from .. to
  BY <1>1, DatedElements
<1> HIDE DEF hits
<1> QED
  BY <1>2, <1>3, <1>4 DEF from, to

LEMMA WindowSame ==
  ASSUME Quiet, crawl'.end = crawl.end, crawl'.explicit = crawl.explicit
  PROVE  Start(crawl)' = Start(crawl) /\ InWindow' = InWindow
<1>1. Start(crawl)' = Start(crawl)
  BY DEF Start
<1> QED
  BY <1>1 DEF InWindow, Quiet

(* What an asking crawl of the newest knows, in one place.                  *)
LEMMA LatestKnows ==
  ASSUME CrawlInv, crawl.mode = "latest", Asking
  PROVE  /\ CrawlTyped /\ crawl \in CrawlState /\ db \in Seq(Rec) /\ IsFiniteSet(crawl.selected)
         /\ crawl.selected \subseteq Rec /\ Records(crawl.selected)
         /\ Passed /\ (crawl.at = "page" => Reading)
BY DEF CrawlInv, CrawlTyped, CrawlState, LatestInv, Records

LEMMA WindowProbeKeeps == CrawlInv /\ WindowProbe => CrawlInv'
<1> SUFFICES ASSUME CrawlInv, WindowProbe PROVE CrawlInv'
  OBVIOUS
<1> DEFINE answer == Serve(InWindow, 0, PageSize)
           after == Asked(crawl)
           next == [after EXCEPT !.at = "page", !.total = answer.total,
                     !.upper = answer.total, !.probe = answer.page, !.newer = crawl.end]
           n == Len(InWindow)
<1>1. crawl.mode = "latest" /\ crawl.at = "probe" /\ Asking
  BY DEF WindowProbe, Asking
<1>2. /\ CrawlTyped /\ crawl \in CrawlState /\ db \in Seq(Rec) /\ IsFiniteSet(crawl.selected)
      /\ crawl.selected \subseteq Rec /\ Passed
  BY <1>1, LatestKnows
<1>3. /\ InWindow \in Seq(Rec) /\ Sorted(InWindow) /\ DOMAIN InWindow = 1 .. n /\ n \in Nat
      /\ \A r : r \in Range(InWindow) <=> r \in Range(db) /\ r.pub \in Start(crawl) .. crawl.end
      /\ Start(crawl) \in Nat /\ crawl.end \in Nat /\ Start(crawl) <= crawl.end
  BY <1>2, WindowHits DEF Passed
<1>4. PageSize \in Nat /\ PageSize > 0 /\ Count \in Nat
  BY NvdCrawlAssumption
<1>5. /\ answer.total = n /\ answer.page \in Seq(Rec) /\ Sorted(answer.page)
      /\ Len(answer.page) = IF PageSize < n THEN PageSize ELSE n
      /\ \A i \in 1 .. Len(answer.page) : i \in DOMAIN InWindow /\ answer.page[i] = InWindow[i]
      /\ n <= PageSize => \A i \in DOMAIN InWindow : InWindow[i] \in Range(answer.page)
  <2> DEFINE first == 0
             stop == IF first + PageSize <= n THEN first + PageSize ELSE n
  <2>0. first \in Nat
    OBVIOUS
  <2> HIDE DEF first
  <2>1. /\ answer.total = n /\ answer.page \in Seq(Rec) /\ Sorted(answer.page)
        /\ Len(answer.page) = IF first < stop THEN stop - first ELSE 0
        /\ \A i \in 1 .. Len(answer.page) : first + i \in DOMAIN InWindow /\ answer.page[i] = InWindow[first + i]
        /\ \A i \in DOMAIN InWindow : first < i /\ i <= stop => InWindow[i] \in Range(answer.page)
    <3>1. answer = Serve(InWindow, first, PageSize)
      BY DEF first
    <3> HIDE DEF answer
    <3> QED
      BY <1>3, <1>4, <2>0, <3>1, Served
  <2> HIDE DEF answer, n
  <2>2. stop = IF PageSize < n THEN PageSize ELSE n
    BY <1>3, <1>4 DEF first
  <2>3. \A i \in 1 .. Len(answer.page) : first + i = i
    BY DEF first
  <2>4. n <= PageSize => \A i \in DOMAIN InWindow : first < i /\ i <= stop
    BY <1>3, <1>4 DEF first
  <2>5. Len(answer.page) = stop
    BY <1>3, <1>4, <2>1, <2>2 DEF first
  <2> HIDE DEF stop
  <2> QED
    BY <2>1, <2>2, <2>3, <2>4, <2>5
<1> HIDE DEF answer, n
<1>6. CASE after.at = "failed"
  BY <1>2, <1>6, FailStep DEF WindowProbe
<1>7. CASE after.at # "failed"
  <2>1. Step(next)
    BY <1>7 DEF WindowProbe, answer
  <2>2. /\ after \in CrawlState /\ after.mode = "latest" /\ after.explicit = crawl.explicit
        /\ after = [crawl EXCEPT !.requests = @ + 1]
    BY <1>1, <1>2, <1>7, AskedType
  <2>3. after.selected = crawl.selected /\ after.end = crawl.end
    BY <1>2, <2>2 DEF CrawlState
  <2> HIDE DEF after
  <2>4. /\ crawl' \in CrawlState /\ crawl'.mode = "latest" /\ crawl'.explicit = crawl.explicit
        /\ crawl'.at = "page" /\ crawl'.selected = crawl.selected /\ crawl'.end = crawl.end
        /\ crawl'.total = n /\ crawl'.upper = n /\ crawl'.probe = answer.page
        /\ crawl'.newer = crawl.end /\ Quiet
    BY <1>3, <1>5, <2>1, <2>2, <2>3 DEF Step, CrawlState, Quiet
  <2>5. CrawlTyped' /\ NoStableSkipped' /\ Asking'
    BY <1>2, <2>4, TypedQuiet DEF NoStableSkipped, Asking
  <2>6. /\ Unseen' <=> Unseen
        /\ Happened("add")' = Happened("add") /\ Happened("withdraw")' = Happened("withdraw")
        /\ \A r : Wanted(r)' <=> Wanted(r)
    BY <1>1, <2>4, QuietFrame
  <2>7. Start(crawl)' = Start(crawl) /\ InWindow' = InWindow
    BY <2>4, WindowSame
  <2>8. Passed'
    BY <2>4, <2>6, <1>2, <1>1 DEF Passed, Quiet
  <2>9. \A i \in DOMAIN InWindow : ~(i > n)
    BY <1>3
  <2>10. /\ DOMAIN answer.page = 1 .. Len(answer.page)
         /\ \A r \in Range(answer.page) : r.pub \in Start(crawl) .. crawl.end
    <3>1. DOMAIN answer.page = 1 .. Len(answer.page)
      BY <1>5, PageRecords
    <3>2. \A r \in Range(answer.page) : r \in Range(InWindow)
      BY <1>5, <3>1 DEF Range
    <3> QED
      BY <1>3, <3>1, <3>2
  <2>11. \A s \in crawl.selected : s.pub >= crawl.end
    BY <1>1, <1>2 DEF Passed
  <2>12. n <= PageSize => \A r \in Range(InWindow) : n > 0 /\ Has(Range(answer.page), r)
    <3> SUFFICES ASSUME n <= PageSize, NEW r \in Range(InWindow) PROVE n > 0 /\ Has(Range(answer.page), r)
      OBVIOUS
    <3>1. PICK i \in 1 .. n : r = InWindow[i]
      BY <1>3 DEF Range
    <3>2. r \in Range(answer.page) /\ r \in Rec /\ n > 0
      BY <1>3, <1>5, <3>1
    <3>3. r.pub >= r.pub
      BY <3>2 DEF Rec
    <3> QED
      BY <3>2, <3>3 DEF Has
  <2>13. Reading'
    <3>1. Counted(InWindow)'
      BY <2>4, <2>7, <1>3 DEF Counted, n
    <3>2. crawl'.newer \in Start(crawl)' .. crawl'.end
      BY <1>3, <2>4, <2>7
    <3> QED
      BY <1>3, <1>5, <2>4, <2>6, <2>7, <2>9, <2>10, <2>11, <2>12, <3>1, <3>2 DEF Reading, Quiet
  <2> QED
    BY <2>4, <2>5, <2>8, <2>13 DEF CrawlInv, LatestInv
<1> QED
  BY <1>6, <1>7

LEMMA WindowExhaustedKeeps == CrawlInv /\ WindowExhausted => CrawlInv'
<1> SUFFICES ASSUME CrawlInv, WindowExhausted PROVE CrawlInv'
  OBVIOUS
<1>1. crawl.mode = "latest" /\ crawl.at = "page" /\ crawl.upper = 0 /\ Asking
  BY DEF WindowExhausted, Asking
<1>2. /\ CrawlTyped /\ crawl \in CrawlState /\ db \in Seq(Rec) /\ IsFiniteSet(crawl.selected)
      /\ crawl.selected \subseteq Rec /\ Records(crawl.selected) /\ Passed /\ Reading
  BY <1>1, LatestKnows
<1>3. /\ \A r : r \in Range(InWindow) <=> r \in Range(db) /\ r.pub \in Start(crawl) .. crawl.end
      /\ Start(crawl) \in Nat /\ crawl.end \in Nat
  BY <1>2, WindowHits
<1>4. \A r \in Range(db) : r.pub \in Nat
  <2>1. \A r \in Range(db) : r \in Rec
    BY <1>2 DEF Range
  <2> QED
    BY <2>1 DEF Rec
<1>5. ASSUME ~Unseen, NEW r \in Range(db), r.id \in stable, Wanted(r), r.pub >= Start(crawl)
      PROVE  Has(crawl.selected, r)
  <2>1. CASE r.pub > crawl.end
    BY <1>2, <1>5, <2>1 DEF Passed
  <2>2. CASE ~(r.pub > crawl.end)
    <3>1. r \in Range(InWindow)
      BY <1>3, <1>4, <1>5, <2>2
    <3>2. crawl.upper <= PageSize /\ ~(crawl.upper > 0)
      BY <1>1, NvdCrawlAssumption
    <3> QED
      BY <1>2, <1>5, <3>1, <3>2 DEF Reading
  <2> QED
    BY <2>1, <2>2
<1>6. CASE crawl.explicit /\ Start(crawl) = From
  <2>1. Step(Gave(crawl, Newest(crawl.selected)))
    BY <1>6 DEF WindowExhausted
  <2>2. ~Unseen => \A r \in Range(db) : r.id \in stable /\ Wanted(r) => Has(crawl.selected, r)
    BY <1>1, <1>5, <1>6 DEF Wanted
  <2>3. Gives(crawl, crawl.selected)
    BY <1>1, <1>2, <1>6, <2>2 DEF Gives, Passed
  <2> QED
    BY <1>1, <1>2, <2>1, <2>3, GiveNewest
<1>7. CASE ~(crawl.explicit /\ Start(crawl) = From)
  <2>1. Step([crawl EXCEPT !.at = "probe", !.end = Start(crawl), !.probe = <<>>])
    BY <1>7 DEF WindowExhausted
  <2>2. /\ crawl' \in CrawlState /\ crawl'.mode = "latest" /\ crawl'.explicit = crawl.explicit
        /\ crawl'.at = "probe" /\ crawl'.selected = crawl.selected /\ crawl'.end = Start(crawl) /\ Quiet
    <3>1. <<>> \in Seq(Rec)
      OBVIOUS
    <3> QED
      BY <1>1, <1>2, <1>3, <2>1, <3>1 DEF Step, CrawlState, Quiet
  <2>3. CrawlTyped' /\ NoStableSkipped' /\ Asking'
    BY <1>2, <2>2, TypedQuiet DEF NoStableSkipped, Asking
  <2>4. (Unseen' <=> Unseen) /\ \A r : Wanted(r)' <=> Wanted(r)
    BY <1>1, <2>2, QuietFrame
  <2>5. \A s \in crawl.selected : s.pub >= Start(crawl)
    <3>1. \A s \in crawl.selected : s.pub \in Nat /\ s.pub >= crawl.newer
      BY <1>2 DEF Reading, Rec
    <3>2. crawl.newer \in Nat /\ crawl.newer >= Start(crawl)
      BY <1>2, <1>3 DEF Reading
    <3> QED
      BY <1>3, <3>1, <3>2
  <2>6. crawl.explicit => From <= Start(crawl)
    BY <1>2, StartType
  <2>7. ~Unseen => \A r \in Range(db) :
          r.id \in stable /\ Wanted(r) /\ r.pub > Start(crawl) => Has(crawl.selected, r)
    BY <1>3, <1>4, <1>5
  <2>8. Passed'
    BY <1>2, <2>2, <2>4, <2>5, <2>6, <2>7 DEF Passed, Quiet
  <2> QED
    BY <2>2, <2>3, <2>8 DEF CrawlInv, LatestInv
<1> QED
  BY <1>6, <1>7

(* One page of a window: what it holds, whether it is the probe's or read  *)
(* anew while the count of the window is still that of the probe.           *)
PageStart == ((crawl.upper - 1) \div PageSize) * PageSize
PageAnswer ==
  IF PageStart = 0 THEN [total |-> crawl.total, page |-> crawl.probe]
  ELSE Serve(InWindow, PageStart, PageSize)

LEMMA WindowPageHolds ==
  ASSUME CrawlTyped, crawl.mode = "latest", crawl.at = "page", crawl.upper > 0, Reading,
         PageAnswer.total = crawl.total
  PROVE  LET list == PageAnswer.page
         IN /\ list \in Seq(Rec) /\ Len(list) > 0 /\ Sorted(list)
            /\ \A r \in Range(list) : r.pub \in Start(crawl) .. crawl.end
            /\ ~Unseen /\ Len(InWindow) = crawl.total =>
                 \A i \in DOMAIN InWindow : i > PageStart /\ i <= crawl.upper => Has(Range(list), InWindow[i])
            /\ PageStart # 0 => Len(InWindow) = crawl.total
            /\ PageStart # 0 => \A i \in DOMAIN InWindow : i <= PageStart => InWindow[i].pub <= list[1].pub
            /\ PageStart = 0 => list = crawl.probe /\ crawl.upper <= PageSize
<1> DEFINE hits == InWindow
           n == Len(hits)
           start == PageStart
           u == crawl.upper
           list == PageAnswer.page
<1>1. /\ hits \in Seq(Rec) /\ Sorted(hits) /\ DOMAIN hits = 1 .. n /\ n \in Nat
      /\ \A r : r \in Range(hits) <=> r \in Range(db) /\ r.pub \in Start(crawl) .. crawl.end
  BY WindowHits
<1>2. /\ u \in Nat /\ u > 0 /\ crawl.total \in Nat /\ crawl.probe \in Seq(Rec)
      /\ PageSize \in Nat /\ PageSize > 0
  BY NvdCrawlAssumption DEF CrawlTyped, CrawlState
<1>3. /\ u <= crawl.total
      /\ u = crawl.total \/ \E k \in 0 .. u : u = k * PageSize
      /\ Len(crawl.probe) = IF PageSize < crawl.total THEN PageSize ELSE crawl.total
      /\ Sorted(crawl.probe)
      /\ \A r \in Range(crawl.probe) : r.pub \in Start(crawl) .. crawl.end
      /\ ~Unseen /\ n = crawl.total => \A i \in DOMAIN crawl.probe :
            crawl.probe[i].id = hits[i].id /\ crawl.probe[i].pub = hits[i].pub
  BY DEF Reading
<1>4. /\ start \in Nat /\ start < u /\ u <= start + PageSize
      /\ \A m \in Nat : u = m * PageSize => u = start + PageSize
  BY <1>2, AlignedPage DEF PageStart
<1>5. u = crawl.total \/ u = start + PageSize
  BY <1>2, <1>3, <1>4
<1>0. \A i \in DOMAIN hits : hits[i] \in Rec /\ hits[i].pub \in Nat /\ i \in Nat
  BY <1>1, PageRecords
<1> HIDE DEF hits, n, start, u
<1>6. CASE start = 0
  <2>1. list = crawl.probe /\ u <= PageSize
    BY <1>2, <1>4, <1>6 DEF PageAnswer, start
  <2> HIDE DEF list
  <2>2. Len(list) > 0 /\ u <= Len(list) /\ DOMAIN list = 1 .. Len(list)
    BY <1>2, <1>3, <2>1, PageRecords
  <2>3. ASSUME ~Unseen, n = crawl.total, NEW i \in DOMAIN hits, i > start, i <= u
        PROVE  Has(Range(list), hits[i])
    <3>1. i \in DOMAIN list
      BY <1>0, <1>1, <1>2, <1>6, <2>2, <2>3
    <3>2. list[i] \in Range(list) /\ list[i].id = hits[i].id /\ list[i].pub = hits[i].pub
      BY <1>3, <2>1, <2>3, <3>1 DEF Range
    <3>3. list[i].pub >= hits[i].pub
      BY <1>0, <2>3, <3>2
    <3> QED
      BY <3>2, <3>3 DEF Has
  <2> QED
    BY <1>2, <1>3, <1>6, <2>1, <2>2, <2>3 DEF hits, n, start, u, list
<1>7. CASE start # 0
  <2> DEFINE answer == Serve(hits, start, PageSize)
             stop == IF start + PageSize <= n THEN start + PageSize ELSE n
  <2>1. /\ answer.total = n /\ answer.page \in Seq(Rec) /\ Sorted(answer.page)
        /\ Len(answer.page) = IF start < stop THEN stop - start ELSE 0
        /\ \A i \in 1 .. Len(answer.page) : start + i \in DOMAIN hits /\ answer.page[i] = hits[start + i]
        /\ \A i \in DOMAIN hits : start < i /\ i <= stop => hits[i] \in Range(answer.page)
    BY <1>1, <1>2, <1>4, Served
  <2>2. list = answer.page /\ PageAnswer.total = answer.total
    BY <1>7 DEF PageAnswer, start, hits
  <2>3. n = crawl.total
    BY <2>1, <2>2
  <2> HIDE DEF answer, list
  <2>4. stop = u
    BY <1>1, <1>2, <1>3, <1>4, <1>5, <2>3
  <2> HIDE DEF stop
  <2>5. /\ list \in Seq(Rec) /\ Sorted(list) /\ Len(list) = u - start /\ Len(list) > 0
        /\ DOMAIN list = 1 .. Len(list) /\ Len(list) \in Nat
    BY <1>2, <1>4, <2>1, <2>2, <2>4, PageRecords
  <2>6. ASSUME NEW r \in Range(list) PROVE r.pub \in Start(crawl) .. crawl.end
    <3>1. PICK i \in 1 .. Len(list) : r = list[i]
      BY <2>5 DEF Range
    <3>2. r \in Range(hits)
      BY <2>1, <2>2, <3>1 DEF Range
    <3> QED
      BY <1>1, <3>2
  <2>7. ASSUME NEW i \in DOMAIN hits, i > start, i <= u PROVE Has(Range(list), hits[i])
    <3>1. hits[i] \in Range(list)
      BY <1>0, <1>4, <2>1, <2>2, <2>4, <2>7
    <3>2. hits[i].pub >= hits[i].pub
      BY <1>0
    <3> QED
      BY <3>1, <3>2 DEF Has
  <2>8. ASSUME NEW i \in DOMAIN hits, i <= start PROVE hits[i].pub <= list[1].pub
    <3>1. 1 \in 1 .. Len(list)
      BY <2>5
    <3>2. start + 1 \in DOMAIN hits /\ list[1] = hits[start + 1]
      BY <2>1, <2>2, <3>1
    <3>3. i <= start + 1
      BY <1>0, <1>4, <2>8
    <3> QED
      BY <1>1, <3>2, <3>3 DEF Sorted
  <2> QED
    BY <1>7, <2>3, <2>5, <2>6, <2>7, <2>8 DEF hits, n, start, u, list
<1> QED
  BY <1>6, <1>7

(* What a window is known to hold once the page is merged.                  *)
LEMMA WindowPageReads ==
  ASSUME CrawlTyped, crawl.mode = "latest", crawl.at = "page", crawl.upper > 0, Reading,
         PageAnswer.total = crawl.total, ~Unseen, NEW R, R \subseteq Rec,
         Covers(R, crawl.selected \cup Range(PageAnswer.page), "pub")
  PROVE  /\ Len(InWindow) = crawl.total =>
              \A i \in DOMAIN InWindow : i > PageStart => Has(R, InWindow[i])
         /\ PageStart <= PageSize => \A r \in Range(InWindow) : r.id \in stable =>
              Has(R, r) \/ (PageStart > 0 /\ Has(Range(crawl.probe), r))
<1> DEFINE hits == InWindow
           list == PageAnswer.page
           start == PageStart
<1>1. /\ list \in Seq(Rec)
      /\ Len(hits) = crawl.total =>
           \A i \in DOMAIN hits : i > start /\ i <= crawl.upper => Has(Range(list), hits[i])
      /\ start # 0 => Len(hits) = crawl.total
      /\ start = 0 => list = crawl.probe /\ crawl.upper <= PageSize
  BY WindowPageHolds
<1>2. /\ hits \in Seq(Rec) /\ DOMAIN hits = 1 .. Len(hits) /\ Len(hits) \in Nat
      /\ \A i \in DOMAIN hits : hits[i] \in Rec /\ hits[i].pub \in Nat /\ i \in Nat
  <2>1. hits \in Seq(Rec)
    BY WindowHits
  <2> QED
    BY <2>1, PageRecords
<1>3. /\ crawl.upper \in Nat /\ crawl.total \in Nat /\ crawl.probe \in Seq(Rec)
      /\ PageSize \in Nat /\ PageSize > 0 /\ crawl.selected \subseteq Rec
  BY NvdCrawlAssumption DEF CrawlTyped, CrawlState
<1>4. /\ crawl.upper <= crawl.total
      /\ Len(crawl.probe) = IF PageSize < crawl.total THEN PageSize ELSE crawl.total
      /\ Len(hits) = crawl.total =>
          /\ \A i \in DOMAIN hits : i > crawl.upper => Has(crawl.selected, hits[i])
          /\ \A i \in DOMAIN crawl.probe :
               crawl.probe[i].id = hits[i].id /\ crawl.probe[i].pub = hits[i].pub
      /\ crawl.upper <= PageSize => \A r \in Range(hits) :
          r.id \in stable => \/ Has(crawl.selected, r)
                             \/ crawl.upper > 0 /\ Has(Range(crawl.probe), r)
  BY DEF Reading
<1>5. /\ start \in Nat /\ start < crawl.upper
      /\ start = ((crawl.upper - 1) \div PageSize) * PageSize
      /\ (crawl.upper - 1) \div PageSize \in 0 .. start
  BY <1>3, AlignedPage DEF PageStart
<1>6. Range(list) \subseteq Rec /\ Covers(R, crawl.selected, "pub") /\ Covers(R, Range(list), "pub")
  BY <1>1 DEF Range, Covers
<1> HIDE DEF hits, list, start
<1>7. ASSUME Len(hits) = crawl.total, NEW i \in DOMAIN hits, i > start PROVE Has(R, hits[i])
  <2>1. CASE i > crawl.upper
    BY <1>2, <1>3, <1>4, <1>6, <1>7, <2>1, HasMore
  <2>2. CASE ~(i > crawl.upper)
    <3>1. Has(Range(list), hits[i])
      BY <1>1, <1>2, <1>3, <1>7, <2>2
    <3> QED
      BY <1>2, <1>6, <3>1, HasMore
  <2> QED
    BY <2>1, <2>2
<1>8. ASSUME start <= PageSize, NEW r \in Range(hits), r.id \in stable
      PROVE  Has(R, r) \/ (start > 0 /\ Has(Range(crawl.probe), r))
  <2>1. PICK i \in DOMAIN hits : r = hits[i]
    BY DEF Range
  <2>2. CASE start = 0
    <3>1. Has(crawl.selected, r) \/ Has(Range(list), r)
      BY <1>1, <1>4, <1>8, <2>2
    <3>2. r \in Rec
      BY <1>2, <2>1
    <3> QED
      BY <1>3, <1>6, <3>1, <3>2, HasMore
  <2>3. CASE start # 0
    <3>1. start = PageSize
      <4> DEFINE k == (crawl.upper - 1) \div PageSize
      <4>1. k \in Nat /\ start = k * PageSize
        BY <1>5
      <4> HIDE DEF k
      <4>2. CASE k = 0
        BY <1>3, <2>3, <4>1, <4>2
      <4>3. CASE k >= 1
        <5>1. k * PageSize >= PageSize
          BY <1>3, <4>1, <4>3
        <5> QED
          BY <1>3, <1>5, <1>8, <4>1, <5>1
      <4> QED
        BY <4>1, <4>2, <4>3
    <3>2. Len(hits) = crawl.total /\ Len(crawl.probe) = start /\ start > 0
      <4>1. Len(hits) = crawl.total /\ start > 0
        BY <1>1, <1>5, <2>3
      <4>4. start < crawl.upper /\ crawl.upper <= crawl.total
        BY <1>4, <1>5
      <4>2. PageSize < crawl.total
        BY <1>3, <3>1, <4>4
      <4>3. Len(crawl.probe) = PageSize
        BY <1>4, <4>2
      <4> QED
        BY <3>1, <4>1, <4>3
    <3>3. CASE i > start
      BY <1>7, <2>1, <3>2, <3>3
    <3>4. CASE ~(i > start)
      <4>1. i \in DOMAIN crawl.probe
        BY <1>2, <1>3, <1>5, <3>2, <3>4, PageRecords
      <4>2. /\ crawl.probe[i] \in Range(crawl.probe)
            /\ crawl.probe[i].id = r.id /\ crawl.probe[i].pub = r.pub
        BY <1>4, <2>1, <3>2, <4>1 DEF Range
      <4>3. crawl.probe[i].pub >= r.pub
        BY <1>2, <2>1, <4>2
      <4> QED
        BY <3>2, <4>2, <4>3 DEF Has
    <3> QED
      BY <3>3, <3>4
  <2> QED
    BY <2>2, <2>3
<1> QED
  BY <1>7, <1>8 DEF hits, start

LEMMA WindowPageKeeps == CrawlInv /\ WindowPage => CrawlInv'
<1> SUFFICES ASSUME CrawlInv, WindowPage PROVE CrawlInv'
  OBVIOUS
<1> DEFINE start == PageStart
           answer == PageAnswer
           list == answer.page
           after == IF start = 0 THEN crawl ELSE Asked(crawl)
           R == Merge(after.selected, list, "pub")
           more == [after EXCEPT !.selected = R, !.upper = start]
           Rejects == after.at = "failed" \/ answer.total # crawl.total \/ Last(list).pub > crawl.newer
<1>1. crawl.mode = "latest" /\ crawl.at = "page" /\ crawl.upper > 0 /\ Asking
  BY DEF WindowPage, Asking
<1>2. /\ CrawlTyped /\ crawl \in CrawlState /\ db \in Seq(Rec) /\ IsFiniteSet(crawl.selected)
      /\ crawl.selected \in SUBSET Rec /\ Passed /\ Reading
  BY <1>1, LatestKnows
<1>3. Step(IF Rejects THEN Failed(crawl)
           ELSE IF Cardinality(R) >= Count THEN Gave(more, Newest(R))
           ELSE [more EXCEPT !.newer = Head(list).pub])
  BY DEF WindowPage, PageStart, PageAnswer
<1>4. CASE Rejects
  BY <1>2, <1>3, <1>4, FailStep
<1>5. CASE ~Rejects
  <2>1. /\ answer.total = crawl.total /\ after.at # "failed" /\ ~(Last(list).pub > crawl.newer)
        /\ Step(IF Cardinality(R) >= Count THEN Gave(more, Newest(R))
                ELSE [more EXCEPT !.newer = Head(list).pub])
    BY <1>3, <1>5
  <2>2. /\ list \in Seq(Rec) /\ Len(list) > 0 /\ Sorted(list)
        /\ \A r \in Range(list) : r.pub \in Start(crawl) .. crawl.end
        /\ start # 0 => Len(InWindow) = crawl.total
        /\ start # 0 => \A i \in DOMAIN InWindow : i <= start => InWindow[i].pub <= list[1].pub
    BY <1>1, <1>2, <2>1, WindowPageHolds
  <2>3. /\ after \in CrawlState /\ after.mode = "latest" /\ after.explicit = crawl.explicit
        /\ after.selected = crawl.selected /\ after.end = crawl.end /\ after.total = crawl.total
        /\ after.probe = crawl.probe /\ after.at = "page"
    <3>1. CASE start = 0
      BY <1>1, <1>2, <3>1
    <3>2. CASE start # 0
      <4>1. /\ after = Asked(crawl) /\ after \in CrawlState
            /\ after.mode = "latest" /\ after.explicit = crawl.explicit
        BY <1>1, <1>2, <3>2, AskedType
      <4>2. after = [crawl EXCEPT !.requests = @ + 1]
        BY <1>2, <2>1, <3>2, AskedType
      <4> HIDE DEF after
      <4>3. /\ after.selected = crawl.selected /\ after.end = crawl.end /\ after.total = crawl.total
            /\ after.probe = crawl.probe /\ after.at = "page"
        BY <1>1, <1>2, <4>2 DEF CrawlState
      <4> QED
        BY <4>1, <4>3
    <3> QED
      BY <3>1, <3>2
  <2>4. start \in Nat /\ start < crawl.upper /\ \E k \in 0 .. start : start = k * PageSize
    <3>1. crawl.upper \in Nat
      BY <1>2 DEF CrawlState
    <3> QED
      BY <1>1, <3>1, AlignedPage DEF PageStart
  <2>5. Unique(crawl.selected) /\ Cardinality(crawl.selected) < Count
    BY <1>2 DEF Passed
  <2> HIDE DEF after, answer
  <2>6. /\ R \subseteq crawl.selected \cup Range(list) /\ IsFiniteSet(R) /\ Unique(R)
        /\ Covers(R, crawl.selected \cup Range(list), "pub")
    BY <1>2, <2>2, <2>3, <2>5, MergeKeeps
  <2>7. Records(R) /\ Cardinality(R) \in Nat /\ R \subseteq Rec /\ Range(list) \subseteq Rec
        /\ DOMAIN list = 1 .. Len(list) /\ Len(list) \in Nat
        /\ \A i \in DOMAIN list : list[i] \in Rec /\ list[i].pub \in Nat
    BY <1>2, <2>2, <2>6, PageRecords, FS_CardinalityType DEF Records
  <2> HIDE DEF R, list, start
  <2>8. /\ more \in CrawlState /\ more.mode = "latest" /\ more.explicit = crawl.explicit
        /\ more.selected = R /\ more.upper = start /\ more.total = crawl.total /\ more.at = "page"
        /\ more.end = crawl.end /\ more.probe = crawl.probe
    BY <2>3, <2>4, <2>7 DEF CrawlState
  <2> HIDE DEF more
  <2>9. /\ Start(crawl) \in Nat /\ crawl.end \in Nat /\ InWindow \in Seq(Rec)
        /\ \A r : r \in Range(InWindow) <=> r \in Range(db) /\ r.pub \in Start(crawl) .. crawl.end
        /\ DOMAIN InWindow = 1 .. Len(InWindow) /\ Len(InWindow) \in Nat
    BY <1>2, WindowHits
  <2>10. \A r \in Range(db) : r \in Rec /\ r.pub \in Nat
    <3>1. \A r \in Range(db) : r \in Rec
      BY <1>2 DEF Range
    <3> QED
      BY <3>1 DEF Rec
  <2>11. Head(list) = list[1] /\ 1 \in DOMAIN list /\ list[1].pub \in Start(crawl) .. crawl.end
    BY <2>2, <2>7 DEF Range
  <2>12. ASSUME NEW s \in R PROVE s.pub >= list[1].pub
    <3>1. CASE s \in Range(list)
      <4>1. PICK i \in DOMAIN list : s = list[i]
        BY <3>1 DEF Range
      <4>2. 1 <= i
        BY <2>7
      <4>3. list[1].pub <= list[i].pub
        BY <2>2, <2>11, <4>2 DEF Sorted
      <4> QED
        BY <2>7, <2>11, <4>1, <4>3
    <3>2. CASE s \in crawl.selected
      <4>1. s.pub >= crawl.newer /\ s \in Rec /\ s.pub \in Nat /\ crawl.newer \in Nat
        BY <1>2, <3>2 DEF Reading, Rec, CrawlState
      <4>2. Last(list) = list[Len(list)] /\ Len(list) \in DOMAIN list /\ 1 <= Len(list)
        BY <2>2, <2>7 DEF Last
      <4>3. list[1].pub <= list[Len(list)].pub
        BY <2>2, <2>11, <4>2 DEF Sorted
      <4>4. /\ list[Len(list)].pub \in Nat /\ list[1].pub \in Nat
            /\ ~(list[Len(list)].pub > crawl.newer)
        BY <2>1, <2>7, <2>11, <4>2
      <4> QED
        BY <4>1, <4>3, <4>4
    <3> QED
      BY <2>6, <3>1, <3>2
  <2>13. ASSUME ~Unseen
         PROVE  /\ Len(InWindow) = crawl.total =>
                     \A i \in DOMAIN InWindow : i > start => Has(R, InWindow[i])
                /\ start <= PageSize => \A r \in Range(InWindow) : r.id \in stable =>
                     Has(R, r) \/ (start > 0 /\ Has(Range(crawl.probe), r))
    BY <1>1, <1>2, <2>1, <2>6, <2>7, <2>13, WindowPageReads DEF list, answer, start
  <2>14. ASSUME ~Unseen, NEW r \in Range(db), r.id \in stable, Wanted(r), r.pub > crawl.end
         PROVE  Has(R, r)
    <3>1. Has(crawl.selected, r)
      BY <1>2, <2>14 DEF Passed
    <3>2. Covers(R, crawl.selected, "pub")
      BY <2>6 DEF Covers
    <3> QED
      BY <1>2, <2>7, <2>10, <3>1, <3>2, HasMore
  <2>15. CASE Cardinality(R) >= Count
    <3>1. Step(Gave(more, Newest(R)))
      BY <2>1, <2>15
    <3>2. ASSUME ~Unseen, NEW r \in Range(db), r.id \in stable, Wanted(r)
          PROVE  Has(R, r) \/ \A s \in R : s.pub >= r.pub
      <4>1. r.pub \in Nat /\ \A s \in R : s.pub \in Nat
        BY <2>7, <2>10 DEF Rec
      <4>2. CASE r.pub > crawl.end
        BY <2>14, <3>2, <4>2
      <4>3. CASE r.pub < Start(crawl)
        <5>1. \A s \in R : s.pub >= r.pub
          BY <2>9, <2>11, <2>12, <4>1, <4>3
        <5> QED
          BY <5>1
      <4>4. CASE ~(r.pub > crawl.end) /\ ~(r.pub < Start(crawl))
        <5>1. r \in Range(InWindow)
          BY <2>9, <4>1, <4>4
        <5>2. CASE start = 0
          <6>1. start <= PageSize /\ ~(start > 0)
            BY <5>2, NvdCrawlAssumption
          <6> QED
            BY <2>13, <3>2, <5>1, <6>1
        <5>3. CASE start # 0
          <6>1. PICK i \in DOMAIN InWindow : r = InWindow[i]
            BY <5>1 DEF Range
          <6>2. CASE i > start
            BY <2>2, <2>13, <3>2, <5>3, <6>1, <6>2
          <6>3. CASE ~(i > start)
            <7>1. r.pub <= list[1].pub
              BY <2>2, <2>4, <2>9, <5>3, <6>1, <6>3
            <7>2. \A s \in R : s.pub >= r.pub
              BY <2>7, <2>11, <2>12, <4>1, <7>1
            <7> QED
              BY <7>2
          <6> QED
            BY <6>2, <6>3
        <5> QED
          BY <5>2, <5>3
      <4> QED
        BY <4>2, <4>3, <4>4
    <3>3. Gives(more, R)
      BY <1>1, <2>6, <2>7, <2>8, <2>15, <3>2 DEF Gives
    <3> QED
      BY <1>1, <1>2, <3>1, <3>3, GiveNewest
  <2>16. CASE ~(Cardinality(R) >= Count)
    <3>1. Step([more EXCEPT !.newer = list[1].pub])
      BY <2>1, <2>11, <2>16
    <3>2. /\ crawl' \in CrawlState /\ crawl'.mode = "latest" /\ crawl'.explicit = crawl.explicit
          /\ crawl'.at = "page" /\ crawl'.selected = R /\ crawl'.end = crawl.end
          /\ crawl'.total = crawl.total /\ crawl'.upper = start /\ crawl'.probe = crawl.probe
          /\ crawl'.newer = list[1].pub /\ Quiet
      BY <2>7, <2>8, <2>11, <3>1 DEF Step, CrawlState, Quiet
    <3>3. CrawlTyped' /\ NoStableSkipped' /\ Asking'
      BY <1>2, <2>6, <3>2, TypedQuiet DEF NoStableSkipped, Asking
    <3>4. /\ Unseen' <=> Unseen
          /\ Happened("add")' = Happened("add") /\ Happened("withdraw")' = Happened("withdraw")
          /\ \A r : Wanted(r)' <=> Wanted(r)
      BY <1>1, <3>2, QuietFrame
    <3>5. Start(crawl)' = Start(crawl) /\ InWindow' = InWindow
      BY <3>2, WindowSame
    <3>6. Cardinality(R) < Count
      BY <2>7, <2>16, NvdCrawlAssumption
    <3>7. Passed'
      BY <1>2, <2>6, <2>14, <3>2, <3>4, <3>6 DEF Passed, Quiet
    <3>8. /\ Counted(InWindow) /\ crawl.upper <= crawl.total
          /\ Len(crawl.probe) = IF PageSize < crawl.total THEN PageSize ELSE crawl.total
          /\ Sorted(crawl.probe)
          /\ \A r \in Range(crawl.probe) : r.pub \in Start(crawl) .. crawl.end
          /\ ~Unseen /\ Len(InWindow) = crawl.total => \A i \in DOMAIN crawl.probe :
               crawl.probe[i].id = InWindow[i].id /\ crawl.probe[i].pub = InWindow[i].pub
      BY <1>2 DEF Reading
    <3>9. Counted(InWindow)'
      BY <3>2, <3>4, <3>5, <3>8 DEF Counted
    <3>10. start <= crawl.total
      BY <1>2, <2>4, <3>8 DEF CrawlState
    <3>11. Reading'
      BY <2>4, <2>11, <2>12, <2>13, <3>2, <3>4, <3>5, <3>8, <3>9, <3>10 DEF Reading, Quiet
    <3> QED
      BY <3>2, <3>3, <3>7, <3>11 DEF CrawlInv, LatestInv
  <2> QED
    BY <2>15, <2>16
<1> QED
  BY <1>4, <1>5

(* The end of a pass, which every record that stayed was read in.           *)
LEMMA WindowForwardKeeps == CrawlInv /\ WindowForward => CrawlInv'
<1> SUFFICES ASSUME CrawlInv, WindowForward PROVE CrawlInv'
  OBVIOUS
<1> DEFINE hits == Dated(db, crawl.pass, From, Now)
           n == Len(hits)
           answer == Serve(hits, crawl.upper, PageSize)
           list == answer.page
           reach == crawl.upper + Len(list)
           R == Merge(crawl.selected, list, "mod")
           more == [crawl EXCEPT !.at = "page", !.selected = R, !.upper = reach]
           Ends == list = <<>> \/ reach >= answer.total
<1>1. crawl.mode = "window" /\ Asking
  BY DEF WindowForward
<1>2. /\ CrawlTyped /\ crawl \in CrawlState /\ db \in Seq(Rec) /\ IsFiniteSet(crawl.selected)
      /\ crawl.selected \in SUBSET Rec /\ WindowInv
      /\ crawl.pass \in {"pub", "mod"} /\ crawl.upper \in Nat
  BY <1>1 DEF CrawlInv, CrawlTyped, CrawlState
<1>3. PageSize \in Nat /\ PageSize > 0 /\ "mod" \in {"pub", "mod"}
  BY NvdCrawlAssumption
<1>4. /\ Unique(crawl.selected)
      /\ ~Unseen =>
          /\ \A i \in DOMAIN hits :
               i <= crawl.upper /\ hits[i].id \in stable => hits[i].id \in Ids(crawl.selected)
          /\ crawl.pass = "mod" => \A r \in Range(db) :
               r.id \in stable /\ r.pub \in From .. Now => r.id \in Ids(crawl.selected)
  BY <1>2 DEF WindowInv
<1>5. /\ hits \in Seq(Rec)
      /\ \A r : r \in Range(hits) <=> r \in Range(db) /\ r[crawl.pass] \in From .. Now
  BY <1>2, DatedElements
<1>6. Step(IF Ends THEN AfterPass(more) ELSE more)
  BY DEF WindowForward
<1> HIDE DEF hits
<1>7. DOMAIN hits = 1 .. n /\ n \in Nat
  BY <1>5
<1>8. /\ answer.total = n /\ list \in Seq(Rec)
      /\ Len(list) = LET stop == IF crawl.upper + PageSize <= n THEN crawl.upper + PageSize ELSE n
                     IN  IF crawl.upper < stop THEN stop - crawl.upper ELSE 0
      /\ LET stop == IF crawl.upper + PageSize <= n THEN crawl.upper + PageSize ELSE n
         IN \A i \in DOMAIN hits : crawl.upper < i /\ i <= stop => hits[i] \in Range(list)
  BY <1>2, <1>3, <1>5, Served
<1> HIDE DEF answer, n
<1>9. reach \in Nat /\ crawl.upper <= reach /\ (Ends => n <= reach)
  <2>1. Len(list) \in Nat /\ (list = <<>> => Len(list) = 0)
    BY <1>8, PageRecords
  <2> QED
    BY <1>2, <1>3, <1>7, <1>8, <2>1
<1>10. \A i \in DOMAIN hits : crawl.upper < i /\ i <= reach => hits[i] \in Range(list)
  BY <1>2, <1>3, <1>7, <1>8
<1>11. /\ R \subseteq crawl.selected \cup Range(list) /\ IsFiniteSet(R) /\ Unique(R)
       /\ Covers(R, crawl.selected \cup Range(list), "mod")
  BY <1>2, <1>3, <1>4, <1>8, MergeKeeps
<1>12. R \subseteq Rec /\ Records(R)
  BY <1>2, <1>8, <1>11, PageRecords DEF Records
<1> HIDE DEF reach, R
<1>13. Ids(crawl.selected) \subseteq Ids(R) /\ Ids(Range(list)) \subseteq Ids(R)
  BY <1>11 DEF Covers, Ids
<1> HIDE DEF list
<1>14. ASSUME ~Unseen, NEW i \in DOMAIN hits, i <= reach, hits[i].id \in stable
       PROVE  hits[i].id \in Ids(R)
  <2>1. CASE i <= crawl.upper
    BY <1>4, <1>13, <1>14, <2>1
  <2>2. CASE ~(i <= crawl.upper)
    <3>1. hits[i] \in Range(list)
      BY <1>2, <1>7, <1>10, <1>14, <2>2
    <3> QED
      BY <1>13, <3>1 DEF Ids
  <2> QED
    BY <2>1, <2>2
<1>15. ASSUME ~Unseen, Ends, NEW r \in Range(db), r.id \in stable, r[crawl.pass] \in From .. Now
       PROVE  r.id \in Ids(R)
  <2>1. PICK i \in DOMAIN hits : r = hits[i]
    BY <1>5, <1>15 DEF Range
  <2>2. i <= reach
    BY <1>7, <1>9, <1>15
  <2> QED
    BY <1>14, <1>15, <2>1, <2>2
<1>16. /\ more \in CrawlState /\ more.mode = "window" /\ more.explicit = crawl.explicit /\ more.at = "page"
       /\ more.selected = R /\ more.upper = reach /\ more.pass = crawl.pass
  BY <1>1, <1>2, <1>9, <1>12 DEF CrawlState
<1> HIDE DEF more
<1>17. ASSUME ~Unseen, crawl.pass = "mod", NEW r \in Range(db), r.id \in stable, r.pub \in From .. Now
       PROVE  r.id \in Ids(R)
  BY <1>4, <1>13, <1>17
<1>18. CASE ~Ends
  <2>1. Step(more)
    BY <1>6, <1>18
  <2>2. /\ crawl' \in CrawlState /\ crawl'.mode = "window" /\ crawl'.explicit = crawl.explicit
        /\ crawl'.at = "page" /\ crawl'.selected = R /\ crawl'.upper = reach
        /\ crawl'.pass = crawl.pass /\ Quiet
    BY <1>16, <2>1 DEF Step, Quiet
  <2>3. CrawlTyped' /\ NoStableSkipped' /\ Asking'
    BY <1>2, <1>11, <2>2, TypedQuiet DEF NoStableSkipped, Asking
  <2>4. Unseen' <=> Unseen
    BY <1>1, <2>2, QuietFrame
  <2>5. Dated(db', crawl'.pass, From, Now) = hits /\ db' = db /\ stable' = stable
    BY <2>2 DEF hits, Quiet
  <2>6. WindowInv'
    BY <1>11, <1>14, <1>17, <2>2, <2>4, <2>5 DEF WindowInv
  <2> QED
    BY <2>2, <2>3, <2>6 DEF CrawlInv
<1>19. CASE Ends /\ crawl.pass = "pub"
  <2>1. Step([more EXCEPT !.pass = "mod", !.upper = 0])
    BY <1>6, <1>16, <1>19 DEF AfterPass
  <2>2. /\ crawl' \in CrawlState /\ crawl'.mode = "window" /\ crawl'.explicit = crawl.explicit
        /\ crawl'.at = "page" /\ crawl'.selected = R /\ crawl'.upper = 0
        /\ crawl'.pass = "mod" /\ Quiet
    BY <1>16, <2>1 DEF Step, CrawlState, Quiet
  <2>3. CrawlTyped' /\ NoStableSkipped' /\ Asking'
    BY <1>2, <1>11, <2>2, TypedQuiet DEF NoStableSkipped, Asking
  <2>4. Unseen' <=> Unseen
    BY <1>1, <2>2, QuietFrame
  <2>5. db' = db /\ stable' = stable
    BY <2>2 DEF Quiet
  <2>6. \A i \in DOMAIN Dated(db, "mod", From, Now) : ~(i <= 0)
    <3>1. Dated(db, "mod", From, Now) \in Seq(Rec)
      BY <1>2, DatedType
    <3> QED
      BY <3>1
  <2>7. WindowInv'
    BY <1>11, <1>15, <1>19, <2>2, <2>4, <2>5, <2>6 DEF WindowInv
  <2> QED
    BY <2>2, <2>3, <2>7 DEF CrawlInv
<1>20. CASE Ends /\ crawl.pass = "mod"
  <2>1. Step(Gave(more, R))
    BY <1>6, <1>16, <1>20 DEF AfterPass
  <2>2. /\ crawl' \in CrawlState /\ crawl'.mode = "window" /\ crawl'.explicit = crawl.explicit
        /\ crawl'.at = "done" /\ crawl'.selected = R /\ Quiet
    BY <1>12, <1>16, <2>1 DEF Step, Gave, CrawlState, Quiet
  <2>3. (Unseen' <=> Unseen) /\ \A r : Wanted(r)' <=> Wanted(r)
    BY <1>1, <2>2, QuietFrame
  <2>4. ASSUME ~Unseen, NEW r \in Range(db), r.id \in stable, Wanted(r) PROVE r.id \in Ids(R)
    <3>1. r.pub \in From .. Now \/ r.mod \in From .. Now
      BY <1>1, <2>4 DEF Wanted
    <3> QED
      BY <1>15, <1>17, <1>20, <2>4, <3>1
  <2>5. Cardinality(Ids(R)) = Cardinality(R)
    BY <1>11, <1>12, UniqueCount
  <2>6. NoStableSkipped'
    BY <2>2, <2>3, <2>4, <2>5 DEF NoStableSkipped, Quiet
  <2> QED
    BY <1>2, <1>11, <2>2, <2>6, GiveStep
<1> QED
  BY <1>2, <1>18, <1>19, <1>20

LEMMA CrawlRests == CrawlInv /\ UNCHANGED crawlVars => CrawlInv'
<1> SUFFICES ASSUME CrawlInv, UNCHANGED crawlVars PROVE CrawlInv'
  OBVIOUS
<1>1. crawl' = crawl /\ db' = db /\ stable' = stable /\ edits' = edits
  BY DEF crawlVars
<1>2. /\ Unseen' = Unseen /\ Asking' = Asking
      /\ Happened("add")' = Happened("add") /\ Happened("withdraw")' = Happened("withdraw")
      /\ \A r : Wanted(r)' = Wanted(r)
  BY <1>1 DEF Unseen, Asking, Happened, Wanted
<1>3. CrawlTyped'
  BY <1>1 DEF CrawlInv, CrawlTyped
<1>4. NoStableSkipped'
  BY <1>1, <1>2 DEF CrawlInv, NoStableSkipped
<1>5. ReadFromEnd' = ReadFromEnd
  BY <1>1 DEF ReadFromEnd
<1>6. SimpleInv => SimpleInv'
  BY <1>1, <1>2, <1>5 DEF SimpleInv, Counted
<1>7. TailInv => TailInv'
  BY <1>1, <1>2, <1>5 DEF TailInv, Counted
<1>8. Passed => Passed'
  BY <1>1, <1>2 DEF Passed
<1>9. Start(crawl)' = Start(crawl) /\ InWindow' = InWindow
  BY <1>1 DEF InWindow, Start
<1>10. Reading => Reading'
  BY <1>1, <1>2, <1>9 DEF Reading, Counted
<1>11. WindowInv => WindowInv'
  BY <1>1, <1>2 DEF WindowInv
<1> QED
  BY <1>1, <1>2, <1>3, <1>4, <1>6, <1>7, <1>8, <1>10, <1>11 DEF CrawlInv, LatestInv

LEMMA CrawlKeeps == CrawlInv /\ [CollectionNext]_collectionVars => CrawlInv'
<1> SUFFICES ASSUME CrawlInv, [CollectionNext]_collectionVars PROVE CrawlInv'
  OBVIOUS
<1>1. CASE StartCrawl
  <2>1. PICK mode \in {"simple", "tail", "latest", "window"} : CrawlBegin(mode)
    BY <1>1 DEF StartCrawl
  <2> QED
    BY <2>1, BeginKeeps
<1>2. CASE Crawl
  BY <1>2, FailStep, ProbeKeeps, SimplePageKeeps, TailPageKeeps, WindowProbeKeeps,
     WindowExhaustedKeeps, WindowPageKeeps, WindowForwardKeeps
     DEF Crawl, CrawlStep, RequestFails, CrawlInv
<1>3. CASE NvdChanges
  BY <1>3, EnvironmentKeeps DEF NvdChanges
<1>4. CASE UNCHANGED crawlVars
  BY <1>4, CrawlRests
<1>5. CASE CloneFails \/ Clone \/ ResolveFails \/ Resolve \/ Profile \/ ProfileFails \/ HandOn
  BY <1>4, <1>5 DEF CloneFails, Clone, ResolveFails, Resolve, Profile, ProfileFails, HandOn
<1>6. CASE StartDiscovery \/ Discover \/ Return \/ CancelContext \/ Done
  BY <1>4, <1>6 DEF StartDiscovery, Discover, Return, CancelContext, Done, collectionVars
<1>7. CASE UNCHANGED collectionVars
  BY <1>4, <1>7 DEF collectionVars
<1> QED
  BY <1>1, <1>2, <1>3, <1>5, <1>6, <1>7 DEF CollectionNext, Program

(* A crawl that reports success has every record that was in NVD all the   *)
(* while and that it was asked for, or none newer than the last of exactly *)
(* Count records, however NVD changes between its requests and wherever a  *)
(* request fails: whatever the page size, the window, the budget and the   *)
(* records (nvd Client.Fetch, AnalysisClient.Fetch, FetchLatest,           *)
(* workflow.fetchWindow).                                                  *)
THEOREM CrawlSkipsNothingStable == CollectionSpec => []NoStableSkipped
<1>1. CollectionInit => CrawlInv
  <2> SUFFICES ASSUME CollectionInit PROVE CrawlInv
    OBVIOUS
  <2>1. db = <<>> /\ crawl = NoCrawl /\ stable = {} /\ edits = <<>>
    BY DEF CollectionInit, CrawlIdle
  <2>2. Fresh("none", FALSE) \in CrawlState
    BY FreshType
  <2>3. crawl \in CrawlState /\ crawl.at = "idle" /\ crawl.selected = {}
    BY <2>1, <2>2 DEF NoCrawl, Fresh, CrawlState
  <2>4. db \in Seq(Rec) /\ Sorted(db) /\ edits \in Seq({"add", "withdraw", "modify", "leave"})
    BY <2>1 DEF Sorted
  <2> QED
    BY <2>1, <2>3, <2>4, FS_EmptySet DEF CrawlInv, CrawlTyped, NoStableSkipped, Asking
<1>2. CrawlInv => NoStableSkipped
  BY DEF CrawlInv
<1> QED
  BY <1>1, <1>2, CrawlKeeps, PTL DEF CollectionSpec

-----------------------------------------------------------------------------
(* The files that a profiler reads, whatever it then makes of them.        *)
Meets(p, l) == Reached(WalkOf(p), l) /\ l.kind = "file" /\ Name(l) \in WalkOf(p).files
Parses(p, l, t) == Meets(p, l) /\ ~SetAside(p, l, t) /\ ~LeftTo(p, l)
Warns(p, l, t) ==
  \/ Meets(p, l) /\ SetAside(p, l, t)
  \/ Reached(WalkOf(p), l) /\ l.kind = "symlink" /\ WalkOf(p).links
  \/ p = "manifest" /\ Reached(Manifest, l) /\ l.kind = "file" /\ CargoConfig(l)
Lists(p, l, t) ==
  p \notin {"coverage", "source"} /\ Meets(p, l) /\ ~(p = "structured" /\ SetAside(p, l, t))

(* As no two leaves share a path, a profiler's findings are about leaves.  *)
LEMMA FragmentMeans ==
  ASSUME NEW t \in Trees, NEW l \in t, NEW p
  PROVE  /\ l.path \in Fragment(p, t).parsed <=> Parses(p, l, t)
         /\ l.path \in Fragment(p, t).warned <=> Warns(p, l, t)
         /\ l.path \in Fragment(p, t).listed <=> Lists(p, l, t)
<1> DEFINE read == Read(WalkOf(p), t)
           aside == {k \in read : SetAside(p, k, t)}
           parsed == {k \in read \ aside : ~LeftTo(p, k)}
           links == Links(WalkOf(p), t)
           configs == Configs(p, t)
           Paths(S) == {k.path : k \in S}
           listed == read \ {k \in aside : p = "structured"}
<1>1. \A S \in SUBSET t : l.path \in Paths(S) <=> l \in S
  BY CollectionAssumption
<1>2. /\ read \subseteq t /\ links \subseteq t /\ configs \subseteq t /\ (l \in read <=> Meets(p, l))
      /\ (l \in links <=> Reached(WalkOf(p), l) /\ l.kind = "symlink" /\ WalkOf(p).links)
      /\ (l \in configs <=>
            p = "manifest" /\ Reached(Manifest, l) /\ l.kind = "file" /\ CargoConfig(l))
  BY DEF Read, Links, Configs, Meets
<1>3. parsed \in SUBSET t /\ (aside \cup links \cup configs) \in SUBSET t /\ listed \in SUBSET t
  BY <1>2
<1>4. /\ l \in parsed <=> Parses(p, l, t)
      /\ l \in aside \cup links \cup configs <=> Warns(p, l, t)
      /\ p \notin {"coverage", "source"} /\ l \in listed <=> Lists(p, l, t)
  BY <1>2 DEF Parses, Warns, Lists
<1>5. /\ Fragment(p, t).parsed = Paths(parsed)
      /\ Fragment(p, t).warned = Paths(aside \cup links \cup configs)
      /\ Fragment(p, t).listed = IF p \in {"coverage", "source"} THEN {} ELSE Paths(listed)
  BY DEF Fragment
<1> HIDE DEF parsed, aside, links, configs, Paths, listed
<1>6. l.path \in Fragment(p, t).parsed <=> Parses(p, l, t)
  BY <1>1, <1>3, <1>4, <1>5
<1>7. l.path \in Fragment(p, t).warned <=> Warns(p, l, t)
  BY <1>1, <1>3, <1>4, <1>5
<1>8. l.path \in Fragment(p, t).listed <=> Lists(p, l, t)
  BY <1>1, <1>3, <1>4, <1>5 DEF Lists
<1> QED
  BY <1>6, <1>7, <1>8

(* The nine profilers, and the one that each name belongs to.              *)
Names == {"npm", "static", "lock", "structured", "extra", "manifest", "native", "coverage", "source"}
Owner(n) ==
  CASE n \in Npm.files -> "npm"
    [] n \in {"go.mod", "requirements.txt"} -> "static"
    [] n \in Lock.files -> "lock"
    [] n \in Structured.files -> "structured"
    [] n \in Extra.files -> "extra"
    [] n \in Manifest.files -> "manifest"
    [] n \in Native.files -> "native"
    [] n \in Unsupported -> "coverage"
    [] n \in GoNames -> "source"

LEMMA ProfilersAre ==
  /\ Len(Profilers) = 9 /\ \A i \in 1 .. 9 : Profilers[i] \in Names
  /\ \A p \in Names : \E i \in 1 .. 9 : Profilers[i] = p
  /\ \A i, j \in 1 .. 9 : Profilers[i] = Profilers[j] => i = j
<1>1. Len(Profilers) = 9
  BY DEF Profilers
<1>2. /\ Profilers[1] = "npm" /\ Profilers[2] = "static" /\ Profilers[3] = "lock"
      /\ Profilers[4] = "structured" /\ Profilers[5] = "extra" /\ Profilers[6] = "manifest"
      /\ Profilers[7] = "native" /\ Profilers[8] = "coverage" /\ Profilers[9] = "source"
  BY DEF Profilers
<1>3. \A i \in 1 .. 9 : i \in {1, 2, 3, 4, 5, 6, 7, 8, 9}
  OBVIOUS
<1>4. \A i, j \in 1 .. 9 : Profilers[i] = Profilers[j] => i = j
  BY <1>2, <1>3
<1>5. \A p \in Names : \E i \in 1 .. 9 : Profilers[i] = p
  BY <1>2 DEF Names
<1>6. \A i \in 1 .. 9 : Profilers[i] \in Names
  BY <1>2, <1>3 DEF Names
<1> QED
  BY <1>1, <1>4, <1>5, <1>6

LEMMA Walks ==
  /\ WalkOf("npm") = Npm /\ WalkOf("static") = Static /\ WalkOf("lock") = Lock
  /\ WalkOf("structured") = Structured /\ WalkOf("extra") = Extra /\ WalkOf("manifest") = Manifest
  /\ WalkOf("native") = Native /\ WalkOf("coverage") = Coverage /\ WalkOf("source") = Source
BY DEF WalkOf

LEMMA Tables ==
  /\ Npm.files = {"package.json", "package-lock.json"}
  /\ Static.files = {"go.mod", "requirements.txt", "poetry.lock", "uv.lock"}
  /\ Lock.files = {"Pipfile.lock", "composer.lock", "packages.lock.json", "Package.resolved",
                   "package.resolved", "gradle.lockfile", "Gemfile.lock", "pom.xml"}
  /\ Structured.files = {"pnpm-lock.yaml", "yarn.lock", "Cargo.lock", "poetry.lock", "uv.lock"}
  /\ Extra.files = {"pubspec.lock", "deno.lock", "packages.config", "project.assets.json", "renv.lock"}
  /\ Manifest.files = {"pyproject.toml", "pdm.lock", "Cargo.toml"}
  /\ Native.files = {"conan.lock", "vcpkg.json", "Podfile.lock", "Manifest.toml"}
  /\ Coverage.files = Unsupported /\ Source.files = GoNames
BY DEF Walk, Npm, Static, Lock, Structured, Extra, Manifest, Native, Coverage, Source

(* The tables overlap in the two Python locks only, which the static walk  *)
(* leaves to the structured one.                                           *)
LEMMA OneOwner ==
  ASSUME NEW p \in Names, NEW n \in WalkOf(p).files, ~(p = "static" /\ n \in {"poetry.lock", "uv.lock"})
  PROVE  p = Owner(n)
<1>1. n \in WalkOf(p).files /\ ~(p = "static" /\ n \in {"poetry.lock", "uv.lock"})
  OBVIOUS
<1>2. CASE p = "npm"
  BY <1>1, <1>2, Walks, Tables DEF Owner, Unsupported, GoNames
<1>3. CASE p = "static"
  <2>1. n \in {"go.mod", "requirements.txt"}
    BY <1>1, <1>3, Walks, Tables
  <2> QED
    BY <1>3, <2>1, Tables DEF Owner, Unsupported, GoNames
<1>4. CASE p = "lock"
  BY <1>1, <1>4, Walks, Tables DEF Owner, Unsupported, GoNames
<1>5. CASE p = "structured"
  BY <1>1, <1>5, Walks, Tables DEF Owner, Unsupported, GoNames
<1>6. CASE p = "extra"
  BY <1>1, <1>6, Walks, Tables DEF Owner, Unsupported, GoNames
<1>7. CASE p = "manifest"
  BY <1>1, <1>7, Walks, Tables DEF Owner, Unsupported, GoNames
<1>8. CASE p = "native"
  BY <1>1, <1>8, Walks, Tables DEF Owner, Unsupported, GoNames
<1>9. CASE p = "coverage"
  BY <1>1, <1>9, Walks, Tables DEF Owner, Unsupported, GoNames
<1>10. CASE p = "source"
  BY <1>1, <1>10, Walks, Tables DEF Owner, Unsupported, GoNames
<1> QED
  BY <1>2, <1>3, <1>4, <1>5, <1>6, <1>7, <1>8, <1>9, <1>10 DEF Names

(* Every known name has a profiler that does not leave it to another.      *)
LEMMA KnownHasReader ==
  ASSUME NEW l, Name(l) \in KnownNames
  PROVE  \E p \in Names : Name(l) \in WalkOf(p).files /\ ~LeftTo(p, l)
<1> DEFINE n == Name(l)
<1>1. \/ n \in Npm.files \/ n \in {"go.mod", "requirements.txt"} \/ n \in Lock.files
      \/ n \in Structured.files \/ n \in Extra.files \/ n \in Manifest.files \/ n \in Native.files
  BY Tables DEF KnownNames
<1> HIDE DEF n
<1>2. CASE n \in {"go.mod", "requirements.txt"}
  <2>1. n \in WalkOf("static").files /\ n \notin {"poetry.lock", "uv.lock"}
    BY <1>2, Walks, Tables
  <2> QED
    BY <2>1 DEF n, LeftTo, Names
<1>3. CASE n \notin {"go.mod", "requirements.txt"}
  <2>1. \E p \in Names \ {"static"} : n \in WalkOf(p).files
    BY <1>1, <1>3, Walks DEF Names
  <2> QED
    BY <2>1 DEF n, LeftTo
<1> QED
  BY <1>2, <1>3

(* A walk reaches what has none of its skipped directories above it.       *)
LEMMA NothingSkipped ==
  ASSUME NEW t \in Trees, NEW l \in t, NEW walk, walk.skips \cap Range(Front(l.path)) = {}
  PROVE  Reached(walk, l)
<1>1. l.path \in Seq(STRING) /\ l.path # <<>>
  BY CollectionAssumption
<1>2. Front(l.path) = [i \in 1 .. (Len(l.path) - 1) |-> l.path[i]]
  <2>1. Len(l.path) \in Nat
    BY <1>1
  <2> QED
    BY <1>1, <2>1 DEF Front
<1>3. \A i \in 1 .. (Len(l.path) - 1) : l.path[i] \in Range(Front(l.path))
  BY <1>2 DEF Range
<1>4. {i \in 1 .. (Len(l.path) - 1) : l.path[i] \in walk.skips} = {}
  BY <1>3
<1> QED
  BY <1>4 DEF Reached, Stop

LEMMA SkipsAreGenerated ==
  \A p \in Names : WalkOf(p).skips \subseteq GeneratedDirectories
<1>1. /\ Npm.skips \subseteq GeneratedDirectories /\ Static.skips \subseteq GeneratedDirectories
      /\ Lock.skips \subseteq GeneratedDirectories /\ Structured.skips \subseteq GeneratedDirectories
      /\ Extra.skips \subseteq GeneratedDirectories /\ Manifest.skips \subseteq GeneratedDirectories
      /\ Native.skips \subseteq GeneratedDirectories /\ Coverage.skips \subseteq GeneratedDirectories
      /\ Source.skips \subseteq GeneratedDirectories
  BY DEF Walk, Npm, Static, Lock, Structured, Extra, Manifest, Native, Coverage, Source,
         GeneratedDirectories
<1> QED
  BY <1>1, Walks DEF Names

LEMMA OneParser ==
  ASSUME NEW t, NEW l, NEW p \in Names, Parses(p, l, t)
  PROVE  p = Owner(Name(l))
<1>1. Name(l) \in WalkOf(p).files /\ ~(p = "static" /\ Name(l) \in {"poetry.lock", "uv.lock"})
  BY DEF Parses, Meets, LeftTo
<1> QED
  BY <1>1, OneOwner

(* No walk reads Cargo's configuration as a manifest.                      *)
LEMMA NoTableHasConfigs ==
  ASSUME NEW p \in Names
  PROVE  "config" \notin WalkOf(p).files /\ "config.toml" \notin WalkOf(p).files
BY Walks, Tables DEF Names, Unsupported, GoNames

(* What is told of is not parsed, by the same profiler or by another.      *)
LEMMA ToldOrParsed ==
  ASSUME NEW t, NEW l, NEW p \in Names, NEW q \in Names, Warns(p, l, t)
  PROVE  ~Parses(q, l, t)
<1> SUFFICES ASSUME Parses(q, l, t) PROVE FALSE
  OBVIOUS
<1>0. Name(l) \in WalkOf(q).files
  BY DEF Parses, Meets
<1>1. Meets(p, l) /\ SetAside(p, l, t)
  BY <1>0, NoTableHasConfigs DEF Warns, Parses, Meets, CargoConfig
<1>2. p # "static"
  BY <1>1 DEF SetAside
<1>3. p = Owner(Name(l))
  BY <1>1, <1>2, OneOwner DEF Meets
<1>4. p = q
  BY <1>3, OneParser
<1> QED
  BY <1>1, <1>4 DEF Parses

(* Who reads a file, and does not leave it to another, says what of it.    *)
LEMMA ReaderAccounts ==
  ASSUME NEW t, NEW l, NEW p, Meets(p, l), ~LeftTo(p, l)
  PROVE  Warns(p, l, t) \/ Parses(p, l, t)
BY DEF Warns, Parses

(* The fragments of all the profilers, by profiler.                        *)
Accounted(l, t) ==
  LET told == \E p \in Names : Warns(p, l, t)
      parsed == \E p \in Names : Parses(p, l, t)
      SkippedLock == Name(l) \in {"poetry.lock", "uv.lock"} /\ ~Reached(Structured, l)
  IN /\ l.kind = "file" /\ Name(l) \in KnownNames /\ InSources(l) => told \/ parsed
     /\ l.kind = "file" /\ CargoConfig(l) /\ InSources(l) => told
     /\ l.kind = "symlink" /\ ".git" \notin Range(Front(l.path)) => told
     /\ (\E p \in Names : Lists(p, l, t)) => told \/ parsed \/ SkippedLock
     /\ Name(l) = "Cargo.toml" /\ Overridden(t) => ~parsed

LEMMA EveryLeafAccounted ==
  ASSUME NEW t \in Trees, NEW l \in t
  PROVE  Accounted(l, t)
<1> DEFINE told == \E p \in Names : Warns(p, l, t)
           parsed == \E p \in Names : Parses(p, l, t)
           Locks == {"poetry.lock", "uv.lock"}
<1>1. ASSUME l.kind = "file", Name(l) \in KnownNames, InSources(l) PROVE told \/ parsed
  <2>1. PICK p \in Names : Name(l) \in WalkOf(p).files /\ ~LeftTo(p, l)
    BY <1>1, KnownHasReader
  <2>2. WalkOf(p).skips \cap Range(Front(l.path)) = {}
    BY <1>1, SkipsAreGenerated DEF InSources
  <2>3. Reached(WalkOf(p), l)
    BY <2>2, NothingSkipped
  <2>4. Meets(p, l)
    BY <1>1, <2>1, <2>3 DEF Meets
  <2> QED
    BY <2>1, <2>4, ReaderAccounts
<1>2. ASSUME l.kind = "symlink", ".git" \notin Range(Front(l.path)) PROVE told
  <2>1. Native.skips = {".git"} /\ Native.links /\ "native" \in Names /\ WalkOf("native") = Native
    BY Walks DEF Native, Walk, Names
  <2>2. Native.skips \cap Range(Front(l.path)) = {}
    BY <1>2, <2>1
  <2>3. Reached(Native, l)
    BY <2>2, NothingSkipped
  <2> QED
    BY <1>2, <2>1, <2>3 DEF Warns
<1>3. ASSUME NEW p \in Names, Lists(p, l, t)
      PROVE  told \/ parsed \/ (Name(l) \in Locks /\ ~Reached(Structured, l))
  <2>1. Meets(p, l)
    BY <1>3 DEF Lists
  <2>2. CASE ~LeftTo(p, l)
    BY <2>1, <2>2, ReaderAccounts
  <2>3. CASE LeftTo(p, l) /\ Reached(Structured, l)
    <3>1. Name(l) \in Locks
      BY <2>3 DEF LeftTo
    <3>2. Locks \subseteq WalkOf("structured").files
      BY Walks, Tables
    <3>3. Meets("structured", l)
      BY <2>1, <2>3, <3>1, <3>2, Walks DEF Meets
    <3>4. ~LeftTo("structured", l) /\ "structured" \in Names
      BY DEF LeftTo, Names
    <3> QED
      BY <3>3, <3>4, ReaderAccounts
  <2> QED
    BY <2>2, <2>3 DEF LeftTo
<1>4. ASSUME Name(l) = "Cargo.toml", Overridden(t), NEW p \in Names, Parses(p, l, t) PROVE FALSE
  <2>1. "Cargo.toml" \in WalkOf("manifest").files /\ "manifest" \in Names
    BY Walks, Tables DEF Names
  <2>2. "manifest" = Owner("Cargo.toml")
    BY <2>1, OneOwner
  <2>3. p = "manifest"
    BY <1>4, <2>2, OneParser
  <2> QED
    BY <1>4, <2>3 DEF Parses, SetAside
<1>5. ASSUME l.kind = "file", CargoConfig(l), InSources(l) PROVE told
  <2>1. Manifest = WalkOf("manifest") /\ "manifest" \in Names
    BY Walks DEF Names
  <2>2. Manifest.skips \cap Range(Front(l.path)) = {}
    BY <1>5, <2>1, SkipsAreGenerated DEF InSources
  <2>3. Reached(Manifest, l)
    BY <2>2, NothingSkipped
  <2> QED
    BY <1>5, <2>1, <2>3 DEF Warns
<1> QED
  BY <1>1, <1>2, <1>3, <1>4, <1>5 DEF Accounted

(* While it profiles, a program holds one fragment of each profiler that   *)
(* has run, in their order and of the one checkout.                        *)
Finding(i, t) == Fragment(Profilers[i], t)
ProfileInv ==
  /\ tree \in Trees \cup {{}}
  /\ phase \in {"clone", "resolve"} => walked = 0 /\ fragments = <<>>
  /\ phase = "profile" =>
       /\ walked \in 0 .. Len(Profilers)
       /\ fragments \in Seq({Finding(i, tree) : i \in 1 .. Len(Profilers)})
       /\ Len(fragments) = walked
       /\ \A i \in 1 .. walked : fragments[i] = Finding(i, tree)

LEMMA ProfileInvInit == CollectionInit => ProfileInv
BY DEF CollectionInit, ProfileInv

LEMMA ProfileInvStep ==
  ASSUME ProfileInv, [CollectionNext]_collectionVars
  PROVE  ProfileInv'
<1> USE DEF ProfileInv
<1>1. CASE UNCHANGED <<phase, tree, walked, fragments>>
  BY <1>1
<1>2. CASE phase' = "failed" /\ tree' = {}
  BY <1>2
<1>3. CASE Clone
  BY <1>3 DEF Clone
<1>4. CASE Resolve
  <2>1. phase = "resolve" /\ phase' = "profile" /\ UNCHANGED <<tree, walked, fragments>>
    BY <1>4 DEF Resolve
  <2>2. walked' = 0 /\ fragments' = <<>> /\ Len(Profilers) = 9
    BY <2>1, ProfilersAre
  <2> QED
    BY <2>1, <2>2
<1>5. CASE Profile
  <2>1. /\ phase = "profile" /\ phase' = "profile" /\ tree' = tree /\ walked < Len(Profilers)
        /\ walked' = walked + 1 /\ fragments' = Append(fragments, Finding(walked + 1, tree))
    BY <1>5 DEF Profile, Finding, Profiler
  <2>2. Len(Profilers) = 9
    BY ProfilersAre
  <2> DEFINE All == {Finding(i, tree) : i \in 1 .. 9}
  <2>3. walked + 1 \in 1 .. 9 /\ fragments \in Seq(All) /\ Len(fragments) = walked
        /\ \A i \in 1 .. walked : fragments[i] = Finding(i, tree)
    BY <2>1, <2>2
  <2>4. Finding(walked + 1, tree) \in All
    BY <2>3
  <2> HIDE DEF All
  <2>5. /\ fragments' \in Seq(All) /\ Len(fragments') = walked + 1
        /\ \A i \in 1 .. walked : fragments'[i] = fragments[i]
        /\ fragments'[walked + 1] = Finding(walked + 1, tree)
    BY <2>1, <2>3, <2>4
  <2>6. \A i \in 1 .. (walked + 1) : fragments'[i] = Finding(i, tree)
    BY <2>3, <2>5
  <2> QED
    BY <2>1, <2>2, <2>3, <2>5, <2>6 DEF All
<1>6. CASE HandOn
  BY <1>6 DEF HandOn
<1>7. CASE Return
  BY <1>7 DEF Return
<1> QED
  BY <1>1, <1>2, <1>3, <1>4, <1>5, <1>6, <1>7
     DEF CollectionNext, Program, collectionVars, local, CloneFails, ResolveFails, ProfileFails, Unclone,
         StartDiscovery, StartCrawl, Discover, Crawl, NvdChanges, CancelContext, Done

LEMMA ProfileInvariant == CollectionSpec => []ProfileInv
BY ProfileInvInit, ProfileInvStep, PTL DEF CollectionSpec

LEMMA ProfiledAccounts ==
  ASSUME ProfileInv
  PROVE  EveryManifestAccounted
<1> SUFFICES ASSUME Profiled, NEW l \in tree
             PROVE  LET told == l.path \in Found("warned")
                        SkippedLock == Name(l) \in {"poetry.lock", "uv.lock"} /\ ~Reached(Structured, l)
                    IN /\ Cardinality(Parsers(l)) = (IF l.path \in Found("parsed") THEN 1 ELSE 0)
                       /\ ~(told /\ Parsers(l) # {})
                       /\ l.kind = "file" /\ InSources(l) /\ (Name(l) \in KnownNames \/ CargoConfig(l))
                            => told \/ Parsers(l) # {}
                       /\ l.kind = "symlink" /\ ".git" \notin Range(Front(l.path)) => told
                       /\ l.path \in Found("listed") => told \/ Parsers(l) # {} \/ SkippedLock
                       /\ Name(l) = "Cargo.toml" /\ Overridden(tree) => Parsers(l) = {}
  BY DEF EveryManifestAccounted
<1>1. tree \in Trees /\ l \in tree
  BY DEF ProfileInv
<1>2. DOMAIN fragments = 1 .. 9 /\ \A i \in 1 .. 9 : fragments[i] = Fragment(Profilers[i], tree)
  BY ProfilersAre DEF ProfileInv, Profiled, Finding
<1>3. \A i \in 1 .. 9 : Profilers[i] \in Names
  BY ProfilersAre
<1>4. \A i \in 1 .. 9 : /\ l.path \in fragments[i].parsed <=> Parses(Profilers[i], l, tree)
                        /\ l.path \in fragments[i].warned <=> Warns(Profilers[i], l, tree)
                        /\ l.path \in fragments[i].listed <=> Lists(Profilers[i], l, tree)
  BY <1>1, <1>2, FragmentMeans
<1>5. Parsers(l) = {i \in 1 .. 9 : Parses(Profilers[i], l, tree)}
  BY <1>2, <1>4 DEF Parsers
<1>6. l.path \in Found("parsed") <=> Parsers(l) # {}
  BY <1>2 DEF Found, Parsers
<1>7. /\ Parsers(l) # {} <=> \E p \in Names : Parses(p, l, tree)
      /\ l.path \in Found("warned") <=> \E p \in Names : Warns(p, l, tree)
      /\ l.path \in Found("listed") <=> \E p \in Names : Lists(p, l, tree)
  <2>1. \A p \in Names : \E i \in 1 .. 9 : Profilers[i] = p
    BY ProfilersAre
  <2>2. Parsers(l) # {} <=> \E p \in Names : Parses(p, l, tree)
    BY <1>3, <1>5, <2>1
  <2>3. l.path \in Found("warned") <=> \E i \in 1 .. 9 : l.path \in fragments[i].warned
    BY <1>2 DEF Found
  <2>4. l.path \in Found("listed") <=> \E i \in 1 .. 9 : l.path \in fragments[i].listed
    BY <1>2 DEF Found
  <2> QED
    BY <1>3, <1>4, <2>1, <2>2, <2>3, <2>4
<1>8. Cardinality(Parsers(l)) = (IF l.path \in Found("parsed") THEN 1 ELSE 0)
  <2>1. CASE Parsers(l) = {}
    BY <1>6, <2>1, FS_EmptySet
  <2>2. CASE Parsers(l) # {}
    <3>1. PICK i : i \in Parsers(l)
      BY <2>2
    <3>2. ASSUME NEW j \in Parsers(l) PROVE j = i
      BY <1>3, <1>5, <3>1, OneParser, ProfilersAre
    <3>3. Parsers(l) = {i}
      BY <3>1, <3>2
    <3> QED
      BY <1>6, <2>2, <3>3, FS_Singleton
  <2> QED
    BY <2>1, <2>2
<1>9. ~(l.path \in Found("warned") /\ Parsers(l) # {})
  BY <1>7, ToldOrParsed
<1>10. Accounted(l, tree)
  BY <1>1, EveryLeafAccounted
<1> QED
  BY <1>7, <1>8, <1>9, <1>10 DEF Accounted

(* A profile accounts for the whole checkout: no file of it is parsed by   *)
(* two of the nine walks, or parsed and also warned of, and none that a    *)
(* walk should have read or lists is passed over by all of them            *)
(* (repository.ProfileWithTraversal).                                      *)
THEOREM EveryManifestIsAccounted == CollectionSpec => []EveryManifestAccounted
BY ProfileInvariant, ProfiledAccounts, PTL
=============================================================================

------------------------------ MODULE OsvCache ------------------------------
(***************************************************************************)
(* src/src/osv/client.go: Client.Enrich and its per-run cache.  A query    *)
(* that is not in the cache is sent by the caller that found it missing,   *)
(* its owner; everybody else who wants it waits for the owner.  The cache  *)
(* is bounded in entries and in bytes and evicts nothing; failures stay in *)
(* it, and only an owner's cancellation or timeout takes an entry out.     *)
(*                                                                         *)
(* Abstracted: a response body is one of Body, of which only the bytes and *)
(* the number of results matter; every failure but a cancellation is       *)
(* "failed"; the components of a profile are the set of their queries, in  *)
(* any order.  A check of the context that is followed by a read of the    *)
(* cache is one step: the read does not depend on the context.             *)
(***************************************************************************)
EXTENDS Naturals, FiniteSets, FiniteSetsExt

CONSTANTS
  Query,       \* ecosystem, name and version
  Caller,      \* goroutines that call Enrich
  Body,        \* the responses the service may give
  Bytes, Results,  \* of each body
  MaxEntries, MaxBytes, MaxResults, MaxQueries

ASSUME OsvCacheAssumption ==
  /\ IsFiniteSet(Query) /\ "none" \notin Query
  /\ MaxEntries \in Nat /\ MaxBytes \in Nat /\ MaxResults \in Nat /\ MaxQueries \in Nat
  /\ Bytes \in [Body -> Nat] /\ Results \in [Body -> Nat]
  /\ {"absent", "inflight", "failed", "canceled", "none"} \cap Body = {}

VARIABLES
  cache,       \* Client.cache: absent, in flight, or what its ready entry holds
  cacheBytes,  \* Client.cacheBytes
  pc,          \* where each caller is
  live,        \* whether its context is
  todo,        \* the queries its Enrich has still to make
  asked,       \* the query it owns or waits for
  got,         \* what the owner published to it, while it waits
  used,        \* the bodies its Enrich has so far
  evidence     \* history: the bodies successful calls of Enrich used, by query

vars == <<cache, cacheBytes, pc, live, todo, asked, got, used, evidence>>

Outcome == Body \cup {"failed", "canceled"}

TypeOK ==
  /\ cache \in [Query -> Body \cup {"absent", "inflight", "failed"}]
  /\ cacheBytes \in Nat
  /\ pc \in [Caller -> {"idle", "next", "waiting", "fetching"}]
  /\ live \in [Caller -> BOOLEAN]
  /\ todo \in [Caller -> SUBSET Query]
  /\ asked \in [Caller -> Query \cup {"none"}]
  /\ got \in [Caller -> Outcome \cup {"none"}]
  /\ used \in [Caller -> [Query -> Body \cup {"none"}]]
  /\ evidence \in [Query -> SUBSET Body]

Nothing == [q \in Query |-> "none"]

Init ==
  /\ cache = [q \in Query |-> "absent"]
  /\ cacheBytes = 0
  /\ pc = [c \in Caller |-> "idle"]
  /\ live = [c \in Caller |-> FALSE]
  /\ todo = [c \in Caller |-> {}]
  /\ asked = [c \in Caller |-> "none"]
  /\ got = [c \in Caller |-> "none"]
  /\ used = [c \in Caller |-> Nothing]
  /\ evidence = [q \in Query |-> {}]

Entries == {q \in Query : cache[q] # "absent"}
Ready   == {q \in Query : cache[q] \in Body}

Used(f) == {q \in Query : f[q] # "none"}

-----------------------------------------------------------------------------
(* Enrich.                                                                 *)

(* A call with more queries than MaxQueries, or whose context is done, is  *)
(* refused before it asks anything.                                        *)
Enrich(c, queries) ==
  /\ pc[c] = "idle"
  /\ Cardinality(queries) <= MaxQueries
  /\ pc' = [pc EXCEPT ![c] = "next"]
  /\ live' = [live EXCEPT ![c] = TRUE]
  /\ todo' = [todo EXCEPT ![c] = queries]
  /\ UNCHANGED <<cache, cacheBytes, asked, got, used, evidence>>

(* Enrich returns an error, and the vulnerability unchanged.               *)
GiveUp(c) ==
  /\ pc' = [pc EXCEPT ![c] = "idle"]
  /\ live' = [live EXCEPT ![c] = FALSE]
  /\ todo' = [todo EXCEPT ![c] = {}]
  /\ asked' = [asked EXCEPT ![c] = "none"]
  /\ got' = [got EXCEPT ![c] = "none"]
  /\ used' = [used EXCEPT ![c] = Nothing]
  /\ UNCHANGED evidence

(* The results Enrich has consumed, with those of one more body.           *)
Consumed(f) == MapThenSumSet(LAMBDA q : Results[f[q]], Used(f))

(* Enrich goes on with the body it got for q, unless that is one result    *)
(* too many.                                                               *)
Keep(c, q, b) ==
  LET more == [used[c] EXCEPT ![q] = b] IN
  IF Consumed(more) > MaxResults
    THEN GiveUp(c)
    ELSE /\ used' = [used EXCEPT ![c] = more]
         /\ todo' = [todo EXCEPT ![c] = @ \ {q}]
         /\ pc' = [pc EXCEPT ![c] = "next"]
         /\ asked' = [asked EXCEPT ![c] = "none"]
         /\ got' = [got EXCEPT ![c] = "none"]
         /\ UNCHANGED <<live, evidence>>

Continue(c, q, outcome) ==
  IF outcome \in Body /\ live[c] THEN Keep(c, q, outcome) ELSE GiveUp(c)

(* Every query is answered: the evidence is put into a copy of the         *)
(* vulnerability, and returned unless the context is done by then.         *)
Conclude(c) ==
  /\ pc[c] = "next"
  /\ todo[c] = {}
  /\ pc' = [pc EXCEPT ![c] = "idle"]
  /\ live' = [live EXCEPT ![c] = FALSE]
  /\ used' = [used EXCEPT ![c] = Nothing]
  /\ evidence' = [q \in Query |->
       IF live[c] /\ used[c][q] # "none" THEN evidence[q] \cup {used[c][q]} ELSE evidence[q]]
  /\ UNCHANGED <<cache, cacheBytes, todo, asked, got>>

-----------------------------------------------------------------------------
(* The cache.                                                              *)

(* A ready entry, or a context that is done.                               *)
Hit(c, q) ==
  /\ pc[c] = "next" /\ q \in todo[c]
  /\ live[c] => cache[q] \in Body \cup {"failed"}
  /\ Continue(c, q, cache[q])
  /\ UNCHANGED <<cache, cacheBytes>>

Wait(c, q) ==
  /\ pc[c] = "next" /\ q \in todo[c] /\ live[c]
  /\ cache[q] = "inflight"
  /\ pc' = [pc EXCEPT ![c] = "waiting"]
  /\ asked' = [asked EXCEPT ![c] = q]
  /\ UNCHANGED <<cache, cacheBytes, live, todo, got, used, evidence>>

Full(c, q) ==
  /\ pc[c] = "next" /\ q \in todo[c] /\ live[c]
  /\ cache[q] = "absent"
  /\ Cardinality(Entries) >= MaxEntries
  /\ GiveUp(c)
  /\ UNCHANGED <<cache, cacheBytes>>

(* Mutant of Own: an entry in flight is taken over.                        *)
OwnInFlight(c, q) ==
  /\ pc[c] = "next" /\ q \in todo[c] /\ live[c]
  /\ cache[q] \in {"absent", "inflight"}
  /\ Cardinality(Entries) < MaxEntries
  /\ cache' = [cache EXCEPT ![q] = "inflight"]
  /\ pc' = [pc EXCEPT ![c] = "fetching"]
  /\ asked' = [asked EXCEPT ![c] = q]
  /\ UNCHANGED <<cacheBytes, live, todo, got, used, evidence>>

Own(c, q) ==
  /\ pc[c] = "next" /\ q \in todo[c] /\ live[c]
  /\ cache[q] = "absent"
  /\ Cardinality(Entries) < MaxEntries
  /\ cache' = [cache EXCEPT ![q] = "inflight"]
  /\ pc' = [pc EXCEPT ![c] = "fetching"]
  /\ asked' = [asked EXCEPT ![c] = q]
  /\ UNCHANGED <<cacheBytes, live, todo, got, used, evidence>>

(* Mutant of Verdict: the byte budget is not checked.                      *)
VerdictUnbounded(c, answer) == IF ~live[c] THEN "canceled" ELSE answer

(* What the owner makes of the answer: its own context comes first, then   *)
(* the byte budget.  A timeout of the HTTP client counts as a cancellation.*)
Verdict(c, answer) ==
  IF ~live[c] THEN "canceled"
  ELSE IF answer \in Body /\ Bytes[answer] > MaxBytes - cacheBytes THEN "failed"
  ELSE answer

(* Mutants of Stored: a cancellation stays in the cache as a failure, or   *)
(* as an entry in flight.                                                  *)
StoredAlways(outcome)   == IF outcome = "canceled" THEN "failed" ELSE outcome
StoredInFlight(outcome) == IF outcome = "canceled" THEN "inflight" ELSE outcome

(* What stays in the cache: everything but a cancellation.                 *)
Stored(outcome) == IF outcome = "canceled" THEN "absent" ELSE outcome

(* Everybody with the entry of q in hand, its owner included.              *)
Holding(q) == {c \in Caller : asked[c] = q /\ got[c] = "none"}

(* Mutant of Published: only a success is published to the waiters.        *)
PublishedOnSuccess(q, outcome) ==
  [c \in Caller |->
     IF c \in Holding(q) /\ (outcome \in Body \/ pc[c] = "fetching") THEN outcome ELSE got[c]]

(* Closing the entry's channel: everybody who holds the entry can read the *)
(* outcome from it, whatever becomes of the cache.                         *)
Published(q, outcome) == [c \in Caller |-> IF c \in Holding(q) THEN outcome ELSE got[c]]

Fetched(c, answer) ==
  LET q == asked[c]
      outcome == Verdict(c, answer)
  IN
  /\ pc[c] = "fetching"
  /\ cache' = [cache EXCEPT ![q] = Stored(outcome)]
  /\ cacheBytes' = IF outcome \in Body THEN cacheBytes + Bytes[outcome] ELSE cacheBytes
  /\ got' = Published(q, outcome)
  /\ pc' = [pc EXCEPT ![c] = "waiting"]
  /\ UNCHANGED <<live, todo, asked, used, evidence>>

(* What one request can come to.  A response with more than MaxResults     *)
(* results is a failure; a timeout of the HTTP client is a cancellation.   *)
Answer == {b \in Body : Results[b] <= MaxResults} \cup {"failed", "canceled"}

(* The owner, a waiter that is woken, or a waiter that gives up.           *)
Resume(c) ==
  /\ pc[c] = "waiting"
  /\ live[c] => got[c] # "none"
  /\ Continue(c, asked[c], got[c])
  /\ UNCHANGED <<cache, cacheBytes>>

(* The caller cancels the context of its Enrich, or 30 seconds are over.   *)
Cancel(c) ==
  /\ pc[c] # "idle"
  /\ live[c]
  /\ live' = [live EXCEPT ![c] = FALSE]
  /\ UNCHANGED <<cache, cacheBytes, pc, todo, asked, got, used, evidence>>

CallerStep(c) ==
  \/ \E q \in Query : Hit(c, q) \/ Wait(c, q) \/ Full(c, q) \/ Own(c, q)
  \/ \E answer \in Answer : Fetched(c, answer)
  \/ Resume(c)
  \/ Conclude(c)

Next ==
  \E c \in Caller :
    \/ \E queries \in SUBSET Query : Enrich(c, queries)
    \/ CallerStep(c)
    \/ Cancel(c)

(* Goroutines run, and a request ends: its context has a deadline.  Nobody *)
(* has to call Enrich or to cancel.                                        *)
Fairness == \A c \in Caller : WF_vars(CallerStep(c))

Spec == Init /\ [][Next]_vars /\ Fairness

-----------------------------------------------------------------------------
(* Properties.                                                             *)

(* A query is in flight exactly when one caller is asking it, never two,   *)
(* and whoever still waits for an answer waits for such a query: an owner  *)
(* that is canceled neither strands its waiters nor lets a second request  *)
(* through while its own is out (client.go:302-346).                       *)
SingleFlight ==
  /\ \A q \in Query :
       Cardinality({c \in Caller : pc[c] = "fetching" /\ asked[c] = q})
         = IF cache[q] = "inflight" THEN 1 ELSE 0
  /\ \A c \in Caller : pc[c] = "waiting" /\ got[c] = "none" => cache[asked[c]] = "inflight"

(* All calls of a run see the same evidence for a query, though the        *)
(* service may answer differently each time: what a call used is what the  *)
(* cache still holds, through cancellations and retries.                   *)
EvidenceAgrees ==
  \A q \in Query :
    /\ evidence[q] \subseteq {cache[q]}
    /\ \A c \in Caller : used[c][q] \in {"none", cache[q]}

(* Every byte in the cache, by the query of its body and its place there.  *)
KeptBytes == UNION {{q} \X (1 .. Bytes[cache[q]]) : q \in Ready}

(* The two budgets hold, and the bytes counted are those of the bodies     *)
(* kept: failures and cancellations cost none, an entry taken out returns  *)
(* its place.                                                              *)
WithinBudget ==
  /\ Cardinality(Entries) <= MaxEntries
  /\ cacheBytes <= MaxBytes
  /\ cacheBytes = Cardinality(KeptBytes)

(* A query that was answered or failed is never asked again, and it never  *)
(* counts as either because of somebody's cancellation: a cancellation is  *)
(* not cached (client.go:55-56, 331-344).                                 *)
CancellationNotCached ==
  [][\A q \in Query :
       /\ cache[q] \in Body \cup {"failed"} => cache'[q] = cache[q]
       /\ cache[q] = "inflight" /\ cache'[q] \notin {"inflight", "absent"}
            => \E c \in Caller : pc[c] = "fetching" /\ asked[c] = q /\ live[c]]_vars

(* Every call of Enrich returns.                                           *)
EveryEnrichEnds == \A c \in Caller : pc[c] # "idle" ~> pc[c] = "idle"
=============================================================================

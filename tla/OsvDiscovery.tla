---------------------------- MODULE OsvDiscovery ----------------------------
(***************************************************************************)
(* DiscoveryClient.Query (src/src/osv/discovery.go): package versions are  *)
(* asked for in batches; each query of a batch has pages of its own, and   *)
(* only those with a page left are asked again.  An answer carries no      *)
(* identity: its results belong to the batch by position.                  *)
(* OSV is a catalog: the pages of ids it has for each query, and where the *)
(* last page's token leads.  One step is one request and its answer.       *)
(***************************************************************************)
EXTENDS Naturals, Sequences, FiniteSets, Functions

CONSTANTS
  Catalogs,     \* what OSV may hold: per query [valid, pages, loops]
  BatchSize,    \* 100
  MaxPages,     \* 100
  BadId         \* an id that is not valid text

(* A list of queries is a sequence, and each query has at least one page.  *)
ASSUME OsvDiscoveryAssumption ==
  /\ BatchSize \in Nat \ {0} /\ MaxPages \in Nat
  /\ \A c \in Catalogs :
       /\ c \in Seq(Range(c))
       /\ \A q \in Range(c) : /\ q.valid \in BOOLEAN /\ q.loops \in BOOLEAN
                             /\ q.pages \in Seq(Range(q.pages)) /\ q.pages # <<>>

VARIABLES
  catalog,      \* OSV's answers; its domain is the list of queries
  pending,      \* the queries of later batches
  active,       \* the batch
  page,         \* the number of the batch's request
  token,        \* the page each query is to ask for, 1 without a token
  seen,         \* the tokens each query was given
  results,      \* the results: ids, complete, error
  cancelled     \* the context is done

(* The elements of T in a list, in its order.                               *)
Kept(list, T) ==
  LET kept[k \in 0..Len(list)] ==
        IF k = 0 THEN <<>>
        ELSE IF list[k] \in T THEN Append(kept[k - 1], list[k]) ELSE kept[k - 1]
  IN kept[Len(list)]

discovery == <<catalog, pending, active, page, token, seen, results>>

NoError == "none"
Empty(i) == [ids |-> {}, complete |-> FALSE,
             error |-> IF catalog'[i].valid THEN NoError ELSE "invalid"]

DiscoveryIdle ==
  /\ catalog = <<>> /\ pending = <<>> /\ active = <<>> /\ page = 0
  /\ token = <<>> /\ seen = <<>> /\ results = <<>>

DiscoveryBegin ==
  /\ catalog = <<>> /\ catalog' \in Catalogs
  /\ results' = [i \in DOMAIN catalog' |-> Empty(i)]
  /\ pending' = Kept([i \in DOMAIN catalog' |-> i],
                    {i \in DOMAIN catalog' : catalog'[i].valid})
  /\ token' = [i \in DOMAIN catalog' |-> 1] /\ seen' = [i \in DOMAIN catalog' |-> {}]
  /\ active' = <<>> /\ page' = 0
  /\ UNCHANGED cancelled

Batch ==
  /\ active = <<>> /\ pending # <<>>
  /\ LET n == IF BatchSize < Len(pending) THEN BatchSize ELSE Len(pending)
     IN active' = SubSeq(pending, 1, n) /\ pending' = SubSeq(pending, n + 1, Len(pending))
  /\ page' = 1
  /\ UNCHANGED <<catalog, token, seen, results, cancelled>>

Mark(rs, queries, error) ==
  [i \in DOMAIN rs |-> IF i \in Range(queries) THEN [rs[i] EXCEPT !.error = error] ELSE rs[i]]

Interrupted ==
  /\ active # <<>> /\ cancelled
  /\ results' = Mark(Mark(results, active, "context"), pending, "skipped")
  /\ active' = <<>> /\ pending' = <<>>
  /\ UNCHANGED <<catalog, page, token, seen, cancelled>>

(* Transport, status, size, JSON, a wrong count of results, or a null one; *)
(* the later batches are still asked.                                       *)
RequestFailed ==
  /\ active # <<>>
  /\ results' = Mark(results, active, "request") /\ active' = <<>>
  /\ UNCHANGED <<catalog, pending, page, token, seen, cancelled>>

(* The token that OSV gives with page t of query i; 0 is none.              *)
Following(i, t) ==
  IF t < Len(catalog[i].pages) THEN t + 1 ELSE IF catalog[i].loops THEN t ELSE 0

(* OSV answers the batch by position.                                       *)
Reply == [j \in DOMAIN active |->
            LET i == active[j]
            IN [ids |-> catalog[i].pages[token[i]], next |-> Following(i, token[i])]]

(* One query's page; given are the tokens it had before.                   *)
Applied(r, answer, given) ==
  LET got == [r EXCEPT !.ids = @ \cup (answer.ids \ {BadId})]
  IN IF BadId \in answer.ids THEN [got EXCEPT !.error = "id"]
     ELSE IF answer.next = 0 THEN [got EXCEPT !.complete = TRUE]
     ELSE IF answer.next \in given THEN [got EXCEPT !.error = "repeated"]
     ELSE IF page >= MaxPages THEN [got EXCEPT !.error = "pages"]
     ELSE got

(* The results are taken for the first queries of the list.                 *)
MutantTarget(j) == j

Target(j) == active[j]

Answered ==
  /\ active # <<>> /\ ~cancelled
  /\ LET rs == [i \in DOMAIN results |->
                  IF \E j \in DOMAIN active : Target(j) = i
                  THEN LET j == CHOOSE k \in DOMAIN active : Target(k) = i
                       IN Applied(results[i], Reply[j], seen[i])
                  ELSE results[i]]
         left == Kept(active, {i \in DOMAIN rs : rs[i].error = NoError /\ ~rs[i].complete})
     IN /\ results' = rs /\ active' = left
        /\ token' = [i \in DOMAIN token |->
                        IF i \in Range(left) THEN Following(i, token[i]) ELSE token[i]]
        /\ seen' = [i \in DOMAIN seen |->
                       IF i \in Range(left) THEN seen[i] \cup {Following(i, token[i])} ELSE seen[i]]
  /\ page' = page + 1
  /\ UNCHANGED <<catalog, pending, cancelled>>

DiscoveryStep == Batch \/ Interrupted \/ RequestFailed \/ Answered
DiscoveryDone == catalog # <<>> /\ active = <<>> /\ pending = <<>>

-----------------------------------------------------------------------------
Everywhere(i) == UNION Range(catalog[i].pages)

(* In the end every query is either complete or has an error, never both;  *)
(* a complete one has exactly the ids of all its pages, an incomplete one  *)
(* none but its own, and a query is given up for a defect of OSV's answer  *)
(* only if its own pages have that defect (DiscoveryClient.Query, whose    *)
(* batches shrink while results belong to them by position).               *)
DiscoveryHonest ==
  \A i \in DOMAIN results :
    LET r == results[i]
    IN /\ r.ids \subseteq Everywhere(i)
       /\ r.complete => /\ r.ids = Everywhere(i) /\ BadId \notin r.ids
                        /\ r.error = NoError /\ ~catalog[i].loops
       /\ r.error = "id" => BadId \in Everywhere(i)
       /\ r.error = "repeated" => catalog[i].loops
       /\ r.error = "pages" => catalog[i].loops \/ Len(catalog[i].pages) > MaxPages
       /\ DiscoveryDone => (r.complete <=> r.error = NoError)
=============================================================================

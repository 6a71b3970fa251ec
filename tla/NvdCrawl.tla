------------------------------ MODULE NvdCrawl ------------------------------
(***************************************************************************)
(* Paging through NVD, which has no snapshot: its records may change       *)
(* between two requests.  Four crawls share this module:                   *)
(*   simple  nvd.Client.Fetch: newest records by exact offsets from the end *)
(*   tail    nvd.AnalysisClient.Fetch: the same, with duplicates dropped,  *)
(*           order checks and a request budget                             *)
(*   latest  AnalysisClient.FetchLatest: publication windows backwards     *)
(*           from now, aligned pages from each window's end                *)
(*   window  workflow.fetchWindow: all that was published, then all that   *)
(*           was modified, since a repository was registered               *)
(* One step is one request together with what the caller makes of its      *)
(* answer.  Times are small numbers; records are in publication order, as  *)
(* NVD answers them.                                                       *)
(***************************************************************************)
EXTENDS Naturals, Sequences, FiniteSetsExt, SequencesExt

CONSTANTS
  Databases,    \* what NVD may hold at first: sequences of records
  NewRecords,   \* records that may be added meanwhile
  Now,          \* the time of the crawl; a change of a record happens after it
  From,         \* the start of an explicit range
  Count,        \* how many records are wanted (at most 200)
  PageSize,     \* 200
  Width,        \* the width of a publication window, 7 days
  MaxRequests,  \* 128
  MaxChanges    \* bound on the changes of the database

(* NVD's records are in publication order; at least one record is wanted,  *)
(* and no range starts after now (latest.go 75-97).                        *)
ASSUME NvdCrawlAssumption ==
  /\ {Now, From, Count, PageSize, Width, MaxRequests, MaxChanges} \subseteq Nat
  /\ Count > 0 /\ PageSize > 0 /\ From <= Now
  /\ \A r \in NewRecords \cup UNION {Range(d) : d \in Databases} :
       r = [id |-> r.id, pub |-> r.pub, mod |-> r.mod] /\ {r.id, r.pub, r.mod} \subseteq Nat
  /\ \A d \in Databases : /\ d \in Seq(Range(d))
                           /\ \A i, j \in DOMAIN d : i <= j => d[i].pub <= d[j].pub

VARIABLES
  db,           \* NVD's records
  crawl,        \* the local state of the crawl
  stable,       \* monitor: the ids present since the crawl began
  edits         \* monitor: the changes since it began

crawlVars == <<db, crawl, stable, edits>>

(* Nothing was asked yet; explicit: the caller gave a range.                *)
Fresh(mode, explicit) ==
  [mode |-> mode, explicit |-> explicit, at |-> "probe", requests |-> 0, total |-> 0,
   upper |-> 0, end |-> Now, pass |-> "pub", probe |-> <<>>, newer |-> Now + 1, selected |-> {}]
NoCrawl == [Fresh("none", FALSE) EXCEPT !.at = "idle"]

Ids(records) == {r.id : r \in records}

(* An answer is the number of records of the query and one page of them.   *)
Serve(hits, start, size) ==
  [total |-> Len(hits), page |-> SubSeq(hits, start + 1, Min({start + size, Len(hits)}))]

(* The records of a query: those whose date is in a range.                  *)
Dated(records, date, from, to) ==
  LET hits[i \in 0..Len(records)] ==
        IF i = 0 THEN <<>>
        ELSE IF records[i][date] \in from..to THEN Append(hits[i - 1], records[i])
        ELSE hits[i - 1]
  IN hits[Len(records)]

(* One more record: the newest of each id stays, the first if equal.        *)
Put(S, r, key) ==
  IF \E s \in S : s.id = r.id /\ s[key] >= r[key] THEN S
  ELSE {s \in S : s.id # r.id} \cup {r}

(* The records selected so far, with those of one more page.                *)
Merge(selected, page, key) ==
  LET merged[i \in 0..Len(page)] ==
        IF i = 0 THEN selected ELSE Put(merged[i - 1], page[i], key)
  IN merged[Len(page)]

(* Newest publication first, then by id, cut at Count.                      *)
Newest(records) ==
  {r \in records : Cardinality({s \in records : s.pub > r.pub \/ (s.pub = r.pub /\ s.id < r.id)}) < Count}

Asking == crawl.at \in {"probe", "page"}
Gave(c, selected) == [c EXCEPT !.at = "done", !.selected = selected]
Failed(c) == [Fresh(c.mode, c.explicit) EXCEPT !.at = "failed"]

-----------------------------------------------------------------------------
CrawlIdle == db = <<>> /\ crawl = NoCrawl /\ stable = {} /\ edits = <<>>

CrawlBegin(mode) ==
  /\ crawl = NoCrawl
  /\ db' \in Databases /\ stable' = Ids(Range(db')) /\ edits' = <<>>
  /\ mode # "tail" => Cardinality(stable') = Len(db')
  /\ crawl' \in {Fresh(mode, FALSE), Fresh(mode, mode = "latest")}

(* The request budget is not checked.                                       *)
MutantAsked(c) == [c EXCEPT !.requests = IF @ < MaxRequests THEN @ + 1 ELSE @]

(* One more request; latest and tail have a budget.                         *)
Asked(c) ==
  IF c.requests >= MaxRequests THEN Failed(c) ELSE [c EXCEPT !.requests = @ + 1]

Step(next) == crawl' = next /\ UNCHANGED <<db, stable, edits>>

(* Transport, status, malformed page, unparsable record, or the context.   *)
RequestFails == Asking /\ Step(Failed(crawl))

-----------------------------------------------------------------------------
(* simple and tail: a count, then exact offsets from the end.              *)

FromEnd == crawl.mode \in {"simple", "tail"}

Probe ==
  /\ FromEnd /\ crawl.at = "probe"
  /\ LET total == Len(db)
     IN Step(IF total < Count THEN Failed(crawl)
             ELSE [Asked(crawl) EXCEPT !.at = "page", !.total = total, !.upper = total])

SimplePage ==
  /\ crawl.mode = "simple" /\ crawl.at = "page"
  /\ LET have == crawl.total - crawl.upper
         size == Min({Count - have, PageSize})
         start == crawl.upper - size
         answer == Serve(db, start, size)
         got == [crawl EXCEPT !.selected = @ \cup Range(answer.page), !.upper = start]
     IN Step(IF answer.total # crawl.total \/ Len(answer.page) # size THEN Failed(crawl)
             ELSE IF have + size = Count THEN Gave(got, got.selected) ELSE got)

(* The count of the probe is not compared with that of the page.            *)
MutantTailPage ==
  /\ crawl.mode = "tail" /\ crawl.at = "page"
  /\ LET size == Min({Count - Cardinality(crawl.selected), PageSize, crawl.upper})
         start == crawl.upper - size
         answer == Serve(db, start, size)
         got == [Asked(crawl) EXCEPT !.selected = Merge(@, answer.page, "pub"), !.upper = start]
     IN Step(IF Asked(crawl).at = "failed" \/ Len(answer.page) # size
                \/ Last(answer.page).pub > crawl.newer THEN Failed(crawl)
             ELSE IF Cardinality(got.selected) >= Count THEN Gave(got, Newest(got.selected))
             ELSE IF start = 0 THEN Failed(crawl)
             ELSE [got EXCEPT !.newer = Head(answer.page).pub])

TailPage ==
  /\ crawl.mode = "tail" /\ crawl.at = "page"
  /\ LET size == Min({Count - Cardinality(crawl.selected), PageSize, crawl.upper})
         start == crawl.upper - size
         answer == Serve(db, start, size)
         got == [Asked(crawl) EXCEPT !.selected = Merge(@, answer.page, "pub"), !.upper = start]
     IN Step(IF Asked(crawl).at = "failed" \/ answer.total # crawl.total
                \/ Last(answer.page).pub > crawl.newer THEN Failed(crawl)
             ELSE IF Cardinality(got.selected) >= Count THEN Gave(got, Newest(got.selected))
             ELSE IF start = 0 THEN Failed(crawl)
             ELSE [got EXCEPT !.newer = Head(answer.page).pub])

-----------------------------------------------------------------------------
(* latest: a window at a time, its last page first.                        *)

Start(c) ==
  LET start == IF c.end > Width THEN c.end - Width ELSE 0
  IN IF c.explicit THEN Max({start, From}) ELSE start
InWindow == Dated(db, "pub", Start(crawl), crawl.end)

WindowProbe ==
  /\ crawl.mode = "latest" /\ crawl.at = "probe"
  /\ LET answer == Serve(InWindow, 0, PageSize)
     IN Step(IF Asked(crawl).at = "failed" THEN Failed(crawl)
             ELSE [Asked(crawl) EXCEPT !.at = "page", !.total = answer.total,
                     !.upper = answer.total, !.probe = answer.page, !.newer = crawl.end])

(* A window that has been read through gives way to the one before it.     *)
WindowExhausted ==
  /\ crawl.mode = "latest" /\ crawl.at = "page" /\ crawl.upper = 0
  /\ Step(IF crawl.explicit /\ Start(crawl) = From THEN Gave(crawl, Newest(crawl.selected))
          ELSE [crawl EXCEPT !.at = "probe", !.end = Start(crawl), !.probe = <<>>])

(* The first page is the probe's own, and costs no request.                 *)
WindowPage ==
  /\ crawl.mode = "latest" /\ crawl.at = "page" /\ crawl.upper > 0
  /\ LET start == ((crawl.upper - 1) \div PageSize) * PageSize
         fresh == Serve(InWindow, start, PageSize)
         answer == IF start = 0 THEN [total |-> crawl.total, page |-> crawl.probe] ELSE fresh
         after == IF start = 0 THEN crawl ELSE Asked(crawl)
         got == [after EXCEPT !.selected = Merge(@, answer.page, "pub"), !.upper = start]
     IN Step(IF after.at = "failed" \/ answer.total # crawl.total
                \/ Last(answer.page).pub > crawl.newer THEN Failed(crawl)
             ELSE IF Cardinality(got.selected) >= Count THEN Gave(got, Newest(got.selected))
             ELSE [got EXCEPT !.newer = Head(answer.page).pub])

-----------------------------------------------------------------------------
(* window: every page forwards, by publication and then by modification.   *)

AfterPass(c) ==
  IF c.pass = "pub" THEN [c EXCEPT !.pass = "mod", !.upper = 0]
  ELSE Gave(c, c.selected)

WindowForward ==
  /\ crawl.mode = "window" /\ Asking
  /\ LET answer == Serve(Dated(db, crawl.pass, From, Now), crawl.upper, PageSize)
         reach == crawl.upper + Len(answer.page)
         got == [crawl EXCEPT !.at = "page", !.selected = Merge(@, answer.page, "mod"), !.upper = reach]
     IN Step(IF answer.page = <<>> \/ reach >= answer.total THEN AfterPass(got) ELSE got)

-----------------------------------------------------------------------------
(* NVD changes: a record appears where its date belongs, is withdrawn, or  *)
(* is modified, which moves it out of a modification window that ended.    *)

Inserted(r, s) ==
  LET older == Cardinality({i \in DOMAIN s : s[i].pub <= r.pub})
  IN SubSeq(s, 1, older) \o <<r>> \o SubSeq(s, older + 1, Len(s))

Change(kind) == Asking /\ Len(edits) < MaxChanges /\ edits' = Append(edits, kind) /\ UNCHANGED crawl

Add ==
  /\ Change("add")
  /\ \E r \in NewRecords : r.id \notin Ids(Range(db)) /\ db' = Inserted(r, db)
  /\ UNCHANGED stable

Withdraw ==
  /\ Change("withdraw")
  /\ \E i \in DOMAIN db : db' = RemoveAt(db, i) /\ stable' = stable \ {db[i].id}

Modify ==
  /\ \E i \in DOMAIN db :
       /\ db[i].mod <= Now
       /\ Change(IF db[i].mod >= From THEN "leave" ELSE "modify")
       /\ db' = [db EXCEPT ![i].mod = Now + 1]
  /\ UNCHANGED stable

CrawlStep ==
  \/ RequestFails \/ Probe \/ SimplePage \/ TailPage
  \/ WindowProbe \/ WindowExhausted \/ WindowPage \/ WindowForward
CrawlEnvironment == Add \/ Withdraw \/ Modify

-----------------------------------------------------------------------------
(* Edits that leave a count as it was, which neither the code nor its doc  *)
(* promises to see; a forward crawl does not compare counts, and misses a  *)
(* record whenever one before it leaves the window (workflow.fetchWindow). *)
Happened(kind) == kind \in Range(edits)
Unseen == IF crawl.mode = "window" THEN Happened("withdraw") \/ Happened("leave")
          ELSE Happened("withdraw") /\ Happened("add")

Wanted(r) ==
  CASE crawl.mode = "window" -> r.pub \in From..Now \/ r.mod \in From..Now
    [] crawl.mode = "latest" -> r.pub <= Now /\ (crawl.explicit => r.pub >= From)
    [] OTHER -> TRUE

(* A crawl that reports success has every record that was there throughout *)
(* and that it was asked for: all of a window or of an exhausted range, or *)
(* none newer than the last of exactly Count records - unless records came *)
(* and went unseen while it paged - and has each of them once, which only  *)
(* Client.Fetch leaves to chance when they did (nvd Fetch, FetchLatest,    *)
(* Client.Fetch, workflow.fetchWindow).                                    *)
NoStableSkipped ==
  crawl.at = "done" =>
    LET full == crawl.mode # "window" /\ Cardinality(crawl.selected) = Count
    IN /\ \/ crawl.mode = "simple" /\ Unseen
          \/ Cardinality(Ids(crawl.selected)) = Cardinality(crawl.selected)
       /\ crawl.mode = "tail" \/ (crawl.mode = "latest" /\ ~crawl.explicit) => full
       /\ Unseen \/ \A r \in Range(db) :
            r.id \in stable /\ Wanted(r) =>
              r.id \in Ids(crawl.selected) \/ (full /\ \A s \in crawl.selected : s.pub >= r.pub)
=============================================================================

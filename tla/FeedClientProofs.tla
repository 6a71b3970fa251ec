-------------------------- MODULE FeedClientProofs --------------------------
(***************************************************************************)
(* The safety of FeedClient for any repositories, analyses, articles, page *)
(* size and number of calls: what is shown belongs where it is, a          *)
(* repository is registered once, and no article is lost from a list that  *)
(* only grew while it was read.                                            *)
(*                                                                         *)
(* None of the three is inductive.  What arrives belongs to the view       *)
(* because every call that still waits for an answer is the one the view   *)
(* waits for, and that one is for the view's query (FeedOK, DetailOK).     *)
(* One registration needs that an answer which came is in sessionStorage,  *)
(* and that nobody asks for a repository found there (Registrations).      *)
(***************************************************************************)
EXTENDS FeedClient, TLAPS, FiniteSetTheorems, SequenceTheorems

Registry == [Url -> Analysis \cup {None}]

ServerState ==
  [stage : [Analysis -> Stage], items : [Analysis -> (SUBSET Article) \cup {None}]]

CatalogState ==
  [state : {"loading", "ready", "failed"}, saved : SUBSET Analysis, readOnly : BOOLEAN]

AppState ==
  [page : {"feed", "repositories", "article"}, article : Article \cup {None},
   from : Url \cup {Everything}, link : Url \cup {None}, scope : {"all", "repository"},
   active : Url \cup {None}, missing : BOOLEAN, busy : Url \cup {None}]

Queries == Url \cup {Everything, None}

View ==
  [query : Queries, items : Seq(Article), from : Queries, loading : BOOLEAN,
   error : BOOLEAN, request : 0 .. MaxReads]

Call ==
  [query : Queries, source : Analysis \cup {Everything},
   at : {"polling", "waiting", "reading", "settled"}, checks : Nat, final : BOOLEAN,
   failed : BOOLEAN, got : Seq(Article), last : SUBSET Article, grew : BOOLEAN]

Target == Article \X (Url \cup {Everything})

Detail == [item : Target \cup {None}, loading : BOOLEAN, error : BOOLEAN, request : 0 .. MaxReads]

Question ==
  [target : Target, at : {"asking", "settled"}, got : Target \cup {None},
   source : Analysis \cup {Everything}]

-----------------------------------------------------------------------------
(* The active repository is a known one, an article page has an article.   *)
Pointed(a, k) ==
  /\ a.active # None => k[a.active] # None
  /\ a.page = "article" => a.article \in Article

(* A repository that is not asked for is registered: registrations never   *)
(* go, so the kept value of needsRegistration errs on one side only.       *)
Place(a, k) ==
  /\ Pointed(a, k)
  /\ RepositoryOf(a) # None /\ ~a.missing => k[RepositoryOf(a)] # None

Typed ==
  /\ server \in ServerState
  /\ known \in Registry /\ stored \in Registry
  /\ post \in [Url -> {"none", "sent", "accepted"}]
  /\ posts \in [Url -> Nat] /\ lost \in [Url -> Nat]
  /\ catalog \in CatalogState
  /\ app \in AppState /\ Place(app, known)

(* An answer that came was kept: whoever is not registered in the stored   *)
(* state has asked only for answers that were lost.                        *)
Registrations ==
  \A u \in Url :
    /\ posts[u] <= lost[u] + 1
    /\ post[u] = "none" /\ stored[u] = None => posts[u] <= lost[u]
    /\ stored[u] # None => known[u] # None

(* What a call has read so far of a list that only grew is in the list.    *)
Whole(r) ==
  /\ r.grew => Range(r.got) \subseteq r.last
  /\ r.at = "settled" /\ r.grew => Range(r.got) = r.last

(* The view of query q and the calls of getFeed.                           *)
FeedOK(v, rs, q) ==
  /\ v \in View /\ v.query = q
  /\ v.items # <<>> => v.from = q
  /\ v.loading <=> v.request \in DOMAIN rs
  /\ DOMAIN rs \subseteq 1 .. MaxReads
  /\ \A n \in DOMAIN rs :
       /\ rs[n] \in Call /\ Whole(rs[n])
       /\ rs[n].at # "settled" => v.request = n
       /\ v.request = n => rs[n].query = q

(* The detail of target t and the calls of getDetail.                      *)
DetailOK(d, qs, t) ==
  /\ d \in Detail
  /\ d.item # None => d.item = t
  /\ d.loading <=> d.request \in DOMAIN qs
  /\ DOMAIN qs \subseteq 1 .. MaxReads
  /\ \A n \in DOMAIN qs :
       /\ qs[n] \in Question
       /\ qs[n].at = "asking" => d.request = n
       /\ qs[n].at = "settled" => qs[n].got = qs[n].target
       /\ d.request = n => qs[n].target = t

FeedShown == FeedOK(view, reads, QueryOf(app))
DetailShown == DetailOK(detail, asked, TargetOf(app, catalog))

IInv == Typed /\ Registrations /\ FeedShown /\ DetailShown

-----------------------------------------------------------------------------
(* Listings and their pages.                                               *)

(* The rank of an article in a listing: how many come before it.           *)
LEMMA RanksDiffer ==
  ASSUME NEW S \in SUBSET Nat, IsFiniteSet(S)
  PROVE  LET rank == [x \in S |-> Cardinality({y \in S : y < x}) + 1]
         IN /\ rank \in Bijection(S, 1 .. Cardinality(S))
            /\ \A x, y \in S : x < y => rank[x] < rank[y]
<1> DEFINE before(x) == {y \in S : y < x}
           rank == [x \in S |-> Cardinality(before(x)) + 1]
<1>0. /\ \A x \in S : before(x) \in SUBSET S /\ before(x) \cup {x} \in SUBSET S /\ x \notin before(x)
      /\ \A x, y \in S : x < y => before(x) \cup {x} \in SUBSET before(y)
  <2>1. ASSUME NEW x \in S PROVE x \notin before(x)
    <3>1. x \in Nat
      OBVIOUS
    <3> QED
      BY <3>1
  <2>2. ASSUME NEW x \in S, NEW y \in S, x < y, NEW z \in before(x) \cup {x} PROVE z \in before(y)
    <3>1. x \in Nat /\ y \in Nat /\ z \in S /\ z \in Nat
      OBVIOUS
    <3>2. z < x \/ z = x
      OBVIOUS
    <3> QED
      BY <2>2, <3>1, <3>2
  <2> QED
    BY <2>1, <2>2
<1> HIDE DEF before
<1>1. ASSUME NEW x \in S
      PROVE  /\ IsFiniteSet(before(x)) /\ Cardinality(before(x)) \in Nat
             /\ Cardinality(before(x) \cup {x}) = Cardinality(before(x)) + 1
             /\ Cardinality(before(x)) + 1 <= Cardinality(S)
  <2>1. before(x) \in SUBSET S /\ before(x) \cup {x} \in SUBSET S
    BY <1>0
  <2>2. IsFiniteSet(before(x)) /\ Cardinality(before(x)) \in Nat
    BY <2>1, FS_Subset, FS_CardinalityType
  <2>3. x \notin before(x)
    BY <1>0
  <2>4. Cardinality(before(x) \cup {x}) = Cardinality(before(x)) + 1
    BY <2>2, <2>3, FS_AddElement
  <2>5. Cardinality(before(x) \cup {x}) <= Cardinality(S)
    BY <2>1, FS_Subset
  <2> QED
    BY <2>2, <2>4, <2>5
<1>2. ASSUME NEW x \in S, NEW y \in S, x < y
      PROVE  Cardinality(before(x)) < Cardinality(before(y))
  <2>1. before(x) \cup {x} \in SUBSET before(y)
    BY <1>0, <1>2
  <2>2. Cardinality(before(x) \cup {x}) <= Cardinality(before(y))
    BY <1>1, <2>1, FS_Subset
  <2>3. /\ Cardinality(before(x)) \in Nat /\ Cardinality(before(y)) \in Nat
        /\ Cardinality(before(x) \cup {x}) = Cardinality(before(x)) + 1
    BY <1>1
  <2> QED
    BY <2>2, <2>3
<1>3. Cardinality(S) \in Nat
  BY FS_CardinalityType
<1>4. rank \in [S -> 1 .. Cardinality(S)]
  <2> SUFFICES ASSUME NEW x \in S PROVE Cardinality(before(x)) + 1 \in 1 .. Cardinality(S)
    OBVIOUS
  <2>1. Cardinality(before(x)) \in Nat /\ Cardinality(before(x)) + 1 <= Cardinality(S)
    BY <1>1
  <2> QED
    BY <1>3, <2>1
<1>5. \A x, y \in S : x < y => rank[x] < rank[y]
  <2> SUFFICES ASSUME NEW x \in S, NEW y \in S, x < y PROVE rank[x] < rank[y]
    OBVIOUS
  <2>1. Cardinality(before(x)) < Cardinality(before(y))
    BY <1>2
  <2>2. Cardinality(before(x)) \in Nat /\ Cardinality(before(y)) \in Nat
    BY <1>1
  <2> QED
    BY <2>1, <2>2
<1> HIDE DEF rank
<1>6. rank \in Injection(S, 1 .. Cardinality(S))
  <2> SUFFICES ASSUME NEW x \in S, NEW y \in S, rank[x] = rank[y] PROVE x = y
    BY <1>4 DEF Injection, IsInjective
  <2>1. rank[x] \in Nat /\ rank[y] \in Nat
    BY <1>3, <1>4
  <2> QED
    BY <1>5, <2>1
<1>7. IsFiniteSet(1 .. Cardinality(S)) /\ Cardinality(1 .. Cardinality(S)) = Cardinality(S)
  BY <1>3, FS_Interval
<1>8. rank \in Surjection(S, 1 .. Cardinality(S))
  BY <1>6, <1>7, FS_Injection
<1> QED
  BY <1>5, <1>6, <1>8 DEF Bijection, rank, before

(* Every finite listing can be ordered.                                    *)
LEMMA Ordered ==
  ASSUME NEW S \in SUBSET Nat, IsFiniteSet(S)
  PROVE  InOrder(S) \in [1 .. Cardinality(S) -> S]
<1> DEFINE rank == [x \in S |-> Cardinality({y \in S : y < x}) + 1]
           n == Cardinality(S)
           all == [i \in 1 .. n |-> CHOOSE x \in S : rank[x] = i]
<1>1. rank \in Bijection(S, 1 .. n) /\ \A x, y \in S : x < y => rank[x] < rank[y]
  BY RanksDiffer
<1>2. n \in Nat
  BY FS_CardinalityType
<1> HIDE DEF rank, n
<1>3. \A i \in 1 .. n : \E x \in S : rank[x] = i
  BY <1>1 DEF Bijection, Surjection
<1>4. \A i \in 1 .. n : all[i] \in S /\ rank[all[i]] = i
  BY <1>3
<1>5. all \in [1 .. n -> S]
  BY <1>4
<1> HIDE DEF all
<1>6. ASSUME NEW i \in 1 .. n, NEW j \in 1 .. n, i < j PROVE all[i] < all[j]
  <2>1. all[i] \in S /\ all[j] \in S /\ rank[all[i]] = i /\ rank[all[j]] = j
    BY <1>4
  <2>2. all[i] \in Nat /\ all[j] \in Nat
    BY <2>1
  <2>4. i \in Nat /\ j \in Nat
    BY <1>2
  <2>3. all[j] < all[i] => rank[all[j]] < rank[all[i]]
    BY <1>1, <2>1
  <2> QED
    BY <1>6, <2>1, <2>2, <2>3, <2>4
<1>7. \E f \in [1 .. n -> S] : \A i, j \in 1 .. n : i < j => f[i] < f[j]
  BY <1>5, <1>6
<1> QED
  BY <1>7 DEF InOrder, n

LEMMA ListingFinite ==
  ASSUME server \in ServerState, NEW source \in Analysis \cup {Everything}
  PROVE  /\ ItemsOf(server, source) \in SUBSET Article
         /\ IsFiniteSet(ItemsOf(server, source))
         /\ Cardinality(ItemsOf(server, source)) \in Nat
<1>1. \A i \in Analysis : server.items[i] # None => server.items[i] \in SUBSET Article
  BY DEF ServerState
<1>2. ItemsOf(server, source) \in SUBSET Article
  <2>1. CASE source = Everything
    BY <1>1, <2>1 DEF ItemsOf, Reported
  <2>2. CASE source # Everything
    BY <1>1, <2>2 DEF ItemsOf
  <2> QED
    BY <2>1, <2>2
<1> QED
  BY <1>2, FeedClientAssumption, FS_Subset, FS_CardinalityType

(* A page continues the listing, and the last one brings a reader that has *)
(* not too much to its end.                                                *)
LEMMA PageOfListing ==
  ASSUME server \in ServerState, NEW source \in Analysis \cup {Everything}, NEW offset \in Nat
  PROVE  LET page == PageAt(server, source, offset)
             listed == ItemsOf(server, source)
         IN /\ page.items \in Seq(Article) /\ Range(page.items) \subseteq listed
            /\ page.total = Cardinality(listed)
            /\ ~page.more /\ offset + Len(page.items) <= page.total
                 => offset + Len(page.items) = page.total
<1> DEFINE listed == ItemsOf(server, source)
           n == Cardinality(listed)
           all == InOrder(listed)
           end == IF offset + PageSize < Len(all) THEN offset + PageSize ELSE Len(all)
           items == SubSeq(all, offset + 1, end)
<1>1. listed \in SUBSET Article /\ IsFiniteSet(listed) /\ n \in Nat
  BY ListingFinite
<1>2. all \in [1 .. n -> listed]
  BY <1>1, Ordered, FeedClientAssumption
<1> HIDE DEF listed, n, all
<1>3. all \in Seq(listed) /\ Len(all) = n
  BY <1>1, <1>2
<1>4. end \in Nat /\ end <= n
  BY <1>1, <1>3, FeedClientAssumption
<1>5. PageAt(server, source, offset) = [items |-> items, total |-> n, more |-> end < n]
  BY <1>3 DEF PageAt, listed, all
<1> HIDE DEF end
<1>6. items \in Seq(listed)
  BY <1>3, <1>4
<1>7. Len(items) = IF offset + 1 <= end THEN end - offset ELSE 0
  BY <1>3, <1>4
<1>8. Range(items) \subseteq listed
  BY <1>6 DEF Range
<1>9. items \in Seq(Article)
  BY <1>1, <1>6
<1>10. ~(end < n) /\ offset + Len(items) <= n => offset + Len(items) = n
  BY <1>1, <1>4, <1>7
<1> HIDE DEF items
<1> DEFINE page == PageAt(server, source, offset)
<1>11. page.items = items /\ page.total = n /\ page.more = (end < n)
  BY <1>5
<1> HIDE DEF page
<1>12. /\ page.items \in Seq(Article) /\ Range(page.items) \subseteq listed
       /\ page.total = n
       /\ ~page.more /\ offset + Len(page.items) <= page.total
            => offset + Len(page.items) = page.total
  BY <1>8, <1>9, <1>10, <1>11
<1> QED
  BY <1>12 DEF listed, n, page

-----------------------------------------------------------------------------
(* The two views and their reloads.                                        *)

LEMMA QueryKnown ==
  ASSUME NEW a \in AppState, NEW k \in Registry, Place(a, k)
  PROVE  /\ QueryOf(a) \in Queries
         /\ QueryOf(a) \notin {Everything, None} => QueryOf(a) \in Url /\ k[QueryOf(a)] \in Analysis
BY DEF AppState, Registry, Pointed, Place, QueryOf, Queries

LEMMA NewestFree ==
  ASSUME NEW rs, Free(rs) # {}
  PROVE  Newest(rs) \in Free(rs)
BY DEF Newest

(* An abort leaves only calls that have their result.                      *)
LEMMA AbortLeaves ==
  ASSUME NEW rs
  PROVE  /\ DOMAIN Aborted(rs) \subseteq DOMAIN rs
         /\ \A n \in DOMAIN Aborted(rs) : Aborted(rs)[n] = rs[n] /\ rs[n].at = "settled"
BY DEF Aborted, Restrict

LEMMA WithoutDrops ==
  ASSUME NEW rs, NEW n
  PROVE  /\ DOMAIN Without(rs, n) = DOMAIN rs \ {n}
         /\ \A m \in DOMAIN rs \ {n} : Without(rs, n)[m] = rs[m]
BY DEF Without, Restrict

LEMMA ClearedView ==
  ASSUME NEW v \in View, v.items # <<>> => v.from = v.query, NEW q \in Queries
  PROVE  /\ Cleared(v, q) \in View /\ Cleared(v, q).query = q
         /\ Cleared(v, q).items # <<>> => Cleared(v, q).from = q
<1>1. CASE v.query = q
  BY <1>1 DEF Cleared
<1>2. CASE v.query # q
  <2>1. <<>> \in Seq(Article) /\ None \in Queries
    BY EmptySeq DEF Queries
  <2>2. Cleared(v, q) = [v EXCEPT !.query = q, !.items = <<>>, !.from = None, !.error = FALSE]
    BY <1>2 DEF Cleared
  <2> QED
    BY <2>1, <2>2 DEF View
<1> QED
  BY <1>1, <1>2

LEMMA OpeningCall ==
  ASSUME NEW q \in Queries \ {None}, NEW k \in Registry, NEW c \in CatalogState,
         q # Everything => k[q] \in Analysis
  PROVE  /\ Opening(q, k, c) \in Call /\ Whole(Opening(q, k, c))
         /\ Opening(q, k, c).query = q /\ Opening(q, k, c).at # "settled"
<1> DEFINE source == IF q = Everything THEN Everything ELSE k[q]
           final == q = Everything \/ source \in c.saved
           at == IF final THEN "reading" ELSE "polling"
<1>1. Opening(q, k, c) =
        [query |-> q, source |-> source, at |-> at, checks |-> 1, final |-> final,
         failed |-> FALSE, got |-> <<>>, last |-> {}, grew |-> TRUE]
  BY DEF Opening
<1>2. source \in Analysis \cup {Everything} /\ final \in BOOLEAN /\ at \in {"reading", "polling"}
  OBVIOUS
<1>3. <<>> \in Seq(Article) /\ Range(<<>>) = {}
  BY EmptySeq DEF Range
<1> HIDE DEF source, final, at
<1>4. Opening(q, k, c) \in Call
  BY <1>1, <1>2, <1>3 DEF Call
<1>5. Whole(Opening(q, k, c))
  BY <1>1, <1>2, <1>3 DEF Whole
<1> QED
  BY <1>1, <1>2, <1>4, <1>5

LEMMA ReloadFeedOK ==
  ASSUME NEW a \in AppState, NEW c \in CatalogState, NEW k \in Registry, Place(a, k),
         NEW q, FeedOK(view, reads, q), ReloadFeed(a, c, k)
  PROVE  FeedOK(view', reads', QueryOf(a))
<1> DEFINE new == QueryOf(a)
           left == Aborted(reads)
           n == Newest(left)
           v == Cleared(view, new)
           call == Opening(new, k, c)
<1>1. new \in Queries /\ (new \notin {Everything, None} => k[new] \in Analysis)
  BY QueryKnown
<1>2. v \in View /\ v.query = new /\ (v.items # <<>> => v.from = new)
  BY <1>1, ClearedView DEF FeedOK
<1>3. /\ DOMAIN left \subseteq 1 .. MaxReads
      /\ \A m \in DOMAIN left : left[m] \in Call /\ Whole(left[m]) /\ left[m].at = "settled"
  BY AbortLeaves DEF FeedOK
<1>4. 0 \in 0 .. MaxReads /\ 0 \notin 1 .. MaxReads /\ 1 .. MaxReads \subseteq 0 .. MaxReads
  BY FeedClientAssumption
<1>5. CASE EnabledOf(a, c)
  <2>1. Free(left) # {} /\ view' = [v EXCEPT !.loading = TRUE, !.error = FALSE, !.request = n]
        /\ reads' = With(left, n, call)
    BY <1>5 DEF ReloadFeed
  <2>2. n \in 1 .. MaxReads /\ n \notin DOMAIN left
    BY <2>1, NewestFree DEF Free
  <2>3. new # None
    BY <1>5 DEF EnabledOf
  <2>4. call \in Call /\ Whole(call) /\ call.query = new /\ call.at # "settled"
    BY <1>1, <2>3, OpeningCall
  <2> HIDE DEF new, left, n, v, call
  <2>5. /\ view' \in View /\ view'.query = new /\ (view'.items # <<>> => view'.from = new)
        /\ view'.loading = TRUE /\ view'.request = n
    BY <1>2, <1>4, <2>1, <2>2 DEF View
  <2>6. DOMAIN reads' = DOMAIN left \cup {n} /\ reads'[n] = call
        /\ \A m \in DOMAIN left : reads'[m] = left[m]
    BY <2>1, <2>2 DEF With
  <2>7. \A m \in DOMAIN reads' :
          /\ reads'[m] \in Call /\ Whole(reads'[m])
          /\ reads'[m].at # "settled" => view'.request = m
          /\ view'.request = m => reads'[m].query = new
    BY <1>3, <2>2, <2>4, <2>5, <2>6
  <2> QED
    BY <1>3, <2>2, <2>5, <2>6, <2>7 DEF FeedOK, new
<1>6. CASE ~EnabledOf(a, c)
  <2>1. view' = [v EXCEPT !.loading = FALSE, !.request = 0] /\ reads' = left
    BY <1>6 DEF ReloadFeed, Stopped
  <2> HIDE DEF new, left, v
  <2>2. /\ view' \in View /\ view'.query = new /\ (view'.items # <<>> => view'.from = new)
        /\ view'.loading = FALSE /\ view'.request = 0
    BY <1>2, <1>4, <2>1 DEF View
  <2>3. \A m \in DOMAIN reads' : m # 0
    BY <1>3, <1>4, <2>1
  <2> QED
    BY <1>3, <1>4, <2>1, <2>2, <2>3 DEF FeedOK, new
<1> QED
  BY <1>5, <1>6

LEMMA WatchFeedOK ==
  ASSUME NEW a \in AppState, NEW c \in CatalogState, NEW k \in Registry, Place(a, k),
         FeedShown, WatchFeed(a, c, k)
  PROVE  FeedOK(view', reads', QueryOf(a))
<1>1. CASE ReloadFeed(a, c, k)
  BY <1>1, ReloadFeedOK DEF FeedShown
<1>2. CASE QueryOf(a) = QueryOf(app) /\ UNCHANGED feed
  BY <1>2 DEF FeedShown, feed
<1> QED
  BY <1>1, <1>2 DEF WatchFeed

LEMMA TargetKnown ==
  ASSUME NEW a \in AppState, NEW c, NEW k \in Registry, Place(a, k), TargetOf(a, c) # None
  PROVE  /\ TargetOf(a, c) \in Target
         /\ TargetOf(a, c)[2] # Everything => k[TargetOf(a, c)[2]] \in Analysis
BY FeedClientAssumption DEF AppState, Registry, Pointed, Place, RepositoryOf, TargetOf, Target

(* needsRegistration, computed again or kept.                              *)
LEMMA BumpedOK ==
  ASSUME NEW a \in AppState, NEW k \in Registry, Pointed(a, k)
  PROVE  Bumped(a, k) \in AppState /\ Place(Bumped(a, k), k)
<1> DEFINE b == Bumped(a, k)
<1>1. /\ b \in AppState /\ b.missing = (RepositoryOf(a) # None /\ k[RepositoryOf(a)] = None)
      /\ b.page = a.page /\ b.article = a.article /\ b.from = a.from /\ b.active = a.active
  BY DEF Bumped, AppState
<1> HIDE DEF b
<1>2. RepositoryOf(b) = RepositoryOf(a)
  BY <1>1 DEF RepositoryOf
<1>3. Place(b, k)
  BY <1>1, <1>2 DEF Pointed, Place
<1> QED
  BY <1>1, <1>3 DEF b

LEMMA MovedOK ==
  ASSUME NEW a \in AppState, a.missing = app.missing, Pointed(a, known),
         known \in Registry, Place(app, known)
  PROVE  Moved(a) \in AppState /\ Place(Moved(a), known)
BY BumpedOK DEF Moved, Place

LEMMA ReloadDetailOK ==
  ASSUME NEW a \in AppState, NEW c \in CatalogState, NEW k \in Registry, Place(a, k),
         NEW t, DetailOK(detail, asked, t), ReloadDetail(a, c, k)
  PROVE  DetailOK(detail', asked', TargetOf(a, c))
<1> DEFINE new == TargetOf(a, c)
           left == Aborted(asked)
           n == Newest(left)
           source == IF new[2] = Everything THEN Everything ELSE k[new[2]]
           question == [target |-> new, at |-> "asking", got |-> None, source |-> source]
<1>1. new # None => new \in Target /\ (new[2] # Everything => k[new[2]] \in Analysis)
  BY TargetKnown
<1>2. /\ DOMAIN left \subseteq 1 .. MaxReads
      /\ \A m \in DOMAIN left : left[m] \in Question /\ left[m].at = "settled" /\ left[m].got = left[m].target
  BY AbortLeaves DEF DetailOK
<1>3. 0 \in 0 .. MaxReads /\ 0 \notin 1 .. MaxReads /\ 1 .. MaxReads \subseteq 0 .. MaxReads
  BY FeedClientAssumption
<1>4. CASE new = None
  <2>1. detail' = [item |-> None, loading |-> FALSE, error |-> FALSE, request |-> 0] /\ asked' = left
    BY <1>4 DEF ReloadDetail, NoDetail
  <2> HIDE DEF new, left
  <2> QED
    BY <1>2, <1>3, <2>1 DEF DetailOK, Detail
<1>5. CASE new # None
  <2>1. Free(left) # {} /\ asked' = With(left, n, question)
        /\ detail' = [item |-> None, loading |-> TRUE, error |-> FALSE, request |-> n]
    BY <1>5 DEF ReloadDetail, NoDetail
  <2>2. n \in 1 .. MaxReads /\ n \notin DOMAIN left
    BY <2>1, NewestFree DEF Free
  <2>3. question \in Question /\ question.at = "asking" /\ question.target = new
    <3>1. source \in Analysis \cup {Everything}
      BY <1>1, <1>5
    <3> HIDE DEF source
    <3> QED
      BY <1>1, <1>5, <3>1 DEF Question
  <2> HIDE DEF new, left, n, question
  <2>4. DOMAIN asked' = DOMAIN left \cup {n} /\ asked'[n] = question
        /\ \A m \in DOMAIN left : asked'[m] = left[m]
    BY <2>1, <2>2 DEF With
  <2>5. detail' \in Detail /\ detail'.item = None /\ detail'.loading = TRUE /\ detail'.request = n
    BY <1>3, <2>1, <2>2 DEF Detail
  <2>6. \A m \in DOMAIN asked' :
          /\ asked'[m] \in Question
          /\ asked'[m].at = "asking" => detail'.request = m
          /\ asked'[m].at = "settled" => asked'[m].got = asked'[m].target
          /\ detail'.request = m => asked'[m].target = new
    BY <1>2, <2>2, <2>3, <2>4, <2>5
  <2> QED
    BY <1>2, <2>2, <2>4, <2>5, <2>6 DEF DetailOK, new
<1> QED
  BY <1>4, <1>5

LEMMA WatchDetailOK ==
  ASSUME NEW a \in AppState, NEW c \in CatalogState, NEW k \in Registry, Place(a, k),
         DetailShown, WatchDetail(a, c, k)
  PROVE  DetailOK(detail', asked', TargetOf(a, c))
<1>1. CASE ReloadDetail(a, c, k)
  BY <1>1, ReloadDetailOK DEF DetailShown
<1>2. CASE TargetOf(a, c) = TargetOf(app, catalog) /\ UNCHANGED article
  BY <1>2 DEF DetailShown, article
<1> QED
  BY <1>1, <1>2 DEF WatchDetail

LEMMA BecomesOK ==
  ASSUME IInv, NEW a \in AppState, NEW c \in CatalogState, NEW k \in Registry, Place(a, k),
         Becomes(a, c, k)
  PROVE  app' = a /\ catalog' = c /\ known' = k /\ FeedShown' /\ DetailShown'
<1>1. app' = a /\ catalog' = c /\ known' = k /\ WatchFeed(a, c, k) /\ WatchDetail(a, c, k)
  BY DEF Becomes
<1>2. FeedOK(view', reads', QueryOf(a)) /\ DetailOK(detail', asked', TargetOf(a, c))
  BY <1>1, WatchFeedOK, WatchDetailOK DEF IInv
<1> QED
  BY <1>1, <1>2 DEF FeedShown, DetailShown

(* A registration that is found or answered is put on the screen.          *)
LEMMA RegisteredOK ==
  ASSUME IInv, NEW u \in Url, NEW k \in Registry, k[u] # None,
         \A v \in Url : known[v] # None => k[v] # None, Registered(u, k)
  PROVE  /\ app' \in AppState /\ Place(app', k) /\ known' = k /\ catalog' = catalog
         /\ FeedShown' /\ DetailShown'
<1> DEFINE b == [app EXCEPT !.active = u, !.busy = None,
                            !.from = IF app.page = "article" THEN u ELSE @]
           a == Bumped(b, k)
<1>1. a \in AppState /\ Place(a, k)
  <2>1. b \in AppState /\ Pointed(b, k)
    BY DEF IInv, Typed, AppState, Pointed, Place
  <2> QED
    BY <2>1, BumpedOK
<1>2. catalog \in CatalogState
  BY DEF IInv, Typed
<1>3. CASE app.page # "article" /\ app.active = u
  <2>1. /\ app' = a /\ known' = k /\ UNCHANGED catalog
        /\ ReloadFeed(a, catalog, k) /\ WatchDetail(a, catalog, k)
    BY <1>3 DEF Registered
  <2> HIDE DEF a
  <2>2. FeedOK(view', reads', QueryOf(a))
    BY <1>1, <1>2, <2>1, ReloadFeedOK DEF IInv, FeedShown
  <2>3. DetailOK(detail', asked', TargetOf(a, catalog))
    BY <1>1, <1>2, <2>1, WatchDetailOK DEF IInv
  <2> QED
    BY <1>1, <2>1, <2>2, <2>3 DEF FeedShown, DetailShown
<1>4. CASE ~(app.page # "article" /\ app.active = u)
  <2>1. Becomes(a, catalog, k)
    BY <1>4 DEF Registered
  <2> HIDE DEF a
  <2> QED
    BY <1>1, <1>2, <2>1, BecomesOK
<1> QED
  BY <1>3, <1>4

(* A route and the registrations a tab is opened with.                     *)
LEMMA OpenedTab ==
  ASSUME NEW page \in {"feed", "repositories", "article"}, NEW i \in Article \cup {None},
         page = "article" => i \in Article, NEW from \in Url \cup {Everything},
         NEW k \in Registry, NEW active \in Url \cup {None}
  PROVE  /\ OpenedOn(Route(page, i, from), k, active) \in AppState
         /\ Place(OpenedOn(Route(page, i, from), k, active), k)
<1> DEFINE link == IF from = Everything THEN None ELSE from
           chosen == IF link # None /\ k[link] # None THEN link ELSE active
           kept == IF chosen # None /\ k[chosen] # None THEN chosen ELSE None
           scope == IF page = "repositories" THEN "repository" ELSE "all"
           a == [page |-> page, article |-> i, from |-> from, link |-> link, scope |-> scope,
                 active |-> kept, missing |-> FALSE, busy |-> None]
<1>1. OpenedOn(Route(page, i, from), k, active) = Bumped(a, k)
  BY DEF OpenedOn, Route
<1>2. link \in Url \cup {None} /\ kept \in Url \cup {None} /\ scope \in {"all", "repository"}
      /\ (kept # None => k[kept] # None)
  BY FeedClientAssumption
<1> HIDE DEF link, kept, scope
<1>3. a \in AppState /\ Pointed(a, k)
  BY <1>2 DEF AppState, Pointed
<1> QED
  BY <1>1, <1>3, BumpedOK

(* A fresh tab shows nothing and waits for nothing.                        *)
LEMMA FreshTab ==
  ASSUME NEW q \in Queries, NEW t
  PROVE  FeedOK([NoView EXCEPT !.query = q], <<>>, q) /\ DetailOK(NoDetail, <<>>, t)
<1>1. DOMAIN <<>> = {} /\ 0 \in 0 .. MaxReads /\ <<>> \in Seq(Article) /\ None \in Queries
  BY EmptySeq, FeedClientAssumption DEF Queries
<1> QED
  BY <1>1 DEF FeedOK, DetailOK, NoView, NoDetail, View, Detail

LEMMA InitEstablishes == Init => IInv
<1> SUFFICES ASSUME Init PROVE IInv
  OBVIOUS
<1>1. known \in Registry /\ stored \in Registry
  BY DEF Init, NobodyKnown, Registry
<1>2. app \in AppState /\ Place(app, known)
  <2>1. PICK route \in Routes : app = OpenedOn(route, known, None)
    BY DEF Init
  <2>2. CASE \E page \in {"feed", "repositories"} : route = Route(page, None, Everything)
    BY <1>1, <2>1, <2>2, OpenedTab
  <2>3. CASE \E i \in Linked, from \in Url \cup {Everything} : route = Route("article", i, from)
    BY <1>1, <2>1, <2>3, OpenedTab, FeedClientAssumption
  <2> QED
    BY <2>2, <2>3 DEF Routes
<1>3. server \in ServerState
  BY FeedClientAssumption DEF Init, ServerState
<1>4. catalog \in CatalogState
  BY DEF Init, NoCatalog, CatalogState
<1>5. Typed
  BY <1>1, <1>2, <1>3, <1>4 DEF Init, Typed
<1>6. Registrations
  BY DEF Init, Registrations, NobodyKnown
<1>7. QueryOf(app) \in Queries
  BY <1>1, <1>2, QueryKnown
<1>8. FeedShown /\ DetailShown
  BY <1>7, FreshTab DEF Init, FeedShown, DetailShown
<1> QED
  BY <1>5, <1>6, <1>8 DEF IInv

-----------------------------------------------------------------------------
(* One lemma per kind of step.                                             *)

LEMMA RegistrationsStay ==
  ASSUME IInv, UNCHANGED <<post, posts, lost, stored>>,
         \A u \in Url : known[u] # None => known'[u] # None
  PROVE  Registrations'
BY DEF IInv, Registrations

(* The reader moves without a registration.                                *)
LEMMA MoveStep ==
  ASSUME IInv, NEW a \in AppState, NEW c \in CatalogState, Place(a, known),
         Becomes(a, c, known), UNCHANGED <<server, stored, post, posts, lost>>
  PROVE  IInv'
<1>1. app' = a /\ catalog' = c /\ known' = known /\ FeedShown' /\ DetailShown'
  BY BecomesOK DEF IInv, Typed
<1>2. Typed'
  BY <1>1 DEF IInv, Typed
<1>3. Registrations'
  BY <1>1, RegistrationsStay
<1> QED
  BY <1>1, <1>2, <1>3 DEF IInv

LEMMA GoStep ==
  ASSUME IInv, NEW page \in {"feed", "repositories"}, Go(page)
  PROVE  IInv'
<1> DEFINE a == Moved(Routed(page))
<1>1. a \in AppState /\ Place(a, known) /\ catalog \in CatalogState
  <2>1. /\ Routed(page) \in AppState /\ Pointed(Routed(page), known)
        /\ Routed(page).missing = app.missing
    BY DEF IInv, Typed, Routed, AppState, Pointed, Place
  <2> QED
    BY <2>1, MovedOK DEF IInv, Typed
<1> HIDE DEF a
<1>2. Becomes(a, catalog, known) /\ UNCHANGED <<server, stored, post, posts, lost>>
  BY DEF Go, a
<1> QED
  BY <1>1, <1>2, MoveStep

LEMMA OpenArticleStep ==
  ASSUME IInv, NEW i \in Article, NEW from \in Url \cup {Everything}, OpenArticle(i, from)
  PROVE  IInv'
<1> DEFINE b == [app EXCEPT !.page = "article", !.article = i, !.from = from, !.busy = None,
                   !.active = IF from # Everything /\ known[from] # None THEN from ELSE @]
           a == Moved(b)
<1>1. a \in AppState /\ Place(a, known) /\ catalog \in CatalogState
  <2>1. b \in AppState /\ Pointed(b, known) /\ b.missing = app.missing
    BY DEF IInv, Typed, AppState, Pointed, Place
  <2> QED
    BY <2>1, MovedOK DEF IInv, Typed
<1> HIDE DEF a
<1>2. Becomes(a, catalog, known) /\ UNCHANGED <<server, stored, post, posts, lost>>
  BY DEF OpenArticle, a
<1> QED
  BY <1>1, <1>2, MoveStep

LEMMA RetryStep ==
  ASSUME IInv, Retry
  PROVE  IInv'
<1>1. UNCHANGED <<server, known, stored, post, posts, lost, catalog, app>>
  BY DEF Retry, tab
<1>2. app \in AppState /\ catalog \in CatalogState /\ known \in Registry /\ Place(app, known)
  BY DEF IInv, Typed
<1>3. CASE ReloadFeed(app, catalog, known) /\ UNCHANGED article
  <2>1. FeedShown'
    BY <1>1, <1>2, <1>3, ReloadFeedOK DEF IInv, FeedShown
  <2>2. DetailShown'
    BY <1>1, <1>3 DEF IInv, DetailShown, article
  <2> QED
    BY <1>1, <2>1, <2>2 DEF IInv, Typed, Registrations
<1>4. CASE ReloadDetail(app, catalog, known) /\ UNCHANGED feed
  <2>1. DetailShown'
    BY <1>1, <1>2, <1>4, ReloadDetailOK DEF IInv, DetailShown
  <2>2. FeedShown'
    BY <1>1, <1>4 DEF IInv, FeedShown, feed
  <2> QED
    BY <1>1, <2>1, <2>2 DEF IInv, Typed, Registrations
<1> QED
  BY <1>3, <1>4 DEF Retry

(* What is shown does not depend on the form.                              *)
LEMMA FormAside ==
  ASSUME IInv, NEW b \in Url \cup {None}, app' = [app EXCEPT !.busy = b],
         UNCHANGED <<known, catalog, feed, article>>
  PROVE  app' \in AppState /\ Place(app', known) /\ FeedShown' /\ DetailShown'
<1>1. app' \in AppState /\ Place(app', known)
  BY DEF IInv, Typed, AppState, Pointed, Place, RepositoryOf
<1>2. QueryOf(app') = QueryOf(app) /\ TargetOf(app', catalog) = TargetOf(app, catalog)
  BY DEF IInv, Typed, AppState, QueryOf, TargetOf
<1> QED
  BY <1>1, <1>2 DEF IInv, FeedShown, DetailShown, feed, article

LEMMA SubmitStep ==
  ASSUME IInv, NEW u \in Url, Submit(u)
  PROVE  IInv'
<1>1. UNCHANGED <<server, stored, lost>>
  BY DEF Submit
<1>2. CASE known[u] # None
  <2>1. Registered(u, known) /\ UNCHANGED <<post, posts>>
    BY <1>2 DEF Submit
  <2>2. /\ app' \in AppState /\ Place(app', known) /\ known' = known /\ catalog' = catalog
        /\ FeedShown' /\ DetailShown'
    BY <1>2, <2>1, RegisteredOK DEF IInv, Typed
  <2> QED
    BY <1>1, <2>1, <2>2 DEF IInv, Typed, Registrations
<1>3. CASE known[u] = None
  <2>1. app' = [app EXCEPT !.busy = u] /\ UNCHANGED <<known, catalog, feed, article>>
    BY <1>3 DEF Submit
  <2>2. app' \in AppState /\ Place(app', known) /\ FeedShown' /\ DetailShown'
    BY <2>1, FormAside
  <2>3. CASE Posting(u)
    <3>1. post' = [post EXCEPT ![u] = "sent"] /\ posts' = [posts EXCEPT ![u] = @ + 1]
      BY <1>3, <2>3 DEF Submit
    <3>2. posts[u] <= lost[u] /\ posts[u] \in Nat /\ lost[u] \in Nat
      BY <1>3, <2>3 DEF IInv, Typed, Registrations, Posting
    <3>3. Registrations'
      BY <1>1, <2>1, <3>1, <3>2 DEF IInv, Typed, Registrations
    <3>4. Typed'
      BY <1>1, <2>1, <2>2, <3>1 DEF IInv, Typed
    <3> QED
      BY <2>2, <3>3, <3>4 DEF IInv
  <2>4. CASE UNCHANGED <<post, posts>>
    BY <1>1, <2>1, <2>2, <2>4 DEF IInv, Typed, Registrations
  <2> QED
    BY <1>3, <2>3, <2>4 DEF Submit
<1> QED
  BY <1>2, <1>3

LEMMA OpenSavedStep ==
  ASSUME IInv, NEW i \in Analysis, OpenSaved(i)
  PROVE  IInv'
<1> DEFINE u == UrlOf[i]
           k == [known EXCEPT ![u] = i]
           b == [app EXCEPT !.active = u, !.page = "repositories", !.scope = "repository",
                            !.busy = IF app.page = "repositories" THEN @ ELSE None]
           a == Bumped(b, k)
<1>1. u \in Url /\ i # None
  BY FeedClientAssumption
<1>2. k \in Registry /\ \A v \in Url : known[v] # None => k[v] # None
  BY <1>1 DEF IInv, Typed, Registry
<1>3. a \in AppState /\ Place(a, k)
  <2>1. b \in AppState /\ Pointed(b, k)
    BY <1>1 DEF IInv, Typed, AppState, Pointed, Place, Registry
  <2> QED
    BY <1>2, <2>1, BumpedOK
<1>4. catalog \in CatalogState
  BY DEF IInv, Typed
<1>5. /\ stored' = k /\ app' = a /\ known' = k /\ UNCHANGED catalog
      /\ ReloadFeed(a, catalog, k) /\ WatchDetail(a, catalog, k)
      /\ UNCHANGED <<server, post, posts, lost>>
  BY DEF OpenSaved
<1> HIDE DEF a, k
<1>6. FeedShown' /\ DetailShown'
  BY <1>2, <1>3, <1>4, <1>5, ReloadFeedOK, WatchDetailOK DEF IInv, FeedShown, DetailShown
<1>7. Typed'
  BY <1>2, <1>3, <1>5 DEF IInv, Typed
<1>8. Registrations'
  BY <1>2, <1>5 DEF IInv, Registrations
<1> QED
  BY <1>6, <1>7, <1>8 DEF IInv

LEMMA CatalogStep ==
  ASSUME IInv, RefreshCatalog \/ CatalogFails
  PROVE  IInv'
<1>1. PICK state \in {"loading", "failed"} :
        Becomes(app, [catalog EXCEPT !.state = state], known)
  BY DEF RefreshCatalog, CatalogFails
<1>2. [catalog EXCEPT !.state = state] \in CatalogState /\ app \in AppState /\ Place(app, known)
  BY DEF IInv, Typed, CatalogState
<1>3. UNCHANGED <<server, stored, post, posts, lost>>
  BY DEF RefreshCatalog, CatalogFails
<1> QED
  BY <1>1, <1>2, <1>3, MoveStep

LEMMA ReloadTabStep ==
  ASSUME IInv, ReloadTab
  PROVE  IInv'
<1>1. /\ known' = stored /\ post' = [u \in Url |-> "none"]
      /\ lost' = [u \in Url |-> IF post[u] = "none" THEN lost[u] ELSE lost[u] + 1]
      /\ catalog' = NoCatalog
      /\ app' = OpenedOn(Route(app.page, app.article, app.from), stored, app.active)
      /\ view' = [NoView EXCEPT !.query = QueryOf(app')] /\ reads' = <<>>
      /\ detail' = NoDetail /\ asked' = <<>>
      /\ UNCHANGED <<server, stored, posts>>
  BY DEF ReloadTab
<1>2. app' \in AppState /\ Place(app', stored)
  <2>1. /\ app.page \in {"feed", "repositories", "article"} /\ app.article \in Article \cup {None}
        /\ app.page = "article" => app.article \in Article
        /\ app.from \in Url \cup {Everything} /\ app.active \in Url \cup {None}
        /\ stored \in Registry
    BY DEF IInv, Typed, AppState, Pointed, Place
  <2> QED
    BY <1>1, <2>1, OpenedTab
<1>3. Typed'
  BY <1>1, <1>2 DEF IInv, Typed, NoCatalog, CatalogState
<1>4. Registrations'
  <2> SUFFICES ASSUME NEW u \in Url
               PROVE  /\ posts[u] <= lost'[u] + 1
                      /\ stored[u] = None => posts[u] <= lost'[u]
    BY <1>1 DEF Registrations
  <2>1. /\ posts[u] \in Nat /\ lost[u] \in Nat /\ posts[u] <= lost[u] + 1
        /\ post[u] = "none" /\ stored[u] = None => posts[u] <= lost[u]
    BY DEF IInv, Typed, Registrations
  <2>2. lost'[u] = IF post[u] = "none" THEN lost[u] ELSE lost[u] + 1
    BY <1>1
  <2> QED
    BY <2>1, <2>2
<1>5. QueryOf(app') \in Queries
  BY <1>2, QueryKnown DEF IInv, Typed
<1>6. FeedShown' /\ DetailShown'
  BY <1>1, <1>5, FreshTab DEF FeedShown, DetailShown
<1> QED
  BY <1>3, <1>4, <1>6 DEF IInv

LEMMA CatalogAnsweredStep ==
  ASSUME IInv, CatalogAnswered
  PROVE  IInv'
<1>1. PICK k \in Restored(known, Reported(server)) :
        Becomes(Bumped([app EXCEPT !.active = IF app.link # None /\ k[app.link] # None
                                              THEN app.link ELSE @], k),
                [state |-> "ready", saved |-> Reported(server), readOnly |-> FALSE], k)
  BY DEF CatalogAnswered
<1> DEFINE b == [app EXCEPT !.active = IF app.link # None /\ k[app.link] # None THEN app.link ELSE @]
           a == Bumped(b, k)
           c == [state |-> "ready", saved |-> Reported(server), readOnly |-> FALSE]
<1>2. UNCHANGED <<server, stored, post, posts, lost>>
  BY DEF CatalogAnswered
<1>3. k \in Registry /\ \A u \in Url : known[u] # None => k[u] # None
  <2>1. k \in Registry
    BY DEF Restored, Registry
  <2>2. ASSUME NEW u \in Url, known[u] # None PROVE k[u] # None
    <3> DEFINE here == {i \in Reported(server) : UrlOf[i] = u}
    <3>1. here = {} \/ known[u] \in here => k[u] = known[u]
      BY DEF Restored
    <3>2. ~(here = {} \/ known[u] \in here) => k[u] \in here
      BY DEF Restored
    <3>3. None \notin here
      BY FeedClientAssumption DEF Reported
    <3> QED
      BY <2>2, <3>1, <3>2, <3>3
  <2> QED
    BY <2>1, <2>2
<1>4. a \in AppState /\ Place(a, k)
  <2>1. b \in AppState /\ Pointed(b, k)
    BY <1>3 DEF IInv, Typed, AppState, Pointed, Place
  <2> QED
    BY <1>3, <2>1, BumpedOK
<1>5. c \in CatalogState
  BY DEF CatalogState, Reported
<1> HIDE DEF a, c
<1>6. app' = a /\ catalog' = c /\ known' = k /\ FeedShown' /\ DetailShown'
  BY <1>1, <1>3, <1>4, <1>5, BecomesOK DEF a, c
<1>7. Typed'
  BY <1>2, <1>3, <1>4, <1>5, <1>6 DEF IInv, Typed
<1>8. Registrations'
  BY <1>2, <1>3, <1>6, RegistrationsStay
<1> QED
  BY <1>6, <1>7, <1>8 DEF IInv

LEMMA AcceptedStep ==
  ASSUME IInv, NEW u \in Url, Accepted(u)
  PROVE  IInv'
<1>1. /\ post' = [post EXCEPT ![u] = "accepted"] /\ post[u] = "sent"
      /\ server' = [server EXCEPT !.stage[HeadOf[u]] = IF @ = "absent" THEN "queued" ELSE @]
      /\ UNCHANGED <<known, stored, posts, lost, catalog, app, feed, article>>
  BY DEF Accepted
<1>2. server' \in ServerState
  BY <1>1, FeedClientAssumption DEF IInv, Typed, ServerState, Stage
<1>3. Typed'
  BY <1>1, <1>2 DEF IInv, Typed
<1>4. Registrations'
  BY <1>1 DEF IInv, Typed, Registrations
<1>5. FeedShown' /\ DetailShown'
  BY <1>1 DEF IInv, FeedShown, DetailShown, feed, article
<1> QED
  BY <1>3, <1>4, <1>5 DEF IInv

LEMMA AnsweredStep ==
  ASSUME IInv, NEW u \in Url, Answered(u)
  PROVE  IInv'
<1> DEFINE k == Keep(u)
<1>1. k \in Registry /\ k[u] # None /\ \A v \in Url : known[v] # None => k[v] # None
  BY FeedClientAssumption DEF IInv, Typed, Registry, Keep
<1>2. /\ post[u] = "accepted" /\ post' = [post EXCEPT ![u] = "none"] /\ stored' = k
      /\ UNCHANGED <<server, posts, lost>>
  BY DEF Answered
<1>3. k = [known EXCEPT ![u] = HeadOf[u]]
  BY DEF Keep
<1>4. /\ app' \in AppState /\ Place(app', k) /\ known' = k /\ catalog' \in CatalogState
      /\ FeedShown' /\ DetailShown'
  <2>1. CASE app.busy = u
    <3>1. Registered(u, k)
      BY <2>1 DEF Answered
    <3> HIDE DEF k
    <3> QED
      BY <1>1, <3>1, RegisteredOK DEF IInv, Typed
  <2>2. CASE app.busy # u
    <3>1. known' = k /\ UNCHANGED <<catalog, app, feed, article>>
      BY <2>2 DEF Answered
    <3> HIDE DEF k
    <3>2. app \in AppState /\ Place(app, k) /\ catalog \in CatalogState
      BY <1>1 DEF IInv, Typed, Pointed, Place, AppState, RepositoryOf
    <3> QED
      BY <3>1, <3>2 DEF IInv, FeedShown, DetailShown, feed, article
  <2> QED
    BY <2>1, <2>2
<1> HIDE DEF k
<1>5. Typed'
  BY <1>1, <1>2, <1>4 DEF IInv, Typed
<1>6. Registrations'
  <2> SUFFICES ASSUME NEW v \in Url
               PROVE  /\ posts[v] <= lost[v] + 1
                      /\ post'[v] = "none" /\ k[v] = None => posts[v] <= lost[v]
    BY <1>2, <1>4 DEF Registrations
  <2>1. CASE v = u
    BY <1>1, <2>1 DEF IInv, Registrations
  <2>2. CASE v # u
    BY <1>1, <1>2, <2>2 DEF IInv, Typed, Registrations
  <2> QED
    BY <2>1, <2>2
<1> QED
  BY <1>4, <1>5, <1>6 DEF IInv

LEMMA PostFailsStep ==
  ASSUME IInv, NEW u \in Url, PostFails(u)
  PROVE  IInv'
<1>1. /\ post' = [post EXCEPT ![u] = "none"] /\ lost' = [lost EXCEPT ![u] = @ + 1]
      /\ UNCHANGED <<server, known, stored, posts, catalog, feed, article>>
  BY DEF PostFails
<1>2. PICK b \in Url \cup {None} : app' = [app EXCEPT !.busy = b]
  <2>1. app.busy \in Url \cup {None}
    BY DEF IInv, Typed, AppState
  <2> QED
    BY <2>1 DEF PostFails
<1>3. app' \in AppState /\ Place(app', known) /\ FeedShown' /\ DetailShown'
  BY <1>1, <1>2, FormAside
<1>4. Typed'
  BY <1>1, <1>3 DEF IInv, Typed
<1>5. Registrations'
  <2> SUFFICES ASSUME NEW v \in Url
               PROVE  /\ posts[v] <= lost'[v] + 1
                      /\ post'[v] = "none" /\ stored[v] = None => posts[v] <= lost'[v]
                      /\ stored[v] # None => known[v] # None
    BY <1>1 DEF Registrations
  <2>1. /\ posts[v] \in Nat /\ lost[v] \in Nat /\ posts[v] <= lost[v] + 1
        /\ post[v] = "none" /\ stored[v] = None => posts[v] <= lost[v]
        /\ stored[v] # None => known[v] # None
    BY DEF IInv, Typed, Registrations
  <2>2. IF v = u THEN lost'[v] = lost[v] + 1 ELSE lost'[v] = lost[v] /\ post'[v] = post[v]
    BY <1>1 DEF IInv, Typed
  <2> QED
    BY <2>1, <2>2
<1> QED
  BY <1>3, <1>4, <1>5 DEF IInv

LEMMA ElsewhereStep ==
  ASSUME IInv, Elsewhere
  PROVE  IInv'
<1>1. UNCHANGED <<known, stored, post, posts, lost, catalog, app, feed, article>>
  BY DEF Elsewhere, tab
<1>2. server' \in ServerState
  <2>1. server \in ServerState
    BY DEF IInv, Typed
  <2>2. ASSUME NEW i \in Analysis, NEW more \in Contents \ {None}, Checkpoint(i, more)
        PROVE  server' \in ServerState
    <3>1. ItemsOf(server, i) \cup more \in SUBSET Article
      BY <2>1, ListingFinite, FeedClientAssumption
    <3>2. server' = [server EXCEPT !.stage[i] = "analyzing", !.items[i] = ItemsOf(server, i) \cup more]
      BY <2>2 DEF Checkpoint
    <3> QED
      BY <2>1, <3>1, <3>2 DEF ServerState, Stage
  <2>3. ASSUME NEW i \in Analysis, NEW stage \in {"completed", "failed"}, Ends(i, stage)
        PROVE  server' \in ServerState
    BY <2>1, <2>3 DEF Ends, ServerState, Stage
  <2>4. ASSUME NEW i \in Analysis, NEW items \in Contents, Replaced(i, items)
        PROVE  server' \in ServerState
    <3>1. items \in (SUBSET Article) \cup {None}
      BY FeedClientAssumption
    <3> QED
      BY <2>1, <2>4, <3>1 DEF Replaced, ServerState, Stage
  <2> QED
    BY <2>2, <2>3, <2>4 DEF Elsewhere
<1>3. Typed'
  BY <1>1, <1>2 DEF IInv, Typed
<1> QED
  BY <1>1, <1>3 DEF IInv, Registrations, FeedShown, DetailShown, feed, article

-----------------------------------------------------------------------------
(* Steps of a call of getFeed.                                             *)

LEMMA PutOK ==
  ASSUME FeedShown, NEW n \in DOMAIN reads, NEW r \in Call, Whole(r),
         r.query = reads[n].query, r.at # "settled" => reads[n].at # "settled",
         Put(n, r), app' = app
  PROVE  FeedShown'
<1>1. reads' = [reads EXCEPT ![n] = r] /\ view' = view
  BY DEF Put
<1>2. DOMAIN reads' = DOMAIN reads /\ reads'[n] = r /\ \A m \in DOMAIN reads : m # n => reads'[m] = reads[m]
  BY <1>1
<1>3. /\ DOMAIN reads \subseteq 1 .. MaxReads
      /\ \A m \in DOMAIN reads :
           /\ reads[m] \in Call /\ Whole(reads[m])
           /\ reads[m].at # "settled" => view.request = m
           /\ view.request = m => reads[m].query = QueryOf(app)
  BY DEF FeedShown, FeedOK
<1>4. \A m \in DOMAIN reads' :
        /\ reads'[m] \in Call /\ Whole(reads'[m])
        /\ reads'[m].at # "settled" => view'.request = m
        /\ view'.request = m => reads'[m].query = QueryOf(app)
  BY <1>1, <1>2, <1>3
<1> QED
  BY <1>1, <1>2, <1>4 DEF FeedShown, FeedOK

(* A call ends, and if it was the one the view waits for the view has      *)
(* something of its query, or an error, instead.                           *)
LEMMA DropOK ==
  ASSUME FeedShown, NEW n \in DOMAIN reads, reads' = Without(reads, n), app' = app,
         IF Current(n)
         THEN /\ view' \in View /\ view'.query = view.query
              /\ view'.items # <<>> => view'.from = view.query
              /\ view'.loading = FALSE /\ view'.request = 0
         ELSE view' = view
  PROVE  FeedShown'
<1>1. DOMAIN reads' = DOMAIN reads \ {n} /\ \A m \in DOMAIN reads' : reads'[m] = reads[m]
  BY WithoutDrops
<1>2. /\ view \in View /\ view.query = QueryOf(app) /\ (view.items # <<>> => view.from = QueryOf(app))
      /\ view.loading <=> view.request \in DOMAIN reads
      /\ DOMAIN reads \subseteq 1 .. MaxReads
      /\ \A m \in DOMAIN reads :
           /\ reads[m] \in Call /\ Whole(reads[m])
           /\ reads[m].at # "settled" => view.request = m
           /\ view.request = m => reads[m].query = QueryOf(app)
  BY DEF FeedShown, FeedOK
<1>3. \A m \in 1 .. MaxReads : m # 0
  BY FeedClientAssumption
<1>4. CASE Current(n)
  <2>1. view.request = n
    BY <1>4 DEF Current
  <2>2. \A m \in DOMAIN reads' : reads'[m].at = "settled" /\ view'.request # m
    BY <1>1, <1>2, <1>3, <1>4, <2>1
  <2> QED
    BY <1>1, <1>2, <1>3, <1>4, <2>2 DEF FeedShown, FeedOK
<1>5. CASE ~Current(n)
  <2>1. view.request # n /\ view' = view
    BY <1>5 DEF Current
  <2> QED
    BY <1>1, <1>2, <2>1 DEF FeedShown, FeedOK
<1> QED
  BY <1>4, <1>5

LEMMA FailReadOK ==
  ASSUME FeedShown, NEW n \in DOMAIN reads, FailRead(n), app' = app
  PROVE  FeedShown'
<1>1. reads' = Without(reads, n)
  BY DEF FailRead
<1>2. view \in View /\ (view.items # <<>> => view.from = view.query) /\ 0 \in 0 .. MaxReads
  BY FeedClientAssumption DEF FeedShown, FeedOK
<1>3. IF Current(n)
      THEN /\ view' \in View /\ view'.query = view.query
           /\ view'.items # <<>> => view'.from = view.query
           /\ view'.loading = FALSE /\ view'.request = 0
      ELSE view' = view
  <2>1. CASE Current(n)
    <3>1. view' = [view EXCEPT !.loading = FALSE, !.request = 0, !.error = TRUE]
      BY <2>1, <1>2 DEF FailRead, Stopped, View
    <3> QED
      BY <1>2, <2>1, <3>1 DEF View
  <2>2. CASE ~Current(n)
    BY <2>2 DEF FailRead
  <2> QED
    BY <2>1, <2>2
<1> QED
  BY <1>1, <1>3, DropOK

LEMMA PolledOK ==
  ASSUME FeedShown, NEW n \in DOMAIN reads, Polled(n), app' = app
  PROVE  FeedShown'
<1> DEFINE r == reads[n]
<1>1. r \in Call /\ Whole(r) /\ r.at = "polling"
  BY DEF FeedShown, FeedOK, Polled
<1>2. CASE Put(n, [r EXCEPT !.at = "reading", !.final = TRUE])
  <2>1. LET new == [r EXCEPT !.at = "reading", !.final = TRUE]
        IN new \in Call /\ Whole(new) /\ new.query = r.query
    BY <1>1 DEF Call, Whole
  <2> QED
    BY <1>1, <1>2, <2>1, PutOK
<1>3. ASSUME NEW failed \in BOOLEAN, Put(n, [r EXCEPT !.at = "reading", !.failed = failed])
      PROVE  FeedShown'
  <2>1. LET new == [r EXCEPT !.at = "reading", !.failed = failed]
        IN new \in Call /\ Whole(new) /\ new.query = r.query
    BY <1>1 DEF Call, Whole
  <2> QED
    BY <1>1, <1>3, <2>1, PutOK
<1>4. CASE Put(n, [r EXCEPT !.at = "waiting"])
  <2>1. LET new == [r EXCEPT !.at = "waiting"]
        IN new \in Call /\ Whole(new) /\ new.query = r.query
    BY <1>1 DEF Call, Whole
  <2> QED
    BY <1>1, <1>4, <2>1, PutOK
<1>5. CASE FailRead(n)
  BY <1>5, FailReadOK
<1>6. (server.stage[r.source] = "failed") \in BOOLEAN
  OBVIOUS
<1> QED
  BY <1>2, <1>3, <1>4, <1>5, <1>6 DEF Polled

LEMMA WaitedOK ==
  ASSUME FeedShown, NEW n \in DOMAIN reads, Waited(n), app' = app
  PROVE  FeedShown'
<1> DEFINE r == reads[n]
           new == [r EXCEPT !.at = "polling", !.checks = @ + 1]
<1>1. r \in Call /\ Whole(r) /\ r.at = "waiting" /\ Put(n, new)
  BY DEF FeedShown, FeedOK, Waited
<1>2. PICK checks \in Nat : r.checks = checks
  BY <1>1 DEF Call
<1>3. checks + 1 \in Nat /\ new = [r EXCEPT !.at = "polling", !.checks = checks + 1]
  BY <1>1, <1>2 DEF Call
<1> HIDE DEF new
<1>4. new \in Call
  BY <1>1, <1>3 DEF Call
<1>5. Whole(new) /\ new.query = r.query
  BY <1>1, <1>3 DEF Call, Whole
<1> QED
  BY <1>1, <1>4, <1>5, PutOK

LEMMA SettledOK ==
  ASSUME FeedShown, NEW n \in DOMAIN reads, Settled(n), app' = app
  PROVE  FeedShown'
<1>1. reads' = Without(reads, n)
  BY DEF Settled
<1>2. /\ view \in View /\ reads[n] \in Call /\ 0 \in 0 .. MaxReads
      /\ Current(n) => reads[n].query = view.query
  BY FeedClientAssumption DEF FeedShown, FeedOK, Current
<1>3. IF Current(n)
      THEN /\ view' \in View /\ view'.query = view.query
           /\ view'.items # <<>> => view'.from = view.query
           /\ view'.loading = FALSE /\ view'.request = 0
      ELSE view' = view
  <2>1. CASE Current(n)
    <3>1. view' = [view EXCEPT !.loading = FALSE, !.request = 0, !.items = reads[n].got, !.from = reads[n].query]
      BY <2>1, <1>2 DEF Settled, Stopped, View
    <3> QED
      BY <1>2, <2>1, <3>1 DEF View, Call
  <2>2. CASE ~Current(n)
    BY <2>2 DEF Settled
  <2> QED
    BY <2>1, <2>2
<1> QED
  BY <1>1, <1>3, DropOK

LEMMA Joined ==
  ASSUME NEW got \in Seq(Article), NEW items \in Seq(Article)
  PROVE  /\ got \o items \in Seq(Article)
         /\ Len(got \o items) = Len(got) + Len(items)
         /\ Range(got \o items) = Range(got) \cup Range(items)
<1> DEFINE all == got \o items
<1>1. all \in Seq(Article) /\ Len(all) = Len(got) + Len(items)
  OBVIOUS
<1>2. /\ \A i \in 1 .. Len(got) : all[i] = got[i] /\ i \in 1 .. Len(all)
      /\ \A i \in 1 .. Len(items) : all[Len(got) + i] = items[i] /\ Len(got) + i \in 1 .. Len(all)
  OBVIOUS
<1>3. ASSUME NEW i \in 1 .. Len(all) PROVE all[i] \in Range(got) \cup Range(items)
  <2>1. CASE i <= Len(got)
    <3>1. i \in DOMAIN got /\ all[i] = got[i]
      BY <1>1, <2>1
    <3> QED
      BY <3>1 DEF Range
  <2>2. CASE i > Len(got)
    <3>1. i - Len(got) \in DOMAIN items /\ all[i] = items[i - Len(got)]
      BY <1>1, <2>2
    <3> QED
      BY <3>1 DEF Range
  <2> QED
    BY <1>1, <2>1, <2>2
<1>4. /\ DOMAIN all = 1 .. Len(all) /\ DOMAIN got = 1 .. Len(got)
      /\ DOMAIN items = 1 .. Len(items)
  BY <1>1
<1> HIDE DEF all
<1>5. Range(all) = Range(got) \cup Range(items)
  <2>1. ASSUME NEW x \in Range(all) PROVE x \in Range(got) \cup Range(items)
    BY <1>3, <1>4 DEF Range
  <2>2. ASSUME NEW x \in Range(got) PROVE x \in Range(all)
    <3>1. PICK i \in 1 .. Len(got) : x = got[i]
      BY <1>4 DEF Range
    <3>2. i \in DOMAIN all /\ all[i] = x
      BY <1>2, <1>4, <3>1
    <3> QED
      BY <3>2 DEF Range
  <2>3. ASSUME NEW x \in Range(items) PROVE x \in Range(all)
    <3>1. PICK i \in 1 .. Len(items) : x = items[i]
      BY <1>4 DEF Range
    <3>2. Len(got) + i \in DOMAIN all /\ all[Len(got) + i] = x
      BY <1>2, <1>4, <3>1
    <3> QED
      BY <3>2 DEF Range
  <2> QED
    BY <2>1, <2>2, <2>3
<1> QED
  BY <1>1, <1>5 DEF all

(* What a call has when it has read one more page.                         *)
Paged(r) ==
  LET listed == ItemsOf(server, r.source)
  IN [r EXCEPT !.got = @ \o PageAt(server, r.source, Len(r.got)).items, !.last = listed,
               !.grew = @ /\ r.last \subseteq listed]

LEMMA PagedOK ==
  ASSUME server \in ServerState, NEW r \in Call, Whole(r), r.at = "reading"
  PROVE  LET page == PageAt(server, r.source, Len(r.got))
         IN /\ Paged(r) \in Call /\ Whole(Paged(r)) /\ Paged(r).query = r.query
            /\ Paged(r).at = "reading"
            /\ ~page.more /\ Sound(Paged(r).got, page.total)
                 => Whole([Paged(r) EXCEPT !.at = "settled"])
<1> DEFINE page == PageAt(server, r.source, Len(r.got))
           listed == ItemsOf(server, r.source)
           s == Paged(r)
<1>1. /\ r.source \in Analysis \cup {Everything} /\ r.got \in Seq(Article) /\ Len(r.got) \in Nat
      /\ r.last \in SUBSET Article /\ r.grew \in BOOLEAN
      /\ r.grew => Range(r.got) \subseteq r.last
  BY DEF Call, Whole
<1>2. listed \in SUBSET Article /\ IsFiniteSet(listed) /\ Cardinality(listed) \in Nat
  BY <1>1, ListingFinite
<1>3. /\ page.items \in Seq(Article) /\ Range(page.items) \subseteq listed
      /\ page.total = Cardinality(listed)
      /\ ~page.more /\ Len(r.got) + Len(page.items) <= page.total
           => Len(r.got) + Len(page.items) = page.total
  BY <1>1, PageOfListing
<1>4. /\ s = [r EXCEPT !.got = r.got \o page.items, !.last = listed,
                       !.grew = r.grew /\ r.last \subseteq listed]
  BY DEF Paged, Call
<1> HIDE DEF page, listed, s
<1>5. /\ r.got \o page.items \in Seq(Article)
      /\ Len(r.got \o page.items) = Len(r.got) + Len(page.items)
      /\ Range(r.got \o page.items) = Range(r.got) \cup Range(page.items)
  BY <1>1, <1>3, Joined
<1>6. (r.grew /\ r.last \subseteq listed) \in BOOLEAN
  BY <1>1
<1>7. /\ s.got = r.got \o page.items /\ s.last = listed /\ s.at = "reading" /\ s.query = r.query
      /\ s.grew => r.grew /\ r.last \subseteq listed
  BY <1>4 DEF Call
<1>8. s \in Call
  BY <1>2, <1>4, <1>5, <1>6 DEF Call
<1>9. s.grew => Range(s.got) \subseteq s.last
  BY <1>1, <1>3, <1>5, <1>7
<1>10. Whole(s)
  BY <1>7, <1>9 DEF Whole
<1>11. ASSUME ~page.more, Sound(s.got, page.total), s.grew
       PROVE  Range(s.got) = s.last
  <2>1. Len(s.got) = Cardinality(listed)
    BY <1>3, <1>5, <1>7, <1>11 DEF Sound
  <2>2. Cardinality(Range(s.got)) = Cardinality(listed)
    BY <1>11, <2>1 DEF Sound
  <2>3. Range(s.got) \in SUBSET listed
    BY <1>7, <1>9, <1>11
  <2> QED
    BY <1>2, <1>7, <2>2, <2>3, FS_Subset
<1>12. ASSUME ~page.more, Sound(s.got, page.total)
       PROVE  Whole([s EXCEPT !.at = "settled"])
  <2>1. LET new == [s EXCEPT !.at = "settled"]
        IN new.grew = s.grew /\ new.got = s.got /\ new.last = s.last
    BY <1>8 DEF Call
  <2> QED
    BY <1>9, <1>11, <1>12, <2>1 DEF Whole
<1>13. /\ s \in Call /\ Whole(s) /\ s.query = r.query /\ s.at = "reading"
       /\ ~page.more /\ Sound(s.got, page.total) => Whole([s EXCEPT !.at = "settled"])
  BY <1>7, <1>8, <1>10, <1>12
<1> QED
  BY <1>13 DEF page, s

LEMMA PageReadOK ==
  ASSUME FeedShown, server \in ServerState, NEW n \in DOMAIN reads, PageRead(n), app' = app
  PROVE  FeedShown'
<1> DEFINE r == reads[n]
           page == PageAt(server, r.source, Len(r.got))
           s == Paged(r)
           shown == [view EXCEPT !.items = s.got, !.from = r.query]
           again == [r EXCEPT !.at = "waiting", !.got = <<>>, !.last = {}, !.grew = TRUE]
<1>1. r \in Call /\ Whole(r) /\ r.at = "reading"
  BY DEF FeedShown, FeedOK, PageRead
<1>2. /\ s \in Call /\ Whole(s) /\ s.query = r.query /\ s.at = "reading"
      /\ ~page.more /\ Sound(s.got, page.total) => Whole([s EXCEPT !.at = "settled"])
  BY <1>1, PagedOK
<1>3. \/ Put(n, s)
      \/ FailRead(n)
      \/ ~page.more /\ Sound(s.got, page.total) /\ Put(n, [s EXCEPT !.at = "settled"])
      \/ reads' = Without(reads, n) /\ view' = [Stopped(shown) EXCEPT !.error = TRUE]
      \/ reads' = [reads EXCEPT ![n] = again] /\ view' = shown
  BY DEF PageRead, Paged
<1> HIDE DEF s, page
<1>4. CASE Put(n, s)
  BY <1>1, <1>2, <1>4, PutOK
<1>5. CASE FailRead(n)
  BY <1>5, FailReadOK
<1>6. CASE ~page.more /\ Sound(s.got, page.total) /\ Put(n, [s EXCEPT !.at = "settled"])
  <2> DEFINE new == [s EXCEPT !.at = "settled"]
  <2>1. new \in Call /\ new.query = r.query /\ new.at = "settled"
    BY <1>2 DEF Call
  <2>2. Whole(new) /\ Put(n, new)
    BY <1>2, <1>6
  <2> HIDE DEF new
  <2> QED
    BY <1>1, <2>1, <2>2, PutOK
<1>7. /\ view \in View /\ view.query = QueryOf(app) /\ (view.items # <<>> => view.from = QueryOf(app))
      /\ view.loading <=> view.request \in DOMAIN reads
      /\ DOMAIN reads \subseteq 1 .. MaxReads
      /\ \A m \in DOMAIN reads :
           /\ reads[m] \in Call /\ Whole(reads[m])
           /\ reads[m].at # "settled" => view.request = m
           /\ view.request = m => reads[m].query = QueryOf(app)
  BY DEF FeedShown, FeedOK
<1>8. view.request = n /\ r.query = view.query
  BY <1>1, <1>7
<1>9. /\ shown \in View /\ shown.query = view.query /\ shown.from = view.query
      /\ shown.loading = view.loading /\ shown.request = view.request
  BY <1>2, <1>7, <1>8 DEF View, Call
<1> HIDE DEF shown
<1>10. CASE reads' = Without(reads, n) /\ view' = [Stopped(shown) EXCEPT !.error = TRUE]
  <2>1. view' = [shown EXCEPT !.loading = FALSE, !.request = 0, !.error = TRUE]
    BY <1>9, <1>10 DEF Stopped, View
  <2>2. 0 \in 0 .. MaxReads
    BY FeedClientAssumption
  <2>3. /\ view' \in View /\ view'.query = view.query /\ view'.from = view.query
        /\ view'.loading = FALSE /\ view'.request = 0
    BY <1>9, <2>1, <2>2 DEF View
  <2> QED
    BY <1>8, <1>10, <2>3, DropOK DEF Current
<1>11. CASE reads' = [reads EXCEPT ![n] = again] /\ view' = shown
  <2>1. again \in Call /\ again.query = r.query
    BY <1>1, EmptySeq DEF Call
  <2>2. Range(<<>>) = {}
    BY DEF Range
  <2>3. Whole(again)
    BY <1>1, <2>2 DEF Call, Whole
  <2> HIDE DEF again
  <2>4. /\ DOMAIN reads' = DOMAIN reads /\ reads'[n] = again
        /\ \A m \in DOMAIN reads : m # n => reads'[m] = reads[m]
    BY <1>11
  <2>5. \A m \in DOMAIN reads' :
          /\ reads'[m] \in Call /\ Whole(reads'[m])
          /\ reads'[m].at # "settled" => view'.request = m
          /\ view'.request = m => reads'[m].query = QueryOf(app)
    BY <1>7, <1>8, <1>9, <1>11, <2>1, <2>3, <2>4
  <2> QED
    BY <1>7, <1>9, <1>11, <2>4, <2>5 DEF FeedShown, FeedOK
<1> QED
  BY <1>3, <1>4, <1>5, <1>6, <1>10, <1>11

LEMMA ReadStep ==
  ASSUME IInv, NEW n, Read(n)
  PROVE  IInv'
<1>1. /\ n \in DOMAIN reads
      /\ UNCHANGED <<server, known, stored, post, posts, lost, catalog, app, detail, asked>>
  BY DEF Read, tab, article
<1>2. FeedShown /\ server \in ServerState
  BY DEF IInv, Typed
<1>3. FeedShown'
  BY <1>1, <1>2, PolledOK, WaitedOK, PageReadOK, FailReadOK, SettledOK DEF Read, ReadFails
<1>4. DetailShown'
  BY <1>1 DEF IInv, DetailShown
<1> QED
  BY <1>1, <1>3, <1>4 DEF IInv, Typed, Registrations

-----------------------------------------------------------------------------
(* Steps of a call of getDetail.                                           *)

(* A call ends, and if it was the one the detail waits for the detail has  *)
(* what belongs to its target, or an error, instead.                       *)
LEMMA AskEnds ==
  ASSUME DetailShown, NEW n \in DOMAIN asked, asked' = Without(asked, n),
         UNCHANGED <<app, catalog, known>>,
         IF detail.request = n
         THEN /\ detail' \in Detail
              /\ detail'.item # None => detail'.item = TargetOf(app, catalog)
              /\ detail'.loading = FALSE /\ detail'.request = 0
         ELSE detail' = detail
  PROVE  DetailShown'
<1> DEFINE t == TargetOf(app, catalog)
<1>1. DOMAIN asked' = DOMAIN asked \ {n} /\ \A m \in DOMAIN asked' : asked'[m] = asked[m]
  BY WithoutDrops
<1>2. /\ detail \in Detail /\ (detail.item # None => detail.item = t)
      /\ detail.loading <=> detail.request \in DOMAIN asked
      /\ DOMAIN asked \subseteq 1 .. MaxReads
      /\ \A m \in DOMAIN asked :
           /\ asked[m] \in Question
           /\ asked[m].at = "asking" => detail.request = m
           /\ asked[m].at = "settled" => asked[m].got = asked[m].target
           /\ detail.request = m => asked[m].target = t
  BY DEF DetailShown, DetailOK
<1>3. t' = t
  OBVIOUS
<1> HIDE DEF t
<1>4. \A m \in 1 .. MaxReads : m # 0
  BY FeedClientAssumption
<1>5. CASE detail.request = n
  <2>1. \A m \in DOMAIN asked' : asked'[m].at # "asking" /\ detail'.request # m
    BY <1>1, <1>2, <1>4, <1>5
  <2>2. DetailOK(detail', asked', t)
    BY <1>1, <1>2, <1>4, <1>5, <2>1 DEF DetailOK, t
  <2> QED
    BY <1>3, <2>2 DEF DetailShown, t
<1>6. CASE detail.request # n
  <2>1. DetailOK(detail', asked', t)
    BY <1>1, <1>2, <1>6 DEF DetailOK
  <2> QED
    BY <1>3, <2>1 DEF DetailShown, t
<1> QED
  BY <1>5, <1>6

LEMMA AskStep ==
  ASSUME IInv, NEW n, Ask(n)
  PROVE  IInv'
<1> DEFINE t == TargetOf(app, catalog)
           q == asked[n]
<1>1. /\ n \in DOMAIN asked
      /\ UNCHANGED <<server, known, stored, post, posts, lost, catalog, app, view, reads>>
  BY DEF Ask, tab, feed
<1>2. /\ DetailShown /\ q \in Question
      /\ q.at = "asking" => detail.request = n
      /\ q.at = "settled" => q.got = q.target
      /\ detail.request = n => q.target = t
  BY <1>1 DEF IInv, DetailShown, DetailOK
<1>3. 0 \in 0 .. MaxReads
  BY FeedClientAssumption
<1>4. ASSUME q.at = "asking", asked' = Without(asked, n), detail' = [NoDetail EXCEPT !.error = TRUE]
      PROVE  DetailShown'
  <2>1. /\ detail' \in Detail /\ detail'.item = None
        /\ detail'.loading = FALSE /\ detail'.request = 0
    BY <1>3, <1>4 DEF NoDetail, Detail
  <2> QED
    BY <1>1, <1>2, <1>4, <2>1, AskEnds
<1>5. ASSUME q.at = "asking", detail' = detail,
             asked' = [asked EXCEPT ![n].at = "settled", ![n].got = asked[n].target]
      PROVE  DetailShown'
  <2> DEFINE new == [q EXCEPT !.at = "settled", !.got = q.target]
  <2>1. /\ DOMAIN asked' = DOMAIN asked /\ asked'[n] = new
        /\ \A m \in DOMAIN asked : m # n => asked'[m] = asked[m]
    BY <1>1, <1>2, <1>5 DEF Question
  <2>2. new \in Question /\ new.at = "settled" /\ new.got = new.target /\ new.target = q.target
    BY <1>2 DEF Question
  <2> HIDE DEF new
  <2>3. TargetOf(app, catalog)' = TargetOf(app, catalog)
    BY <1>1
  <2>4. DetailOK(detail', asked', t)
    BY <1>1, <1>2, <1>5, <2>1, <2>2 DEF DetailShown, DetailOK
  <2> QED
    BY <2>3, <2>4 DEF DetailShown
<1>6. ASSUME ItemArrives(n)
      PROVE  DetailShown'
  <2>1. q.at = "settled" /\ asked' = Without(asked, n)
    BY <1>6 DEF ItemArrives
  <2>2. CASE detail.request = n
    <3>1. detail' = [NoDetail EXCEPT !.item = q.target]
      BY <1>2, <1>6, <2>1, <2>2 DEF ItemArrives
    <3>2. q.target \in Target
      BY <1>2 DEF Question
    <3>3. /\ detail' \in Detail /\ detail'.item = t
          /\ detail'.loading = FALSE /\ detail'.request = 0
      BY <1>2, <1>3, <2>2, <3>1, <3>2 DEF NoDetail, Detail
    <3> QED
      BY <1>1, <1>2, <2>1, <2>2, <3>3, AskEnds
  <2>3. CASE detail.request # n
    <3>1. detail' = detail
      BY <1>6, <2>3 DEF ItemArrives
    <3> QED
      BY <1>1, <1>2, <2>1, <2>3, <3>1, AskEnds
  <2> QED
    BY <2>2, <2>3
<1>7. DetailShown'
  <2>1. CASE AskedItem(n)
    BY <1>4, <1>5, <2>1 DEF AskedItem
  <2>2. CASE AskFails(n)
    BY <1>4, <2>2 DEF AskFails
  <2> QED
    BY <1>6, <2>1, <2>2 DEF Ask
<1>8. FeedShown'
  BY <1>1 DEF IInv, FeedShown
<1> QED
  BY <1>1, <1>7, <1>8 DEF IInv, Typed, Registrations

-----------------------------------------------------------------------------
LEMMA NextPreserves == IInv /\ [Next]_vars => IInv'
<1> SUFFICES ASSUME IInv, [Next]_vars PROVE IInv'
  OBVIOUS
<1>1. CASE Reader
  BY <1>1, GoStep, OpenArticleStep, RetryStep, SubmitStep, OpenSavedStep, CatalogStep, ReloadTabStep
     DEF Reader
<1>2. CASE Catalog
  BY <1>2, CatalogStep, CatalogAnsweredStep DEF Catalog
<1>3. ASSUME NEW u \in Url, Post(u) PROVE IInv'
  BY <1>3, AcceptedStep, AnsweredStep, PostFailsStep DEF Post
<1>4. ASSUME NEW n \in 1 .. MaxReads, Read(n) \/ Ask(n) PROVE IInv'
  BY <1>4, ReadStep, AskStep
<1>5. CASE Elsewhere
  BY <1>5, ElsewhereStep
<1>6. CASE UNCHANGED vars
  BY <1>6 DEF vars, tab, feed, article, IInv, Typed, Registrations, FeedShown, DetailShown
<1> QED
  BY <1>1, <1>2, <1>3, <1>4, <1>5, <1>6 DEF Next, Rest

-----------------------------------------------------------------------------
(* Whatever the tab, the service and its other clients do, in whatever     *)
(* order the answers come: the state of the tab is typed, a call that      *)
(* waits is the one its view waits for, and nobody is registered twice     *)
(* (IInv).                                                                 *)
THEOREM Inductive == Spec => []IInv
<1>1. Init => IInv
  BY InitEstablishes
<1>2. IInv /\ [Next]_vars => IInv'
  BY NextPreserves
<1> QED
  BY <1>1, <1>2, PTL DEF Spec

(* The list on the screen is of the query that is looked at, the detail of *)
(* the article that is looked at, and a spinner turns for a request that   *)
(* is under way (useFeed.ts and useFeedDetail.ts).                         *)
THEOREM ShownWhereItBelongs == Spec => []ShownBelongs
<1>1. IInv => ShownBelongs
  <2> SUFFICES ASSUME IInv PROVE ShownBelongs
    OBVIOUS
  <2>1. TypeOK
    BY DEF IInv, Typed, FeedShown, FeedOK, DetailShown, DetailOK, TypeOK, Registry, CatalogState, AppState, Call
  <2> QED
    BY <2>1 DEF IInv, FeedShown, FeedOK, DetailShown, DetailOK, ShownBelongs
<1> QED
  BY <1>1, Inductive, PTL

(* A repository is registered again only when an answer was lost: callers  *)
(* share the request under way, and an answer is kept for a reloaded tab   *)
(* (registerRepository of feedApi.ts and sessionStorage).                  *)
THEOREM OneRegistration == Spec => []RegisteredOnce
<1>1. IInv => RegisteredOnce
  BY DEF IInv, Registrations, RegisteredOnce
<1> QED
  BY <1>1, Inductive, PTL

(* What a call that read all its pages takes for the whole list is the     *)
(* list at the last page, if the list only grew between two pages          *)
(* (readFeed of feedApi.ts).                                               *)
THEOREM NothingLostSilently == Spec => []NoSilentLoss
<1>1. IInv => NoSilentLoss
  BY DEF IInv, FeedShown, FeedOK, Whole, NoSilentLoss
<1> QED
  BY <1>1, Inductive, PTL
=============================================================================

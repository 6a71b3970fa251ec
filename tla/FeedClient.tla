----------------------------- MODULE FeedClient -----------------------------
(***************************************************************************)
(* The live application in a browser tab (frontend/src: ApiApp.vue,        *)
(* useFeed.ts, useFeedDetail.ts, feedApi.ts) and the answers it gets from  *)
(* the live service (server/live/http.go).  The reader moves between the   *)
(* feed of all articles, the feed of a repository and single articles,     *)
(* registers repositories, opens saved analyses and reloads the tab while  *)
(* requests are under way; other clients and the workers change what the   *)
(* service lists between any two answers.                                  *)
(*                                                                         *)
(* One step is one answer with the synchronous code it runs, up to the     *)
(* next await; a settled read and its arrival in the view are two steps.   *)
(* An abort drops a request that is not answered.                          *)
(*                                                                         *)
(* Abstracted: an article is its rank in the order of a listing; filters   *)
(* and sorting run on what was read and are left out, and so is the split  *)
(* view: a detail is read on the page of its article.  Of an analysis the  *)
(* tab polls the job it was given; later jobs for it show only in the      *)
(* articles it lists.  The service accepts registrations (its catalog says *)
(* so), and sessionStorage works and keeps every one of them.              *)
(***************************************************************************)
EXTENDS Naturals, Sequences, FiniteSets, Functions

CONSTANTS
  Url,            \* repositories, as the form takes them
  Analysis,       \* repository ids of the service: a URL with a ref
  UrlOf,          \* the URL of an analysis
  HeadOf,         \* the analysis that a registration of the URL asks for
  Article,        \* articles by rank: 1 is the newest
  Linked,         \* the articles that links to the application are about
  Servers,        \* what the service may hold at first
  Contents,       \* what a checkpoint may add, and a later job of an analysis list
  PageSize,       \* the service's limit, or listLimit
  MaxJobChecks,   \* 60
  MaxMoves,       \* bound: what the reader does and others change at the service
  MaxReads,       \* bound: reads under way at once
  Everything,     \* the query of the feed of all articles
  None

Stage == {"absent", "queued", "analyzing", "completed", "failed"}

ASSUME FeedClientAssumption ==
  /\ UrlOf \in [Analysis -> Url] /\ HeadOf \in [Url -> Analysis]
  /\ \A u \in Url : UrlOf[HeadOf[u]] = u
  /\ Article \subseteq Nat /\ IsFiniteSet(Article) /\ Linked \subseteq Article
  /\ Servers \subseteq [stage : [Analysis -> Stage], items : [Analysis -> (SUBSET Article) \cup {None}]]
  /\ Contents \subseteq (SUBSET Article) \cup {None}
  /\ PageSize \in Nat \ {0} /\ MaxJobChecks \in Nat \ {0} /\ MaxReads \in Nat
  /\ Everything \notin Url /\ Everything \notin Analysis
  /\ None \notin Url /\ None \notin Analysis /\ None \notin Article

VARIABLES
  server,    \* the service: the stage of the job, and the articles, of each analysis
  known,     \* registrations of the tab
  stored,    \* registrations in sessionStorage
  post,      \* the registration request under way for a URL
  posts,     \* history: registration requests per URL
  lost,      \* history: those whose answer never came
  catalog,   \* the saved analyses: loading or not, the list, readOnly
  app,       \* page, article, list scope, active repository, needsRegistration, busy form
  view,      \* useFeed
  reads,     \* calls of getFeed under way
  detail,    \* useFeedDetail
  asked,     \* calls of getDetail under way
  moves

tab == <<known, stored, post, posts, lost>>
feed == <<view, reads>>
article == <<detail, asked>>
vars == <<server, tab, catalog, app, feed, article, moves>>

-----------------------------------------------------------------------------
(* What the application derives from its state: computed values.           *)

(* acquisitionQuery: a repository list without a repository is None.       *)
QueryOf(a) == IF a.scope = "all" THEN Everything ELSE a.active

EnabledOf(a, c) == c.state # "loading" /\ a.page # "article" /\ QueryOf(a) # None

(* repositoryUrl: the repository that the page is about.                   *)
RepositoryOf(a) ==
  CASE a.page = "article" /\ a.from # Everything -> a.from
    [] a.page = "repositories" -> a.active
    [] OTHER -> None

(* needsRegistration reads the registrations, which do not tell it of a    *)
(* change: it is computed when registrationVersion is bumped, or for       *)
(* another repositoryUrl, and keeps its value until then.                  *)
Bumped(a, k) == [a EXCEPT !.missing = RepositoryOf(a) # None /\ k[RepositoryOf(a)] = None]
Moved(a) == IF RepositoryOf(a) = RepositoryOf(app) THEN a ELSE Bumped(a, known)

(* detailTarget: an article page that does not ask for a registration.     *)
TargetOf(a, c) ==
  IF a.page = "article" /\ c.state # "loading" /\ ~a.missing THEN <<a.article, a.from>> ELSE None

-----------------------------------------------------------------------------
(* What the service answers.                                               *)

Reported(s) == {i \in Analysis : s.items[i] # None}
ItemsOf(s, source) ==
  IF source = Everything THEN UNION {s.items[i] : i \in Reported(s)}
  ELSE IF s.items[source] = None THEN {} ELSE s.items[source]

(* A listing, newest first.                                                *)
InOrder(S) ==
  CHOOSE all \in [1 .. Cardinality(S) -> S] : \A i, j \in 1 .. Cardinality(S) : i < j => all[i] < all[j]

(* One page of a listing, and whether there is a next one.                 *)
PageAt(s, source, offset) ==
  LET all == InOrder(ItemsOf(s, source))
      end == IF offset + PageSize < Len(all) THEN offset + PageSize ELSE Len(all)
  IN [items |-> SubSeq(all, offset + 1, end), total |-> Len(all), more |-> end < Len(all)]

-----------------------------------------------------------------------------
(* useFeed and useFeedDetail: a reload replaces the request under way.     *)

NoView == [query |-> None, items |-> <<>>, from |-> None, loading |-> FALSE,
           error |-> FALSE, request |-> 0]
NoDetail == [item |-> None, loading |-> FALSE, error |-> FALSE, request |-> 0]

Free(running) == 1 .. MaxReads \ DOMAIN running
Newest(running) == CHOOSE n \in Free(running) : TRUE
With(running, n, r) == [m \in DOMAIN running \cup {n} |-> IF m = n THEN r ELSE running[m]]
Without(running, n) == Restrict(running, DOMAIN running \ {n})

(* An abort ends the calls that wait for an answer; one that has its       *)
(* result cannot be taken back.                                            *)
Aborted(running) == Restrict(running, {n \in DOMAIN running : running[n].at = "settled"})

(* getFeed up to its first request.  A saved analysis is read at once; for *)
(* any other repository the job is polled first.                           *)
Opening(q, k, c) ==
  LET source == IF q = Everything THEN Everything ELSE k[q]
      final == q = Everything \/ source \in c.saved
  IN [query |-> q, source |-> source, at |-> IF final THEN "reading" ELSE "polling",
      checks |-> 1, final |-> final, failed |-> FALSE, got |-> <<>>, last |-> {}, grew |-> TRUE]

(* The list of another query is emptied before the next rendering.         *)
Cleared(v, q) == IF v.query = q THEN v ELSE [v EXCEPT !.query = q, !.items = <<>>,
                                                      !.from = None, !.error = FALSE]

(* Mutant of Stopped: a view that is disabled keeps its spinner.           *)
MutantStopped(v) == [v EXCEPT !.request = 0]

Stopped(v) == [v EXCEPT !.loading = FALSE, !.request = 0]

(* reload, for the application state a, the catalog c and the              *)
(* registrations k it finds.                                               *)
ReloadFeed(a, c, k) ==
  LET q == QueryOf(a)
      left == Aborted(reads)
  IN IF EnabledOf(a, c)
     THEN /\ Free(left) # {}
          /\ view' = [Cleared(view, q) EXCEPT !.loading = TRUE, !.error = FALSE,
                                              !.request = Newest(left)]
          /\ reads' = With(left, Newest(left), Opening(q, k, c))
     ELSE view' = Stopped(Cleared(view, q)) /\ reads' = left

ReloadDetail(a, c, k) ==
  LET t == TargetOf(a, c)
      left == Aborted(asked)
  IN IF t = None THEN detail' = NoDetail /\ asked' = left
     ELSE /\ Free(left) # {}
          /\ detail' = [NoDetail EXCEPT !.loading = TRUE, !.request = Newest(left)]
          /\ asked' = With(left, Newest(left),
                           [target |-> t, at |-> "asking", got |-> None,
                            source |-> IF t[2] = Everything THEN Everything ELSE k[t[2]]])

(* The synchronous watchers: a reload when what they watch changes.        *)
WatchFeed(a, c, k) ==
  IF QueryOf(a) = QueryOf(app) /\ EnabledOf(a, c) = EnabledOf(app, catalog)
  THEN UNCHANGED feed ELSE ReloadFeed(a, c, k)

WatchDetail(a, c, k) ==
  IF TargetOf(a, c) = TargetOf(app, catalog)
  THEN UNCHANGED article ELSE ReloadDetail(a, c, k)

Becomes(a, c, k) ==
  /\ app' = a /\ catalog' = c /\ known' = k
  /\ WatchFeed(a, c, k) /\ WatchDetail(a, c, k)

-----------------------------------------------------------------------------
(* A tab is opened, and what the reader does in it.                        *)

(* A route of the tab's address.                                           *)
Route(page, i, from) == [page |-> page, article |-> i, from |-> from]
Routes == {Route(page, None, Everything) : page \in {"feed", "repositories"}}
            \cup {Route("article", i, from) : i \in Linked, from \in Url \cup {Everything}}

(* initialRepository is the repository of the article the tab opens on; it *)
(* becomes the active one when it is known, else the stored one is.        *)
OpenedOn(route, k, active) ==
  LET link == IF route.from = Everything THEN None ELSE route.from
      chosen == IF link # None /\ k[link] # None THEN link ELSE active
  IN Bumped([page |-> route.page, article |-> route.article, from |-> route.from, link |-> link,
             scope |-> IF route.page = "repositories" THEN "repository" ELSE "all",
             active |-> IF chosen # None /\ k[chosen] # None THEN chosen ELSE None,
             missing |-> FALSE, busy |-> None], k)
NoCatalog == [state |-> "loading", saved |-> {}, readOnly |-> TRUE]
NobodyKnown == [u \in Url |-> None]

Init ==
  /\ server \in Servers
  /\ known = NobodyKnown /\ stored = NobodyKnown
  /\ post = [u \in Url |-> "none"]
  /\ posts = [u \in Url |-> 0] /\ lost = [u \in Url |-> 0]
  /\ catalog = NoCatalog /\ \E route \in Routes : app = OpenedOn(route, known, None)
  /\ view = [NoView EXCEPT !.query = QueryOf(app)] /\ reads = <<>>
  /\ detail = NoDetail /\ asked = <<>>
  /\ moves = 0

Moves == moves < MaxMoves /\ moves' = moves + 1

(* A change of route abandons the form; the list pages set the scope.      *)
Routed(page) == [app EXCEPT !.page = page, !.article = None, !.from = Everything,
                            !.scope = IF page = "feed" THEN "all" ELSE "repository",
                            !.busy = None]

Go(page) ==
  /\ Moves /\ page \in {"feed", "repositories"} \ {app.page}
  /\ Becomes(Moved(Routed(page)), catalog, known)
  /\ UNCHANGED <<server, stored, post, posts, lost>>

(* An article of the list, or a link to an article of a repository.        *)
OpenArticle(i, from) ==
  /\ Moves
  /\ \/ app.page # "article" /\ i \in Range(view.items) /\ from = view.query
     \/ i \in Linked /\ from \in Url
  /\ <<app.page, app.article, app.from>> # <<"article", i, from>>
  /\ LET a == [app EXCEPT !.page = "article", !.article = i, !.from = from, !.busy = None,
                          !.active = IF from # Everything /\ known[from] # None THEN from ELSE @]
     IN Becomes(Moved(a), catalog, known)
  /\ UNCHANGED <<server, stored, post, posts, lost>>

Retry ==
  /\ Moves
  /\ \/ view.error /\ app.page # "article" /\ ReloadFeed(app, catalog, known) /\ UNCHANGED article
     \/ detail.error /\ ReloadDetail(app, catalog, known) /\ UNCHANGED feed
  /\ UNCHANGED <<server, tab, catalog, app>>

(* setRepository once it has the registration k[u].                        *)
Registered(u, k) ==
  LET a == Bumped([app EXCEPT !.active = u, !.busy = None,
                              !.from = IF app.page = "article" THEN u ELSE @], k)
  IN IF app.page # "article" /\ app.active = u
     THEN /\ app' = a /\ known' = k /\ UNCHANGED catalog
          /\ ReloadFeed(a, catalog, k) /\ WatchDetail(a, catalog, k)
     ELSE Becomes(a, catalog, k)

(* The form of the repositories page stays while the catalog is read       *)
(* again; a submission is refused while one is under way.                  *)
FormShown ==
  /\ ~catalog.readOnly /\ app.busy = None
  /\ \/ app.page = "repositories"
     \/ app.page = "article" /\ app.missing /\ catalog.state # "loading"

(* Mutant of Posting: a request under way is not shared.                   *)
MutantPosting(u) == TRUE

(* registerRepository sends a request of its own when none is under way.   *)
Posting(u) == post[u] = "none"

Submit(u) ==
  /\ Moves /\ FormShown
  /\ IF known[u] # None THEN Registered(u, known) /\ UNCHANGED <<post, posts>>
     ELSE /\ app' = [app EXCEPT !.busy = u]
          /\ IF Posting(u) THEN post' = [post EXCEPT ![u] = "sent"] /\ posts' = [posts EXCEPT ![u] = @ + 1]
             ELSE UNCHANGED <<post, posts>>
          /\ UNCHANGED <<known, catalog, feed, article>>
  /\ UNCHANGED <<server, stored, lost>>

(* openSavedAnalysis: the analysis becomes the registration of its URL.    *)
OpenSaved(i) ==
  LET u == UrlOf[i]
      k == [known EXCEPT ![u] = i]
      a == Bumped([app EXCEPT !.active = u, !.page = "repositories", !.scope = "repository",
                              !.busy = IF app.page = "repositories" THEN @ ELSE None], k)
  IN /\ Moves /\ catalog.state = "ready" /\ i \in catalog.saved /\ app.page # "article"
     /\ stored' = k
     /\ app' = a /\ known' = k /\ UNCHANGED catalog
     /\ ReloadFeed(a, catalog, k) /\ WatchDetail(a, catalog, k)
     /\ UNCHANGED <<server, post, posts, lost>>

RefreshCatalog ==
  /\ Moves /\ catalog.state # "loading" /\ app.page # "article"
  /\ Becomes(app, [catalog EXCEPT !.state = "loading"], known)
  /\ UNCHANGED <<server, stored, post, posts, lost>>

(* The tab is reloaded: only sessionStorage remains, and no request of the *)
(* old page is ever answered.                                              *)
ReloadTab ==
  /\ Moves
  /\ known' = stored
  /\ post' = [u \in Url |-> "none"]
  /\ lost' = [u \in Url |-> IF post[u] = "none" THEN lost[u] ELSE lost[u] + 1]
  /\ catalog' = NoCatalog
  /\ app' = OpenedOn(Route(app.page, app.article, app.from), stored, app.active)
  /\ view' = [NoView EXCEPT !.query = QueryOf(app')] /\ reads' = <<>>
  /\ detail' = NoDetail /\ asked' = <<>>
  /\ UNCHANGED <<server, stored, posts>>

-----------------------------------------------------------------------------
(* The catalog and the registrations are answered.                         *)

(* A saved analysis becomes the registration of its URL unless the one     *)
(* that is known is saved too; the latest saved one wins.                  *)
Restored(k, saved) ==
  {f \in [Url -> Analysis \cup {None}] :
     \A u \in Url : LET here == {i \in saved : UrlOf[i] = u}
                    IN IF here = {} \/ k[u] \in here THEN f[u] = k[u] ELSE f[u] \in here}

CatalogAnswered ==
  /\ catalog.state = "loading"
  /\ \E k \in Restored(known, Reported(server)) :
       Becomes(Bumped([app EXCEPT !.active = IF app.link # None /\ k[app.link] # None
                                             THEN app.link ELSE @], k),
               [state |-> "ready", saved |-> Reported(server), readOnly |-> FALSE], k)
  /\ UNCHANGED <<server, stored, post, posts, lost, moves>>

CatalogFails ==
  /\ catalog.state = "loading"
  /\ Becomes(app, [catalog EXCEPT !.state = "failed"], known)
  /\ UNCHANGED <<server, stored, post, posts, lost, moves>>

(* The service registers the analysis, or finds it registered.             *)
Accepted(u) ==
  /\ post[u] = "sent"
  /\ post' = [post EXCEPT ![u] = "accepted"]
  /\ server' = [server EXCEPT !.stage[HeadOf[u]] = IF @ = "absent" THEN "queued" ELSE @]
  /\ UNCHANGED <<known, stored, posts, lost, catalog, app, feed, article, moves>>

(* The answer is kept whether or not anybody still waits for it; but no    *)
(* page learns of it when the form was abandoned.                          *)
Keep(u) == [known EXCEPT ![u] = HeadOf[u]]

Answered(u) ==
  /\ post[u] = "accepted"
  /\ post' = [post EXCEPT ![u] = "none"]
  /\ stored' = Keep(u)
  /\ \/ app.busy = u /\ Registered(u, Keep(u))
     \/ app.busy # u /\ known' = Keep(u) /\ UNCHANGED <<catalog, app, feed, article>>
  /\ UNCHANGED <<server, posts, lost, moves>>

(* Refused, timed out, or the answer is lost on its way.                   *)
PostFails(u) ==
  /\ post[u] # "none"
  /\ post' = [post EXCEPT ![u] = "none"]
  /\ lost' = [lost EXCEPT ![u] = @ + 1]
  /\ app' = [app EXCEPT !.busy = IF @ = u THEN None ELSE @]
  /\ UNCHANGED <<server, known, stored, posts, catalog, feed, article, moves>>

-----------------------------------------------------------------------------
(* Calls of getFeed.                                                       *)

Put(n, r) == reads' = [reads EXCEPT ![n] = r] /\ UNCHANGED view

(* Mutant of Current: the result of a superseded call is taken.            *)
MutantCurrent(n) == n \in DOMAIN reads

(* isCurrent: the call is the one the view waits for.                      *)
Current(n) == view.request = n

FailRead(n) ==
  /\ reads' = Without(reads, n)
  /\ view' = IF Current(n) THEN [Stopped(view) EXCEPT !.error = TRUE] ELSE view

Polled(n) ==
  LET r == reads[n]
      stage == server.stage[r.source]
      available == ItemsOf(server, r.source) # {}
  IN /\ r.at = "polling"
     /\ \/ stage = "completed" /\ Put(n, [r EXCEPT !.at = "reading", !.final = TRUE])
        \/ stage # "completed" /\ available /\ Put(n, [r EXCEPT !.at = "reading", !.failed = (stage = "failed")])
        \/ stage = "failed" /\ ~available /\ FailRead(n)
        \/ /\ stage \notin {"completed", "failed"} /\ ~available
           /\ IF r.checks < MaxJobChecks THEN Put(n, [r EXCEPT !.at = "waiting"]) ELSE FailRead(n)

Waited(n) ==
  /\ reads[n].at = "waiting"
  /\ Put(n, [reads[n] EXCEPT !.at = "polling", !.checks = @ + 1])

(* Mutant of Sound: an article may be there twice.                         *)
MutantSound(items, total) == Len(items) <= total

(* What readFeed makes sure of when it has every page.                     *)
Sound(items, total) == Len(items) <= total /\ Cardinality(Range(items)) = Len(items)

PageRead(n) ==
  LET r == reads[n]
      page == PageAt(server, r.source, Len(r.got))
      listed == ItemsOf(server, r.source)
      s == [r EXCEPT !.got = @ \o page.items, !.last = listed, !.grew = @ /\ r.last \subseteq listed]
      shown == [view EXCEPT !.items = s.got, !.from = r.query]
  IN /\ r.at = "reading"
     /\ \/ page.more /\ Put(n, s)
        \/ ~page.more /\ ~Sound(s.got, page.total) /\ FailRead(n)
        \/ ~page.more /\ Sound(s.got, page.total) /\ r.final /\ Put(n, [s EXCEPT !.at = "settled"])
        \* partial results are shown, and the job is checked again
        \/ /\ ~page.more /\ Sound(s.got, page.total) /\ ~r.final
           /\ IF r.failed \/ r.checks = MaxJobChecks
              THEN reads' = Without(reads, n) /\ view' = [Stopped(shown) EXCEPT !.error = TRUE]
              ELSE /\ reads' = [reads EXCEPT ![n] = [r EXCEPT !.at = "waiting", !.got = <<>>, !.last = {}, !.grew = TRUE]]
                   /\ view' = shown

ReadFails(n) == reads[n].at \in {"polling", "reading"} /\ FailRead(n)

Settled(n) ==
  /\ reads[n].at = "settled"
  /\ reads' = Without(reads, n)
  /\ view' = IF Current(n) THEN [Stopped(view) EXCEPT !.items = reads[n].got, !.from = reads[n].query]
             ELSE view

Read(n) ==
  /\ n \in DOMAIN reads
  /\ (Polled(n) \/ Waited(n) \/ PageRead(n) \/ ReadFails(n) \/ Settled(n))
  /\ UNCHANGED <<server, tab, catalog, app, article, moves>>

(* Calls of getDetail.                                                     *)
AskedItem(n) ==
  /\ asked[n].at = "asking"
  /\ IF asked[n].target[1] \in ItemsOf(server, asked[n].source)
     THEN asked' = [asked EXCEPT ![n].at = "settled", ![n].got = asked[n].target] /\ UNCHANGED detail
     ELSE asked' = Without(asked, n) /\ detail' = [NoDetail EXCEPT !.error = TRUE]

AskFails(n) ==
  /\ asked[n].at = "asking"
  /\ asked' = Without(asked, n) /\ detail' = [NoDetail EXCEPT !.error = TRUE]

ItemArrives(n) ==
  /\ asked[n].at = "settled"
  /\ asked' = Without(asked, n)
  /\ detail' = IF detail.request = n THEN [NoDetail EXCEPT !.item = asked[n].got] ELSE detail

Ask(n) ==
  /\ n \in DOMAIN asked
  /\ (AskedItem(n) \/ AskFails(n) \/ ItemArrives(n))
  /\ UNCHANGED <<server, tab, catalog, app, feed, moves>>

-----------------------------------------------------------------------------
(* The service changes: its workers, imports and other clients.            *)

(* A checkpoint of a job: articles are added.                              *)
Checkpoint(i, more) ==
  /\ server.stage[i] \in {"queued", "analyzing"}
  /\ server' = [server EXCEPT !.stage[i] = "analyzing", !.items[i] = ItemsOf(server, i) \cup more]

Ends(i, stage) ==
  /\ server.stage[i] \in {"queued", "analyzing"} /\ stage \in {"completed", "failed"}
  /\ server' = [server EXCEPT !.stage[i] = stage]

(* An import, or a refresh and what it has found so far.                   *)
Replaced(i, items) ==
  /\ server.stage[i] \in {"absent", "completed", "failed"}
  /\ server.stage[i] = "absent" => items # None
  /\ items # server.items[i]
  /\ server' = [server EXCEPT !.stage[i] = IF @ = "absent" THEN "completed" ELSE @, !.items[i] = items]

Elsewhere ==
  /\ Moves
  /\ \E i \in Analysis :
       \/ \E more \in Contents \ {None} : Checkpoint(i, more)
       \/ \E stage \in {"completed", "failed"} : Ends(i, stage)
       \/ \E items \in Contents : Replaced(i, items)
  /\ UNCHANGED <<tab, catalog, app, feed, article>>

-----------------------------------------------------------------------------
(* Once nothing is under way the tab waits for its reader.                 *)
Rest ==
  /\ moves = MaxMoves /\ reads = <<>> /\ asked = <<>> /\ catalog.state # "loading"
  /\ \A u \in Url : post[u] = "none"
  /\ UNCHANGED vars

Reader ==
  \/ \E page \in {"feed", "repositories"} : Go(page)
  \/ \E i \in Article, from \in Url \cup {Everything} : OpenArticle(i, from)
  \/ Retry
  \/ \E u \in Url : Submit(u)
  \/ \E i \in Analysis : OpenSaved(i)
  \/ RefreshCatalog
  \/ ReloadTab

Catalog == CatalogAnswered \/ CatalogFails
Post(u) == Accepted(u) \/ Answered(u) \/ PostFails(u)

Next ==
  \/ Reader
  \/ Catalog
  \/ \E u \in Url : Post(u)
  \/ \E n \in 1 .. MaxReads : Read(n) \/ Ask(n)
  \/ Elsewhere
  \/ Rest

(* Every request is answered or ends with its timer, and timers fire.      *)
Fairness ==
  /\ WF_vars(Catalog)
  /\ \A u \in Url : WF_vars(Post(u))
  /\ \A n \in 1 .. MaxReads : WF_vars(Read(n)) /\ WF_vars(Ask(n))

Spec == Init /\ [][Next]_vars /\ Fairness

-----------------------------------------------------------------------------
TypeOK ==
  /\ known \in [Url -> Analysis \cup {None}] /\ stored \in [Url -> Analysis \cup {None}]
  /\ post \in [Url -> {"none", "sent", "accepted"}]
  /\ catalog.state \in {"loading", "ready", "failed"} /\ catalog.saved \subseteq Analysis
  /\ app.page \in {"feed", "repositories", "article"} /\ app.busy \in Url \cup {None}
  /\ app.missing \in BOOLEAN /\ catalog.readOnly \in BOOLEAN
  /\ DOMAIN reads \cup DOMAIN asked \subseteq 1 .. MaxReads
  /\ \A n \in DOMAIN reads : reads[n].at \in {"polling", "waiting", "reading", "settled"}
  /\ view.loading <=> view.request \in DOMAIN reads
  /\ detail.loading <=> detail.request \in DOMAIN asked

(* What is on the screen belongs to what the reader looks at: the list to  *)
(* its query, the detail to its article, and a spinner to a request that   *)
(* is under way, in whatever order the answers of superseded requests      *)
(* arrive (useFeed.ts, useFeedDetail.ts).                                  *)
ShownBelongs ==
  /\ TypeOK
  /\ view.query = QueryOf(app)
  /\ view.items # <<>> => view.from = view.query
  /\ detail.item # None => detail.item = TargetOf(app, catalog)

(* A repository is registered once: a second request is sent only after an *)
(* answer that never came.  Callers share one request, an abandoned form   *)
(* keeps its answer, and a reloaded tab finds it in sessionStorage.        *)
RegisteredOnce == \A u \in Url : posts[u] <= lost[u] + 1

(* The pages of a feed are read one by one while the service goes on. If   *)
(* its list only grew between two pages, what is taken for the whole feed  *)
(* is the list at the last page: an article that was pushed to a later     *)
(* page is never missing.  (A list that also shrank may hide an article.)  *)
NoSilentLoss ==
  \A n \in DOMAIN reads :
    reads[n].at = "settled" /\ reads[n].grew => Range(reads[n].got) = reads[n].last

(* No spinner turns for ever: the list, the detail, the catalog and the    *)
(* form settle, whatever the reader did last.                              *)
EverythingSettles ==
  []<>(/\ ~view.loading /\ ~detail.loading
       /\ catalog.state # "loading" /\ app.busy = None)
=============================================================================

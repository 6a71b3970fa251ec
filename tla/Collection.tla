----------------------------- MODULE Collection -----------------------------
(***************************************************************************)
(* How a program collects the facts of a repository: it clones it into a   *)
(* temporary directory (repository.Acquirer), profiles the checkout, and   *)
(* asks a provider - OSV about the components (live.DiscoverRepository) or *)
(* NVD about its latest records (cmd/mvp-run).  workflow.ProcessRepository *)
(* and nvd.Client crawl without a clone of their own.  Only the context    *)
(* ties the phases together: the clone and the requests end with it, the   *)
(* profilers do not look at it.                                            *)
(***************************************************************************)
EXTENDS Profiling, NvdCrawl, OsvDiscovery

CONSTANTS Trees   \* the checkouts that a clone may produce

(* A leaf's path is that of no other.                                      *)
ASSUME CollectionAssumption ==
  \A t \in Trees : /\ \A l \in t : l.path \in Seq(STRING) \ {<<>>}
                   /\ \A k, l \in t : k.path = l.path => k = l

VARIABLES
  phase,        \* clone, resolve, profile, crawl, discover, done or failed
  checkout,     \* its directory exists
  tree,         \* what is in it, while that matters
  walked,       \* how many profilers have run
  fragments     \* what they found

local == <<phase, checkout, tree, walked, fragments>>
collectionVars == <<local, crawlVars, discovery, cancelled>>

CollectionInit ==
  /\ phase \in {"clone", "crawl"} /\ checkout = FALSE /\ tree = {} /\ walked = 0 /\ fragments = <<>>
  /\ cancelled = FALSE /\ CrawlIdle /\ DiscoveryIdle

-----------------------------------------------------------------------------
(* Acquire: a clone that fails, or runs out of time, is removed.           *)

Unclone == checkout' = FALSE /\ tree' = {} /\ phase' = "failed"

(* The URL, the ref, the workspace, git, or its deadline.                   *)
CloneFails ==
  /\ phase = "clone" /\ Unclone
  /\ UNCHANGED <<walked, fragments, crawlVars, discovery, cancelled>>

Clone ==
  /\ phase = "clone" /\ ~cancelled /\ phase' = "resolve" /\ checkout' = TRUE /\ tree' \in Trees
  /\ UNCHANGED <<walked, fragments, crawlVars, discovery, cancelled>>

ResolveFails ==
  /\ phase = "resolve" /\ Unclone
  /\ UNCHANGED <<walked, fragments, crawlVars, discovery, cancelled>>

Resolve ==
  /\ phase = "resolve" /\ ~cancelled /\ phase' = "profile"
  /\ UNCHANGED <<checkout, tree, walked, fragments, crawlVars, discovery, cancelled>>

-----------------------------------------------------------------------------
(* Profile: one walk after the other; the first error ends it.             *)

Profiler == Profilers[walked + 1]

Profile ==
  /\ phase = "profile" /\ walked < Len(Profilers) /\ ~Fails(Profiler, tree)
  /\ walked' = walked + 1 /\ fragments' = Append(fragments, Fragment(Profiler, tree))
  /\ UNCHANGED <<phase, checkout, tree, crawlVars, discovery, cancelled>>

(* A limit, a parser, or the disk.                                          *)
ProfileFails ==
  /\ phase = "profile" /\ walked < Len(Profilers)
  /\ Unclone /\ walked' = 0 /\ fragments' = <<>>
  /\ UNCHANGED <<crawlVars, discovery, cancelled>>

Profiled == phase = "profile" /\ walked = Len(Profilers)

-----------------------------------------------------------------------------
(* The profile is handed on; what it says no longer matters here.          *)
HandOn ==
  /\ Profiled /\ phase' \in {"discover", "crawl"}
  /\ tree' = {} /\ walked' = 0 /\ fragments' = <<>>
  /\ UNCHANGED <<checkout, crawlVars, discovery, cancelled>>

StartDiscovery == phase = "discover" /\ DiscoveryBegin /\ UNCHANGED <<local, crawlVars>>

StartCrawl ==
  /\ phase = "crawl"
  /\ \E mode \in IF checkout THEN {"tail", "latest"} ELSE {"simple", "window"} : CrawlBegin(mode)
  /\ UNCHANGED <<local, discovery, cancelled>>

Discover == phase = "discover" /\ DiscoveryStep /\ UNCHANGED <<local, crawlVars>>

(* A request that the context has ended fails.                              *)
Crawl ==
  /\ phase = "crawl" /\ CrawlStep /\ (cancelled => crawl'.at = "failed")
  /\ UNCHANGED <<local, discovery, cancelled>>

NvdChanges == phase = "crawl" /\ CrawlEnvironment /\ UNCHANGED <<local, discovery, cancelled>>

(* The deferred removals run; an incomplete discovery is reported as one.   *)
Return ==
  /\ \/ phase = "crawl" /\ crawl.at \in {"done", "failed"}
     \/ phase = "discover" /\ DiscoveryDone
  /\ checkout' = FALSE
  /\ phase' = (IF crawl.at = "failed" \/ \E i \in DOMAIN results : ~results[i].complete
               THEN "failed" ELSE "done")
  /\ UNCHANGED <<tree, walked, fragments, crawlVars, discovery, cancelled>>

Ended == phase \in {"done", "failed"}

CancelContext ==
  /\ ~cancelled /\ ~Ended /\ cancelled' = TRUE
  /\ UNCHANGED <<local, crawlVars, discovery>>

Done == Ended /\ UNCHANGED collectionVars

Program ==
  \/ CloneFails \/ Clone \/ ResolveFails \/ Resolve \/ Profile \/ ProfileFails
  \/ HandOn \/ StartDiscovery \/ StartCrawl \/ Discover \/ Crawl \/ Return
CollectionNext == Program \/ NvdChanges \/ CancelContext \/ Done

(* git and the requests end, if only by their deadlines and timeouts.      *)
CollectionSpec == CollectionInit /\ [][CollectionNext]_collectionVars /\ WF_collectionVars(Program)

-----------------------------------------------------------------------------
Found(field) == UNION {fragments[i][field] : i \in DOMAIN fragments}
Parsers(l) == {i \in DOMAIN fragments : l.path \in fragments[i].parsed}

(* A profile accounts for the whole checkout: every file of a documented   *)
(* format that is among the sources is parsed by exactly one profiler or   *)
(* warned of, never both; so is every symbolic link outside .git, every    *)
(* Cargo configuration, and every file listed as a manifest or lock file - *)
(* but for the Python locks under target and the virtual environments,     *)
(* which are listed by one walk and skipped by the other.  A Cargo         *)
(* manifest that redirects registries keeps all of them from being read    *)
(* (repository.ProfileWithTraversal, docs/local-llm.md 77-102 and 122).    *)
EveryManifestAccounted ==
  Profiled => \A l \in tree :
    LET told == l.path \in Found("warned")
        SkippedLock == Name(l) \in {"poetry.lock", "uv.lock"} /\ ~Reached(Structured, l)
    IN /\ Cardinality(Parsers(l)) = (IF l.path \in Found("parsed") THEN 1 ELSE 0)
       /\ ~(told /\ Parsers(l) # {})
       /\ l.kind = "file" /\ InSources(l) /\ (Name(l) \in KnownNames \/ CargoConfig(l))
            => told \/ Parsers(l) # {}
       /\ l.kind = "symlink" /\ ".git" \notin Range(Front(l.path)) => told
       /\ l.path \in Found("listed") => told \/ Parsers(l) # {} \/ SkippedLock
       /\ Name(l) = "Cargo.toml" /\ Overridden(tree) => Parsers(l) = {}

(* Whatever fails, and however NVD changes or OSV pages, the program comes *)
(* to its end, and leaves no checkout behind (Acquire, FetchLatest's and   *)
(* Fetch's budgets, Query's page limit, DiscoverRepository's defers).      *)
CollectionEnds == <>(Ended /\ ~checkout)
=============================================================================

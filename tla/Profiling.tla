----------------------------- MODULE Profiling -----------------------------
(***************************************************************************)
(* What the profilers make of a checkout (src/src/repository/profile.go).  *)
(* Each one walks the same tree on its own, with its own table of file     *)
(* names, of directories it skips, its own depth limit and its own way     *)
(* with symbolic links; the profile is the union of their findings, and an *)
(* error of any of them fails the whole profile.                           *)
(*                                                                         *)
(* A tree is a set of leaves: a path (its directories and its name), a     *)
(* kind, and what the parser would say of the content: good, bad, old (a   *)
(* format version without a parser) or override (a Cargo manifest that     *)
(* redirects registries).  What a good file declares is left out, and with *)
(* it the dependencies that Python sources or a Cargo configuration make   *)
(* the manifest walk tell of instead of attributing to a registry.         *)
(***************************************************************************)
EXTENDS Naturals, Sequences, FiniteSets, SequencesExt

CONSTANTS
  Deep,         \* 64: the depth limit of most walks
  Shallow,      \* 32: of the manifest, native and source walks
  MaxGoFiles    \* 512: of the source walk

ASSUME ProfilingAssumption == Deep \in Nat /\ Shallow \in Nat /\ MaxGoFiles \in Nat

(* The order in which repository.ProfileWithTraversal calls them.           *)
Profilers == <<"npm", "static", "lock", "structured", "extra", "manifest", "native",
               "coverage", "source">>

(* counts: whether the limit is on every entry met, on every entry that is *)
(* not skipped, or on directories; links: whether a symbolic link is told. *)
Walk(skips, files, limit, counts, links) ==
  [skips |-> skips, files |-> files, limit |-> limit, counts |-> counts, links |-> links]

Npm == Walk({".git", "node_modules", ".pnpm", ".yarn"},
            {"package.json", "package-lock.json"}, Deep, "entries", FALSE)
Static == Walk({".git", "node_modules", "vendor"},
               {"go.mod", "requirements.txt", "poetry.lock", "uv.lock"}, Deep, "kept", FALSE)
Lock == Walk({".git", "node_modules", "vendor", ".gradle", ".build"},
             {"Pipfile.lock", "composer.lock", "packages.lock.json", "Package.resolved",
              "package.resolved", "gradle.lockfile", "Gemfile.lock", "pom.xml"},
             Deep, "directories", FALSE)

(* The table misses a format that the static walk leaves to it.             *)
MutantStructured ==
  Walk({".git", "node_modules", ".yarn", ".pnpm-store", ".venv", "venv", "target"},
       {"pnpm-lock.yaml", "yarn.lock", "Cargo.lock", "poetry.lock"},
       Deep, "directories", TRUE)

Structured == Walk({".git", "node_modules", ".yarn", ".pnpm-store", ".venv", "venv", "target"},
                   {"pnpm-lock.yaml", "yarn.lock", "Cargo.lock", "poetry.lock", "uv.lock"},
                   Deep, "directories", TRUE)
Extra == Walk({".git", "node_modules", ".venv"},
              {"pubspec.lock", "deno.lock", "packages.config", "project.assets.json", "renv.lock"},
              Deep, "directories", TRUE)
Manifest == Walk({".git", "node_modules", ".venv", "venv", "target", "__pycache__"},
                 {"pyproject.toml", "pdm.lock", "Cargo.toml"}, Shallow, "directories", TRUE)
Native == Walk({".git"}, {"conan.lock", "vcpkg.json", "Podfile.lock", "Manifest.toml"},
               Shallow, "directories", TRUE)

(* A few of the names it warns of; none of them has a parser.               *)
Unsupported == {"build.gradle", "Gemfile", "bun.lock", "go.work"}
Coverage == Walk({".git", ".hg", ".svn", "node_modules", ".pnpm", ".yarn", "vendor", ".venv",
                  "venv", "__pycache__", ".gradle", ".build", "target"},
                 Unsupported, Deep, "directories", FALSE)

(* Every name that ends in .go, which stand for themselves here.            *)
GoNames == {"main.go", "fix.go"}
Source == Walk({}, GoNames, Shallow, "directories", FALSE)

WalkOf(profiler) ==
  CASE profiler = "npm" -> Npm             [] profiler = "static" -> Static
    [] profiler = "lock" -> Lock           [] profiler = "structured" -> Structured
    [] profiler = "extra" -> Extra         [] profiler = "manifest" -> Manifest
    [] profiler = "native" -> Native       [] profiler = "coverage" -> Coverage
    [] profiler = "source" -> Source

-----------------------------------------------------------------------------
Name(leaf) == Last(leaf.path)

(* The number of entries on the way to the leaf until a skipped directory. *)
Stop(walk, leaf) ==
  LET skipped == {i \in 1..(Len(leaf.path) - 1) : leaf.path[i] \in walk.skips}
  IN IF skipped = {} THEN Len(leaf.path)
     ELSE CHOOSE i \in skipped : \A j \in skipped : i <= j

Reached(walk, leaf) == Stop(walk, leaf) = Len(leaf.path)

Depth(walk, leaf) ==
  LET stop == Stop(walk, leaf)
      kept == Reached(walk, leaf) /\ leaf.kind = "file"
  IN CASE walk.counts = "entries" -> stop
       [] walk.counts = "kept" -> IF kept THEN stop ELSE stop - 1
       [] walk.counts = "directories" -> stop - 1

Read(walk, tree) ==
  {l \in tree : Reached(walk, l) /\ l.kind = "file" /\ Name(l) \in walk.files}
Links(walk, tree) == {l \in tree : Reached(walk, l) /\ l.kind = "symlink" /\ walk.links}

(* A file outside the table that the manifest walk tells of.               *)
CargoConfig(l) ==
  /\ Len(l.path) > 1 /\ l.path[Len(l.path) - 1] = ".cargo"
  /\ Name(l) \in {"config", "config.toml"}
Configs(profiler, tree) ==
  {l \in tree : profiler = "manifest" /\ Reached(Manifest, l) /\ l.kind = "file" /\ CargoConfig(l)}

(* A lock file that the static walk lists and leaves to the structured one. *)
LeftTo(profiler, l) == profiler = "static" /\ Name(l) \in {"poetry.lock", "uv.lock"}

Overridden(tree) == \E l \in Read(Manifest, tree) : l.content = "override"

Refused(profiler, l) ==
  /\ profiler # "coverage" /\ ~LeftTo(profiler, l)
  /\ l.content = "bad" \/ (l.content = "old" /\ profiler # "structured")

Fails(profiler, tree) ==
  LET walk == WalkOf(profiler)
  IN \/ \E l \in tree : Depth(walk, l) > walk.limit
     \/ \E l \in Read(walk, tree) : Refused(profiler, l)
     \/ profiler = "source" /\ Cardinality(Read(walk, tree)) > MaxGoFiles

(* Read, but told of instead of parsed.                                     *)
SetAside(profiler, l, tree) ==
  \/ profiler = "coverage"
  \/ profiler = "structured" /\ l.content = "old"
  \/ profiler = "manifest" /\ Name(l) = "Cargo.toml" /\ Overridden(tree)

Fragment(profiler, tree) ==
  LET walk == WalkOf(profiler)
      read == Read(walk, tree)
      aside == {l \in read : SetAside(profiler, l, tree)}
      parsed == {l \in read \ aside : ~LeftTo(profiler, l)}
      Paths(S) == {l.path : l \in S}
  IN [parsed |-> Paths(parsed),
      listed |-> IF profiler \in {"coverage", "source"} THEN {}
                 ELSE Paths(read \ {l \in aside : profiler = "structured"}),
      warned |-> Paths(aside \cup Links(walk, tree) \cup Configs(profiler, tree))]

-----------------------------------------------------------------------------
(* For the properties: the formats the profilers claim between them, and   *)
(* the directories that at least one of them takes for generated.          *)

KnownNames ==
  {"package.json", "package-lock.json", "go.mod", "requirements.txt", "poetry.lock", "uv.lock",
   "Pipfile.lock", "composer.lock", "packages.lock.json", "Package.resolved", "package.resolved",
   "gradle.lockfile", "Gemfile.lock", "pom.xml", "pnpm-lock.yaml", "yarn.lock", "Cargo.lock",
   "pubspec.lock", "deno.lock", "packages.config", "project.assets.json", "renv.lock",
   "pyproject.toml", "pdm.lock", "Cargo.toml", "conan.lock", "vcpkg.json", "Podfile.lock",
   "Manifest.toml"}

GeneratedDirectories ==
  {".git", ".hg", ".svn", "node_modules", ".pnpm", ".pnpm-store", ".yarn", "vendor", ".venv", "venv",
   "__pycache__", ".gradle", ".build", "target"}

InSources(l) == Range(Front(l.path)) \cap GeneratedDirectories = {}
=============================================================================

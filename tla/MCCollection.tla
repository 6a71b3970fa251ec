---------------------------- MODULE MCCollection ----------------------------
(* Collection for TLC: checkouts of up to two files, one of them anywhere, *)
(* NVD databases of up to four records, OSV catalogs of up to three        *)
(* queries of up to three pages.                                           *)
EXTENDS Collection

Leaf(path, kind, content) == [path |-> path, kind |-> kind, content |-> content]

Directories == {<<>>, <<"a">>, <<"target">>, <<"vendor">>, <<"a", ".git">>, <<"a", "b", "c">>,
                <<"a", "b", "c", "d">>}
Contents(name) ==
  {"good", "bad"} \cup (IF name \in {"package-lock.json", "pnpm-lock.yaml"} THEN {"old"} ELSE {})
                  \cup (IF name = "Cargo.toml" THEN {"override"} ELSE {})

MCNames ==
  {"package-lock.json", "go.mod", "poetry.lock", "uv.lock", "pom.xml", "pnpm-lock.yaml",
   "pubspec.lock", "Cargo.toml", "conan.lock", "build.gradle", "main.go"}

Files == UNION {{Leaf(Append(d, n), "file", c) : c \in Contents(n), d \in Directories} : n \in MCNames}
SymbolicLinks == {Leaf(Append(d, n), "symlink", "good") : n \in {"package.json", "target"}, d \in Directories}
(* git's own files: a branch may be called fix.go.                          *)
Refs == {Leaf(<<".git", "HEAD">>, "file", "good"), Leaf(<<".git", "refs", "fix.go">>, "file", "bad")}

CargoConfigs ==
  {Leaf(d \o <<".cargo", n>>, k, "good") :
     d \in Directories, n \in {"config", "config.toml"}, k \in {"file", "symlink"}}

Companions ==
  {Leaf(<<"Cargo.toml">>, "file", "override"), Leaf(<<"a", "Cargo.toml">>, "file", "good"),
   Leaf(<<"a", "x.go">>, "file", "good"), Leaf(<<".git", "HEAD">>, "file", "good"),
   Leaf(<<"target", "uv.lock">>, "file", "good"), Leaf(<<"a", "main.go">>, "file", "good"),
   Leaf(<<".cargo", "config">>, "file", "good")}

MCTrees ==
  {{l} : l \in Files \cup SymbolicLinks \cup Refs \cup CargoConfigs}
    \cup {t \in {{l, c} : l \in Files, c \in Companions} :
            \A x, y \in t : x # y => x.path # y.path}

Record(i, pub, mod) == [id |-> i, pub |-> pub, mod |-> mod]

MCDatabases ==
  {<<Record(1, 1, 1), Record(2, 2, 4), Record(3, 3, 3), Record(4, 4, 4)>>,
   <<Record(1, 1, 4), Record(2, 1, 3), Record(3, 1, 3), Record(4, 3, 3)>>,
   <<Record(1, 2, 2), Record(2, 3, 3), Record(2, 3, 3)>>,
   <<Record(1, 1, 3), Record(2, 3, 3), Record(3, 4, 4), Record(3, 4, 4)>>,
   <<Record(5, 4, 4)>>}
MCNewRecords == {Record(6, 1, 5), Record(7, 4, 5), Record(8, 5, 5)}

Query(pages, loops) == [valid |-> TRUE, pages |-> pages, loops |-> loops]
Queries ==
  {Query(<<{1}>>, FALSE), Query(<<{}, {2}>>, FALSE), Query(<<{3}, {1, 4}>>, TRUE),
   Query(<<{5}, {6, BadId}>>, FALSE), Query(<<{7}, {7}, {8}, {9}>>, FALSE),
   [valid |-> FALSE, pages |-> <<{}>>, loops |-> FALSE]}
MCCatalogs == {<<q>> : q \in Queries} \cup {<<p, q, r>> : p \in Queries, q \in Queries, r \in Queries}
=============================================================================

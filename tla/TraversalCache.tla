--------------------------- MODULE TraversalCache ---------------------------
(***************************************************************************)
(* src/src/traversal/cache.go: the directory cache shared by the profilers *)
(* of one run, which reads a directory once for many open files.  A cursor *)
(* serves its file from the cached entries and lets the real descriptor    *)
(* fall behind; it catches up only when entries are needed that nobody has *)
(* read.  Both stores are capped, and a capped call reads the disk.        *)
(*                                                                         *)
(* Calls do not overlap (the Cache is for sequential use): ReadDir is one  *)
(* action per path through it.  The batches of the catch-up loop are       *)
(* summed up.  Contents are stable, as the package comment assumes, but a  *)
(* directory may have been replaced under its key between two openings.    *)
(* The descriptor (os.File) is external and may fail at any entry.  The    *)
(* counts of reads and hits are left out.                                  *)
(***************************************************************************)
EXTENDS Naturals, Sequences, FiniteSets, SequencesExt, FiniteSetsExt

CONSTANTS
  File,            \* *os.File, opened on directories
  Key,             \* normalized names
  Identity,        \* what os.SameFile compares
  KeyOf, IdOf,     \* the name and the directory each file was opened on
  Content,         \* the entries of each directory, in native order
  Batch,           \* the n of a call; 0 stands for every n <= 0
  EntryLimit, CursorLimit,
  None

Entry == UNION {Range(Content[i]) : i \in Identity}

ASSUME TraversalCacheAssumption ==
  /\ KeyOf \in [File -> Key] /\ IdOf \in [File -> Identity]
  /\ Content \in [Identity -> Seq(Entry)]
  /\ Batch \subseteq Nat
  /\ EntryLimit \in Nat /\ CursorLimit \in Nat
  /\ None \notin Identity

VARIABLES
  directories,  \* Cache.directories
  cursors,      \* Cache.cursors
  cached,       \* stats.EntriesCached
  offset,       \* how far each descriptor has been read
  reply         \* the last call of ReadDir and what it returned

vars == <<directories, cursors, cached, offset, reply>>

NoDirectory == [identity |-> None, entries |-> <<>>, complete |-> FALSE]
NoCursor    == [opened |-> FALSE, logical |-> 0, physical |-> 0]

Listing(f) == Content[IdOf[f]]

Directory == [identity : Identity \cup {None}, entries : Seq(Entry), complete : BOOLEAN]

TypeOK ==
  /\ directories \in [Key -> Directory]
  /\ cursors \in [File -> [opened : BOOLEAN, logical : Nat, physical : Nat]]
  /\ cached \in Nat
  /\ offset \in [File -> Nat]

Init ==
  /\ directories = [k \in Key |-> NoDirectory]
  /\ cursors = [f \in File |-> NoCursor]
  /\ cached = 0
  /\ offset = [f \in File |-> 0]
  /\ reply = <<>>

-----------------------------------------------------------------------------
(* os.File.ReadDir (external): up to n entries of a descriptor that has    *)
(* been read up to start, the end, or a failure after any of them.         *)
Reads(f, start, n) ==
  LET left == Len(Listing(f)) - start
      due  == IF n = 0 \/ left < n THEN left ELSE n
      Some(count, err) ==
        [entries |-> SubSeq(Listing(f), start + 1, start + count), err |-> err]
  IN {Some(due, IF n > 0 /\ left = 0 THEN "EOF" ELSE "nil")}
     \cup {Some(count, "failed") : count \in 0 .. due}

Answer(f, n, entries, err) ==
  reply' = [file |-> f, n |-> n, err |-> err, entries |-> entries]

-----------------------------------------------------------------------------
(* ReadDir.                                                                *)

Opened == {f \in File : cursors[f].opened}

(* The path around the cache: no room for another cursor, or the file is   *)
(* open on another directory than the cached one.                          *)
Bypassed(f) ==
  /\ ~cursors[f].opened
  /\ \/ Cardinality(Opened) >= CursorLimit
     \/ directories[KeyOf[f]].identity \notin {None, IdOf[f]}

Bypass(f, n) ==
  /\ Bypassed(f)
  /\ \E r \in Reads(f, offset[f], n) :
       /\ offset' = [offset EXCEPT ![f] = @ + Len(r.entries)]
       /\ Answer(f, n, r.entries, r.err)
  /\ UNCHANGED <<directories, cursors, cached>>

(* Stat fails before the file has a cursor.                                *)
StatFails(f, n) ==
  /\ ~cursors[f].opened
  /\ Cardinality(Opened) < CursorLimit
  /\ Answer(f, n, <<>>, "failed")
  /\ UNCHANGED <<directories, cursors, cached, offset>>

(* The directory a file with a cursor is served from, entered by the first *)
(* file that is opened on it.                                              *)
DirectoryOf(f) ==
  IF directories[KeyOf[f]].identity = None
    THEN [NoDirectory EXCEPT !.identity = IdOf[f]]
    ELSE directories[KeyOf[f]]

(* How many entries a call takes from the cache.                           *)
Available(f, n) ==
  LET ahead == Len(DirectoryOf(f).entries)
      from  == cursors[f].logical
  IN IF ahead <= from THEN 0
     ELSE IF n > 0 /\ ahead - from > n THEN n ELSE ahead - from

Logical(f, n) == cursors[f].logical + Available(f, n)

FromCache(f, n) == SubSeq(DirectoryOf(f).entries, cursors[f].logical + 1, Logical(f, n))

AtEnd(f, n) == DirectoryOf(f).complete /\ Logical(f, n) = Len(DirectoryOf(f).entries)

Satisfied(f, n) == (n > 0 /\ Available(f, n) = n) \/ AtEnd(f, n)

Enter(f, directory) == directories' = [directories EXCEPT ![KeyOf[f]] = directory]

Move(f, logical, physical) ==
  cursors' = [cursors EXCEPT ![f] = [opened |-> TRUE, logical |-> logical, physical |-> physical]]

Served(f, n) ==
  /\ ~Bypassed(f)
  /\ Satisfied(f, n)
  /\ Enter(f, DirectoryOf(f))
  /\ Move(f, Logical(f, n), cursors[f].physical)
  /\ Answer(f, n, FromCache(f, n), IF n > 0 /\ Available(f, n) = 0 THEN "EOF" ELSE "nil")
  /\ UNCHANGED <<cached, offset>>

(* The descriptor fails while it catches up with the entries served from   *)
(* the cache: those are returned with the error.                           *)
CatchUpFails(f, n) ==
  /\ ~Bypassed(f)
  /\ ~Satisfied(f, n)
  /\ \E physical \in cursors[f].physical .. Logical(f, n) - 1 :
       /\ Move(f, Logical(f, n), physical)
       /\ offset' = [offset EXCEPT ![f] = @ + (physical - cursors[f].physical)]
  /\ Enter(f, DirectoryOf(f))
  /\ Answer(f, n, FromCache(f, n), "failed")
  /\ UNCHANGED cached

(* The entries of a read the cache has room for.                           *)
Kept(r) == IF Len(r.entries) > EntryLimit - cached THEN EntryLimit - cached ELSE Len(r.entries)

(* Mutant of Ends: a listing that was cut at the limit is complete too.    *)
EndsUncut(n, r) == r.err = "EOF" \/ (n = 0 /\ r.err = "nil")

(* A read ends the listing when it reached the end and was kept whole.     *)
Ends(n, r) ==
  /\ Kept(r) = Len(r.entries)
  /\ r.err = "EOF" \/ (n = 0 /\ r.err = "nil")

(* The cache grows only from where it ends.                                *)
Extends(f, n) == Logical(f, n) = Len(DirectoryOf(f).entries)

(* Mutant of CaughtUp: the descriptor is read from where it is.           *)
NotCaughtUp(f, n) == offset[f]

(* Where the descriptor is once it has caught up with the cursor.          *)
CaughtUp(f, n) == offset[f] + (Logical(f, n) - cursors[f].physical)

(* finish: the end is no error to a caller that got entries or asked for   *)
(* all of them.                                                            *)
Finished(n, entries, err) ==
  IF err = "EOF" /\ (n = 0 \/ entries # <<>>) THEN "nil" ELSE err

ReadOn(f, n) ==
  /\ ~Bypassed(f)
  /\ ~Satisfied(f, n)
  /\ \E r \in Reads(f, CaughtUp(f, n), IF n = 0 THEN 0 ELSE n - Available(f, n)) :
       LET entries == FromCache(f, n) \o r.entries
           at      == Logical(f, n) + Len(r.entries)
           dir     == DirectoryOf(f)
       IN
       /\ IF Extends(f, n)
            THEN /\ Enter(f, [dir EXCEPT !.entries  = @ \o SubSeq(r.entries, 1, Kept(r)),
                                         !.complete = @ \/ Ends(n, r)])
                 /\ cached' = cached + Kept(r)
            ELSE Enter(f, dir) /\ UNCHANGED cached
       /\ Move(f, at, at)
       /\ offset' = [offset EXCEPT ![f] = CaughtUp(f, n) + Len(r.entries)]
       /\ Answer(f, n, entries, Finished(n, entries, r.err))

ReadDir(f, n) ==
  Bypass(f, n) \/ StatFails(f, n) \/ Served(f, n) \/ CatchUpFails(f, n) \/ ReadOn(f, n)

Next == \E f \in File, n \in Batch : ReadDir(f, n)

Spec == Init /\ [][Next]_vars

-----------------------------------------------------------------------------
(* Properties.                                                             *)

(* The bookkeeping of a cursor agrees with its real descriptor, which      *)
(* never is ahead of what its file was given (cache.go:149-169).           *)
CursorsHonest ==
  \A f \in Opened : /\ cursors[f].physical = offset[f]
                    /\ cursors[f].physical <= cursors[f].logical

(* Every entry in the cache, by its name and its place in the listing.     *)
Held == UNION {{k} \X DOMAIN directories[k].entries : k \in Key}

(* Both stores stay within their limits and the count of entries is the    *)
(* truth, so that the room computed from it never is negative              *)
(* (cache.go:107-108, 172-178).                                            *)
WithinLimits ==
  /\ cached = Cardinality(Held) /\ cached <= EntryLimit
  /\ Cardinality(Opened) <= CursorLimit

(* A listing is a beginning of its directory, and all of it when it is     *)
(* marked complete (cache.go:171-182).                                     *)
ListingsTrue ==
  \A k \in Key :
    LET directory == directories[k] IN
    IF directory.identity = None THEN directory = NoDirectory
    ELSE /\ IsPrefix(directory.entries, Content[directory.identity])
         /\ directory.complete => directory.entries = Content[directory.identity]

(* Both stores stay within their limits and are counted right; a listing   *)
(* is true to the directory, though it was put together from the reads of  *)
(* several files, some of which failed or were cut at the limit            *)
(* (cache.go:171-182); and the descriptors an open file stands on are      *)
(* where the cache believes them to be (cache.go:90-170).                  *)
CacheSound ==
  /\ TypeOK
  /\ WithinLimits
  /\ ListingsTrue
  /\ CursorsHonest

(* Every file is served as its descriptor alone would have served it: in   *)
(* native order, each entry once, with the batch and EOF rules of          *)
(* os.File.ReadDir, whatever other files read in between, which stores are *)
(* full, which calls failed and which directory was replaced               *)
(* (cache.go:94-100).                                                      *)
Stream == INSTANCE DirStream WITH
  Entries <- [f \in File |-> Listing(f)],
  pos     <- [f \in File |-> IF cursors[f].opened THEN cursors[f].logical ELSE offset[f]]

ImplementsStream == Stream!Spec
=============================================================================

------------------------ MODULE TraversalCacheProofs ------------------------
(***************************************************************************)
(* The directory cache for any files, directories, batches and limits: its *)
(* bookkeeping is sound, and each open file is the stream that DirStream   *)
(* promises, whatever the other files read in between.                     *)
(*                                                                         *)
(* The stream needs that a cursor belongs to the directory its key is      *)
(* cached for (Placed), and that a file without a cursor either has not    *)
(* been read or will never get one (Unopened): cursors are never given     *)
(* back and a cached directory is never replaced.                          *)
(***************************************************************************)
EXTENDS TraversalCache, TLAPS, FiniteSetTheorems, SequenceTheorems

(* A cursor stands inside the listing of the directory it was opened for.  *)
Placed ==
  \A f \in File : cursors[f].opened =>
    /\ directories[KeyOf[f]].identity = IdOf[f]
    /\ cursors[f].logical <= Len(Listing(f))

(* A file without a cursor starts at its first entry, or it bypasses the   *)
(* cache for good.                                                         *)
Unopened ==
  \A f \in File : ~cursors[f].opened =>
    /\ cursors[f].logical = 0 /\ cursors[f].physical = 0
    /\ offset[f] <= Len(Listing(f))
    /\ offset[f] = 0 \/ Bypassed(f)

IInv ==
  /\ TypeOK
  /\ IsFiniteSet(Held) /\ IsFiniteSet(Opened)
  /\ WithinLimits
  /\ ListingsTrue
  /\ CursorsHonest
  /\ Placed
  /\ Unopened

-----------------------------------------------------------------------------
(* Pieces of a listing.                                                    *)
LEMMA Piece ==
  ASSUME NEW s \in Seq(Entry), NEW a \in 0 .. Len(s), NEW b \in a .. Len(s)
  PROVE  /\ SubSeq(s, a + 1, b) \in Seq(Entry)
         /\ Len(SubSeq(s, a + 1, b)) = b - a
         /\ \A i \in 1 .. b - a : SubSeq(s, a + 1, b)[i] = s[a + i]
<1>1. Len(s) \in Nat
  BY LenProperties
<1>2. /\ a \in Nat /\ b \in Nat /\ a + 1 \in Int /\ b \in Int
      /\ a <= b /\ b <= Len(s)
  BY <1>1
<1>3. \A i \in a + 1 .. b : s[i] \in Entry
  BY <1>1, <1>2, ElementOfSeq
<1>4. /\ SubSeq(s, a + 1, b) \in Seq(Entry)
      /\ Len(SubSeq(s, a + 1, b)) = IF a + 1 <= b THEN b - (a + 1) + 1 ELSE 0
      /\ \A i \in 1 .. b - (a + 1) + 1 : SubSeq(s, a + 1, b)[i] = s[(a + 1) + i - 1]
  BY <1>2, <1>3, SubSeqProperties
<1>5. /\ b - (a + 1) + 1 = b - a
      /\ (IF a + 1 <= b THEN b - (a + 1) + 1 ELSE 0) = b - a
  BY <1>2
<1>6. \A i \in 1 .. b - a : (a + 1) + i - 1 = a + i
  BY <1>2
<1> QED
  BY <1>4, <1>5, <1>6

LEMMA Join ==
  ASSUME NEW s \in Seq(Entry), NEW a \in 0 .. Len(s), NEW b \in a .. Len(s), NEW c \in b .. Len(s)
  PROVE  SubSeq(s, a + 1, b) \o SubSeq(s, b + 1, c) = SubSeq(s, a + 1, c)
<1>1. Len(s) \in Nat
  BY LenProperties
<1>2. a + 1 \in 1 .. Len(s) + 1 /\ b \in (a + 1) - 1 .. Len(s)
  BY <1>1
<1> QED
  BY <1>2, ConcatAdjacentSubSeq

LEMMA SameSeq ==
  ASSUME NEW u \in Seq(Entry), NEW v \in Seq(Entry), NEW c, Len(u) = c, Len(v) = c,
         \A i \in 1 .. c : u[i] = v[i]
  PROVE  u = v
BY SeqEqual

LEMMA PieceOfPiece ==
  ASSUME NEW s \in Seq(Entry), NEW a \in 0 .. Len(s), NEW b \in a .. Len(s), NEW c \in 0 .. b - a
  PROVE  SubSeq(SubSeq(s, a + 1, b), 1, c) = SubSeq(s, a + 1, a + c)
<1> DEFINE t == SubSeq(s, a + 1, b)
<1>1. Len(s) \in Nat
  BY LenProperties
<1>2. a + c \in a .. Len(s) /\ c \in Nat /\ a \in Nat /\ b \in Nat
  BY <1>1
<1>3. t \in Seq(Entry) /\ Len(t) = b - a /\ \A i \in 1 .. b - a : t[i] = s[a + i]
  BY Piece
<1> HIDE DEF t
<1>4. /\ SubSeq(t, 0 + 1, c) \in Seq(Entry) /\ Len(SubSeq(t, 0 + 1, c)) = c - 0
      /\ \A i \in 1 .. c - 0 : SubSeq(t, 0 + 1, c)[i] = t[0 + i]
  BY <1>2, <1>3, Piece
<1>5. /\ SubSeq(s, a + 1, a + c) \in Seq(Entry) /\ Len(SubSeq(s, a + 1, a + c)) = (a + c) - a
      /\ \A i \in 1 .. (a + c) - a : SubSeq(s, a + 1, a + c)[i] = s[a + i]
  BY <1>2, Piece
<1>6. (a + c) - a = c /\ c - 0 = c /\ 0 + 1 = 1
  BY <1>2
<1>7. \A i \in 1 .. c : SubSeq(t, 1, c)[i] = SubSeq(s, a + 1, a + c)[i]
  BY <1>2, <1>3, <1>4, <1>5, <1>6
<1>8. SubSeq(t, 1, c) = SubSeq(s, a + 1, a + c)
  <2> DEFINE u == SubSeq(t, 1, c)
             v == SubSeq(s, a + 1, a + c)
  <2>1. u \in Seq(Entry) /\ v \in Seq(Entry) /\ Len(u) = c /\ Len(v) = c /\ \A i \in 1 .. c : u[i] = v[i]
    BY <1>4, <1>5, <1>6, <1>7
  <2> HIDE DEF u, v
  <2>2. u = v
    BY <2>1, SameSeq
  <2> QED
    BY <2>2 DEF u, v
<1> QED
  BY <1>8 DEF t

(* A beginning of a listing is one of its pieces.                          *)
LEMMA PrefixIsPiece ==
  ASSUME NEW s \in Seq(Entry), NEW t \in Seq(Entry)
  PROVE  IsPrefix(s, t) <=> Len(s) <= Len(t) /\ s = SubSeq(t, 1, Len(s))
<1>1. SubSeq(s, 1, Len(s)) = s
  BY SubSeqFull
<1> QED
  BY <1>1 DEF IsPrefix

LEMMA ListingType ==
  ASSUME NEW f \in File
  PROVE  Listing(f) \in Seq(Entry) /\ Len(Listing(f)) \in Nat
BY TraversalCacheAssumption, LenProperties DEF Listing

(* What a descriptor returns is the next piece of the listing; the end is  *)
(* reported at the end, and a success is as long as it can be.             *)
LEMMA ReadsPiece ==
  ASSUME NEW f \in File, NEW n \in Nat, NEW start \in 0 .. Len(Listing(f)), NEW r \in Reads(f, start, n)
  PROVE  LET left == Len(Listing(f)) - start
             due  == IF n = 0 \/ left < n THEN left ELSE n
         IN  \E count \in 0 .. due :
               /\ r.entries = SubSeq(Listing(f), start + 1, start + count)
               /\ r.entries \in Seq(Entry) /\ Len(r.entries) = count
               /\ r.err \in {"nil", "EOF", "failed"}
               /\ r.err = "EOF" => n > 0 /\ left = 0
               /\ r.err = "nil" => count = due /\ (n = 0 \/ left > 0)
<1> DEFINE left == Len(Listing(f)) - start
           due == IF n = 0 \/ left < n THEN left ELSE n
           Some(count, err) ==
             [entries |-> SubSeq(Listing(f), start + 1, start + count), err |-> err]
<1>1. left \in Nat /\ due \in 0 .. left /\ left = Len(Listing(f)) - start
  BY ListingType
<1>2. \/ r = Some(due, IF n > 0 /\ left = 0 THEN "EOF" ELSE "nil")
      \/ \E count \in 0 .. due : r = Some(count, "failed")
  BY DEF Reads
<1>3. ASSUME NEW count \in 0 .. due
      PROVE  /\ SubSeq(Listing(f), start + 1, start + count) \in Seq(Entry)
             /\ Len(SubSeq(Listing(f), start + 1, start + count)) = count
  <2>1. start + count \in start .. Len(Listing(f)) /\ (start + count) - start = count
    BY <1>1, ListingType
  <2> QED
    BY <2>1, Piece, ListingType
<1>4. CASE r = Some(due, IF n > 0 /\ left = 0 THEN "EOF" ELSE "nil")
  <2>1. due \in 0 .. due
    BY <1>1
  <2>2. n > 0 \/ n = 0
    OBVIOUS
  <2>3. /\ r.entries = SubSeq(Listing(f), start + 1, start + due)
        /\ r.err = IF n > 0 /\ left = 0 THEN "EOF" ELSE "nil"
    BY <1>4
  <2> HIDE DEF left, due
  <2>4. r.entries \in Seq(Entry) /\ Len(r.entries) = due
    BY <1>3, <2>1, <2>3
  <2>5. /\ r.err \in {"nil", "EOF", "failed"}
        /\ r.err = "EOF" => n > 0 /\ left = 0
        /\ r.err = "nil" => (n = 0 \/ left > 0)
    BY <1>1, <2>2, <2>3
  <2> QED
    BY <2>1, <2>3, <2>4, <2>5 DEF left, due
<1>5. CASE \E count \in 0 .. due : r = Some(count, "failed")
  <2>1. PICK count \in 0 .. due : r = Some(count, "failed")
    BY <1>5
  <2>2. /\ r.entries = SubSeq(Listing(f), start + 1, start + count)
        /\ r.err = "failed"
    BY <2>1
  <2> HIDE DEF left, due
  <2>3. r.entries \in Seq(Entry) /\ Len(r.entries) = count
    BY <1>3, <2>2
  <2> QED
    BY <2>2, <2>3 DEF left, due
<1> QED
  BY <1>2, <1>4, <1>5

-----------------------------------------------------------------------------
(* The path through the cache.                                             *)

(* Where an open file is: what it has delivered.                           *)
At(f) == IF cursors[f].opened THEN cursors[f].logical ELSE offset[f]

(* What a call that does not bypass the cache finds.                       *)
LEMMA Through ==
  ASSUME IInv, NEW f \in File, ~Bypassed(f)
  PROVE  LET dir == DirectoryOf(f) IN
         /\ cursors[f].logical \in 0 .. Len(Listing(f)) /\ At(f) = cursors[f].logical
         /\ cursors[f].physical \in 0 .. cursors[f].logical /\ cursors[f].physical = offset[f]
         /\ dir \in Directory /\ dir.identity = IdOf[f]
         /\ dir.entries = directories[KeyOf[f]].entries
         /\ IsPrefix(dir.entries, Listing(f)) /\ Len(dir.entries) \in 0 .. Len(Listing(f))
         /\ dir.complete => dir.entries = Listing(f)
         /\ directories[KeyOf[f]].identity \in {None, IdOf[f]}
         /\ ~cursors[f].opened => ~(Cardinality(Opened) >= CursorLimit)
<1> DEFINE k == KeyOf[f]
           old == directories[k]
           dir == DirectoryOf(f)
<1>1. /\ k \in Key /\ IdOf[f] \in Identity /\ IdOf[f] # None
      /\ Content \in [Identity -> Seq(Entry)] /\ Listing(f) = Content[IdOf[f]]
  BY TraversalCacheAssumption DEF Listing
<1>2. /\ cursors[f] \in [opened : BOOLEAN, logical : Nat, physical : Nat]
      /\ offset[f] \in Nat /\ old \in Directory
  BY <1>1 DEF IInv, TypeOK
<1>3. /\ cursors[f].logical \in 0 .. Len(Listing(f)) /\ At(f) = cursors[f].logical
      /\ cursors[f].physical \in 0 .. cursors[f].logical /\ cursors[f].physical = offset[f]
  <2>1. CASE cursors[f].opened
    BY <1>2, <2>1, ListingType DEF IInv, Placed, CursorsHonest, Opened, At
  <2>2. CASE ~cursors[f].opened
    BY <1>2, <2>2, ListingType DEF IInv, Unopened, At
  <2> QED
    BY <2>1, <2>2
<1>4. /\ old.identity \in {None, IdOf[f]}
      /\ ~cursors[f].opened => ~(Cardinality(Opened) >= CursorLimit)
  BY DEF IInv, Placed, Bypassed
<1>5. IF old.identity = None THEN old = NoDirectory
      ELSE /\ IsPrefix(old.entries, Content[old.identity])
           /\ old.complete => old.entries = Content[old.identity]
  BY <1>1 DEF IInv, ListingsTrue
<1>6. /\ dir \in Directory /\ dir.identity = IdOf[f] /\ dir.entries = old.entries
      /\ IsPrefix(dir.entries, Listing(f))
      /\ dir.complete => dir.entries = Listing(f)
  <2>1. CASE old.identity = None
    <3>1. dir = [identity |-> IdOf[f], entries |-> <<>>, complete |-> FALSE] /\ old.entries = <<>>
      <4>1. dir = [NoDirectory EXCEPT !.identity = IdOf[f]]
        BY <2>1 DEF DirectoryOf
      <4>2. old = NoDirectory
        BY <1>5, <2>1
      <4> QED
        BY <4>1, <4>2 DEF NoDirectory
    <3>2. <<>> \in Seq(Entry) /\ Len(<<>>) = 0 /\ SubSeq(Listing(f), 1, 0) = <<>>
      BY EmptySeq, SubSeqEmpty
    <3>3. IsPrefix(<<>>, Listing(f))
      <4>1. 0 <= Len(Listing(f)) /\ Listing(f) \in Seq(Entry)
        BY ListingType
      <4>2. Len(<<>>) <= Len(Listing(f)) /\ <<>> = SubSeq(Listing(f), 1, Len(<<>>))
        BY <3>2, <4>1
      <4> QED
        BY <3>2, <4>1, <4>2, PrefixIsPiece
    <3> HIDE DEF dir
    <3> QED
      BY <1>1, <3>1, <3>2, <3>3 DEF Directory
  <2>2. CASE old.identity # None
    <3>1. dir = old
      BY <2>2 DEF DirectoryOf
    <3> HIDE DEF dir
    <3> QED
      BY <1>1, <1>2, <1>4, <1>5, <2>2, <3>1
  <2> QED
    BY <2>1, <2>2
<1> HIDE DEF dir
<1>7. Len(dir.entries) \in 0 .. Len(Listing(f))
  <2>1. dir.entries \in Seq(Entry)
    BY <1>6 DEF Directory
  <2> QED
    BY <1>6, <2>1, LenProperties, ListingType DEF IsPrefix
<1> QED
  BY <1>3, <1>4, <1>6, <1>7 DEF dir

(* What it takes from the cache is the next piece of the listing.          *)
LEMMA Taken ==
  ASSUME IInv, NEW f \in File, ~Bypassed(f), NEW n \in Nat
  PROVE  /\ Available(f, n) \in Nat /\ (n > 0 => Available(f, n) <= n)
         /\ Logical(f, n) = cursors[f].logical + Available(f, n)
         /\ Logical(f, n) \in cursors[f].logical .. Len(Listing(f))
         /\ FromCache(f, n) = SubSeq(Listing(f), cursors[f].logical + 1, Logical(f, n))
         /\ FromCache(f, n) \in Seq(Entry) /\ Len(FromCache(f, n)) = Available(f, n)
         /\ CaughtUp(f, n) = Logical(f, n)
<1> DEFINE from == cursors[f].logical
           es == DirectoryOf(f).entries
           some == Available(f, n)
           upto == Logical(f, n)
<1>1. /\ from \in 0 .. Len(Listing(f))
      /\ cursors[f].physical \in 0 .. from /\ cursors[f].physical = offset[f]
      /\ es \in Seq(Entry) /\ IsPrefix(es, Listing(f)) /\ Len(es) \in 0 .. Len(Listing(f))
  BY Through DEF Directory
<1>2. /\ some \in Nat /\ (n > 0 => some <= n)
      /\ some = 0 \/ from + some <= Len(es)
  BY <1>1, ListingType DEF Available
<1>3. upto = from + some
  BY DEF Logical
<1>4. upto \in from .. Len(Listing(f))
  BY <1>1, <1>2, <1>3, ListingType
<1>5. CaughtUp(f, n) = upto
  BY <1>1, <1>3, <1>4, ListingType DEF CaughtUp
<1>6. SubSeq(es, from + 1, upto) = SubSeq(Listing(f), from + 1, upto)
  <2>1. CASE some = 0
    <3>1. upto < from + 1 /\ from + 1 \in Int /\ upto \in Int
      BY <1>1, <1>3, <2>1, ListingType
    <3> QED
      BY <3>1, SubSeqEmpty
  <2>2. CASE some # 0
    <3>1. from \in 0 .. Len(es) /\ upto \in from .. Len(es)
      BY <1>1, <1>2, <1>3, <2>2, ListingType
    <3>2. \A i \in 1 .. upto - from : es[from + i] = Listing(f)[from + i]
      <4>1. es = SubSeq(Listing(f), 0 + 1, Len(es))
        BY <1>1, PrefixIsPiece, ListingType
      <4>2. \A i \in 1 .. Len(es) - 0 : es[i] = Listing(f)[0 + i]
        BY <1>1, <4>1, Piece, ListingType
      <4> QED
        <5>1. \A i \in 1 .. upto - from : from + i \in 1 .. Len(es) - 0 /\ 0 + (from + i) = from + i
          BY <1>1, <3>1, ListingType
        <5> QED
          BY <4>2, <5>1
    <3>3. /\ SubSeq(es, from + 1, upto) \in Seq(Entry) /\ Len(SubSeq(es, from + 1, upto)) = upto - from
          /\ \A i \in 1 .. upto - from : SubSeq(es, from + 1, upto)[i] = es[from + i]
      BY <1>1, <3>1, Piece
    <3>4. /\ SubSeq(Listing(f), from + 1, upto) \in Seq(Entry)
          /\ Len(SubSeq(Listing(f), from + 1, upto)) = upto - from
          /\ \A i \in 1 .. upto - from : SubSeq(Listing(f), from + 1, upto)[i] = Listing(f)[from + i]
      BY <1>1, <1>4, Piece, ListingType
    <3> QED
      <4> DEFINE u == SubSeq(es, from + 1, upto)
                 v == SubSeq(Listing(f), from + 1, upto)
      <4>1. /\ u \in Seq(Entry) /\ v \in Seq(Entry) /\ Len(u) = upto - from /\ Len(v) = upto - from
            /\ \A i \in 1 .. upto - from : u[i] = v[i]
        BY <3>2, <3>3, <3>4
      <4> HIDE DEF u, v
      <4>2. u = v
        BY <4>1, SameSeq
      <4> QED
        BY <4>2 DEF u, v
  <2> QED
    BY <2>1, <2>2
<1>7. FromCache(f, n) = SubSeq(Listing(f), from + 1, upto)
  BY <1>6 DEF FromCache
<1>8. FromCache(f, n) \in Seq(Entry) /\ Len(FromCache(f, n)) = upto - from
  BY <1>1, <1>4, <1>7, Piece, ListingType
<1> QED
  <2>1. upto - from = some
    BY <1>1, <1>2, <1>3, ListingType
  <2> QED
    BY <1>2, <1>3, <1>4, <1>5, <1>7, <1>8, <2>1

-----------------------------------------------------------------------------
(* The steps that use the cache.                                           *)

(* Appending to one listing adds as many held entries as it is longer.     *)
LEMMA HeldGrows ==
  ASSUME IInv, NEW k \in Key, NEW dir \in Directory,
         Len(directories[k].entries) <= Len(dir.entries),
         directories' = [directories EXCEPT ![k] = dir]
  PROVE  /\ IsFiniteSet(Held')
         /\ Cardinality(Held') = Cardinality(Held) + (Len(dir.entries) - Len(directories[k].entries))
<1> DEFINE old == Len(directories[k].entries)
           new == Len(dir.entries)
           more == {k} \X (old + 1 .. new)
<1>1. /\ directories[k] \in Directory /\ directories' \in [Key -> Directory] /\ directories'[k] = dir
      /\ \A j \in Key : j # k => directories'[j] = directories[j]
  BY DEF IInv, TypeOK
<1>2. /\ old \in Nat /\ DOMAIN directories[k].entries = 1 .. old
      /\ new \in Nat /\ DOMAIN dir.entries = 1 .. new
  BY <1>1, LenProperties DEF Directory
<1>3. Held' = Held \cup more
  <2>1. 1 .. new = (1 .. old) \cup (old + 1 .. new)
    BY <1>2
  <2>2. {k} \X (1 .. new) = ({k} \X (1 .. old)) \cup more
    BY <2>1
  <2>3. Held' = UNION {{j} \X DOMAIN directories'[j].entries : j \in Key}
    BY DEF Held
  <2>4. \A x : x \in Held' <=> \E j \in Key : x \in {j} \X DOMAIN directories'[j].entries
    BY <2>3
  <2>5. \A x : x \in Held <=> \E j \in Key : x \in {j} \X DOMAIN directories[j].entries
    BY DEF Held
  <2>6. \A x : x \in Held' => x \in Held \cup more
    <3> TAKE x
    <3> HAVE x \in Held'
    <3>1. PICK j \in Key : x \in {j} \X DOMAIN directories'[j].entries
      BY <2>4
    <3>2. CASE j = k
      <4>1. x \in {k} \X (1 .. old) \/ x \in more
        BY <1>1, <1>2, <2>2, <3>1, <3>2
      <4> QED
        BY <1>2, <2>5, <4>1
    <3>3. CASE j # k
      BY <1>1, <2>5, <3>1, <3>3
    <3> QED
      BY <3>2, <3>3
  <2>7. \A x : x \in Held \cup more => x \in Held'
    <3> TAKE x
    <3> HAVE x \in Held \cup more
    <3>1. CASE x \in more
      <4>1. x \in {k} \X (1 .. new)
        BY <2>2, <3>1
      <4> QED
        BY <1>1, <1>2, <2>4, <4>1
    <3>2. CASE x \in Held
      <4>1. PICK j \in Key : x \in {j} \X DOMAIN directories[j].entries
        BY <2>5, <3>2
      <4>2. CASE j = k
        <5>1. x \in {k} \X (1 .. new)
          BY <1>2, <2>2, <4>1, <4>2
        <5> QED
          BY <1>1, <1>2, <2>4, <5>1
      <4>3. CASE j # k
        BY <1>1, <2>4, <4>1, <4>3
      <4> QED
        BY <4>2, <4>3
    <3> QED
      BY <3>1, <3>2
  <2> QED
    BY <2>6, <2>7
<1>4. Held \cap more = {}
  <2> SUFFICES ASSUME NEW x \in Held, x \in more PROVE FALSE
    OBVIOUS
  <2>1. PICK j \in Key : x \in {j} \X DOMAIN directories[j].entries
    BY DEF Held
  <2>2. PICK i \in old + 1 .. new : x = <<k, i>>
    OBVIOUS
  <2>3. i \in 1 .. old
    BY <1>2, <2>1, <2>2
  <2> QED
    BY <1>2, <2>2, <2>3
<1>5. IsFiniteSet(more) /\ Cardinality(more) = new - old
  <2>0. old <= new
    OBVIOUS
  <2> HIDE DEF old, new
  <2>1. IsFiniteSet(old + 1 .. new) /\ Cardinality(old + 1 .. new) = new - old
    <3>1. old + 1 \in Int /\ new \in Int
      BY <1>2
    <3>2. IsFiniteSet(old + 1 .. new) /\ Cardinality(old + 1 .. new) = IF old + 1 > new THEN 0 ELSE new - (old + 1) + 1
      BY <3>1, FS_Interval
    <3> QED
      BY <1>2, <2>0, <3>2
  <2>2. IsFiniteSet({k}) /\ Cardinality({k}) = 1
    BY FS_Singleton
  <2>3. IsFiniteSet(more) /\ Cardinality(more) = Cardinality({k}) * Cardinality(old + 1 .. new)
    BY <2>1, <2>2, FS_Product
  <2> QED
    <3>1. new - old \in Nat /\ 1 * (new - old) = new - old
      BY <1>2, <2>0
    <3> QED
      BY <2>1, <2>2, <2>3, <3>1
<1> HIDE DEF more, old, new
<1>6. /\ IsFiniteSet(Held \cup more)
      /\ Cardinality(Held \cup more) = Cardinality(Held) + Cardinality(more) - Cardinality({})
  BY <1>4, <1>5, FS_Union DEF IInv
<1>7. Cardinality({}) = 0 /\ Cardinality(Held) \in Nat /\ Cardinality(more) \in Nat
  BY <1>5, FS_EmptySet, FS_CardinalityType DEF IInv
<1> QED
  <2>1. /\ IsFiniteSet(Held') /\ Cardinality(more) = new - old
        /\ Cardinality(Held') = Cardinality(Held) + Cardinality(more)
    BY <1>3, <1>5, <1>6, <1>7
  <2>2. IsFiniteSet(Held') /\ Cardinality(Held') = Cardinality(Held) + (new - old)
    BY <2>1
  <2> QED
    BY <2>2 DEF old, new

(* A step of an open file that enters its directory, appended to within    *)
(* the limit, and moves its cursor and descriptor forward in the listing.  *)
LEMMA ThroughKeeps ==
  ASSUME IInv, NEW f \in File, ~Bypassed(f),
         NEW dir \in Directory, dir.identity = IdOf[f], IsPrefix(dir.entries, Listing(f)),
         dir.complete => dir.entries = Listing(f),
         Len(directories[KeyOf[f]].entries) <= Len(dir.entries),
         NEW logical \in 0 .. Len(Listing(f)), NEW physical \in 0 .. logical,
         Enter(f, dir), Move(f, logical, physical), offset' = [offset EXCEPT ![f] = physical],
         cached' = cached + (Len(dir.entries) - Len(directories[KeyOf[f]].entries)),
         cached' <= EntryLimit
  PROVE  IInv'
<1> DEFINE k == KeyOf[f]
<1>1. /\ k \in Key /\ IdOf[f] \in Identity /\ IdOf[f] # None /\ CursorLimit \in Nat
      /\ \A g \in File : KeyOf[g] \in Key /\ IdOf[g] # None
  BY TraversalCacheAssumption
<1>2. directories[k].identity \in {None, IdOf[f]}
  BY Through
<1>3. /\ directories' = [directories EXCEPT ![k] = dir] /\ directories' \in [Key -> Directory]
      /\ directories'[k] = dir
      /\ \A j \in Key : j # k => directories'[j] = directories[j]
  BY <1>1 DEF Enter, IInv, TypeOK
<1>4. /\ logical \in Nat /\ physical \in Nat /\ physical <= logical /\ logical <= Len(Listing(f))
  BY ListingType
<1>5. /\ cursors' \in [File -> [opened : BOOLEAN, logical : Nat, physical : Nat]]
      /\ cursors'[f] = [opened |-> TRUE, logical |-> logical, physical |-> physical]
      /\ \A g \in File : g # f => cursors'[g] = cursors[g]
      /\ offset' \in [File -> Nat] /\ offset'[f] = physical
      /\ \A g \in File : g # f => offset'[g] = offset[g]
  BY <1>4 DEF Move, IInv, TypeOK
<1>6. /\ IsFiniteSet(Held')
      /\ Cardinality(Held') = Cardinality(Held) + (Len(dir.entries) - Len(directories[k].entries))
  BY <1>1, <1>3, HeldGrows
<1>7. cached' \in Nat /\ cached' = Cardinality(Held')
  <2> DEFINE old == Len(directories[k].entries)
             new == Len(dir.entries)
  <2>1. old \in Nat /\ new \in Nat /\ old <= new
    BY <1>1, LenProperties DEF IInv, TypeOK, Directory
  <2>2. cached' = cached + (new - old) /\ Cardinality(Held') = Cardinality(Held) + (new - old)
    BY <1>6
  <2>3. cached \in Nat /\ cached = Cardinality(Held)
    BY DEF IInv, WithinLimits, TypeOK
  <2> HIDE DEF old, new
  <2>4. cached' = Cardinality(Held')
    BY <2>2, <2>3
  <2>5. cached' \in Nat
    <3>1. new - old \in Nat
      BY <2>1
    <3>2. cached + (new - old) \in Nat
      BY <2>3, <3>1
    <3> QED
      BY <2>2, <3>2
  <2> QED
    BY <2>4, <2>5
<1>8. TypeOK'
  BY <1>3, <1>5, <1>7 DEF TypeOK
<1>9. /\ Opened' = Opened \cup {f}
      /\ IsFiniteSet(Opened') /\ Cardinality(Opened') <= CursorLimit
      /\ Cardinality(Opened) <= Cardinality(Opened')
      /\ Cardinality(Opened) \in Nat /\ Cardinality(Opened') \in Nat
  <2>1. Opened' = Opened \cup {f}
    BY <1>5 DEF Opened
  <2>2. /\ IsFiniteSet(Opened \cup {f})
        /\ Cardinality(Opened \cup {f}) = IF f \in Opened THEN Cardinality(Opened) ELSE Cardinality(Opened) + 1
    BY FS_AddElement DEF IInv
  <2>3. Cardinality(Opened) \in Nat /\ Cardinality(Opened) <= CursorLimit
    BY FS_CardinalityType DEF IInv, WithinLimits
  <2>4. f \in Opened \/ ~(Cardinality(Opened) >= CursorLimit)
    BY Through DEF Opened
  <2> QED
    BY <1>1, <2>1, <2>2, <2>3, <2>4
<1>10. ListingsTrue'
  <2> SUFFICES ASSUME NEW j \in Key
               PROVE  IF directories'[j].identity = None THEN directories'[j] = NoDirectory
                      ELSE /\ IsPrefix(directories'[j].entries, Content[directories'[j].identity])
                           /\ directories'[j].complete
                                => directories'[j].entries = Content[directories'[j].identity]
    BY DEF ListingsTrue
  <2>1. CASE j = k
    BY <1>1, <1>3, <2>1 DEF Listing
  <2>2. CASE j # k
    BY <1>3, <2>2 DEF IInv, ListingsTrue
  <2> QED
    BY <2>1, <2>2
<1>11. CursorsHonest'
  <2> SUFFICES ASSUME NEW g \in File, cursors'[g].opened
               PROVE  cursors'[g].physical = offset'[g] /\ cursors'[g].physical <= cursors'[g].logical
    BY DEF CursorsHonest, Opened
  <2>1. CASE g = f
    BY <1>4, <1>5, <2>1
  <2>2. CASE g # f
    BY <1>5, <2>2 DEF IInv, CursorsHonest, Opened
  <2> QED
    BY <2>1, <2>2
<1>12. \A j \in Key : directories[j].identity # None => directories'[j].identity = directories[j].identity
  BY <1>2, <1>3
<1>13. Placed'
  <2> SUFFICES ASSUME NEW g \in File, cursors'[g].opened
               PROVE  directories'[KeyOf[g]].identity = IdOf[g] /\ cursors'[g].logical <= Len(Listing(g))
    BY DEF Placed, Listing
  <2>1. CASE g = f
    BY <1>3, <1>4, <1>5, <2>1
  <2>2. CASE g # f
    <3>1. directories[KeyOf[g]].identity = IdOf[g] /\ cursors[g].logical <= Len(Listing(g))
      BY <1>5, <2>2 DEF IInv, Placed
    <3> QED
      BY <1>1, <1>5, <1>12, <2>2, <3>1
  <2> QED
    BY <2>1, <2>2
<1>14. Unopened'
  <2> SUFFICES ASSUME NEW g \in File, ~cursors'[g].opened
               PROVE  /\ cursors'[g].logical = 0 /\ cursors'[g].physical = 0
                      /\ offset'[g] <= Len(Listing(g))
                      /\ offset'[g] = 0 \/ Bypassed(g)'
    BY DEF Unopened, Listing
  <2>1. g # f
    BY <1>5
  <2>2. /\ ~cursors[g].opened /\ cursors[g].logical = 0 /\ cursors[g].physical = 0
        /\ offset[g] <= Len(Listing(g)) /\ (offset[g] = 0 \/ Bypassed(g))
    BY <1>5, <2>1 DEF IInv, Unopened
  <2>3. ASSUME Bypassed(g) PROVE Bypassed(g)'
    <3>1. CASE Cardinality(Opened) >= CursorLimit
      BY <1>1, <1>9, <3>1 DEF Bypassed
    <3>2. CASE directories[KeyOf[g]].identity \notin {None, IdOf[g]}
      BY <1>1, <1>12, <3>2 DEF Bypassed
    <3> QED
      BY <2>3, <3>1, <3>2 DEF Bypassed
  <2> QED
    BY <1>5, <2>1, <2>2, <2>3
<1> QED
  BY <1>6, <1>7, <1>8, <1>9, <1>10, <1>11, <1>13, <1>14 DEF IInv, WithinLimits

LEMMA ServedKeeps ==
  ASSUME IInv, NEW f \in File, NEW n \in Nat, Served(f, n)
  PROVE  IInv'
<1>1. ~Bypassed(f)
  BY DEF Served
<1>2. /\ offset \in [File -> Nat] /\ cached \in Nat /\ cached <= EntryLimit
  BY DEF IInv, TypeOK, WithinLimits
<1>3. /\ DirectoryOf(f) \in Directory /\ DirectoryOf(f).identity = IdOf[f]
      /\ IsPrefix(DirectoryOf(f).entries, Listing(f))
      /\ DirectoryOf(f).complete => DirectoryOf(f).entries = Listing(f)
      /\ DirectoryOf(f).entries = directories[KeyOf[f]].entries
      /\ Len(DirectoryOf(f).entries) \in 0 .. Len(Listing(f))
      /\ cursors[f].logical \in 0 .. Len(Listing(f))
      /\ cursors[f].physical \in 0 .. cursors[f].logical /\ cursors[f].physical = offset[f]
  BY <1>1, Through
<1>4. Logical(f, n) \in cursors[f].logical .. Len(Listing(f))
  BY <1>1, Taken
<1>5. Logical(f, n) \in 0 .. Len(Listing(f)) /\ cursors[f].physical \in 0 .. Logical(f, n)
  BY <1>3, <1>4, ListingType
<1>6. Len(DirectoryOf(f).entries) - Len(directories[KeyOf[f]].entries) = 0
      /\ Len(directories[KeyOf[f]].entries) <= Len(DirectoryOf(f).entries)
  BY <1>3, ListingType
<1>7. /\ offset' = [offset EXCEPT ![f] = cursors[f].physical]
      /\ cached' = cached + (Len(DirectoryOf(f).entries) - Len(directories[KeyOf[f]].entries))
      /\ cached' <= EntryLimit
  BY <1>2, <1>3, <1>6 DEF Served
<1>8. Enter(f, DirectoryOf(f)) /\ Move(f, Logical(f, n), cursors[f].physical)
  BY DEF Served
<1> QED
  BY <1>1, <1>3, <1>5, <1>6, <1>7, <1>8, ThroughKeeps

LEMMA CatchUpFailsKeeps ==
  ASSUME IInv, NEW f \in File, NEW n \in Nat, CatchUpFails(f, n)
  PROVE  IInv'
<1>1. ~Bypassed(f)
  BY DEF CatchUpFails
<1>2. /\ offset \in [File -> Nat] /\ cached \in Nat /\ cached <= EntryLimit
  BY DEF IInv, TypeOK, WithinLimits
<1>3. /\ DirectoryOf(f) \in Directory /\ DirectoryOf(f).identity = IdOf[f]
      /\ IsPrefix(DirectoryOf(f).entries, Listing(f))
      /\ DirectoryOf(f).complete => DirectoryOf(f).entries = Listing(f)
      /\ DirectoryOf(f).entries = directories[KeyOf[f]].entries
      /\ Len(DirectoryOf(f).entries) \in 0 .. Len(Listing(f))
      /\ cursors[f].logical \in 0 .. Len(Listing(f))
      /\ cursors[f].physical \in 0 .. cursors[f].logical /\ cursors[f].physical = offset[f]
  BY <1>1, Through
<1>4. Logical(f, n) \in cursors[f].logical .. Len(Listing(f))
  BY <1>1, Taken
<1>5. PICK physical \in cursors[f].physical .. Logical(f, n) - 1 :
        /\ Move(f, Logical(f, n), physical)
        /\ offset' = [offset EXCEPT ![f] = @ + (physical - cursors[f].physical)]
  BY DEF CatchUpFails
<1>6. /\ Logical(f, n) \in 0 .. Len(Listing(f)) /\ physical \in 0 .. Logical(f, n)
      /\ offset[f] + (physical - cursors[f].physical) = physical
  BY <1>3, <1>4, ListingType
<1>7. Len(DirectoryOf(f).entries) - Len(directories[KeyOf[f]].entries) = 0
      /\ Len(directories[KeyOf[f]].entries) <= Len(DirectoryOf(f).entries)
  BY <1>3, ListingType
<1>8. /\ offset' = [offset EXCEPT ![f] = physical]
      /\ cached' = cached + (Len(DirectoryOf(f).entries) - Len(directories[KeyOf[f]].entries))
      /\ cached' <= EntryLimit
  <2>1. offset' = [offset EXCEPT ![f] = physical]
    BY <1>5, <1>6
  <2>2. cached' = cached /\ cached = cached + 0
    BY <1>2 DEF CatchUpFails
  <2> QED
    BY <1>2, <1>7, <2>1, <2>2
<1>9. Enter(f, DirectoryOf(f))
  BY DEF CatchUpFails
<1> QED
  BY <1>1, <1>3, <1>5, <1>6, <1>7, <1>8, <1>9, ThroughKeeps

(* What a read past the cache returns: the piece of the listing that       *)
(* follows what the cache served, as long as the call still may have.      *)
LEMMA ReadPast ==
  ASSUME IInv, NEW f \in File, ~Bypassed(f), NEW n \in Nat, ~Satisfied(f, n),
         NEW r \in Reads(f, CaughtUp(f, n), IF n = 0 THEN 0 ELSE n - Available(f, n))
  PROVE  LET from == Logical(f, n)
             left == Len(Listing(f)) - from
             due  == IF n = 0 \/ left < n - Available(f, n) THEN left ELSE n - Available(f, n)
         IN  \E count \in 0 .. due :
               /\ r.entries = SubSeq(Listing(f), from + 1, from + count)
               /\ r.entries \in Seq(Entry) /\ Len(r.entries) = count
               /\ from + count \in from .. Len(Listing(f))
               /\ r.err \in {"nil", "EOF", "failed"}
               /\ r.err = "EOF" => n > 0 /\ left = 0
               /\ r.err = "nil" => count = due /\ (n = 0 \/ left > 0)
<1> DEFINE from == Logical(f, n)
           some == Available(f, n)
           rest == IF n = 0 THEN 0 ELSE n - some
           left == Len(Listing(f)) - from
           due  == IF n = 0 \/ left < n - some THEN left ELSE n - some
<1>1. /\ some \in Nat /\ (n > 0 => some <= n)
      /\ from \in cursors[f].logical .. Len(Listing(f)) /\ CaughtUp(f, n) = from
      /\ cursors[f].logical \in 0 .. Len(Listing(f))
  BY Taken, Through
<1>2. n > 0 => some # n
  BY DEF Satisfied
<1>3. /\ from \in 0 .. Len(Listing(f)) /\ left \in Nat /\ Len(Listing(f)) \in Nat
      /\ rest \in Nat /\ (rest = 0 <=> n = 0) /\ (n > 0 => rest = n - some)
  BY <1>1, <1>2, ListingType
<1>4. (IF rest = 0 \/ left < rest THEN left ELSE rest) = due
  BY <1>3
<1>5. r \in Reads(f, from, rest)
  BY <1>1
<1> HIDE DEF rest
<1>6. PICK count \in 0 .. (IF rest = 0 \/ left < rest THEN left ELSE rest) :
        /\ r.entries = SubSeq(Listing(f), from + 1, from + count)
        /\ r.entries \in Seq(Entry) /\ Len(r.entries) = count
        /\ r.err \in {"nil", "EOF", "failed"}
        /\ r.err = "EOF" => rest > 0 /\ left = 0
        /\ r.err = "nil" => count = (IF rest = 0 \/ left < rest THEN left ELSE rest)
                            /\ (rest = 0 \/ left > 0)
  <2> HIDE DEF from
  <2> QED
    BY <1>3, <1>5, ReadsPiece
<1>7. /\ count \in 0 .. due /\ from + count \in from .. Len(Listing(f))
      /\ r.err = "EOF" => n > 0 /\ left = 0
      /\ r.err = "nil" => count = due /\ (n = 0 \/ left > 0)
  <2>1. count \in 0 .. due
    BY <1>4, <1>6
  <2>2. due <= left
    BY <1>3
  <2>3. from + count \in from .. Len(Listing(f))
    BY <1>3, <2>1, <2>2
  <2>4. r.err = "EOF" => n > 0 /\ left = 0
    <3>1. rest > 0 => n > 0
      BY <1>3
    <3> QED
      BY <1>6, <3>1
  <2>5. r.err = "nil" => count = due /\ (n = 0 \/ left > 0)
    <3>1. r.err = "nil" => count = (IF rest = 0 \/ left < rest THEN left ELSE rest)
      BY <1>6
    <3>2. r.err = "nil" => rest = 0 \/ left > 0
      BY <1>6
    <3> QED
      BY <1>3, <1>4, <3>1, <3>2
  <2> QED
    BY <2>1, <2>3, <2>4, <2>5
<1> QED
  BY <1>6, <1>7

LEMMA ReadOnKeeps ==
  ASSUME IInv, NEW f \in File, NEW n \in Nat, ReadOn(f, n)
  PROVE  IInv'
<1> DEFINE k    == KeyOf[f]
           old  == directories[k]
           dir  == DirectoryOf(f)
           from == Logical(f, n)
           some == Available(f, n)
           left == Len(Listing(f)) - from
<1>1. ~Bypassed(f) /\ ~Satisfied(f, n)
  BY DEF ReadOn
<1>2. PICK r \in Reads(f, CaughtUp(f, n), IF n = 0 THEN 0 ELSE n - some) :
        /\ IF Extends(f, n)
             THEN /\ Enter(f, [dir EXCEPT !.entries  = @ \o SubSeq(r.entries, 1, Kept(r)),
                                          !.complete = @ \/ Ends(n, r)])
                  /\ cached' = cached + Kept(r)
             ELSE Enter(f, dir) /\ UNCHANGED cached
        /\ Move(f, from + Len(r.entries), from + Len(r.entries))
        /\ offset' = [offset EXCEPT ![f] = CaughtUp(f, n) + Len(r.entries)]
  BY DEF ReadOn
<1> DEFINE due == IF n = 0 \/ left < n - some THEN left ELSE n - some
<1>3. PICK count \in 0 .. due :
        /\ r.entries = SubSeq(Listing(f), from + 1, from + count)
        /\ r.entries \in Seq(Entry) /\ Len(r.entries) = count
        /\ from + count \in from .. Len(Listing(f))
        /\ r.err \in {"nil", "EOF", "failed"}
        /\ r.err = "EOF" => n > 0 /\ left = 0
        /\ r.err = "nil" => count = due /\ (n = 0 \/ left > 0)
  BY <1>1, <1>2, ReadPast
<1>4. /\ dir \in Directory /\ dir.identity = IdOf[f] /\ IsPrefix(dir.entries, Listing(f))
      /\ dir.complete => dir.entries = Listing(f)
      /\ dir.entries = old.entries /\ Len(dir.entries) \in 0 .. Len(Listing(f))
      /\ cursors[f].logical \in 0 .. Len(Listing(f))
      /\ from \in cursors[f].logical .. Len(Listing(f)) /\ CaughtUp(f, n) = from
      /\ Listing(f) \in Seq(Entry) /\ Len(Listing(f)) \in Nat
  BY <1>1, Through, Taken, ListingType
<1>5. cached \in Nat /\ cached <= EntryLimit /\ EntryLimit \in Nat
  BY TraversalCacheAssumption DEF IInv, TypeOK, WithinLimits
<1> HIDE DEF dir, from, due, left
<1>6. /\ from \in Nat /\ count \in Nat /\ from + count \in 0 .. Len(Listing(f))
      /\ from + count \in 0 .. from + count
  <2>1. count \in Nat
    BY <1>3, LenProperties
  <2>2. /\ Len(Listing(f)) \in Nat /\ cursors[f].logical \in 0 .. Len(Listing(f))
        /\ from \in cursors[f].logical .. Len(Listing(f))
    BY <1>4
  <2>3. from + count \in from .. Len(Listing(f))
    BY <1>3
  <2> QED
    BY <2>1, <2>2, <2>3
<1>7. /\ Move(f, from + count, from + count)
      /\ offset' = [offset EXCEPT ![f] = from + count]
  BY <1>2, <1>3, <1>4
<1>8. CASE ~Extends(f, n)
  <2>1. Enter(f, dir) /\ cached' = cached
    BY <1>2, <1>8
  <2>2. /\ cached' = cached + (Len(dir.entries) - Len(old.entries)) /\ cached' <= EntryLimit
        /\ Len(old.entries) <= Len(dir.entries)
    BY <1>4, <1>5, <2>1
  <2> QED
    BY <1>1, <1>4, <1>6, <1>7, <2>1, <2>2, ThroughKeeps
<1>9. CASE Extends(f, n)
  <2> DEFINE kept  == Kept(r)
             es    == dir.entries \o SubSeq(r.entries, 1, kept)
             whole == dir.complete \/ Ends(n, r)
             new   == [dir EXCEPT !.entries = es, !.complete = whole]
  <2>1. from = Len(dir.entries)
    BY <1>9 DEF Extends, from, dir
  <2>2. dir.complete = FALSE
    BY <1>1, <1>4, <2>1 DEF Satisfied, AtEnd, dir, from, Directory
  <2>3. kept \in 0 .. count /\ cached + kept <= EntryLimit
    BY <1>3, <1>5, <1>6 DEF Kept
  <2> HIDE DEF kept
  <2>4. from + kept \in from .. Len(Listing(f)) /\ kept \in Nat
    <3>1. kept \in 0 .. count /\ count \in Nat /\ from \in Nat
      BY <1>6, <2>3
    <3>2. Len(Listing(f)) \in Nat /\ from + count \in from .. Len(Listing(f))
      BY <1>3, <1>4
    <3> QED
      BY <3>1, <3>2
  <2>5. SubSeq(r.entries, 1, kept) = SubSeq(Listing(f), from + 1, from + kept)
    <3>1. /\ from \in 0 .. Len(Listing(f)) /\ from + count \in from .. Len(Listing(f))
          /\ kept \in 0 .. (from + count) - from
      BY <1>3, <1>4, <1>6, <2>3
    <3> QED
      BY <1>3, <1>4, <3>1, PieceOfPiece
  <2>6. dir.entries = SubSeq(Listing(f), 0 + 1, from)
    BY <1>4, <2>1, PrefixIsPiece DEF Directory
  <2>7. es = SubSeq(Listing(f), 0 + 1, from + kept)
    <3>1. 0 \in 0 .. Len(Listing(f)) /\ from \in 0 .. Len(Listing(f))
      BY <1>4, <1>6
    <3> QED
      BY <1>4, <2>4, <2>5, <2>6, <3>1, Join
  <2>8. es \in Seq(Entry) /\ Len(es) = from + kept
    <3> DEFINE upto == from + kept
    <3>1. 0 \in 0 .. Len(Listing(f)) /\ upto \in 0 .. Len(Listing(f)) /\ upto - 0 = upto
      BY <1>4, <1>6, <2>4
    <3>2. es = SubSeq(Listing(f), 0 + 1, upto)
      BY <2>7
    <3> HIDE DEF es, upto
    <3>3. es \in Seq(Entry) /\ Len(es) = upto
      BY <1>4, <3>1, <3>2, Piece
    <3> QED
      BY <3>3 DEF upto
  <2>9. whole \in BOOLEAN /\ (whole <=> Ends(n, r))
    BY <2>2
  <2> HIDE DEF es, whole
  <2>10. /\ new \in Directory /\ new.identity = IdOf[f] /\ new.entries = es /\ new.complete = whole
    BY <1>4, <2>8, <2>9 DEF Directory
  <2> HIDE DEF new
  <2>11. IsPrefix(new.entries, Listing(f))
    <3>1. Len(new.entries) <= Len(Listing(f)) /\ new.entries = SubSeq(Listing(f), 1, Len(new.entries))
      BY <1>4, <1>6, <2>4, <2>7, <2>8, <2>10
    <3> QED
      BY <1>4, <2>8, <2>10, <3>1, PrefixIsPiece
  <2>12. new.complete => new.entries = Listing(f)
    <3> SUFFICES ASSUME new.complete PROVE new.entries = Listing(f)
      OBVIOUS
    <3>1. kept = count /\ (r.err = "EOF" \/ (n = 0 /\ r.err = "nil"))
      BY <1>3, <2>9, <2>10 DEF Ends, kept
    <3>2. from + kept = Len(Listing(f))
      <4>1. r.err = "EOF" => left = 0
        BY <1>3
      <4>2. n = 0 /\ r.err = "nil" => count = left
        BY <1>3 DEF due
      <4>3. CASE left = 0
        BY <1>4, <1>6, <2>4, <4>3 DEF left
      <4>4. CASE count = left
        BY <1>4, <1>6, <3>1, <4>4 DEF left
      <4> QED
        BY <3>1, <4>1, <4>2, <4>3, <4>4
    <3> QED
      BY <1>4, <2>7, <2>10, <3>2, SubSeqFull
  <2>13. Enter(f, new) /\ cached' = cached + kept
    BY <1>2, <1>9 DEF new, kept, es, whole
  <2>14. /\ Len(new.entries) - Len(old.entries) = kept /\ Len(old.entries) <= Len(new.entries)
    BY <1>4, <1>6, <2>1, <2>4, <2>8, <2>10
  <2>15. /\ cached' = cached + (Len(new.entries) - Len(old.entries)) /\ cached' <= EntryLimit
    BY <2>3, <2>13, <2>14
  <2> QED
    BY <1>1, <1>6, <1>7, <2>10, <2>11, <2>12, <2>13, <2>14, <2>15, ThroughKeeps
<1> QED
  BY <1>8, <1>9

-----------------------------------------------------------------------------
(* The paths around the cache.                                             *)
LEMMA BypassKeeps ==
  ASSUME IInv, NEW f \in File, NEW n \in Nat, Bypass(f, n)
  PROVE  IInv'
<1>1. Bypassed(f) /\ ~cursors[f].opened /\ UNCHANGED <<directories, cursors, cached>>
  BY DEF Bypass, Bypassed
<1>2. PICK r \in Reads(f, offset[f], n) : offset' = [offset EXCEPT ![f] = @ + Len(r.entries)]
  BY DEF Bypass
<1>3. offset[f] \in 0 .. Len(Listing(f)) /\ offset \in [File -> Nat]
  BY <1>1, ListingType DEF IInv, Unopened, TypeOK
<1> DEFINE left == Len(Listing(f)) - offset[f]
           due  == IF n = 0 \/ left < n THEN left ELSE n
<1>4. PICK count \in 0 .. due : Len(r.entries) = count
  BY <1>2, <1>3, ReadsPiece
<1>5. count \in Nat /\ offset[f] + count \in 0 .. Len(Listing(f))
  BY <1>3, <1>4, ListingType
<1>6. /\ offset' \in [File -> Nat] /\ offset'[f] = offset[f] + count
      /\ \A g \in File : g # f => offset'[g] = offset[g]
  BY <1>2, <1>3, <1>4, <1>5
<1>7. TypeOK'
  BY <1>1, <1>6 DEF IInv, TypeOK
<1>8. Held' = Held /\ Opened' = Opened
  BY <1>1 DEF Held, Opened
<1>9. CursorsHonest'
  BY <1>1, <1>6 DEF IInv, CursorsHonest, Opened
<1>10. \A g \in File : Bypassed(g)' <=> Bypassed(g)
  BY <1>1, <1>8 DEF Bypassed
<1>11. Unopened'
  <2> SUFFICES ASSUME NEW g \in File, ~cursors'[g].opened
               PROVE  /\ cursors'[g].logical = 0 /\ cursors'[g].physical = 0
                      /\ offset'[g] <= Len(Listing(g))
                      /\ offset'[g] = 0 \/ Bypassed(g)'
    BY DEF Unopened, Listing
  <2>1. /\ cursors'[g].logical = 0 /\ cursors'[g].physical = 0
        /\ offset[g] <= Len(Listing(g)) /\ (offset[g] = 0 \/ Bypassed(g))
    BY <1>1 DEF IInv, Unopened
  <2>2. CASE g = f
    BY <1>1, <1>5, <1>6, <1>10, <2>1, <2>2, ListingType
  <2>3. CASE g # f
    BY <1>6, <1>10, <2>1, <2>3
  <2> QED
    BY <2>2, <2>3
<1>12. ListingsTrue' /\ Placed'
  BY <1>1 DEF IInv, ListingsTrue, Placed, Listing
<1> QED
  BY <1>1, <1>7, <1>8, <1>9, <1>11, <1>12 DEF IInv, WithinLimits

(* A call that fails before it does anything, or no call.                  *)
LEMMA NothingKeeps ==
  ASSUME IInv, UNCHANGED <<directories, cursors, cached, offset>>
  PROVE  IInv'
<1>1. Held' = Held /\ Opened' = Opened
  BY DEF Held, Opened
<1>2. \A g \in File : Bypassed(g)' <=> Bypassed(g)
  BY <1>1 DEF Bypassed
<1>3. Unopened'
  BY <1>2 DEF IInv, Unopened, Listing
<1> QED
  BY <1>1, <1>3 DEF IInv, TypeOK, WithinLimits, ListingsTrue, CursorsHonest, Placed, Listing

LEMMA InitEstablishes == Init => IInv
<1> SUFFICES ASSUME Init PROVE IInv
  OBVIOUS
<1>1. NoDirectory \in Directory
  BY EmptySeq DEF NoDirectory, Directory
<1>2. TypeOK
  BY <1>1 DEF Init, TypeOK, NoCursor
<1>3. Held = {}
  <2>1. \A k \in Key : directories[k].entries = <<>>
    BY DEF Init, NoDirectory
  <2>2. DOMAIN <<>> = {}
    OBVIOUS
  <2>3. \A k \in Key : {k} \X DOMAIN directories[k].entries = {}
    BY <2>1, <2>2
  <2> QED
    BY <2>3 DEF Held
<1>4. Opened = {}
  BY DEF Init, Opened, NoCursor
<1>5. IsFiniteSet({}) /\ Cardinality({}) = 0
  BY FS_EmptySet
<1>6. WithinLimits
  <2>1. 0 <= EntryLimit /\ 0 <= CursorLimit
    BY TraversalCacheAssumption
  <2> QED
    BY <1>3, <1>4, <1>5, <2>1 DEF Init, WithinLimits
<1>7. ListingsTrue
  BY DEF Init, ListingsTrue, NoDirectory
<1>8. CursorsHonest /\ Placed
  BY <1>4 DEF Init, CursorsHonest, Placed, NoCursor
<1>9. Unopened
  BY ListingType DEF Init, Unopened, NoCursor
<1> QED
  BY <1>2, <1>3, <1>4, <1>5, <1>6, <1>7, <1>8, <1>9 DEF IInv

LEMMA NextPreserves == IInv /\ [Next]_vars => IInv'
<1> SUFFICES ASSUME IInv, [Next]_vars PROVE IInv'
  OBVIOUS
<1>1. CASE UNCHANGED vars
  BY <1>1, NothingKeeps DEF vars
<1>2. ASSUME NEW f \in File, NEW n \in Batch, ReadDir(f, n) PROVE IInv'
  <2>1. n \in Nat
    BY TraversalCacheAssumption
  <2>2. StatFails(f, n) => IInv'
    BY NothingKeeps DEF StatFails
  <2> QED
    BY <1>2, <2>1, <2>2, BypassKeeps, ServedKeeps, CatchUpFailsKeeps, ReadOnKeeps DEF ReadDir
<1> QED
  BY <1>1, <1>2 DEF Next

-----------------------------------------------------------------------------
(* The invariant holds in every reachable state.                           *)
THEOREM Inductive == Spec => []IInv
<1> QED
  BY InitEstablishes, NextPreserves, PTL DEF Spec

(* For any files, directories and limits: the stores stay within their     *)
(* limits and are counted right, a listing put together from the reads of  *)
(* several files is true to its directory, and whole when it is marked     *)
(* complete, and no descriptor is ahead of its cursor (cache.go:90-182).   *)
THEOREM CacheStaysSound == Spec => []CacheSound
<1>1. IInv => CacheSound
  BY DEF IInv, CacheSound
<1> QED
  BY <1>1, Inductive, PTL

-----------------------------------------------------------------------------
(* The cache implements the stream: one lemma per path of ReadDir.         *)

(* A step that delivers count entries of f and leaves the other files.     *)
LEMMA Delivers ==
  ASSUME NEW f \in File, NEW n, NEW count, NEW err,
         At(f)' = At(f) + count, \A g \in File : g # f => At(g)' = At(g),
         Answer(f, n, SubSeq(Listing(f), At(f) + 1, At(f) + count), err)
  PROVE  Stream!Deliver(f, n, count, err)
<1> DEFINE pos == [g \in File |-> IF cursors[g].opened THEN cursors[g].logical ELSE offset[g]]
<1>1. pos = [g \in File |-> At(g)] /\ pos' = [g \in File |-> At(g)']
  BY DEF At
<1>2. [g \in File |-> Listing(g)][f] = Listing(f)
  OBVIOUS
<1> HIDE DEF pos
<1>3. pos[f] = At(f) /\ pos' = [pos EXCEPT ![f] = @ + count]
  BY <1>1
<1> QED
  BY <1>2, <1>3 DEF Stream!Deliver, Answer, pos

(* What the stream has left and owes, by the state of the cache.           *)
LEMMA StreamOwes ==
  ASSUME NEW f \in File, NEW n
  PROVE  /\ Stream!Left(f) = Len(Listing(f)) - At(f)
         /\ Stream!Due(f, n) = LET left == Len(Listing(f)) - At(f)
                               IN  IF n = 0 \/ left < n THEN left ELSE n
BY DEF Stream!Left, Stream!Due, At

(* What a call delivers and reports makes it a call of the stream.         *)
LEMMA StreamCall ==
  ASSUME NEW f \in File, NEW n \in Nat, NEW count, NEW err, Stream!Deliver(f, n, count, err),
         \/ err = "nil" /\ count = Stream!Due(f, n) /\ (n = 0 \/ Stream!Left(f) > 0)
         \/ err = "EOF" /\ count = 0 /\ n > 0 /\ Stream!Left(f) = 0
         \/ err = "failed" /\ count \in 0 .. Stream!Due(f, n)
  PROVE  Stream!ReadDir(f, n)
BY DEF Stream!ReadDir

LEMMA BypassStreams ==
  ASSUME IInv, NEW f \in File, NEW n \in Nat, Bypass(f, n)
  PROVE  Stream!ReadDir(f, n)
<1>1. ~cursors[f].opened /\ UNCHANGED <<directories, cursors, cached>>
  BY DEF Bypass, Bypassed
<1>2. PICK r \in Reads(f, offset[f], n) :
        /\ offset' = [offset EXCEPT ![f] = @ + Len(r.entries)]
        /\ Answer(f, n, r.entries, r.err)
  BY DEF Bypass
<1>3. offset[f] \in 0 .. Len(Listing(f)) /\ offset \in [File -> Nat] /\ At(f) = offset[f]
  BY <1>1, ListingType DEF IInv, Unopened, TypeOK, At
<1> DEFINE left == Len(Listing(f)) - offset[f]
           due  == IF n = 0 \/ left < n THEN left ELSE n
<1>4. PICK count \in 0 .. due :
        /\ r.entries = SubSeq(Listing(f), offset[f] + 1, offset[f] + count) /\ Len(r.entries) = count
        /\ r.err \in {"nil", "EOF", "failed"}
        /\ r.err = "EOF" => n > 0 /\ left = 0
        /\ r.err = "nil" => count = due /\ (n = 0 \/ left > 0)
  BY <1>2, <1>3, ReadsPiece
<1>5. At(f)' = At(f) + count /\ \A g \in File : g # f => At(g)' = At(g)
  BY <1>1, <1>2, <1>3, <1>4 DEF At
<1>6. Stream!Deliver(f, n, count, r.err)
  BY <1>2, <1>3, <1>4, <1>5, Delivers
<1>7. left = Stream!Left(f) /\ due = Stream!Due(f, n) /\ left \in Nat
  BY <1>3, StreamOwes, ListingType
<1>8. CASE r.err = "nil"
  BY <1>4, <1>6, <1>7, <1>8 DEF Stream!ReadDir
<1>9. CASE r.err = "EOF"
  <2>1. n > 0 /\ left = 0 /\ count = 0
    BY <1>4, <1>9
  <2> QED
    BY <1>6, <1>7, <1>9, <2>1 DEF Stream!ReadDir
<1>10. CASE r.err = "failed"
  BY <1>4, <1>6, <1>7, <1>10 DEF Stream!ReadDir
<1> QED
  BY <1>4, <1>8, <1>9, <1>10

LEMMA StatFailsStreams ==
  ASSUME IInv, NEW f \in File, NEW n \in Nat, StatFails(f, n)
  PROVE  Stream!ReadDir(f, n)
<1>1. ~cursors[f].opened /\ UNCHANGED <<directories, cursors, cached, offset>>
      /\ Answer(f, n, <<>>, "failed")
  BY DEF StatFails
<1>2. offset[f] \in 0 .. Len(Listing(f)) /\ At(f) = offset[f] /\ Len(Listing(f)) \in Nat
  BY <1>1, ListingType DEF IInv, Unopened, TypeOK, At
<1>3. /\ At(f)' = At(f) + 0 /\ \A g \in File : g # f => At(g)' = At(g)
  BY <1>1, <1>2 DEF At
<1>4. SubSeq(Listing(f), At(f) + 1, At(f) + 0) = <<>>
  BY <1>2, SubSeqEmpty
<1>5. Stream!Deliver(f, n, 0, "failed")
  BY <1>1, <1>3, <1>4, Delivers
<1>6. 0 \in 0 .. Stream!Due(f, n)
  BY <1>2, StreamOwes
<1> QED
  BY <1>5, <1>6 DEF Stream!ReadDir

(* A step through the cache moves its file as far as its cursor.           *)
LEMMA CursorMoves ==
  ASSUME IInv, NEW f \in File, ~Bypassed(f), NEW n, NEW count \in Nat, NEW physical, NEW err,
         Move(f, cursors[f].logical + count, physical),
         \A g \in File : g # f => offset'[g] = offset[g],
         Answer(f, n, SubSeq(Listing(f), cursors[f].logical + 1, cursors[f].logical + count), err)
  PROVE  Stream!Deliver(f, n, count, err)
<1>1. At(f) = cursors[f].logical
  BY Through
<1>2. /\ cursors'[f] = [opened |-> TRUE, logical |-> cursors[f].logical + count, physical |-> physical]
      /\ \A g \in File : g # f => cursors'[g] = cursors[g]
  BY DEF Move, IInv, TypeOK
<1>3. At(f)' = At(f) + count /\ \A g \in File : g # f => At(g)' = At(g)
  BY <1>1, <1>2 DEF At
<1> QED
  BY <1>1, <1>3, Delivers

LEMMA ServedStreams ==
  ASSUME IInv, NEW f \in File, NEW n \in Nat, Served(f, n)
  PROVE  Stream!ReadDir(f, n)
<1> DEFINE some == Available(f, n)
           from == cursors[f].logical
<1>err. PICK err : err = IF n > 0 /\ some = 0 THEN "EOF" ELSE "nil"
  OBVIOUS
<1>1. /\ ~Bypassed(f) /\ Satisfied(f, n) /\ UNCHANGED <<cached, offset>>
      /\ Move(f, Logical(f, n), cursors[f].physical) /\ Answer(f, n, FromCache(f, n), err)
  BY <1>err DEF Served
<1>2. /\ some \in Nat /\ (n > 0 => some <= n) /\ Logical(f, n) = from + some
      /\ Logical(f, n) \in from .. Len(Listing(f))
      /\ FromCache(f, n) = SubSeq(Listing(f), from + 1, Logical(f, n))
  BY <1>1, Taken
<1>3. from \in 0 .. Len(Listing(f)) /\ At(f) = from /\ Len(Listing(f)) \in Nat
      /\ (DirectoryOf(f).complete => DirectoryOf(f).entries = Listing(f))
  BY <1>1, Through, ListingType
<1>4. Stream!Deliver(f, n, some, err)
  <2>1. /\ Move(f, from + some, cursors[f].physical)
        /\ Answer(f, n, SubSeq(Listing(f), from + 1, from + some), err)
        /\ \A g \in File : g # f => offset'[g] = offset[g]
    BY <1>1, <1>2
  <2> HIDE DEF some
  <2> QED
    BY <1>1, <1>2, <2>1, CursorMoves
<1>5. /\ Stream!Left(f) = Len(Listing(f)) - from
      /\ Stream!Due(f, n) = IF n = 0 \/ Len(Listing(f)) - from < n THEN Len(Listing(f)) - from ELSE n
  BY <1>3, StreamOwes
<1>6. \/ n > 0 /\ some = n
      \/ some = Len(Listing(f)) - from
  BY <1>1, <1>2, <1>3 DEF Satisfied, AtEnd
<1>7. some = Stream!Due(f, n)
  BY <1>2, <1>3, <1>5, <1>6
<1>8. CASE n > 0 /\ some = 0
  <2>1. Stream!Left(f) = 0 /\ err = "EOF"
    BY <1>err, <1>2, <1>5, <1>6, <1>8
  <2> HIDE DEF some
  <2> QED
    BY <1>4, <1>8, <2>1, StreamCall
<1>9. CASE ~(n > 0 /\ some = 0)
  <2>1. (n = 0 \/ Stream!Left(f) > 0) /\ err = "nil"
    BY <1>err, <1>2, <1>3, <1>5, <1>6, <1>9
  <2> HIDE DEF some
  <2> QED
    BY <1>4, <1>7, <2>1, StreamCall
<1> QED
  BY <1>8, <1>9

LEMMA CatchUpFailsStreams ==
  ASSUME IInv, NEW f \in File, NEW n \in Nat, CatchUpFails(f, n)
  PROVE  Stream!ReadDir(f, n)
<1> DEFINE some == Available(f, n)
           from == cursors[f].logical
<1>1. ~Bypassed(f) /\ Answer(f, n, FromCache(f, n), "failed")
  BY DEF CatchUpFails
<1>2. PICK physical \in cursors[f].physical .. Logical(f, n) - 1 :
        /\ Move(f, Logical(f, n), physical)
        /\ offset' = [offset EXCEPT ![f] = @ + (physical - cursors[f].physical)]
  BY DEF CatchUpFails
<1>3. /\ some \in Nat /\ (n > 0 => some <= n) /\ Logical(f, n) = from + some
      /\ Logical(f, n) \in from .. Len(Listing(f))
      /\ FromCache(f, n) = SubSeq(Listing(f), from + 1, Logical(f, n))
  BY <1>1, Taken
<1>4. from \in 0 .. Len(Listing(f)) /\ At(f) = from /\ Len(Listing(f)) \in Nat
  BY <1>1, Through, ListingType
<1>5. \A g \in File : g # f => offset'[g] = offset[g]
  BY <1>2 DEF IInv, TypeOK
<1>6. Stream!Deliver(f, n, some, "failed")
  BY <1>1, <1>2, <1>3, <1>5, CursorMoves
<1>7. Stream!Due(f, n) = IF n = 0 \/ Len(Listing(f)) - from < n THEN Len(Listing(f)) - from ELSE n
  BY <1>4, StreamOwes
<1>8. some \in 0 .. Stream!Due(f, n)
  <2>1. /\ some \in Nat /\ (n > 0 => some <= n) /\ from + some \in from .. Len(Listing(f))
        /\ from \in Nat /\ Len(Listing(f)) \in Nat
    BY <1>3, <1>4
  <2> HIDE DEF from, some
  <2>2. some <= Len(Listing(f)) - from /\ Len(Listing(f)) - from \in Nat
    BY <2>1
  <2>3. CASE n = 0 \/ Len(Listing(f)) - from < n
    BY <1>7, <2>1, <2>2, <2>3
  <2>4. CASE ~(n = 0 \/ Len(Listing(f)) - from < n)
    BY <1>7, <2>1, <2>2, <2>4
  <2> QED
    BY <2>3, <2>4
<1> HIDE DEF some
<1> QED
  BY <1>6, <1>8, StreamCall

LEMMA ReadOnStreams ==
  ASSUME IInv, NEW f \in File, NEW n \in Nat, ReadOn(f, n)
  PROVE  Stream!ReadDir(f, n)
<1> DEFINE some == Available(f, n)
           from == cursors[f].logical
           upto == Logical(f, n)
           left == Len(Listing(f)) - upto
           due  == IF n = 0 \/ left < n - some THEN left ELSE n - some
<1>1. ~Bypassed(f) /\ ~Satisfied(f, n)
  BY DEF ReadOn
<1>2. PICK r \in Reads(f, CaughtUp(f, n), IF n = 0 THEN 0 ELSE n - some) :
        /\ Move(f, upto + Len(r.entries), upto + Len(r.entries))
        /\ offset' = [offset EXCEPT ![f] = CaughtUp(f, n) + Len(r.entries)]
        /\ Answer(f, n, FromCache(f, n) \o r.entries, Finished(n, FromCache(f, n) \o r.entries, r.err))
  BY DEF ReadOn
<1>3. PICK count \in 0 .. due :
        /\ r.entries = SubSeq(Listing(f), upto + 1, upto + count)
        /\ r.entries \in Seq(Entry) /\ Len(r.entries) = count
        /\ upto + count \in upto .. Len(Listing(f))
        /\ r.err \in {"nil", "EOF", "failed"}
        /\ r.err = "EOF" => n > 0 /\ left = 0
        /\ r.err = "nil" => count = due /\ (n = 0 \/ left > 0)
  BY <1>1, <1>2, ReadPast
<1>4. /\ some \in Nat /\ (n > 0 => some <= n) /\ upto = from + some
      /\ upto \in from .. Len(Listing(f))
      /\ FromCache(f, n) = SubSeq(Listing(f), from + 1, upto)
      /\ FromCache(f, n) \in Seq(Entry) /\ Len(FromCache(f, n)) = some
  BY <1>1, Taken
<1>5. /\ from \in 0 .. Len(Listing(f)) /\ At(f) = from
      /\ Listing(f) \in Seq(Entry) /\ Len(Listing(f)) \in Nat
  BY <1>1, Through, ListingType
<1>6. count \in Nat /\ some + count \in Nat /\ upto + count = from + (some + count)
  <2>1. count \in Nat
    BY <1>3, LenProperties
  <2>2. some \in Nat /\ from \in Nat /\ upto = from + some
    BY <1>4, <1>5
  <2> HIDE DEF some, from, upto
  <2> QED
    BY <2>1, <2>2
<1> DEFINE all == FromCache(f, n) \o r.entries
<1>err. PICK err : err = Finished(n, all, r.err)
  OBVIOUS
<1>7. all = SubSeq(Listing(f), from + 1, from + (some + count))
  <2> HIDE DEF upto
  <2>1. all = SubSeq(Listing(f), from + 1, upto + count)
    BY <1>3, <1>4, <1>5, Join
  <2> QED
    BY <1>6, <2>1
<1>8. Stream!Deliver(f, n, some + count, err)
  <2>1. \A g \in File : g # f => offset'[g] = offset[g]
    BY <1>2 DEF IInv, TypeOK
  <2>2. Move(f, from + (some + count), upto + count)
    BY <1>2, <1>3, <1>6
  <2>3. Answer(f, n, SubSeq(Listing(f), from + 1, from + (some + count)), err)
    BY <1>err, <1>2, <1>7
  <2> DEFINE total == some + count
             place == upto + count
  <2>4. /\ total \in Nat /\ Move(f, from + total, place)
        /\ Answer(f, n, SubSeq(Listing(f), from + 1, from + total), err)
    BY <1>6, <2>2, <2>3
  <2> HIDE DEF total, place
  <2>5. Stream!Deliver(f, n, total, err)
    BY <1>1, <2>1, <2>4, CursorMoves
  <2> QED
    BY <2>5 DEF total
<1>9. /\ Stream!Left(f) = Len(Listing(f)) - from
      /\ Stream!Due(f, n) = IF n = 0 \/ Len(Listing(f)) - from < n THEN Len(Listing(f)) - from ELSE n
  BY <1>5, StreamOwes
<1>10. n > 0 => some < n
  BY <1>1, <1>4 DEF Satisfied
<1>11. Stream!Left(f) = some + left /\ Stream!Due(f, n) = some + due /\ left \in Nat /\ due \in Nat
  <2>1. /\ some \in Nat /\ upto = from + some /\ upto \in from .. Len(Listing(f))
        /\ from \in Nat /\ Len(Listing(f)) \in Nat
    BY <1>4, <1>5
  <2> HIDE DEF some, from, upto
  <2>2. left \in Nat /\ Len(Listing(f)) - from = some + left
    BY <2>1
  <2> HIDE DEF left
  <2>3. CASE n = 0 \/ Len(Listing(f)) - from < n
    BY <1>9, <2>1, <2>2, <2>3
  <2>4. CASE ~(n = 0 \/ Len(Listing(f)) - from < n)
    <3>1. n \in Nat /\ n # 0 /\ Len(Listing(f)) - from >= n /\ ~(left < n - some)
      BY <2>1, <2>2, <2>4
    <3> QED
      BY <1>9, <1>10, <2>1, <2>2, <3>1
  <2> QED
    BY <2>3, <2>4
<1> HIDE DEF all, left, due, upto, some
<1>13. CASE r.err = "nil"
  <2>1. err = "nil" /\ count = due /\ (n = 0 \/ left > 0)
    BY <1>err, <1>3, <1>13 DEF Finished
  <2>2. some + count = Stream!Due(f, n) /\ (n = 0 \/ Stream!Left(f) > 0)
    BY <1>4, <1>11, <2>1
  <2> QED
    BY <1>8, <2>1, <2>2, StreamCall
<1>14. CASE r.err = "EOF"
  <2>1. n > 0 /\ left = 0
    BY <1>3, <1>14
  <2>2. due = 0 /\ count = 0
    <3>1. n - some > 0
      BY <1>4, <1>10, <2>1
    <3>2. due = 0
      BY <2>1, <3>1 DEF due
    <3> QED
      BY <1>3, <1>6, <3>2
  <2>3. some + count = some /\ Stream!Left(f) = some /\ Stream!Due(f, n) = some
    BY <1>4, <1>11, <2>1, <2>2
  <2>4. CASE some = 0
    <3>1. all = <<>>
      <4>1. from + (some + count) < from + 1 /\ from + 1 \in Int /\ from + (some + count) \in Int
        BY <1>5, <2>2, <2>4
      <4> QED
        BY <1>7, <4>1, SubSeqEmpty
    <3>2. err = "EOF"
      BY <1>err, <1>14, <2>1, <3>1 DEF Finished
    <3> QED
      BY <1>8, <2>1, <2>3, <2>4, <3>2, StreamCall
  <2>5. CASE some # 0
    <3>1. all # <<>>
      <4>1. Len(FromCache(f, n)) # 0 /\ FromCache(f, n) # <<>>
        BY <1>4, <2>5, EmptySeq
      <4> QED
        BY <1>3, <1>4, <4>1, ConcatEqualIffEmpty DEF all
    <3>2. err = "nil"
      BY <1>err, <1>14, <3>1 DEF Finished
    <3>3. Stream!Left(f) > 0
      BY <1>4, <2>3, <2>5
    <3> QED
      BY <1>8, <2>3, <3>2, <3>3, StreamCall
  <2> QED
    BY <2>4, <2>5
<1>15. CASE r.err = "failed"
  <2>1. err = "failed"
    BY <1>err, <1>15 DEF Finished
  <2>2. some + count \in 0 .. Stream!Due(f, n)
    BY <1>3, <1>4, <1>6, <1>11
  <2> QED
    BY <1>8, <2>1, <2>2, StreamCall
<1> QED
  BY <1>3, <1>13, <1>14, <1>15

(* Whatever the other files read in between, which stores are full, which  *)
(* calls failed and which directory was replaced, a file is served as its  *)
(* descriptor alone would have served it: every call is a call of the      *)
(* stream (cache.go:94-100).                                               *)
THEOREM ImplementsTheStream == Spec => ImplementsStream
<1>1. Init => Stream!Init
  BY DEF Init, Stream!Init, NoCursor
<1>2. IInv /\ [Next]_vars
      => [Stream!Next]_<<[f \in File |-> IF cursors[f].opened THEN cursors[f].logical ELSE offset[f]], reply>>
  <2> SUFFICES ASSUME IInv, [Next]_vars
      PROVE  [Stream!Next]_<<[f \in File |-> IF cursors[f].opened THEN cursors[f].logical ELSE offset[f]], reply>>
    OBVIOUS
  <2>1. CASE UNCHANGED vars
    BY <2>1 DEF vars
  <2>2. ASSUME NEW f \in File, NEW n \in Batch, ReadDir(f, n) PROVE Stream!Next
    <3>1. n \in Nat
      BY TraversalCacheAssumption
    <3>2. Stream!ReadDir(f, n)
      BY <2>2, <3>1, BypassStreams, StatFailsStreams, ServedStreams, CatchUpFailsStreams, ReadOnStreams
      DEF ReadDir
    <3> QED
      BY <3>2 DEF Stream!Next
  <2> QED
    BY <2>1, <2>2 DEF Next
<1> QED
  BY <1>1, <1>2, Inductive, PTL DEF Spec, ImplementsStream, Stream!Spec
=============================================================================

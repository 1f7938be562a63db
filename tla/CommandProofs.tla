--------------------------- MODULE CommandProofs ----------------------------
(***************************************************************************)
(* Proofs about the commands that change files.                            *)
(*                                                                         *)
(* A command looks first and acts later, and what it does is a sequence of *)
(* FatFs calls any of which may fail.  Its invariant (FileInv) says that   *)
(* the volumes are trees, and of each command in work which files of its   *)
(* source are whole at the source or at the spot settled so far.  There is *)
(* one lemma per operation that says what every failure of it leaves.      *)
(***************************************************************************)
EXTENDS MCFiles, RingArithmetic, SequenceTheorems, NaturalsInduction, TLAPS

----------------------------------------------------------------------------
(* Paths of names, and what lies below them.                               *)

NamePath == Seq(Names)

\* The letters of a path that goes on, and its parts.
LEMMA PathJoin ==
    ASSUME NEW o \in NamePath, NEW r \in NamePath
    PROVE  /\ o \o r \in NamePath
           /\ Len(o) \in Nat /\ Len(r) \in Nat /\ Len(o \o r) = Len(o) + Len(r)
           /\ o \o <<>> = o
           /\ o \o r = o => r = <<>>
           /\ \A i \in 1 .. Len(o) : (o \o r)[i] = o[i]
  BY ConcatProperties, ConcatEmptySeq, ConcatEqualIffEmpty, LenProperties DEF NamePath

\* The root, and what is not the root.
LEMMA PathEmpty ==
    /\ <<>> \in NamePath /\ Len(<<>>) = 0
    /\ \A o \in NamePath : o # <<>> => Len(o) \in Nat \ {0}
  BY EmptySeq DEF NamePath

\* A path is cut at any place.
LEMMA PathCut ==
    ASSUME NEW o \in NamePath, NEW n \in 0 .. Len(o)
    PROVE  /\ SubSeq(o, 1, n) \in NamePath /\ Len(SubSeq(o, 1, n)) = n
           /\ \A i \in 1 .. n : SubSeq(o, 1, n)[i] = o[i]
           /\ SubSeq(o, n + 1, Len(o)) \in NamePath
           /\ Len(SubSeq(o, n + 1, Len(o))) = Len(o) - n
           /\ SubSeq(o, 1, n) \o SubSeq(o, n + 1, Len(o)) = o
<1>1. Len(o) \in Nat /\ \A i \in 1 .. Len(o) : o[i] \in Names
  BY LenProperties, ElementOfSeq DEF NamePath
<1>2. n \in Int /\ 1 \in Int /\ n + 1 \in Int /\ Len(o) \in Int /\ n \in Nat /\ n <= Len(o)
  BY <1>1
<1>3. /\ SubSeq(o, 1, n) \in NamePath
      /\ Len(SubSeq(o, 1, n)) = IF 1 <= n THEN n - 1 + 1 ELSE 0
      /\ \A i \in 1 .. n - 1 + 1 : SubSeq(o, 1, n)[i] = o[1 + i - 1]
  <2>1. \A i \in 1 .. n : o[i] \in Names
    BY <1>1, <1>2
  <2> QED BY <1>2, <2>1, SubSeqProperties DEF NamePath
<1>4. /\ SubSeq(o, n + 1, Len(o)) \in NamePath
      /\ Len(SubSeq(o, n + 1, Len(o))) = IF n + 1 <= Len(o) THEN Len(o) - (n + 1) + 1 ELSE 0
  <2>1. \A i \in n + 1 .. Len(o) : o[i] \in Names
    BY <1>1, <1>2
  <2> QED BY <1>2, <2>1, SubSeqProperties DEF NamePath
<1>5. Len(SubSeq(o, 1, n)) = n /\ Len(SubSeq(o, n + 1, Len(o))) = Len(o) - n
  BY <1>2, <1>3, <1>4
<1>6. \A i \in 1 .. n : SubSeq(o, 1, n)[i] = o[i]
  <2>1. \A i \in 1 .. n : i \in 1 .. n - 1 + 1 /\ 1 + i - 1 = i
    BY <1>2
  <2> QED BY <1>3, <2>1
<1>7. SubSeq(o, 1, n) \o SubSeq(o, n + 1, Len(o)) = SubSeq(o, 1, Len(o))
  <2>1. 1 \in 1 .. Len(o) + 1 /\ n \in 1 - 1 .. Len(o) /\ Len(o) \in n .. Len(o)
    BY <1>2
  <2> QED BY <2>1, ConcatAdjacentSubSeq DEF NamePath
<1> QED BY <1>3, <1>4, <1>5, <1>6, <1>7, SubSeqFull DEF NamePath

\* A prefix, name by name.
LEMMA PathPrefixIs ==
    ASSUME NEW s \in NamePath, NEW t \in NamePath
    PROVE  IsPrefix(s, t) <=> Len(s) <= Len(t) /\ \A i \in 1 .. Len(s) : s[i] = t[i]
<1>1. Len(s) \in Nat /\ Len(t) \in Nat
  BY LenProperties DEF NamePath
<1>2. SubSeq(s, 1, Len(s)) = s
  BY SubSeqFull DEF NamePath
<1>3. ASSUME Len(s) <= Len(t)
      PROVE  s = SubSeq(t, 1, Len(s)) <=> \A i \in 1 .. Len(s) : s[i] = t[i]
  <2> DEFINE u == SubSeq(t, 1, Len(s))
  <2>1. Len(s) \in 0 .. Len(t)
    BY <1>1, <1>3
  <2>2. u \in NamePath /\ Len(u) = Len(s) /\ \A i \in 1 .. Len(s) : u[i] = t[i]
    BY <2>1, PathCut
  <2>3. s = u <=> \A i \in 1 .. Len(s) : s[i] = u[i]
    <3> HIDE DEF u
    <3> QED BY <2>2, SeqEqual DEF NamePath
  <2> QED BY <2>2, <2>3
<1> QED BY <1>2, <1>3 DEF IsPrefix

\* What stands below the same object is told apart by the rest of its path.
LEMMA PathCancel ==
    ASSUME NEW o \in NamePath, NEW r \in NamePath, NEW q \in NamePath, o \o r = o \o q
    PROVE  r = q
<1>1. /\ Len(o) \in Nat /\ Len(r) \in Nat /\ Len(q) \in Nat
      /\ Len(o \o r) = Len(o) + Len(r) /\ Len(o \o q) = Len(o) + Len(q)
  BY PathJoin
<1>2. Len(r) = Len(q)
  BY <1>1
<1>3. ASSUME NEW i \in 1 .. Len(r)
      PROVE  r[i] = q[i]
  <2>1. Len(o) + i \in 1 .. Len(o) + Len(r) /\ ~ (Len(o) + i <= Len(o)) /\ Len(o) + i - Len(o) = i
    BY <1>1
  <2>2. (o \o r)[Len(o) + i] = r[i] /\ (o \o q)[Len(o) + i] = q[i]
    BY <1>2, <2>1, ConcatProperties DEF NamePath
  <2> QED BY <2>2
<1> QED BY <1>2, <1>3, SeqEqual DEF NamePath

\* What lies below a path is the path and a rest.
LEMMA PathBelow ==
    ASSUME NEW o \in NamePath
    PROVE  /\ \A r \in NamePath : IsPrefix(o, o \o r) /\ Rest(o, o \o r) = r
           /\ \A x \in NamePath : IsPrefix(o, x) => Rest(o, x) \in NamePath /\ x = o \o Rest(o, x)
<1>1. ASSUME NEW x \in NamePath, IsPrefix(o, x)
      PROVE  Rest(o, x) \in NamePath /\ x = o \o Rest(o, x)
  <2>1. Len(o) \in 0 .. Len(x)
    BY <1>1, PathPrefixIs, LenProperties DEF NamePath
  <2>2. o = SubSeq(x, 1, Len(o))
    <3>1. SubSeq(o, 1, Len(o)) = o
      BY SubSeqFull DEF NamePath
    <3> QED BY <1>1, <3>1 DEF IsPrefix
  <2> QED BY <2>1, <2>2, PathCut DEF Rest
<1>2. ASSUME NEW r \in NamePath
      PROVE  IsPrefix(o, o \o r) /\ Rest(o, o \o r) = r
  <2>1. o \o r \in NamePath /\ Len(o) <= Len(o \o r) /\ \A i \in 1 .. Len(o) : (o \o r)[i] = o[i]
    BY PathJoin
  <2>2. IsPrefix(o, o \o r)
    BY <2>1, PathPrefixIs
  <2>3. Rest(o, o \o r) \in NamePath /\ o \o r = o \o Rest(o, o \o r)
    BY <1>1, <2>1, <2>2
  <2> QED BY <2>2, <2>3, PathCancel
<1> QED BY <1>1, <1>2

\* The parent of a place.
LEMMA PathFront ==
    ASSUME NEW o \in NamePath, o # <<>>
    PROVE  /\ Front(o) \in NamePath /\ Len(Front(o)) = Len(o) - 1 /\ Len(o) \in Nat \ {0}
           /\ IsPrefix(Front(o), o) /\ Front(o) # o
           /\ \A i \in 1 .. Len(o) - 1 : Front(o)[i] = o[i]
           /\ Last(o) \in Names
<1>1. Len(o) \in Nat \ {0}
  BY PathEmpty
<1>2. Len(o) - 1 \in 0 .. Len(o) /\ Len(o) \in 1 .. Len(o)
  BY <1>1
<1>3. /\ Front(o) \in NamePath /\ Len(Front(o)) = Len(o) - 1
      /\ \A i \in 1 .. Len(o) - 1 : Front(o)[i] = o[i]
  BY <1>2, PathCut DEF Front
<1>4. IsPrefix(Front(o), o)
  BY <1>1, <1>3, PathPrefixIs
<1>5. Front(o) # o
  BY <1>1, <1>3
<1>6. Last(o) \in Names
  BY <1>2, ElementOfSeq DEF Last, NamePath
<1> QED BY <1>1, <1>3, <1>4, <1>5, <1>6

\* The parent of a place below a path is the path and the parent of the rest.
LEMMA PathJoinFront ==
    ASSUME NEW o \in NamePath, NEW r \in NamePath, r # <<>>
    PROVE  o \o r # <<>> /\ Front(o \o r) = o \o Front(r)
<1>1. /\ o \o r \in NamePath /\ Len(o \o r) = Len(o) + Len(r)
      /\ Len(o) \in Nat /\ Len(r) \in Nat \ {0}
  BY PathJoin, PathEmpty
<1>2. o \o r # <<>>
  BY <1>1, PathEmpty
<1>3. /\ Front(r) \in NamePath /\ Len(Front(r)) = Len(r) - 1
      /\ \A i \in 1 .. Len(r) - 1 : Front(r)[i] = r[i]
  BY PathFront
<1>4. /\ Front(o \o r) \in NamePath /\ Len(Front(o \o r)) = Len(o) + Len(r) - 1
      /\ \A i \in 1 .. Len(o) + Len(r) - 1 : Front(o \o r)[i] = (o \o r)[i]
  <2> DEFINE u == o \o r
  <2>1. u \in NamePath /\ u # <<>> /\ Len(u) = Len(o) + Len(r)
    BY <1>1, <1>2
  <2> HIDE DEF u
  <2>2. /\ Front(u) \in NamePath /\ Len(Front(u)) = Len(u) - 1
        /\ \A i \in 1 .. Len(u) - 1 : Front(u)[i] = u[i]
    BY <2>1, PathFront
  <2>3. /\ Front(u) \in NamePath /\ Len(Front(u)) = Len(o) + Len(r) - 1
        /\ \A i \in 1 .. Len(o) + Len(r) - 1 : Front(u)[i] = u[i]
    BY <2>1, <2>2
  <2> QED BY <2>3 DEF u
<1>5. o \o Front(r) \in NamePath /\ Len(o \o Front(r)) = Len(o) + Len(r) - 1
  <2>1. o \o Front(r) \in NamePath /\ Len(o \o Front(r)) = Len(o) + Len(Front(r))
    BY <1>3, PathJoin
  <2> QED BY <1>1, <1>3, <2>1
<1>6. ASSUME NEW i \in 1 .. Len(o) + Len(r) - 1
      PROVE  Front(o \o r)[i] = (o \o Front(r))[i]
  <2>1. i \in 1 .. Len(o) + Len(r) /\ i \in 1 .. Len(o) + Len(Front(r))
    BY <1>1, <1>3
  <2>2. (o \o r)[i] = IF i <= Len(o) THEN o[i] ELSE r[i - Len(o)]
    BY <2>1, ConcatProperties DEF NamePath
  <2>3. (o \o Front(r))[i] = IF i <= Len(o) THEN o[i] ELSE Front(r)[i - Len(o)]
    BY <1>3, <2>1, ConcatProperties DEF NamePath
  <2>4. ~ (i <= Len(o)) => i - Len(o) \in 1 .. Len(r) - 1
    BY <1>1
  <2> QED BY <1>3, <1>4, <2>2, <2>3, <2>4
<1>7. Front(o \o r) = o \o Front(r)
  <2>1. \A i \in 1 .. Len(Front(o \o r)) : Front(o \o r)[i] = (o \o Front(r))[i]
    BY <1>4, <1>6
  <2> QED BY <1>4, <1>5, <2>1, SeqEqual DEF NamePath
<1> QED BY <1>2, <1>7

\* Prefixes are ordered, and those of one path are comparable.
LEMMA PathOrder ==
    ASSUME NEW o \in NamePath, NEW x \in NamePath, NEW y \in NamePath
    PROVE  /\ IsPrefix(o, o)
           /\ IsPrefix(<<>>, o)
           /\ IsPrefix(o, x) /\ IsPrefix(x, y) => IsPrefix(o, y)
           /\ IsPrefix(o, x) /\ IsPrefix(x, o) => o = x
           /\ IsPrefix(o, y) /\ IsPrefix(x, y) => IsPrefix(o, x) \/ IsPrefix(x, o)
<1>1. Len(o) \in Nat /\ Len(x) \in Nat /\ Len(y) \in Nat
  BY LenProperties DEF NamePath
<1>2. IsPrefix(o, o) /\ IsPrefix(<<>>, o)
  BY <1>1, PathEmpty, PathPrefixIs
<1>3. IsPrefix(o, x) /\ IsPrefix(x, y) => IsPrefix(o, y)
  BY <1>1, PathPrefixIs
<1>4. IsPrefix(o, x) /\ IsPrefix(x, o) => o = x
  BY <1>1, PathPrefixIs, SeqEqual DEF NamePath
<1>5. IsPrefix(o, y) /\ IsPrefix(x, y) => IsPrefix(o, x) \/ IsPrefix(x, o)
  BY <1>1, PathPrefixIs
<1> QED BY <1>2, <1>3, <1>4, <1>5

\* What is strictly below a path has its parent below it.
LEMMA PathFrontBelow ==
    ASSUME NEW o \in NamePath, NEW x \in NamePath, IsPrefix(o, x), x # o
    PROVE  x # <<>> /\ IsPrefix(o, Front(x)) /\ ~ IsPrefix(x, o)
<1>1. Len(o) \in Nat /\ Len(x) \in Nat /\ Len(o) <= Len(x) /\ \A i \in 1 .. Len(o) : o[i] = x[i]
  BY PathPrefixIs, LenProperties DEF NamePath
<1>2. Len(o) # Len(x)
  BY <1>1, SeqEqual DEF NamePath
<1>3. x # <<>>
  BY <1>1, <1>2, PathEmpty
<1>4. /\ Front(x) \in NamePath /\ Len(Front(x)) = Len(x) - 1
      /\ \A i \in 1 .. Len(x) - 1 : Front(x)[i] = x[i]
  BY <1>3, PathFront
<1>5. IsPrefix(o, Front(x))
  BY <1>1, <1>2, <1>4, PathPrefixIs
<1> QED BY <1>3, <1>5, PathOrder

----------------------------------------------------------------------------
(* Volumes as trees.                                                       *)

Disks == [Volumes -> [Objects -> Node]]
AllRooted(t) == \A v \in Volumes : Rooted(t, v)

\* What a command carries: nodes by their path, children only in directories.
TreeNodes == UNION {[D -> Node \ {None}] : D \in SUBSET NamePath}
IsTree(n) == n \in TreeNodes /\ \A r \in DOMAIN n \ {<<>>} : Front(r) \in DOMAIN n => n[Front(r)] = Dir

\* The objects: the paths of at most MaxDepth names.
LEMMA ObjectIs ==
    /\ \A o : o \in Objects <=> o \in NamePath /\ Len(o) <= MaxDepth
    /\ MaxDepth \in Nat
    /\ <<>> \in Objects
<1>1. MaxDepth \in Nat
  BY FileOpsBounds
<1>2. ASSUME NEW o \in Objects
      PROVE  o \in NamePath /\ Len(o) <= MaxDepth
  <2>1. PICK n \in 0 .. MaxDepth : o \in [1 .. n -> Names]
    BY DEF Objects
  <2>2. n \in Nat /\ n <= MaxDepth
    BY <1>1, <2>1
  <2>3. o \in NamePath /\ Len(o) = n
    BY <2>1, <2>2 DEF NamePath
  <2> QED BY <2>2, <2>3
<1>3. ASSUME NEW o \in NamePath, Len(o) <= MaxDepth
      PROVE  o \in Objects
  <2>1. Len(o) \in 0 .. MaxDepth /\ o \in [1 .. Len(o) -> Names]
    BY <1>1, <1>3, LenProperties DEF NamePath
  <2> QED BY <2>1 DEF Objects
<1>4. <<>> \in Objects
  BY <1>1, <1>3, PathEmpty
<1> QED BY <1>1, <1>2, <1>3, <1>4

\* What lies above an object is an object.
LEMMA ObjectPrefix ==
    ASSUME NEW x \in Objects, NEW o \in NamePath, IsPrefix(o, x)
    PROVE  o \in Objects
  BY ObjectIs, PathPrefixIs, LenProperties DEF NamePath

\* The parent of an object is one.
LEMMA ObjectFront ==
    ASSUME NEW x \in Objects, x # <<>>
    PROVE  Front(x) \in Objects
  BY ObjectIs, ObjectPrefix, PathFront

\* Nodes are told apart by their kind.
LEMMA NodeIs ==
    ASSUME NEW n \in Node
    PROVE  /\ n.kind = "dir" <=> n = Dir
           /\ n.kind = "none" <=> n = None
           /\ n.kind = "file" => n.data \in Seq(Nat) /\ n = File(n.data)
           /\ n.kind \in {"none", "dir", "file"}
  BY DEF Node, None, Dir, File

\* A file is a node with its text.
LEMMA FileIs ==
    ASSUME NEW d \in Seq(Nat)
    PROVE  File(d) \in Node /\ File(d).kind = "file" /\ File(d) # None /\ File(d) # Dir /\ File(d).data = d
  BY DEF Node, None, Dir, File

\* A directory is not nothing.
LEMMA DirIs == /\ Dir \in Node /\ None \in Node /\ Dir # None
               /\ Dir.kind = "dir" /\ None.kind = "none" /\ None.data = <<>>
  BY DEF Node, None, Dir

\* What is found on a volume is a node.
LEMMA NodeAt ==
    ASSUME NEW t \in Disks, NEW v \in Volumes, NEW o \in Objects
    PROVE  t[v][o] \in Node
  BY DEF Disks

\* The tree below an object.
LEMMA TreeIs ==
    ASSUME NEW t \in Disks, NEW v \in Volumes, NEW o \in NamePath
    PROVE  /\ Tree(t, v, o) \in TreeNodes
           /\ DOMAIN Tree(t, v, o) = {r \in NamePath : o \o r \in Objects /\ Exists(t, v, o \o r)}
           /\ \A r \in DOMAIN Tree(t, v, o) : Tree(t, v, o)[r] = t[v][o \o r]
<1> DEFINE found == {x \in Below(o) : Exists(t, v, x)}
           D == {Rest(o, x) : x \in found}
           n == [r \in D |-> t[v][o \o r]]
<1>1. Tree(t, v, o) = n
  BY DEF Tree
<1>2. D = {r \in NamePath : o \o r \in Objects /\ Exists(t, v, o \o r)}
  <2>1. ASSUME NEW r \in D
        PROVE  r \in NamePath /\ o \o r \in Objects /\ Exists(t, v, o \o r)
    <3>1. PICK x \in found : r = Rest(o, x)
      OBVIOUS
    <3>2. x \in Objects /\ IsPrefix(o, x) /\ Exists(t, v, x)
      BY DEF Below
    <3>3. r \in NamePath /\ x = o \o r
      BY <3>1, <3>2, PathBelow, ObjectIs
    <3> QED BY <3>2, <3>3
  <2>2. ASSUME NEW r \in NamePath, o \o r \in Objects, Exists(t, v, o \o r)
        PROVE  r \in D
    <3>1. IsPrefix(o, o \o r) /\ Rest(o, o \o r) = r
      BY PathBelow
    <3>2. o \o r \in found
      BY <2>2, <3>1 DEF Below
    <3> QED BY <3>1, <3>2
  <2> HIDE DEF D
  <2> QED BY <2>1, <2>2
<1> HIDE DEF D
<1>3. DOMAIN n = D /\ \A r \in D : n[r] = t[v][o \o r]
  OBVIOUS
<1>4. n \in TreeNodes
  <2>1. D \in SUBSET NamePath
    BY <1>2
  <2>2. ASSUME NEW r \in D
        PROVE  t[v][o \o r] \in Node \ {None}
    BY <1>2, NodeAt DEF Exists
  <2>3. n \in [D -> Node \ {None}]
    BY <2>2
  <2> QED BY <2>1, <2>3 DEF TreeNodes
<1> QED BY <1>1, <1>2, <1>3, <1>4

\* The nodes of a tree, one by one.
LEMMA TreeNodeIs ==
    ASSUME NEW n \in TreeNodes, NEW r \in DOMAIN n
    PROVE  r \in NamePath /\ n[r] \in Node /\ n[r] # None
<1>1. PICK D \in SUBSET NamePath : n \in [D -> Node \ {None}]
  BY DEF TreeNodes
<1> QED BY <1>1

\* What exists lies below directories.
LEMMA LiesInDirs ==
    ASSUME NEW t \in Disks, NEW v \in Volumes, Rooted(t, v),
           NEW x \in Objects, Exists(t, v, x), NEW o \in NamePath, IsPrefix(o, x), o # x
    PROVE  o \in Objects /\ t[v][o] = Dir
<1> DEFINE B(y) == y # o /\ IsPrefix(o, y) /\ Exists(t, v, y)
           S == {n \in Nat : \E y \in Objects : Len(y) = n /\ B(y)}
<1>1. o \in Objects
  BY ObjectPrefix
<1>2. x \in NamePath /\ Len(x) \in Nat
  BY ObjectIs, LenProperties DEF NamePath
<1>3. Len(x) \in S
  BY <1>2
<1>4. PICK n \in S : \A m \in S : n <= m
  <2>1. S \in SUBSET Nat /\ S # {}
    BY <1>3
  <2> HIDE DEF S
  <2> QED BY <2>1, FirstExists
<1>5. PICK y \in Objects : Len(y) = n /\ B(y)
  OBVIOUS
<1>6. y \in NamePath /\ y # <<>> /\ IsPrefix(o, Front(y))
  BY <1>5, PathFrontBelow, ObjectIs
<1>7. /\ Front(y) \in Objects /\ Front(y) \in NamePath
      /\ Len(Front(y)) = Len(y) - 1 /\ Len(y) \in Nat \ {0}
  BY <1>6, ObjectFront, PathFront
<1>8. IsDir(t, v, Front(y))
  BY <1>5, <1>6 DEF Rooted
<1>9. t[v][Front(y)] = Dir
  BY <1>7, <1>8, NodeAt, NodeIs DEF IsDir
<1>10. Front(y) = o
  <2>1. SUFFICES ASSUME Front(y) # o
                 PROVE  FALSE
    OBVIOUS
  <2>2. Exists(t, v, Front(y))
    BY <1>9, DirIs DEF Exists
  <2>3. Len(Front(y)) \in Nat /\ Len(Front(y)) < n
    BY <1>5, <1>7
  <2>4. B(Front(y))
    BY <1>6, <2>1, <2>2
  <2>5. Len(Front(y)) \in S
    BY <1>7, <2>3, <2>4
  <2>6. n <= Len(Front(y)) /\ n \in Nat
    BY <1>4, <2>5
  <2> QED BY <2>3, <2>6
<1> QED BY <1>1, <1>9, <1>10

\* Nothing lies below what does not exist, or below a file.
LEMMA NothingBelow ==
    ASSUME NEW t \in Disks, NEW v \in Volumes, Rooted(t, v),
           NEW x \in Objects, NEW o \in NamePath, IsPrefix(o, x), o # x, ~ IsDir(t, v, o)
    PROVE  t[v][x] = None
<1>1. SUFFICES ASSUME Exists(t, v, x)
               PROVE  FALSE
  BY DEF Exists
<1>2. t[v][o] = Dir
  BY <1>1, LiesInDirs
<1> QED BY <1>2, DirIs DEF IsDir

\* The parent of what exists is a directory.
LEMMA ParentIsDir ==
    ASSUME NEW t \in Disks, NEW v \in Volumes, Rooted(t, v),
           NEW x \in Objects, x # <<>>, Exists(t, v, x)
    PROVE  Front(x) \in Objects /\ t[v][Front(x)] = Dir
  BY ObjectFront, NodeAt, NodeIs DEF Rooted, IsDir

\* The tree below an object has no gaps.
LEMMA TreeRooted ==
    ASSUME NEW t \in Disks, NEW v \in Volumes, Rooted(t, v), NEW o \in NamePath
    PROVE  /\ IsTree(Tree(t, v, o))
           /\ \A r \in DOMAIN Tree(t, v, o) \ {<<>>} : Front(r) \in DOMAIN Tree(t, v, o)
<1> DEFINE n == Tree(t, v, o)
<1>1. /\ n \in TreeNodes
      /\ DOMAIN n = {r \in NamePath : o \o r \in Objects /\ Exists(t, v, o \o r)}
      /\ \A r \in DOMAIN n : n[r] = t[v][o \o r]
  BY TreeIs
<1> HIDE DEF n
<1>2. ASSUME NEW r \in DOMAIN n \ {<<>>}
      PROVE  Front(r) \in DOMAIN n /\ n[Front(r)] = Dir
  <2>1. r \in NamePath /\ o \o r \in Objects /\ Exists(t, v, o \o r) /\ r # <<>>
    BY <1>1
  <2>2. o \o r # <<>> /\ Front(o \o r) = o \o Front(r) /\ Front(r) \in NamePath
    BY <2>1, PathJoinFront, PathFront
  <2>3. o \o Front(r) \in Objects /\ t[v][o \o Front(r)] = Dir
    BY <2>1, <2>2, ParentIsDir
  <2>4. Exists(t, v, o \o Front(r))
    BY <2>3, DirIs DEF Exists
  <2> QED BY <1>1, <2>2, <2>3, <2>4
<1>3. IsTree(n)
  BY <1>1, <1>2 DEF IsTree
<1> QED BY <1>2, <1>3 DEF n

----------------------------------------------------------------------------
(* Changes of a volume.                                                    *)

Elsewhere(t, u, v) == \A w \in Volumes \ {v} : u[w] = t[w]

\* What With writes, and what it leaves.
LEMMA WithIs ==
    ASSUME NEW t \in Disks, NEW v \in Volumes, NEW nodes,
           \A o \in Objects : o \in DOMAIN nodes => nodes[o] \in Node
    PROVE  /\ With(t, v, nodes) \in Disks
           /\ Elsewhere(t, With(t, v, nodes), v)
           /\ \A o \in Objects : With(t, v, nodes)[v][o] = IF o \in DOMAIN nodes THEN nodes[o] ELSE t[v][o]
<1> DEFINE f == [o \in Objects |-> IF o \in DOMAIN nodes THEN nodes[o] ELSE t[v][o]]
           u == [t EXCEPT ![v] = f]
<1>1. With(t, v, nodes) = u
  BY DEF With
<1>2. f \in [Objects -> Node]
  BY NodeAt
<1>3. \A o \in Objects : f[o] = IF o \in DOMAIN nodes THEN nodes[o] ELSE t[v][o]
  OBVIOUS
<1> HIDE DEF f
<1>4. u \in Disks /\ u[v] = f /\ Elsewhere(t, u, v)
  BY <1>2 DEF Disks, Elsewhere
<1> HIDE DEF u
<1> QED BY <1>1, <1>3, <1>4

\* One node is put, or taken away.
LEMMA PutIs ==
    ASSUME NEW t \in Disks, NEW v \in Volumes, NEW o, NEW n \in Node
    PROVE  /\ With(t, v, Leaf(o, n)) \in Disks
           /\ Elsewhere(t, With(t, v, Leaf(o, n)), v)
           /\ \A x \in Objects : With(t, v, Leaf(o, n))[v][x] = IF x = o THEN n ELSE t[v][x]
<1>1. DOMAIN Leaf(o, n) = {o} /\ Leaf(o, n)[o] = n
  BY DEF Leaf
<1>2. \A x \in Objects : x \in DOMAIN Leaf(o, n) => Leaf(o, n)[x] \in Node
  BY <1>1
<1> DEFINE m == Leaf(o, n)
<1> HIDE DEF m
<1>3. /\ With(t, v, m) \in Disks
      /\ Elsewhere(t, With(t, v, m), v)
      /\ \A x \in Objects : With(t, v, m)[v][x] = IF x \in DOMAIN m THEN m[x] ELSE t[v][x]
  BY <1>2, WithIs DEF m
<1> QED BY <1>1, <1>3 DEF m

\* What Without takes away, and what it leaves.
LEMMA WithoutIs ==
    ASSUME NEW t \in Disks, NEW v \in Volumes, NEW gone
    PROVE  /\ Without(t, v, gone) \in Disks
           /\ Elsewhere(t, Without(t, v, gone), v)
           /\ \A x \in Objects : Without(t, v, gone)[v][x] = IF x \in gone THEN None ELSE t[v][x]
<1> DEFINE m == [o \in gone |-> None]
<1>1. DOMAIN m = gone /\ \A x \in gone : m[x] = None
  OBVIOUS
<1>2. Without(t, v, gone) = With(t, v, m)
  BY DEF Without
<1> HIDE DEF m
<1>3. \A o \in Objects : o \in DOMAIN m => m[o] \in Node
  BY <1>1, DirIs
<1>4. /\ With(t, v, m) \in Disks
      /\ Elsewhere(t, With(t, v, m), v)
      /\ \A x \in Objects : With(t, v, m)[v][x] = IF x \in DOMAIN m THEN m[x] ELSE t[v][x]
  BY <1>3, WithIs
<1> QED BY <1>1, <1>2, <1>4

\* Only one volume changed: if that one is a tree, all are.
LEMMA RootedRest ==
    ASSUME NEW t \in Disks, AllRooted(t), NEW v \in Volumes, NEW u \in Disks,
           Elsewhere(t, u, v), Rooted(u, v)
    PROVE  AllRooted(u)
  BY DEF AllRooted, Rooted, Elsewhere, Exists, IsDir

----------------------------------------------------------------------------
(* The locked calls, one by one: what their outcomes are.                  *)

Outs == [t : Disks, ok : BOOLEAN, lost : BOOLEAN]
Sound(u) == u \in Outs /\ AllRooted(u.t)
\* Nothing changed on the volume but below o.
Outside(t, u, v, o) == \A x \in Objects : ~ IsPrefix(o, x) => u[v][x] = t[v][x]

\* The parts of an outcome.
LEMMA OutIs ==
    ASSUME NEW t, NEW ok
    PROVE  Out(t, ok).t = t /\ Out(t, ok).ok = ok /\ Out(t, ok).lost = FALSE
  BY DEF Out

\* An outcome on volumes that are trees.
LEMMA OutSound ==
    ASSUME NEW t \in Disks, AllRooted(t), NEW ok \in BOOLEAN
    PROVE  Sound(Out(t, ok))
  BY DEF Sound, Out, Outs

\* A call that fails leaves the volumes as they were when it failed.
LEMMA FailsIs ==
    ASSUME NEW t \in Disks, AllRooted(t), NEW u \in Fails(t)
    PROVE  Sound(u) /\ u.t = t /\ u.ok = FALSE /\ u.lost = FALSE
<1>1. u = Out(t, FALSE) /\ FALSE \in BOOLEAN
  BY DEF Fails
<1>2. Out(t, FALSE).t = t /\ Out(t, FALSE).ok = FALSE /\ Out(t, FALSE).lost = FALSE
  BY OutIs
<1>3. Sound(Out(t, FALSE))
  BY <1>1, OutSound
<1> QED BY <1>1, <1>2, <1>3

\* Nothing changed is nothing changed elsewhere.
LEMMA SameElsewhere ==
    ASSUME NEW t, NEW v, NEW o
    PROVE  Elsewhere(t, t, v) /\ Outside(t, t, v, o)
  BY DEF Elsewhere, Outside

\* A file is put where no directory is.
LEMMA FileAt ==
    ASSUME NEW t \in Disks, AllRooted(t), NEW v \in Volumes, NEW o,
           Room(t, v, o), ~ IsDir(t, v, o), NEW d \in Seq(Nat)
    PROVE  LET u == With(t, v, Leaf(o, File(d)))
           IN  /\ u \in Disks /\ AllRooted(u) /\ Elsewhere(t, u, v)
               /\ u[v][o] = File(d)
               /\ \A x \in Objects : x # o => u[v][x] = t[v][x]
<1> DEFINE u == With(t, v, Leaf(o, File(d)))
<1>1. /\ u \in Disks /\ Elsewhere(t, u, v)
      /\ \A x \in Objects : u[v][x] = IF x = o THEN File(d) ELSE t[v][x]
  BY FileIs, PutIs
<1> HIDE DEF u
<1>2. Rooted(t, v) /\ o \in Objects /\ o # <<>> /\ IsDir(t, v, Front(o))
  BY DEF AllRooted, Room
<1>3. u[v][<<>>] = Dir
  BY <1>1, <1>2, ObjectIs DEF Rooted
<1>4. ASSUME NEW x \in Objects \ {<<>>}, Exists(u, v, x)
      PROVE  IsDir(u, v, Front(x))
  <2>1. Front(x) \in Objects /\ Front(x) # x
    BY ObjectFront, PathFront, ObjectIs
  <2>2. CASE x = o
    BY <1>1, <1>2, <2>1, <2>2 DEF IsDir
  <2>3. CASE x # o
    <3>1. Exists(t, v, x)
      BY <1>1, <1>4, <2>3 DEF Exists
    <3>2. IsDir(t, v, Front(x))
      BY <1>2, <3>1 DEF Rooted
    <3>3. Front(x) # o
      BY <3>2
    <3> QED BY <1>1, <2>1, <3>2, <3>3 DEF IsDir
  <2> QED BY <2>2, <2>3
<1>5. Rooted(u, v)
  BY <1>3, <1>4 DEF Rooted
<1>6. AllRooted(u)
  BY <1>1, <1>5, RootedRest
<1> QED BY <1>1, <1>2, <1>6 DEF u

\* A written file: whole when the call succeeds, unless the flush was not checked.
Wrote(t, u, v, o, data) ==
    /\ Sound(u) /\ Elsewhere(t, u.t, v)
    /\ \A x \in Objects : x # o => u.t[v][x] = t[v][x]
    /\ u.ok /\ ~ u.lost => o \in Objects /\ u.t[v][o] = File(data)
    /\ u.ok \/ u.t # t => Room(t, v, o) /\ ~ IsDir(t, v, o)

\* A file is written block by block: Wrote holds of every outcome of WriteFile,
\* and a call that checks its f_close has no unflushed success.
LEMMA WriteFileIs ==
    ASSUME NEW t \in Disks, AllRooted(t), NEW v \in Volumes, NEW o, NEW old \in Seq(Nat), NEW data \in Seq(Nat),
           NEW checked \in BOOLEAN, NEW u \in WriteFile(t, v, o, old, data, checked)
    PROVE  Wrote(t, u, v, o, old \o data) /\ (checked => ~ u.lost)
<1> SUFFICES /\ Sound(u) /\ Elsewhere(t, u.t, v)
             /\ \A x \in Objects : x # o => u.t[v][x] = t[v][x]
             /\ u.ok /\ ~ u.lost => o \in Objects /\ u.t[v][o] = File(old \o data)
             /\ checked => ~ u.lost
             /\ u.ok \/ u.t # t => Room(t, v, o) /\ ~ IsDir(t, v, o)
  BY Zenon DEF Wrote
<1> DEFINE put(n) == With(t, v, Leaf(o, File(old \o SubSeq(data, 1, n))))
<1>1. Len(data) \in Nat /\ SubSeq(data, 1, Len(data)) = data
  BY LenProperties, SubSeqFull
<1>2. \A n \in 0 .. Len(data) : old \o SubSeq(data, 1, n) \in Seq(Nat)
  <2>1. ASSUME NEW n \in 0 .. Len(data)
        PROVE  SubSeq(data, 1, n) \in Seq(Nat)
    <3>1. n \in Int /\ 1 \in Int /\ \A i \in 1 .. n : data[i] \in Nat
      BY <1>1, ElementOfSeq
    <3> QED BY <3>1, SubSeqProperties
  <2> QED BY <2>1, ConcatProperties
<1>3. CASE ~ Room(t, v, o) \/ IsDir(t, v, o)
  <2>1. u \in Fails(t)
    BY <1>3 DEF WriteFile
  <2> QED BY <2>1, FailsIs DEF Elsewhere
<1>4. CASE Room(t, v, o) /\ ~ IsDir(t, v, o)
  <2>1. \A n \in 0 .. Len(data) :
            /\ put(n) \in Disks /\ AllRooted(put(n)) /\ Elsewhere(t, put(n), v)
            /\ put(n)[v][o] = File(old \o SubSeq(data, 1, n))
            /\ \A x \in Objects : x # o => put(n)[v][x] = t[v][x]
    <3> SUFFICES ASSUME NEW n \in 0 .. Len(data)
                 PROVE  /\ put(n) \in Disks /\ AllRooted(put(n)) /\ Elsewhere(t, put(n), v)
                        /\ put(n)[v][o] = File(old \o SubSeq(data, 1, n))
                        /\ \A x \in Objects : x # o => put(n)[v][x] = t[v][x]
      OBVIOUS
    <3> DEFINE d == old \o SubSeq(data, 1, n)
    <3>1. d \in Seq(Nat)
      BY <1>2
    <3>2. put(n) = With(t, v, Leaf(o, File(d)))
      OBVIOUS
    <3> HIDE DEF d, put
    <3>3. LET x == With(t, v, Leaf(o, File(d)))
          IN  /\ x \in Disks /\ AllRooted(x) /\ Elsewhere(t, x, v)
              /\ x[v][o] = File(d)
              /\ \A y \in Objects : y # o => x[v][y] = t[v][y]
      BY <1>4, <3>1, FileAt
    <3> QED BY <3>2, <3>3 DEF d
  <2>2. \/ u \in Fails(t)
        \/ \E n \in 0 .. Len(data) : u \in Fails(put(n))
        \/ u = Out(put(Len(data)), TRUE)
        \/ ~ checked /\ \E n \in 0 .. Len(data) - 1 : u = [Out(put(n), TRUE) EXCEPT !.lost = TRUE]
    <3> DEFINE A == UNION {Fails(put(n)) : n \in 0 .. Len(data)}
               B == IF checked THEN {}
                    ELSE {[Out(put(n), TRUE) EXCEPT !.lost = TRUE] : n \in 0 .. Len(data) - 1}
    <3>1. u \in Fails(t) \cup A \cup {Out(put(Len(data)), TRUE)} \cup B
      BY <1>4 DEF WriteFile
    <3> HIDE DEF put
    <3>2. CASE u \in UNION {Fails(put(n)) : n \in 0 .. Len(data)}
      BY <3>2
    <3>3. CASE u \in (IF checked THEN {}
                       ELSE {[Out(put(n), TRUE) EXCEPT !.lost = TRUE] : n \in 0 .. Len(data) - 1})
      <4>1. ~ checked /\ u \in {[Out(put(n), TRUE) EXCEPT !.lost = TRUE] : n \in 0 .. Len(data) - 1}
        BY <3>3
      <4> DEFINE R(n) == [Out(put(n), TRUE) EXCEPT !.lost = TRUE]
      <4>2. u \in {R(n) : n \in 0 .. Len(data) - 1}
        BY <4>1
      <4> HIDE DEF R
      <4>3. \E n \in 0 .. Len(data) - 1 : u = R(n)
        BY <4>2
      <4> QED BY <4>1, <4>3 DEF R
    <3> HIDE DEF A, B
    <3>5. u \in Fails(t) \/ u \in A \/ u = Out(put(Len(data)), TRUE) \/ u \in B
      BY <3>1, Zenon
    <3> QED BY <3>2, <3>3, <3>5 DEF A, B
  <2> HIDE DEF put
  <2>3. CASE u \in Fails(t)
    BY <1>4, <2>3, FailsIs DEF Elsewhere
  <2>4. CASE \E n \in 0 .. Len(data) : u \in Fails(put(n))
    <3>1. PICK n \in 0 .. Len(data) : u \in Fails(put(n))
      BY <2>4
    <3>2. Sound(u) /\ u.t = put(n) /\ u.ok = FALSE /\ u.lost = FALSE
      BY <2>1, <3>1, FailsIs
    <3> QED BY <1>4, <2>1, <3>2
  <2>5. CASE u = Out(put(Len(data)), TRUE)
    <3>1. Len(data) \in 0 .. Len(data)
      BY <1>1
    <3>2. Sound(u) /\ u.t = put(Len(data)) /\ u.ok = TRUE /\ u.lost = FALSE
      BY <2>1, <2>5, <3>1, OutIs, OutSound
    <3>3. u.t[v][o] = File(old \o data)
      BY <1>1, <2>1, <3>1, <3>2
    <3> QED BY <1>4, <2>1, <3>1, <3>2, <3>3 DEF Room
  <2>6. CASE ~ checked /\ \E n \in 0 .. Len(data) - 1 : u = [Out(put(n), TRUE) EXCEPT !.lost = TRUE]
    <3>1. PICK n \in 0 .. Len(data) - 1 : u = [Out(put(n), TRUE) EXCEPT !.lost = TRUE]
      BY <2>6
    <3>2. n \in 0 .. Len(data)
      BY <1>1
    <3>3. u \in Outs /\ u.t = put(n) /\ u.ok = TRUE /\ u.lost = TRUE
      BY <2>1, <3>1, <3>2 DEF Out, Outs
    <3> QED BY <1>4, <2>1, <2>6, <3>2, <3>3 DEF Sound
  <2> QED BY <2>2, <2>3, <2>4, <2>5, <2>6
<1> QED BY <1>3, <1>4

\* The entries of a copied tree that are done.
LEMMA EntriesIs ==
    ASSUME NEW t \in Disks, AllRooted(t), NEW w \in Volumes, NEW to, Room(t, w, to),
           NEW nodes, IsTree(nodes), NEW S, S \subseteq DOMAIN nodes, Grown(nodes, S),
           \A r \in S : ~ Clash(t, w, to, nodes, r)
    PROVE  LET e == Entries(t, w, to, nodes, S)
           IN  /\ e \in Disks /\ AllRooted(e) /\ Elsewhere(t, e, w)
               /\ \A r \in S : to \o r \in Objects /\ e[w][to \o r] = nodes[r]
               /\ \A x \in Objects : (\A r \in S : x # to \o r) => e[w][x] = t[w][x]
<1> DEFINE D == {to \o r : r \in S}
           m == [x \in D |-> nodes[Rest(to, x)]]
           e == With(t, w, m)
<1>1. Entries(t, w, to, nodes, S) = e
  BY DEF Entries
<1>2. Rooted(t, w) /\ to \in Objects /\ to \in NamePath /\ to # <<>> /\ IsDir(t, w, Front(to))
  BY ObjectIs DEF AllRooted, Room
<1>3. \A r \in S : r \in NamePath /\ nodes[r] \in Node /\ nodes[r] # None /\ to \o r \in Objects
  BY TreeNodeIs DEF IsTree, Clash
<1>4. \A r \in S : Rest(to, to \o r) = r
  BY <1>2, <1>3, PathBelow
<1>5. DOMAIN m = D /\ \A r \in S : m[to \o r] = nodes[r]
  BY <1>4
<1>6. \A x \in Objects : x \in DOMAIN m => m[x] \in Node
  BY <1>3, <1>5
<1>7. \A x \in Objects : x \in D <=> \E r \in S : x = to \o r
  OBVIOUS
<1> HIDE DEF D, m
<1>8. /\ e \in Disks /\ Elsewhere(t, e, w)
      /\ \A x \in Objects : e[w][x] = IF x \in DOMAIN m THEN m[x] ELSE t[w][x]
  BY <1>6, WithIs
<1> HIDE DEF e
<1>9. \A r \in S : e[w][to \o r] = nodes[r]
  BY <1>3, <1>5, <1>7, <1>8
<1>10. \A x \in Objects : (\A r \in S : x # to \o r) => e[w][x] = t[w][x]
  BY <1>5, <1>7, <1>8
\* The directory that receives the tree stays as it is.
<1>11. ASSUME NEW x \in Objects, ~ IsPrefix(to, x)
       PROVE  e[w][x] = t[w][x]
  <2>1. \A r \in S : x # to \o r
    BY <1>2, <1>3, <1>11, PathBelow
  <2> QED BY <1>10, <2>1
<1>12. Front(to) \in Objects /\ ~ IsPrefix(to, Front(to)) /\ ~ IsPrefix(to, <<>>)
  <2>1. Front(to) \in Objects /\ Front(to) \in NamePath /\ IsPrefix(Front(to), to) /\ Front(to) # to
    BY <1>2, ObjectFront, PathFront
  <2>2. IsPrefix(<<>>, to) /\ <<>> \in NamePath
    BY <1>2, PathOrder, PathEmpty
  <2> QED BY <1>2, <2>1, <2>2, PathOrder
<1>13. e[w][<<>>] = Dir
  BY <1>2, <1>11, <1>12, ObjectIs DEF Rooted
<1>14. ASSUME NEW x \in Objects \ {<<>>}, Exists(e, w, x)
       PROVE  IsDir(e, w, Front(x))
  <2>1. Front(x) \in Objects
    BY ObjectFront
  <2>2. CASE \E r \in S : x = to \o r
    <3>1. PICK r \in S : x = to \o r
      BY <2>2
    <3>2. CASE r = <<>>
      <4>1. x = to
        BY <1>2, <3>1, <3>2, PathJoin, PathEmpty
      <4> QED BY <1>2, <1>11, <1>12, <4>1 DEF IsDir
    <3>3. CASE r # <<>>
      <4>1. Front(r) \in S /\ nodes[Front(r)] = Dir
        BY <3>3 DEF Grown, IsTree
      <4>2. Front(x) = to \o Front(r)
        BY <1>2, <1>3, <3>1, <3>3, PathJoinFront
      <4> QED BY <1>9, <4>1, <4>2, DirIs DEF IsDir
    <3> QED BY <3>2, <3>3
  <2>3. CASE \A r \in S : x # to \o r
    <3>1. Exists(t, w, x)
      BY <1>10, <1>14, <2>3 DEF Exists
    <3>2. t[w][Front(x)] = Dir
      BY <1>2, <3>1, ParentIsDir
    <3>3. CASE \E r \in S : Front(x) = to \o r
      <4>1. PICK r \in S : Front(x) = to \o r
        BY <3>3
      <4>2. nodes[r].kind = "dir"
        BY <3>2, <4>1, DirIs DEF Clash, Exists
      <4> QED BY <1>9, <4>1, <4>2 DEF IsDir
    <3>4. CASE \A r \in S : Front(x) # to \o r
      BY <1>10, <2>1, <3>2, <3>4, DirIs DEF IsDir
    <3> QED BY <3>3, <3>4
  <2> QED BY <2>2, <2>3
<1>15. AllRooted(e)
  BY <1>8, <1>13, <1>14, RootedRest DEF Rooted
<1> QED BY <1>1, <1>3, <1>8, <1>9, <1>10, <1>15

\* A copied tree: every entry is there when the call succeeds.
LEMMA CopyTreeIs ==
    ASSUME NEW t \in Disks, AllRooted(t), NEW w \in Volumes, NEW to, NEW nodes, IsTree(nodes),
           NEW u \in CopyTree(t, w, to, nodes)
    PROVE  /\ Sound(u) /\ Elsewhere(t, u.t, w) /\ ~ u.lost
           /\ Outside(t, u.t, w, to)
           /\ u.ok => \A r \in DOMAIN nodes : to \o r \in Objects /\ u.t[w][to \o r] = nodes[r]
           /\ u.ok \/ u.t # t => Room(t, w, to)
<1> DEFINE sane == {r \in DOMAIN nodes : ~ Clash(t, w, to, nodes, r)}
           some == {S \in SUBSET sane : Grown(nodes, S)}
           E(S) == Entries(t, w, to, nodes, S)
           one(S, r, n) == With(E(S), w, Leaf(to \o r, File(SubSeq(nodes[r].data, 1, n))))
           next(S) == {q \in sane \ S : nodes[q].kind = "file" /\ Grown(nodes, S \cup {q})}
<1>1. CASE ~ Room(t, w, to)
  <2>1. u \in Fails(t)
    BY <1>1 DEF CopyTree
  <2> QED BY <2>1, FailsIs, SameElsewhere
<1>2. CASE Room(t, w, to)
  <2>1. \/ \E S \in some : u \in Fails(E(S))
        \/ \E S \in some : \E r \in next(S) : \E n \in 0 .. Len(nodes[r].data) : u \in Fails(one(S, r, n))
        \/ \E S \in some \cap {DOMAIN nodes} : u = Out(E(S), TRUE)
    <3> DEFINE cut(S) == UNION {{one(S, r, n) : n \in 0 .. Len(nodes[r].data)} : r \in next(S)}
    <3> DEFINE A == UNION {Fails(E(S)) : S \in some}
               B == UNION {Fails(x) : x \in UNION {cut(S) : S \in some}}
               C == {Out(E(S), TRUE) : S \in some \cap {DOMAIN nodes}}
    <3>1. u \in A \cup B \cup C
      BY <1>2, Zenon DEF CopyTree
    <3> HIDE DEF E, some, one, next
    <3>2. CASE u \in UNION {Fails(E(S)) : S \in some}
      BY <3>2
    <3>3. CASE u \in UNION {Fails(x) : x \in UNION {cut(S) : S \in some}}
      <4>1. PICK x \in UNION {cut(S) : S \in some} : u \in Fails(x)
        BY <3>3
      <4>2. PICK S \in some : x \in cut(S)
        BY <4>1
      <4>3. PICK r \in next(S) : x \in {one(S, r, n) : n \in 0 .. Len(nodes[r].data)}
        BY <4>2
      <4>4. PICK n \in 0 .. Len(nodes[r].data) : x = one(S, r, n)
        BY <4>3
      <4> QED BY <4>1, <4>4
    <3>4. CASE u \in {Out(E(S), TRUE) : S \in some \cap {DOMAIN nodes}}
      BY <3>4
    <3> HIDE DEF A, B, C
    <3>6. u \in A \/ u \in B \/ u \in C
      BY <3>1, Zenon
    <3> QED BY <3>2, <3>3, <3>4, <3>6 DEF A, B, C
  <2>2. to \in NamePath
    BY <1>2, ObjectIs DEF Room
  <2>3. ASSUME NEW S \in some
        PROVE  /\ E(S) \in Disks /\ AllRooted(E(S)) /\ Elsewhere(t, E(S), w)
               /\ \A r \in S : to \o r \in Objects /\ E(S)[w][to \o r] = nodes[r]
               /\ \A x \in Objects : (\A r \in S : x # to \o r) => E(S)[w][x] = t[w][x]
               /\ Outside(t, E(S), w, to)
    <3>1. S \subseteq DOMAIN nodes /\ Grown(nodes, S) /\ \A r \in S : ~ Clash(t, w, to, nodes, r)
      OBVIOUS
    <3> HIDE DEF E, some
    <3>2. /\ E(S) \in Disks /\ AllRooted(E(S)) /\ Elsewhere(t, E(S), w)
          /\ \A r \in S : to \o r \in Objects /\ E(S)[w][to \o r] = nodes[r]
          /\ \A x \in Objects : (\A r \in S : x # to \o r) => E(S)[w][x] = t[w][x]
      BY <1>2, <3>1, EntriesIs DEF E
    <3>3. \A r \in S : r \in NamePath
      BY <3>1, TreeNodeIs DEF IsTree
    <3>4. Outside(t, E(S), w, to)
      <4>1. ASSUME NEW x \in Objects, ~ IsPrefix(to, x)
            PROVE  \A r \in S : x # to \o r
        BY <2>2, <3>3, <4>1, PathBelow
      <4> QED BY <3>2, <4>1 DEF Outside
    <3> QED BY <3>2, <3>4
  <2>4. CASE \E S \in some : u \in Fails(E(S))
    <3>1. PICK S \in some : u \in Fails(E(S))
      BY <2>4
    <3> HIDE DEF E, some
    <3>2. Sound(u) /\ u.t = E(S) /\ u.ok = FALSE /\ u.lost = FALSE
      BY <2>3, <3>1, FailsIs
    <3> QED BY <1>2, <2>3, <3>2
  <2>5. CASE \E S \in some : \E r \in next(S) : \E n \in 0 .. Len(nodes[r].data) : u \in Fails(one(S, r, n))
    <3>1. PICK S \in some : \E r \in next(S) : \E n \in 0 .. Len(nodes[r].data) : u \in Fails(one(S, r, n))
      BY <2>5
    <3>2. PICK r \in next(S) : \E n \in 0 .. Len(nodes[r].data) : u \in Fails(one(S, r, n))
      BY <3>1
    <3>3. PICK n \in 0 .. Len(nodes[r].data) : u \in Fails(one(S, r, n))
      BY <3>2
    <3>4. /\ r \in DOMAIN nodes /\ r \notin S /\ nodes[r].kind = "file" /\ Grown(nodes, S \cup {r})
          /\ ~ Clash(t, w, to, nodes, r)
      OBVIOUS
    <3>5. S \subseteq DOMAIN nodes
      OBVIOUS
    <3> DEFINE d == SubSeq(nodes[r].data, 1, n)
    <3>6. r \in NamePath /\ to \o r \in Objects /\ d \in Seq(Nat)
      <4>1. r \in NamePath /\ nodes[r] \in Node
        BY <3>4, TreeNodeIs DEF IsTree
      <4>2. nodes[r].data \in Seq(Nat)
        BY <3>4, <4>1, NodeIs
      <4> DEFINE data == nodes[r].data
      <4>3. Len(data) \in Nat
        BY <4>2, LenProperties
      <4>4. n \in Int /\ 1 \in Int /\ \A i \in 1 .. n : data[i] \in Nat
        BY <4>2, <4>3, ElementOfSeq
      <4>5. d \in Seq(Nat)
        <5> HIDE DEF data
        <5>1. SubSeq(data, 1, n) \in Seq(Nat)
          BY <4>4, SubSeqProperties
        <5> QED BY <5>1 DEF data
      <4>6. to \o r \in Objects
        BY <3>4 DEF Clash
      <4> QED BY <4>1, <4>5, <4>6
    <3> HIDE DEF d
    <3>7. u \in Fails(With(E(S), w, Leaf(to \o r, File(d))))
      BY <3>3 DEF d
    <3> HIDE DEF E, some, next, one
    <3>8. \A q \in S : q \in NamePath /\ to \o q # to \o r
      <4>1. \A q \in S : q \in NamePath
        BY <3>5, TreeNodeIs DEF IsTree
      <4> QED BY <2>2, <3>4, <3>6, <4>1, PathCancel
    <3>9. E(S)[w][to \o r] = t[w][to \o r]
      BY <2>3, <3>6, <3>8
    <3>10. ~ IsDir(E(S), w, to \o r)
      <4>1. CASE Exists(t, w, to \o r)
        BY <3>4, <3>9, <4>1 DEF Clash, IsDir
      <4>2. CASE ~ Exists(t, w, to \o r)
        BY <3>9, <4>2, DirIs DEF Exists, IsDir
      <4> QED BY <4>1, <4>2
    <3>11. Room(E(S), w, to \o r)
      <4>1. CASE r = <<>>
        <5>1. to \o r = to
          BY <2>2, <4>1, PathJoin, PathEmpty
        <5>2. Front(to) \in Objects /\ ~ IsPrefix(to, Front(to))
          <6>1. to \in Objects /\ to # <<>>
            BY <1>2 DEF Room
          <6>2. Front(to) \in Objects /\ Front(to) \in NamePath /\ IsPrefix(Front(to), to) /\ Front(to) # to
            BY <2>2, <6>1, ObjectFront, PathFront
          <6> QED BY <2>2, <6>2, PathOrder
        <5> QED BY <1>2, <2>3, <5>1, <5>2 DEF Room, Outside, IsDir
      <4>2. CASE r # <<>>
        <5>1. Front(r) \in S
          <6>1. Front(r) # r
            BY <3>6, <4>2, PathFront
          <6> QED BY <3>4, <4>2, <6>1 DEF Grown
        <5>2. nodes[Front(r)] = Dir
          BY <3>4, <3>5, <4>2, <5>1 DEF IsTree
        <5>3. to \o r # <<>> /\ Front(to \o r) = to \o Front(r)
          BY <2>2, <3>6, <4>2, PathJoinFront
        <5>4. E(S)[w][Front(to \o r)] = Dir
          BY <2>3, <5>1, <5>2, <5>3
        <5> QED BY <3>6, <5>3, <5>4, DirIs DEF Room, IsDir
      <4> QED BY <4>1, <4>2
    <3> DEFINE a == With(E(S), w, Leaf(to \o r, File(d)))
    <3>12. /\ a \in Disks /\ AllRooted(a) /\ Elsewhere(E(S), a, w)
           /\ \A x \in Objects : x # to \o r => a[w][x] = E(S)[w][x]
      <4> DEFINE e == E(S)
                 p == to \o r
      <4>1. e \in Disks /\ AllRooted(e) /\ Room(e, w, p) /\ ~ IsDir(e, w, p)
        BY <2>3, <3>10, <3>11
      <4>2. a = With(e, w, Leaf(p, File(d)))
        OBVIOUS
      <4> HIDE DEF e, p, a
      <4>3. LET x == With(e, w, Leaf(p, File(d)))
            IN  /\ x \in Disks /\ AllRooted(x) /\ Elsewhere(e, x, w)
                /\ \A y \in Objects : y # p => x[w][y] = e[w][y]
        BY <3>6, <4>1, FileAt
      <4> QED BY <4>2, <4>3 DEF e, p
    <3>13. u \in Fails(a)
      BY <3>7
    <3> HIDE DEF a
    <3>14. Sound(u) /\ u.t = a /\ u.ok = FALSE /\ u.lost = FALSE
      BY <3>12, <3>13, FailsIs
    <3>15. Elsewhere(t, a, w)
      BY <2>3, <3>12 DEF Elsewhere
    <3>16. Outside(t, a, w, to)
      <4>1. IsPrefix(to, to \o r)
        BY <2>2, <3>6, PathBelow
      <4> QED BY <2>3, <3>12, <4>1 DEF Outside
    <3> QED BY <1>2, <3>14, <3>15, <3>16
  <2>6. CASE \E S \in some \cap {DOMAIN nodes} : u = Out(E(S), TRUE)
    <3>1. PICK S \in some : S = DOMAIN nodes /\ u = Out(E(S), TRUE)
      <4> HIDE DEF E, some
      <4> QED BY <2>6
    <3> HIDE DEF E, some
    <3>2. Sound(u) /\ u.t = E(S) /\ u.ok = TRUE /\ u.lost = FALSE
      <4> DEFINE e == E(S)
      <4>1. e \in Disks /\ AllRooted(e) /\ u = Out(e, TRUE)
        BY <2>3, <3>1
      <4> HIDE DEF e
      <4>2. Sound(u) /\ u.t = e /\ u.ok = TRUE /\ u.lost = FALSE
        BY <4>1, OutIs, OutSound
      <4> QED BY <4>2 DEF e
    <3> DEFINE e == E(S)
    <3>3. /\ Elsewhere(t, e, w) /\ Outside(t, e, w, to)
          /\ \A r \in DOMAIN nodes : to \o r \in Objects /\ e[w][to \o r] = nodes[r]
      BY <2>3, <3>1
    <3>4. u.t = e
      BY <3>2
    <3> HIDE DEF e
    <3> QED BY <1>2, <3>2, <3>3, <3>4
  <2> QED BY <2>1, <2>4, <2>5, <2>6
<1> QED BY <1>1, <1>2

\* A call that succeeds without a change.
LEMMA DoneIs ==
    ASSUME NEW t \in Disks, AllRooted(t), NEW u, u = Out(t, TRUE)
    PROVE  Sound(u) /\ u.t = t /\ u.ok = TRUE /\ u.lost = FALSE
<1>1. TRUE \in BOOLEAN
  OBVIOUS
<1>2. Out(t, TRUE).t = t /\ Out(t, TRUE).ok = TRUE /\ Out(t, TRUE).lost = FALSE
  BY OutIs
<1>3. Sound(Out(t, TRUE))
  BY <1>1, OutSound
<1> QED BY <1>2, <1>3

\* What is removed with all below it leaves trees.
LEMMA WithoutRooted ==
    ASSUME NEW t \in Disks, AllRooted(t), NEW v \in Volumes, NEW gone, <<>> \notin gone,
           \A x \in gone, y \in Objects : IsPrefix(x, y) /\ Exists(t, v, y) => y \in gone
    PROVE  AllRooted(Without(t, v, gone))
<1> DEFINE u == Without(t, v, gone)
<1>1. /\ u \in Disks /\ Elsewhere(t, u, v)
      /\ \A x \in Objects : u[v][x] = IF x \in gone THEN None ELSE t[v][x]
  BY WithoutIs
<1> HIDE DEF u
<1>2. Rooted(t, v)
  BY DEF AllRooted
<1>3. u[v][<<>>] = Dir
  BY <1>1, <1>2, ObjectIs DEF Rooted
<1>4. ASSUME NEW x \in Objects \ {<<>>}, Exists(u, v, x)
      PROVE  IsDir(u, v, Front(x))
  <2>1. x \notin gone /\ Exists(t, v, x)
    BY <1>1, <1>4 DEF Exists
  <2>2. Front(x) \in Objects /\ t[v][Front(x)] = Dir
    BY <1>2, <2>1, ParentIsDir
  <2>3. IsPrefix(Front(x), x)
    BY PathFront, ObjectIs
  <2>4. Front(x) \notin gone
    BY <2>1, <2>3
  <2> QED BY <1>1, <2>2, <2>4, DirIs DEF IsDir
<1>5. AllRooted(u)
  BY <1>1, <1>3, <1>4, RootedRest DEF Rooted
<1> QED BY <1>5 DEF u

\* A rename moves a tree, whole, or changes nothing.
LEMMA RenameIs ==
    ASSUME NEW t \in Disks, AllRooted(t), NEW v \in Volumes, NEW o \in Objects, o # <<>>,
           NEW to \in NamePath, NEW u \in f_rename(t, v, o, to)
    PROVE  /\ Sound(u) /\ Elsewhere(t, u.t, v) /\ ~ u.lost
           /\ ~ u.ok => u.t = t
           /\ u.ok /\ (IsPrefix(o, to) => to = o) =>
                \A r \in DOMAIN Tree(t, v, o) :
                    to \o r \in Objects /\ u.t[v][to \o r] = Tree(t, v, o)[r]
           /\ u.ok => Room(t, v, to)
<1> DEFINE moved == Tree(t, v, o)
           D == {to \o r : r \in DOMAIN moved}
           put == [x \in D |-> moved[Rest(to, x)]]
           bare == Without(t, v, Below(o))
           full == With(bare, v, put)
           bad == \/ ~ Exists(t, v, o) \/ ~ Room(t, v, to)
                  \/ Exists(t, v, to) /\ to # o
                  \/ ~ D \subseteq Objects
<1>1. CASE bad
  <2>1. DOMAIN put = D
    OBVIOUS
  <2>2. u \in Fails(t)
    BY <1>1, <2>1 DEF f_rename
  <2> QED BY <2>2, FailsIs DEF Elsewhere
<1>2. CASE ~ bad
  <2>1. \/ u \in Fails(t)
        \/ u = Out(IF to # o /\ IsPrefix(o, to) THEN bare ELSE full, TRUE)
    <3>1. DOMAIN put = D
      OBVIOUS
    <3> QED BY <1>2, <3>1 DEF f_rename
  <2>2. /\ Exists(t, v, o) /\ Room(t, v, to) /\ (Exists(t, v, to) => to = o)
        /\ to \in Objects /\ to # <<>> /\ IsDir(t, v, Front(to))
        /\ D \subseteq Objects
    BY <1>2 DEF Room
  <2>3. o \in NamePath /\ Rooted(t, v)
    BY ObjectIs DEF AllRooted
  <2>4. /\ IsTree(moved) /\ \A r \in DOMAIN moved \ {<<>>} : Front(r) \in DOMAIN moved
        /\ \A r \in DOMAIN moved : r \in NamePath /\ moved[r] \in Node /\ moved[r] # None /\ to \o r \in Objects
    BY <2>2, <2>3, TreeRooted, TreeNodeIs DEF IsTree
  <2>5. \A x \in Objects : x \in D <=> \E r \in DOMAIN moved : x = to \o r
    OBVIOUS
  <2>6. DOMAIN put = D /\ \A r \in DOMAIN moved : put[to \o r] = moved[r]
    BY <2>4, PathBelow
  <2>7. \A x \in Objects : x \in Below(o) <=> IsPrefix(o, x)
    BY DEF Below
  <2> HIDE DEF moved, D, put
  <2>8. /\ bare \in Disks /\ Elsewhere(t, bare, v)
        /\ \A x \in Objects : bare[v][x] = IF IsPrefix(o, x) THEN None ELSE t[v][x]
    BY <2>7, WithoutIs
  <2>9. AllRooted(bare)
    <3>1. <<>> \notin Below(o)
      BY <2>3, PathOrder, PathEmpty DEF Below
    <3>2. \A x \in Below(o), y \in Objects : IsPrefix(x, y) /\ Exists(t, v, y) => y \in Below(o)
      BY <2>3, PathOrder, ObjectIs DEF Below
    <3> QED BY <3>1, <3>2, WithoutRooted
  <2> HIDE DEF bare
  <2>10. \A x \in Objects : x \in DOMAIN put => put[x] \in Node
    BY <2>4, <2>5, <2>6
  <2>11. /\ full \in Disks /\ Elsewhere(bare, full, v)
         /\ \A x \in Objects : full[v][x] = IF x \in DOMAIN put THEN put[x] ELSE bare[v][x]
    BY <2>8, <2>10, WithIs
  <2> HIDE DEF full
  <2>12. /\ \A r \in DOMAIN moved : full[v][to \o r] = moved[r]
         /\ \A x \in Objects : (\A r \in DOMAIN moved : x # to \o r) => full[v][x] = bare[v][x]
    BY <2>4, <2>5, <2>6, <2>11
  <2>13. ASSUME NEW x \in Objects, ~ IsPrefix(to, x)
         PROVE  full[v][x] = bare[v][x]
    <3>1. \A r \in DOMAIN moved : x # to \o r
      BY <2>4, <2>13, PathBelow
    <3> QED BY <2>12, <3>1
  <2>14. CASE IsPrefix(o, to) => to = o
    <3>1. Front(to) \in Objects /\ ~ IsPrefix(to, Front(to)) /\ ~ IsPrefix(o, Front(to)) /\ ~ IsPrefix(to, <<>>)
      <4>1. Front(to) \in Objects /\ Front(to) \in NamePath /\ IsPrefix(Front(to), to) /\ Front(to) # to
        BY <2>2, ObjectFront, PathFront
      <4>2. IsPrefix(<<>>, to) /\ <<>> \in NamePath
        BY PathOrder, PathEmpty
      <4>3. ~ IsPrefix(to, Front(to)) /\ ~ IsPrefix(to, <<>>)
        BY <2>2, <4>1, <4>2, PathOrder
      <4>4. ~ IsPrefix(o, Front(to))
        BY <2>3, <2>14, <4>1, <4>3, PathOrder
      <4> QED BY <4>1, <4>3, <4>4
    <3>2. full[v][<<>>] = Dir
      <4>1. ~ IsPrefix(o, <<>>)
        BY <2>3, PathOrder, PathEmpty
      <4> QED BY <2>3, <2>8, <2>13, <3>1, <4>1, ObjectIs DEF Rooted
    <3>3. ASSUME NEW x \in Objects \ {<<>>}, Exists(full, v, x)
          PROVE  IsDir(full, v, Front(x))
      <4>1. Front(x) \in Objects /\ x \in NamePath /\ Front(x) \in NamePath
        BY ObjectFront, PathFront, ObjectIs
      <4>2. CASE \E r \in DOMAIN moved : x = to \o r
        <5>1. PICK r \in DOMAIN moved : x = to \o r
          BY <4>2
        <5>2. CASE r = <<>>
          <6>1. x = to
            BY <5>1, <5>2, PathJoin, PathEmpty
          <6> QED BY <2>2, <2>8, <2>13, <3>1, <6>1 DEF IsDir
        <5>3. CASE r # <<>>
          <6>1. Front(r) \in DOMAIN moved /\ moved[Front(r)] = Dir
            BY <2>4, <5>3 DEF IsTree
          <6>2. Front(x) = to \o Front(r)
            BY <2>4, <5>1, <5>3, PathJoinFront
          <6> QED BY <2>12, <6>1, <6>2, DirIs DEF IsDir
        <5> QED BY <5>2, <5>3
      <4>3. CASE \A r \in DOMAIN moved : x # to \o r
        <5>1. Exists(bare, v, x)
          BY <2>12, <3>3, <4>3 DEF Exists
        <5>2. bare[v][Front(x)] = Dir
          BY <2>8, <2>9, <5>1, ParentIsDir DEF AllRooted
        <5>3. ~ IsPrefix(o, x) /\ Exists(t, v, x)
          BY <2>8, <5>1 DEF Exists
\* Nothing is below the new place but what moves there.
        <5>4. \A r \in DOMAIN moved : Front(x) # to \o r
          <6>1. SUFFICES ASSUME NEW r \in DOMAIN moved, Front(x) = to \o r
                         PROVE  FALSE
            OBVIOUS
          <6>2. IsPrefix(to, Front(x)) /\ IsPrefix(Front(x), x)
            BY <2>4, <4>1, <6>1, PathBelow, PathFront
          <6>3. IsPrefix(to, x) /\ to # x
            BY <4>1, <6>2, PathOrder, PathFront
          <6>4. to # o
            BY <5>3, <6>3
          <6>5. ~ IsDir(t, v, to)
            BY <2>2, <6>4, DirIs DEF Exists, IsDir
          <6>6. t[v][x] = None
            BY <2>3, <6>3, <6>5, NothingBelow
          <6> QED BY <5>3, <6>6 DEF Exists
        <5>5. full[v][Front(x)] = Dir
          BY <2>12, <4>1, <5>2, <5>4
        <5> QED BY <5>5, DirIs DEF IsDir
      <4> QED BY <4>2, <4>3
    <3>4. AllRooted(full)
      BY <2>8, <2>9, <2>11, <3>2, <3>3, RootedRest DEF Rooted
    <3>5. Elsewhere(t, full, v)
      BY <2>8, <2>11 DEF Elsewhere
    <3>6. CASE u \in Fails(t)
      BY <3>6, FailsIs DEF Elsewhere
    <3>7. CASE u = Out(full, TRUE)
      <4>1. Sound(u) /\ u.t = full /\ u.ok = TRUE /\ u.lost = FALSE
        BY <2>11, <3>4, <3>7, OutIs, OutSound
      <4>2. \A r \in DOMAIN moved : to \o r \in Objects /\ u.t[v][to \o r] = moved[r]
        BY <2>4, <2>12, <4>1
      <4> QED BY <2>2, <3>5, <4>1, <4>2 DEF moved
    <3> QED BY <2>1, <2>14, <3>6, <3>7
  <2>15. CASE IsPrefix(o, to) /\ to # o
    <3>1. CASE u \in Fails(t)
      BY <3>1, FailsIs DEF Elsewhere
    <3>2. CASE u = Out(bare, TRUE)
      <4>1. Sound(u) /\ u.t = bare /\ u.ok = TRUE /\ u.lost = FALSE
        BY <2>8, <2>9, <3>2, OutIs, OutSound
      <4> QED BY <2>2, <2>8, <2>15, <4>1
    <3> QED BY <2>1, <2>15, <3>1, <3>2
  <2> QED BY <2>14, <2>15
<1> QED BY <1>1, <1>2

\* A removal takes an object away with all below it when it succeeds.
Removed(u, t, v, o) ==
    /\ Sound(u) /\ Elsewhere(t, u.t, v) /\ ~ u.lost
    /\ u.ok => \A x \in Objects : IsPrefix(o, x) => u.t[v][x] = None

\* rm -r: children go before their parents, so what is left at any failure is a
\* tree; on success nothing is left.
LEMMA RmRecursiveIs ==
    ASSUME NEW t \in Disks, AllRooted(t), NEW v \in Volumes, NEW o \in Objects,
           NEW u \in fs_shared_fs_rm_recursive(t, v, o)
    PROVE  Removed(u, t, v, o)
<1> DEFINE all == {x \in Below(o) : Exists(t, v, x)}
           shut == {S \in SUBSET all : \A x \in S : Below(x) \cap all \subseteq S}
           W(S) == Without(t, v, S)
<1>1. CASE u \in Fails(t)
  BY <1>1, FailsIs DEF Elsewhere, Removed
<1>2. CASE u \notin Fails(t)
  <2> DEFINE A == UNION {Fails(W(S)) : S \in shut}
  <2>1. o # <<>> /\ u \in A \cup {Out(W(all), TRUE)}
    BY <1>2 DEF fs_shared_fs_rm_recursive, fs_shared_remove_entry_recursive
  <2>2. o \in NamePath /\ \A x \in Objects : x \in NamePath
    BY ObjectIs
  <2>3. ASSUME NEW S \in shut
        PROVE  W(S) \in Disks /\ Elsewhere(t, W(S), v) /\ AllRooted(W(S))
    <3>1. S \subseteq all /\ \A x \in S : Below(x) \cap all \subseteq S
      OBVIOUS
    <3>2. <<>> \notin S
      BY <2>1, <2>2, <3>1, PathOrder, PathEmpty DEF Below
    <3>3. ASSUME NEW x \in S, NEW y \in Objects, IsPrefix(x, y), Exists(t, v, y)
          PROVE  y \in S
      <4>1. x \in Objects /\ IsPrefix(o, x)
        BY <3>1 DEF Below
      <4>2. IsPrefix(o, y)
        BY <2>2, <3>3, <4>1, PathOrder
      <4>3. y \in Below(x) \cap all
        BY <3>3, <4>2 DEF Below
      <4> QED BY <3>1, <4>3
    <3> HIDE DEF shut
    <3> QED BY <3>2, <3>3, WithoutRooted, WithoutIs
  <2>4. all \in shut
    OBVIOUS
  <2>5. CASE u \in A
    <3>1. PICK S \in shut : u \in Fails(W(S))
      BY <2>5
    <3> HIDE DEF W, shut
    <3> QED BY <2>3, <3>1, FailsIs DEF Removed
  <2>6. CASE u = Out(W(all), TRUE)
    <3> DEFINE w == W(all)
    <3>1. w \in Disks /\ Elsewhere(t, w, v) /\ AllRooted(w)
      BY <2>3, <2>4
    <3>2. \A x \in Objects : w[v][x] = IF x \in all THEN None ELSE t[v][x]
      BY WithoutIs
    <3>3. \A x \in Objects : IsPrefix(o, x) => w[v][x] = None
      BY <3>2 DEF Below, Exists
    <3> HIDE DEF w
    <3>4. u = Out(w, TRUE)
      BY <2>6 DEF w
    <3>5. Sound(u) /\ u.t = w /\ u.ok = TRUE /\ u.lost = FALSE
      BY <3>1, <3>4, DoneIs
    <3> QED BY <3>1, <3>3, <3>5 DEF Removed
  <2>7. u \in A \/ u = Out(W(all), TRUE)
    <3> HIDE DEF A, W, all
    <3> QED BY <2>1
  <2> QED BY <2>5, <2>6, <2>7
<1> QED BY <1>1, <1>2

\* rm: a file, or a directory with nothing in it.
LEMMA RmIs ==
    ASSUME NEW t \in Disks, AllRooted(t), NEW v \in Volumes, NEW o \in Objects, o # <<>>,
           NEW u \in fs_shared_fs_rm(t, v, o)
    PROVE  Removed(u, t, v, o)
<1> DEFINE w == Without(t, v, {o})
<1>1. CASE u \in Fails(t)
  BY <1>1, FailsIs DEF Elsewhere, Removed
<1>2. CASE u \notin Fails(t)
  <2>1. Tree(t, v, o) = Leaf(<<>>, t[v][o]) /\ u = Out(w, TRUE)
    BY <1>2 DEF fs_shared_fs_rm
  <2>2. DOMAIN Tree(t, v, o) = {<<>>}
    BY <2>1 DEF Leaf
  <2>3. o \in NamePath /\ \A x \in Objects : x \in NamePath
    BY ObjectIs
  <2>4. ASSUME NEW x \in Objects, IsPrefix(o, x), Exists(t, v, x)
        PROVE  x = o
    <3>1. Rest(o, x) \in NamePath /\ x = o \o Rest(o, x)
      BY <2>3, <2>4, PathBelow
    <3>2. Rest(o, x) \in DOMAIN Tree(t, v, o)
      <4>1. DOMAIN Tree(t, v, o) = {r \in NamePath : o \o r \in Objects /\ Exists(t, v, o \o r)}
        BY <2>3, TreeIs
      <4>2. o \o Rest(o, x) \in Objects /\ Exists(t, v, o \o Rest(o, x))
        BY <2>4, <3>1
      <4> QED BY <3>1, <4>1, <4>2
    <3> QED BY <2>2, <2>3, <3>1, <3>2, PathJoin
  <2>5. /\ w \in Disks /\ Elsewhere(t, w, v)
        /\ \A x \in Objects : w[v][x] = IF x = o THEN None ELSE t[v][x]
    BY WithoutIs
  <2>6. AllRooted(w)
    <3>1. <<>> \notin {o} /\ \A x \in {o}, y \in Objects : IsPrefix(x, y) /\ Exists(t, v, y) => y \in {o}
      BY <2>4
    <3> QED BY <3>1, WithoutRooted
  <2>7. \A x \in Objects : IsPrefix(o, x) => w[v][x] = None
    BY <2>4, <2>5 DEF Exists
  <2>8. u = Out(w, TRUE)
    BY <2>1
  <2> HIDE DEF w
  <2>9. Sound(u) /\ u.t = w /\ u.ok = TRUE /\ u.lost = FALSE
    BY <2>5, <2>6, <2>8, DoneIs
  <2> QED BY <2>5, <2>7, <2>9 DEF Removed
<1> QED BY <1>1, <1>2

\* A directory is made where there is room.
LEMMA MkdirIs ==
    ASSUME NEW t \in Disks, AllRooted(t), NEW v \in Volumes, NEW o \in Objects
    PROVE  /\ \A u \in fs_shared_fs_mkdir(t, v, o) :
                  Sound(u) /\ Elsewhere(t, u.t, v) /\ ~ u.lost /\ (u.ok => u.t[v][o] = Dir)
           /\ \A u \in cmd_fs_mkdir(t, v, o) :
                  /\ Sound(u) /\ Elsewhere(t, u.t, v) /\ ~ u.lost
                  /\ u.ok => u.t[v][o] = Dir \/ IsFile(t, v, o)
<1>1. ASSUME NEW u \in fs_shared_fs_mkdir(t, v, o)
      PROVE  Sound(u) /\ Elsewhere(t, u.t, v) /\ ~ u.lost /\ (u.ok => u.t[v][o] = Dir)
  <2>1. CASE u \in Fails(t)
    BY <2>1, FailsIs DEF Elsewhere
  <2>2. CASE u \notin Fails(t)
    <3> DEFINE w == With(t, v, Leaf(o, Dir))
    <3>1. Room(t, v, o) /\ ~ Exists(t, v, o) /\ u = Out(w, TRUE)
      BY <2>2 DEF fs_shared_fs_mkdir
    <3>2. /\ w \in Disks /\ Elsewhere(t, w, v)
          /\ \A x \in Objects : w[v][x] = IF x = o THEN Dir ELSE t[v][x]
      BY DirIs, PutIs
    <3> HIDE DEF w
    <3>3. Rooted(t, v) /\ o # <<>> /\ IsDir(t, v, Front(o))
      BY <3>1 DEF AllRooted, Room
    <3>4. w[v][<<>>] = Dir
      BY <3>2, <3>3, ObjectIs DEF Rooted
    <3>5. ASSUME NEW x \in Objects \ {<<>>}, Exists(w, v, x)
          PROVE  IsDir(w, v, Front(x))
      <4>1. Front(x) \in Objects
        BY ObjectFront
      <4>2. IsDir(t, v, Front(x))
        BY <3>2, <3>3, <3>5 DEF Exists, Rooted
      <4> QED BY <3>2, <4>1, <4>2, DirIs DEF IsDir
    <3>6. AllRooted(w)
      BY <3>2, <3>4, <3>5, RootedRest DEF Rooted
    <3>7. Sound(u) /\ u.t = w /\ u.ok = TRUE /\ u.lost = FALSE
      BY <3>1, <3>2, <3>6, DoneIs
    <3> QED BY <3>2, <3>7
  <2> QED BY <2>1, <2>2
<1>2. ASSUME NEW u \in cmd_fs_mkdir(t, v, o)
      PROVE  /\ Sound(u) /\ Elsewhere(t, u.t, v) /\ ~ u.lost
             /\ u.ok => u.t[v][o] = Dir \/ IsFile(t, v, o)
  <2>1. CASE Exists(t, v, o)
    <3>1. u = Out(t, TRUE) /\ TRUE \in BOOLEAN
      BY <2>1 DEF cmd_fs_mkdir
    <3>2. Sound(Out(t, TRUE)) /\ u.t = t /\ u.lost = FALSE
      BY <3>1, OutSound, OutIs
    <3>3. t[v][o] = Dir \/ IsFile(t, v, o)
      BY <2>1, NodeAt, NodeIs DEF Exists, IsFile
    <3> QED BY <3>1, <3>2, <3>3 DEF Elsewhere
  <2>2. CASE ~ Exists(t, v, o)
    <3>1. u \in fs_shared_fs_mkdir(t, v, o)
      BY <2>2 DEF cmd_fs_mkdir
    <3> QED BY <1>1, <3>1, DirIs
  <2> QED BY <2>1, <2>2
<1> QED BY <1>1, <1>2

----------------------------------------------------------------------------
(* Paths as they are spelled.                                              *)

Spelled == Names \X STRING
SpelledPath == Seq(Spelled)

\* Every name is spelled in one way, in all the paths of the commands.
OneSpelling ==
    \A a, b \in Sources \cup Targets : \A i \in DOMAIN a.p, j \in DOMAIN b.p :
        a.p[i][1] = b.p[j][1] => a.p[i] = b.p[j]
Plain(W) == W \subseteq Spelled /\ \A e, f \in W : e[1] = f[1] => e = f

\* The names of a spelled path.
LEMMA KeyIs ==
    ASSUME NEW p \in SpelledPath
    PROVE  /\ Key(p) \in NamePath /\ Len(Key(p)) = Len(p) /\ Len(p) \in Nat
           /\ \A i \in 1 .. Len(p) : Key(p)[i] = p[i][1] /\ p[i] \in Spelled
<1>1. Len(p) \in Nat /\ DOMAIN p = 1 .. Len(p) /\ \A i \in 1 .. Len(p) : p[i] \in Spelled
  BY LenProperties, ElementOfSeq DEF SpelledPath
<1> DEFINE n == Len(p)
<1>2. Key(p) = [i \in 1 .. n |-> p[i][1]]
  BY <1>1 DEF Key
<1>3. \A i \in 1 .. n : p[i][1] \in Names
  BY <1>1 DEF Spelled
<1> HIDE DEF n
<1>4. n \in Nat
  BY <1>1 DEF n
<1>5. Key(p) \in [1 .. n -> Names] /\ \A i \in 1 .. n : Key(p)[i] = p[i][1]
  BY <1>2, <1>3
<1>6. Key(p) \in NamePath /\ Len(Key(p)) = n
  BY <1>4, <1>5 DEF NamePath
<1> QED BY <1>1, <1>5, <1>6 DEF n

\* A spelled path with one component more.
LEMMA KeyAppend ==
    ASSUME NEW p \in SpelledPath, NEW e \in Spelled
    PROVE  /\ Append(p, e) \in SpelledPath
           /\ Key(Append(p, e)) = Append(Key(p), e[1])
           /\ e[1] \in Names
           /\ p \o <<e>> = Append(p, e) /\ <<e>> \in SpelledPath
<1> DEFINE q == Append(p, e)
<1>1. /\ q \in SpelledPath /\ Len(q) = Len(p) + 1
      /\ \A i \in 1 .. Len(p) : q[i] = p[i]
      /\ q[Len(p) + 1] = e
  BY AppendProperties DEF SpelledPath
<1>2. e[1] \in Names
  BY DEF Spelled
<1>3. /\ Key(p) \in NamePath /\ Len(Key(p)) = Len(p) /\ Len(p) \in Nat
      /\ \A i \in 1 .. Len(p) : Key(p)[i] = p[i][1]
  BY KeyIs
<1>4. p \o <<e>> = q /\ <<e>> \in SpelledPath
  <2>1. <<e>> \in Seq(Spelled)
    OBVIOUS
  <2> QED BY <2>1, AppendIsConcat DEF SpelledPath
<1> HIDE DEF q
<1>5. /\ Key(q) \in NamePath /\ Len(Key(q)) = Len(q)
      /\ \A i \in 1 .. Len(q) : Key(q)[i] = q[i][1]
  BY <1>1, KeyIs
<1> DEFINE r == Append(Key(p), e[1])
<1>6. /\ r \in NamePath /\ Len(r) = Len(Key(p)) + 1
      /\ \A i \in 1 .. Len(Key(p)) : r[i] = Key(p)[i]
      /\ r[Len(Key(p)) + 1] = e[1]
  BY <1>2, <1>3, AppendProperties DEF NamePath
<1> HIDE DEF r
<1>7. \A i \in 1 .. Len(Key(q)) : Key(q)[i] = r[i]
  <2> SUFFICES ASSUME NEW i \in 1 .. Len(p) + 1
               PROVE  Key(q)[i] = r[i]
    BY <1>1, <1>5
  <2>1. i \in 1 .. Len(p) \/ i = Len(p) + 1
    BY <1>3
  <2> QED BY <1>1, <1>3, <1>5, <1>6, <2>1
<1>8. Key(q) = r
  BY <1>1, <1>3, <1>5, <1>6, <1>7, SeqEqual DEF NamePath
<1> QED BY <1>1, <1>2, <1>4, <1>8 DEF q, r

\* The base name of a path, in its spelling.
LEMMA LastSpelled ==
    ASSUME NEW W, NEW p \in Seq(W), p # <<>>
    PROVE  Last(p) \in W
<1>1. Len(p) \in Nat \ {0}
  BY EmptySeq
<1>2. Len(p) \in 1 .. Len(p)
  BY <1>1
<1> QED BY <1>2, ElementOfSeq DEF Last

\* With one spelling per name, strcmp and FAT agree.
LEMMA PlainPaths ==
    ASSUME NEW W, Plain(W), NEW s \in Seq(W), NEW g \in Seq(W)
    PROVE  /\ s \in SpelledPath /\ g \in SpelledPath
           /\ IsPrefix(Key(s), Key(g)) => fs_shared_is_subpath(s, g)
           /\ Key(s) = Key(g) => s = g
<1>1. s \in SpelledPath /\ g \in SpelledPath
  BY SeqMonotonic DEF Plain, SpelledPath
<1>2. /\ \A i \in 1 .. Len(s) : s[i] \in W
      /\ \A i \in 1 .. Len(g) : g[i] \in W
  BY ElementOfSeq
<1>3. /\ Len(s) \in Nat /\ Key(s) \in NamePath /\ Len(Key(s)) = Len(s)
      /\ \A i \in 1 .. Len(s) : Key(s)[i] = s[i][1]
      /\ Len(g) \in Nat /\ Key(g) \in NamePath /\ Len(Key(g)) = Len(g)
      /\ \A i \in 1 .. Len(g) : Key(g)[i] = g[i][1]
  BY <1>1, KeyIs
<1>4. ASSUME IsPrefix(Key(s), Key(g))
      PROVE  Len(s) <= Len(g) /\ \A i \in 1 .. Len(s) : s[i] = g[i]
  <2>1. Len(s) <= Len(g) /\ \A i \in 1 .. Len(s) : Key(s)[i] = Key(g)[i]
    BY <1>3, <1>4, PathPrefixIs
  <2>2. \A i \in 1 .. Len(s) : i \in 1 .. Len(g)
    BY <1>3, <2>1
  <2> QED BY <1>2, <1>3, <2>1, <2>2 DEF Plain
<1>5. ASSUME IsPrefix(Key(s), Key(g))
      PROVE  fs_shared_is_subpath(s, g)
  <2> DEFINE k == Len(s)
             u == SubSeq(g, 1, k)
  <2>1. k \in Nat /\ 1 \in Int /\ k \in Int /\ k <= Len(g) /\ \A i \in 1 .. k : s[i] = g[i] /\ g[i] \in Spelled
    <3>1. \A i \in 1 .. Len(s) : i \in 1 .. Len(g)
      BY <1>3, <1>4, <1>5
    <3>2. \A i \in 1 .. Len(s) : s[i] = g[i] /\ g[i] \in Spelled
      BY <1>2, <1>4, <1>5, <3>1 DEF Plain
    <3> QED BY <1>3, <1>4, <1>5, <3>2
  <2> HIDE DEF k
  <2>2. /\ SubSeq(g, 1, k) \in Seq(Spelled)
        /\ Len(SubSeq(g, 1, k)) = IF 1 <= k THEN k - 1 + 1 ELSE 0
        /\ \A i \in 1 .. k - 1 + 1 : SubSeq(g, 1, k)[i] = g[1 + i - 1]
    BY <2>1, SubSeqProperties
  <2>3. u \in Seq(Spelled) /\ Len(u) = k
    BY <2>1, <2>2
  <2>4. \A i \in 1 .. k : u[i] = g[i]
    <3>1. \A i \in 1 .. k : i \in 1 .. k - 1 + 1 /\ 1 + i - 1 = i
      BY <2>1
    <3> QED BY <2>2, <3>1
  <2> HIDE DEF u
  <2>5. s = u
    BY <1>1, <2>1, <2>3, <2>4, SeqEqual DEF SpelledPath, k
  <2>6. SubSeq(s, 1, Len(s)) = s
    BY SubSeqFull
  <2> QED BY <1>4, <1>5, <2>5, <2>6 DEF fs_shared_is_subpath, IsPrefix, k, u
<1>6. ASSUME Key(s) = Key(g)
      PROVE  s = g
  <2>1. IsPrefix(Key(s), Key(g)) /\ Len(s) = Len(g)
    BY <1>3, <1>6, PathOrder
  <2> QED BY <1>1, <1>4, <2>1, SeqEqual DEF SpelledPath
<1> QED BY <1>1, <1>5, <1>6

----------------------------------------------------------------------------
(* The calls of a command.                                                 *)

\* Every node of the source is at its place below the target.
Copied(d, w, to, nodes) == \A r \in DOMAIN nodes : to \o r \in Objects /\ d[w][to \o r] = nodes[r]

\* fs_shared_prepare_file_target: the target itself, or the base name below it when
\* it is a directory.
LEMMA AtTheTarget ==
    ASSUME NEW W, NEW s \in Seq(W), s # <<>>, NEW d \in Seq(W), NEW t, NEW v
    PROVE  LET g == fs_shared_prepare_file_target(t, v, s, d)
           IN  /\ g \in Seq(W)
               /\ (g = d \/ g = Append(d, Last(s)))
               /\ g = d => ~ (Key(d) \in Objects /\ IsDir(t, v, Key(d)))
<1> DEFINE a == Append(d, Last(s))
           g == fs_shared_prepare_file_target(t, v, s, d)
<1>1. a \in Seq(W) /\ Len(a) = Len(d) + 1
  BY LastSpelled, AppendProperties
<1>2. Len(d) \in Nat
  BY LenProperties
<1>3. a # d
  BY <1>1, <1>2
<1>4. g = IF Key(d) \in Objects /\ IsDir(t, v, Key(d)) THEN a ELSE d
  BY DEF fs_shared_prepare_file_target, fs_shared_join_path
<1> HIDE DEF a, g
<1>5. /\ g \in Seq(W)
      /\ (g = d \/ g = a)
      /\ g = d => ~ (Key(d) \in Objects /\ IsDir(t, v, Key(d)))
  BY <1>1, <1>3, <1>4
<1> QED BY <1>5 DEF a, g

\* A tree is at its own place.
LEMMA TreeHolds ==
    ASSUME NEW t \in Disks, AllRooted(t), NEW v \in Volumes, NEW o \in NamePath
    PROVE  /\ IsTree(Tree(t, v, o)) /\ Copied(t, v, o, Tree(t, v, o))
           /\ \A r \in DOMAIN Tree(t, v, o) :
                  r \in NamePath /\ o \o r \in Objects /\ Tree(t, v, o)[r] = t[v][o \o r] /\ Exists(t, v, o \o r)
<1> DEFINE n == Tree(t, v, o)
<1>1. /\ DOMAIN n = {r \in NamePath : o \o r \in Objects /\ Exists(t, v, o \o r)}
      /\ \A r \in DOMAIN n : n[r] = t[v][o \o r]
  BY TreeIs
<1>2. IsTree(n)
  BY TreeRooted DEF AllRooted
<1> HIDE DEF n
<1>3. \A r \in DOMAIN n : r \in NamePath /\ o \o r \in Objects /\ n[r] = t[v][o \o r] /\ Exists(t, v, o \o r)
  BY <1>1
<1>4. Copied(t, v, o, n)
  BY <1>3 DEF Copied
<1> QED BY <1>2, <1>3, <1>4 DEF n

\* What is copied over a file: the source stays, if it is not the target.
LEMMA CopyFileIs ==
    ASSUME NEW t \in Disks, AllRooted(t), NEW v \in Volumes, NEW w \in Volumes, NEW o \in Objects,
           NEW to \in NamePath, NEW u \in fs_shared_copy_file_locked(t, v, o, w, to)
    PROVE  /\ Sound(u) /\ Elsewhere(t, u.t, w) /\ ~ u.lost
           /\ u.ok => to \in Objects /\ Copied(u.t, w, to, Tree(t, v, o))
           /\ (v = w /\ to = o) \/ Copied(u.t, v, o, Tree(t, v, o))
<1> DEFINE n == Tree(t, v, o)
<1>1. /\ o \in NamePath /\ Rooted(t, v) /\ Copied(t, v, o, n)
      /\ \A r \in DOMAIN n : r \in NamePath /\ o \o r \in Objects /\ n[r] = t[v][o \o r] /\ n[r] # None
  <2>1. o \in NamePath /\ Rooted(t, v)
    BY ObjectIs DEF AllRooted
  <2>2. /\ Copied(t, v, o, n)
        /\ \A r \in DOMAIN n : r \in NamePath /\ o \o r \in Objects /\ n[r] = t[v][o \o r] /\ Exists(t, v, o \o r)
    BY <2>1, TreeHolds
  <2> HIDE DEF n
  <2> QED BY <2>1, <2>2 DEF Exists
<1>2. Copied(t, v, o, n)
  BY <1>1
<1>3. CASE ~ IsFile(t, v, o)
  <2>1. u \in Fails(t)
    BY <1>3 DEF fs_shared_copy_file_locked
  <2>2. Sound(u) /\ u.t = t /\ u.ok = FALSE /\ u.lost = FALSE
    BY <2>1, FailsIs
  <2> HIDE DEF n
  <2> QED BY <1>2, <2>2 DEF Elsewhere, n
<1>4. CASE IsFile(t, v, o)
  <2> DEFINE data == t[v][o].data
  <2>1. data \in Seq(Nat) /\ t[v][o] = File(data) /\ ~ IsDir(t, v, o)
    BY <1>4, NodeAt, NodeIs DEF IsFile, IsDir
  <2>2. u \in WriteFile(t, w, to, <<>>, data, TRUE)
    BY <1>4 DEF fs_shared_copy_file_locked
  <2>3. \A r \in DOMAIN n : r = <<>>
    <3>1. SUFFICES ASSUME NEW r \in DOMAIN n, r # <<>>
                   PROVE  FALSE
      OBVIOUS
    <3>2. IsPrefix(o, o \o r) /\ o # o \o r /\ o \o r \in Objects
      BY <1>1, <3>1, PathBelow, PathJoin
    <3>3. t[v][o \o r] = None
      BY <1>1, <2>1, <3>2, NothingBelow
    <3> QED BY <1>1, <3>3
  <2>4. o \o <<>> = o /\ to \o <<>> = to
    BY <1>1, PathJoin, PathEmpty
  <2> HIDE DEF data, n
  <2>5. <<>> \in Seq(Nat) /\ TRUE \in BOOLEAN
    OBVIOUS
  <2>6. <<>> \o data = data
    BY <2>1, ConcatEmptySeq
  <2>7. /\ Sound(u) /\ Elsewhere(t, u.t, w) /\ ~ u.lost
        /\ \A x \in Objects : x # to => u.t[w][x] = t[w][x]
        /\ u.ok => to \in Objects /\ u.t[w][to] = File(data)
    <3>1. Wrote(t, u, w, to, <<>> \o data) /\ ~ u.lost
      BY <2>1, <2>2, <2>5, WriteFileIs, Zenon
    <3> QED BY <2>6, <3>1 DEF Wrote
  <2>8. u.ok => to \in Objects /\ Copied(u.t, w, to, n)
    BY <1>1, <2>1, <2>3, <2>4, <2>7 DEF Copied
  <2>9. ASSUME ~ (v = w /\ to = o)
        PROVE  Copied(u.t, v, o, n)
    <3>1. u.t[v][o] = t[v][o]
      BY <2>7, <2>9 DEF Elsewhere
    <3> QED BY <1>1, <2>3, <2>4, <3>1 DEF Copied
  <2> QED BY <2>7, <2>8, <2>9 DEF n
<1> QED BY <1>3, <1>4

\* cp: what succeeds is whole at the target; what fails leaves the source, unless
\* the target is the source or, of a tree, above it.
LEMMA CpIs ==
    ASSUME NEW t \in Disks, AllRooted(t), NEW v \in Volumes, NEW w \in Volumes,
           NEW W, Plain(W), NEW s \in Seq(W), NEW d \in Seq(W),
           s # <<>>, Key(s) \in Objects, NEW recursive \in BOOLEAN,
           NEW u \in fs_shared_fs_cp_locked(t, v, s, w, d, recursive)
    PROVE  LET o == Key(s)
               g == fs_shared_prepare_file_target(t, w, s, d)
               to == Key(g)
               n == Tree(t, v, o)
           IN  /\ Sound(u) /\ Elsewhere(t, u.t, w) /\ ~ u.lost
               /\ u.ok => to \in Objects /\ Copied(u.t, w, to, n)
               /\ \/ v = w /\ to = o
                  \/ v = w /\ recursive /\ IsPrefix(to, o) /\ g # d
                  \/ Copied(u.t, v, o, n)
<1> DEFINE o == Key(s)
           g == fs_shared_prepare_file_target(t, w, s, d)
           to == Key(g)
           n == Tree(t, v, o)
<1>1. /\ g \in Seq(W) /\ (g = d => ~ (Key(d) \in Objects /\ IsDir(t, w, Key(d))))
      /\ (g = d \/ g = Append(d, Last(s)))
  BY AtTheTarget
<1>2. /\ s \in SpelledPath /\ g \in SpelledPath /\ d \in SpelledPath
      /\ IsPrefix(o, to) => fs_shared_is_subpath(s, g)
  <2> HIDE DEF g
  <2> QED BY <1>1, PlainPaths
<1>3. o \in Objects /\ o \in NamePath /\ to \in NamePath /\ Key(d) \in NamePath /\ o # <<>>
  <2>1. Len(s) # 0
    BY EmptySeq
  <2> HIDE DEF g
  <2> QED BY <1>2, <2>1, KeyIs, PathEmpty
<1>4. /\ Rooted(t, v) /\ Rooted(t, w) /\ IsTree(n)
      /\ \A r \in DOMAIN n : r \in NamePath /\ o \o r \in Objects /\ n[r] = t[v][o \o r] /\ n[r] # None
  <2> HIDE DEF o, g
  <2>1. /\ IsTree(n)
        /\ \A r \in DOMAIN n : r \in NamePath /\ o \o r \in Objects /\ n[r] = t[v][o \o r] /\ Exists(t, v, o \o r)
    BY <1>3, TreeHolds
  <2> HIDE DEF n
  <2> QED BY <2>1 DEF AllRooted, Exists
<1>5. Copied(t, v, o, n)
  <2> HIDE DEF o, g
  <2> QED BY <1>3, TreeHolds
<1> DEFINE Goal == /\ Sound(u) /\ Elsewhere(t, u.t, w) /\ ~ u.lost
                   /\ u.ok => to \in Objects /\ Copied(u.t, w, to, n)
                   /\ \/ v = w /\ to = o
                      \/ v = w /\ recursive /\ IsPrefix(to, o) /\ g # d
                      \/ Copied(u.t, v, o, n)
<1>6. \/ u \in Fails(t)
      \/ IsFile(t, v, o) /\ u \in fs_shared_copy_file_locked(t, v, o, w, to)
      \/ /\ ~ IsFile(t, v, o) /\ Exists(t, v, o) /\ Key(d) \in Objects
         /\ recursive /\ ~ (v = w /\ fs_shared_is_subpath(s, g))
         /\ u \in CopyTree(t, w, to, n)
  <2> HIDE DEF g
  <2>1. u \in IF d = <<>> \/ Key(d) \notin Objects \/ ~ Exists(t, v, o) THEN Fails(t)
              ELSE IF IsFile(t, v, o) THEN fs_shared_copy_file_locked(t, v, o, w, to)
              ELSE IF \/ ~ recursive
                      \/ Exists(t, w, Key(d)) /\ ~ IsDir(t, w, Key(d))
                      \/ v = w /\ fs_shared_is_subpath(s, g)
                   THEN Fails(t)
              ELSE fs_shared_copy_directory_contents(t, v, o, w, to)
    BY DEF fs_shared_fs_cp_locked, g
  <2>2. u \in fs_shared_copy_directory_contents(t, v, o, w, to) => u \in CopyTree(t, w, to, n)
    BY DEF fs_shared_copy_directory_contents
  <2> HIDE DEF o, to, n
  <2> QED BY <2>1, <2>2
<1>7. CASE u \in Fails(t)
  <2> HIDE DEF o, g, n
  <2>1. Sound(u) /\ u.t = t /\ u.ok = FALSE /\ u.lost = FALSE
    BY <1>7, FailsIs
  <2>2. Goal
    BY <1>5, <2>1 DEF Elsewhere
  <2> QED BY <2>2 DEF o, g, n
<1>8. CASE u \in fs_shared_copy_file_locked(t, v, o, w, to)
  <2> HIDE DEF o, g
  <2>1. /\ Sound(u) /\ Elsewhere(t, u.t, w) /\ ~ u.lost
        /\ u.ok => to \in Objects /\ Copied(u.t, w, to, n)
        /\ (v = w /\ to = o) \/ Copied(u.t, v, o, n)
    <3> HIDE DEF to
    <3> QED BY <1>3, <1>8, CopyFileIs
  <2>2. Goal
    BY <2>1
  <2> QED BY <2>2 DEF o, g
<1>9. CASE /\ ~ IsFile(t, v, o) /\ Exists(t, v, o) /\ Key(d) \in Objects
           /\ recursive /\ ~ (v = w /\ fs_shared_is_subpath(s, g))
           /\ u \in CopyTree(t, w, to, n)
  <2> HIDE DEF o, g, n, to
  <2>1. /\ Sound(u) /\ Elsewhere(t, u.t, w) /\ ~ u.lost
        /\ Outside(t, u.t, w, to)
        /\ u.ok => Copied(u.t, w, to, n)
        /\ u.ok => Room(t, w, to)
    BY <1>4, <1>9, CopyTreeIs DEF Copied
  <2>2. CASE v # w
    <3>1. u.t[v] = t[v]
      BY <2>1, <2>2 DEF Elsewhere
    <3>2. Copied(u.t, v, o, n)
      BY <1>5, <3>1 DEF Copied
    <3> QED BY <2>1, <3>2 DEF Room, o, g, n, to
  <2>3. CASE v = w /\ IsPrefix(to, o) /\ g # d
    BY <1>9, <2>1, <2>3 DEF Room, o, g, n, to
  <2>4. CASE v = w /\ ~ (IsPrefix(to, o) /\ g # d)
    <3>1. ~ IsPrefix(o, to)
      BY <1>2, <1>9, <2>4
    <3>2. ~ IsPrefix(to, o)
      <4>1. SUFFICES ASSUME IsPrefix(to, o)
                     PROVE  FALSE
        OBVIOUS
      <4>2. g = d /\ to = Key(d)
        BY <2>4, <4>1 DEF to
      <4>3. to # o
        BY <1>3, <3>1, PathOrder
      <4>4. t[w][to] = Dir
        BY <1>3, <1>4, <1>9, <2>4, <4>1, <4>3, LiesInDirs
      <4> QED BY <1>1, <1>9, <4>2, <4>4, DirIs DEF IsDir
    <3>3. ASSUME NEW r \in DOMAIN n
          PROVE  ~ IsPrefix(to, o \o r)
      <4>1. r \in NamePath /\ o \o r \in NamePath /\ IsPrefix(o, o \o r)
        BY <1>3, <1>4, PathJoin, PathBelow
      <4> QED BY <1>3, <3>1, <3>2, <4>1, PathOrder
    <3>4. Copied(u.t, v, o, n)
      BY <1>4, <1>5, <2>1, <2>4, <3>3 DEF Copied, Outside
    <3> QED BY <2>1, <3>4 DEF Room, o, g, n, to
  <2> QED BY <2>2, <2>3, <2>4
<1>10. Goal
  <2> HIDE DEF Goal
  <2> QED BY <1>6, <1>7, <1>8, <1>9 DEF Goal
<1> QED BY <1>10

\* mv on one volume: what succeeds is whole at the target, what fails changes
\* nothing of the source.
LEMMA MvIs ==
    ASSUME NEW t \in Disks, AllRooted(t), NEW v \in Volumes,
           NEW W, Plain(W), NEW s \in Seq(W), NEW d \in Seq(W),
           s # <<>>, Key(s) \in Objects, NEW u \in fs_shared_fs_mv_locked(t, v, s, d)
    PROVE  LET o == Key(s)
               to == Key(fs_shared_prepare_file_target(t, v, s, d))
               n == Tree(t, v, o)
           IN  /\ Sound(u) /\ ~ u.lost
               /\ u.ok => to \in Objects /\ Copied(u.t, v, to, n)
               /\ ~ u.ok => Copied(u.t, v, o, n)
<1> DEFINE o == Key(s)
           g == fs_shared_prepare_file_target(t, v, s, d)
           to == Key(g)
           n == Tree(t, v, o)
           bare == Cleared(t, v, to)
<1>1. g \in Seq(W)
  BY AtTheTarget
<1>2. /\ s \in SpelledPath /\ g \in SpelledPath
      /\ IsPrefix(o, to) => fs_shared_is_subpath(s, g)
      /\ o = to => s = g
  <2> HIDE DEF g
  <2> QED BY <1>1, PlainPaths
<1>3. o \in Objects /\ o \in NamePath /\ to \in NamePath /\ o # <<>>
  <2>1. Len(s) # 0
    BY EmptySeq
  <2> HIDE DEF g
  <2> QED BY <1>2, <2>1, KeyIs, PathEmpty
<1>4. \/ u \in Fails(t)
      \/ to \in Objects /\ s = g /\ u = Out(t, TRUE)
      \/ /\ to \in Objects /\ s # g /\ Exists(t, v, o) /\ ~ IsDir(t, v, to)
         /\ ~ (IsDir(t, v, o) /\ fs_shared_is_subpath(s, g))
         /\ u \in Fails(t) \cup Fails(bare) \cup f_rename(bare, v, o, to)
  <2> HIDE DEF g, bare
  <2>1. u \in IF d = <<>> \/ to \notin Objects THEN Fails(t)
              ELSE IF s = g THEN {Out(t, TRUE)}
              ELSE IF \/ ~ Exists(t, v, o) \/ IsDir(t, v, to)
                      \/ IsDir(t, v, o) /\ fs_shared_is_subpath(s, g) THEN Fails(t)
              ELSE Fails(t) \cup Fails(bare) \cup f_rename(bare, v, o, to)
    BY DEF fs_shared_fs_mv_locked, g, bare
  <2> HIDE DEF o, to
  <2> QED BY <2>1
<1>5. /\ Rooted(t, v) /\ Copied(t, v, o, n)
      /\ \A r \in DOMAIN n : r \in NamePath /\ o \o r \in Objects /\ n[r] = t[v][o \o r] /\ n[r] # None
  <2> HIDE DEF o, g
  <2>1. /\ Copied(t, v, o, n)
        /\ \A r \in DOMAIN n : r \in NamePath /\ o \o r \in Objects /\ n[r] = t[v][o \o r] /\ Exists(t, v, o \o r)
    BY <1>3, TreeHolds
  <2> HIDE DEF n
  <2> QED BY <2>1 DEF AllRooted, Exists
<1> DEFINE Goal == /\ Sound(u) /\ ~ u.lost
                   /\ u.ok => to \in Objects /\ Copied(u.t, v, to, n)
                   /\ ~ u.ok => Copied(u.t, v, o, n)
<1>6. CASE u \in Fails(t)
  <2> HIDE DEF o, g, n
  <2>1. Sound(u) /\ u.t = t /\ u.ok = FALSE /\ u.lost = FALSE
    BY <1>6, FailsIs
  <2>2. Goal
    BY <1>5, <2>1
  <2> QED BY <2>2 DEF o, g, n
<1>7. CASE to \in Objects /\ s = g /\ u = Out(t, TRUE)
  <2> HIDE DEF g, n
  <2>1. Sound(u) /\ u.t = t /\ u.ok = TRUE /\ u.lost = FALSE
    BY <1>7, DoneIs
  <2>2. Goal
    BY <1>5, <1>7, <2>1
  <2> QED BY <2>2 DEF g, n
<1>8. CASE /\ to \in Objects /\ s # g /\ Exists(t, v, o) /\ ~ IsDir(t, v, to)
           /\ ~ (IsDir(t, v, o) /\ fs_shared_is_subpath(s, g))
           /\ u \in Fails(t) \cup Fails(bare) \cup f_rename(bare, v, o, to)
  <2> HIDE DEF o, g, n, to
  <2>1. o # to
    BY <1>2, <1>8 DEF o, to
  <2>2. IsPrefix(o, to) => ~ IsDir(t, v, o) /\ t[v][to] = None /\ ~ Room(t, v, to)
    <3> SUFFICES ASSUME IsPrefix(o, to)
                 PROVE  ~ IsDir(t, v, o) /\ t[v][to] = None /\ ~ Room(t, v, to)
      OBVIOUS
    <3>1. ~ IsDir(t, v, o)
      BY <1>2, <1>8 DEF o, to
    <3>2. t[v][to] = None
      BY <1>3, <1>5, <1>8, <2>1, <3>1, NothingBelow
    <3>3. to # <<>> /\ IsPrefix(o, Front(to)) /\ Front(to) \in Objects
      <4>1. to # <<>> /\ IsPrefix(o, Front(to))
        BY <1>3, <2>1, PathFrontBelow
      <4> QED BY <1>8, <4>1, ObjectFront
    <3>4. ~ IsDir(t, v, Front(to))
      <4>1. CASE Front(to) = o
        BY <3>1, <4>1
      <4>2. CASE Front(to) # o
        <5>1. t[v][Front(to)] = None
          BY <1>3, <1>5, <3>1, <3>3, <4>2, NothingBelow
        <5> QED BY <5>1, DirIs DEF IsDir
      <4> QED BY <4>1, <4>2
    <3> QED BY <3>1, <3>2, <3>4 DEF Room
  \* The target file is gone: it was no part of the source.
  <2>3. /\ bare \in Disks /\ AllRooted(bare) /\ Elsewhere(t, bare, v)
        /\ \A x \in Objects : x # to => bare[v][x] = t[v][x]
        /\ \A x \in Objects : bare[v][x] = t[v][x] \/ bare[v][x] = None
    <3>1. CASE ~ IsFile(t, v, to)
      BY <3>1 DEF Cleared, bare, Elsewhere
    <3>2. CASE IsFile(t, v, to)
      <4> DEFINE gone == {to}
      <4>1. bare = Without(t, v, gone)
        BY <3>2 DEF Cleared, bare
      <4>2. <<>> \notin gone
        BY <1>5, <3>2, DirIs DEF Rooted, IsFile
      <4>3. ASSUME NEW x \in gone, NEW y \in Objects, IsPrefix(x, y), Exists(t, v, y)
            PROVE  y \in gone
        BY <1>3, <1>5, <1>8, <4>3, NothingBelow DEF Exists
      <4>4. \A x : x \in gone <=> x = to
        OBVIOUS
      <4> HIDE DEF gone
      <4>5. AllRooted(Without(t, v, gone))
        BY <4>2, <4>3, WithoutRooted
      <4> QED BY <4>1, <4>4, <4>5, WithoutIs
    <3> QED BY <3>1, <3>2
  <2> HIDE DEF bare
  <2>4. ASSUME NEW r \in DOMAIN n
        PROVE  o \o r # to
    <3>1. SUFFICES ASSUME o \o r = to
                   PROVE  FALSE
      OBVIOUS
    <3>2. IsPrefix(o, to)
      BY <1>3, <1>5, <3>1, PathBelow
    <3> QED BY <1>5, <2>2, <3>1, <3>2
  <2>5. Copied(bare, v, o, n)
    BY <1>5, <2>3, <2>4 DEF Copied
  <2>6. CASE u \in Fails(bare)
    <3>1. Sound(u) /\ u.t = bare /\ u.ok = FALSE /\ u.lost = FALSE
      BY <2>3, <2>6, FailsIs
    <3>2. Goal
      BY <2>5, <3>1
    <3> QED BY <3>2 DEF o, g, n, to
  <2>7. CASE u \in f_rename(bare, v, o, to)
    <3>1. /\ Sound(u) /\ ~ u.lost
          /\ ~ u.ok => u.t = bare
          /\ u.ok /\ (IsPrefix(o, to) => to = o) =>
                \A r \in DOMAIN Tree(bare, v, o) :
                    to \o r \in Objects /\ u.t[v][to \o r] = Tree(bare, v, o)[r]
          /\ u.ok => Room(bare, v, to)
      BY <1>3, <2>3, <2>7, RenameIs
    <3>2. u.ok => ~ IsPrefix(o, to)
      <4>1. SUFFICES ASSUME u.ok, IsPrefix(o, to)
                     PROVE  FALSE
        OBVIOUS
      <4>2. Room(bare, v, to) /\ ~ Room(t, v, to)
        BY <2>2, <3>1, <4>1
      <4>3. to # <<>> /\ to \in Objects /\ Front(to) \in Objects
        BY <4>2, ObjectFront DEF Room
      <4>4. bare[v][Front(to)] = t[v][Front(to)] \/ bare[v][Front(to)] = None
        BY <2>3, <4>3
      <4> QED BY <4>2, <4>3, <4>4, DirIs DEF Room, IsDir
    <3>3. ASSUME u.ok
          PROVE  Copied(u.t, v, to, n)
      <4> SUFFICES ASSUME NEW r \in DOMAIN n
                   PROVE  to \o r \in Objects /\ u.t[v][to \o r] = n[r]
        BY DEF Copied
      <4>1. /\ o \o r \in Objects /\ bare[v][o \o r] = n[r] /\ r \in NamePath /\ n[r] # None
        BY <1>5, <2>5 DEF Copied
      <4>2. /\ DOMAIN Tree(bare, v, o) = {q \in NamePath : o \o q \in Objects /\ Exists(bare, v, o \o q)}
            /\ \A q \in DOMAIN Tree(bare, v, o) : Tree(bare, v, o)[q] = bare[v][o \o q]
        BY <1>3, <2>3, TreeIs
      <4>3. r \in DOMAIN Tree(bare, v, o) /\ Tree(bare, v, o)[r] = n[r]
        BY <4>1, <4>2 DEF Exists
      <4> QED BY <3>1, <3>2, <3>3, <4>3
    <3>4. Goal
      BY <1>8, <2>5, <3>1, <3>3
    <3> QED BY <3>4 DEF o, g, n, to
  <2> QED BY <1>6, <1>8, <2>6, <2>7 DEF o, g, n, to, bare
<1>9. Goal
  <2> HIDE DEF Goal, bare
  <2> QED BY <1>4, <1>6, <1>7, <1>8 DEF Goal
<1> QED BY <1>9

\* The web interface copies to names that are free.
LEMMA WebCopyIs ==
    ASSUME NEW t \in Disks, AllRooted(t), NEW v \in Volumes, NEW w \in Volumes, NEW o \in Objects,
           NEW to \in NamePath, NEW u \in copy_file(t, v, o, w, to)
    PROVE  /\ Sound(u) /\ ~ u.lost
           /\ u.ok => to \in Objects /\ Copied(u.t, w, to, Tree(t, v, o))
           /\ ~ u.ok => Copied(u.t, v, o, Tree(t, v, o))
<1> DEFINE n == Tree(t, v, o)
<1>1. Copied(t, v, o, n)
  BY ObjectIs, TreeHolds
<1>2. \/ u \in Fails(t)
      \/ ~ (to \in Objects /\ Exists(t, w, to)) /\ u \in fs_shared_copy_file_locked(t, v, o, w, to)
  BY DEF copy_file
<1> HIDE DEF n
<1>3. CASE u \in Fails(t)
  <2>1. Sound(u) /\ u.t = t /\ u.ok = FALSE /\ u.lost = FALSE
    BY <1>3, FailsIs
  <2> QED BY <1>1, <2>1 DEF n
<1>4. CASE ~ (to \in Objects /\ Exists(t, w, to)) /\ u \in fs_shared_copy_file_locked(t, v, o, w, to)
  <2>1. /\ Sound(u) /\ Elsewhere(t, u.t, w) /\ ~ u.lost
        /\ u.ok => to \in Objects /\ Copied(u.t, w, to, n)
        /\ (v = w /\ to = o) \/ Copied(u.t, v, o, n)
    BY <1>4, CopyFileIs DEF n
  <2>2. CASE v = w /\ to = o
    <3>1. ~ IsFile(t, v, o)
      BY <1>4, <2>2, DirIs DEF Exists, IsFile
    <3>2. u \in Fails(t)
      BY <1>4, <3>1 DEF fs_shared_copy_file_locked
    <3> QED BY <1>3, <3>2
  <2> QED BY <2>1, <2>2 DEF n
<1> QED BY <1>2, <1>3, <1>4

\* Uploads: the text is whole at its place.
Uploaded(u, v, o, data) == Sound(u) /\ ~ u.lost /\ (u.ok => u.t[v][o] = File(data))

\* Text, put and the uploads, by the outcomes of WriteFile.
LEMMA UploadIs ==
    ASSUME NEW t \in Disks, AllRooted(t), NEW v \in Volumes, NEW o, NEW data \in Seq(Nat)
    PROVE  /\ \A u \in WriteFile(t, v, o, <<>>, data, TRUE) : Wrote(t, u, v, o, data) /\ ~ u.lost
           /\ \A yes \in BOOLEAN : \A u \in transfer(t, v, o, data, yes) :
                  Uploaded(u, v, o, data)
           /\ \A u \in handle_put_file(t, v, o, data) : Wrote(t, u, v, o, data)
<1>1. <<>> \in Seq(Nat) /\ TRUE \in BOOLEAN /\ FALSE \in BOOLEAN /\ <<>> \o data = data
  BY ConcatEmptySeq
<1>2. ASSUME NEW u \in WriteFile(t, v, o, <<>>, data, TRUE)
      PROVE  Wrote(t, u, v, o, data) /\ ~ u.lost
  <2>1. Wrote(t, u, v, o, <<>> \o data) /\ ~ u.lost
    BY <1>1, WriteFileIs, Zenon
  <2> QED BY <1>1, <2>1
<1>3. ASSUME NEW u \in handle_put_file(t, v, o, data)
      PROVE  Wrote(t, u, v, o, data)
  <2>1. u \in WriteFile(t, v, o, <<>>, data, FALSE)
    BY DEF handle_put_file
  <2>2. Wrote(t, u, v, o, <<>> \o data)
    BY <1>1, <2>1, WriteFileIs, Zenon
  <2> QED BY <1>1, <2>2
<1>4. ASSUME NEW yes \in BOOLEAN, NEW u \in transfer(t, v, o, data, yes)
      PROVE  Uploaded(u, v, o, data)
  <2>1. CASE u \in Fails(t)
    <3>1. Sound(u) /\ u.t = t /\ u.ok = FALSE /\ u.lost = FALSE
      BY <2>1, FailsIs
    <3> QED BY <3>1 DEF Uploaded
  <2>2. CASE u \in WriteFile(t, v, o, <<>>, data, TRUE)
    BY <1>2, <2>2 DEF Wrote, Uploaded
  <2> QED BY <2>1, <2>2 DEF transfer
<1> QED BY <1>2, <1>3, <1>4

\* The directories above an archive's place.
LEMMA ParentsIs ==
    ASSUME NEW t \in Disks, AllRooted(t), NEW v \in Volumes, NEW o \in NamePath,
           \A y \in Objects : y # o /\ IsPrefix(y, o) => ~ IsFile(t, v, y)
    PROVE  mkdir_p(t, v, o) \in Disks /\ AllRooted(mkdir_p(t, v, o))
<1> DEFINE D == {y \in Objects : y # <<>> /\ IsPrefix(y, o) /\ ~ Exists(t, v, y)}
           m == [x \in D |-> Dir]
           b == With(t, v, m)
<1>1. mkdir_p(t, v, o) = b
  BY DEF mkdir_p
<1>2. DOMAIN m = D /\ \A x \in D : m[x] = Dir
  OBVIOUS
<1>3. \A x : x \in D <=> x \in Objects /\ x # <<>> /\ IsPrefix(x, o) /\ ~ Exists(t, v, x)
  OBVIOUS
<1> HIDE DEF D, m
<1>4. /\ b \in Disks /\ Elsewhere(t, b, v)
      /\ \A x \in Objects : b[v][x] = IF x \in D THEN Dir ELSE t[v][x]
  <2>1. \A x \in Objects : x \in DOMAIN m => m[x] \in Node
    BY <1>2, DirIs
  <2>2. /\ b \in Disks /\ Elsewhere(t, b, v)
        /\ \A x \in Objects : b[v][x] = IF x \in DOMAIN m THEN m[x] ELSE t[v][x]
    BY <2>1, WithIs
  <2> QED BY <1>2, <2>2
<1> HIDE DEF b
<1>5. Rooted(t, v)
  BY DEF AllRooted
<1>6. b[v][<<>>] = Dir
  BY <1>3, <1>4, <1>5, ObjectIs DEF Rooted
<1>7. ASSUME NEW x \in Objects \ {<<>>}, Exists(b, v, x)
      PROVE  IsDir(b, v, Front(x))
  <2>1. /\ Front(x) \in Objects /\ Front(x) \in NamePath /\ x \in NamePath
        /\ IsPrefix(Front(x), x) /\ Front(x) # x
    BY ObjectFront, PathFront, ObjectIs
  <2>2. CASE x \in D
    <3>1. IsPrefix(Front(x), o) /\ Front(x) # o
      BY <1>3, <2>1, <2>2, PathOrder
    <3>2. ~ IsFile(t, v, Front(x))
      BY <2>1, <3>1
    <3>3. CASE Exists(t, v, Front(x))
      <4>1. t[v][Front(x)] = Dir
        BY <2>1, <3>2, <3>3, NodeAt, NodeIs DEF Exists, IsFile
      <4> QED BY <1>4, <2>1, <4>1, DirIs DEF IsDir
    <3>4. CASE ~ Exists(t, v, Front(x))
      <4>1. Front(x) # <<>>
        BY <1>5, <3>4, DirIs DEF Rooted, Exists
      <4>2. Front(x) \in D
        BY <1>3, <2>1, <3>1, <3>4, <4>1
      <4> QED BY <1>4, <2>1, <4>2, DirIs DEF IsDir
    <3> QED BY <3>3, <3>4
  <2>3. CASE x \notin D
    <3>1. Exists(t, v, x)
      BY <1>4, <1>7, <2>3 DEF Exists
    <3>2. t[v][Front(x)] = Dir
      BY <1>5, <3>1, ParentIsDir
    <3> QED BY <1>4, <2>1, <3>2, DirIs DEF IsDir
  <2> QED BY <2>2, <2>3
<1>8. Rooted(b, v)
  BY <1>6, <1>7 DEF Rooted
<1> QED BY <1>1, <1>4, <1>8, RootedRest

\* An archive that is unpacked, and whose files were all flushed, is whole.
Unpacked(u, v, o, nodes) == \A r \in Files(nodes) : o \o r \in Objects /\ u.t[v][o \o r] = nodes[r]

\* Whatever the archive finds in its place, the volumes stay trees.
LEMMA TarIs ==
    ASSUME NEW t \in Disks, AllRooted(t), NEW v \in Volumes, NEW o \in NamePath,
           NEW nodes, IsTree(nodes), NEW u \in tar_extract_into_dir_fatfs(t, v, o, nodes)
    PROVE  /\ Sound(u)
           /\ u.ok /\ ~ u.lost => Unpacked(u, v, o, nodes)
<1> DEFINE based == mkdir_p(t, v, o)
           made == {r \in DOMAIN nodes : o \o r \in Objects /\ nodes[r] = Dir /\ IsFile(based, v, o \o r)}
           T == DOMAIN nodes \ made
           todo == [r \in T |-> nodes[r]]
           outs == CopyTree(based, v, o, todo)
           S(x, r, n) == [Out(With(x.t, v, Leaf(o \o r, File(SubSeq(todo[r].data, 1, n)))), TRUE) EXCEPT !.lost = TRUE]
           F == {q \in DOMAIN todo : todo[q].kind = "file"}
           spoilt(x) == UNION {{S(x, r, n) : n \in 0 .. Len(todo[r].data) - 1} : r \in F}
           blocked == \E y \in Objects : y # o /\ IsPrefix(y, o) /\ IsFile(t, v, y)
<1>1. u \in IF blocked THEN Fails(t)
            ELSE Fails(t) \cup outs \cup (UNION {spoilt(x) : x \in {y \in outs : y.ok}})
  BY DEF tar_extract_into_dir_fatfs
<1>2. DOMAIN todo = T /\ \A r \in T : todo[r] = nodes[r]
  OBVIOUS
<1>3. /\ \A r \in T : r \in DOMAIN nodes
      /\ \A r \in Files(nodes) : r \in T
  BY DirIs DEF Files
<1>4. \A r : r \in F <=> r \in T /\ todo[r].kind = "file"
  OBVIOUS
<1>5. IsTree(todo)
  <2>1. nodes \in TreeNodes /\ \A r \in DOMAIN nodes : r \in NamePath /\ nodes[r] \in Node /\ nodes[r] # None
    BY TreeNodeIs DEF IsTree
  <2>2. todo \in [T -> Node \ {None}]
    <3>1. \A r \in T : nodes[r] \in Node \ {None}
      BY <1>3, <2>1
    <3> HIDE DEF T
    <3> QED BY <3>1
  <2>3. T \in SUBSET NamePath
    BY <1>3, <2>1
  <2> HIDE DEF T, todo
  <2>4. todo \in TreeNodes
    BY <2>2, <2>3 DEF TreeNodes
  <2> QED BY <1>2, <1>3, <2>4 DEF IsTree
<1> HIDE DEF based, T, todo, F, S
<1>6. CASE u \in Fails(t)
  <2>1. Sound(u) /\ u.t = t /\ u.ok = FALSE /\ u.lost = FALSE
    BY <1>6, FailsIs
  <2> QED BY <2>1
<1>7. CASE ~ blocked /\ u \in outs \cup (UNION {spoilt(x) : x \in {y \in outs : y.ok}})
  <2>1. based \in Disks /\ AllRooted(based)
    BY <1>7, ParentsIs DEF based
  <2>2. ASSUME NEW x \in outs
        PROVE  /\ Sound(x) /\ ~ x.lost
               /\ x.ok => \A r \in T : o \o r \in Objects /\ x.t[v][o \o r] = nodes[r]
               /\ x.ok => Room(based, v, o)
    <3>1. /\ Sound(x) /\ Elsewhere(based, x.t, v) /\ ~ x.lost
          /\ x.ok => \A r \in DOMAIN todo : o \o r \in Objects /\ x.t[v][o \o r] = todo[r]
          /\ x.ok \/ x.t # based => Room(based, v, o)
      BY <1>5, <2>1, <2>2, CopyTreeIs
    <3> QED BY <1>2, <3>1
  <2>3. CASE u \in outs
    <3>1. /\ Sound(u) /\ ~ u.lost
          /\ u.ok => \A r \in T : o \o r \in Objects /\ u.t[v][o \o r] = nodes[r]
      BY <2>2, <2>3
    <3> QED BY <1>3, <3>1 DEF Unpacked
  <2>4. CASE u \in UNION {spoilt(x) : x \in {y \in outs : y.ok}}
    <3>1. PICK x \in outs : x.ok /\ u \in spoilt(x)
      BY <2>4
    <3>2. PICK r \in F : \E n \in 0 .. Len(todo[r].data) - 1 : u = S(x, r, n)
      BY <3>1
    <3>3. PICK n \in 0 .. Len(todo[r].data) - 1 : u = S(x, r, n)
      BY <3>2
    <3> DEFINE w == x.t
               p == o \o r
               d == SubSeq(todo[r].data, 1, n)
               z == With(w, v, Leaf(p, File(d)))
    <3>4. w \in Disks /\ AllRooted(w) /\ p \in Objects /\ w[v][p] = todo[r]
      BY <1>2, <1>4, <2>2, <3>1, <3>2 DEF Sound, Outs
    <3>5. todo[r].kind = "file" /\ r \in NamePath /\ todo[r] \in Node
      BY <1>2, <1>4, <1>5, <3>2, TreeNodeIs DEF IsTree
    <3>6. d \in Seq(Nat)
      <4>1. todo[r].data \in Seq(Nat)
        BY <3>5, NodeIs
      <4>2. /\ Len(todo[r].data) \in Nat
            /\ \A i \in 1 .. Len(todo[r].data) : todo[r].data[i] \in Nat
        BY <4>1, LenProperties, ElementOfSeq
      <4>3. 1 \in Int /\ n \in Int /\ \A i \in 1 .. n : todo[r].data[i] \in Nat
        BY <4>2
      <4> QED BY <4>3, SubSeqProperties
    <3>7. Room(w, v, p) /\ ~ IsDir(w, v, p)
      <4>1. todo[r] # Dir /\ todo[r] # None /\ ~ IsDir(w, v, p)
        BY <3>4, <3>5, DirIs DEF IsDir
      <4>2. Rooted(w, v)
        BY <3>4 DEF AllRooted
      <4>3. p # <<>>
        BY <3>4, <4>1, <4>2 DEF Rooted
      <4>4. IsDir(w, v, Front(p))
        BY <3>4, <4>1, <4>2, <4>3 DEF Rooted, Exists
      <4> QED BY <3>4, <4>1, <4>3, <4>4 DEF Room
    <3>8. u = [Out(z, TRUE) EXCEPT !.lost = TRUE]
      BY <3>3 DEF S
    <3> HIDE DEF w, p, d
    <3>9. z \in Disks /\ AllRooted(z)
      BY <3>4, <3>6, <3>7, FileAt
    <3> HIDE DEF z
    <3>10. u \in Outs /\ u.t = z /\ u.lost = TRUE
      BY <3>8, <3>9 DEF Out, Outs
    <3> QED BY <3>9, <3>10 DEF Sound
  <2> HIDE DEF outs, spoilt
  <2>5. u \in outs \/ u \in UNION {spoilt(x) : x \in {y \in outs : y.ok}}
    BY <1>7
  <2> QED BY <2>3, <2>4, <2>5
<1>8. u \in Fails(t) \/ (~ blocked /\ u \in outs \cup (UNION {spoilt(x) : x \in {y \in outs : y.ok}}))
  <2> HIDE DEF outs, spoilt, blocked
  <2> QED BY <1>1
<1> QED BY <1>6, <1>7, <1>8

----------------------------------------------------------------------------
(* The commands, and what is settled of them at each of their steps.        *)

Spellings == {e \in Spelled : \E a \in Sources \cup Targets : \E i \in DOMAIN a.p : e = a.p[i]}
Places == [vol : Volumes, p : Seq(Spellings)]
\* A command in work: its parts, and what its steps have settled.
Ops == ConsoleOps \cup WebOps
HoldsIn(d, v, o, k, r) == o \o r \in Objects /\ d[v][o \o r] = k.before[r]
\* The files of the source, one by one, at the source or at the target.
KeptIn(d, k) ==
    \A r \in Files(k.before) :
        \/ HoldsIn(d, k.src.vol, Key(k.src.p), k, r)
        \/ \E s \in Spots(k) : HoldsIn(d, k.dst.vol, s, k, r)
WholeIn(d, k) == \E s \in Landing(k) : \A r \in Files(k.before) : HoldsIn(d, k.dst.vol, s, k, r)
UnpackedIn(d, k) == \A r \in Files(k.before) : HoldsIn(d, k.dst.vol, Key(k.dst.p), k, r)
StoredIn(d, k) ==
    LET now == d[k.dst.vol][Key(k.dst.p)]
    IN  /\ k.op \in TwoPlaces => WholeIn(d, k)
        /\ k.op = "tar put" => UnpackedIn(d, k)
        /\ k.op \in {"rm", "rm -r"} => Tree(d, k.dst.vol, Key(k.dst.p)) = <<>>
        /\ k.op = "mkdir" => now = Dir \/ OverFile(k)
        /\ k.op = "webmkdir" => now = Dir
        /\ k.op = "touch" => now = File(<<>>)
        /\ k.op = "append" => now = File(IF k.before = <<>> THEN k.data ELSE k.before[<<>>].data \o k.data)
        /\ k.op \in {"write", "put", "webput", "webnew"} => now = File(k.data)

CmdShape(k) ==
    /\ k.src.p # <<>> /\ Key(k.src.p) \in Objects
    /\ k.op \notin TwoPlaces => k.dst = k.src
    /\ k.op = "webrename" => k.dst.vol = k.src.vol
    /\ k.final = k.dst.p \/ k.final = Append(k.dst.p, Last(k.src.p))
    /\ k.st \in {"source", "target"} => k.final = k.dst.p
    /\ k.st = "source" => k.op = "mv"
    /\ k.st = "target" => k.op \in Looking
    /\ k.goals \subseteq {Key(k.dst.p), Based(k.src, k.dst)}
    /\ k.final # k.dst.p => Based(k.src, k.dst) \in k.goals
    /\ k.op \in {"cp", "cp -r"} => k.dir = (k.op = "cp -r")
    /\ k.st = "remove" => Crosses(k) /\ k.ok /\ ~ k.lost
\* Before its locked call: the source is as it was when the command came.
Waits(d, k) ==
    k.st \in {"source", "target", "act"} /\ ~ k.touched /\ k.op # "tar put"
    => Tree(d, k.src.vol, Key(k.src.p)) = k.before
\* Where it should put things by what the target is now is among its goals.
Sees(d, k) ==
    k.st \in {"source", "target", "act"}
    => /\ Destination(d, k.op, k.src, k.dst) \in k.goals
       /\ Twice(d, k.op, k.src, k.dst) => k.twice
\* After it: what is answered is so.
Answers(d, k) ==
    k.st \in {"remove", "done"} /\ k.ok /\ ~ k.touched /\ ~ (k.op \in Unsynced /\ k.lost) /\ ~ BelowItself(k)
    => StoredIn(d, k)
Keeps(d, k) ==
    k.st = "done" /\ k.op \in TwoPlaces /\ ~ k.touched /\ ~ OnItself(k) /\ ~ BelowItself(k)
    => KeptIn(d, k)

Cmds ==
    [st : {"source", "target", "act", "remove", "done"}, op : Ops, src : Places, dst : Places,
     data : Seq(Nat), dir : BOOLEAN, final : Seq(Spellings), before : {n \in TreeNodes : IsTree(n)},
     touched : BOOLEAN, ok : BOOLEAN, lost : BOOLEAN, goals : SUBSET NamePath, twice : BOOLEAN]
CmdGood(d, k) == k \in Cmds /\ CmdShape(k) /\ Waits(d, k) /\ Sees(d, k) /\ Answers(d, k) /\ Keeps(d, k)
InHand(d, m) ==
    /\ m \in [Clients -> {Idle} \cup Cmds]
    /\ \A c \in Clients : m[c] # Idle => CmdGood(d, m[c])
\* The inductive invariant of the commands.
FileInv ==
    /\ disk \in Disks /\ AllRooted(disk)
    /\ IsTree(arch) /\ version \in Nat
    /\ InHand(disk, cmd)

\* The spellings in use are plain under the assumption.
LEMMA SpellingsPlain ==
    ASSUME OneSpelling
    PROVE  Plain(Spellings)
<1>1. Spellings \subseteq Spelled
  BY DEF Spellings
<1>2. ASSUME NEW e \in Spellings, NEW f \in Spellings, e[1] = f[1]
      PROVE  e = f
  <2>1. PICK a \in Sources \cup Targets : \E i \in DOMAIN a.p : e = a.p[i]
    BY DEF Spellings
  <2>2. PICK i \in DOMAIN a.p : e = a.p[i]
    BY <2>1
  <2>3. PICK b \in Sources \cup Targets : \E j \in DOMAIN b.p : f = b.p[j]
    BY DEF Spellings
  <2>4. PICK j \in DOMAIN b.p : f = b.p[j]
    BY <2>3
  <2> QED BY <1>2, <2>2, <2>4 DEF OneSpelling
<1> QED BY <1>1, <1>2 DEF Plain

\* What the commands name is a place.
LEMMA PlacesIs ==
    /\ \A s \in Sources \cup Targets : s \in Places
    /\ \A s \in Sources : s.p # <<>> /\ Key(s.p) \in Objects
<1>1. ASSUME NEW s \in Sources \cup Targets
      PROVE  s \in Places /\ s.p \in SpelledPath
  <2>1. s \in [vol : Volumes, p : Seq(Spelled)]
    BY FileOpsPlaces DEF Spelled
  <2>2. s.vol \in Volumes /\ s.p \in Seq(Spelled) /\ s = [vol |-> s.vol, p |-> s.p]
    BY <2>1
  <2>3. Len(s.p) \in Nat /\ s.p \in [1 .. Len(s.p) -> Spelled]
    BY <2>2, LenProperties
  <2>4. \A i \in 1 .. Len(s.p) : s.p[i] \in Spellings
    BY <2>3 DEF Spellings
  <2> DEFINE n == Len(s.p)
             q == s.p
  <2>5. n \in Nat /\ q \in [1 .. n -> Spellings]
    BY <2>3, <2>4
  <2> HIDE DEF n
  <2>6. q \in Seq(Spellings)
    BY <2>5
  <2> QED BY <2>2, <2>6 DEF Places, SpelledPath
<1>2. ASSUME NEW s \in Sources
      PROVE  s.p # <<>> /\ Key(s.p) \in Objects
  <2>1. Len(s.p) \in 1 .. MaxDepth /\ MaxDepth \in Nat
    BY FileOpsPlaces, ObjectIs
  <2>2. Key(s.p) \in NamePath /\ Len(Key(s.p)) = Len(s.p)
    BY <1>1, KeyIs
  <2>3. s.p # <<>>
    BY <2>1, EmptySeq
  <2> QED BY <2>1, <2>2, <2>3, ObjectIs
<1> QED BY <1>1, <1>2

\* The names of a command's places.
LEMMA KeysOf ==
    ASSUME NEW k \in Cmds, CmdShape(k)
    PROVE  /\ k.src.vol \in Volumes /\ k.dst.vol \in Volumes
           /\ Key(k.src.p) \in NamePath /\ Key(k.src.p) \in Objects /\ Key(k.src.p) # <<>>
           /\ Key(k.dst.p) \in NamePath /\ k.final \in Seq(Spellings)
           /\ k.src.p \in Seq(Spellings) /\ k.src.p # <<>>
           /\ k.op \notin TwoPlaces => Key(k.dst.p) = Key(k.src.p) /\ k.dst.vol = k.src.vol
           /\ IsTree(k.before) /\ \A r \in DOMAIN k.before : r \in NamePath
           /\ Files(k.before) \subseteq DOMAIN k.before
           /\ k.data \in Seq(Nat)
<1>1. /\ k.src \in Places /\ k.dst \in Places /\ k.final \in Seq(Spellings)
      /\ k.before \in TreeNodes /\ IsTree(k.before) /\ k.data \in Seq(Nat)
  BY DEF Cmds
<1>2. /\ k.src.vol \in Volumes /\ k.dst.vol \in Volumes
      /\ k.src.p \in Seq(Spellings) /\ k.dst.p \in Seq(Spellings)
  BY <1>1 DEF Places
<1>3. Spellings \subseteq Spelled
  BY DEF Spellings
<1>4. k.src.p \in SpelledPath /\ k.dst.p \in SpelledPath
  BY <1>2, <1>3, SeqMonotonic DEF SpelledPath
<1>5. /\ Key(k.src.p) \in NamePath /\ Len(Key(k.src.p)) = Len(k.src.p)
      /\ Key(k.dst.p) \in NamePath
  BY <1>4, KeyIs
<1>6. Key(k.src.p) # <<>>
  <2>1. Len(k.src.p) # 0
    BY <1>2, EmptySeq DEF CmdShape
  <2> QED BY <1>5, <2>1, PathEmpty
<1>7. \A r \in DOMAIN k.before : r \in NamePath
  BY <1>1, TreeNodeIs
<1>8. Files(k.before) \subseteq DOMAIN k.before
  BY DEF Files
<1> QED BY <1>1, <1>2, <1>5, <1>6, <1>7, <1>8 DEF CmdShape

\* Where cp and mv put a thing, among the spots.
LEMMA SpotIs ==
    ASSUME NEW k \in Cmds, CmdShape(k), NEW t, NEW v
    PROVE  LET g == fs_shared_prepare_file_target(t, v, k.src.p, k.final)
               base == Append(Key(k.dst.p), Last(Key(k.src.p)))
           IN  /\ Key(g) \in NamePath
               /\ Key(g) \in Objects => Key(g) \in Spots(k)
               /\ g # k.final => IsPrefix(base, Key(g)) /\ base \in NamePath
               /\ Key(k.dst.p) \in Objects => Key(k.dst.p) \in Spots(k)
               /\ base \in NamePath /\ (base \in Objects => base \in Spots(k))
               /\ Key(Append(k.dst.p, Last(k.src.p))) = base
<1> DEFINE s == k.src.p
           d == k.dst.p
           e == Last(s)
           b == <<e>>
           g == fs_shared_prepare_file_target(t, v, s, k.final)
           base == Append(Key(d), Last(Key(s)))
<1>1. Spellings \subseteq Spelled /\ s \in Seq(Spellings) /\ s # <<>> /\ d \in Seq(Spellings) /\ k.final \in Seq(Spellings)
  BY KeysOf DEF Spellings, Cmds, Places
<1>2. s \in SpelledPath /\ d \in SpelledPath /\ k.final \in SpelledPath /\ e \in Spelled
  BY <1>1, SeqMonotonic, LastSpelled DEF SpelledPath
<1>3. /\ Append(d, e) \in SpelledPath /\ Key(Append(d, e)) = Append(Key(d), e[1]) /\ d \o b = Append(d, e)
      /\ b \in SpelledPath /\ e[1] \in Names
  BY <1>2, KeyAppend
<1>4. /\ Append(Append(d, e), e) \in SpelledPath /\ Key(Append(Append(d, e), e)) = Append(Append(Key(d), e[1]), e[1])
      /\ Append(d, e) \o b = Append(Append(d, e), e)
  <2> DEFINE q == Append(d, e)
  <2> HIDE DEF q
  <2>1. /\ Append(q, e) \in SpelledPath /\ Key(Append(q, e)) = Append(Key(q), e[1]) /\ q \o b = Append(q, e)
    BY <1>2, <1>3, KeyAppend DEF q
  <2> QED BY <1>3, <2>1 DEF q
<1>5. d \o b \o b = Append(Append(d, e), e)
  <2>1. d \o b \o b = (d \o b) \o b
    OBVIOUS
  <2> QED BY <1>3, <1>4, <2>1
<1>6. Last(Key(s)) = e[1]
  <2>1. Len(s) \in Nat /\ Len(s) # 0 /\ Len(Key(s)) = Len(s) /\ \A i \in 1 .. Len(s) : Key(s)[i] = s[i][1]
    BY <1>1, <1>2, KeyIs, EmptySeq
  <2>2. Len(s) \in 1 .. Len(s)
    BY <2>1
  <2> QED BY <2>1, <2>2 DEF Last
<1>7. base = Key(Append(d, e)) /\ base \in NamePath /\ Key(d) \in NamePath
  BY <1>2, <1>3, <1>6, KeyIs
<1>8. Spots(k) = {Key(d), Key(d \o b), Key(d \o b \o b)} \cap Objects
  BY DEF Spots
<1>9. k.final = d \/ k.final = Append(d, e)
  BY DEF CmdShape
<1>10. g = k.final \/ g = Append(k.final, e)
  BY DEF fs_shared_prepare_file_target, fs_shared_join_path
<1> HIDE DEF s, d, e, b, g, base
<1>11. g \in {d, Append(d, e), Append(Append(d, e), e)}
  BY <1>9, <1>10
<1>12. Key(g) \in NamePath /\ (Key(g) \in Objects => Key(g) \in Spots(k))
  <2>1. g \in SpelledPath
    BY <1>2, <1>3, <1>4, <1>11
  <2> QED BY <1>3, <1>5, <1>8, <1>11, <2>1, KeyIs
<1>13. g # k.final => IsPrefix(base, Key(g))
  <2>1. g # k.final => g = Append(d, e) \/ g = Append(Append(d, e), e)
    BY <1>9, <1>10
  <2>2. IsPrefix(base, base)
    BY <1>7, PathOrder
  <2>3. Key(Append(Append(d, e), e)) = base \o <<e[1]>> /\ <<e[1]>> \in NamePath
    <3>1. <<e[1]>> \in NamePath
      BY <1>3 DEF NamePath
    <3>2. base = Append(Key(d), e[1])
      BY <1>3, <1>7
    <3> QED BY <1>3, <1>4, <1>7, <3>1, <3>2, AppendIsConcat DEF NamePath
  <2>4. IsPrefix(base, Key(Append(Append(d, e), e)))
    BY <1>7, <2>3, PathBelow
  <2> QED BY <1>7, <2>1, <2>2, <2>4
<1>14. /\ Key(d) \in Objects => Key(d) \in Spots(k)
       /\ base \in Objects => base \in Spots(k)
  BY <1>3, <1>7, <1>8
<1> QED BY <1>7, <1>12, <1>13, <1>14 DEF s, d, e, g, base

\* What the goals may be.
LEMMA GoalIs ==
    ASSUME NEW src \in Places, NEW dst \in Places, src.p # <<>>, NEW t, NEW op
    PROVE  /\ Key(dst.p) \in NamePath /\ Based(src, dst) \in NamePath
           /\ Destination(t, op, src, dst) \in {Key(dst.p), Based(src, dst)}
<1>1. Spellings \subseteq Spelled
  BY DEF Spellings
<1>2. src.p \in SpelledPath /\ dst.p \in SpelledPath
  BY <1>1, SeqMonotonic DEF Places, SpelledPath
<1>3. Key(src.p) \in NamePath /\ Key(src.p) # <<>> /\ Key(dst.p) \in NamePath
  <2>1. Key(src.p) \in NamePath /\ Len(Key(src.p)) = Len(src.p) /\ Key(dst.p) \in NamePath
    BY <1>2, KeyIs
  <2>2. Len(src.p) # 0
    BY <1>2, EmptySeq DEF SpelledPath
  <2> QED BY <2>1, <2>2, PathEmpty
<1>4. Based(src, dst) \in NamePath
  <2>1. Last(Key(src.p)) \in Names
    BY <1>3, LastSpelled DEF NamePath
  <2> QED BY <1>3, <2>1, AppendProperties DEF Based, NamePath
<1> QED BY <1>3, <1>4 DEF Destination

\* A place where a copy may land, with something in it, is a spot.
LEMMA LandingIs ==
    ASSUME NEW k \in Cmds, CmdShape(k), NEW s \in Landing(k)
    PROVE  /\ s \in NamePath
           /\ \A r \in NamePath : s \o r \in Objects => s \in Spots(k)
<1> DEFINE base == Append(Key(k.dst.p), Last(Key(k.src.p)))
<1>1. CASE k.twice
  BY <1>1, ObjectIs DEF Landing, Spots
<1>2. CASE ~ k.twice
  <2>1. /\ Key(k.dst.p) \in NamePath /\ base \in NamePath
        /\ Key(k.dst.p) \in Objects => Key(k.dst.p) \in Spots(k)
        /\ base \in Objects => base \in Spots(k)
    BY KeysOf, SpotIs
  <2>2. s = Key(k.dst.p) \/ s = base
    BY <1>2 DEF Landing, CmdShape, Based
  <2> HIDE DEF base
  <2>3. s \in NamePath /\ (s \in Objects => s \in Spots(k))
    BY <2>1, <2>2
  <2>4. ASSUME NEW r \in NamePath, s \o r \in Objects
        PROVE  s \in Objects
    <3>1. /\ Len(s) \in Nat /\ Len(r) \in Nat /\ Len(s \o r) = Len(s) + Len(r)
          /\ Len(s \o r) <= MaxDepth /\ MaxDepth \in Nat
      BY <2>3, <2>4, PathJoin, ObjectIs
    <3>2. Len(s) <= MaxDepth
      BY <3>1
    <3> QED BY <2>3, <3>2, ObjectIs
  <2> QED BY <2>3, <2>4
<1> QED BY <1>1, <1>2

\* What a copy at a place is to the command.
LEMMA CopiedIs ==
    ASSUME NEW d, NEW k \in Cmds, CmdShape(k)
    PROVE  /\ Copied(d, k.src.vol, Key(k.src.p), k.before) => KeptIn(d, k)
           /\ \A s \in Landing(k) : Copied(d, k.dst.vol, s, k.before) => WholeIn(d, k) /\ KeptIn(d, k)
           /\ WholeIn(d, k) => KeptIn(d, k)
<1>1. Files(k.before) \subseteq DOMAIN k.before
  BY KeysOf
<1>2. Copied(d, k.src.vol, Key(k.src.p), k.before) => KeptIn(d, k)
  BY <1>1 DEF Copied, KeptIn, HoldsIn
<1>3. ASSUME WholeIn(d, k)
      PROVE  KeptIn(d, k)
  <2>1. PICK s \in Landing(k) : \A r \in Files(k.before) : HoldsIn(d, k.dst.vol, s, k, r)
    BY <1>3 DEF WholeIn
  <2>2. \A r \in Files(k.before) : s \in Spots(k)
    BY <2>1, KeysOf, LandingIs DEF HoldsIn
  <2> QED BY <2>1, <2>2 DEF KeptIn
<1>4. \A s \in Landing(k) : Copied(d, k.dst.vol, s, k.before) => WholeIn(d, k)
  BY <1>1 DEF Copied, WholeIn, HoldsIn
<1> QED BY <1>2, <1>3, <1>4

\* What the properties say of the disk.
LEMMA PropertiesAre ==
    ASSUME NEW k, k.op \in Ops, ~ OverFile(k)
    PROVE  StoredIn(disk, k) => Stored(k)
<1> SUFFICES ASSUME StoredIn(disk, k)
             PROVE  Stored(k)
  OBVIOUS
<1> DEFINE now == disk[k.dst.vol][Key(k.dst.p)]
<1>1. CASE k.op \in TwoPlaces
  <2>1. \E s \in Landing(k) : HoldsAll(k, s)
    BY <1>1 DEF StoredIn, WholeIn, HoldsIn, Holds, HoldsAll
  <2> QED BY <1>1, <2>1 DEF Stored, TwoPlaces
<1>2. CASE k.op = "tar put"
  <2>1. HoldsAll(k, Key(k.dst.p))
    BY <1>2 DEF StoredIn, UnpackedIn, HoldsIn, Holds, HoldsAll
  <2> QED BY <1>2, <2>1 DEF Stored, TwoPlaces
<1>3. CASE k.op \in {"rm", "rm -r"}
  <2>1. Found(k.dst) = <<>>
    BY <1>3 DEF StoredIn, Found
  <2> QED BY <1>3, <2>1 DEF Stored, TwoPlaces
<1>4. CASE k.op = "mkdir"
  BY <1>4 DEF Stored, StoredIn, TwoPlaces
<1>5. CASE k.op = "webmkdir"
  BY <1>5 DEF Stored, StoredIn, TwoPlaces
<1>6. CASE k.op = "touch"
  BY <1>6 DEF Stored, StoredIn, TwoPlaces
<1>7. CASE k.op = "append"
  BY <1>7 DEF Stored, StoredIn, TwoPlaces
<1>8. CASE k.op \in {"write", "put", "webput", "webnew"}
  BY <1>8 DEF Stored, StoredIn, TwoPlaces
<1> QED BY <1>1, <1>2, <1>3, <1>4, <1>5, <1>6, <1>7, <1>8 DEF Ops, ConsoleOps, WebOps, TwoPlaces

\* The tree below an object depends on what lies there.
LEMMA TreeSame ==
    ASSUME NEW t, NEW u, NEW v, NEW o \in NamePath, \A x \in Below(o) : t[v][x] = u[v][x]
    PROVE  Tree(t, v, o) = Tree(u, v, o)
<1> DEFINE F(d) == {x \in Below(o) : Exists(d, v, x)}
           D(d) == {Rest(o, x) : x \in F(d)}
<1>1. F(t) = F(u)
  BY DEF Exists
<1>2. D(t) = D(u)
  BY <1>1
<1>3. \A r \in D(t) : t[v][o \o r] = u[v][o \o r]
  <2>1. ASSUME NEW x \in F(t)
        PROVE  t[v][o \o Rest(o, x)] = u[v][o \o Rest(o, x)]
    <3>1. x \in NamePath /\ IsPrefix(o, x) /\ x \in Below(o)
      BY ObjectIs DEF Below
    <3>2. x = o \o Rest(o, x)
      BY <3>1, PathBelow
    <3> QED BY <3>1, <3>2
  <2> QED BY <2>1
<1> HIDE DEF D
<1>4. [r \in D(t) |-> t[v][o \o r]] = [r \in D(u) |-> u[v][o \o r]]
  BY <1>2, <1>3
<1> QED BY <1>4 DEF Tree, D

\* What is written of two commands that differ in their progress only.
Alike(j, k) ==
    /\ j.op = k.op /\ j.src = k.src /\ j.dst = k.dst /\ j.data = k.data /\ j.before = k.before

\* What the properties say of two such commands is the same.
LEMMA AlikeIs ==
    ASSUME NEW d, NEW j, NEW k, Alike(j, k)
    PROVE  /\ j.goals = k.goals /\ j.twice = k.twice => (StoredIn(d, j) <=> StoredIn(d, k))
           /\ KeptIn(d, j) <=> KeptIn(d, k)
           /\ OnItself(j) <=> OnItself(k)
           /\ BelowItself(j) <=> BelowItself(k)
           /\ Crosses(j) <=> Crosses(k)
<1>1. Spots(j) = Spots(k)
  BY DEF Alike, Spots
<1>2. \A v, o, r : HoldsIn(d, v, o, j, r) <=> HoldsIn(d, v, o, k, r)
  BY DEF Alike, HoldsIn
<1>3. ASSUME j.goals = k.goals, j.twice = k.twice
      PROVE  WholeIn(d, j) <=> WholeIn(d, k)
  <2>1. Landing(j) = Landing(k)
    BY <1>1, <1>3 DEF Landing
  <2> QED BY <1>2, <2>1 DEF Alike, WholeIn
<1>4. UnpackedIn(d, j) <=> UnpackedIn(d, k)
  BY <1>2 DEF Alike, UnpackedIn
<1>5. j.goals = k.goals /\ j.twice = k.twice => (StoredIn(d, j) <=> StoredIn(d, k))
  BY <1>3, <1>4 DEF Alike, StoredIn, OverFile
<1>6. KeptIn(d, j) <=> KeptIn(d, k)
  BY <1>1, <1>2 DEF Alike, KeptIn
<1>7. OnItself(j) <=> OnItself(k)
  BY <1>1 DEF Alike, OnItself
<1>8. (BelowItself(j) <=> BelowItself(k)) /\ (Crosses(j) <=> Crosses(k))
  BY DEF Alike, BelowItself, Crosses
<1> QED BY <1>5, <1>6, <1>7, <1>8

\* What is stored, or kept, where nothing changed.
LEMMA StoredStays ==
    ASSUME NEW k \in Cmds, CmdShape(k), NEW d, NEW t, StoredIn(d, k),
           k.op \in TwoPlaces =>
               \A s \in Spots(k) : \A x \in Below(s) : t[k.dst.vol][x] = d[k.dst.vol][x],
           k.op \notin TwoPlaces =>
               \A x \in Below(Key(k.src.p)) : t[k.src.vol][x] = d[k.src.vol][x]
    PROVE  StoredIn(t, k)
<1>1. \A r \in Files(k.before) : r \in NamePath
  BY KeysOf
<1>2. CASE k.op \in TwoPlaces
  <2>1. ASSUME NEW s \in Landing(k), NEW r \in Files(k.before), HoldsIn(d, k.dst.vol, s, k, r)
        PROVE  HoldsIn(t, k.dst.vol, s, k, r)
    <3>1. s \in NamePath /\ s \o r \in Objects /\ s \in Spots(k)
      BY <1>1, <2>1, LandingIs DEF HoldsIn
    <3>2. s \o r \in Below(s)
      BY <1>1, <3>1, PathBelow DEF Below
    <3> QED BY <1>2, <2>1, <3>1, <3>2 DEF HoldsIn
  <2>2. WholeIn(d, k)
    BY <1>2 DEF StoredIn
  <2>3. WholeIn(t, k)
    BY <2>1, <2>2 DEF WholeIn
  <2> QED BY <1>2, <2>3 DEF StoredIn, TwoPlaces
<1>3. CASE k.op \notin TwoPlaces
  <2> DEFINE o == Key(k.dst.p)
             v == k.dst.vol
  <2>1. o = Key(k.src.p) /\ v = k.src.vol /\ o \in NamePath /\ o \in Objects
    BY <1>3, KeysOf
  <2>2. \A x \in Below(o) : t[v][x] = d[v][x]
    BY <1>3, <2>1
  <2>3. t[v][o] = d[v][o]
    BY <2>1, <2>2, PathOrder DEF Below
  <2>4. Tree(t, v, o) = Tree(d, v, o)
    BY <2>1, <2>2, TreeSame
  <2>5. UnpackedIn(d, k) => UnpackedIn(t, k)
    <3>1. ASSUME NEW r \in Files(k.before), HoldsIn(d, v, o, k, r)
          PROVE  HoldsIn(t, v, o, k, r)
      <4>1. o \o r \in Below(o)
        BY <1>1, <2>1, <3>1, PathBelow DEF Below, HoldsIn
      <4> QED BY <2>2, <3>1, <4>1 DEF HoldsIn
    <3> QED BY <3>1 DEF UnpackedIn
  <2> QED BY <1>3, <2>3, <2>4, <2>5 DEF StoredIn
<1> QED BY <1>2, <1>3

\* The files of a source stay kept where nothing changed.
LEMMA KeptStays ==
    ASSUME NEW k \in Cmds, CmdShape(k), NEW d, NEW t, KeptIn(d, k),
           \A s \in Spots(k) : \A x \in Below(s) : t[k.dst.vol][x] = d[k.dst.vol][x],
           \A x \in Below(Key(k.src.p)) : t[k.src.vol][x] = d[k.src.vol][x]
    PROVE  KeptIn(t, k)
<1>1. \A r \in Files(k.before) : r \in NamePath
  BY KeysOf
<1>2. ASSUME NEW r \in Files(k.before), NEW s \in NamePath, NEW v,
             \A x \in Below(s) : t[v][x] = d[v][x], HoldsIn(d, v, s, k, r)
      PROVE  HoldsIn(t, v, s, k, r)
  <2>1. s \o r \in Below(s)
    BY <1>1, <1>2, PathBelow DEF Below, HoldsIn
  <2> QED BY <1>2, <2>1 DEF HoldsIn
<1>3. Key(k.src.p) \in NamePath /\ \A s \in Spots(k) : s \in NamePath
  BY KeysOf, ObjectIs DEF Spots
<1>4. ASSUME NEW r \in Files(k.before)
      PROVE  \/ HoldsIn(t, k.src.vol, Key(k.src.p), k, r)
             \/ \E s \in Spots(k) : HoldsIn(t, k.dst.vol, s, k, r)
  <2>1. CASE HoldsIn(d, k.src.vol, Key(k.src.p), k, r)
    BY <1>2, <1>3, <2>1
  <2>2. CASE \E s \in Spots(k) : HoldsIn(d, k.dst.vol, s, k, r)
    <3>1. PICK s \in Spots(k) : HoldsIn(d, k.dst.vol, s, k, r)
      BY <2>2
    <3>2. HoldsIn(t, k.dst.vol, s, k, r)
      BY <1>2, <1>3, <3>1
    <3> QED BY <3>2
  <2> QED BY <2>1, <2>2 DEF KeptIn
<1> QED BY <1>4 DEF KeptIn

\* What another client does is noticed, or it changes nothing of a command's.
LEMMA NoticedIs ==
    ASSUME NEW k \in Cmds, CmdGood(disk, k), NEW t
    PROVE  CmdGood(t, Noticed(k, t)) /\ Noticed(k, t) # Idle
<1> DEFINE there == \E o \in Below(Key(k.src.p)) : t[k.src.vol][o] # disk[k.src.vol][o]
           put == \E s \in Spots(k) : \E o \in Below(s) : t[k.dst.vol][o] # disk[k.dst.vol][o]
           seen == k.touched \/ there \/ (k.st \in {"remove", "done"} /\ put)
           after == k.st \in {"remove", "done"}
           gs == IF after THEN k.goals ELSE k.goals \cup {Destination(t, k.op, k.src, k.dst)}
           tw == k.twice \/ (~ after /\ Twice(t, k.op, k.src, k.dst))
           j == [k EXCEPT !.touched = seen, !.goals = gs, !.twice = tw]
<1>1. Noticed(k, t) = j
  BY DEF Noticed, Idle, Cmds
<1>2. seen \in BOOLEAN /\ tw \in BOOLEAN
  BY DEF Cmds
<1>12. /\ k.goals \subseteq gs /\ gs \subseteq {Key(k.dst.p), Based(k.src, k.dst)}
       /\ gs \in SUBSET NamePath
       /\ ~ after => Destination(t, k.op, k.src, k.dst) \in gs
       /\ after => gs = k.goals
  <2>1. k.src \in Places /\ k.dst \in Places /\ k.src.p # <<>>
    BY DEF CmdGood, CmdShape, Cmds
  <2>2. k.goals \subseteq {Key(k.dst.p), Based(k.src, k.dst)}
    BY DEF CmdGood, CmdShape
  <2> QED BY <2>1, <2>2, GoalIs
<1>13. /\ after => (tw <=> k.twice)
       /\ ~ after /\ Twice(t, k.op, k.src, k.dst) => tw
  OBVIOUS
<1> HIDE DEF seen, gs, tw
<1>3. /\ j \in Cmds /\ j.touched = seen /\ j.goals = gs /\ j.twice = tw
      /\ j.st = k.st /\ j.op = k.op /\ j.src = k.src /\ j.dst = k.dst /\ j.data = k.data
      /\ j.dir = k.dir /\ j.final = k.final /\ j.before = k.before /\ j.ok = k.ok /\ j.lost = k.lost
  BY <1>2, <1>12 DEF Cmds
<1> HIDE DEF j
<1>4. ~ seen => ~ k.touched /\ ~ there /\ (k.st \in {"remove", "done"} => ~ put)
  BY DEF seen
<1>5. CmdShape(k) /\ Waits(disk, k) /\ Answers(disk, k) /\ Keeps(disk, k)
  BY DEF CmdGood
<1>6. Alike(j, k)
  BY <1>3 DEF Alike
<1>7. CmdShape(j)
  <2>1. Crosses(j) <=> Crosses(k)
    BY <1>6, AlikeIs
  <2>2. /\ j.goals \subseteq {Key(j.dst.p), Based(j.src, j.dst)}
        /\ j.final # j.dst.p => Based(j.src, j.dst) \in j.goals
    BY <1>3, <1>5, <1>12 DEF CmdShape
  <2> QED BY <1>3, <1>5, <2>1, <2>2 DEF CmdShape
<1>14. Sees(t, j)
  BY <1>3, <1>12, <1>13 DEF Sees
<1>8. Waits(t, j)
  <2> SUFFICES ASSUME j.st \in {"source", "target", "act"}, ~ j.touched, j.op # "tar put"
               PROVE  Tree(t, j.src.vol, Key(j.src.p)) = j.before
    BY DEF Waits
  <2>1. \A x \in Below(Key(k.src.p)) : t[k.src.vol][x] = disk[k.src.vol][x]
    BY <1>3, <1>4
  <2>2. Tree(t, k.src.vol, Key(k.src.p)) = Tree(disk, k.src.vol, Key(k.src.p))
    <3>1. Key(k.src.p) \in NamePath
      BY <1>5, KeysOf
    <3> QED BY <2>1, <3>1, TreeSame
  <2> QED BY <1>3, <1>4, <1>5, <2>2 DEF Waits
<1>9. Answers(t, j)
  <2> SUFFICES ASSUME j.st \in {"remove", "done"}, j.ok, ~ j.touched, ~ (j.op \in Unsynced /\ j.lost), ~ BelowItself(j)
               PROVE  StoredIn(t, j)
    BY DEF Answers
  <2>1. StoredIn(disk, k)
    BY <1>3, <1>4, <1>5, <1>6, AlikeIs DEF Answers
  <2>2. /\ \A x \in Below(Key(k.src.p)) : t[k.src.vol][x] = disk[k.src.vol][x]
        /\ \A s \in Spots(k) : \A x \in Below(s) : t[k.dst.vol][x] = disk[k.dst.vol][x]
    BY <1>3, <1>4
  <2>3. StoredIn(t, k)
    BY <1>5, <2>1, <2>2, StoredStays
  <2>4. j.goals = k.goals /\ j.twice = k.twice
    <3>1. j.twice <=> k.twice
      BY <1>3, <1>13
    <3> QED BY <1>3, <1>12, <3>1 DEF Cmds
  <2> QED BY <1>6, <2>3, <2>4, AlikeIs
<1>10. Keeps(t, j)
  <2> SUFFICES ASSUME j.st = "done", j.op \in TwoPlaces, ~ j.touched, ~ OnItself(j), ~ BelowItself(j)
               PROVE  KeptIn(t, j)
    BY DEF Keeps
  <2>1. KeptIn(disk, k)
    BY <1>3, <1>4, <1>5, <1>6, AlikeIs DEF Keeps
  <2>2. /\ \A x \in Below(Key(k.src.p)) : t[k.src.vol][x] = disk[k.src.vol][x]
        /\ \A s \in Spots(k) : \A x \in Below(s) : t[k.dst.vol][x] = disk[k.dst.vol][x]
    BY <1>3, <1>4
  <2>3. KeptIn(t, k)
    BY <1>5, <2>1, <2>2, KeptStays
  <2> QED BY <1>6, <2>3, AlikeIs
<1>11. j # Idle
  BY <1>3 DEF Cmds, Idle
<1> QED BY <1>1, <1>3, <1>7, <1>8, <1>9, <1>10, <1>11, <1>14 DEF CmdGood

\* What a locked call may leave of a command.
CallSettled(u, k) ==
    /\ Sound(u) /\ (Crosses(k) => ~ u.lost)
    /\ ~ k.touched =>
          /\ u.ok /\ ~ (k.op \in Unsynced /\ u.lost) /\ ~ BelowItself(k) => StoredIn(u.t, k)
          /\ k.op \in TwoPlaces /\ ~ OnItself(k) /\ ~ BelowItself(k) => KeptIn(u.t, k)
\* A command that is about to call.
Acting(k) == k \in Cmds /\ CmdShape(k) /\ Waits(disk, k) /\ Sees(disk, k) /\ k.st = "act"

\* What cp and mv act on is where it should be, by what the target is or was.
LEMMA LandsAt ==
    ASSUME NEW k, Acting(k)
    PROVE  LET g == fs_shared_prepare_file_target(disk, k.dst.vol, k.src.p, k.final)
           IN  /\ k.op \in Looking /\ Key(g) \in Objects => Key(g) \in Landing(k)
               /\ k.op \notin Looking /\ Key(k.dst.p) \in Objects => Key(k.dst.p) \in Landing(k)
<1> DEFINE e == Last(k.src.p)
           to == Key(k.dst.p)
           base == Based(k.src, k.dst)
           g == fs_shared_prepare_file_target(disk, k.dst.vol, k.src.p, k.final)
<1>1. k \in Cmds /\ CmdShape(k) /\ Sees(disk, k) /\ k.st = "act"
  BY DEF Acting
<1>2. /\ Key(g) \in Objects => Key(g) \in Spots(k)
      /\ to \in Objects => to \in Spots(k)
      /\ Key(Append(k.dst.p, e)) = base
  BY <1>1, SpotIs DEF Based
<1>3. /\ Destination(disk, k.op, k.src, k.dst) \in k.goals
      /\ Twice(disk, k.op, k.src, k.dst) => k.twice
  BY <1>1 DEF Sees
<1>4. g = IF HoldsDir(disk, k.dst.vol, Key(k.final)) THEN Append(k.final, e) ELSE k.final
  BY DEF fs_shared_prepare_file_target, fs_shared_join_path, HoldsDir
<1>5. CASE k.twice
  BY <1>2, <1>5 DEF Landing
<1>6. CASE ~ k.twice /\ k.op \notin Looking
  BY <1>3, <1>6 DEF Landing, Destination
<1>7. CASE ~ k.twice /\ k.op \in Looking
  <2>1. CASE k.final = k.dst.p
    <3>1. Key(g) = Destination(disk, k.op, k.src, k.dst)
      BY <1>2, <1>4, <1>7, <2>1 DEF Destination
    <3> QED BY <1>3, <1>7, <3>1 DEF Landing
  <2>2. CASE k.final # k.dst.p
    <3>1. k.final = Append(k.dst.p, e) /\ base \in k.goals
      BY <1>1, <2>2 DEF CmdShape
    <3>2. ~ HoldsDir(disk, k.dst.vol, base)
      BY <1>3, <1>7 DEF Twice
    <3>3. g = k.final
      BY <1>2, <1>4, <3>1, <3>2
    <3> QED BY <1>2, <1>7, <3>1, <3>3 DEF Landing
  <2> QED BY <2>1, <2>2
<1> QED BY <1>5, <1>6, <1>7

\* Enough for a copy, a move or a rename: whole where it should be when it answers success,
\* the source as it was when it does not.
LEMMA TwoSettled ==
    ASSUME NEW k, Acting(k), k.op \in TwoPlaces, NEW u, Sound(u), ~ u.lost,
           ~ BelowItself(k) /\ u.ok =>
               \E s \in Landing(k) : Copied(u.t, k.dst.vol, s, Found(k.src)),
           ~ BelowItself(k) /\ ~ OnItself(k) /\ ~ u.ok =>
               Copied(u.t, k.src.vol, Key(k.src.p), Found(k.src))
    PROVE  CallSettled(u, k)
<1>1. k \in Cmds /\ CmdShape(k) /\ u.ok \in BOOLEAN
  BY DEF Acting, Sound, Outs
<1>2. ~ k.touched => Found(k.src) = k.before
  BY DEF Acting, Waits, TwoPlaces, Found
<1>3. ASSUME ~ k.touched, ~ BelowItself(k), u.ok
      PROVE  StoredIn(u.t, k) /\ KeptIn(u.t, k)
  <2>1. PICK s \in Landing(k) : Copied(u.t, k.dst.vol, s, k.before)
    BY <1>2, <1>3
  <2>2. WholeIn(u.t, k) /\ KeptIn(u.t, k)
    BY <1>1, <2>1, CopiedIs
  <2> QED BY <2>2 DEF StoredIn, TwoPlaces
<1>4. ASSUME ~ k.touched, ~ BelowItself(k), ~ OnItself(k), ~ u.ok
      PROVE  KeptIn(u.t, k)
  <2>1. Copied(u.t, k.src.vol, Key(k.src.p), k.before)
    BY <1>2, <1>4
  <2> QED BY <1>1, <2>1, CopiedIs
<1> QED BY <1>3, <1>4 DEF CallSettled

\* Enough for the other commands: done when they answer success.
LEMMA OneSettled ==
    ASSUME NEW k, Acting(k), k.op \notin TwoPlaces, NEW u, Sound(u),
           u.ok /\ ~ (k.op \in Unsynced /\ u.lost) /\ ~ k.touched => StoredIn(u.t, k)
    PROVE  CallSettled(u, k)
  BY DEF CallSettled, Crosses, TwoPlaces

\* A call that failed before it began.
LEMMA FailsSettled ==
    ASSUME disk \in Disks, AllRooted(disk), NEW k, Acting(k), NEW u \in Fails(disk)
    PROVE  CallSettled(u, k)
<1>1. Sound(u) /\ u.t = disk /\ u.ok = FALSE /\ u.lost = FALSE
  BY FailsIs
<1>2. k.src.vol \in Volumes /\ Key(k.src.p) \in NamePath
  BY KeysOf DEF Acting
<1>3. Copied(disk, k.src.vol, Key(k.src.p), Found(k.src))
  BY <1>2, TreeHolds DEF Found
<1>4. CASE k.op \in TwoPlaces
  BY <1>1, <1>3, <1>4, TwoSettled
<1>5. CASE k.op \notin TwoPlaces
  BY <1>1, <1>5, OneSettled
<1> QED BY <1>4, <1>5

\* Copies, and the copy of a move between volumes.
LEMMA CpSettled ==
    ASSUME OneSpelling, disk \in Disks, AllRooted(disk), NEW k, Acting(k),
           k.op \in {"cp", "cp -r"} \/ Crosses(k),
           NEW u \in fs_shared_fs_cp_locked(disk, k.src.vol, k.src.p, k.dst.vol, k.final, k.dir)
    PROVE  CallSettled(u, k)
<1> DEFINE v == k.src.vol
           w == k.dst.vol
           s == k.src.p
           d == k.final
           o == Key(s)
           g == fs_shared_prepare_file_target(disk, w, s, d)
           to == Key(g)
           n == Tree(disk, v, o)
           base == Append(Key(k.dst.p), Last(Key(k.src.p)))
<1>1. /\ k \in Cmds /\ CmdShape(k) /\ k.dir \in BOOLEAN /\ k.op \in TwoPlaces
      /\ k.op \in {"cp", "cp -r"} => k.dir = (k.op = "cp -r")
  BY DEF Acting, Cmds, CmdShape, TwoPlaces, Crosses
<1>2. /\ v \in Volumes /\ w \in Volumes /\ s \in Seq(Spellings) /\ d \in Seq(Spellings)
      /\ s # <<>> /\ o \in Objects /\ o \in NamePath
  BY <1>1, KeysOf
<1>3. Plain(Spellings)
  BY SpellingsPlain
<1>4. /\ Sound(u) /\ Elsewhere(disk, u.t, w) /\ ~ u.lost
      /\ u.ok => to \in Objects /\ Copied(u.t, w, to, n)
      /\ \/ v = w /\ to = o
         \/ v = w /\ k.dir /\ IsPrefix(to, o) /\ g # d
         \/ Copied(u.t, v, o, n)
  <2> DEFINE r == k.dir
  <2>1. u \in fs_shared_fs_cp_locked(disk, v, s, w, d, r) /\ r \in BOOLEAN
    BY <1>1
  <2> HIDE DEF v, w, s, d, r
  <2>2. LET oo == Key(s)
            gg == fs_shared_prepare_file_target(disk, w, s, d)
            tt == Key(gg)
            nn == Tree(disk, v, oo)
        IN  /\ Sound(u) /\ Elsewhere(disk, u.t, w) /\ ~ u.lost
            /\ u.ok => tt \in Objects /\ Copied(u.t, w, tt, nn)
            /\ \/ v = w /\ tt = oo
               \/ v = w /\ r /\ IsPrefix(tt, oo) /\ gg # d
               \/ Copied(u.t, v, oo, nn)
    BY <1>2, <1>3, <2>1, CpIs
  <2> QED BY <2>2 DEF r
<1>5. /\ to \in NamePath /\ (to \in Objects => to \in Spots(k))
      /\ g # d => IsPrefix(base, to) /\ base \in NamePath
  BY <1>1, SpotIs
<1>11. to \in Objects => to \in Landing(k)
  <2>1. k.op \in Looking
    BY DEF Looking, Crosses
  <2> QED BY <2>1, LandsAt
<1>6. n = Found(k.src)
  BY DEF Found
<1>7. v = w => k.op \in {"cp", "cp -r"}
  BY DEF Crosses
<1>8. OnItself(k) <=> /\ k.op \in {"cp", "cp -r"} /\ v = w
                      /\ o \in Spots(k) \/ (k.op = "cp -r" /\ IsPrefix(base, o))
  BY DEF OnItself
<1> HIDE DEF v, w, d, o, g, to, n, base
<1>9. u.ok => \E q \in Landing(k) : Copied(u.t, w, q, n)
  BY <1>4, <1>11
<1>10. ASSUME ~ OnItself(k)
       PROVE  Copied(u.t, v, o, n)
  <2>1. ~ (v = w /\ to = o)
    BY <1>2, <1>5, <1>7, <1>8, <1>10
  <2>2. ASSUME v = w, k.dir, IsPrefix(to, o), g # d
        PROVE  FALSE
    <3>1. IsPrefix(base, o)
      BY <1>2, <1>5, <2>2, PathOrder
    <3> QED BY <1>1, <1>7, <1>8, <1>10, <2>2, <3>1
  <2> QED BY <1>4, <2>1, <2>2
<1> QED BY <1>1, <1>4, <1>6, <1>9, <1>10, TwoSettled DEF v, w, o

\* Moves on one volume.
LEMMA MvSettled ==
    ASSUME OneSpelling, disk \in Disks, AllRooted(disk), NEW k, Acting(k),
           k.op = "mv", k.src.vol = k.dst.vol,
           NEW u \in fs_shared_fs_mv_locked(disk, k.src.vol, k.src.p, k.final)
    PROVE  CallSettled(u, k)
<1> DEFINE v == k.src.vol
           s == k.src.p
           d == k.final
           o == Key(s)
           to == Key(fs_shared_prepare_file_target(disk, v, s, d))
           n == Tree(disk, v, o)
<1>1. k \in Cmds /\ CmdShape(k) /\ k.op \in TwoPlaces
  BY DEF Acting, TwoPlaces
<1>2. /\ v \in Volumes /\ s \in Seq(Spellings) /\ d \in Seq(Spellings) /\ s # <<>> /\ o \in Objects
  BY <1>1, KeysOf
<1>3. Plain(Spellings)
  BY SpellingsPlain
<1>4. /\ Sound(u) /\ ~ u.lost
      /\ u.ok => to \in Objects /\ Copied(u.t, v, to, n)
      /\ ~ u.ok => Copied(u.t, v, o, n)
  <2> HIDE DEF v, s, d
  <2>1. u \in fs_shared_fs_mv_locked(disk, v, s, d)
    BY DEF v, s, d
  <2> QED BY <1>2, <1>3, <2>1, MvIs
<1>5. to \in Objects => to \in Landing(k)
  <2>1. k.op \in Looking
    BY DEF Looking
  <2> QED BY <2>1, LandsAt
<1>6. n = Found(k.src)
  BY DEF Found
<1> HIDE DEF to, n
<1>7. u.ok => \E q \in Landing(k) : Copied(u.t, k.dst.vol, q, Found(k.src))
  BY <1>4, <1>5, <1>6
<1>8. ~ u.ok => Copied(u.t, k.src.vol, Key(k.src.p), Found(k.src))
  BY <1>4, <1>6
<1> QED BY <1>1, <1>4, <1>7, <1>8, TwoSettled

\* The copy and the rename of the web interface.
LEMMA WebSettled ==
    ASSUME disk \in Disks, AllRooted(disk), NEW k, Acting(k), NEW u,
           \/ k.op = "webcopy" /\ u \in copy_file(disk, k.src.vol, Key(k.src.p), k.dst.vol, Key(k.dst.p))
           \/ k.op = "webrename" /\ u \in f_rename(disk, k.src.vol, Key(k.src.p), Key(k.dst.p))
    PROVE  CallSettled(u, k)
<1> DEFINE v == k.src.vol
           w == k.dst.vol
           o == Key(k.src.p)
           to == Key(k.dst.p)
           n == Tree(disk, v, o)
<1>1. k \in Cmds /\ CmdShape(k) /\ k.op \in TwoPlaces
  BY DEF Acting, TwoPlaces
<1>2. v \in Volumes /\ w \in Volumes /\ o \in Objects /\ o # <<>> /\ o \in NamePath /\ to \in NamePath
  BY <1>1, KeysOf
<1>3. to \in Objects => to \in Landing(k)
  <2>1. k.op \notin Looking
    BY DEF Looking
  <2> QED BY <2>1, LandsAt
<1>4. n = Found(k.src)
  BY DEF Found
<1>5. CASE k.op = "webcopy" /\ u \in copy_file(disk, v, o, w, to)
  <2> HIDE DEF v, w, o, to
  <2>1. /\ Sound(u) /\ ~ u.lost
        /\ u.ok => to \in Objects /\ Copied(u.t, w, to, n)
        /\ ~ u.ok => Copied(u.t, v, o, n)
    BY <1>2, <1>5, WebCopyIs
  <2> HIDE DEF n
  <2>2. u.ok => \E q \in Landing(k) : Copied(u.t, w, q, n)
    BY <1>3, <2>1
  <2> QED BY <1>1, <1>4, <2>1, <2>2, TwoSettled DEF v, w, o
<1>6. CASE k.op = "webrename" /\ u \in f_rename(disk, v, o, to)
  <2>1. v = w /\ (BelowItself(k) <=> o # to /\ IsPrefix(o, to))
    BY <1>1, <1>6 DEF BelowItself, CmdShape
  <2> HIDE DEF v, w, o, to
  <2>2. /\ Sound(u) /\ ~ u.lost
        /\ ~ u.ok => u.t = disk
        /\ u.ok /\ (IsPrefix(o, to) => to = o) => Copied(u.t, v, to, n)
        /\ u.ok => to \in Objects
    BY <1>2, <1>6, RenameIs DEF Copied, Room
  <2>3. Copied(disk, v, o, n)
    BY <1>2, TreeHolds
  <2> HIDE DEF n
  <2>4. ~ BelowItself(k) /\ u.ok => \E q \in Landing(k) : Copied(u.t, w, q, n)
    BY <1>3, <2>1, <2>2
  <2>5. ~ u.ok => Copied(u.t, v, o, n)
    BY <2>2, <2>3
  <2> QED BY <1>1, <1>4, <2>2, <2>4, <2>5, TwoSettled DEF v, w, o
<1> QED BY <1>5, <1>6

\* Where nothing is, the tree is empty.
LEMMA EmptyTree ==
    ASSUME NEW n \in TreeNodes, DOMAIN n = {}
    PROVE  n = <<>>
<1>1. n = [r \in {} |-> n[r]]
  <2>1. PICK D \in SUBSET NamePath : n \in [D -> Node \ {None}]
    BY DEF TreeNodes
  <2> QED BY <2>1
<1>2. n \in [1 .. 0 -> {}]
  <2>1. 1 .. 0 = {}
    OBVIOUS
  <2> QED BY <1>1, <2>1
<1>3. n \in Seq({}) /\ Len(n) = 0
  BY <1>2
<1> QED BY <1>3, EmptySeq

\* A removal leaves nothing at its place.
LEMMA RmSettled ==
    ASSUME disk \in Disks, AllRooted(disk), NEW k, Acting(k), k.op \in {"rm", "rm -r"},
           NEW u, Removed(u, disk, k.src.vol, Key(k.src.p))
    PROVE  CallSettled(u, k)
<1> DEFINE v == k.dst.vol
           o == Key(k.dst.p)
<1>1. k \in Cmds /\ CmdShape(k) /\ k.op \notin TwoPlaces
  BY DEF Acting, TwoPlaces
<1>2. v = k.src.vol /\ o = Key(k.src.p) /\ v \in Volumes /\ o \in NamePath
  BY <1>1, KeysOf
<1> HIDE DEF v, o
<1>3. Sound(u) /\ u.t \in Disks /\ (u.ok => \A x \in Objects : IsPrefix(o, x) => u.t[v][x] = None)
  BY <1>2 DEF Removed, Sound, Outs
<1>4. ASSUME u.ok
      PROVE  Tree(u.t, v, o) = <<>>
  <2>1. /\ Tree(u.t, v, o) \in TreeNodes
        /\ DOMAIN Tree(u.t, v, o) = {r \in NamePath : o \o r \in Objects /\ Exists(u.t, v, o \o r)}
    BY <1>2, <1>3, TreeIs
  <2>2. \A r \in NamePath : IsPrefix(o, o \o r)
    BY <1>2, PathBelow
  <2>3. DOMAIN Tree(u.t, v, o) = {}
    BY <1>3, <1>4, <2>1, <2>2 DEF Exists
  <2> QED BY <2>1, <2>3, EmptyTree
<1>5. u.ok => StoredIn(u.t, k)
  BY <1>1, <1>4 DEF StoredIn, TwoPlaces, v, o
<1> QED BY <1>1, <1>3, <1>5, OneSettled

\* Append: the text stands after what was there.
LEMMA AppendSettled ==
    ASSUME disk \in Disks, AllRooted(disk), NEW k, Acting(k), k.op = "append",
           NEW u \in WriteFile(disk, k.src.vol, Key(k.src.p), disk[k.src.vol][Key(k.src.p)].data, k.data, TRUE)
    PROVE  CallSettled(u, k)
<1> DEFINE v == k.src.vol
           o == Key(k.src.p)
           old == disk[v][o].data
           data == k.data
           n == Tree(disk, v, o)
<1>1. k \in Cmds /\ CmdShape(k) /\ k.op \notin TwoPlaces
  BY DEF Acting, TwoPlaces
<1>2. /\ v = k.dst.vol /\ o = Key(k.dst.p) /\ v \in Volumes /\ o \in NamePath /\ o \in Objects
      /\ data \in Seq(Nat)
  BY <1>1, KeysOf
<1>3. ~ k.touched => n = k.before
  BY DEF Acting, Waits
<1>4. u \in WriteFile(disk, v, o, old, data, TRUE)
  OBVIOUS
<1>5. disk[v][o] \in Node
  BY <1>2, NodeAt
<1>6. old \in Seq(Nat)
  <2>1. Dir.data = <<>> /\ None.data = <<>> /\ <<>> \in Seq(Nat)
    BY DEF Dir, None
  <2> QED BY <1>5, <2>1, NodeIs
<1>7. \/ disk[v][o] = None /\ old = <<>>
      \/ disk[v][o] = Dir
      \/ disk[v][o] = File(old) /\ disk[v][o] # None
  BY <1>5, NodeIs, FileIs, DirIs
<1> HIDE DEF v, o, old, data, n
<1>8. TRUE \in BOOLEAN
  OBVIOUS
<1>9. Wrote(disk, u, v, o, old \o data) /\ ~ u.lost
  BY <1>2, <1>4, <1>6, <1>8, WriteFileIs, Zenon
<1>10. Sound(u) /\ (u.ok => u.t[v][o] = File(old \o data) /\ ~ IsDir(disk, v, o))
  BY <1>9 DEF Wrote
<1>11. /\ n \in TreeNodes
       /\ DOMAIN n = {r \in NamePath : o \o r \in Objects /\ Exists(disk, v, o \o r)}
       /\ \A r \in DOMAIN n : n[r] = disk[v][o \o r]
  BY <1>2, TreeIs DEF n
<1>12. <<>> \in NamePath /\ o \o <<>> = o
  BY <1>2, PathEmpty, PathJoin
<1>13. CASE disk[v][o] = None /\ old = <<>>
  <2>1. ~ IsDir(disk, v, o) /\ Rooted(disk, v)
    BY <1>2, <1>13, DirIs DEF IsDir, AllRooted
  <2>2. ASSUME NEW r \in DOMAIN n
        PROVE  FALSE
    <3>1. r \in NamePath /\ o \o r \in Objects /\ Exists(disk, v, o \o r) /\ IsPrefix(o, o \o r)
      BY <1>2, <1>11, PathBelow
    <3>2. CASE o \o r = o
      BY <1>13, <3>1, <3>2 DEF Exists
    <3>3. CASE o \o r # o
      BY <1>2, <2>1, <3>1, <3>3, NothingBelow DEF Exists
    <3> QED BY <3>2, <3>3
  <2>3. n = <<>>
    BY <1>11, <2>2, EmptyTree
  <2>4. old \o data = data
    BY <1>2, <1>13, ConcatEmptySeq
  <2>5. u.ok /\ ~ k.touched => u.t[v][o] = File(IF k.before = <<>> THEN data ELSE k.before[<<>>].data \o data)
    BY <1>3, <1>10, <2>3, <2>4
  <2>6. u.ok /\ ~ k.touched => StoredIn(u.t, k)
    BY <1>1, <1>2, <2>5 DEF StoredIn, TwoPlaces, data
  <2> QED BY <1>1, <1>10, <2>6, OneSettled
<1>14. CASE disk[v][o] = Dir
  <2>1. IsDir(disk, v, o)
    BY <1>14, DirIs DEF IsDir
  <2>2. ~ u.ok
    BY <1>10, <2>1
  <2> QED BY <1>1, <1>10, <2>2, OneSettled
<1>15. CASE disk[v][o] = File(old) /\ disk[v][o] # None
  <2>1. <<>> \in DOMAIN n /\ n[<<>>] = File(old)
    BY <1>2, <1>11, <1>12, <1>15 DEF Exists
  <2>2. n # <<>> /\ n[<<>>].data = old
    <3>1. File(old).data = old
      BY <1>6, FileIs
    <3>2. DOMAIN <<>> = {}
      OBVIOUS
    <3> QED BY <2>1, <3>1, <3>2
  <2>3. u.ok /\ ~ k.touched => u.t[v][o] = File(IF k.before = <<>> THEN data ELSE k.before[<<>>].data \o data)
    BY <1>3, <1>10, <2>2
  <2>4. u.ok /\ ~ k.touched => StoredIn(u.t, k)
    BY <1>1, <1>2, <2>3 DEF StoredIn, TwoPlaces, data
  <2> QED BY <1>1, <1>10, <2>4, OneSettled
<1> QED BY <1>7, <1>13, <1>14, <1>15

\* Directories, texts and uploads.
LEMMA MadeSettled ==
    ASSUME disk \in Disks, AllRooted(disk), NEW k, Acting(k), NEW u,
           \/ k.op = "mkdir" /\ u \in cmd_fs_mkdir(disk, k.src.vol, Key(k.src.p))
           \/ k.op = "webmkdir" /\ u \in fs_shared_fs_mkdir(disk, k.src.vol, Key(k.src.p))
           \/ k.op = "touch" /\ u \in WriteFile(disk, k.src.vol, Key(k.src.p), <<>>, <<>>, TRUE)
           \/ k.op = "write" /\ u \in WriteFile(disk, k.src.vol, Key(k.src.p), <<>>, k.data, TRUE)
           \/ k.op = "put" /\ u \in handle_put_file(disk, k.src.vol, Key(k.src.p), k.data)
           \/ k.op = "webput" /\ u \in transfer(disk, k.src.vol, Key(k.src.p), k.data, TRUE)
           \/ k.op = "webnew" /\ u \in transfer(disk, k.src.vol, Key(k.src.p), k.data, FALSE)
    PROVE  CallSettled(u, k)
<1> DEFINE v == k.src.vol
           o == Key(k.src.p)
           data == k.data
<1>1. k \in Cmds /\ CmdShape(k) /\ k.op \notin TwoPlaces
  BY DEF Acting, TwoPlaces
<1>2. /\ v = k.dst.vol /\ o = Key(k.dst.p) /\ v \in Volumes /\ o \in NamePath /\ o \in Objects
      /\ data \in Seq(Nat)
  BY <1>1, KeysOf
<1> HIDE DEF v, o, data
<1>3. ASSUME k.op = "mkdir", u \in cmd_fs_mkdir(disk, v, o)
      PROVE  CallSettled(u, k)
  <2>1. Sound(u) /\ (u.ok => u.t[v][o] = Dir \/ IsFile(disk, v, o))
    BY <1>2, <1>3, MkdirIs
  <2>2. ASSUME IsFile(disk, v, o), ~ k.touched
        PROVE  OverFile(k)
    <3> DEFINE n == Tree(disk, v, o)
    <3>1. n = k.before
      BY <1>3, <2>2 DEF Acting, Waits, v, o
    <3>2. <<>> \in NamePath /\ o \o <<>> = o
      BY <1>2, PathEmpty, PathJoin
    <3>3. Exists(disk, v, o)
      BY <2>2, DirIs DEF Exists, IsFile
    <3>6. /\ DOMAIN n = {r \in NamePath : o \o r \in Objects /\ Exists(disk, v, o \o r)}
          /\ \A r \in DOMAIN n : n[r] = disk[v][o \o r]
      BY <1>2, TreeIs
    <3> HIDE DEF n
    <3>4. <<>> \in DOMAIN n /\ n[<<>>] = disk[v][o]
      BY <1>2, <3>2, <3>3, <3>6
    <3>5. <<>> \in Files(n)
      BY <2>2, <3>4 DEF Files, IsFile
    <3> QED BY <1>3, <3>1, <3>5 DEF OverFile
  <2>3. u.ok /\ ~ k.touched => StoredIn(u.t, k)
    BY <1>2, <1>3, <2>1, <2>2 DEF StoredIn, TwoPlaces
  <2> QED BY <1>1, <2>1, <2>3, OneSettled
<1>4. ASSUME k.op = "webmkdir", u \in fs_shared_fs_mkdir(disk, v, o)
      PROVE  CallSettled(u, k)
  <2>1. Sound(u) /\ (u.ok => u.t[v][o] = Dir)
    BY <1>2, <1>4, MkdirIs
  <2>2. u.ok => StoredIn(u.t, k)
    BY <1>2, <1>4, <2>1 DEF StoredIn, TwoPlaces
  <2> QED BY <1>1, <2>1, <2>2, OneSettled
<1>5. ASSUME k.op = "touch", u \in WriteFile(disk, v, o, <<>>, <<>>, TRUE)
      PROVE  CallSettled(u, k)
  <2> DEFINE empty == <<>>
  <2>1. empty \in Seq(Nat)
    OBVIOUS
  <2>5. u \in WriteFile(disk, v, o, <<>>, empty, TRUE)
    BY <1>5, Zenon
  <2> HIDE DEF empty
  <2>2. Wrote(disk, u, v, o, empty) /\ ~ u.lost
    BY <1>2, <2>1, <2>5, UploadIs
  <2>3. Sound(u) /\ (u.ok => u.t[v][o] = File(empty))
    BY <2>2 DEF Wrote
  <2>4. u.ok => StoredIn(u.t, k)
    BY <1>2, <1>5, <2>3 DEF StoredIn, TwoPlaces, empty
  <2> QED BY <1>1, <2>3, <2>4, OneSettled
<1>6. ASSUME k.op = "write", u \in WriteFile(disk, v, o, <<>>, data, TRUE)
      PROVE  CallSettled(u, k)
  <2>1. Wrote(disk, u, v, o, data) /\ ~ u.lost
    BY <1>2, <1>6, UploadIs
  <2>2. Sound(u) /\ (u.ok => u.t[v][o] = File(data))
    BY <2>1 DEF Wrote
  <2>3. u.ok => StoredIn(u.t, k)
    BY <1>2, <1>6, <2>2 DEF StoredIn, TwoPlaces, data
  <2> QED BY <1>1, <2>2, <2>3, OneSettled
<1>7. ASSUME k.op = "put", u \in handle_put_file(disk, v, o, data)
      PROVE  CallSettled(u, k)
  <2>1. Wrote(disk, u, v, o, data)
    BY <1>2, <1>7, UploadIs
  <2>2. Sound(u) /\ (u.ok /\ ~ u.lost => u.t[v][o] = File(data))
    BY <2>1 DEF Wrote
  <2>3. u.ok /\ ~ u.lost => StoredIn(u.t, k)
    BY <1>2, <1>7, <2>2 DEF StoredIn, TwoPlaces, data
  <2> QED BY <1>1, <1>7, <2>2, <2>3, OneSettled DEF Unsynced
<1>8. ASSUME k.op \in {"webput", "webnew"}, NEW yes \in BOOLEAN, u \in transfer(disk, v, o, data, yes)
      PROVE  CallSettled(u, k)
  <2>1. Uploaded(u, v, o, data)
    BY <1>2, <1>8, UploadIs, Zenon
  <2>2. u.ok => StoredIn(u.t, k)
    BY <1>2, <1>8, <2>1 DEF StoredIn, TwoPlaces, Uploaded, data
  <2> QED BY <1>1, <2>1, <2>2, OneSettled DEF Uploaded
<1>9. TRUE \in BOOLEAN /\ FALSE \in BOOLEAN
  OBVIOUS
<1>10. CASE k.op = "webput" /\ u \in transfer(disk, v, o, data, TRUE)
  BY <1>8, <1>9, <1>10, Zenon
<1>11. CASE k.op = "webnew" /\ u \in transfer(disk, v, o, data, FALSE)
  BY <1>8, <1>9, <1>11, Zenon
<1> QED BY <1>3, <1>4, <1>5, <1>6, <1>7, <1>10, <1>11 DEF v, o, data

\* An archive.
LEMMA TarSettled ==
    ASSUME disk \in Disks, AllRooted(disk), NEW k, Acting(k), k.op = "tar put",
           NEW u \in tar_extract_into_dir_fatfs(disk, k.dst.vol, Key(k.dst.p), k.before)
    PROVE  CallSettled(u, k)
<1> DEFINE v == k.dst.vol
           o == Key(k.dst.p)
           n == k.before
<1>1. k \in Cmds /\ CmdShape(k) /\ k.op \notin TwoPlaces
  BY DEF Acting, TwoPlaces
<1>2. v \in Volumes /\ o \in NamePath /\ IsTree(n)
  BY <1>1, KeysOf
<1>3. u \in tar_extract_into_dir_fatfs(disk, v, o, n)
  OBVIOUS
<1> HIDE DEF v, o, n
<1>4. /\ Sound(u)
      /\ u.ok /\ ~ u.lost => Unpacked(u, v, o, n)
  BY <1>2, <1>3, TarIs
<1>5. u.ok /\ ~ u.lost => StoredIn(u.t, k)
  BY <1>4 DEF StoredIn, Unpacked, UnpackedIn, HoldsIn, TwoPlaces, v, o, n
<1> QED BY <1>1, <1>4, <1>5, OneSettled DEF Unsynced

\* Whatever the command, and however its call ends.
LEMMA EffectSettled ==
    ASSUME OneSpelling, disk \in Disks, AllRooted(disk), NEW k, Acting(k), NEW u \in Effect(k)
    PROVE  CallSettled(u, k)
<1> DEFINE v == k.src.vol
           w == k.dst.vol
           o == Key(k.src.p)
           to == Key(k.dst.p)
<1>1. k \in Cmds /\ CmdShape(k) /\ k.op \in Ops
  BY DEF Acting, Cmds
<1>2. v \in Volumes /\ o \in Objects /\ o # <<>>
  BY <1>1, KeysOf
<1>3. CASE k.op = "mv" /\ v = w
  <2>1. u \in fs_shared_fs_mv_locked(disk, v, k.src.p, k.final)
    BY <1>3 DEF Effect, Crosses
  <2> QED BY <1>3, <2>1, MvSettled
<1>4. CASE k.op \in {"cp", "cp -r"} \/ Crosses(k)
  <2>1. u \in fs_shared_fs_cp_locked(disk, v, k.src.p, w, k.final, k.dir)
    BY <1>4 DEF Effect, Crosses
  <2> QED BY <1>4, <2>1, CpSettled
<1>5. CASE k.op = "rm"
  <2>1. u \in fs_shared_fs_rm(disk, v, o)
    BY <1>5 DEF Effect, Crosses
  <2>2. Removed(u, disk, v, o)
    BY <1>2, <2>1, RmIs
  <2> QED BY <1>5, <2>2, RmSettled
<1>6. CASE k.op = "rm -r"
  <2>1. u \in fs_shared_fs_rm_recursive(disk, v, o)
    BY <1>6 DEF Effect, Crosses
  <2>2. Removed(u, disk, v, o)
    BY <1>2, <2>1, RmRecursiveIs
  <2> QED BY <1>6, <2>2, RmSettled
<1>7. CASE k.op = "append"
  <2>1. u \in WriteFile(disk, v, o, disk[v][o].data, k.data, TRUE)
    BY <1>7 DEF Effect, Crosses
  <2> QED BY <1>7, <2>1, AppendSettled
<1>8. CASE k.op \in {"mkdir", "webmkdir", "touch", "write", "put", "webput", "webnew"}
  <2>1. \/ k.op = "mkdir" /\ u \in cmd_fs_mkdir(disk, v, o)
        \/ k.op = "webmkdir" /\ u \in fs_shared_fs_mkdir(disk, v, o)
        \/ k.op = "touch" /\ u \in WriteFile(disk, v, o, <<>>, <<>>, TRUE)
        \/ k.op = "write" /\ u \in WriteFile(disk, v, o, <<>>, k.data, TRUE)
        \/ k.op = "put" /\ u \in handle_put_file(disk, v, o, k.data)
        \/ k.op = "webput" /\ u \in transfer(disk, v, o, k.data, TRUE)
        \/ k.op = "webnew" /\ u \in transfer(disk, v, o, k.data, FALSE)
    BY <1>8 DEF Effect, Crosses
  <2> HIDE DEF v, o
  <2>2. CallSettled(u, k)
    BY <2>1, MadeSettled DEF v, o
  <2> QED BY <2>2
<1>9. CASE k.op \in {"webcopy", "webrename"}
  <2>1. \/ k.op = "webcopy" /\ u \in copy_file(disk, v, o, w, to)
        \/ k.op = "webrename" /\ u \in f_rename(disk, v, o, to)
    BY <1>9 DEF Effect, Crosses
  <2> QED BY <2>1, WebSettled
<1>10. CASE k.op = "tar put"
  <2>1. u \in tar_extract_into_dir_fatfs(disk, w, to, k.before)
    BY <1>10 DEF Effect, Crosses
  <2> QED BY <1>10, <2>1, TarSettled
<1>11. k.op = "mv" /\ v # w => Crosses(k)
  BY DEF Crosses
<1> QED BY <1>1, <1>3, <1>4, <1>5, <1>6, <1>7, <1>8, <1>9, <1>10, <1>11 DEF Ops, ConsoleOps, WebOps

\* No command is in work at the start.
LEMMA FileInvInit == Init => FileInv
<1> SUFFICES ASSUME Init
             PROVE  FileInv
  OBVIOUS
<1>1. disk \in Disks /\ AllRooted(disk)
  BY FileOpsStarts DEF Init, Disks, AllRooted
<1>2. IsTree(<<>>)
  <2>1. <<>> \in [{} -> Node \ {None}] /\ DOMAIN <<>> = {}
    OBVIOUS
  <2>2. {} \in SUBSET NamePath
    OBVIOUS
  <2>3. <<>> \in TreeNodes
    BY <2>1, <2>2 DEF TreeNodes
  <2> QED BY <2>1, <2>3 DEF IsTree
<1>3. InHand(disk, cmd)
  BY DEF Init, InHand
<1> QED BY <1>1, <1>2, <1>3 DEF Init, FileInv

\* One command goes on, the disk does not change.
LEMMA GoesOn ==
    ASSUME FileInv, NEW c \in Clients, NEW j, j = Idle \/ CmdGood(disk, j)
    PROVE  InHand(disk, [cmd EXCEPT ![c] = j])
<1> DEFINE m == [cmd EXCEPT ![c] = j]
<1>1. j \in {Idle} \cup Cmds
  BY DEF CmdGood
<1>2. cmd \in [Clients -> {Idle} \cup Cmds] /\ \A x \in Clients : cmd[x] # Idle => CmdGood(disk, cmd[x])
  BY DEF FileInv, InHand
<1>3. m \in [Clients -> {Idle} \cup Cmds] /\ \A x \in Clients : m[x] = IF x = c THEN j ELSE cmd[x]
  BY <1>1, <1>2
<1> HIDE DEF m
<1>4. InHand(disk, m)
  BY <1>2, <1>3 DEF InHand
<1> QED BY <1>4 DEF m

\* A client whose state is not idle has a command.
LEMMA InWork ==
    ASSUME FileInv, NEW c \in Clients, cmd[c].st # "idle"
    PROVE  cmd[c] \in Cmds /\ CmdGood(disk, cmd[c]) /\ cmd[c] # Idle
<1>1. cmd[c] # Idle
  BY DEF Idle
<1> QED BY <1>1 DEF FileInv, InHand

\* A command begins with its source as it is.
LEMMA GiveIs ==
    ASSUME FileInv, NEW c \in Clients, NEW op \in Ops, NEW src \in Sources, NEW dst \in Sources \cup Targets,
           NEW data \in Seq(Nat), NEW before, IsTree(before),
           op \notin TwoPlaces => dst = src,
           op = "webrename" => dst.vol = src.vol,
           op # "tar put" => before = Found(src),
           Give(c, op, src, dst, data, before)
    PROVE  InHand(disk, cmd')
<1> DEFINE st == IF op = "mv" THEN "source" ELSE IF op \in {"cp", "cp -r"} THEN "target" ELSE "act"
           dir == op = "cp -r"
           goal == Destination(disk, op, src, dst)
           twice == Twice(disk, op, src, dst)
           j == [st |-> st, op |-> op, src |-> src, dst |-> dst, data |-> data, dir |-> dir,
                 final |-> dst.p, before |-> before, touched |-> FALSE, ok |-> FALSE, lost |-> FALSE,
                 goals |-> {goal}, twice |-> twice]
<1>1. cmd' = [cmd EXCEPT ![c] = j]
  BY DEF Give
<1>2. st \in {"source", "target", "act"} /\ (st = "source" => op = "mv")
  OBVIOUS
<1>3. dir \in BOOLEAN /\ twice \in BOOLEAN
  BY DEF Twice
<1>4. src \in Places /\ dst \in Places /\ src.p # <<>> /\ Key(src.p) \in Objects
  BY PlacesIs
<1>5. dst.p \in Seq(Spellings)
  BY <1>4 DEF Places
<1>6. before \in TreeNodes
  BY DEF IsTree
<1>12. goal \in {Key(dst.p), Based(src, dst)} /\ goal \in NamePath
  BY <1>4, GoalIs
<1>13. st = "target" => op \in Looking
  BY DEF Looking
<1> HIDE DEF st, goal, twice
<1>7. j \in Cmds
  BY <1>2, <1>3, <1>4, <1>5, <1>6, <1>12 DEF Cmds
<1>8. CmdShape(j)
  BY <1>2, <1>4, <1>12, <1>13 DEF CmdShape
<1>14. Sees(disk, j)
  BY DEF Sees, goal, twice
<1>9. Waits(disk, j)
  BY DEF Waits, Found
<1>10. Answers(disk, j) /\ Keeps(disk, j)
  BY <1>2 DEF Answers, Keeps
<1>11. CmdGood(disk, j)
  BY <1>7, <1>8, <1>9, <1>10, <1>14 DEF CmdGood
<1> HIDE DEF j
<1> QED BY <1>1, <1>11, GoesOn

\* What is below a place is a tree.
LEMMA FoundIs ==
    ASSUME FileInv, NEW place \in Sources
    PROVE  IsTree(Found(place))
<1>1. place.vol \in Volumes /\ Key(place.p) \in Objects
  BY PlacesIs DEF Places
<1> QED BY <1>1, TreeHolds, ObjectIs DEF FileInv, Found

\* The next content is a number.
LEMMA Counts == \A i \in Nat : i + 1 \in Nat
  OBVIOUS

\* A text of one content throughout.
LEMMA SameThrough ==
    ASSUME NEW n \in Nat, NEW x \in Nat
    PROVE  [i \in 1 .. n |-> x] \in Seq(Nat)
<1>1. [i \in 1 .. n |-> x] \in [1 .. n -> Nat]
  OBVIOUS
<1> QED BY <1>1

\* Commands come: moves and copies, changes, archives.
LEMMA GiveStep ==
    ASSUME FileInv, NEW c \in Clients, GiveMove(c) \/ GiveChange(c) \/ GiveTar(c)
    PROVE  FileInv'
<1>1. OpsOf(c) \subseteq Ops
  BY DEF OpsOf, Ops
<1>2. CASE GiveMove(c)
  <2>1. PICK op \in TwoPlaces \cap OpsOf(c), src \in Sources, dst \in Targets :
            /\ op = "webrename" => src.vol = dst.vol
            /\ Give(c, op, src, dst, <<>>, Found(src))
    BY <1>2 DEF GiveMove
  <2>2. op # "tar put" /\ op \in Ops /\ version' = version
    <3>1. op \in TwoPlaces /\ op \in OpsOf(c)
      OBVIOUS
    <3> QED BY <1>1, <1>2, <3>1 DEF TwoPlaces, GiveMove
  <2> DEFINE none == <<>>
  <2>3. Give(c, op, src, dst, none, Found(src)) /\ none \in Seq(Nat)
    BY <2>1
  <2> HIDE DEF none
  <2>4. InHand(disk, cmd')
    BY <2>1, <2>2, <2>3, FoundIs, GiveIs
  <2> QED BY <2>1, <2>2, <2>4 DEF FileInv, Give
<1>3. CASE GiveChange(c)
  <2>1. PICK op \in OpsOf(c) \ (TwoPlaces \cup {"tar put"}), dst \in Sources :
            Give(c, op, dst, dst, [i \in 1 .. FileLen |-> version + 1], Found(dst))
    BY <1>3 DEF GiveChange
  <2> DEFINE data == [i \in 1 .. FileLen |-> version + 1]
  <2>2. version' \in Nat /\ data \in Seq(Nat) /\ op \in Ops
    <3>1. version \in Nat /\ version' = version + 1
      BY <1>3 DEF GiveChange, FileInv
    <3>2. FileLen \in Nat
      BY FileOpsBounds
    <3>3. version + 1 \in Nat
      BY <3>1, Counts
    <3>4. data \in Seq(Nat)
      BY <3>2, <3>3, SameThrough
    <3>5. version' \in Nat
      BY <3>1, <3>3
    <3>6. op \in OpsOf(c)
      OBVIOUS
    <3> HIDE DEF data
    <3> QED BY <1>1, <3>4, <3>5, <3>6
  <2>3. Give(c, op, dst, dst, data, Found(dst))
    BY <2>1
  <2> HIDE DEF data
  <2>4. InHand(disk, cmd')
    <3>1. op # "webrename" /\ op # "tar put"
      BY DEF TwoPlaces
    <3> QED BY <2>2, <2>3, <3>1, FoundIs, GiveIs
  <2> QED BY <2>2, <2>3, <2>4 DEF FileInv, Give
<1>4. CASE GiveTar(c)
  <2> DEFINE op == "tar put"
             none == <<>>
  <2>1. PICK dst \in Sources : Give(c, op, dst, dst, none, arch)
    BY <1>4 DEF GiveTar
  <2>2. op \in Ops /\ op \notin TwoPlaces /\ op # "webrename" /\ version' = version
    BY <1>4 DEF Ops, WebOps, TwoPlaces, GiveTar
  <2>6. none \in Seq(Nat)
    OBVIOUS
  <2>3. IsTree(arch)
    BY DEF FileInv
  <2>4. op = "tar put"
    OBVIOUS
  <2> HIDE DEF op, none
  <2>5. InHand(disk, cmd')
    BY <2>1, <2>2, <2>3, <2>4, <2>6, GiveIs
  <2> QED BY <2>1, <2>2, <2>5 DEF FileInv, Give
<1> QED BY <1>2, <1>3, <1>4

\* The looks of cp and mv settle where to copy, and change nothing.
LEMMA LookStep ==
    ASSUME FileInv, NEW c \in Clients, LookSource(c) \/ LookTarget(c)
    PROVE  FileInv'
<1> DEFINE k == cmd[c]
<1>1. k \in Cmds /\ CmdShape(k) /\ Waits(disk, k) /\ Sees(disk, k) /\ cmd \in [Clients -> {Idle} \cup Cmds]
  <2>1. k.st # "idle"
    BY DEF LookSource, LookTarget
  <2> QED BY <2>1, InWork DEF CmdGood, FileInv, InHand
<1>2. CASE LookSource(c)
  <2>1. PICK yes \in BOOLEAN : cmd' = [cmd EXCEPT ![c].st = "target", ![c].dir = yes]
    BY <1>2 DEF LookSource, fs_shared_fs_is_dir
  <2> DEFINE j == [k EXCEPT !.st = "target", !.dir = yes]
  <2>2. cmd' = [cmd EXCEPT ![c] = j]
    BY <1>1, <2>1
  <2>3. k.st = "source"
    BY <1>2 DEF LookSource
  <2> HIDE DEF k
  <2>4. /\ j \in Cmds /\ j.st = "target" /\ j.op = k.op /\ j.src = k.src /\ j.dst = k.dst /\ j.data = k.data
        /\ j.final = k.final /\ j.before = k.before /\ j.touched = k.touched
        /\ j.goals = k.goals /\ j.twice = k.twice
    BY <1>1 DEF Cmds
  <2> HIDE DEF j
  <2>5. CmdShape(j) /\ Waits(disk, j) /\ Sees(disk, j) /\ Answers(disk, j) /\ Keeps(disk, j)
    BY <1>1, <2>3, <2>4 DEF CmdShape, Waits, Sees, Answers, Keeps, Looking
  <2>6. CmdGood(disk, j)
    BY <2>4, <2>5 DEF CmdGood
  <2>7. InHand(disk, cmd')
    BY <2>2, <2>6, GoesOn
  <2> QED BY <1>2, <2>7 DEF FileInv, LookSource
<1>3. CASE LookTarget(c)
  <2>1. PICK yes \in BOOLEAN :
            /\ yes => HoldsDir(disk, k.dst.vol, Key(k.dst.p))
            /\ cmd' = [cmd EXCEPT ![c].st = "act",
                                  ![c].final = IF yes THEN Append(@, Last(cmd[c].src.p)) ELSE @]
    BY <1>3 DEF LookTarget, fs_shared_fs_is_dir
  <2> DEFINE f == IF yes THEN Append(k.final, Last(k.src.p)) ELSE k.final
             j == [k EXCEPT !.st = "act", !.final = f]
  <2>2. cmd' = [cmd EXCEPT ![c] = j]
    BY <1>1, <2>1
  <2>3. k.st = "target"
    BY <1>3 DEF LookTarget
  <2> HIDE DEF k
  <2>4. /\ k.final \in Seq(Spellings) /\ k.src.p \in Seq(Spellings) /\ k.src.p # <<>>
        /\ k.final = k.dst.p
    BY <1>1, <2>3, KeysOf DEF CmdShape
  <2>5. f \in Seq(Spellings) /\ (f = k.dst.p \/ f = Append(k.dst.p, Last(k.src.p)))
    BY <2>4, LastSpelled, AppendProperties
  <2>10. f # k.dst.p => Based(k.src, k.dst) \in k.goals
    <3>1. f # k.dst.p => HoldsDir(disk, k.dst.vol, Key(k.dst.p))
      BY <2>1, <2>4
    <3>2. k.op \in Looking /\ Destination(disk, k.op, k.src, k.dst) \in k.goals
      BY <1>1, <2>3 DEF CmdShape, Sees
    <3> QED BY <3>1, <3>2 DEF Destination
  <2> HIDE DEF f
  <2>6. /\ j \in Cmds /\ j.st = "act" /\ j.op = k.op /\ j.src = k.src /\ j.dst = k.dst /\ j.data = k.data
        /\ j.dir = k.dir /\ j.final = f /\ j.before = k.before /\ j.touched = k.touched
        /\ j.goals = k.goals /\ j.twice = k.twice
    BY <1>1, <2>5 DEF Cmds
  <2> HIDE DEF j
  <2>7. CmdShape(j) /\ Waits(disk, j) /\ Sees(disk, j) /\ Answers(disk, j) /\ Keeps(disk, j)
    BY <1>1, <2>3, <2>5, <2>6, <2>10 DEF CmdShape, Waits, Sees, Answers, Keeps
  <2>8. CmdGood(disk, j)
    BY <2>6, <2>7 DEF CmdGood
  <2>9. InHand(disk, cmd')
    BY <2>2, <2>8, GoesOn
  <2> QED BY <1>3, <2>9 DEF FileInv, LookTarget
<1> QED BY <1>2, <1>3

\* A locked call ends: its command goes on, the others notice.
LEMMA AppliedIs ==
    ASSUME FileInv, NEW c \in Clients, cmd[c] \in Cmds, NEW u, Sound(u), NEW st,
           CmdGood(u.t, [cmd[c] EXCEPT !.st = st, !.ok = u.ok, !.lost = u.lost]), Applied(c, u, st)
    PROVE  FileInv'
<1> DEFINE j == [cmd[c] EXCEPT !.st = st, !.ok = u.ok, !.lost = u.lost]
           m == [x \in Clients |-> IF x = c THEN j ELSE Noticed(cmd[x], u.t)]
<1>1. u.t \in Disks /\ AllRooted(u.t)
  BY DEF Sound, Outs
<1>2. /\ disk' = u.t /\ cmd' = m
      /\ arch' = arch /\ version' = version
  BY DEF Applied
<1>3. CmdGood(u.t, j) /\ j \in Cmds
  BY DEF CmdGood
<1> HIDE DEF j
<1>4. \A x \in Clients : Noticed(cmd[x], u.t) = Idle \/ CmdGood(u.t, Noticed(cmd[x], u.t))
  <2> TAKE x \in Clients
  <2>1. CASE cmd[x] = Idle
    BY <2>1 DEF Noticed
  <2>2. CASE cmd[x] # Idle
    <3>1. cmd[x] \in Cmds /\ CmdGood(disk, cmd[x])
      BY <2>2 DEF FileInv, InHand
    <3> QED BY <3>1, NoticedIs
  <2> QED BY <2>1, <2>2
<1>5. \A x \in Clients : m[x] = Idle \/ CmdGood(u.t, m[x])
  BY <1>3, <1>4
<1>6. m \in [Clients -> {Idle} \cup Cmds]
  <2>1. \A x \in Clients : m[x] \in {Idle} \cup Cmds
    BY <1>5 DEF CmdGood
  <2>2. m = [x \in Clients |-> m[x]]
    OBVIOUS
  <2> HIDE DEF m
  <2> QED BY <2>1, <2>2
<1> HIDE DEF m
<1>7. InHand(u.t, m)
  BY <1>5, <1>6 DEF InHand
<1> QED BY <1>1, <1>2, <1>7 DEF FileInv

\* The locked call of a command.
LEMMA ActStep ==
    ASSUME OneSpelling, FileInv, NEW c \in Clients, Act(c)
    PROVE  FileInv'
<1> DEFINE k == cmd[c]
           up == vol[k.src.vol] = "ready" /\ vol[k.dst.vol] = "ready"
<1>1. PICK u \in Fails(disk) \cup (IF up THEN Effect(k) ELSE {}) :
          Applied(c, u, IF Crosses(k) /\ u.ok THEN "remove" ELSE "done")
  BY DEF Act
<1>2. k.st = "act"
  BY DEF Act
<1>3. k \in Cmds /\ CmdGood(disk, k) /\ disk \in Disks /\ AllRooted(disk)
  BY <1>2, InWork DEF FileInv
<1>4. CmdShape(k) /\ Acting(k)
  BY <1>2, <1>3 DEF Acting, CmdGood
<1> DEFINE st == IF Crosses(k) /\ u.ok THEN "remove" ELSE "done"
           j == [k EXCEPT !.st = st, !.ok = u.ok, !.lost = u.lost]
<1>5. Applied(c, u, st)
  BY <1>1
<1>6. CallSettled(u, k)
  <2>1. u \in Fails(disk) \/ u \in Effect(k)
    BY <1>1
  <2> HIDE DEF k
  <2> QED BY <1>3, <1>4, <2>1, FailsSettled, EffectSettled
<1>7. Sound(u) /\ u.ok \in BOOLEAN /\ u.lost \in BOOLEAN
  BY <1>6 DEF CallSettled, Sound, Outs
<1>8. st \in {"remove", "done"} /\ (st = "remove" => Crosses(k) /\ u.ok)
  OBVIOUS
<1> HIDE DEF st, k
<1>9. /\ j \in Cmds /\ j.st = st /\ j.op = k.op /\ j.src = k.src /\ j.dst = k.dst /\ j.data = k.data
      /\ j.dir = k.dir /\ j.final = k.final /\ j.before = k.before /\ j.touched = k.touched
      /\ j.ok = u.ok /\ j.lost = u.lost /\ j.goals = k.goals /\ j.twice = k.twice
  BY <1>3, <1>7, <1>8 DEF Cmds
<1> HIDE DEF j
<1>10. Alike(j, k)
  BY <1>9 DEF Alike
<1>11. /\ StoredIn(u.t, j) <=> StoredIn(u.t, k)
       /\ KeptIn(u.t, j) <=> KeptIn(u.t, k)
       /\ OnItself(j) <=> OnItself(k)
       /\ BelowItself(j) <=> BelowItself(k)
       /\ Crosses(j) <=> Crosses(k)
  BY <1>9, <1>10, AlikeIs
<1>12. CmdShape(j)
  BY <1>4, <1>6, <1>8, <1>9, <1>11 DEF CmdShape, CallSettled
<1>13. Waits(u.t, j) /\ Sees(u.t, j)
  BY <1>8, <1>9 DEF Waits, Sees
<1>14. Answers(u.t, j) /\ Keeps(u.t, j)
  BY <1>6, <1>9, <1>11 DEF Answers, Keeps, CallSettled
<1>15. CmdGood(u.t, j)
  BY <1>9, <1>12, <1>13, <1>14 DEF CmdGood
<1> QED BY <1>3, <1>5, <1>7, <1>15, AppliedIs DEF j, k

\* The source of a move between volumes goes; its copy is on the other one.
LEMMA RemoveStep ==
    ASSUME FileInv, NEW c \in Clients, RemoveSource(c)
    PROVE  FileInv'
<1> DEFINE k == cmd[c]
           o == Key(k.src.p)
           v == k.src.vol
           gone == IF k.dir THEN fs_shared_fs_rm_recursive(disk, v, o)
                   ELSE fs_shared_fs_rm(disk, v, o)
<1>1. PICK u \in Fails(disk) \cup (IF vol[v] = "ready" THEN gone ELSE {}) : Applied(c, u, "done")
  BY DEF RemoveSource
<1>2. k.st = "remove"
  BY DEF RemoveSource
<1>3. k \in Cmds /\ CmdGood(disk, k) /\ disk \in Disks /\ AllRooted(disk)
  BY <1>2, InWork DEF FileInv
<1>4. CmdShape(k) /\ Answers(disk, k)
  BY <1>3 DEF CmdGood
<1>5. /\ v \in Volumes /\ o \in Objects /\ o # <<>> /\ k.dst.vol \in Volumes
  BY <1>3, <1>4, KeysOf
<1>6. k.op = "mv" /\ k.dst.vol # v /\ k.ok
  BY <1>2, <1>4 DEF CmdShape, Crosses
<1>7. Sound(u) /\ Elsewhere(disk, u.t, v)
  <2>1. u \in Fails(disk) \/ u \in fs_shared_fs_rm_recursive(disk, v, o) \/ u \in fs_shared_fs_rm(disk, v, o)
    BY <1>1
  <2> HIDE DEF k, o, v, gone
  <2>2. CASE u \in Fails(disk)
    BY <1>3, <2>2, FailsIs DEF Elsewhere
  <2>3. CASE u \in fs_shared_fs_rm_recursive(disk, v, o)
    BY <1>3, <1>5, <2>3, RmRecursiveIs DEF Removed
  <2>4. CASE u \in fs_shared_fs_rm(disk, v, o)
    BY <1>3, <1>5, <2>4, RmIs DEF Removed
  <2> QED BY <2>1, <2>2, <2>3, <2>4
<1>8. u.ok \in BOOLEAN /\ u.lost \in BOOLEAN /\ u.t[k.dst.vol] = disk[k.dst.vol]
  BY <1>5, <1>6, <1>7 DEF Sound, Outs, Elsewhere
<1> DEFINE j == [k EXCEPT !.st = "done", !.ok = u.ok, !.lost = u.lost]
<1> HIDE DEF k, o, v
<1>9. /\ j \in Cmds /\ j.st = "done" /\ j.op = k.op /\ j.src = k.src /\ j.dst = k.dst /\ j.data = k.data
      /\ j.dir = k.dir /\ j.final = k.final /\ j.before = k.before /\ j.touched = k.touched
      /\ j.ok = u.ok /\ j.lost = u.lost /\ j.goals = k.goals /\ j.twice = k.twice
  BY <1>3, <1>8 DEF Cmds
<1> HIDE DEF j
<1>10. Alike(j, k)
  BY <1>9 DEF Alike
<1>11. /\ StoredIn(u.t, j) <=> StoredIn(u.t, k)
       /\ KeptIn(u.t, j) <=> KeptIn(u.t, k)
  BY <1>9, <1>10, AlikeIs
<1>12. CmdShape(j) /\ Waits(u.t, j) /\ Sees(u.t, j)
  BY <1>4, <1>9 DEF CmdShape, Waits, Sees
<1>13. ~ k.touched => StoredIn(u.t, k) /\ KeptIn(u.t, k)
  <2> SUFFICES ASSUME ~ k.touched
               PROVE  StoredIn(u.t, k) /\ KeptIn(u.t, k)
    OBVIOUS
  <2>1. StoredIn(disk, k)
    BY <1>2, <1>4, <1>6 DEF Answers, Unsynced, BelowItself
  <2>2. StoredIn(u.t, k)
    BY <1>3, <1>4, <1>6, <1>8, <2>1, StoredStays DEF TwoPlaces
  <2>3. WholeIn(u.t, k)
    BY <1>6, <2>2 DEF StoredIn, TwoPlaces
  <2> QED BY <1>3, <1>4, <2>2, <2>3, CopiedIs
<1>14. Answers(u.t, j) /\ Keeps(u.t, j)
  BY <1>9, <1>11, <1>13 DEF Answers, Keeps
<1>15. CmdGood(u.t, j)
  BY <1>9, <1>12, <1>14 DEF CmdGood
<1> QED BY <1>1, <1>3, <1>7, <1>15, AppliedIs DEF j, k

\* The invariant of the commands is inductive.
LEMMA FileInvStep == OneSpelling /\ FileInv /\ [Next]_vars => FileInv'
<1> SUFFICES ASSUME OneSpelling, FileInv, [Next]_vars
             PROVE  FileInv'
  OBVIOUS
<1>1. CASE UNCHANGED vars
  BY <1>1 DEF vars, FileInv
<1>2. CASE \E v \in Volumes : fs_shared_mount(v) \/ MediaStops(v)
  BY <1>2 DEF fs_shared_mount, MediaStops, FileInv
<1>3. ASSUME NEW c \in Clients, GiveMove(c) \/ GiveChange(c) \/ GiveTar(c)
      PROVE  FileInv'
  BY <1>3, GiveStep
<1>4. ASSUME NEW c \in Clients, handle_get_tar(c)
      PROVE  FileInv'
  <2>1. PICK place \in Sources : arch' = Found(place)
    BY <1>4 DEF handle_get_tar
  <2>2. IsTree(arch')
    BY <2>1, FoundIs
  <2> QED BY <1>4, <2>2 DEF handle_get_tar, FileInv
<1>5. ASSUME NEW c \in Clients, LookSource(c) \/ LookTarget(c)
      PROVE  FileInv'
  BY <1>5, LookStep
<1>6. ASSUME NEW c \in Clients, Reply(c)
      PROVE  FileInv'
  <2>1. InHand(disk, [cmd EXCEPT ![c] = Idle])
    BY GoesOn
  <2> QED BY <1>6, <2>1 DEF Reply, FileInv
<1> QED BY <1>1, <1>2, <1>3, <1>4, <1>5, <1>6, ActStep, RemoveStep DEF Next

\* It says what the two properties say.
LEMMA FileInvHolds == FileInv => KeepsSource /\ OkMeansStored
<1> SUFFICES ASSUME FileInv, NEW c \in Clients
             PROVE  LET k == cmd[c]
                    IN  /\ k.st = "done" /\ k.op \in TwoPlaces /\ ~ k.touched /\ ~ OnItself(k) /\ ~ BelowItself(k)
                           => \A r \in Files(k.before) :
                                  \/ Holds(k.src.vol, Key(k.src.p), k, r)
                                  \/ \E s \in Spots(k) : Holds(k.dst.vol, s, k, r)
                        /\ /\ k.st = "done" /\ k.ok /\ ~ k.touched /\ ~ (k.op \in Unsynced /\ k.lost)
                           /\ ~ BelowItself(k) /\ ~ OverFile(k)
                           => Stored(k)
  BY DEF KeepsSource, OkMeansStored, Promises
<1> DEFINE k == cmd[c]
<1>1. CASE k.st # "done"
  BY <1>1
<1>2. CASE k.st = "done"
  <2>1. k \in Cmds /\ CmdGood(disk, k)
    BY <1>2, InWork
  <2> HIDE DEF k
  <2>2. k.op \in Ops /\ Answers(disk, k) /\ Keeps(disk, k)
    BY <2>1 DEF CmdGood, Cmds
  <2>3. StoredIn(disk, k) /\ ~ OverFile(k) => Stored(k)
    BY <2>2, PropertiesAre
  <2>4. KeptIn(disk, k) =>
            \A r \in Files(k.before) :
                \/ Holds(k.src.vol, Key(k.src.p), k, r)
                \/ \E s \in Spots(k) : Holds(k.dst.vol, s, k, r)
    BY DEF KeptIn, HoldsIn, Holds
  <2> QED BY <1>2, <2>2, <2>3, <2>4 DEF Answers, Keeps, k
<1> QED BY <1>1, <1>2

\* However a copy, a move or a rename ends, at whatever FatFs call it fails and
\* whatever the other clients do in between, every file that was below its source is
\* whole at the source or at the target, unless another client changed it: for every
\* set of clients, volumes, names and places, trees of any depth and texts of any
\* length.  One spelling per name: with two, fs_shared.c takes a name for another
\* (run file_rename).
THEOREM FilesAreKept ==
    ASSUME OneSpelling
    PROVE  Spec => []KeepsSource
<1>1. OneSpelling
  OBVIOUS
<1>2. FileInv /\ [Next]_vars => FileInv'
  BY FileInvStep
<1> QED BY <1>2, FileInvInit, FileInvHolds, PTL DEF Spec

\* A command that answers success has done its work when the answer goes out: the
\* text, the upload or the archive is whole at its place, the removed object is gone
\* with all below it, what mkdir made is a directory, and a copy or a move is whole
\* at the target, or if that was a directory at its base name in there.  Excepted are
\* the mkdir of what is a file (FileMkdir.cfg), the second base name where a
\* directory had the first (FileBaseName.cfg), what plain PUT and the archive do
\* not flush (lost), and a directory the web interface renames below itself.
THEOREM AnswersAreTrue ==
    ASSUME OneSpelling
    PROVE  Spec => []OkMeansStored
<1>1. FileInv /\ [Next]_vars => FileInv'
  BY FileInvStep
<1> QED BY <1>1, FileInvInit, FileInvHolds, PTL DEF Spec

\* What is proved of the commands holds of the whole.
THEOREM FilesHaveCommands == FilesSpec => Spec
<1>1. FilesInit => Init
  BY DEF FilesInit
<1>2. [FilesNext]_<<part, vars, xfervars, convars>> => [Next]_vars
  <2> SUFFICES ASSUME [FilesNext]_<<part, vars, xfervars, convars>>
               PROVE  [Next]_vars
    OBVIOUS
  <2>1. CASE UNCHANGED <<part, vars, xfervars, convars>>
    BY <2>1
  <2>2. CASE FilesNext
    BY <2>2 DEF FilesNext
  <2> QED BY <2>1, <2>2
<1> QED BY <1>1, <1>2, PTL DEF FilesSpec, Spec
=============================================================================

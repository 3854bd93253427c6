--------------------------- MODULE FileTree_proofs ---------------------------
(* Moving a tree into an empty directory loses nothing, fails only when a     *)
(* system call fails, is complete when it says so and undone when it fails:   *)
(* for any tree, any size of its files and any number of failures.            *)
EXTENDS FileTree, SequenceFacts

Sides   == {"src", "dst"}
Streams == [dir: Nodes \cup {Root}, left: SUBSET Nodes]

Lefts(ss) == UNION {ss[i].left : i \in 1..Len(ss)}
\* Found and not yet dealt with; still to be read from a directory.
Listed(n)   == n \in Elems(dirList) \cup Elems(fileList)
Streamed(n) == n \in Lefts(streams)
\* Copied whole; copied, or going to be.
InDst(n) == n \in Nodes /\ tree["dst"][n] = Original(n)
Have(n)  == Listed(n) \/ InDst(n)

TreeShape == DOMAIN tree = Sides /\ \A s \in Sides : DOMAIN tree[s] = Nodes
Shapes ==
  /\ TreeShape
  /\ dirList \in Seq(Nodes) /\ fileList \in Seq(Nodes) /\ streams \in Seq(Streams)
  /\ block \in Nat /\ job \in {"copy", "wipe_src", "wipe_dst"}
  /\ (pc = "list") = (streams # <<>>)
  /\ job = "copy" => pc \in {"list", "mkdirs", "copy"}
  /\ job # "copy" => pc \notin {"mkdirs", "copy"}
  /\ pc = "copy" => dirList = <<>>
  /\ block # 0 => pc = "copy" /\ fileList # <<>>

SrcWhole == job # "wipe_src" => \A n \in Nodes : tree["src"][n] = Original(n)

\* The copy of n has its first k blocks.
Upto(n, k) == [i \in 1..k |-> <<n, i>>]
Partly(n, k) ==
  /\ k \in 0..Blocks[n]
  /\ tree["dst"][n] = [kind |-> "file", blocks |-> Upto(n, k), attr |-> tree["dst"][n].attr]
Begun == \A n \in Nodes : tree["dst"][n].kind = "file" /\ Kind[n] = "file" =>
                            \E k \in Nat : Partly(n, k)
Reached == LET f == Head(fileList) IN
  block # 0 => Kind[f] = "file" /\ \E k \in Nat : k >= block - 1 /\ Partly(f, k)
\* What is below something found is found, or about to be.
Closed == \A m \in Nodes :
            Parent[m] = Root \/ Have(Parent[m]) => Have(m) \/ Streamed(m)
CopyInv == job = "copy" => Begun /\ Reached /\ Closed

\* What may be removed from the source is in the destination.
WipeInv == job = "wipe_src" =>
  /\ \A n \in Nodes : tree["src"][n] \in {Original(n), Missing}
  /\ \A n \in Nodes : tree["src"][n] = Original(n) \/ InDst(n)
  /\ \A n \in Nodes : Listed(n) \/ Streamed(n) => InDst(n)
  /\ \A m \in Nodes : Parent[m] = Root \/ InDst(Parent[m]) => InDst(m)

\* The inductive invariant.
TreeInv == Shapes /\ SrcWhole /\ CopyInv /\ WipeInv

-----------------------------------------------------------------------------
(* Lists and streams.                                                        *)

LEMMA EmptyElems == Elems(<<>>) = {} /\ Lefts(<<>>) = {}
BY DEF Elems, Lefts

LEMMA LeftsOfElems == ASSUME NEW ss PROVE Lefts(ss) = UNION {t.left : t \in Elems(ss)}
BY DEF Lefts, Elems

-----------------------------------------------------------------------------
(* Trees and lists.                                                          *)

LEMMA SetTree ==
  ASSUME TreeShape, NEW side \in Sides, NEW n \in Nodes, NEW v, Set(side, n, v)
  PROVE  /\ TreeShape' /\ tree'[side][n] = v
         /\ \A s \in Sides, m \in Nodes : s # side \/ m # n => tree'[s][m] = tree[s][m]
BY DEF TreeShape, Set, Sides

LEMMA KindOfOriginal ==
  ASSUME NEW n \in Nodes
  PROVE  /\ Original(n).kind = Kind[n] /\ Kind[n] # "none" /\ Original(n) # Missing
         /\ Kind[n] \in {"dir", "file", "link"}
<1>1. Kind[n] \in {"dir", "file", "link"}
  BY TreeAssumption
<1>2. Original(n).kind = Kind[n] /\ Missing.kind = "none"
  BY DEF Original, Missing
<1> QED BY <1>1, <1>2

\* A new listing, after the copy or after its failure.
LEMMA StartShapes ==
  ASSUME NEW j \in {"wipe_src", "wipe_dst"}, NEW t, StartList(j, t), TreeShape'
  PROVE  /\ Shapes' /\ job' = j
         /\ \A n : ~Listed(n)'
         /\ \A n : Streamed(n)' => n \in Entries(t, Root)
<1>1. Stream(t, Root) \in Streams /\ Stream(t, Root).left = Entries(t, Root)
  BY DEF Stream, Streams, Entries
<1>2. streams' = <<Stream(t, Root)>> /\ dirList' = <<>> /\ fileList' = <<>>
  BY DEF StartList
<1>3. streams' \in Seq(Streams) /\ streams' # <<>> /\ Len(streams') = 1
      /\ streams'[1] = Stream(t, Root)
  BY <1>1, <1>2
<1>4. Shapes'
  BY <1>2, <1>3 DEF StartList, Shapes
<1>5. \A n : ~Listed(n)'
  BY <1>2, EmptyElems DEF Listed
<1>6. ASSUME NEW n, Streamed(n)' PROVE n \in Entries(t, Root)
  <2>1. PICK i \in 1..Len(streams') : n \in streams'[i].left
    BY <1>6 DEF Streamed, Lefts
  <2>2. i = 1
    BY <1>3
  <2> QED BY <1>1, <1>3, <2>1, <2>2
<1>7. job' = j
  BY DEF StartList
<1> QED BY <1>4, <1>5, <1>6, <1>7

\* A copy that fails: the source is whole, and the destination is emptied.
LEMMA FailKeeps ==
  ASSUME TreeInv, job = "copy", NEW t, Fail(t), TreeShape', tree'["src"] = tree["src"]
  PROVE  TreeInv'
<1>1. StartList("wipe_dst", t["dst"])
  BY DEF Fail
<1>2. Shapes' /\ job' = "wipe_dst"
  BY <1>1, StartShapes
<1>3. SrcWhole'
  BY DEF TreeInv, SrcWhole
<1> QED BY <1>2, <1>3 DEF TreeInv, CopyInv, WipeInv

\* The end of a removal.
LEMMA EndKeeps ==
  ASSUME TreeInv, job # "copy", NEW r, End(r), UNCHANGED tree
  PROVE  TreeInv'
<1>1. /\ pc' = "done" /\ streams' = <<>> /\ job' = job /\ block' = block
      /\ dirList' = dirList /\ fileList' = fileList /\ tree' = tree
  BY DEF End, lists
<1>2. block = 0
  BY DEF TreeInv, Shapes
<1>3. <<>> \in Seq(Streams)
  OBVIOUS
<1>4. Shapes'
  BY <1>1, <1>2, <1>3 DEF TreeInv, Shapes, TreeShape
<1>5. SrcWhole'
  BY <1>1 DEF TreeInv, SrcWhole
<1>6. WipeInv'
  <2>1. \A n : (Listed(n)' <=> Listed(n)) /\ ~Streamed(n)' /\ (InDst(n)' <=> InDst(n))
    BY <1>1, EmptyElems DEF Listed, Streamed, InDst
  <2> QED BY <1>1, <2>1 DEF TreeInv, WipeInv
<1> QED BY <1>1, <1>4, <1>5, <1>6 DEF TreeInv, CopyInv

-----------------------------------------------------------------------------
(* One lemma per action.                                                     *)

LEMMA InitKeeps == ASSUME Stale = {}, Init PROVE TreeInv
<1>1. tree["src"] = [n \in Nodes |-> Original(n)] /\ tree["dst"] = [n \in Nodes |-> Missing]
  BY DEF Init
<1>2. TreeShape
  BY DEF Init, TreeShape, Sides
<1>3. Stream(tree["src"], Root) \in Streams
      /\ Stream(tree["src"], Root).left = Entries(tree["src"], Root)
  BY DEF Stream, Streams, Entries
<1>4. streams \in Seq(Streams) /\ streams # <<>> /\ Len(streams) = 1
      /\ streams[1] = Stream(tree["src"], Root)
  BY <1>3 DEF Init
<1>5. Shapes
  BY <1>2, <1>4 DEF Init, Shapes
<1>6. SrcWhole
  BY <1>1 DEF SrcWhole
<1>7. Begun /\ Reached
  BY <1>1 DEF Init, Begun, Reached, Missing
<1>8. Closed
  <2> SUFFICES ASSUME NEW m \in Nodes, Parent[m] = Root \/ Have(Parent[m])
               PROVE  Streamed(m)
    BY DEF Closed
  <2>1. \A n : ~Have(n)
    BY <1>1, EmptyElems, KindOfOriginal DEF Init, Have, Listed, InDst
  <2>2. m \in Entries(tree["src"], Root)
    BY <1>1, <2>1, KindOfOriginal DEF Entries
  <2>3. 1 \in 1..Len(streams) /\ m \in streams[1].left
    BY <1>3, <1>4, <2>2
  <2> QED BY <2>3 DEF Streamed, Lefts
<1>9. job = "copy"
  BY DEF Init
<1> QED BY <1>5, <1>6, <1>7, <1>8, <1>9 DEF TreeInv, CopyInv, WipeInv

\* What reading n does to the lists.
LEMMA ReadEntryMoves ==
  ASSUME TreeInv, NEW n \in Nodes, ReadEntry(n)
  PROVE  /\ Shapes' /\ Streamed(n)
         /\ \A m : Listed(m)' <=> Listed(m) \/ m = n
         /\ \A m : Streamed(m) => Streamed(m)' \/ m = n
         /\ \A m : Streamed(m)' =>
               Streamed(m) \/ (tree[Side][n].kind = "dir" /\ m \in Entries(tree[Side], n))
         /\ tree[Side][n].kind = "dir" => \A m \in Entries(tree[Side], n) : Streamed(m)'
<1> DEFINE top == Head(streams)
           cut == [top EXCEPT !.left = @ \ {n}]
           rest == <<cut>> \o Tail(streams)
           isDir == tree[Side][n].kind = "dir"
           new == Stream(tree[Side], n)
<1>1. /\ streams \in Seq(Streams) /\ streams # <<>> /\ pc = "list"
      /\ dirList \in Seq(Nodes) /\ fileList \in Seq(Nodes)
  BY DEF ReadEntry, TreeInv, Shapes
<1>2. top \in Streams /\ Tail(streams) \in Seq(Streams)
      /\ Elems(streams) = {top} \cup Elems(Tail(streams))
  BY <1>1, TailElems
<1>3. cut \in Streams /\ cut.left = top.left \ {n}
  BY <1>2 DEF Streams
<1>4. rest \in Seq(Streams) /\ rest # <<>> /\ Elems(rest) = {cut} \cup Elems(Tail(streams))
  BY <1>2, <1>3, ConsElems
<1>5. new \in Streams /\ new.left = Entries(tree[Side], n)
  BY DEF Stream, Streams, Entries
<1>6. <<new>> \o rest \in Seq(Streams) /\ <<new>> \o rest # <<>>
      /\ Elems(<<new>> \o rest) = {new} \cup Elems(rest)
  BY <1>4, <1>5, ConsElems
<1>7. streams' = IF isDir THEN <<new>> \o rest ELSE rest
  BY DEF ReadEntry
<1>8. n \in top.left
  BY DEF ReadEntry
<1> HIDE DEF cut, rest, new
<1>9. /\ Elems(streams') = (IF isDir THEN {new} ELSE {}) \cup {cut} \cup Elems(Tail(streams))
      /\ streams' \in Seq(Streams) /\ streams' # <<>>
  BY <1>4, <1>6, <1>7
<1>10. \A m : Streamed(m) <=> m \in top.left \/ \E t \in Elems(Tail(streams)) : m \in t.left
  BY <1>2, LeftsOfElems DEF Streamed
<1>11. \A m : Streamed(m)' <=> \/ isDir /\ m \in new.left
                               \/ m \in cut.left
                               \/ \E t \in Elems(Tail(streams)) : m \in t.left
  <2>1. \A m : Streamed(m)' <=> \E t \in Elems(streams') : m \in t.left
    BY LeftsOfElems DEF Streamed
  <2> QED BY <1>9, <2>1
<1>12. /\ <<n>> \o dirList \in Seq(Nodes) /\ <<n>> \o fileList \in Seq(Nodes)
       /\ Elems(<<n>> \o dirList) = {n} \cup Elems(dirList)
       /\ Elems(<<n>> \o fileList) = {n} \cup Elems(fileList)
  BY <1>1, ConsElems
<1>13. /\ dirList' = IF isDir THEN <<n>> \o dirList ELSE dirList
       /\ fileList' = IF isDir THEN fileList ELSE <<n>> \o fileList
       /\ UNCHANGED <<tree, job, pc, block>>
  BY DEF ReadEntry
<1>14. \A m : Listed(m)' <=> Listed(m) \/ m = n
  BY <1>12, <1>13 DEF Listed
<1>15. Shapes'
  <2>1. dirList' \in Seq(Nodes) /\ fileList' \in Seq(Nodes)
    BY <1>1, <1>12, <1>13
  <2> QED BY <1>1, <1>9, <1>13, <2>1 DEF TreeInv, Shapes, TreeShape
<1> QED BY <1>3, <1>5, <1>8, <1>10, <1>11, <1>14, <1>15

LEMMA ReadEntryKeeps ==
  ASSUME TreeInv, NEW n \in Nodes, ReadEntry(n)
  PROVE  TreeInv'
<1>1. UNCHANGED <<tree, job, pc, block>>
  BY DEF ReadEntry
<1>2. SrcWhole'
  BY <1>1 DEF TreeInv, SrcWhole
<1>3. block = 0
  BY DEF ReadEntry, TreeInv, Shapes
<1>4. \A m : InDst(m)' <=> InDst(m)
  BY <1>1 DEF InDst
<1>5. ASSUME job = "copy" PROVE Begun' /\ Reached' /\ Closed'
  <2>1. Begun'
    BY <1>1, <1>5 DEF TreeInv, CopyInv, Begun, Partly
  <2>2. Reached'
    BY <1>1, <1>3 DEF Reached
  <2>3. Closed'
    <3> SUFFICES ASSUME NEW m \in Nodes, Parent[m] = Root \/ Have(Parent[m])'
                 PROVE  (Have(m) \/ Streamed(m))'
      BY DEF Closed
    <3>1. \A x : Have(x)' <=> Have(x) \/ x = n
      BY <1>4, ReadEntryMoves DEF Have
    <3>2. CASE Parent[m] = Root \/ Have(Parent[m])
      <4>1. Have(m) \/ Streamed(m)
        BY <1>5, <3>2 DEF TreeInv, CopyInv, Closed
      <4> QED BY <3>1, <4>1, ReadEntryMoves
    <3>3. CASE Parent[m] = n
      <4>1. Kind[n] = "dir"
        BY <3>3, TreeAssumption
      <4>2. \A x \in Nodes : tree[Side][x].kind = Kind[x] /\ Kind[x] # "none"
        BY <1>5, KindOfOriginal DEF TreeInv, SrcWhole, Side
      <4>3. m \in Entries(tree[Side], n) /\ tree[Side][n].kind = "dir"
        BY <3>3, <4>1, <4>2 DEF Entries
      <4> QED BY <4>3, ReadEntryMoves
    <3> QED BY <3>1, <3>2, <3>3
  <2> QED BY <2>1, <2>2, <2>3
<1>6. ASSUME job = "wipe_src" PROVE WipeInv'
  <2>1. \A m \in Nodes : Listed(m) \/ Streamed(m) => InDst(m)
    BY <1>6 DEF TreeInv, WipeInv
  <2>2. InDst(n)
    BY <2>1, ReadEntryMoves
  <2>3. ASSUME NEW m \in Entries(tree[Side], n) PROVE InDst(m)
    <3>1. m \in Nodes /\ Parent[m] = n
      BY DEF Entries
    <3> QED BY <1>6, <2>2, <3>1 DEF TreeInv, WipeInv
  <2>4. \A m \in Nodes : Listed(m)' \/ Streamed(m)' => InDst(m)
    BY <2>1, <2>2, <2>3, ReadEntryMoves
  <2> QED BY <1>1, <1>4, <1>6, <2>4 DEF TreeInv, WipeInv
<1> QED BY <1>1, <1>2, <1>5, <1>6, ReadEntryMoves DEF TreeInv, CopyInv, WipeInv

LEMMA CloseDirKeeps ==
  ASSUME TreeInv, CloseDir
  PROVE  TreeInv'
<1>1. /\ streams \in Seq(Streams) /\ streams # <<>> /\ pc = "list"
      /\ Head(streams).left = {} /\ streams' = Tail(streams)
      /\ UNCHANGED <<tree, job, lists, block>>
  BY DEF CloseDir, TreeInv, Shapes
<1>2. Tail(streams) \in Seq(Streams) /\ (Len(streams) > 1 <=> Tail(streams) # <<>>)
  <2>1. /\ Tail(streams) \in Seq(Streams) /\ Len(streams) \in Nat \ {0}
        /\ Len(Tail(streams)) = Len(streams) - 1
    BY <1>1
  <2>2. Tail(streams) = <<>> <=> Len(Tail(streams)) = 0
    BY <2>1, EmptySeq
  <2> QED BY <2>1, <2>2
<1>3. pc' = IF Len(streams) > 1 THEN "list" ELSE IF job = "copy" THEN "mkdirs" ELSE "files"
  BY DEF CloseDir
<1>4. Shapes'
  BY <1>1, <1>2, <1>3 DEF TreeInv, Shapes, TreeShape, lists
<1>5. \A m : Streamed(m)' <=> Streamed(m)
  <2>1. Elems(streams) = {Head(streams)} \cup Elems(Tail(streams))
    BY <1>1, TailElems
  <2>2. \A m : Streamed(m) <=> \E t \in Elems(streams) : m \in t.left
    BY LeftsOfElems DEF Streamed
  <2>3. \A m : Streamed(m)' <=> \E t \in Elems(Tail(streams)) : m \in t.left
    BY <1>1, LeftsOfElems DEF Streamed
  <2> QED BY <1>1, <2>1, <2>2, <2>3
<1>6. \A m : (Listed(m)' <=> Listed(m)) /\ (InDst(m)' <=> InDst(m)) /\ (Have(m)' <=> Have(m))
  BY <1>1 DEF Listed, InDst, Have, lists
<1>7. SrcWhole'
  BY <1>1 DEF TreeInv, SrcWhole
<1>8. block = 0
  BY <1>1 DEF TreeInv, Shapes
<1>9. CopyInv'
  <2>1. Begun' <=> Begun
    BY <1>1 DEF Begun, Partly
  <2>2. Closed' <=> Closed
    BY <1>5, <1>6 DEF Closed
  <2>3. Reached'
    BY <1>1, <1>8 DEF Reached
  <2> QED BY <1>1, <2>1, <2>2, <2>3 DEF TreeInv, CopyInv
<1>10. WipeInv'
  BY <1>1, <1>5, <1>6 DEF TreeInv, WipeInv
<1> QED BY <1>4, <1>7, <1>9, <1>10 DEF TreeInv

LEMMA ListFailsKeeps ==
  ASSUME TreeInv, ListFails
  PROVE  TreeInv'
<1>1. Fail(tree) /\ UNCHANGED tree
  BY DEF ListFails
<1>2. CASE job = "copy"
  BY <1>1, <1>2, FailKeeps DEF TreeInv, Shapes, TreeShape
<1>3. CASE job # "copy"
  <2>1. End("err")
    BY <1>1, <1>3 DEF Fail
  <2> QED BY <1>1, <1>3, <2>1, EndKeeps
<1> QED BY <1>2, <1>3

\* A step of the copy that brings d whole to the destination and takes it off a list.
LEMMA BroughtKeeps ==
  ASSUME TreeInv, job = "copy", pc \in {"mkdirs", "copy"}, NEW d \in Nodes,
         TreeShape', tree'["dst"][d] = Original(d),
         \A s \in Sides, m \in Nodes : s # "dst" \/ m # d => tree'[s][m] = tree[s][m],
         dirList' \in Seq(Nodes), fileList' \in Seq(Nodes), pc = "copy" => dirList' = <<>>,
         \A m : Listed(m)' \/ m = d <=> Listed(m) \/ m = d, Listed(d),
         block' = 0, UNCHANGED <<job, pc, streams>>
  PROVE  TreeInv'
<1>1. Shapes'
  BY DEF TreeInv, Shapes
<1>2. SrcWhole'
  BY DEF TreeInv, SrcWhole, Sides
<1>3. InDst(d)' /\ \A m : m # d => (InDst(m)' <=> InDst(m))
  BY DEF InDst, Sides
<1>4. \A m : Have(m)' <=> Have(m)
  BY <1>3 DEF Have
<1>5. Closed'
  <2>1. \A m : Streamed(m)' <=> Streamed(m)
    BY DEF Streamed
  <2> QED BY <1>4, <2>1 DEF TreeInv, CopyInv, Closed
<1>6. Begun'
  <2> SUFFICES ASSUME NEW n \in Nodes, tree'["dst"][n].kind = "file", Kind[n] = "file"
               PROVE  \E k \in Nat : Partly(n, k)'
    BY DEF Begun
  <2>1. CASE n = d
    <3>1. Blocks[d] \in Nat
      BY TreeAssumption
    <3>2. tree'["dst"][d] = [kind |-> "file", attr |-> "own", blocks |-> Upto(d, Blocks[d])]
      BY <2>1 DEF Original, Upto
    <3>3. Partly(d, Blocks[d])'
      BY <3>1, <3>2 DEF Partly
    <3> QED BY <2>1, <3>1, <3>3
  <2>2. CASE n # d
    <3>1. tree'["dst"][n] = tree["dst"][n]
      BY <2>2 DEF Sides
    <3>2. PICK k \in Nat : Partly(n, k)
      BY <3>1 DEF TreeInv, CopyInv, Begun
    <3>3. Partly(n, k)'
      BY <3>1, <3>2 DEF Partly
    <3> QED BY <3>3
  <2> QED BY <2>1, <2>2
<1>7. Reached'
  BY DEF Reached
<1> QED BY <1>1, <1>2, <1>5, <1>6, <1>7 DEF TreeInv, CopyInv, WipeInv

LEMMA MakeDirKeeps ==
  ASSUME TreeInv, MakeDir
  PROVE  TreeInv'
<1> DEFINE d == Last(dirList)
           new == [Original(d) EXCEPT !.attr = "other"]
<1>1. pc = "mkdirs" /\ job = "copy" /\ dirList \in Seq(Nodes) /\ dirList # <<>>
  BY DEF MakeDir, TreeInv, Shapes
<1>2. d \in Nodes /\ Front(dirList) \in Seq(Nodes) /\ Elems(dirList) = {d} \cup Elems(Front(dirList))
  BY <1>1, FrontElems
<1>3. TreeShape /\ \A n \in Nodes : tree["src"][n] = Original(n)
  BY <1>1 DEF TreeInv, Shapes, SrcWhole
<1> HIDE DEF d
<1>4. CASE /\ Set("dst", d, tree["src"][d]) /\ dirList' = Front(dirList)
           /\ UNCHANGED <<job, pc, streams, fileList, block, bad, result, faults>>
  <2>1. /\ TreeShape' /\ tree'["dst"][d] = Original(d)
        /\ \A s \in Sides, m \in Nodes : s # "dst" \/ m # d => tree'[s][m] = tree[s][m]
    BY <1>2, <1>3, <1>4, SetTree DEF Sides
  <2>2. Listed(d) /\ \A m : Listed(m)' \/ m = d <=> Listed(m) \/ m = d
    BY <1>2, <1>4 DEF Listed
  <2>3. block' = 0
    BY <1>1, <1>4 DEF TreeInv, Shapes
  <2>4. fileList' \in Seq(Nodes)
    BY <1>4 DEF TreeInv, Shapes
  <2> QED BY <1>1, <1>2, <1>4, <2>1, <2>2, <2>3, <2>4, BroughtKeeps
<1>5. CASE Fail(tree) /\ UNCHANGED tree
  BY <1>1, <1>3, <1>5, FailKeeps DEF TreeShape
<1>6. CASE Set("dst", d, new) /\ Fail(tree')
  <2>1. /\ TreeShape' /\ \A m \in Nodes : tree'["src"][m] = tree["src"][m]
    BY <1>2, <1>3, <1>6, SetTree DEF Sides
  <2>2. tree'["src"] = tree["src"]
    BY <1>6, <1>3 DEF Set, TreeShape, Sides
  <2> QED BY <1>1, <1>6, <2>1, <2>2, FailKeeps
<1> QED BY <1>4, <1>5, <1>6 DEF MakeDir, d

LEMMA DirsMadeKeeps ==
  ASSUME TreeInv, DirsMade
  PROVE  TreeInv'
<1>1. /\ pc = "mkdirs" /\ dirList = <<>> /\ pc' = "copy" /\ job = "copy"
      /\ UNCHANGED <<tree, job, streams, lists, block>>
  BY DEF DirsMade, TreeInv, Shapes
<1>2. block = 0
  BY <1>1 DEF TreeInv, Shapes
<1>3. Shapes'
  BY <1>1, <1>2 DEF TreeInv, Shapes, TreeShape, lists
<1>4. SrcWhole' /\ Begun' /\ Reached'
  BY <1>1, <1>2 DEF TreeInv, SrcWhole, CopyInv, Begun, Partly, Reached
<1>5. Closed'
  BY <1>1 DEF TreeInv, CopyInv, Closed, Have, Listed, InDst, Streamed, lists
<1> QED BY <1>1, <1>3, <1>4, <1>5 DEF TreeInv, CopyInv, WipeInv

LEMMA CopyLinkKeeps ==
  ASSUME TreeInv, pc = "copy", fileList # <<>>, CopyLink(Head(fileList))
  PROVE  TreeInv'
<1> DEFINE f == Head(fileList)
           new == [tree["src"][f] EXCEPT !.attr = "other"]
<1>1. job = "copy" /\ fileList \in Seq(Nodes)
  BY DEF TreeInv, Shapes
<1>2. f \in Nodes /\ Tail(fileList) \in Seq(Nodes) /\ Elems(fileList) = {f} \cup Elems(Tail(fileList))
  BY <1>1, TailElems
<1>3. TreeShape /\ \A n \in Nodes : tree["src"][n] = Original(n)
  BY <1>1 DEF TreeInv, Shapes, SrcWhole
<1>4. block = 0
  <2>1. Kind[f] = "link"
    BY <1>2, <1>3, KindOfOriginal DEF CopyLink
  <2> QED BY <1>1, <2>1 DEF TreeInv, CopyInv, Reached
<1> HIDE DEF f, new
<1>5. CASE /\ Set("dst", f, tree["src"][f]) /\ fileList' = Tail(fileList)
           /\ UNCHANGED <<job, pc, streams, dirList, block, bad, result, faults>>
  <2>1. /\ TreeShape' /\ tree'["dst"][f] = Original(f)
        /\ \A s \in Sides, m \in Nodes : s # "dst" \/ m # f => tree'[s][m] = tree[s][m]
    BY <1>2, <1>3, <1>5, SetTree DEF Sides
  <2>2. Listed(f) /\ \A m : Listed(m)' \/ m = f <=> Listed(m) \/ m = f
    BY <1>2, <1>5 DEF Listed
  <2>3. dirList' \in Seq(Nodes) /\ dirList' = <<>>
    BY <1>5 DEF TreeInv, Shapes
  <2> QED BY <1>1, <1>2, <1>4, <1>5, <2>1, <2>2, <2>3, BroughtKeeps
<1>6. CASE Fail(tree) /\ UNCHANGED tree
  BY <1>1, <1>3, <1>6, FailKeeps DEF TreeShape
<1>7. CASE Set("dst", f, new) /\ Fail(tree')
  <2>1. TreeShape'
    BY <1>2, <1>3, <1>7, SetTree DEF Sides
  <2>2. tree'["src"] = tree["src"]
    BY <1>7, <1>3 DEF Set, TreeShape, Sides
  <2> QED BY <1>1, <1>7, <2>1, <2>2, FailKeeps
<1> QED BY <1>5, <1>6, <1>7 DEF CopyLink, f, new

\* A step of the copy of the file f: it has its first k blocks now, and the next
\* one to copy is b.
LEMMA PartlyKeeps ==
  ASSUME TreeInv, job = "copy", pc = "copy", fileList # <<>>, Kind[Head(fileList)] = "file",
         TreeShape', NEW k \in Nat, Partly(Head(fileList), k)', block' \in Nat, k >= block' - 1,
         \A s \in Sides, m \in Nodes :
            s # "dst" \/ m # Head(fileList) => tree'[s][m] = tree[s][m],
         UNCHANGED <<job, pc, streams, lists>>
  PROVE  TreeInv'
<1> DEFINE f == Head(fileList)
<1>1. fileList \in Seq(Nodes) /\ fileList' = fileList /\ dirList' = dirList
  BY DEF TreeInv, Shapes, lists
<1>2. f \in Nodes /\ Elems(fileList) = {f} \cup Elems(Tail(fileList))
  BY <1>1, TailElems
<1> HIDE DEF f
<1>3. Shapes'
  BY <1>1 DEF TreeInv, Shapes
<1>4. SrcWhole'
  BY DEF TreeInv, SrcWhole, Sides
<1>5. \A m : (Listed(m)' <=> Listed(m)) /\ (Streamed(m)' <=> Streamed(m)) /\ Listed(f)
  BY <1>1, <1>2 DEF Listed, Streamed
<1>6. \A m : m # f => (InDst(m)' <=> InDst(m))
  BY DEF InDst, Sides, f
<1>7. \A m : Have(m)' <=> Have(m)
  BY <1>5, <1>6 DEF Have
<1>8. Closed'
  BY <1>5, <1>7 DEF TreeInv, CopyInv, Closed
<1>9. Begun'
  <2> SUFFICES ASSUME NEW n \in Nodes, tree'["dst"][n].kind = "file", Kind[n] = "file"
               PROVE  \E j \in Nat : Partly(n, j)'
    BY DEF Begun
  <2>1. CASE n = f
    <3>1. n = Head(fileList')
      BY <1>1, <2>1 DEF f
    <3>2. Partly(n, k)'
      BY <3>1 DEF Partly
    <3> QED BY <3>2
  <2>2. CASE n # f
    <3>1. tree'["dst"][n] = tree["dst"][n]
      BY <2>2 DEF Sides, f
    <3>2. PICK j \in Nat : Partly(n, j)
      BY <3>1 DEF TreeInv, CopyInv, Begun
    <3>3. Partly(n, j)'
      BY <3>1, <3>2 DEF Partly
    <3> QED BY <3>3
  <2> QED BY <2>1, <2>2
<1>10. Reached'
  BY <1>1 DEF Reached
<1> QED BY <1>3, <1>4, <1>8, <1>9, <1>10 DEF TreeInv, CopyInv, WipeInv

LEMMA OpenCopyKeeps ==
  ASSUME TreeInv, pc = "copy", fileList # <<>>, OpenCopy(Head(fileList))
  PROVE  TreeInv'
<1> DEFINE f == Head(fileList)
           new == [kind |-> "file", blocks |-> <<>>, attr |-> "other"]
<1>1. job = "copy" /\ f \in Nodes
  BY TailElems DEF TreeInv, Shapes
<1>2. TreeShape /\ \A n \in Nodes : tree["src"][n] = Original(n)
  BY <1>1 DEF TreeInv, Shapes, SrcWhole
<1>3. Kind[f] = "file" /\ Blocks[f] \in Nat
  BY <1>1, <1>2, KindOfOriginal, TreeAssumption DEF OpenCopy
<1>4. CASE block' = 1 /\ tree["dst"][f].kind = "file" /\ UNCHANGED tree
           /\ UNCHANGED <<job, pc, streams, lists>>
  <2>1. PICK k \in Nat : Partly(f, k)
    BY <1>1, <1>3, <1>4 DEF TreeInv, CopyInv, Begun
  <2>2. Partly(f, k)'
    BY <1>4, <2>1 DEF Partly, lists
  <2>3. k >= block' - 1 /\ block' \in Nat /\ TreeShape'
    BY <1>2, <1>4 DEF TreeShape
  <2>4. Partly(Head(fileList), k)'
    BY <1>4, <2>2 DEF lists
  <2> QED BY <1>1, <1>3, <1>4, <2>2, <2>3, PartlyKeeps
<1>5. CASE block' = 1 /\ Set("dst", f, new) /\ UNCHANGED <<job, pc, streams, lists>>
  <2>1. /\ TreeShape' /\ tree'["dst"][f] = new
        /\ \A s \in Sides, m \in Nodes : s # "dst" \/ m # f => tree'[s][m] = tree[s][m]
    BY <1>1, <1>2, <1>5, SetTree DEF Sides
  <2>2. Upto(f, 0) = <<>>
    BY DEF Upto
  <2>3. Partly(f, 0)'
    BY <1>3, <1>5, <2>1, <2>2 DEF Partly, lists
  <2>4. 0 >= block' - 1 /\ block' \in Nat
    BY <1>5
  <2> QED BY <1>1, <1>3, <1>5, <2>1, <2>3, <2>4, PartlyKeeps
<1>6. CASE Fail(tree) /\ UNCHANGED tree
  BY <1>1, <1>2, <1>6, FailKeeps DEF TreeShape
<1> QED BY <1>4, <1>5, <1>6 DEF OpenCopy

\* One block more is the beginning of a copy that is one block longer.
LEMMA UptoNext ==
  ASSUME NEW n, NEW k \in Nat
  PROVE  /\ Len(Upto(n, k)) = k
         /\ Append(Upto(n, k), <<n, k + 1>>) = Upto(n, k + 1)
         /\ \A i \in 1..k : [Upto(n, k) EXCEPT ![i] = <<n, i>>] = Upto(n, k)
<1> DEFINE S == {<<n, i>> : i \in Nat}
           u == Upto(n, k)
           v == Upto(n, k + 1)
           w == Append(u, <<n, k + 1>>)
<1>1. u = [i \in 1..k |-> <<n, i>>] /\ v = [i \in 1..(k + 1) |-> <<n, i>>]
  BY DEF Upto
<1>2. u \in Seq(S) /\ Len(u) = k
  <2>1. u \in [1..k -> S]
    BY <1>1
  <2> HIDE DEF u, S
  <2> QED BY <2>1, SeqDef, LenProperties
<1>3. v \in Seq(S) /\ Len(v) = k + 1
  <2>1. v \in [1..(k + 1) -> S] /\ k + 1 \in Nat
    BY <1>1
  <2> HIDE DEF v, S
  <2> QED BY <2>1, SeqDef, LenProperties
<1>4. <<n, k + 1>> \in S
  OBVIOUS
<1>5. w \in Seq(S) /\ Len(w) = k + 1 /\ w[k + 1] = <<n, k + 1>> /\ \A i \in 1..k : w[i] = u[i]
  <2> HIDE DEF u, S
  <2> QED BY <1>2, <1>4, AppendProperties
<1>6. \A i \in 1..(k + 1) : w[i] = v[i]
  <2> TAKE i \in 1..(k + 1)
  <2>1. CASE i = k + 1
    BY <1>1, <1>5, <2>1
  <2>2. CASE i # k + 1
    <3>1. i \in 1..k
      BY <2>2
    <3> QED BY <1>1, <1>5, <3>1
  <2> QED BY <2>1, <2>2
<1>7. w = v
  <2> HIDE DEF u, v, w, S
  <2> QED BY <1>3, <1>5, <1>6, SeqEqual
<1>8. \A i \in 1..k : [u EXCEPT ![i] = <<n, i>>] = u
  BY <1>1
<1> QED BY <1>2, <1>7, <1>8

LEMMA CopyBlockKeeps ==
  ASSUME TreeInv, pc = "copy", fileList # <<>>, CopyBlock(Head(fileList))
  PROVE  TreeInv'
<1> DEFINE f == Head(fileList)
           from == tree["src"][f].blocks
           to == tree["dst"][f].blocks
           Put(b) == tree' = [tree EXCEPT !["dst"][f].blocks = Written(to, b)]
<1>1. job = "copy" /\ f \in Nodes
  BY TailElems DEF TreeInv, Shapes
<1>2. TreeShape /\ \A n \in Nodes : tree["src"][n] = Original(n)
  BY <1>1 DEF TreeInv, Shapes, SrcWhole
<1>3. block \in Nat /\ block # 0 /\ block <= Len(from)
  BY DEF CopyBlock, TreeInv, Shapes
<1>4. Kind[f] = "file" /\ Blocks[f] \in Nat
  BY <1>1, <1>3, TreeAssumption DEF TreeInv, CopyInv, Reached
<1>5. PICK k \in Nat : k >= block - 1 /\ Partly(f, k)
  BY <1>1, <1>3 DEF TreeInv, CopyInv, Reached
<1>6. from = Upto(f, Blocks[f]) /\ Len(from) = Blocks[f] /\ from[block] = <<f, block>>
  <2>1. from = Upto(f, Blocks[f])
    <3>1. tree["src"][f] = Original(f)
      BY <1>1, <1>2
    <3> QED BY <1>4, <3>1 DEF Original, Upto
  <2>2. Len(from) = Blocks[f]
    BY <1>4, <2>1, UptoNext
  <2>3. block \in 1..Blocks[f]
    BY <1>3, <1>4, <2>2
  <2> QED BY <2>1, <2>2, <2>3 DEF Upto
<1>7. to = Upto(f, k) /\ Len(to) = k /\ k <= Blocks[f]
  BY <1>5, UptoNext DEF Partly
<1> HIDE DEF from, to
<1>8. ASSUME NEW b, Put(b)
      PROVE  /\ TreeShape' /\ tree'["src"] = tree["src"]
             /\ tree'["dst"][f] = [tree["dst"][f] EXCEPT !.blocks = Written(to, b)]
             /\ \A s \in Sides, m \in Nodes : s # "dst" \/ m # f => tree'[s][m] = tree[s][m]
  <2> DEFINE v == [tree["dst"][f] EXCEPT !.blocks = Written(to, b)]
  <2>1. Set("dst", f, v)
    BY <1>2, <1>8 DEF Set, TreeShape, Sides
  <2> HIDE DEF v
  <2>2. /\ TreeShape' /\ tree'["dst"][f] = v
        /\ \A s \in Sides, m \in Nodes : s # "dst" \/ m # f => tree'[s][m] = tree[s][m]
    BY <1>1, <1>2, <2>1, SetTree DEF Sides
  <2>3. tree'["src"] = tree["src"]
    BY <1>2, <2>1 DEF Set, TreeShape, Sides
  <2> QED BY <2>2, <2>3 DEF v
<1>9. CASE Put(from[block]) /\ block' = block + 1 /\ UNCHANGED <<job, pc, streams, lists>>
  <2>1. \E j \in Nat : /\ Written(to, from[block]) = Upto(f, j)
                        /\ j \in 0..Blocks[f] /\ j >= block
    <3>1. CASE block <= k
      <4>1. block \in 1..k
        BY <1>3, <3>1
      <4>3. [Upto(f, k) EXCEPT ![block] = <<f, block>>] = Upto(f, k)
        BY <4>1, UptoNext
      <4>2. Written(to, from[block]) = Upto(f, k)
        BY <1>6, <1>7, <3>1, <4>3 DEF Written
      <4> QED BY <1>7, <3>1, <4>2
    <3>2. CASE ~(block <= k)
      <4>1. block = k + 1
        BY <1>3, <1>5, <3>2
      <4>4. Append(Upto(f, k), <<f, k + 1>>) = Upto(f, k + 1)
        BY UptoNext
      <4>5. Written(to, from[block]) = Append(to, from[block])
        BY <1>7, <3>2 DEF Written
      <4>2. Written(to, from[block]) = Upto(f, k + 1)
        BY <1>6, <1>7, <4>1, <4>4, <4>5
      <4>3. k + 1 \in 0..Blocks[f]
        BY <1>3, <1>4, <1>6, <4>1
      <4> QED BY <4>1, <4>2, <4>3
    <3> QED BY <3>1, <3>2
  <2>2. PICK j \in Nat : /\ Written(to, from[block]) = Upto(f, j)
                         /\ j \in 0..Blocks[f] /\ j >= block
    BY <2>1
  <2>3. tree["dst"][f] = [kind |-> "file", blocks |-> to, attr |-> tree["dst"][f].attr]
    BY <1>5 DEF Partly, to
  <2>8. tree'["dst"][f] = [tree["dst"][f] EXCEPT !.blocks = Upto(f, j)]
    BY <1>8, <1>9, <2>2
  <2>4. tree'["dst"][f] = [kind |-> "file", blocks |-> Upto(f, j), attr |-> tree["dst"][f].attr]
    BY <2>3, <2>8
  <2>5. fileList' = fileList
    BY <1>9 DEF lists
  <2>6. Partly(f, j)'
    BY <2>2, <2>4, <2>5 DEF Partly
  <2>7. block' \in Nat /\ j >= block' - 1
    BY <1>3, <1>9, <2>2
  <2> QED BY <1>1, <1>4, <1>8, <1>9, <2>6, <2>7, PartlyKeeps
<1>10. CASE Fail(tree) /\ UNCHANGED tree
  BY <1>1, <1>2, <1>10, FailKeeps DEF TreeShape
<1>11. CASE Put(<<"half", block>>) /\ Fail(tree')
  BY <1>1, <1>8, <1>11, FailKeeps
<1> QED BY <1>9, <1>10, <1>11 DEF CopyBlock, from, to

LEMMA CopyEndsKeeps ==
  ASSUME TreeInv, pc = "copy", fileList # <<>>, CopyEnds(Head(fileList))
  PROVE  TreeInv'
<1> DEFINE f == Head(fileList)
           from == tree["src"][f].blocks
           v == [tree["dst"][f] EXCEPT !.attr = tree["src"][f].attr]
<1>1. job = "copy" /\ fileList \in Seq(Nodes)
  BY DEF TreeInv, Shapes
<1>2. f \in Nodes /\ Tail(fileList) \in Seq(Nodes) /\ Elems(fileList) = {f} \cup Elems(Tail(fileList))
  BY <1>1, TailElems
<1>3. TreeShape /\ \A n \in Nodes : tree["src"][n] = Original(n)
  BY <1>1 DEF TreeInv, Shapes, SrcWhole
<1>4. block = Len(from) + 1 /\ block \in Nat
  BY DEF CopyEnds, TreeInv, Shapes
<1>5. from = Original(f).blocks /\ tree["src"][f].attr = "own"
  <2>1. tree["src"][f] = Original(f)
    BY <1>2, <1>3
  <2> QED BY <2>1 DEF Original
<1>6. Len(from) \in Nat /\ (Kind[f] = "file" => Len(from) = Blocks[f] /\ from = Upto(f, Blocks[f]))
  <2>1. CASE Kind[f] = "file"
    <3>1. from = Upto(f, Blocks[f]) /\ Blocks[f] \in Nat
      BY <1>2, <1>5, <2>1, TreeAssumption DEF Original, Upto
    <3> QED BY <3>1, UptoNext
  <2>2. CASE Kind[f] # "file"
    <3>1. from = <<>>
      BY <1>5, <2>2 DEF Original
    <3> QED BY <2>2, <3>1
  <2> QED BY <2>1, <2>2
<1> HIDE DEF from
<1>7. block # 0
  BY <1>4, <1>6
<1>8. PICK k \in Nat : k >= block - 1 /\ Partly(f, k) /\ Kind[f] = "file"
  BY <1>1, <1>7 DEF TreeInv, CopyInv, Reached
<1>9. k = Blocks[f] /\ Blocks[f] \in Nat
  BY <1>2, <1>4, <1>6, <1>8, TreeAssumption DEF Partly
<1> HIDE DEF f
<1>10. CASE /\ tree' = [tree EXCEPT !["dst"][f].attr = tree["src"][f].attr]
            /\ fileList' = Tail(fileList) /\ block' = 0
            /\ UNCHANGED <<job, pc, streams, dirList, bad, result, faults>>
  <2>1. Set("dst", f, v)
    BY <1>3, <1>10 DEF Set, TreeShape, Sides
  <2>2. tree["dst"][f] = [kind |-> "file", blocks |-> Upto(f, k), attr |-> tree["dst"][f].attr]
    BY <1>8 DEF Partly
  <2>3. v = [kind |-> "file", blocks |-> Upto(f, k), attr |-> "own"]
    BY <1>5, <2>2
  <2>4. v = Original(f)
    BY <1>8, <1>9, <2>3 DEF Original, Upto
  <2> HIDE DEF v
  <2>5. /\ TreeShape' /\ tree'["dst"][f] = Original(f)
        /\ \A s \in Sides, m \in Nodes : s # "dst" \/ m # f => tree'[s][m] = tree[s][m]
    BY <1>2, <1>3, <2>1, <2>4, SetTree DEF Sides
  <2>6. Listed(f) /\ \A m : Listed(m)' \/ m = f <=> Listed(m) \/ m = f
    BY <1>2, <1>10 DEF Listed
  <2>7. dirList' \in Seq(Nodes) /\ dirList' = <<>>
    BY <1>10 DEF TreeInv, Shapes
  <2> QED BY <1>1, <1>2, <1>10, <2>5, <2>6, <2>7, BroughtKeeps
<1>11. CASE Fail(tree) /\ UNCHANGED tree
  BY <1>1, <1>3, <1>11, FailKeeps DEF TreeShape
<1> QED BY <1>10, <1>11 DEF CopyEnds, f

LEMMA CopiedKeeps ==
  ASSUME TreeInv, Copied
  PROVE  TreeInv'
<1>1. /\ pc = "copy" /\ job = "copy" /\ dirList = <<>> /\ fileList = <<>>
      /\ streams = <<>> /\ tree' = tree /\ StartList("wipe_src", tree["src"])
  BY DEF Copied, TreeInv, Shapes
<1>2. TreeShape'
  BY <1>1 DEF TreeInv, Shapes, TreeShape
<1>3. /\ Shapes' /\ job' = "wipe_src" /\ \A n : ~Listed(n)'
      /\ \A n : Streamed(n)' => n \in Entries(tree["src"], Root)
  BY <1>1, <1>2, StartShapes
<1>4. \A n \in Nodes : tree["src"][n] = Original(n)
  BY <1>1 DEF TreeInv, SrcWhole
<1>5. \A n : ~Listed(n) /\ ~Streamed(n)
  BY <1>1, EmptyElems DEF Listed, Streamed
<1>6. \A m \in Nodes : Parent[m] = Root \/ InDst(Parent[m]) => InDst(m)
  BY <1>1, <1>5 DEF TreeInv, CopyInv, Closed, Have
<1>7. \A n : InDst(n)' <=> InDst(n)
  BY <1>1 DEF InDst
<1>8. \A n \in Nodes : Streamed(n)' => InDst(n)'
  BY <1>3, <1>6, <1>7 DEF Entries
<1>9. WipeInv'
  BY <1>1, <1>3, <1>4, <1>6, <1>7, <1>8 DEF WipeInv
<1> QED BY <1>3, <1>9 DEF TreeInv, SrcWhole, CopyInv

\* A removal takes n off a list, and from the side that is emptied or not at all.
LEMMA RemovedKeeps ==
  ASSUME TreeInv, job # "copy", NEW n \in Nodes, Remove1(n), Listed(n),
         dirList' \in Seq(Nodes), fileList' \in Seq(Nodes),
         \A m : Listed(m)' => Listed(m), UNCHANGED <<job, pc, streams, block>>
  PROVE  TreeInv'
<1>1. TreeShape /\ block = 0
  BY DEF TreeInv, Shapes
<1>2. /\ TreeShape'
      /\ \A s \in Sides, m \in Nodes :
            \/ tree'[s][m] = tree[s][m]
            \/ s = Side /\ m = n /\ tree'[s][m] = Missing
  <2>1. CASE Set(Side, n, Missing)
    <3>1. Side \in Sides
      BY DEF Side, Sides
    <3> QED BY <1>1, <2>1, <3>1, SetTree
  <2>2. CASE UNCHANGED tree
    BY <1>1, <2>2 DEF TreeShape
  <2> QED BY <2>1, <2>2 DEF Remove1
<1>3. Shapes'
  BY <1>1, <1>2 DEF TreeInv, Shapes
<1>4. SrcWhole'
  <2>1. job # "wipe_src" => Side = "dst"
    BY DEF TreeInv, Shapes, Side
  <2> QED BY <1>2, <2>1 DEF TreeInv, SrcWhole, Sides
<1>5. ASSUME job = "wipe_src" PROVE WipeInv'
  <2>1. Side = "src" /\ "src" \in Sides /\ "dst" \in Sides
    BY <1>5 DEF Side, Sides
  <2>2. \A m : InDst(m)' <=> InDst(m)
    BY <1>2, <2>1 DEF InDst
  <2>3. InDst(n)
    BY <1>5 DEF TreeInv, WipeInv
  <2>4. \A m : Streamed(m)' <=> Streamed(m)
    BY DEF Streamed
  <2>5. \A m \in Nodes : tree'["src"][m] \in {Original(m), Missing}
    BY <1>2, <1>5, <2>1 DEF TreeInv, WipeInv
  <2>6. \A m \in Nodes : tree'["src"][m] = Original(m) \/ InDst(m)
    BY <1>2, <1>5, <2>1, <2>3 DEF TreeInv, WipeInv
  <2> QED BY <1>5, <2>2, <2>4, <2>5, <2>6 DEF TreeInv, WipeInv
<1> QED BY <1>3, <1>4, <1>5 DEF TreeInv, CopyInv, WipeInv

LEMMA RemoveFileKeeps ==
  ASSUME TreeInv, RemoveFile
  PROVE  TreeInv'
<1>1. /\ job # "copy" /\ fileList \in Seq(Nodes) /\ dirList \in Seq(Nodes)
      /\ fileList # <<>> /\ fileList' = Tail(fileList) /\ Remove1(Head(fileList))
      /\ UNCHANGED <<job, pc, streams, dirList, block>>
  BY DEF RemoveFile, TreeInv, Shapes
<1>2. /\ Head(fileList) \in Nodes /\ Tail(fileList) \in Seq(Nodes)
      /\ Elems(fileList) = {Head(fileList)} \cup Elems(Tail(fileList))
  BY <1>1, TailElems
<1>3. Listed(Head(fileList)) /\ \A m : Listed(m)' => Listed(m)
  BY <1>1, <1>2 DEF Listed
<1> QED BY <1>1, <1>2, <1>3, RemovedKeeps

LEMMA RemoveDirKeeps ==
  ASSUME TreeInv, RemoveDir
  PROVE  TreeInv'
<1>1. /\ job # "copy" /\ fileList \in Seq(Nodes) /\ dirList \in Seq(Nodes)
      /\ dirList # <<>> /\ dirList' = Tail(dirList) /\ Remove1(Head(dirList))
      /\ UNCHANGED <<job, pc, streams, fileList, block>>
  BY DEF RemoveDir, TreeInv, Shapes
<1>2. /\ Head(dirList) \in Nodes /\ Tail(dirList) \in Seq(Nodes)
      /\ Elems(dirList) = {Head(dirList)} \cup Elems(Tail(dirList))
  BY <1>1, TailElems
<1>3. Listed(Head(dirList)) /\ \A m : Listed(m)' => Listed(m)
  BY <1>1, <1>2 DEF Listed
<1> QED BY <1>1, <1>2, <1>3, RemovedKeeps

\* From the files to the directories.
LEMMA ToDirsKeeps ==
  ASSUME TreeInv, pc = "files", pc' = "dirs", UNCHANGED <<tree, job, streams, lists, block>>
  PROVE  TreeInv'
<1>1. job # "copy" /\ block = 0
  BY DEF TreeInv, Shapes
<1>2. Shapes'
  BY <1>1 DEF TreeInv, Shapes, TreeShape, lists
<1>3. SrcWhole'
  BY DEF TreeInv, SrcWhole
<1>4. \A n : (Listed(n)' <=> Listed(n)) /\ (Streamed(n)' <=> Streamed(n)) /\ (InDst(n)' <=> InDst(n))
  BY DEF Listed, Streamed, InDst, lists
<1>5. WipeInv'
  BY <1>4 DEF TreeInv, WipeInv
<1> QED BY <1>1, <1>2, <1>3, <1>5 DEF TreeInv, CopyInv

LEMMA FilesRemovedKeeps ==
  ASSUME TreeInv, FilesRemoved
  PROVE  TreeInv'
<1>1. pc = "files" /\ UNCHANGED tree /\ job # "copy"
  BY DEF FilesRemoved, TreeInv, Shapes
<1>2. CASE End("err")
  BY <1>1, <1>2, EndKeeps
<1>3. CASE pc' = "dirs" /\ UNCHANGED <<job, streams, lists, block>>
  BY <1>1, <1>3, ToDirsKeeps
<1> QED BY <1>2, <1>3 DEF FilesRemoved

LEMMA DirsRemovedKeeps ==
  ASSUME TreeInv, DirsRemoved
  PROVE  TreeInv'
<1>1. UNCHANGED tree /\ job # "copy"
  BY DEF DirsRemoved, TreeInv, Shapes
<1>2. PICK r : End(r)
  BY DEF DirsRemoved
<1> QED BY <1>1, <1>2, EndKeeps

LEMMA StutterKeeps == ASSUME TreeInv, UNCHANGED vars PROVE TreeInv'
<1>1. /\ tree' = tree /\ job' = job /\ pc' = pc /\ streams' = streams /\ block' = block
      /\ dirList' = dirList /\ fileList' = fileList
  BY DEF vars, lists
<1>2. Shapes' /\ SrcWhole'
  BY <1>1 DEF TreeInv, Shapes, TreeShape, SrcWhole
<1>3. \A n : (Listed(n)' <=> Listed(n)) /\ (Streamed(n)' <=> Streamed(n)) /\ (InDst(n)' <=> InDst(n))
  BY <1>1 DEF Listed, Streamed, InDst
<1>4. CopyInv'
  <2>1. \A n : Have(n)' <=> Have(n)
    BY <1>3 DEF Have
  <2>2. Closed' <=> Closed
    BY <1>3, <2>1 DEF Closed
  <2>3. (Begun' <=> Begun) /\ (Reached' <=> Reached)
    BY <1>1 DEF Begun, Reached, Partly
  <2> QED BY <1>1, <2>2, <2>3 DEF TreeInv, CopyInv
<1>5. WipeInv'
  BY <1>1, <1>3 DEF TreeInv, WipeInv
<1> QED BY <1>2, <1>4, <1>5 DEF TreeInv

-----------------------------------------------------------------------------
(* The theorem.                                                              *)

LEMMA StepKeeps == ASSUME TreeInv, [Next]_vars PROVE TreeInv'
<1>1. ASSUME NEW n \in Nodes, ReadEntry(n) PROVE TreeInv'
  BY <1>1, ReadEntryKeeps
<1>2. CASE CloseDir
  BY <1>2, CloseDirKeeps
<1>3. CASE ListFails
  BY <1>3, ListFailsKeeps
<1>4. CASE MakeDir
  BY <1>4, MakeDirKeeps
<1>5. CASE DirsMade
  BY <1>5, DirsMadeKeeps
<1>6. CASE Copy
  BY <1>6, CopyLinkKeeps, OpenCopyKeeps, CopyBlockKeeps, CopyEndsKeeps DEF Copy
<1>7. CASE Copied
  BY <1>7, CopiedKeeps
<1>8. CASE RemoveFile
  BY <1>8, RemoveFileKeeps
<1>9. CASE FilesRemoved
  BY <1>9, FilesRemovedKeeps
<1>10. CASE RemoveDir
  BY <1>10, RemoveDirKeeps
<1>11. CASE DirsRemoved
  BY <1>11, DirsRemovedKeeps
<1>12. CASE UNCHANGED vars
  BY <1>12, StutterKeeps
<1> QED BY <1>1, <1>2, <1>3, <1>4, <1>5, <1>6, <1>7, <1>8, <1>9, <1>10, <1>11, <1>12 DEF Next

-----------------------------------------------------------------------------
(* The second invariant: the order of the lists, and what a removal has left. *)

Present(side, n) == tree[side][n].kind # "none"
Unlike   == {r \in Nodes \X Nodes : r[1] # r[2]}
NotAbove == {r \in Nodes \X Nodes : r[1] # r[2] /\ Parent[r[2]] # r[1]}
Apart    == {r \in Streams \X Streams : r[1].dir # r[2].dir}

\* What is there is in a directory that is there.
KindInv == \A s \in Sides, n \in Nodes :
  /\ tree[s][n] = Missing \/ tree[s][n].kind = Kind[n]
  /\ Present(s, n) => Parent[n] = Root \/ Present(s, Parent[n])
\* Nothing is found twice, and a directory stands behind all that is in it.
ListsInv ==
  /\ Pairwise(dirList, NotAbove) /\ Pairwise(fileList, Unlike)
  /\ \A n \in Elems(dirList) : Kind[n] = "dir"
  /\ \A n \in Elems(fileList) : Kind[n] # "dir"
StreamsInv ==
  /\ Pairwise(streams, Apart)
  /\ \A t \in Elems(streams) :
       /\ t.dir = Root \/ t.dir \in Elems(dirList)
       /\ \A m \in t.left : Parent[m] = t.dir /\ Present(Side, m) /\ ~Listed(m)
\* The directory of something found is found, or made.
AboveInv == \A m \in Nodes : Listed(m) =>
  /\ pc = "list" => Parent[m] = Root \/ Listed(Parent[m])
  /\ job = "copy" => Parent[m] = Root \/ Listed(Parent[m]) \/ InDst(Parent[m])
RoomInv == job = "copy" => \A m \in Nodes :
  Kind[m] # "file" /\ (Listed(m) \/ Streamed(m)) => ~Present("dst", m)
\* As long as no removal has failed, what is left is going to be removed.
LeftInv == job # "copy" /\ pc # "done" /\ ~bad => \A m \in Nodes :
  Present(Side, m) /\ (Parent[m] = Root \/ Listed(Parent[m])) => Listed(m) \/ Streamed(m)
PhaseInv ==
  /\ pc \in {"list", "mkdirs", "copy", "files", "dirs", "done"}
  /\ pc = "dirs" => fileList = <<>>
  /\ pc # "done" => result = "none"
FaultInv ==
  /\ faults \in Nat
  /\ bad \/ job = "wipe_dst" \/ result = "err" => faults > 0
  /\ bad /\ job = "wipe_dst" => faults > 1
EndInv == pc = "done" =>
  /\ job = "wipe_dst" /\ faults = 1 => \A n \in Nodes : ~Present("dst", n)
  /\ result = "ok" => job = "wipe_src" /\ \A n \in Nodes : InDst(n) /\ ~Present("src", n)
MoveInv == /\ KindInv /\ ListsInv /\ StreamsInv /\ AboveInv /\ RoomInv
           /\ LeftInv /\ PhaseInv /\ FaultInv /\ EndInv

LEMMA NotItsOwn == ASSUME NEW n \in Nodes PROVE Parent[n] # n /\ Root # n
<1>1. \E m \in {n} : Parent[m] \notin {n}
  BY TreeAssumption
<1> QED BY <1>1, TreeAssumption

\* A new listing of the side that is to be emptied.
LEMMA StartMoves ==
  ASSUME NEW j \in {"wipe_src", "wipe_dst"}, NEW t, StartList(j, t),
         t = tree'[IF j = "wipe_dst" THEN "dst" ELSE "src"], KindInv',
         faults' \in Nat, j = "wipe_dst" => faults' > 0, result' = "none"
  PROVE  MoveInv'
<1>1. /\ job' = j /\ pc' = "list" /\ streams' = <<Stream(t, Root)>>
      /\ dirList' = <<>> /\ fileList' = <<>> /\ ~bad'
  BY DEF StartList
<1>2. /\ Stream(t, Root).dir = Root
      /\ Stream(t, Root).left = {n \in Nodes : Parent[n] = Root /\ t[n].kind # "none"}
  BY DEF Stream, Entries
<1>3. Elems(streams') = {Stream(t, Root)} /\ Pairwise(streams', Apart)
  BY <1>1 DEF Elems, Pairwise
<1>4. \A n : ~Listed(n)'
  BY <1>1, EmptyElems DEF Listed
<1>5. \A n : Present(Side, n)' <=> t[n].kind # "none"
  BY <1>1 DEF Present, Side
<1>6. ListsInv'
  BY <1>1, EmptyElems, EmptyPairwise DEF ListsInv
<1>7. StreamsInv'
  BY <1>2, <1>3, <1>4, <1>5 DEF StreamsInv
<1>8. LeftInv'
  <2>1. \A n : Streamed(n)' <=> n \in Stream(t, Root).left
    BY <1>3, LeftsOfElems DEF Streamed
  <2> QED BY <1>2, <1>4, <1>5, <2>1 DEF LeftInv
<1>9. AboveInv' /\ RoomInv'
  BY <1>1, <1>4 DEF AboveInv, RoomInv
<1>10. PhaseInv' /\ FaultInv' /\ EndInv'
  BY <1>1 DEF PhaseInv, FaultInv, EndInv
<1> QED BY <1>6, <1>7, <1>8, <1>9, <1>10 DEF MoveInv

\* A failed copy.
LEMMA FailMoves ==
  ASSUME MoveInv, job = "copy", Shapes, Fail(tree'), KindInv', Fault
  PROVE  MoveInv'
<1>1. StartList("wipe_dst", tree'["dst"]) /\ result' = result
  BY DEF Fail
<1>2. faults' \in Nat /\ faults' > 0
  BY DEF MoveInv, FaultInv, Fault
<1>3. result = "none"
  BY DEF MoveInv, PhaseInv, Shapes
<1> QED BY <1>1, <1>2, <1>3, StartMoves

\* The end of a removal, in success or not.
LEMMA EndMoves ==
  ASSUME TreeInv, MoveInv, job # "copy", NEW r \in {"ok", "err"}, End(r), UNCHANGED tree,
         faults' \in Nat, r = "err" => faults' > 0, faults' >= faults,
         job = "wipe_dst" /\ faults' = 1 => \A n \in Nodes : ~Present("dst", n),
         r = "ok" => job = "wipe_src" /\ \A n \in Nodes : InDst(n) /\ ~Present("src", n)
  PROVE  MoveInv'
<1>1. /\ pc' = "done" /\ streams' = <<>> /\ job' = job /\ bad' = bad /\ result' = r
      /\ dirList' = dirList /\ fileList' = fileList /\ tree' = tree
  BY DEF End, lists
<1>2. \A s, n : (Present(s, n)' <=> Present(s, n)) /\ (InDst(n)' <=> InDst(n))
  BY <1>1 DEF Present, InDst
<1>3. KindInv'
  BY <1>1, <1>2 DEF MoveInv, KindInv
<1>4. ListsInv'
  BY <1>1 DEF MoveInv, ListsInv
<1>5. StreamsInv'
  BY <1>1, EmptyElems, EmptyPairwise DEF StreamsInv
<1>6. AboveInv' /\ RoomInv' /\ LeftInv'
  BY <1>1 DEF AboveInv, RoomInv, LeftInv
<1>7. PhaseInv'
  BY <1>1 DEF PhaseInv
<1>8. FaultInv'
  BY <1>1 DEF MoveInv, FaultInv
<1>9. EndInv'
  BY <1>1, <1>2 DEF EndInv
<1> QED BY <1>3, <1>4, <1>5, <1>6, <1>7, <1>8, <1>9 DEF MoveInv

\* d comes to the destination, or more of it.
LEMMA PutKinds ==
  ASSUME KindInv, NEW d \in Nodes, tree'["dst"][d].kind = Kind[d],
         \A s \in Sides, m \in Nodes : s # "dst" \/ m # d => tree'[s][m] = tree[s][m],
         Parent[d] = Root \/ Present("dst", Parent[d])
  PROVE  KindInv'
<1> SUFFICES ASSUME NEW s \in Sides, NEW n \in Nodes
             PROVE  /\ tree'[s][n] = Missing \/ tree'[s][n].kind = Kind[n]
                    /\ Present(s, n)' => Parent[n] = Root \/ Present(s, Parent[n])'
  BY DEF KindInv
<1>1. \A m \in Nodes : Present(s, m) => Present(s, m)'
  BY KindOfOriginal DEF Present
<1>2. Parent[n] \in Nodes \cup {Root}
  BY TreeAssumption
<1>3. CASE s = "dst" /\ n = d
  BY <1>1, <1>2, <1>3
<1>4. CASE ~(s = "dst" /\ n = d)
  <2>1. tree'[s][n] = tree[s][n]
    BY <1>4
  <2>2. Present(s, n)' => Present(s, n)
    BY <2>1 DEF Present
  <2> QED BY <1>1, <1>2, <2>1, <2>2 DEF KindInv
<1> QED BY <1>3, <1>4

\* Where something that is being copied goes is there.
LEMMA ParentThere ==
  ASSUME MoveInv, job = "copy", pc # "list", NEW n \in Nodes, Listed(n),
         Parent[n] # Root => ~Listed(Parent[n])
  PROVE  /\ IsThere(tree["dst"], Parent[n])
         /\ Parent[n] = Root \/ Present("dst", Parent[n])
<1>1. CASE Parent[n] = Root
  BY <1>1 DEF IsThere
<1>2. CASE Parent[n] # Root
  <2>1. Parent[n] \in Nodes /\ InDst(Parent[n]) /\ Kind[Parent[n]] = "dir"
    BY <1>2, TreeAssumption DEF MoveInv, AboveInv
  <2>2. tree["dst"][Parent[n]].kind = "dir"
    BY <2>1, KindOfOriginal DEF InDst
  <2> QED BY <2>2 DEF IsThere, Present
<1> QED BY <1>1, <1>2

\* A step of the copy that succeeds: d grows, and may leave its list.
LEMMA GrowMoves ==
  ASSUME MoveInv, Shapes, job = "copy", pc \in {"mkdirs", "copy"}, NEW d \in Nodes,
         tree'["dst"][d].kind = Kind[d], Kind[d] = "dir" => tree'["dst"][d] = Original(d),
         \A s \in Sides, m \in Nodes : s # "dst" \/ m # d => tree'[s][m] = tree[s][m],
         Parent[d] = Root \/ Present("dst", Parent[d]),
         ListsInv', \A m : Listed(m)' => Listed(m), \A m : Listed(m) => Listed(m)' \/ m = d,
         Kind[d] # "file" => ~Listed(d)',
         UNCHANGED <<job, pc, streams, bad, result, faults>>
  PROVE  MoveInv'
<1>1. KindInv'
  BY PutKinds DEF MoveInv
<1>2. streams = <<>>
  BY DEF Shapes
<1>3. StreamsInv' /\ \A m : ~Streamed(m)'
  BY <1>2, EmptyElems, EmptyPairwise DEF StreamsInv, Streamed
<1>4. AboveInv'
  <2> SUFFICES ASSUME NEW m \in Nodes, Listed(m)'
               PROVE  Parent[m] = Root \/ Listed(Parent[m])' \/ InDst(Parent[m])'
    BY DEF AboveInv
  <2>1. Parent[m] = Root \/ Listed(Parent[m]) \/ InDst(Parent[m])
    BY DEF MoveInv, AboveInv
  <2>2. CASE Parent[m] = d
    <3>1. Kind[d] = "dir"
      BY <2>2, TreeAssumption
    <3> QED BY <2>2, <3>1 DEF InDst
  <2>3. CASE Parent[m] # d
    BY <2>1, <2>3 DEF InDst, Sides
  <2> QED BY <2>2, <2>3
<1>5. RoomInv'
  <2> SUFFICES ASSUME NEW m \in Nodes, Kind[m] # "file", Listed(m)' PROVE ~Present("dst", m)'
    BY <1>3 DEF RoomInv
  <2>1. m # d /\ ~Present("dst", m)
    BY DEF MoveInv, RoomInv
  <2> QED BY <2>1 DEF Present, Sides
<1>6. LeftInv' /\ PhaseInv' /\ FaultInv' /\ EndInv'
  BY DEF MoveInv, LeftInv, PhaseInv, FaultInv, EndInv
<1> QED BY <1>1, <1>3, <1>4, <1>5, <1>6 DEF MoveInv

\* A failure that has changed nothing.
LEMMA StopMoves ==
  ASSUME MoveInv, job = "copy", Shapes, Fail(tree), UNCHANGED tree, Fault
  PROVE  MoveInv'
<1>1. KindInv'
  BY DEF MoveInv, KindInv, Present
<1> QED BY <1>1, FailMoves

\* A failure that leaves something of d behind.
LEMMA HalfMoves ==
  ASSUME MoveInv, job = "copy", Shapes, NEW d \in Nodes, tree'["dst"][d].kind = Kind[d],
         \A s \in Sides, m \in Nodes : s # "dst" \/ m # d => tree'[s][m] = tree[s][m],
         Parent[d] = Root \/ Present("dst", Parent[d]), Fail(tree'), Fault
  PROVE  MoveInv'
<1>1. KindInv'
  BY PutKinds DEF MoveInv
<1> QED BY <1>1, FailMoves

-----------------------------------------------------------------------------
(* Each action once more.                                                    *)

LEMMA InitOrders == ASSUME Stale = {}, Init PROVE MoveInv
<1>1. tree["src"] = [n \in Nodes |-> Original(n)] /\ tree["dst"] = [n \in Nodes |-> Missing]
  BY DEF Init
<1>2. /\ job = "copy" /\ pc = "list" /\ streams = <<Stream(tree["src"], Root)>>
      /\ dirList = <<>> /\ fileList = <<>> /\ ~bad /\ result = "none" /\ faults = 0
  BY DEF Init
<1>3. Stream(tree["src"], Root).dir = Root
      /\ Stream(tree["src"], Root).left = {n \in Nodes : Parent[n] = Root /\ Present("src", n)}
  BY DEF Stream, Entries, Present
<1>4. Elems(streams) = {Stream(tree["src"], Root)} /\ Pairwise(streams, Apart)
  BY <1>2 DEF Elems, Pairwise
<1>5. \A n \in Nodes : /\ Present("src", n) /\ tree["src"][n].kind = Kind[n]
                       /\ ~Present("dst", n) /\ tree["dst"][n] = Missing
  BY <1>1, KindOfOriginal DEF Present, Missing
<1>6. KindInv
  BY <1>5, TreeAssumption DEF KindInv, Sides
<1>7. \A n : ~Listed(n)
  BY <1>2, EmptyElems DEF Listed
<1>8. ListsInv
  BY <1>2, EmptyElems, EmptyPairwise DEF ListsInv
<1>9. StreamsInv
  BY <1>2, <1>3, <1>4, <1>7 DEF StreamsInv, Side
<1>10. AboveInv /\ RoomInv /\ LeftInv /\ PhaseInv /\ FaultInv /\ EndInv
  BY <1>2, <1>5, <1>7 DEF AboveInv, RoomInv, LeftInv, PhaseInv, FaultInv, EndInv
<1> QED BY <1>6, <1>8, <1>9, <1>10 DEF MoveInv

LEMMA ReadEntryOrders ==
  ASSUME TreeInv, MoveInv, NEW n \in Nodes, ReadEntry(n)
  PROVE  MoveInv'
<1> DEFINE top == Head(streams)
           cut == [top EXCEPT !.left = @ \ {n}]
           rest == <<cut>> \o Tail(streams)
           isDir == tree[Side][n].kind = "dir"
           new == Stream(tree[Side], n)
<1>1. /\ streams \in Seq(Streams) /\ streams # <<>> /\ pc = "list" /\ n \in top.left
      /\ dirList \in Seq(Nodes) /\ fileList \in Seq(Nodes)
      /\ streams' = (IF isDir THEN <<new>> \o rest ELSE rest)
      /\ dirList' = (IF isDir THEN <<n>> \o dirList ELSE dirList)
      /\ fileList' = (IF isDir THEN fileList ELSE <<n>> \o fileList)
      /\ UNCHANGED <<tree, job, pc, bad, result, faults>>
  BY DEF ReadEntry, TreeInv, Shapes
<1>2. top \in Streams /\ Tail(streams) \in Seq(Streams)
      /\ Elems(streams) = {top} \cup Elems(Tail(streams))
      /\ Pairwise(Tail(streams), Apart) /\ \A t \in Elems(Tail(streams)) : <<top, t>> \in Apart
  BY <1>1, TailElems, TailPairwise DEF MoveInv, StreamsInv
<1>3. cut \in Streams /\ cut.left = top.left \ {n} /\ cut.dir = top.dir
  BY <1>2 DEF Streams
<1>4. new \in Streams /\ new.dir = n
      /\ new.left = {m \in Nodes : Parent[m] = n /\ Present(Side, m)}
  BY DEF Stream, Streams, Entries, Present
<1>5. /\ Parent[n] = top.dir /\ Present(Side, n) /\ ~Listed(n) /\ Streamed(n)
      /\ top.dir = Root \/ top.dir \in Elems(dirList)
  <2>1. top \in Elems(streams)
    BY <1>2
  <2> QED BY <1>1, <2>1, LeftsOfElems DEF MoveInv, StreamsInv, Streamed
<1>6. Side \in Sides /\ Side' = Side
  BY <1>1 DEF Side, Sides
<1>7. /\ isDir <=> Kind[n] = "dir"
      /\ \A m \in Nodes : Parent[m] = n => Kind[n] = "dir"
  BY <1>5, <1>6, TreeAssumption DEF MoveInv, KindInv, Present, Missing
<1>8. \A m \in Nodes : Parent[m] = n => ~Listed(m)
  BY <1>1, <1>5, NotItsOwn DEF MoveInv, AboveInv
<1>9. \A t \in Elems(Tail(streams)) : n \notin t.left /\ t.dir # n
  <2> TAKE t \in Elems(Tail(streams))
  <2>1. t.dir # top.dir
    BY <1>2 DEF Apart
  <2>2. t.dir = Root \/ Listed(t.dir)
    BY <1>2 DEF MoveInv, StreamsInv, Listed
  <2>3. \A m \in t.left : Parent[m] = t.dir
    BY <1>2 DEF MoveInv, StreamsInv
  <2> QED BY <1>5, <2>1, <2>2, <2>3, NotItsOwn
<1> HIDE DEF top, cut, rest, new, isDir
<1>10. rest \in Seq(Streams) /\ Elems(rest) = {cut} \cup Elems(Tail(streams)) /\ Pairwise(rest, Apart)
  <2>1. \A t \in Elems(Tail(streams)) : <<cut, t>> \in Apart
    BY <1>2, <1>3 DEF Apart
  <2> QED BY <1>2, <1>3, <2>1, ConsElems, ConsPairwise DEF rest
<1>11. Elems(<<new>> \o rest) = {new} \cup Elems(rest) /\ Pairwise(<<new>> \o rest, Apart)
  <2>1. top.dir # n
    BY <1>5, NotItsOwn
  <2>2. \A t \in Elems(rest) : t.dir # n /\ t \in Streams
    BY <1>3, <1>9, <1>10, <2>1, ElemsIn
  <2>3. \A t \in Elems(rest) : <<new, t>> \in Apart
    BY <1>4, <2>2 DEF Apart
  <2> QED BY <1>4, <1>10, <2>3, ConsElems, ConsPairwise
<1>12. /\ Elems(<<n>> \o dirList) = {n} \cup Elems(dirList)
       /\ Elems(<<n>> \o fileList) = {n} \cup Elems(fileList)
  BY <1>1, ConsElems
<1>13. \A m : Listed(m)' <=> Listed(m) \/ m = n
  BY <1>1, <1>12 DEF Listed
<1>14. ListsInv'
  <2>1. CASE isDir
    <3>1. \A m \in Elems(dirList) : m \in Nodes /\ <<n, m>> \in NotAbove
      BY <1>1, <1>5, <1>8, ElemsIn DEF NotAbove, Listed
    <3>2. Pairwise(<<n>> \o dirList, NotAbove)
      BY <1>1, <3>1, ConsPairwise DEF MoveInv, ListsInv
    <3> QED BY <1>1, <1>7, <1>12, <2>1, <3>2 DEF MoveInv, ListsInv
  <2>2. CASE ~isDir
    <3>1. \A m \in Elems(fileList) : m \in Nodes /\ <<n, m>> \in Unlike
      BY <1>1, <1>5, ElemsIn DEF Unlike, Listed
    <3>2. Pairwise(<<n>> \o fileList, Unlike)
      BY <1>1, <3>1, ConsPairwise DEF MoveInv, ListsInv
    <3> QED BY <1>1, <1>7, <1>12, <2>2, <3>2 DEF MoveInv, ListsInv
  <2> QED BY <2>1, <2>2
<1>15. StreamsInv'
  <2>1. Pairwise(streams', Apart)
    BY <1>1, <1>10, <1>11
  <2>2. ASSUME NEW t \in Elems(streams'), NEW m \in t.left
        PROVE  /\ t.dir = Root \/ t.dir \in Elems(dirList')
               /\ Parent[m] = t.dir /\ Present(Side, m) /\ ~Listed(m) /\ m # n
    <3>1. CASE isDir /\ t = new
      <4>1. m \in Nodes /\ Parent[m] = n /\ Present(Side, m)
        BY <1>4, <3>1
      <4> QED BY <1>1, <1>4, <1>8, <1>12, <3>1, <4>1, NotItsOwn
    <3>2. CASE t = cut
      <4>1. m \in top.left /\ m # n /\ top \in Elems(streams)
        BY <1>2, <1>3, <3>2
      <4> QED BY <1>1, <1>3, <1>12, <3>2, <4>1 DEF MoveInv, StreamsInv
    <3>3. CASE t \in Elems(Tail(streams))
      BY <1>1, <1>2, <1>9, <1>12, <3>3 DEF MoveInv, StreamsInv
    <3> QED BY <1>1, <1>10, <1>11, <3>1, <3>2, <3>3
  <2>3. ASSUME NEW t \in Elems(streams')
        PROVE  t.dir = Root \/ t.dir \in Elems(dirList')
    <3>1. CASE isDir /\ t = new
      BY <1>1, <1>4, <1>12, <3>1
    <3>2. CASE t = cut
      BY <1>1, <1>3, <1>5, <1>12, <3>2
    <3>3. CASE t \in Elems(Tail(streams))
      BY <1>1, <1>2, <1>12, <3>3 DEF MoveInv, StreamsInv
    <3> QED BY <1>1, <1>10, <1>11, <3>1, <3>2, <3>3
  <2>4. \A m : Present(Side, m)' <=> Present(Side, m)
    BY <1>1, <1>6 DEF Present
  <2> QED BY <1>13, <2>1, <2>2, <2>3, <2>4 DEF StreamsInv
<1>16. AboveInv'
  <2>1. \A m : InDst(m)' <=> InDst(m)
    BY <1>1 DEF InDst
  <2>2. Parent[n] = Root \/ Listed(Parent[n])
    BY <1>5 DEF Listed
  <2> QED BY <1>1, <1>13, <2>1, <2>2 DEF MoveInv, AboveInv
<1>17. \A m : Streamed(m)' => Streamed(m) \/ (Parent[m] = n /\ m \in Nodes /\ Present(Side, m))
  <2>1. \A m : Streamed(m)' <=> \E t \in Elems(streams') : m \in t.left
    BY LeftsOfElems DEF Streamed
  <2>2. \A m : Streamed(m) <=> \E t \in Elems(streams) : m \in t.left
    BY LeftsOfElems DEF Streamed
  <2> QED BY <1>1, <1>2, <1>3, <1>4, <1>10, <1>11, <2>1, <2>2
<1>18. RoomInv'
  <2> SUFFICES ASSUME job = "copy", NEW m \in Nodes, Kind[m] # "file",
                      Listed(m)' \/ Streamed(m)'
               PROVE  ~Present("dst", m)
    BY <1>1 DEF RoomInv, Present
  <2>1. CASE Listed(m) \/ Streamed(m)
    BY <2>1 DEF MoveInv, RoomInv
  <2>2. CASE m = n
    BY <1>5, <2>2 DEF MoveInv, RoomInv
  <2>3. CASE Parent[m] = n
    <3>1. Kind[n] # "file"
      BY <1>7, <2>3
    <3>2. ~Present("dst", n)
      BY <1>5, <3>1 DEF MoveInv, RoomInv
    <3> QED BY <2>3, <3>2, NotItsOwn DEF MoveInv, KindInv, Sides
  <2> QED BY <1>13, <1>17, <2>1, <2>2, <2>3
<1>19. LeftInv'
  <2> SUFFICES ASSUME job # "copy", ~bad, NEW m \in Nodes, Present(Side, m),
                      Parent[m] = Root \/ Listed(Parent[m])'
               PROVE  (Listed(m) \/ Streamed(m))'
    BY <1>1, <1>6 DEF LeftInv, Present
  <2>1. CASE Parent[m] = Root \/ Listed(Parent[m])
    BY <1>1, <1>13, <2>1, ReadEntryMoves DEF MoveInv, LeftInv
  <2>2. CASE Parent[m] = n
    <3>1. tree[Side][n].kind = "dir" /\ m \in Entries(tree[Side], n)
      BY <1>7, <2>2 DEF isDir, Entries, Present
    <3> QED BY <3>1, ReadEntryMoves
  <2> QED BY <1>13, <2>1, <2>2
<1>20. KindInv' /\ PhaseInv' /\ FaultInv' /\ EndInv'
  BY <1>1 DEF MoveInv, KindInv, Present, PhaseInv, FaultInv, EndInv
<1> QED BY <1>14, <1>15, <1>16, <1>18, <1>19, <1>20 DEF MoveInv

\* A step that changes where the program is, and at most closes a stream.
LEMMA PassOrders ==
  ASSUME TreeInv, MoveInv, UNCHANGED <<tree, job, lists, bad, result, faults>>, result = "none",
         pc' \in {"list", "mkdirs", "copy", "files", "dirs"}, pc' = "list" => pc = "list",
         pc' = "dirs" => fileList = <<>>,
         pc # "done", Elems(streams') \subseteq Elems(streams), Pairwise(streams', Apart),
         \A m : Streamed(m)' <=> Streamed(m)
  PROVE  MoveInv'
<1>1. /\ tree' = tree /\ job' = job /\ dirList' = dirList /\ fileList' = fileList
      /\ bad' = bad /\ result' = result /\ faults' = faults
  BY DEF lists
<1>2. Side' = Side
  BY <1>1 DEF Side
<1>3. \A m : (Listed(m)' <=> Listed(m)) /\ (InDst(m)' <=> InDst(m))
  BY <1>1 DEF Listed, InDst
<1>4. \A s, m : Present(s, m)' <=> Present(s, m)
  BY <1>1 DEF Present
<1>5. KindInv' /\ ListsInv'
  BY <1>1, <1>4 DEF MoveInv, KindInv, ListsInv
<1>6. StreamsInv'
  BY <1>1, <1>2, <1>3, <1>4 DEF MoveInv, StreamsInv
<1>7. AboveInv' /\ RoomInv'
  BY <1>1, <1>3, <1>4 DEF MoveInv, AboveInv, RoomInv
<1>8. LeftInv'
  BY <1>1, <1>2, <1>3, <1>4 DEF MoveInv, LeftInv
<1>9. PhaseInv' /\ FaultInv' /\ EndInv'
  BY <1>1 DEF MoveInv, PhaseInv, FaultInv, EndInv
<1> QED BY <1>5, <1>6, <1>7, <1>8, <1>9 DEF MoveInv

LEMMA CloseDirOrders ==
  ASSUME TreeInv, MoveInv, CloseDir
  PROVE  MoveInv'
<1>1. /\ streams \in Seq(Streams) /\ streams # <<>> /\ pc = "list"
      /\ Head(streams).left = {} /\ streams' = Tail(streams)
      /\ pc' \in {"list", "mkdirs", "files"}
      /\ UNCHANGED <<tree, job, lists, bad, result, faults>>
  BY DEF CloseDir, TreeInv, Shapes
<1>2. Elems(streams) = {Head(streams)} \cup Elems(streams') /\ Pairwise(streams', Apart)
  BY <1>1, TailElems, TailPairwise DEF MoveInv, StreamsInv
<1>3. \A m : Streamed(m)' <=> Streamed(m)
  <2>1. \A m : Streamed(m) <=> \E t \in Elems(streams) : m \in t.left
    BY LeftsOfElems DEF Streamed
  <2>2. \A m : Streamed(m)' <=> \E t \in Elems(streams') : m \in t.left
    BY LeftsOfElems DEF Streamed
  <2> QED BY <1>1, <1>2, <2>1, <2>2
<1>4. result = "none"
  BY <1>1 DEF MoveInv, PhaseInv
<1> QED BY <1>1, <1>2, <1>3, <1>4, PassOrders

LEMMA ListFailsOrders ==
  ASSUME TreeInv, MoveInv, ListFails
  PROVE  MoveInv'
<1>1. Fail(tree) /\ UNCHANGED tree /\ Fault
  BY DEF ListFails
<1>2. CASE job = "copy"
  BY <1>1, <1>2, StopMoves DEF TreeInv
<1>3. CASE job # "copy"
  <2>1. End("err") /\ faults' \in Nat /\ faults' > 0 /\ faults' >= faults
    BY <1>1, <1>3 DEF Fail, Fault, MoveInv, FaultInv
  <2>2. job = "wipe_dst" => faults' # 1
    BY <1>1 DEF Fault, MoveInv, FaultInv
  <2> QED BY <1>1, <1>3, <2>1, <2>2, EndMoves
<1> QED BY <1>2, <1>3

LEMMA MakeDirOrders ==
  ASSUME TreeInv, MoveInv, MakeDir
  PROVE  MoveInv'
<1>0. PICK d : d = Last(dirList)
  OBVIOUS
<1> DEFINE fits == tree["dst"][d].kind = "none" /\ IsThere(tree["dst"], Parent[d])
           new == [Original(d) EXCEPT !.attr = "other"]
<1>1. /\ pc = "mkdirs" /\ job = "copy" /\ dirList \in Seq(Nodes) /\ dirList # <<>>
      /\ fileList \in Seq(Nodes) /\ Shapes
  BY DEF MakeDir, TreeInv, Shapes
<1>2. /\ d \in Nodes /\ Front(dirList) \in Seq(Nodes)
      /\ Elems(dirList) = {d} \cup Elems(Front(dirList))
      /\ Pairwise(Front(dirList), NotAbove)
      /\ \A m \in Elems(Front(dirList)) : <<m, d>> \in NotAbove
  BY <1>0, <1>1, FrontElems, FrontPairwise DEF MoveInv, ListsInv
<1>3. TreeShape /\ tree["src"][d] = Original(d)
  BY <1>1, <1>2 DEF TreeInv, Shapes, SrcWhole
<1>4. Listed(d) /\ Kind[d] = "dir"
  BY <1>2 DEF Listed, MoveInv, ListsInv
<1>5. Parent[d] # Root => ~Listed(Parent[d])
  <2> SUFFICES ASSUME Parent[d] # Root, Listed(Parent[d]) PROVE FALSE
    OBVIOUS
  <2>1. Parent[d] \in Nodes /\ Kind[Parent[d]] = "dir"
    BY <1>2, TreeAssumption
  <2>2. Parent[d] \in Elems(Front(dirList))
    BY <1>2, <2>1, NotItsOwn DEF Listed, MoveInv, ListsInv
  <2> QED BY <1>2, <2>2 DEF NotAbove
<1>6. fits /\ (Parent[d] = Root \/ Present("dst", Parent[d]))
  <2>1. ~Present("dst", d)
    BY <1>1, <1>2, <1>4 DEF MoveInv, RoomInv
  <2> QED BY <1>1, <1>2, <1>4, <1>5, <2>1, ParentThere DEF Present
<1>7. CASE /\ Set("dst", d, tree["src"][d]) /\ dirList' = Front(dirList)
           /\ UNCHANGED <<job, pc, streams, fileList, block, bad, result, faults>>
  <2>1. /\ tree'["dst"][d] = Original(d)
        /\ \A s \in Sides, m \in Nodes : s # "dst" \/ m # d => tree'[s][m] = tree[s][m]
    BY <1>2, <1>3, <1>7, SetTree DEF Sides
  <2>2. ListsInv'
    BY <1>2, <1>7 DEF MoveInv, ListsInv
  <2>3. (\A m : Listed(m)' => Listed(m)) /\ \A m : Listed(m) => Listed(m)' \/ m = d
    BY <1>2, <1>7 DEF Listed
  <2>4. ~Listed(d)'
    <3>1. d \notin Elems(Front(dirList))
      BY <1>2 DEF NotAbove
    <3>2. d \notin Elems(fileList)
      BY <1>4 DEF MoveInv, ListsInv
    <3> QED BY <1>7, <3>1, <3>2 DEF Listed
  <2>5. tree'["dst"][d].kind = Kind[d]
    BY <1>2, <2>1, KindOfOriginal
  <2> QED BY <1>1, <1>2, <1>6, <1>7, <2>1, <2>2, <2>3, <2>4, <2>5, GrowMoves
<1>8. CASE Fault /\ Fail(tree) /\ UNCHANGED tree
  BY <1>1, <1>8, StopMoves
<1>9. CASE Fault /\ Set("dst", d, new) /\ Fail(tree')
  <2>1. /\ tree'["dst"][d] = new
        /\ \A s \in Sides, m \in Nodes : s # "dst" \/ m # d => tree'[s][m] = tree[s][m]
    BY <1>2, <1>3, <1>9, SetTree DEF Sides
  <2>2. new.kind = Kind[d]
    BY DEF Original
  <2> HIDE DEF new
  <2> QED BY <1>1, <1>2, <1>6, <1>9, <2>1, <2>2, HalfMoves
<1> QED BY <1>0, <1>6, <1>7, <1>8, <1>9 DEF MakeDir

LEMMA DirsMadeOrders ==
  ASSUME TreeInv, MoveInv, DirsMade
  PROVE  MoveInv'
<1>1. /\ pc = "mkdirs" /\ pc' = "copy" /\ streams' = streams
      /\ UNCHANGED <<tree, job, lists, bad, result, faults>>
  BY DEF DirsMade
<1>2. \A m : Streamed(m)' <=> Streamed(m)
  BY <1>1 DEF Streamed
<1> QED BY <1>1, <1>2, PassOrders DEF MoveInv, StreamsInv, PhaseInv

\* The file or link that is being copied.
LEMMA NextFile ==
  ASSUME TreeInv, MoveInv, pc = "copy", fileList # <<>>, NEW f, f = Head(fileList)
  PROVE  /\ job = "copy" /\ Shapes /\ f \in Nodes /\ Listed(f) /\ Kind[f] # "dir"
         /\ tree["src"][f] = Original(f) /\ tree["src"][f].kind = Kind[f]
         /\ Tail(fileList) \in Seq(Nodes) /\ Elems(fileList) = {f} \cup Elems(Tail(fileList))
         /\ Pairwise(Tail(fileList), Unlike) /\ f \notin Elems(Tail(fileList))
         /\ IsThere(tree["dst"], Parent[f])
         /\ Parent[f] = Root \/ Present("dst", Parent[f])
<1>1. /\ job = "copy" /\ fileList \in Seq(Nodes) /\ dirList = <<>> /\ Shapes
  BY DEF TreeInv, Shapes
<1>2. /\ f \in Nodes /\ Tail(fileList) \in Seq(Nodes)
      /\ Elems(fileList) = {f} \cup Elems(Tail(fileList))
      /\ Pairwise(Tail(fileList), Unlike) /\ \A m \in Elems(Tail(fileList)) : <<f, m>> \in Unlike
  BY <1>1, TailElems, TailPairwise DEF MoveInv, ListsInv
<1>3. Listed(f) /\ Kind[f] # "dir" /\ f \notin Elems(Tail(fileList))
  BY <1>2 DEF Listed, MoveInv, ListsInv, Unlike
<1>4. tree["src"][f] = Original(f) /\ tree["src"][f].kind = Kind[f]
  BY <1>1, <1>2, KindOfOriginal DEF TreeInv, SrcWhole
<1>5. Parent[f] # Root => ~Listed(Parent[f])
  BY <1>1, <1>2, EmptyElems, TreeAssumption DEF Listed, MoveInv, ListsInv
<1> QED BY <1>1, <1>2, <1>3, <1>4, <1>5, ParentThere

\* f is copied and taken off the list.
LEMMA FileDoneOrders ==
  ASSUME TreeInv, MoveInv, pc = "copy", fileList # <<>>, NEW f, f = Head(fileList),
         tree'["dst"][f].kind = Kind[f],
         \A s \in Sides, m \in Nodes : s # "dst" \/ m # f => tree'[s][m] = tree[s][m],
         fileList' = Tail(fileList), UNCHANGED <<job, pc, streams, dirList, bad, result, faults>>
  PROVE  MoveInv'
<1>1. /\ job = "copy" /\ Shapes /\ f \in Nodes /\ Kind[f] # "dir"
      /\ Elems(fileList) = {f} \cup Elems(fileList')
      /\ Pairwise(fileList', Unlike) /\ f \notin Elems(fileList')
      /\ Parent[f] = Root \/ Present("dst", Parent[f])
  BY NextFile
<1>2. ListsInv'
  BY <1>1 DEF MoveInv, ListsInv
<1>3. (\A m : Listed(m)' => Listed(m)) /\ \A m : Listed(m) => Listed(m)' \/ m = f
  BY <1>1 DEF Listed
<1>4. ~Listed(f)'
  BY <1>1 DEF Listed, MoveInv, ListsInv
<1> QED BY <1>1, <1>2, <1>3, <1>4, GrowMoves

\* f is open and stays first in the list.
LEMMA FileGrowsOrders ==
  ASSUME TreeInv, MoveInv, pc = "copy", fileList # <<>>, NEW f, f = Head(fileList),
         Kind[f] = "file", tree'["dst"][f].kind = Kind[f],
         \A s \in Sides, m \in Nodes : s # "dst" \/ m # f => tree'[s][m] = tree[s][m],
         UNCHANGED <<job, pc, streams, lists, bad, result, faults>>
  PROVE  MoveInv'
<1>1. /\ job = "copy" /\ Shapes /\ f \in Nodes
      /\ Parent[f] = Root \/ Present("dst", Parent[f])
  BY NextFile
<1>2. dirList' = dirList /\ fileList' = fileList
  BY DEF lists
<1>3. ListsInv' /\ \A m : Listed(m)' <=> Listed(m)
  BY <1>2 DEF Listed, MoveInv, ListsInv
<1> QED BY <1>1, <1>2, <1>3, GrowMoves

LEMMA CopyLinkOrders ==
  ASSUME TreeInv, MoveInv, pc = "copy", fileList # <<>>, CopyLink(Head(fileList))
  PROVE  MoveInv'
<1> DEFINE f == Head(fileList)
           fits == tree["dst"][f].kind = "none" /\ IsThere(tree["dst"], Parent[f])
           new == [tree["src"][f] EXCEPT !.attr = "other"]
<1>1. /\ job = "copy" /\ Shapes /\ f \in Nodes /\ Listed(f) /\ tree["src"][f] = Original(f)
      /\ tree["src"][f].kind = Kind[f] /\ IsThere(tree["dst"], Parent[f])
      /\ Parent[f] = Root \/ Present("dst", Parent[f])
  BY NextFile
<1>2. TreeShape
  BY DEF TreeInv, Shapes
<1>3. Kind[f] = "link"
  BY <1>1 DEF CopyLink
<1>4. fits
  BY <1>1, <1>3 DEF MoveInv, RoomInv, Present
<1>5. new.kind = Kind[f]
  BY <1>1 DEF Original
<1> HIDE DEF f, new
<1>6. CASE /\ Set("dst", f, tree["src"][f]) /\ fileList' = Tail(fileList)
           /\ UNCHANGED <<job, pc, streams, dirList, block, bad, result, faults>>
  <2>1. /\ tree'["dst"][f] = tree["src"][f]
        /\ \A s \in Sides, m \in Nodes : s # "dst" \/ m # f => tree'[s][m] = tree[s][m]
    BY <1>1, <1>2, <1>6, SetTree DEF Sides
  <2> QED BY <1>1, <1>6, <2>1, FileDoneOrders DEF f
<1>7. CASE Fault /\ Fail(tree) /\ UNCHANGED tree
  BY <1>1, <1>7, StopMoves
<1>8. CASE Fault /\ Set("dst", f, new) /\ Fail(tree')
  <2>1. /\ tree'["dst"][f] = new
        /\ \A s \in Sides, m \in Nodes : s # "dst" \/ m # f => tree'[s][m] = tree[s][m]
    BY <1>1, <1>2, <1>8, SetTree DEF Sides
  <2> QED BY <1>1, <1>5, <1>8, <2>1, HalfMoves
<1> QED BY <1>4, <1>6, <1>7, <1>8 DEF CopyLink, f, new

LEMMA OpenCopyOrders ==
  ASSUME TreeInv, MoveInv, pc = "copy", fileList # <<>>, OpenCopy(Head(fileList))
  PROVE  MoveInv'
<1> DEFINE f == Head(fileList)
           new == [kind |-> "file", blocks |-> <<>>, attr |-> "other"]
<1>1. /\ job = "copy" /\ Shapes /\ f \in Nodes /\ tree["src"][f].kind = Kind[f]
      /\ IsThere(tree["dst"], Parent[f])
  BY NextFile
<1>2. TreeShape
  BY DEF TreeInv, Shapes
<1>3. Kind[f] = "file" /\ new.kind = "file"
  BY <1>1 DEF OpenCopy
<1> HIDE DEF f, new
<1>4. CASE tree["dst"][f].kind = "file" /\ UNCHANGED tree
           /\ UNCHANGED <<job, pc, streams, lists, bad, result, faults>>
  BY <1>3, <1>4, FileGrowsOrders DEF f
<1>5. CASE Set("dst", f, new) /\ UNCHANGED <<job, pc, streams, lists, bad, result, faults>>
  <2>1. /\ tree'["dst"][f] = new
        /\ \A s \in Sides, m \in Nodes : s # "dst" \/ m # f => tree'[s][m] = tree[s][m]
    BY <1>1, <1>2, <1>5, SetTree DEF Sides
  <2> QED BY <1>3, <1>5, <2>1, FileGrowsOrders DEF f
<1>6. CASE Fault /\ Fail(tree) /\ UNCHANGED tree
  BY <1>1, <1>6, StopMoves
<1> QED BY <1>1, <1>4, <1>5, <1>6 DEF OpenCopy, f, new

\* An open file, or what is written over it.
LEMMA OpenFile ==
  ASSUME TreeInv, MoveInv, pc = "copy", fileList # <<>>, block # 0, NEW f, f = Head(fileList)
  PROVE  /\ Kind[f] = "file" /\ tree["dst"][f].kind = "file"
         /\ tree["dst"][f] = [kind |-> "file", blocks |-> tree["dst"][f].blocks,
                              attr |-> tree["dst"][f].attr]
<1>1. job = "copy"
  BY NextFile
<1>2. Kind[f] = "file" /\ \E k \in Nat : Partly(f, k)
  BY <1>1 DEF TreeInv, CopyInv, Reached
<1> QED BY <1>2 DEF Partly

LEMMA CopyBlockOrders ==
  ASSUME TreeInv, MoveInv, pc = "copy", fileList # <<>>, CopyBlock(Head(fileList))
  PROVE  MoveInv'
<1> DEFINE f == Head(fileList)
           to == tree["dst"][f].blocks
           Put(b) == tree' = [tree EXCEPT !["dst"][f].blocks = Written(to, b)]
<1>1. /\ job = "copy" /\ Shapes /\ f \in Nodes
      /\ Parent[f] = Root \/ Present("dst", Parent[f])
  BY NextFile
<1>2. TreeShape
  BY DEF TreeInv, Shapes
<1>3. block # 0
  BY DEF CopyBlock
<1>4. Kind[f] = "file" /\ tree["dst"][f].kind = "file"
      /\ tree["dst"][f] = [kind |-> "file", blocks |-> to, attr |-> tree["dst"][f].attr]
  BY <1>3, OpenFile
<1> HIDE DEF to
<1>5. ASSUME NEW b, Put(b)
      PROVE  /\ tree'["dst"][f].kind = Kind[f]
             /\ \A s \in Sides, m \in Nodes : s # "dst" \/ m # f => tree'[s][m] = tree[s][m]
  <2> DEFINE v == [tree["dst"][f] EXCEPT !.blocks = Written(to, b)]
  <2>1. Set("dst", f, v)
    BY <1>2, <1>5 DEF Set, TreeShape, Sides
  <2>2. v.kind = Kind[f]
    BY <1>4
  <2> HIDE DEF v, f
  <2> QED BY <1>1, <1>2, <2>1, <2>2, SetTree DEF Sides
<1> HIDE DEF f
<1>6. CASE Put(tree["src"][f].blocks[block]) /\ UNCHANGED <<job, pc, streams, lists, bad, result, faults>>
  BY <1>4, <1>5, <1>6, FileGrowsOrders DEF f
<1>7. CASE Fault /\ Fail(tree) /\ UNCHANGED tree
  BY <1>1, <1>7, StopMoves
<1>8. CASE Fault /\ Put(<<"half", block>>) /\ Fail(tree')
  BY <1>1, <1>5, <1>8, HalfMoves
<1> QED BY <1>6, <1>7, <1>8 DEF CopyBlock, f, to

LEMMA CopyEndsOrders ==
  ASSUME TreeInv, MoveInv, pc = "copy", fileList # <<>>, CopyEnds(Head(fileList))
  PROVE  MoveInv'
<1> DEFINE f == Head(fileList)
           v == [tree["dst"][f] EXCEPT !.attr = tree["src"][f].attr]
<1>1. job = "copy" /\ Shapes /\ f \in Nodes
  BY NextFile
<1>2. TreeShape
  BY DEF TreeInv, Shapes
<1>3. block # 0
  <2>1. Len(tree["src"][f].blocks) \in Nat
    <3>1. tree["src"][f].blocks = IF Kind[f] = "file" THEN Upto(f, Blocks[f]) ELSE <<>>
      <4>1. tree["src"][f] = Original(f)
        BY NextFile
      <4> QED BY <4>1 DEF Original, Upto
    <3>2. Blocks[f] \in Nat
      BY <1>1, TreeAssumption
    <3> QED BY <3>1, <3>2, UptoNext
  <2> QED BY <2>1 DEF CopyEnds
<1>4. Kind[f] = "file" /\ tree["dst"][f].kind = "file"
      /\ tree["dst"][f] = [kind |-> "file", blocks |-> tree["dst"][f].blocks, attr |-> tree["dst"][f].attr]
  BY <1>3, OpenFile
<1>5. v.kind = Kind[f]
  BY <1>4
<1> HIDE DEF f
<1>6. CASE /\ tree' = [tree EXCEPT !["dst"][f].attr = tree["src"][f].attr]
           /\ fileList' = Tail(fileList)
           /\ UNCHANGED <<job, pc, streams, dirList, bad, result, faults>>
  <2>1. Set("dst", f, v)
    BY <1>2, <1>6 DEF Set, TreeShape, Sides
  <2> HIDE DEF v
  <2>2. /\ tree'["dst"][f] = v
        /\ \A s \in Sides, m \in Nodes : s # "dst" \/ m # f => tree'[s][m] = tree[s][m]
    BY <1>1, <1>2, <2>1, SetTree DEF Sides
  <2>3. tree'["dst"][f].kind = Kind[f] /\ f = Head(fileList)
    BY <1>5, <2>2 DEF f
  <2> QED BY <1>6, <2>2, <2>3, FileDoneOrders
<1>7. CASE Fault /\ Fail(tree) /\ UNCHANGED tree
  BY <1>1, <1>7, StopMoves
<1> QED BY <1>6, <1>7 DEF CopyEnds, f

LEMMA CopiedOrders ==
  ASSUME TreeInv, MoveInv, Copied
  PROVE  MoveInv'
<1>1. /\ tree' = tree /\ StartList("wipe_src", tree["src"]) /\ faults' = faults
      /\ result' = result /\ pc = "copy"
  BY DEF Copied
<1>2. KindInv' /\ faults' \in Nat /\ result' = "none"
  BY <1>1 DEF MoveInv, KindInv, Present, FaultInv, PhaseInv
<1> QED BY <1>1, <1>2, StartMoves

\* A removal that fails says so, and one that can only fail follows a failure.
LEMMA RemovedOrders ==
  ASSUME TreeInv, MoveInv, job # "copy", pc \in {"files", "dirs"}, NEW n \in Nodes, Remove1(n),
         ~bad => Entries(tree[Side], n) = {},
         ListsInv', \A m : Listed(m)' => Listed(m), \A m : Listed(m) => Listed(m)' \/ m = n,
         pc = "dirs" => fileList' = <<>>, UNCHANGED <<job, pc, streams, result>>
  PROVE  MoveInv'
<1>1. streams = <<>> /\ TreeShape /\ job \in {"wipe_src", "wipe_dst"} /\ result = "none"
  BY DEF TreeInv, Shapes, MoveInv, PhaseInv
<1>2. Side \in Sides /\ Side' = Side
  BY DEF Side, Sides
<1>3. StreamsInv' /\ \A m : ~Streamed(m) /\ ~Streamed(m)'
  BY <1>1, EmptyElems, EmptyPairwise DEF StreamsInv, Streamed
<1>4. RoomInv' /\ AboveInv' /\ EndInv' /\ PhaseInv'
  BY <1>1 DEF RoomInv, AboveInv, EndInv, PhaseInv, MoveInv
<1>5. CASE Entries(tree[Side], n) = {} /\ Set(Side, n, Missing) /\ UNCHANGED <<bad, faults>>
  <2>1. /\ tree'[Side][n] = Missing
        /\ \A s \in Sides, m \in Nodes : s # Side \/ m # n => tree'[s][m] = tree[s][m]
    BY <1>1, <1>2, <1>5, SetTree
  <2>2. \A m \in Nodes : Parent[m] = n => ~Present(Side, m)
    BY <1>5 DEF Entries, Present
  <2>3. ~Present(Side, n)'
    BY <1>2, <2>1 DEF Present, Missing
  <2>4. \A s \in Sides, m \in Nodes : s # Side \/ m # n => (Present(s, m)' <=> Present(s, m))
    BY <2>1 DEF Present
  <2>5. KindInv'
    <3> SUFFICES ASSUME NEW s \in Sides, NEW m \in Nodes
                 PROVE  /\ tree'[s][m] = Missing \/ tree'[s][m].kind = Kind[m]
                        /\ Present(s, m)' => Parent[m] = Root \/ Present(s, Parent[m])'
      BY DEF KindInv
    <3>1. CASE s = Side /\ m = n
      BY <1>2, <2>1, <2>3, <3>1
    <3>2. CASE ~(s = Side /\ m = n)
      <4>1. tree'[s][m] = tree[s][m] /\ (Present(s, m)' <=> Present(s, m))
        BY <2>1, <2>4, <3>2
      <4>2. Parent[m] \in Nodes \cup {Root}
        BY TreeAssumption
      <4>3. Present(s, m) /\ Parent[m] # Root => Present(s, Parent[m])'
        BY <2>2, <2>4, <4>2 DEF MoveInv, KindInv
      <4> QED BY <4>1, <4>3 DEF MoveInv, KindInv
    <3> QED BY <3>1, <3>2
  <2>6. LeftInv'
    <3> SUFFICES ASSUME ~bad, NEW m \in Nodes, Present(Side, m)',
                        Parent[m] = Root \/ Listed(Parent[m])'
                 PROVE  Listed(m)'
      BY <1>5 DEF LeftInv
    <3>1. m # n
      BY <2>3
    <3>2. Present(Side, m)
      BY <1>2, <2>4, <3>1
    <3>3. Listed(m)
      BY <1>3, <3>2 DEF MoveInv, LeftInv
    <3> QED BY <3>1, <3>3
  <2>7. FaultInv'
    BY <1>5 DEF MoveInv, FaultInv
  <2> QED BY <1>3, <1>4, <2>5, <2>6, <2>7 DEF MoveInv
<1>6. CASE bad' = TRUE /\ UNCHANGED tree /\ faults' \in Nat /\ faults' > 0 /\ (job = "wipe_dst" => faults' > 1)
  <2>1. KindInv' /\ LeftInv'
    BY <1>6 DEF MoveInv, KindInv, Present, LeftInv
  <2>2. FaultInv'
    BY <1>6 DEF FaultInv
  <2> QED BY <1>3, <1>4, <2>1, <2>2 DEF MoveInv
<1>7. CASE Entries(tree[Side], n) # {} /\ bad' = TRUE /\ UNCHANGED <<tree, faults>>
  <2>1. bad
    BY <1>7
  <2> QED BY <1>6, <1>7, <2>1 DEF MoveInv, FaultInv
<1>8. CASE Fault /\ bad' = TRUE /\ UNCHANGED tree
  BY <1>6, <1>8 DEF MoveInv, FaultInv, Fault
<1> QED BY <1>5, <1>7, <1>8 DEF Remove1

LEMMA RemoveFileOrders ==
  ASSUME TreeInv, MoveInv, RemoveFile
  PROVE  MoveInv'
<1>0. PICK n : n = Head(fileList)
  OBVIOUS
<1>1. /\ job # "copy" /\ pc = "files" /\ fileList \in Seq(Nodes) /\ fileList # <<>>
      /\ fileList' = Tail(fileList) /\ Remove1(n)
      /\ UNCHANGED <<job, pc, streams, dirList, result>>
  BY <1>0 DEF RemoveFile, TreeInv, Shapes
<1>2. /\ n \in Nodes /\ Elems(fileList) = {n} \cup Elems(fileList')
      /\ Pairwise(fileList', Unlike)
  BY <1>0, <1>1, TailElems, TailPairwise DEF MoveInv, ListsInv
<1>3. Entries(tree[Side], n) = {}
  <2>1. Kind[n] # "dir"
    BY <1>2 DEF MoveInv, ListsInv
  <2> QED BY <1>2, <2>1, TreeAssumption DEF Entries
<1>4. ListsInv'
  BY <1>1, <1>2 DEF MoveInv, ListsInv
<1>5. (\A m : Listed(m)' => Listed(m)) /\ \A m : Listed(m) => Listed(m)' \/ m = n
  BY <1>1, <1>2 DEF Listed
<1> QED BY <1>1, <1>2, <1>3, <1>4, <1>5, RemovedOrders

LEMMA RemoveDirOrders ==
  ASSUME TreeInv, MoveInv, RemoveDir
  PROVE  MoveInv'
<1>0. PICK n : n = Head(dirList)
  OBVIOUS
<1>1. /\ job # "copy" /\ pc = "dirs" /\ dirList \in Seq(Nodes) /\ dirList # <<>>
      /\ dirList' = Tail(dirList) /\ Remove1(n) /\ fileList = <<>> /\ streams = <<>>
      /\ UNCHANGED <<job, pc, streams, fileList, result>>
  BY <1>0 DEF RemoveDir, TreeInv, Shapes, MoveInv, PhaseInv
<1>2. /\ n \in Nodes /\ Elems(dirList) = {n} \cup Elems(dirList')
      /\ Pairwise(dirList', NotAbove) /\ \A m \in Elems(dirList') : <<n, m>> \in NotAbove
  BY <1>0, <1>1, TailElems, TailPairwise DEF MoveInv, ListsInv
<1>3. ~bad => Entries(tree[Side], n) = {}
  <2> SUFFICES ASSUME ~bad, NEW m \in Entries(tree[Side], n) PROVE FALSE
    OBVIOUS
  <2>1. m \in Nodes /\ Parent[m] = n /\ Present(Side, m)
    BY DEF Entries, Present
  <2>2. Listed(n)
    BY <1>2 DEF Listed
  <2>3. Listed(m) \/ Streamed(m)
    BY <1>1, <2>1, <2>2 DEF MoveInv, LeftInv
  <2>4. m \in Elems(dirList)
    BY <1>1, <2>3, EmptyElems DEF Listed, Streamed
  <2>5. m # n
    BY <2>1, NotItsOwn
  <2> QED BY <1>2, <2>1, <2>4, <2>5 DEF NotAbove
<1>4. ListsInv'
  BY <1>1, <1>2 DEF MoveInv, ListsInv
<1>5. (\A m : Listed(m)' => Listed(m)) /\ \A m : Listed(m) => Listed(m)' \/ m = n
  BY <1>1, <1>2 DEF Listed
<1> QED BY <1>1, <1>2, <1>3, <1>4, <1>5, RemovedOrders

LEMMA FilesRemovedOrders ==
  ASSUME TreeInv, MoveInv, FilesRemoved
  PROVE  MoveInv'
<1>1. pc = "files" /\ fileList = <<>> /\ UNCHANGED <<tree, faults>> /\ job # "copy"
      /\ streams = <<>>
  BY DEF FilesRemoved, TreeInv, Shapes
<1>2. CASE bad /\ End("err")
  BY <1>1, <1>2, EndMoves DEF MoveInv, FaultInv
<1>3. CASE pc' = "dirs" /\ UNCHANGED <<job, streams, lists, bad, result>>
  <2>1. streams' = streams /\ \A m : Streamed(m)' <=> Streamed(m)
    BY <1>3 DEF Streamed
  <2> QED BY <1>1, <1>3, <2>1, PassOrders DEF MoveInv, StreamsInv, PhaseInv
<1> QED BY <1>2, <1>3 DEF FilesRemoved

LEMMA DirsRemovedOrders ==
  ASSUME TreeInv, MoveInv, DirsRemoved
  PROVE  MoveInv'
<1>1. /\ pc = "dirs" /\ dirList = <<>> /\ fileList = <<>> /\ streams = <<>>
      /\ UNCHANGED <<tree, faults>> /\ job \in {"wipe_src", "wipe_dst"}
  BY DEF DirsRemoved, TreeInv, Shapes, MoveInv, PhaseInv
<1>2. Side \in Sides
  BY DEF Side, Sides
<1>3. ~bad => \A n \in Nodes : ~Present(Side, n)
  <2> SUFFICES ASSUME ~bad PROVE \A n \in Nodes : ~Present(Side, n)
    OBVIOUS
  <2> DEFINE S == {n \in Nodes : Present(Side, n)}
  <2> SUFFICES ASSUME S # {} PROVE FALSE
    OBVIOUS
  <2>1. PICK n \in S : Parent[n] \notin S
    BY TreeAssumption
  <2>2. Parent[n] = Root
    BY <1>2, <2>1, TreeAssumption DEF MoveInv, KindInv
  <2>3. Listed(n) \/ Streamed(n)
    BY <1>1, <2>1, <2>2 DEF MoveInv, LeftInv
  <2> QED BY <1>1, <2>3, EmptyElems DEF Listed, Streamed
<1>4. CASE End("err") /\ (bad \/ job = "wipe_dst")
  <2>1. faults \in Nat /\ faults > 0
    BY <1>4 DEF MoveInv, FaultInv
  <2>2. job = "wipe_dst" /\ faults = 1 => \A n \in Nodes : ~Present("dst", n)
    BY <1>3 DEF MoveInv, FaultInv, Side
  <2> QED BY <1>1, <1>4, <2>1, <2>2, EndMoves
<1>5. CASE End("ok") /\ ~bad /\ job = "wipe_src"
  <2>1. \A n \in Nodes : ~Present("src", n)
    BY <1>3, <1>5 DEF Side
  <2>2. \A n \in Nodes : InDst(n)
    <3> DEFINE S == {n \in Nodes : ~InDst(n)}
    <3> SUFFICES ASSUME S # {} PROVE FALSE
      OBVIOUS
    <3>1. PICK n \in S : Parent[n] \notin S
      BY TreeAssumption
    <3>2. Parent[n] = Root \/ InDst(Parent[n])
      BY <3>1, TreeAssumption
    <3> QED BY <1>5, <3>1, <3>2 DEF TreeInv, WipeInv
  <2> QED BY <1>1, <1>5, <2>1, <2>2, EndMoves DEF MoveInv, FaultInv
<1> QED BY <1>1, <1>4, <1>5 DEF DirsRemoved

LEMMA StutterOrders == ASSUME MoveInv, UNCHANGED vars PROVE MoveInv'
<1>1. /\ tree' = tree /\ job' = job /\ pc' = pc /\ streams' = streams /\ bad' = bad
      /\ dirList' = dirList /\ fileList' = fileList /\ result' = result /\ faults' = faults
  BY DEF vars, lists
<1>2. Side' = Side
  BY <1>1 DEF Side
<1>3. \A n : (Listed(n)' <=> Listed(n)) /\ (Streamed(n)' <=> Streamed(n)) /\ (InDst(n)' <=> InDst(n))
  BY <1>1 DEF Listed, Streamed, InDst
<1>4. \A s, n : Present(s, n)' <=> Present(s, n)
  BY <1>1 DEF Present
<1>5. KindInv' /\ ListsInv' /\ StreamsInv'
  BY <1>1, <1>2, <1>3, <1>4 DEF MoveInv, KindInv, ListsInv, StreamsInv
<1>6. AboveInv' /\ RoomInv' /\ LeftInv'
  BY <1>1, <1>2, <1>3, <1>4 DEF MoveInv, AboveInv, RoomInv, LeftInv
<1>7. PhaseInv' /\ FaultInv' /\ EndInv'
  BY <1>1, <1>3, <1>4 DEF MoveInv, PhaseInv, FaultInv, EndInv
<1> QED BY <1>5, <1>6, <1>7 DEF MoveInv

LEMMA StepOrders == ASSUME TreeInv, MoveInv, [Next]_vars PROVE MoveInv'
<1>1. ASSUME NEW n \in Nodes, ReadEntry(n) PROVE MoveInv'
  BY <1>1, ReadEntryOrders
<1>2. CASE CloseDir
  BY <1>2, CloseDirOrders
<1>3. CASE ListFails
  BY <1>3, ListFailsOrders
<1>4. CASE MakeDir
  BY <1>4, MakeDirOrders
<1>5. CASE DirsMade
  BY <1>5, DirsMadeOrders
<1>6. CASE Copy
  BY <1>6, CopyLinkOrders, OpenCopyOrders, CopyBlockOrders, CopyEndsOrders DEF Copy
<1>7. CASE Copied
  BY <1>7, CopiedOrders
<1>8. CASE RemoveFile
  BY <1>8, RemoveFileOrders
<1>9. CASE FilesRemoved
  BY <1>9, FilesRemovedOrders
<1>10. CASE RemoveDir
  BY <1>10, RemoveDirOrders
<1>11. CASE DirsRemoved
  BY <1>11, DirsRemovedOrders
<1>12. CASE UNCHANGED vars
  BY <1>12, StutterOrders
<1> QED BY <1>1, <1>2, <1>3, <1>4, <1>5, <1>6, <1>7, <1>8, <1>9, <1>10, <1>11, <1>12 DEF Next

-----------------------------------------------------------------------------
(* The theorems.                                                             *)

\* Into an empty destination: at every moment each entry is whole on one of the
\* two sides, for every tree, every size of its files and every number of faults.
THEOREM NothingLostCorrect == ASSUME Stale = {} PROVE Spec => []NothingLost
<1>1. Init => TreeInv
  BY InitKeeps
<1>2. TreeInv /\ [Next]_vars => TreeInv'
  BY StepKeeps
<1>3. TreeInv => NothingLost
  <2> SUFFICES ASSUME TreeInv, NEW n \in Nodes
               PROVE  tree["src"][n] = Original(n) \/ tree["dst"][n] = Original(n)
    BY DEF NothingLost
  <2> QED BY DEF TreeInv, SrcWhole, WipeInv, InDst
<1> QED BY <1>1, <1>2, <1>3, PTL DEF Spec

LEMMA MoveCorrect == ASSUME Stale = {} PROVE Spec => [](TreeInv /\ MoveInv)
<1>1. Init => TreeInv /\ MoveInv
  BY InitKeeps, InitOrders
<1>2. TreeInv /\ MoveInv /\ [Next]_vars => (TreeInv /\ MoveInv)'
  BY StepKeeps, StepOrders
<1> QED BY <1>1, <1>2, PTL DEF Spec

\* In whatever order readdir gives the entries of any tree, directories are made
\* before and removed after what is in them: a move that fails has met a failing
\* system call.
THEOREM FailsOnlyByFaultCorrect == ASSUME Stale = {} PROVE Spec => []FailsOnlyByFault
<1>1. MoveInv => FailsOnlyByFault
  BY DEF MoveInv, FaultInv, FailsOnlyByFault
<1> QED BY <1>1, MoveCorrect, PTL

\* A move that reports success has brought everything to the destination, with
\* its blocks and attributes, and left nothing in the source.
THEOREM DoneMeansMovedCorrect == ASSUME Stale = {} PROVE Spec => []DoneMeansMoved
<1>1. MoveInv => DoneMeansMoved
  <2> SUFFICES ASSUME MoveInv, result = "ok", NEW n \in Nodes
               PROVE  tree["dst"][n] = Original(n) /\ tree["src"][n] = Missing
    BY DEF DoneMeansMoved
  <2>1. pc = "done"
    BY DEF MoveInv, PhaseInv
  <2>2. InDst(n) /\ ~Present("src", n)
    BY <2>1 DEF MoveInv, EndInv
  <2> QED BY <2>2, KindOfOriginal DEF MoveInv, KindInv, Sides, InDst, Present
<1> QED BY <1>1, MoveCorrect, PTL

\* A copy that one failing system call has ended, wherever, is undone completely:
\* the destination is as empty as it was found.
THEOREM CleanFailureCorrect == ASSUME Stale = {} PROVE Spec => []CleanFailure
<1>1. TreeInv /\ MoveInv => CleanFailure
  <2> SUFFICES ASSUME TreeInv, MoveInv, pc = "done", faults = 1, job # "wipe_src", NEW n \in Nodes
               PROVE  tree["dst"][n] = Missing
    BY DEF CleanFailure
  <2>1. job = "wipe_dst"
    BY DEF TreeInv, Shapes
  <2>2. ~Present("dst", n)
    BY <2>1 DEF MoveInv, EndInv
  <2> QED BY <2>2, KindOfOriginal DEF MoveInv, KindInv, Sides, Present
<1> QED BY <1>1, MoveCorrect, PTL

=============================================================================

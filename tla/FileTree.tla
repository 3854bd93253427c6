------------------------------- MODULE FileTree -------------------------------
(* file_utils.c at work: the content of one directory is copied into another  *)
(* and then removed, entry by entry and block by block, and what has been     *)
(* copied is removed again if the copy fails.  So does encrypt_storage from   *)
(* the storage to the private directory, and a recovery the other way.        *)
EXTENDS Naturals, Sequences, FiniteSets, SequencesExt

CONSTANTS
  Nodes, Root,   \* the entries below a directory, and the directory itself
  Parent,        \* Parent[n]: the directory n is in
  Kind,          \* Kind[n]: dir, file or link
  Blocks,        \* Blocks[n]: how many buffers a file fills
  Stale,         \* files that are in the destination already, one block longer
  MaxFaults      \* bound: failing system calls

ASSUME TreeAssumption ==
  /\ Root \notin Nodes /\ Parent \in [Nodes -> Nodes \cup {Root}]
  /\ Kind \in [Nodes -> {"dir", "file", "link"}]
  /\ \A n \in Nodes : Parent[n] \in Nodes => Kind[Parent[n]] = "dir"
  /\ \A S \in SUBSET Nodes : S # {} => \E n \in S : Parent[n] \notin S
  /\ Blocks \in [Nodes -> Nat] /\ Stale \subseteq {n \in Nodes : Kind[n] = "file"}
  /\ MaxFaults \in Nat

VARIABLES
  tree,     \* tree["src"], tree["dst"]: the two directories
  job,      \* copy, then wipe_src; or, after a failure, wipe_dst
  pc,       \* the function that is running
  streams,  \* the open directory streams, the innermost first
  dirList,  \* what generate_file_list has found, the last first
  fileList,
  block,    \* the next block to copy; 0: the file is not open
  bad,      \* a removal of this list has failed
  result,   \* how it ended
  faults

lists == <<dirList, fileList>>
vars  == <<tree, job, pc, streams, lists, block, bad, result, faults>>

-----------------------------------------------------------------------------
(* Trees.                                                                    *)

Missing == [kind |-> "none", blocks |-> <<>>, attr |-> "none"]
\* With the mode, owner and label it has in the source.
Original(n) == [kind |-> Kind[n], attr |-> "own",
                blocks |-> IF Kind[n] = "file" THEN [i \in 1..Blocks[n] |-> <<n, i>>] ELSE <<>>]
Older(n) == [kind |-> "file", attr |-> "other", blocks |-> [i \in 1..(Blocks[n] + 1) |-> <<"old", i>>]]

Entries(t, d) == {n \in Nodes : Parent[n] = d /\ t[n].kind # "none"}
IsThere(t, d) == IF d = Root THEN TRUE ELSE t[d].kind = "dir"

\* The directory that is listed and emptied.
Side == IF job = "wipe_dst" THEN "dst" ELSE "src"

Set(side, n, v) == tree' = [tree EXCEPT ![side][n] = v]
Fault == faults < MaxFaults /\ faults' = faults + 1

\* generate_file_list is called for a directory; the lists go on.
Stream(t, d) == [dir |-> d, left |-> Entries(t, d)]
StartList(nextJob, t) ==
  /\ job' = nextJob /\ pc' = "list" /\ streams' = <<Stream(t, Root)>>
  /\ dirList' = <<>> /\ fileList' = <<>> /\ block' = 0 /\ bad' = FALSE

Init ==
  /\ tree = [src |-> [n \in Nodes |-> Original(n)],
             dst |-> [n \in Nodes |-> IF n \in Stale THEN Older(n) ELSE Missing]]
  /\ job = "copy" /\ pc = "list" /\ streams = <<Stream(tree["src"], Root)>>
  /\ dirList = <<>> /\ fileList = <<>> /\ block = 0 /\ bad = FALSE
  /\ result = "none" /\ faults = 0

End(r) == /\ pc' = "done" /\ result' = r /\ streams' = <<>>
          /\ UNCHANGED <<job, lists, block, bad>>

\* A failed copy is undone; a failed removal ends the call.
\* Mutant: the failure is not looked at.
Fail_Ignored(t) ==
  IF job = "copy" THEN StartList("wipe_src", t["src"]) /\ UNCHANGED result ELSE End("err")
\* Mutant: what has been copied stays.
Fail_Leaves(t) == End("err")
Fail(t) == IF job = "copy" THEN StartList("wipe_dst", t["dst"]) /\ UNCHANGED result ELSE End("err")

-----------------------------------------------------------------------------
(* generate_file_list: readdir in any order, a directory before what is in it. *)

\* Mutant: what is found goes to the end of the list.
ReadEntry_Appends(n) ==
  LET top == Head(streams)
      rest == <<[top EXCEPT !.left = @ \ {n}]>> \o Tail(streams)
      isDir == tree[Side][n].kind = "dir"
  IN
  /\ pc = "list" /\ n \in top.left
  /\ dirList'  = IF isDir THEN Append(dirList, n) ELSE dirList
  /\ fileList' = IF isDir THEN fileList ELSE Append(fileList, n)
  /\ streams'  = IF isDir THEN <<Stream(tree[Side], n)>> \o rest ELSE rest
  /\ UNCHANGED <<tree, job, pc, block, bad, result, faults>>
ReadEntry(n) ==
  LET top == Head(streams)
      rest == <<[top EXCEPT !.left = @ \ {n}]>> \o Tail(streams)
      isDir == tree[Side][n].kind = "dir"
  IN
  /\ pc = "list" /\ n \in top.left
  /\ dirList'  = IF isDir THEN <<n>> \o dirList ELSE dirList
  /\ fileList' = IF isDir THEN fileList ELSE <<n>> \o fileList
  /\ streams'  = IF isDir THEN <<Stream(tree[Side], n)>> \o rest ELSE rest
  /\ UNCHANGED <<tree, job, pc, block, bad, result, faults>>

CloseDir ==
  /\ pc = "list" /\ Head(streams).left = {}
  /\ streams' = Tail(streams)
  /\ pc' = IF Len(streams) > 1 THEN "list" ELSE IF job = "copy" THEN "mkdirs" ELSE "files"
  /\ UNCHANGED <<tree, job, lists, block, bad, result, faults>>

\* opendir, lstat or lgetfilecon fails.
ListFails == pc = "list" /\ Fault /\ Fail(tree) /\ UNCHANGED tree

-----------------------------------------------------------------------------
(* create_dirs and copy_files.                                               *)

\* create_dirs comes back from the end of the list.  mkdir, then label, owner,
\* mode and times; a failure of these leaves the directory there.
MakeDir ==
  LET d == Last(dirList)
      fits == tree["dst"][d].kind = "none" /\ IsThere(tree["dst"], Parent[d])
      new == [Original(d) EXCEPT !.attr = "other"]
  IN
  /\ pc = "mkdirs" /\ dirList # <<>>
  /\ \/ /\ fits /\ Set("dst", d, tree["src"][d]) /\ dirList' = Front(dirList)
        /\ UNCHANGED <<job, pc, streams, fileList, block, bad, result, faults>>
     \/ ~fits /\ Fail(tree) /\ UNCHANGED <<tree, faults>>
     \/ Fault /\ Fail(tree) /\ UNCHANGED tree
     \/ fits /\ Fault /\ Set("dst", d, new) /\ Fail(tree')
DirsMade == /\ pc = "mkdirs" /\ dirList = <<>> /\ pc' = "copy"
            /\ UNCHANGED <<tree, job, streams, lists, block, bad, result, faults>>

\* A link is made anew, and nothing is done to what it leads to.
CopyLink(f) ==
  LET fits == tree["dst"][f].kind = "none" /\ IsThere(tree["dst"], Parent[f]) IN
  /\ tree["src"][f].kind = "link"
  /\ \/ /\ fits /\ Set("dst", f, tree["src"][f]) /\ fileList' = Tail(fileList)
        /\ UNCHANGED <<job, pc, streams, dirList, block, bad, result, faults>>
     \/ ~fits /\ Fail(tree) /\ UNCHANGED <<tree, faults>>
     \/ Fault /\ Fail(tree) /\ UNCHANGED tree
     \/ fits /\ Fault /\ Set("dst", f, [tree["src"][f] EXCEPT !.attr = "other"]) /\ Fail(tree')

\* open of the copy: a file that is there is kept, with what is in it.
OpenCopy(f) ==
  LET fits == IsThere(tree["dst"], Parent[f]) IN
  /\ tree["src"][f].kind = "file" /\ block = 0
  /\ \/ /\ fits /\ block' = 1
        /\ IF tree["dst"][f].kind = "file" THEN UNCHANGED tree
           ELSE Set("dst", f, [kind |-> "file", blocks |-> <<>>, attr |-> "other"])
        /\ UNCHANGED <<job, pc, streams, lists, bad, result, faults>>
     \/ ~fits /\ Fail(tree) /\ UNCHANGED <<tree, faults>>
     \/ Fault /\ Fail(tree) /\ UNCHANGED tree

\* read and write of one buffer; a write may fail half-way.
Written(old, b) == IF block <= Len(old) THEN [old EXCEPT ![block] = b] ELSE Append(old, b)
CopyBlock(f) ==
  LET from == tree["src"][f].blocks
      to == tree["dst"][f].blocks
      put(b) == tree' = [tree EXCEPT !["dst"][f].blocks = Written(to, b)]
  IN
  /\ block \in 1..Len(from)
  /\ \/ /\ put(from[block]) /\ block' = block + 1
        /\ UNCHANGED <<job, pc, streams, lists, bad, result, faults>>
     \/ Fault /\ Fail(tree) /\ UNCHANGED tree
     \/ Fault /\ put(<<"half", block>>) /\ Fail(tree')

\* Label, owner, mode and times of a file.
\* Mutant: it keeps those it was created with.
CopyEnds_NoAttr(f) ==
  /\ block = Len(tree["src"][f].blocks) + 1
  /\ fileList' = Tail(fileList) /\ block' = 0
  /\ UNCHANGED <<tree, job, pc, streams, dirList, bad, result, faults>>
CopyEnds(f) ==
  /\ block = Len(tree["src"][f].blocks) + 1
  /\ \/ /\ tree' = [tree EXCEPT !["dst"][f].attr = tree["src"][f].attr]
        /\ fileList' = Tail(fileList) /\ block' = 0
        /\ UNCHANGED <<job, pc, streams, dirList, bad, result, faults>>
     \/ Fault /\ Fail(tree) /\ UNCHANGED tree

Copy == pc = "copy" /\ fileList # <<>> /\ LET f == Head(fileList) IN
          CopyLink(f) \/ OpenCopy(f) \/ CopyBlock(f) \/ CopyEnds(f)
\* The caller goes on to remove the source.
Copied == /\ pc = "copy" /\ fileList = <<>>
          /\ StartList("wipe_src", tree["src"]) /\ UNCHANGED <<tree, result, faults>>

-----------------------------------------------------------------------------
(* delete_files, of the files and then of the directories: on to the end, and *)
(* a failure is reported there.                                               *)

Remove1(n) ==
  \/ Entries(tree[Side], n) = {} /\ Set(Side, n, Missing) /\ UNCHANGED <<bad, faults>>
  \/ Entries(tree[Side], n) # {} /\ bad' = TRUE /\ UNCHANGED <<tree, faults>>
  \/ Fault /\ bad' = TRUE /\ UNCHANGED tree

RemoveFile ==
  /\ pc = "files" /\ fileList # <<>> /\ Remove1(Head(fileList))
  /\ fileList' = Tail(fileList)
  /\ UNCHANGED <<job, pc, streams, dirList, block, result>>
FilesRemoved ==
  /\ pc = "files" /\ fileList = <<>>
  /\ IF bad THEN End("err")
     ELSE pc' = "dirs" /\ UNCHANGED <<job, streams, lists, block, bad, result>>
  /\ UNCHANGED <<tree, faults>>
RemoveDir ==
  /\ pc = "dirs" /\ dirList # <<>> /\ Remove1(Head(dirList))
  /\ dirList' = Tail(dirList)
  /\ UNCHANGED <<job, pc, streams, fileList, block, result>>
DirsRemoved ==
  /\ pc = "dirs" /\ dirList = <<>>
  /\ End(IF bad \/ job = "wipe_dst" THEN "err" ELSE "ok")
  /\ UNCHANGED <<tree, faults>>

Next == \/ \E n \in Nodes : ReadEntry(n)
        \/ CloseDir \/ ListFails
        \/ MakeDir \/ DirsMade \/ Copy \/ Copied
        \/ RemoveFile \/ FilesRemoved \/ RemoveDir \/ DirsRemoved

Spec == Init /\ [][Next]_vars

-----------------------------------------------------------------------------
(* Properties.                                                               *)

\* At every moment each entry, with its blocks and its attributes, is whole in
\* one of the two directories: the source is touched only when the copy is
\* complete, whichever call fails and wherever the device stops.
NothingLost == \A n \in Nodes : \E side \in {"src", "dst"} : tree[side][n] = Original(n)

\* Whatever order readdir gives, directories are made before and removed after
\* what is in them: without a failing system call nothing fails.
FailsOnlyByFault == result = "err" => faults > 0

\* The end that reports success has moved everything and left nothing.
DoneMeansMoved ==
  result = "ok" => \A n \in Nodes : /\ tree["dst"][n] = Original(n)
                                    /\ tree["src"][n] = Missing

\* A copy that fails once is undone completely: nothing half-copied stays.
CleanFailure ==
  pc = "done" /\ faults = 1 /\ job # "wipe_src" => \A n \in Nodes : tree["dst"][n] = Missing

=============================================================================

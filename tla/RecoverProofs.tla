----------------------------- MODULE RecoverProofs -----------------------------
(****************************************************************************)
(* Theorems of the directory tree, for every image: the tree and the walk   *)
(* have their types, and children stay sorted, whatever follow() reads.     *)
(****************************************************************************)
EXTENDS Recover, SequenceTheorems, TLAPS

NodeRecord == [type : {"file", "directory"}, name : Nat, contents : Nat]

\* Types of the tree, of the walk and of the insertion under way.
TreeTypes ==
    /\ disk \in Seq(Entry)
    /\ node \in Seq(NodeRecord)
    /\ Len(children) = Len(node)
    /\ children \in Seq(Seq(Nat))
    /\ \A d \in 1 .. Len(node) : children[d] \in Seq(2 .. Len(node))
    /\ calls \in Seq([dir : Nat, start : Int, location : Nat])
    /\ \A c \in 1 .. Len(calls) : calls[c].dir \in 1 .. Len(node)
    /\ phase \in {"follow", "create", "done", "abort"}
    /\ phase = "follow" => Len(calls) > 0
    /\ phase # "follow" /\ phase # "abort" => Len(calls) = 0 /\ adding.index = 0
    /\ pos \in Int
    /\ adding \in [dir : Nat, index : Nat]
    /\ adding.index > 0 => /\ adding.dir \in 1 .. Len(node)
                           /\ adding.index <= Len(children[adding.dir])

LEMMA InitTypes == Init => TreeTypes
<1> SUFFICES ASSUME Init PROVE TreeTypes
    OBVIOUS
<1>1. disk \in Seq(Entry)
    BY RecoverAssumption DEF Init
<1>2. node = <<DirectoryNode(0)>> /\ DirectoryNode(0) \in NodeRecord
    BY DEF Init, DirectoryNode, NodeRecord
<1>3. calls = << [dir |-> 1, start |-> 1, location |-> 1] >>
    BY DEF Init, Root
<1>4. node \in Seq(NodeRecord) /\ Len(node) = 1
    BY <1>2
<1>5. children = << <<>> >> /\ Len(children) = 1 /\ children[1] = <<>> /\ children \in Seq(Seq(Nat))
  <2>1. <<>> \in Seq(Nat)
      OBVIOUS
  <2> QED
      BY <2>1 DEF Init
<1>6. \A d \in 1 .. Len(node) : children[d] \in Seq(2 .. Len(node))
  <2> TAKE d \in 1 .. Len(node)
  <2>1. children[d] = <<>>
      BY <1>4, <1>5
  <2> QED
      BY <2>1
<1>7. /\ calls \in Seq([dir : Nat, start : Int, location : Nat]) /\ Len(calls) = 1
      /\ \A c \in 1 .. Len(calls) : calls[c].dir \in 1 .. Len(node)
    BY <1>3, <1>4
<1>8. phase = "follow" /\ pos = 1 /\ adding = [dir |-> 1, index |-> 0]
    BY DEF Init, Idle, Root
<1> QED
    BY <1>1, <1>4, <1>5, <1>6, <1>7, <1>8 DEF TreeTypes

------------------------------------------------------------------------------
(* add_child_directory_tree, first half: what AddNode makes of the tree.    *)

AddFacts(new) ==
    /\ Call.dir \in 1 .. Len(node)
    /\ node' \in Seq(NodeRecord) /\ Len(node') = Len(node) + 1
    /\ \A k \in 1 .. Len(node) : node'[k] = node[k]
    /\ node'[Len(node) + 1] = new
    /\ children' \in Seq(Seq(Nat)) /\ Len(children') = Len(node) + 1
    /\ children'[Len(node) + 1] = <<>>
    /\ children'[Call.dir] = Append(children[Call.dir], Len(node) + 1)
    /\ \A e \in 1 .. Len(node) : e # Call.dir => children'[e] = children[e]
    /\ Len(children[Call.dir]) \in Nat
    /\ adding' = [dir |-> Call.dir, index |-> Len(children[Call.dir]) + 1]

LEMMA Adds ==
    ASSUME TreeTypes, phase = "follow", NEW new \in NodeRecord, AddNode(new)
    PROVE  AddFacts(new)
<1> DEFINE n == Len(node)
           d == Call.dir
           changed == [children EXCEPT ![d] = Append(@, n + 1)]
<1>1. n \in Nat /\ d \in 1 .. n
    BY LenProperties DEF TreeTypes, Call
<1>2. node' \in Seq(NodeRecord) /\ Len(node') = n + 1 /\ node'[n + 1] = new
      /\ \A k \in 1 .. n : node'[k] = node[k]
    BY AppendProperties DEF AddNode, TreeTypes
<1>3. children[d] \in Seq(Nat) /\ children[d] \in Seq(2 .. n) /\ Len(children[d]) \in Nat
    BY <1>1, LenProperties, ElementOfSeq DEF TreeTypes
<1>4. Append(children[d], n + 1) \in Seq(Nat)
    BY <1>1, <1>3, AppendProperties
<1>5. /\ changed \in Seq(Seq(Nat)) /\ Len(changed) = n
      /\ changed[d] = Append(children[d], n + 1)
      /\ \A e \in 1 .. n : e # d => changed[e] = children[e]
  <2>1. d \in 1 .. Len(children) /\ children \in Seq(Seq(Nat)) /\ Len(children) = n
      BY <1>1 DEF TreeTypes
  <2>2. changed = [children EXCEPT ![d] = Append(children[d], n + 1)]
      OBVIOUS
  <2> HIDE DEF changed
  <2> QED
      BY <1>4, <2>1, <2>2, ExceptSeq
<1>6. children' = Append(changed, <<>>) /\ <<>> \in Seq(Nat)
    BY DEF AddNode
<1>7. /\ children' \in Seq(Seq(Nat)) /\ Len(children') = n + 1 /\ children'[n + 1] = <<>>
      /\ \A e \in 1 .. n : children'[e] = changed[e]
    BY <1>5, <1>6, AppendProperties
<1> QED
    BY <1>1, <1>2, <1>3, <1>5, <1>7 DEF AddNode, AddFacts

\* An entry of the image that is no directory's end makes a node.
LEMMA EntryFacts ==
    ASSUME TreeTypes, Reads
    PROVE  /\ disk[pos] \in Entry /\ pos \in Nat
           /\ FileNode(disk[pos]) \in NodeRecord
           /\ DirectoryNode(disk[pos].name) \in NodeRecord
           /\ get_offset_from_cluster(disk[pos].cluster) \in Int
<1>1. disk[pos] \in Entry /\ pos \in Nat
    BY ElementOfSeq DEF TreeTypes, Reads
<1>2. disk[pos].name \in Nat /\ disk[pos].cluster \in Nat
    BY <1>1, RecoverAssumption DEF Entry
<1> QED
    BY <1>1, <1>2, RecoverAssumption DEF FileNode, DirectoryNode, NodeRecord, get_offset_from_cluster

LEMMA AddTypes ==
    ASSUME TreeTypes, phase = "follow", phase' = "follow", NEW new, AddFacts(new),
           disk' = disk, pos' \in Int, calls' \in Seq([dir : Nat, start : Int, location : Nat]),
           Len(calls') > 0, \A c \in 1 .. Len(calls') : calls'[c].dir \in 1 .. Len(node')
    PROVE  TreeTypes'
<1> DEFINE n == Len(node)
<1>1. n \in Nat
    BY LenProperties DEF TreeTypes
<1>2. \A d \in 1 .. n + 1 : children'[d] \in Seq(2 .. n + 1)
  <2> TAKE d \in 1 .. n + 1
  <2>1. CASE d = n + 1
      BY <2>1 DEF AddFacts
  <2>2. CASE d # n + 1
    <3>1. d \in 1 .. n
      <4> HIDE DEF n
      <4> QED
          BY <1>1, <2>2
    <3>2. children[d] \in Seq(2 .. n + 1)
      <4>1. children[d] \in Seq(2 .. n)
          BY <3>1 DEF TreeTypes
      <4> QED
          BY <1>1, <4>1
    <3>3. n + 1 \in 2 .. n + 1
        BY <1>1, <3>1
    <3>4. CASE d = Call.dir
      <4>1. children'[d] = Append(children[d], n + 1)
          BY <3>4 DEF AddFacts
      <4> QED
          BY <3>2, <3>3, <4>1, AppendProperties
    <3>5. CASE d # Call.dir
      <4>1. children'[d] = children[d]
          BY <3>1, <3>5 DEF AddFacts
      <4> QED
          BY <3>2, <4>1
    <3> QED
        BY <3>4, <3>5
  <2> QED
      BY <2>1, <2>2
<1>3. /\ adding' \in [dir : Nat, index : Nat]
      /\ adding'.dir \in 1 .. n + 1 /\ adding'.index <= Len(children'[adding'.dir])
  <2>1. Len(Append(children[Call.dir], n + 1)) = Len(children[Call.dir]) + 1
    <3>1. children[Call.dir] \in Seq(Nat)
        BY ElementOfSeq DEF TreeTypes, AddFacts
    <3> QED
        BY <1>1, <3>1, AppendProperties
  <2>2. /\ adding' = [dir |-> Call.dir, index |-> Len(children[Call.dir]) + 1]
        /\ Call.dir \in 1 .. n /\ Len(children[Call.dir]) \in Nat
        /\ children'[Call.dir] = Append(children[Call.dir], n + 1)
      BY DEF AddFacts
  <2>3. adding'.dir = Call.dir /\ adding'.index = Len(children[Call.dir]) + 1
      BY <2>2
  <2>4. Call.dir \in Nat /\ Call.dir \in 1 .. n + 1
      BY <1>1, <2>2
  <2>5. adding' \in [dir : Nat, index : Nat]
      BY <2>2, <2>4
  <2>6. Len(children'[adding'.dir]) = Len(children[Call.dir]) + 1
      BY <2>1, <2>2, <2>3
  <2> QED
      BY <2>2, <2>3, <2>4, <2>5, <2>6
<1>4. /\ node' \in Seq(NodeRecord) /\ Len(node') = n + 1
      /\ children' \in Seq(Seq(Nat)) /\ Len(children') = n + 1
    BY DEF AddFacts
<1>5. disk' \in Seq(Entry)
    BY DEF TreeTypes
<1> HIDE DEF n
<1> QED
    BY <1>2, <1>3, <1>4, <1>5 DEF TreeTypes

LEMMA SinkTypes ==
    ASSUME TreeTypes, Sink
    PROVE  TreeTypes'
<1> DEFINE d == adding.dir
           k == adding.index
<1>1. d \in 1 .. Len(node) /\ k \in Nat /\ k > 1 /\ k <= Len(children[d])
    BY DEF TreeTypes, Sink
<1>2. /\ children[d] \in Seq(Nat) /\ children[d] \in Seq(2 .. Len(node)) /\ Len(children[d]) \in Nat
      /\ k \in 1 .. Len(children[d]) /\ k - 1 \in 1 .. Len(children[d])
  <2>1. children \in Seq(Seq(Nat)) /\ Len(children) = Len(node)
      BY DEF TreeTypes
  <2>2. children[d] \in Seq(Nat)
      BY <1>1, <2>1, ElementOfSeq
  <2>3. children[d] \in Seq(2 .. Len(node))
      BY <1>1 DEF TreeTypes
  <2>4. Len(children[d]) \in Nat
      BY <2>2, LenProperties
  <2> QED
      BY <1>1, <2>2, <2>3, <2>4
<1>3. \A S : children[d] \in Seq(S) =>
          Swapped(children[d], k) \in Seq(S) /\ Len(Swapped(children[d], k)) = Len(children[d])
  <2> TAKE S
  <2> HAVE children[d] \in Seq(S)
  <2>1. children[d][k] \in S /\ children[d][k - 1] \in S
      BY <1>2, ElementOfSeq
  <2>2. [children[d] EXCEPT ![k - 1] = children[d][k]] \in Seq(S)
        /\ Len([children[d] EXCEPT ![k - 1] = children[d][k]]) = Len(children[d])
      BY <1>2, <2>1, ExceptSeq
  <2> QED
      BY <1>2, <2>1, <2>2, ExceptSeq DEF Swapped
<1>4. /\ children' \in Seq(Seq(Nat)) /\ Len(children') = Len(children)
      /\ \A e \in 1 .. Len(node) : children'[e] \in Seq(2 .. Len(node))
      /\ Len(children'[d]) = Len(children[d])
  <2>1. CASE children' = children
      BY <2>1 DEF TreeTypes
  <2>2. CASE children' = [children EXCEPT ![d] = Swapped(@, k)]
    <3>1. /\ children' \in Seq(Seq(Nat)) /\ Len(children') = Len(children)
          /\ children'[d] = Swapped(children[d], k)
          /\ \A e \in 1 .. Len(children) : e # d => children'[e] = children[e]
        BY <1>1, <1>2, <1>3, <2>2, ExceptSeq DEF TreeTypes
    <3> QED
        BY <1>1, <1>2, <1>3, <3>1 DEF TreeTypes
  <2> QED
      BY <2>1, <2>2 DEF Sink
<1>5. adding' = [adding EXCEPT !.index = k - 1] /\ UNCHANGED <<disk, pos, calls, node, phase>>
    BY DEF Sink
<1>6. adding' \in [dir : Nat, index : Nat] /\ adding'.dir = d /\ adding'.index = k - 1
  <2>1. adding \in [dir : Nat, index : Nat]
      BY DEF TreeTypes
  <2>2. k - 1 \in Nat
      BY <1>1
  <2> QED
      BY <1>5, <2>1, <2>2
<1>7. k - 1 <= Len(children'[d]) /\ d \in 1 .. Len(node)
    BY <1>1, <1>2, <1>4
<1>8. phase = "follow"
    BY DEF Sink
<1> HIDE DEF d, k
<1> QED
    BY <1>4, <1>5, <1>6, <1>7, <1>8 DEF TreeTypes

LEMMA FollowTypes ==
    ASSUME TreeTypes, SkipHidden \/ EndDirectory
    PROVE  TreeTypes'
<1> DEFINE Frame == [dir : Nat, start : Int, location : Nat]
<1>1. calls \in Seq(Frame) /\ Len(calls) \in Nat /\ Len(calls) > 0
    BY LenProperties DEF TreeTypes, SkipHidden, EndDirectory, Reads
<1> HIDE DEF Frame
<1>4. Len(calls) \in Nat /\ Len(calls) > 0
    BY <1>1
<1>2. CASE SkipHidden
    BY <1>2 DEF TreeTypes, SkipHidden, Reads
<1>3. CASE EndDirectory
  <2>1. Call \in Frame
    <3>1. Len(calls) \in 1 .. Len(calls)
        BY <1>4
    <3> QED
        BY <1>1, <3>1, ElementOfSeq DEF Call
  <2>2. \A c \in 1 .. Len(calls) - 1 : calls[c] \in Frame
    <3>1. \A c \in 1 .. Len(calls) - 1 : c \in 1 .. Len(calls)
        BY <1>4
    <3> QED
        BY <1>1, <3>1, ElementOfSeq
  <2>3. /\ SubSeq(calls, 1, Len(calls) - 1) \in Seq(Frame)
        /\ Len(SubSeq(calls, 1, Len(calls) - 1)) = Len(calls) - 1
        /\ \A c \in 1 .. Len(calls) - 1 : SubSeq(calls, 1, Len(calls) - 1)[c] = calls[c]
    <3> DEFINE m == Len(calls) - 1
    <3>0. m \in Nat
        BY <1>4
    <3>1. 1 \in Int /\ m \in Int /\ m - 1 + 1 = m /\ (1 <= m => m - 1 + 1 = m) /\ (~ (1 <= m) => m = 0)
      <4> HIDE DEF m
      <4> QED
          BY <3>0
    <3>2. \A c \in 1 .. m : c \in Int /\ 1 + c - 1 = c
        BY <3>1
    <3>3. \A c \in 1 .. m : calls[c] \in Frame
        BY <2>2
    <3> HIDE DEF m
    <3>4. /\ SubSeq(calls, 1, m) \in Seq(Frame)
          /\ Len(SubSeq(calls, 1, m)) = IF 1 <= m THEN m - 1 + 1 ELSE 0
          /\ \A c \in 1 .. m - 1 + 1 : SubSeq(calls, 1, m)[c] = calls[1 + c - 1]
        BY <3>1, <3>3, SubSeqProperties
    <3>5. Len(SubSeq(calls, 1, m)) = m /\ \A c \in 1 .. m : SubSeq(calls, 1, m)[c] = calls[c]
        BY <3>1, <3>2, <3>4
    <3> QED
        BY <3>4, <3>5 DEF m
  <2>4. /\ calls' = SubSeq(calls, 1, Len(calls) - 1) /\ pos' = Call.location
        /\ phase = "follow" /\ adding.index = 0 /\ UNCHANGED <<disk, node, children, adding>>
        /\ phase' = IF Len(calls) = 1 THEN "create" ELSE "follow"
      BY <1>3 DEF EndDirectory, Reads
  <2>5. /\ calls' \in Seq(Frame) /\ Len(calls') = Len(calls) - 1
        /\ \A c \in 1 .. Len(calls') : calls'[c].dir \in 1 .. Len(node')
    <3>1. \A c \in 1 .. Len(calls) : calls[c].dir \in 1 .. Len(node)
        BY DEF TreeTypes
    <3>2. calls' \in Seq(Frame) /\ Len(calls') = Len(calls) - 1
        BY <2>3, <2>4
    <3>3. ASSUME NEW c \in 1 .. Len(calls') PROVE calls'[c].dir \in 1 .. Len(node')
      <4>1. c \in 1 .. Len(calls) - 1 /\ c \in 1 .. Len(calls)
          BY <1>4, <3>2
      <4>2. calls'[c] = calls[c] /\ node' = node
          BY <2>3, <2>4, <4>1
      <4> QED
          BY <3>1, <4>1, <4>2
    <3> QED
        BY <3>2, <3>3
  <2>6. pos' \in Int
      BY <2>1, <2>4 DEF Frame
  <2>7. phase' = "follow" => Len(calls') > 0
      BY <1>4, <2>4, <2>5
  <2>8. phase' # "follow" => phase' = "create" /\ Len(calls') = 0
      BY <1>4, <2>4, <2>5
  <2> QED
      BY <2>4, <2>5, <2>6, <2>7, <2>8 DEF TreeTypes, Frame
<1> QED
    BY <1>2, <1>3

\* What the two actions that make a node have in common.
LEMMA AddsNode ==
    ASSUME TreeTypes, (AddFile /\ phase' # "abort") \/ AddDirectory
    PROVE  TreeTypes' /\ phase = "follow" /\ adding.index = 0 /\ \E new : AddFacts(new)
<1> DEFINE Frame == [dir : Nat, start : Int, location : Nat]
<1>1. Reads /\ phase = "follow" /\ adding.index = 0
    BY DEF AddFile, AddDirectory, Reads
<1>2. /\ pos \in Nat /\ FileNode(disk[pos]) \in NodeRecord
      /\ DirectoryNode(disk[pos].name) \in NodeRecord
      /\ get_offset_from_cluster(disk[pos].cluster) \in Int
    BY <1>1, EntryFacts
<1>3. calls \in Seq(Frame) /\ Len(calls) \in Nat /\ Len(calls) > 0 /\ Len(node) \in Nat
      /\ \A c \in 1 .. Len(calls) : calls[c].dir \in 1 .. Len(node)
    BY <1>1, LenProperties DEF TreeTypes
<1>4. CASE AddFile /\ phase' # "abort"
  <2>1. AddNode(FileNode(disk[pos])) /\ pos' = pos + 1 /\ UNCHANGED <<phase, disk, calls>>
      BY <1>4 DEF AddFile
  <2>2. AddFacts(FileNode(disk[pos]))
      BY <1>1, <1>2, <2>1, Adds
  <2>3. Len(node') = Len(node) + 1
      BY <2>2 DEF AddFacts
  <2>4. /\ calls' \in Seq(Frame) /\ Len(calls') > 0
        /\ \A c \in 1 .. Len(calls') : calls'[c].dir \in 1 .. Len(node')
      BY <1>3, <2>1, <2>3
  <2>5. pos' \in Int
      BY <1>2, <2>1
  <2>6. TreeTypes'
      BY <1>1, <2>1, <2>2, <2>4, <2>5, AddTypes
  <2> QED
      BY <1>1, <2>2, <2>6
<1>5. CASE AddDirectory
  <2> DEFINE start == get_offset_from_cluster(disk[pos].cluster)
             frame == [dir |-> Len(node) + 1, start |-> start, location |-> pos + 1]
  <2>1. /\ AddNode(DirectoryNode(disk[pos].name)) /\ pos' = start /\ UNCHANGED <<phase, disk>>
        /\ calls' = Append(calls, frame)
      BY <1>5 DEF AddDirectory
  <2>2. AddFacts(DirectoryNode(disk[pos].name))
      BY <1>1, <1>2, <2>1, Adds
  <2>3. Len(node') = Len(node) + 1
      BY <2>2 DEF AddFacts
  <2>4. frame \in Frame /\ frame.dir = Len(node) + 1
      BY <1>2, <1>3
  <2>5. /\ calls' \in Seq(Frame) /\ Len(calls') = Len(calls) + 1 /\ calls'[Len(calls) + 1] = frame
        /\ \A c \in 1 .. Len(calls) : calls'[c] = calls[c]
    <3> HIDE DEF frame, Frame
    <3> QED
        BY <1>3, <2>1, <2>4, AppendProperties
  <2>6. Len(calls') > 0 /\ \A c \in 1 .. Len(calls') : calls'[c].dir \in 1 .. Len(node')
    <3>1. Len(calls') > 0
        BY <1>3, <2>5
    <3>2. ASSUME NEW c \in 1 .. Len(calls') PROVE calls'[c].dir \in 1 .. Len(node')
      <4>1. CASE c \in 1 .. Len(calls)
        <5>1. calls'[c] = calls[c] /\ calls[c].dir \in 1 .. Len(node)
            BY <1>3, <2>5, <4>1
        <5> QED
            BY <1>3, <2>3, <5>1, SMTT(20)
      <4>2. CASE c = Len(calls) + 1
        <5>1. calls'[c].dir = Len(node) + 1
            BY <2>4, <2>5, <4>2
        <5> HIDE DEF Frame, start, frame
        <5>2. Len(node) \in Nat /\ Len(node') = Len(node) + 1
            BY <1>3, <2>3
        <5> QED
            BY <5>1, <5>2
      <4>3. c \in 1 .. Len(calls) \/ c = Len(calls) + 1
          BY <1>3, <2>5
      <4> QED
          BY <4>1, <4>2, <4>3
    <3> QED
        BY <3>1, <3>2
  <2>7. pos' \in Int
      BY <1>2, <2>1
  <2>8. TreeTypes'
      BY <1>1, <2>1, <2>2, <2>5, <2>6, <2>7, AddTypes
  <2> QED
      BY <1>1, <2>2, <2>8
<1> QED
    BY <1>4, <1>5

\* What leaves the tree and the walk where they are, or ends the walk.
LEMMA OtherTypes ==
    ASSUME TreeTypes,
           ReadFails \/ (AddFile /\ phase' = "abort") \/ Sunk \/ CreateDirectory \/ CreateFile \/ Free
    PROVE  TreeTypes'
<1>1. CASE ReadFails
    BY <1>1 DEF TreeTypes, ReadFails
<1>2. CASE AddFile /\ phase' = "abort"
  <2>1. UNCHANGED <<disk, calls, pos, node, children, adding>>
      BY <1>2 DEF AddFile, Reads
  <2> QED
      BY <1>2, <2>1 DEF TreeTypes
<1>3. CASE Sunk
  <2>1. adding' = [dir |-> 1, index |-> 0] /\ phase = "follow"
        /\ UNCHANGED <<disk, pos, calls, node, children, phase>>
      BY <1>3 DEF Sunk, Idle, Root
  <2>2. adding' \in [dir : Nat, index : Nat] /\ adding'.index = 0
      BY <2>1
  <2> QED
      BY <2>1, <2>2 DEF TreeTypes
<1>4. CASE CreateDirectory
    BY <1>4 DEF TreeTypes, CreateDirectory
<1>5. CASE CreateFile
    BY <1>5 DEF TreeTypes, CreateFile
<1>6. CASE Free
  <2>1. /\ node' = <<>> /\ children' = <<>> /\ phase = "create" /\ phase' = "done"
        /\ UNCHANGED <<disk, pos, calls, adding>>
      BY <1>6 DEF Free
  <2>2. Len(calls) = 0 /\ adding.index = 0
      BY <2>1 DEF TreeTypes
  <2>3. node' \in Seq(NodeRecord) /\ children' \in Seq(Seq(Nat)) /\ Len(node') = 0 /\ Len(children') = 0
      BY <2>1
  <2> QED
      BY <2>1, <2>2, <2>3 DEF TreeTypes
<1> QED
    BY <1>1, <1>2, <1>3, <1>4, <1>5, <1>6

LEMMA NextTypes == TreeTypes /\ [Next]_vars => TreeTypes'
<1>1. TreeTypes /\ UNCHANGED vars => TreeTypes'
    BY DEF TreeTypes, vars
<1> QED
    BY <1>1, FollowTypes, AddsNode, OtherTypes, SinkTypes DEF Next

\* TreeTypes is an invariant of follow(), create_tree and free_directory_tree.
THEOREM RecoverTypes == Spec => []TreeTypes
<1> QED
    BY InitTypes, NextTypes, PTL DEF Spec

------------------------------------------------------------------------------
(* add_child_directory_tree is an insertion: it keeps the children sorted.  *)

LEMMA NameFacts ==
    ASSUME TreeTypes
    PROVE  /\ DOMAIN children = 1 .. Len(node)
           /\ \A d \in 1 .. Len(node) :
                 /\ DOMAIN children[d] = 1 .. Len(children[d]) /\ Len(children[d]) \in Nat
                 /\ \A k \in 1 .. Len(children[d]) :
                       /\ children[d][k] \in 2 .. Len(node)
                       /\ NameAt(d, k) \in Nat
<1>1. Len(node) \in Nat /\ DOMAIN children = 1 .. Len(node)
    BY LenProperties DEF TreeTypes
<1> SUFFICES ASSUME NEW d \in 1 .. Len(node)
             PROVE  /\ DOMAIN children[d] = 1 .. Len(children[d]) /\ Len(children[d]) \in Nat
                    /\ \A k \in 1 .. Len(children[d]) :
                          /\ children[d][k] \in 2 .. Len(node)
                          /\ NameAt(d, k) \in Nat
    BY <1>1
<1>2. children[d] \in Seq(2 .. Len(node))
    BY DEF TreeTypes
<1>3. DOMAIN children[d] = 1 .. Len(children[d]) /\ Len(children[d]) \in Nat
    BY <1>2, LenProperties
<1>4. ASSUME NEW k \in 1 .. Len(children[d])
      PROVE  children[d][k] \in 2 .. Len(node) /\ NameAt(d, k) \in Nat
  <2>1. children[d][k] \in 2 .. Len(node)
      BY <1>2, ElementOfSeq
  <2>2. children[d][k] \in 1 .. Len(node)
      BY <1>1, <2>1
  <2>3. node[children[d][k]] \in NodeRecord
      BY <2>2, ElementOfSeq DEF TreeTypes
  <2> QED
      BY <2>1, <2>3 DEF NameAt, NodeRecord
<1> QED
    BY <1>3, <1>4

LEMMA AddSorts ==
    ASSUME TreeTypes, Sorted, adding.index = 0, NEW new, AddFacts(new)
    PROVE  Sorted'
<1> DEFINE n == Len(node)
<1>1. n \in Nat /\ DOMAIN children = 1 .. n
    BY NameFacts, LenProperties DEF TreeTypes
<1>2. DOMAIN children' = 1 .. n + 1
    BY LenProperties DEF AddFacts
<1> SUFFICES ASSUME NEW d \in 1 .. n + 1, NEW j \in DOMAIN children'[d], NEW k \in DOMAIN children'[d],
                    j < k, adding'.index = 0 \/ adding'.dir # d \/ adding'.index # k
             PROVE  NameAt(d, j)' <= NameAt(d, k)'
    BY <1>2 DEF Sorted
<1>3. d \in 1 .. n
  <2>1. CASE d = n + 1
    <3>1. children'[d] = <<>> /\ DOMAIN <<>> = 1 .. Len(<<>>) /\ Len(<<>>) = 0
        BY <2>1 DEF AddFacts
    <3> QED
        BY <3>1
  <2> HIDE DEF n
  <2> QED
      BY <1>1, <2>1
<1>4. DOMAIN children[d] = 1 .. Len(children[d]) /\ Len(children[d]) \in Nat
    BY <1>3, NameFacts
<1>5. /\ j \in 1 .. Len(children[d]) /\ k \in 1 .. Len(children[d])
      /\ children'[d][j] = children[d][j] /\ children'[d][k] = children[d][k]
  <2>1. CASE d # Call.dir
    <3>1. children'[d] = children[d]
        BY <1>3, <2>1 DEF AddFacts
    <3> QED
        BY <1>4, <3>1
  <2>2. CASE d = Call.dir
    <3>1. children'[d] = Append(children[d], n + 1) /\ adding' = [dir |-> d, index |-> Len(children[d]) + 1]
        BY <2>2 DEF AddFacts
    <3>2. children[d] \in Seq(Nat)
        BY <1>3, ElementOfSeq DEF TreeTypes
    <3>3. /\ DOMAIN children'[d] = 1 .. Len(children[d]) + 1
          /\ \A m \in 1 .. Len(children[d]) : children'[d][m] = children[d][m]
      <4>1. /\ Append(children[d], n + 1) \in Seq(Nat)
            /\ Len(Append(children[d], n + 1)) = Len(children[d]) + 1
            /\ \A m \in 1 .. Len(children[d]) : Append(children[d], n + 1)[m] = children[d][m]
          BY <1>1, <3>2, AppendProperties
      <4> QED
          BY <3>1, <4>1, LenProperties
    <3>4. k # Len(children[d]) + 1
        BY <1>4, <3>1
    <3>5. j \in 1 .. Len(children[d]) /\ k \in 1 .. Len(children[d])
        BY <1>4, <3>3, <3>4, SMTT(20)
    <3> QED
        BY <3>3, <3>5
  <2> QED
      BY <2>1, <2>2
<1>6. NameAt(d, j) <= NameAt(d, k)
    BY <1>1, <1>3, <1>4, <1>5 DEF Sorted
<1>7. node'[children[d][j]] = node[children[d][j]] /\ node'[children[d][k]] = node[children[d][k]]
  <2>1. children[d][j] \in 2 .. n /\ children[d][k] \in 2 .. n
      BY <1>3, <1>5, NameFacts
  <2>2. children[d][j] \in 1 .. n /\ children[d][k] \in 1 .. n
    <3> HIDE DEF n
    <3> QED
        BY <1>1, <2>1
  <2> QED
      BY <2>2 DEF AddFacts
<1> QED
    BY <1>5, <1>6, <1>7 DEF NameAt

LEMMA SinkSorts ==
    ASSUME TreeTypes, Sorted, Sink
    PROVE  Sorted'
<1> DEFINE d == adding.dir
           x == adding.index
           s == children[d]
           Name(id) == node[id].name
<1>1. d \in 1 .. Len(node) /\ x \in Nat /\ x > 1 /\ x <= Len(s) /\ node' = node
    BY DEF TreeTypes, Sink
<1>2. DOMAIN children = 1 .. Len(node) /\ DOMAIN s = 1 .. Len(s) /\ Len(s) \in Nat
      /\ \A k \in 1 .. Len(s) : Name(s[k]) \in Nat
    BY <1>1, NameFacts DEF NameAt
<1>3. adding'.dir = d /\ adding'.index = x - 1
    BY DEF Sink, TreeTypes
<1>4. \A j, k \in 1 .. Len(s) : j < k /\ k # x => Name(s[j]) <= Name(s[k])
    BY <1>1, <1>2 DEF Sorted, NameAt
<1>5. CASE ~ (NameAt(d, x) < NameAt(d, x - 1))
  <2>1. children' = children
      BY <1>5 DEF Sink
  <2>2. Name(s[x - 1]) <= Name(s[x])
    <3>1. x \in 1 .. Len(s) /\ x - 1 \in 1 .. Len(s)
        BY <1>1, <1>2
    <3>2. Name(s[x]) \in Nat /\ Name(s[x - 1]) \in Nat /\ ~ (Name(s[x]) < Name(s[x - 1]))
        BY <1>2, <1>5, <3>1 DEF NameAt
    <3> HIDE DEF Name, s, x
    <3> QED
        BY <3>2
  <2> SUFFICES ASSUME NEW e \in DOMAIN children, NEW j \in DOMAIN children[e], NEW k \in DOMAIN children[e],
                      j < k, e # d \/ x - 1 # k
               PROVE  Name(children[e][j]) <= Name(children[e][k])
    <3>1. x - 1 # 0
        BY <1>1
    <3> QED
        BY <1>1, <1>3, <2>1, <3>1 DEF Sorted, NameAt
  <2>3. CASE e = d /\ k = x
    <3>1. j \in 1 .. Len(s) /\ j <= x - 1 /\ x - 1 \in 1 .. Len(s) /\ x - 1 # x
        BY <1>1, <1>2, <2>3, SMTT(20)
    <3>2. Name(s[j]) <= Name(s[x - 1])
      <4>1. CASE j = x - 1
          BY <1>2, <3>1, <4>1
      <4>2. CASE j < x - 1
          BY <1>4, <3>1, <4>2
      <4> QED
          BY <1>1, <3>1, <4>1, <4>2
    <3>3. Name(s[j]) \in Nat /\ Name(s[x - 1]) \in Nat /\ Name(s[x]) \in Nat
      <4>1. x \in 1 .. Len(s)
          BY <1>1, <1>2
      <4> HIDE DEF Name, s, x
      <4> QED
          BY <1>2, <3>1, <4>1
    <3>4. Name(s[j]) <= Name(s[x])
      <4> HIDE DEF Name, s, x
      <4> QED
          BY <2>2, <3>2, <3>3
    <3> QED
        BY <2>3, <3>4
  <2>4. CASE e # d \/ k # x
      BY <2>4 DEF Sorted, NameAt
  <2> QED
      BY <2>3, <2>4
<1>6. CASE NameAt(d, x) < NameAt(d, x - 1)
  <2> DEFINE t == Swapped(s, x)
  <2>1. children' = [children EXCEPT ![d] = t]
      BY <1>6 DEF Sink
  <2>2. /\ DOMAIN t = 1 .. Len(s) /\ t[x - 1] = s[x] /\ t[x] = s[x - 1]
        /\ \A k \in 1 .. Len(s) : k # x /\ k # x - 1 => t[k] = s[k]
      BY <1>1, <1>2 DEF Swapped
  <2>3. /\ DOMAIN children' = 1 .. Len(node) /\ children'[d] = t
        /\ \A e \in 1 .. Len(node) : e # d => children'[e] = children[e]
      BY <1>1, <1>2, <2>1
  <2>4. Name(s[x]) < Name(s[x - 1])
      BY <1>6 DEF NameAt
  <2>5. ASSUME NEW j \in 1 .. Len(s), NEW k \in 1 .. Len(s), j < k, k # x - 1
        PROVE  Name(t[j]) <= Name(t[k])
    <3>1. x \in 1 .. Len(s) /\ x - 1 \in 1 .. Len(s) /\ x - 1 < x
        BY <1>1, <1>2
    <3>2. CASE k = x
      <4>1. CASE j = x - 1
        <5>1. Name(t[j]) = Name(s[x]) /\ Name(t[k]) = Name(s[x - 1])
            BY <2>2, <3>2, <4>1
        <5>2. Name(s[x]) \in Nat /\ Name(s[x - 1]) \in Nat
            BY <1>2, <3>1
        <5> HIDE DEF Name, s, x, t
        <5> QED
            BY <2>4, <5>1, <5>2
      <4>2. CASE j # x - 1
        <5>1. t[j] = s[j] /\ t[k] = s[x - 1] /\ j < x - 1
            BY <1>1, <2>2, <2>5, <3>2, <4>2
        <5> QED
            BY <1>4, <3>1, <5>1
      <4> QED
          BY <4>1, <4>2
    <3>3. CASE k # x
      <4>1. t[k] = s[k]
          BY <2>2, <2>5, <3>3
      <4>2. CASE j = x
        <5>1. t[j] = s[x - 1] /\ x - 1 < k
            BY <1>1, <2>2, <2>5, <4>2
        <5> QED
            BY <1>4, <3>1, <3>3, <4>1, <5>1
      <4>3. CASE j = x - 1
        <5>1. t[j] = s[x] /\ x < k
            BY <1>1, <2>2, <2>5, <3>3, <4>3
        <5> QED
            BY <1>4, <3>1, <3>3, <4>1, <5>1
      <4>4. CASE j # x /\ j # x - 1
        <5>1. t[j] = s[j]
            BY <2>2, <4>4
        <5> QED
            BY <1>4, <2>5, <3>3, <4>1, <5>1
      <4> QED
          BY <4>2, <4>3, <4>4
    <3> QED
        BY <3>2, <3>3
  <2> SUFFICES ASSUME NEW e \in 1 .. Len(node), NEW j \in DOMAIN children'[e], NEW k \in DOMAIN children'[e],
                      j < k, e # d \/ x - 1 # k
               PROVE  Name(children'[e][j]) <= Name(children'[e][k])
    <3>1. x - 1 # 0
        BY <1>1
    <3> QED
        BY <1>1, <1>3, <2>3, <3>1 DEF Sorted, NameAt
  <2>6. CASE e = d
      BY <2>2, <2>3, <2>5, <2>6
  <2>7. CASE e # d
      BY <1>2, <2>3, <2>7 DEF Sorted, NameAt
  <2> QED
      BY <2>6, <2>7
<1> QED
    BY <1>5, <1>6

LEMMA NextSorts == TreeTypes /\ Sorted /\ [Next]_vars => Sorted'
<1> SUFFICES ASSUME TreeTypes, Sorted, [Next]_vars PROVE Sorted'
    OBVIOUS
<1>1. CASE UNCHANGED <<node, children, adding>>
    BY <1>1 DEF Sorted, NameAt
<1>2. CASE (AddFile /\ phase' # "abort") \/ AddDirectory
    BY <1>2, AddsNode, AddSorts
<1>3. CASE Sink
    BY <1>3, SinkSorts
<1>4. CASE Sunk
  <2>1. adding.index = 1 /\ node' = node /\ children' = children
      BY <1>4 DEF Sunk
  <2> SUFFICES ASSUME NEW d \in DOMAIN children, NEW j \in DOMAIN children[d],
                      NEW k \in DOMAIN children[d], j < k
               PROVE  NameAt(d, j) <= NameAt(d, k)
      BY <2>1 DEF Sorted, NameAt
  <2>2. j \in Nat /\ j > 0 /\ k \in Nat
      BY NameFacts
  <2>3. k # 1
      BY <2>2
  <2> QED
      BY <2>1, <2>3 DEF Sorted
<1>5. CASE Free
  <2>1. children' = <<>> /\ DOMAIN <<>> = {}
      BY <1>5 DEF Free
  <2> QED
      BY <2>1 DEF Sorted
<1>6. CASE UNCHANGED vars
    BY <1>1, <1>6 DEF vars
<1>7. CASE ReadFails \/ SkipHidden \/ EndDirectory
    BY <1>1, <1>7 DEF ReadFails, SkipHidden, EndDirectory
<1>8. CASE AddFile /\ phase' = "abort"
  <2>1. UNCHANGED <<node, children, adding>>
      BY <1>8 DEF AddFile, Reads
  <2> QED
      BY <1>1, <2>1
<1>9. CASE CreateDirectory \/ CreateFile
    BY <1>1, <1>9 DEF CreateDirectory, CreateFile
<1> QED
    BY <1>2, <1>3, <1>4, <1>5, <1>6, <1>7, <1>8, <1>9 DEF Next

\* The children of every directory are in order (directory_tree.h:42) whatever the
\* image holds and wherever add_child_directory_tree is.
THEOREM ChildrenSorted == Spec => []Sorted
<1>1. Init => Sorted
  <2> SUFFICES ASSUME Init PROVE Sorted
      OBVIOUS
  <2>1. children = << <<>> >> /\ DOMAIN children = 1 .. 1 /\ DOMAIN children[1] = {}
      BY DEF Init
  <2> QED
      BY <2>1 DEF Sorted
<1> QED
    BY <1>1, RecoverTypes, NextSorts, PTL DEF Spec

------------------------------------------------------------------------------
(* Every node but the root is at one place of one directory.                *)

OnePlace ==
    \A d, e \in 1 .. Len(node) : \A j \in 1 .. Len(children[d]), k \in 1 .. Len(children[e]) :
        children[d][j] = children[e][k] => d = e /\ j = k

EachPlaced ==
    \A id \in 2 .. Len(node) :
        \E d \in 1 .. Len(node) : \E j \in 1 .. Len(children[d]) : children[d][j] = id

PlaceInv == OnePlace /\ EachPlaced

LEMMA PlacesAreParents == TreeTypes /\ PlaceInv => OneParent
<1> SUFFICES ASSUME TreeTypes, PlaceInv PROVE OneParent
    OBVIOUS
<1>1. DOMAIN node = 1 .. Len(node) /\ Len(node) \in Nat
    BY LenProperties DEF TreeTypes
<1>2. /\ DOMAIN children = 1 .. Len(node)
      /\ \A d \in 1 .. Len(node) : DOMAIN children[d] = 1 .. Len(children[d])
    BY NameFacts
<1>3. \A d \in DOMAIN children : \A j, k \in DOMAIN children[d] :
          children[d][j] = children[d][k] => j = k
    BY <1>2 DEF PlaceInv, OnePlace
<1>4. ASSUME NEW id \in DOMAIN node \ {Root} PROVE \E d \in DOMAIN children : Placed(id) = {d}
  <2>1. id \in 2 .. Len(node)
      BY <1>1 DEF Root
  <2>2. PICK d \in 1 .. Len(node) : \E j \in 1 .. Len(children[d]) : children[d][j] = id
      BY <2>1 DEF PlaceInv, EachPlaced
  <2>3. d \in Placed(id)
      BY <1>2, <2>2 DEF Placed
  <2>4. \A e \in Placed(id) : e = d
      BY <1>2, <2>2 DEF Placed, PlaceInv, OnePlace
  <2>5. Placed(id) = {d}
      BY <2>3, <2>4
  <2> QED
      BY <1>2, <2>5
<1> QED
    BY <1>3, <1>4 DEF OneParent

\* A new node gets a place that is none of the others'.
LEMMA AddPlaces ==
    ASSUME TreeTypes, PlaceInv, NEW new, AddFacts(new)
    PROVE  PlaceInv'
<1> DEFINE n == Len(node)
           c == Call.dir
           m == Len(children[c])
           Was(d, j) == d \in 1 .. n /\ j \in 1 .. Len(children[d])
<1>1. n \in Nat /\ c \in 1 .. n /\ m \in Nat /\ Len(node') = n + 1
    BY LenProperties DEF TreeTypes, AddFacts
<1>2. \A d, j : Was(d, j) => children[d][j] \in 2 .. n
    BY NameFacts
<1>3. /\ Len(children'[n + 1]) = 0
      /\ \A d \in 1 .. n : d # c => children'[d] = children[d]
      /\ children'[c] = Append(children[c], n + 1)
    BY DEF AddFacts
<1>4. /\ Len(children'[c]) = m + 1 /\ children'[c][m + 1] = n + 1
      /\ \A j \in 1 .. m : children'[c][j] = children[c][j]
  <2>1. children[c] \in Seq(Nat)
      BY <1>1, ElementOfSeq DEF TreeTypes
  <2> QED
      BY <1>1, <1>3, <2>1, AppendProperties
<1> HIDE DEF n, c, m
<1>5. \A d \in 1 .. n + 1 : \A j \in 1 .. Len(children'[d]) :
          \/ Was(d, j) /\ children'[d][j] = children[d][j]
          \/ d = c /\ j = m + 1 /\ children'[d][j] = n + 1
  <2> SUFFICES ASSUME NEW d \in 1 .. n + 1, NEW j \in 1 .. Len(children'[d])
      PROVE  \/ Was(d, j) /\ children'[d][j] = children[d][j]
             \/ d = c /\ j = m + 1 /\ children'[d][j] = n + 1
      OBVIOUS
  <2>1. CASE d = n + 1
      BY <1>1, <1>3, <2>1
  <2>2. CASE d = c
      BY <1>1, <1>4, <2>2 DEF m
  <2>3. CASE d # n + 1 /\ d # c
      BY <1>1, <1>3, <2>3
  <2> QED
      BY <2>1, <2>2, <2>3
<1>6. ASSUME NEW d \in 1 .. n + 1, NEW e \in 1 .. n + 1,
             NEW j \in 1 .. Len(children'[d]), NEW k \in 1 .. Len(children'[e]),
             children'[d][j] = children'[e][k]
      PROVE  d = e /\ j = k
  <2>1. \A p \in 2 .. n : p # n + 1
      BY <1>1
  <2>2. CASE Was(d, j) /\ children'[d][j] = children[d][j]
    <3>1. children'[e][k] # n + 1
        BY <1>2, <1>6, <2>1, <2>2
    <3>2. Was(e, k) /\ children'[e][k] = children[e][k]
        BY <1>5, <3>1
    <3> QED
      <4>1. \A a, b \in 1 .. n : \A p \in 1 .. Len(children[a]), q \in 1 .. Len(children[b]) :
                children[a][p] = children[b][q] => a = b /\ p = q
          BY DEF PlaceInv, OnePlace, n
      <4>2. children[d][j] = children[e][k]
          BY <1>6, <2>2, <3>2
      <4> QED
          BY <2>2, <3>2, <4>1, <4>2, SMTT(20)
  <2>3. CASE d = c /\ j = m + 1 /\ children'[d][j] = n + 1
    <3>1. e = c /\ k = m + 1
        BY <1>2, <1>5, <1>6, <2>1, <2>3
    <3> QED
        BY <2>3, <3>1
  <2> QED
      BY <1>5, <2>2, <2>3
<1>7. ASSUME NEW id \in 2 .. n + 1
      PROVE  \E d \in 1 .. n + 1 : \E j \in 1 .. Len(children'[d]) : children'[d][j] = id
  <2>1. CASE id = n + 1
    <3>1. c \in 1 .. n + 1 /\ m + 1 \in 1 .. Len(children'[c])
        BY <1>1, <1>4
    <3> QED
        BY <1>4, <2>1, <3>1
  <2>2. CASE id # n + 1
    <3>1. id \in 2 .. n
        BY <1>1, <2>2
    <3>2. PICK d \in 1 .. n : \E j \in 1 .. Len(children[d]) : children[d][j] = id
        BY <3>1 DEF PlaceInv, EachPlaced, n
    <3>3. PICK j \in 1 .. Len(children[d]) : children[d][j] = id
        BY <3>2
    <3>4. d \in 1 .. n + 1 /\ j \in 1 .. Len(children'[d]) /\ children'[d][j] = id
      <4>1. CASE d = c
          BY <1>1, <1>4, <3>3, <4>1 DEF m
      <4>2. CASE d # c
          BY <1>1, <1>3, <3>3, <4>2
      <4> QED
          BY <4>1, <4>2
    <3> QED
        BY <3>4
  <2> QED
      BY <2>1, <2>2
<1> QED
    BY <1>1, <1>6, <1>7 DEF PlaceInv, OnePlace, EachPlaced

\* Sinking a child exchanges two places of one directory.
LEMMA SinkPlaces ==
    ASSUME TreeTypes, PlaceInv, Sink
    PROVE  PlaceInv'
<1> DEFINE d == adding.dir
           x == adding.index
           s == children[d]
           t == Swapped(s, x)
           Other(j) == IF j = x THEN x - 1 ELSE IF j = x - 1 THEN x ELSE j
<1>1. d \in 1 .. Len(node) /\ x \in Nat /\ x > 1 /\ x <= Len(s) /\ node' = node
    BY DEF TreeTypes, Sink
<1>2. DOMAIN children = 1 .. Len(node) /\ DOMAIN s = 1 .. Len(s) /\ Len(s) \in Nat
    BY <1>1, NameFacts
<1>3. CASE children' = children
    BY <1>1, <1>3 DEF PlaceInv, OnePlace, EachPlaced
<1>4. CASE children' = [children EXCEPT ![d] = t]
  <2>1. /\ DOMAIN t = 1 .. Len(s) /\ t[x - 1] = s[x] /\ t[x] = s[x - 1]
        /\ \A k \in 1 .. Len(s) : k # x /\ k # x - 1 => t[k] = s[k]
      BY <1>1, <1>2 DEF Swapped
  <2>2. Len(t) = Len(s)
    <3>1. t \in Seq(Nat)
      <4>1. TreeTypes'
          BY SinkTypes
      <4>2. children' \in Seq(Seq(Nat)) /\ d \in 1 .. Len(children') /\ children'[d] = t
          BY <1>1, <1>2, <1>4, <4>1 DEF TreeTypes
      <4> QED
          BY <4>2, ElementOfSeq
    <3>2. DOMAIN t = 1 .. Len(t) /\ Len(t) \in Nat
        BY <3>1, LenProperties
    <3> HIDE DEF t, s, d, x
    <3> QED
        BY <1>2, <2>1, <3>2
  <2>3. /\ children'[d] = t
        /\ \A e \in 1 .. Len(node) : e # d => children'[e] = children[e]
      BY <1>1, <1>2, <1>4
  <2>4. \A j \in 1 .. Len(s) : /\ Other(j) \in 1 .. Len(s) /\ t[j] = s[Other(j)]
                               /\ Other(Other(j)) = j
    <3> HIDE DEF t, s, d, x
    <3> QED
        BY <1>1, <1>2, <2>1
  <2>5. ASSUME NEW e \in 1 .. Len(node)
        PROVE  /\ Len(children'[e]) = Len(children[e])
               /\ \A j \in 1 .. Len(children[e]) :
                     LET p == IF e = d THEN Other(j) ELSE j
                     IN /\ p \in 1 .. Len(children[e]) /\ children'[e][j] = children[e][p]
                        /\ (IF e = d THEN Other(p) ELSE p) = j
    <3>1. CASE e = d
        BY <2>2, <2>3, <2>4, <3>1
    <3>2. CASE e # d
        BY <2>3, <3>2
    <3> QED
        BY <3>1, <3>2
  <2> DEFINE Where(e, j) == IF e = d THEN Other(j) ELSE j
  <2> HIDE DEF t, s, d, x
  <2>6. \A e \in 1 .. Len(node) :
            /\ Len(children'[e]) = Len(children[e])
            /\ \A j \in 1 .. Len(children[e]) :
                  /\ Where(e, j) \in 1 .. Len(children[e])
                  /\ children'[e][j] = children[e][Where(e, j)]
                  /\ Where(e, Where(e, j)) = j
      BY <2>5
  <2> HIDE DEF Where
  <2>7. OnePlace'
    <3> SUFFICES ASSUME NEW a \in 1 .. Len(node), NEW b \in 1 .. Len(node),
                        NEW p \in 1 .. Len(children[a]), NEW q \in 1 .. Len(children[b]),
                        children'[a][p] = children'[b][q]
        PROVE  a = b /\ p = q
      <4>1. /\ Len(node') = Len(node)
            /\ \A a \in 1 .. Len(node) : Len(children'[a]) = Len(children[a])
          BY <1>1, <2>6
      <4> QED
          BY <4>1 DEF OnePlace
    <3>1. children[a][Where(a, p)] = children[b][Where(b, q)]
        BY <2>6
    <3>2. a = b /\ Where(a, p) = Where(b, q)
        BY <2>6, <3>1 DEF PlaceInv, OnePlace
    <3> QED
        BY <2>6, <3>2
  <2>8. EachPlaced'
    <3> SUFFICES ASSUME NEW id \in 2 .. Len(node)
        PROVE  \E e \in 1 .. Len(node) : \E j \in 1 .. Len(children'[e]) : children'[e][j] = id
        BY <1>1 DEF EachPlaced
    <3>1. PICK e \in 1 .. Len(node) : \E j \in 1 .. Len(children[e]) : children[e][j] = id
        BY DEF PlaceInv, EachPlaced
    <3>2. PICK j \in 1 .. Len(children[e]) : children[e][j] = id
        BY <3>1
    <3>3. /\ Where(e, j) \in 1 .. Len(children'[e])
          /\ children'[e][Where(e, j)] = children[e][Where(e, Where(e, j))]
        BY <2>6
    <3> QED
        BY <2>6, <3>2, <3>3
  <2> QED
      BY <2>7, <2>8 DEF PlaceInv
<1> QED
    BY <1>3, <1>4 DEF Sink

LEMMA NextPlaces == TreeTypes /\ PlaceInv /\ [Next]_vars => PlaceInv'
<1> SUFFICES ASSUME TreeTypes, PlaceInv, [Next]_vars PROVE PlaceInv'
    OBVIOUS
<1>1. CASE UNCHANGED <<node, children>>
    BY <1>1 DEF PlaceInv, OnePlace, EachPlaced
<1>2. CASE (AddFile /\ phase' # "abort") \/ AddDirectory
    BY <1>2, AddsNode, AddPlaces
<1>3. CASE Sink
    BY <1>3, SinkPlaces
<1>4. CASE Free
  <2>1. Len(node') = 0
      BY <1>4 DEF Free
  <2> QED
      BY <2>1 DEF PlaceInv, OnePlace, EachPlaced
<1>5. CASE AddFile /\ phase' = "abort"
  <2>1. UNCHANGED <<node, children>>
      BY <1>5 DEF AddFile, Reads
  <2> QED
      BY <1>1, <2>1
<1>6. CASE \/ ReadFails \/ SkipHidden \/ EndDirectory \/ Sunk \/ CreateDirectory \/ CreateFile
           \/ UNCHANGED vars
    BY <1>1, <1>6 DEF ReadFails, SkipHidden, EndDirectory, Sunk, CreateDirectory, CreateFile, vars
<1> QED
    BY <1>2, <1>3, <1>4, <1>5, <1>6 DEF Next

(* The nodes are a tree in which each has one parent and one place, whatever *)
(* the image holds: free_directory_tree (directory_tree.c:117-132) frees     *)
(* each node once.                                                           *)
THEOREM NodesFreedOnce == Spec => []OneParent
<1>1. Init => PlaceInv
  <2> SUFFICES ASSUME Init PROVE PlaceInv
      OBVIOUS
  <2>1. Len(node) = 1 /\ children = << <<>> >> /\ Len(children[1]) = 0
      BY DEF Init
  <2> QED
      BY <2>1 DEF PlaceInv, OnePlace, EachPlaced
<1> QED
    BY <1>1, RecoverTypes, NextPlaces, PlacesAreParents, PTL DEF Spec
==============================================================================

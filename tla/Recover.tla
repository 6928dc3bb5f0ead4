-------------------------------- MODULE Recover --------------------------------
(****************************************************************************)
(* pretest-wduan/src: recover.c walks the directories of a FAT16 image and  *)
(* builds a tree of them (directory_tree.c), which it then writes out.      *)
(*                                                                          *)
(* The image is its root directory and its clusters, a sequence of slots of *)
(* 32 bytes, each of them what a directory entry there would be read as.    *)
(* A name is a number, in the order of strcmp.  Clusters 0 and 1, which     *)
(* FAT16 keeps for itself, are in no entry: get_offset_from_cluster         *)
(* subtracts 2 unchecked (fat16.c:27).                                      *)
(****************************************************************************)
EXTENDS Integers, Sequences

CONSTANTS Names,          \* names of files and directories, but ROOT
          Images,         \* what may be on the disk
          RootEntries,    \* bpb.max_root_entries
          ClusterSlots    \* slots in a cluster

Attributes == {"none", "hidden", "directory", "archive"}
Entry == [first : {"char", "dot", "nul"}, name : Names, attribute : Attributes,
          cluster : Nat \ {0, 1}, size : Nat]    \* its size is in slots

ASSUME RecoverAssumption ==
    /\ Names \subseteq Nat
    /\ Images \subseteq Seq(Entry)
    /\ RootEntries \in Nat \ {0} /\ ClusterSlots \in Nat \ {0}

VARIABLES
    disk,      \* the image
    pos,       \* the slot that is read next
    calls,     \* the calls of follow() under way: [dir, start, location]
    node,      \* the nodes, in the order they were made: [type, name, contents]
    children,  \* the children of each node, none for a file
    adding,    \* add_child_directory_tree under way: [dir, index], index 0 when not
    todo,      \* create_tree: what is still to be written, [id, path]
    files,     \* the file system: [path, type, contents]
    phase      \* "follow", "create", "done", or "abort" after an assertion

vars == <<disk, pos, calls, node, children, adding, todo, files, phase>>

Root == 1
Idle == [dir |-> Root, index |-> 0]

\* fat16.c
get_offset_from_cluster(cluster) == RootEntries + (cluster - 2) * ClusterSlots + 1
is_directory(entry) == entry.attribute = "directory"
is_hidden(entry)    == entry.first = "dot" \/ entry.attribute \in {"none", "hidden"}

\* init_file_node, init_directory_node
FileNode(entry)      == [type |-> "file", name |-> entry.name, contents |-> entry.cluster]
DirectoryNode(name)  == [type |-> "directory", name |-> name, contents |-> 0]

Init ==
    /\ disk \in Images
    /\ pos = 1
    /\ calls = << [dir |-> Root, start |-> 1, location |-> 1] >>
    /\ node = <<DirectoryNode(0)>>
    /\ children = << <<>> >>
    /\ adding = Idle
    /\ todo = <<>>
    /\ files = {}
    /\ phase = "follow"

------------------------------------------------------------------------------
(* follow() *)

Call == calls[Len(calls)]

Reads ==
    /\ phase = "follow"
    /\ adding.index = 0
    /\ pos \in DOMAIN disk

\* assert(written == 1): there is nothing left to read.
ReadFails ==
    /\ phase = "follow"
    /\ adding.index = 0
    /\ pos \notin DOMAIN disk
    /\ phase' = "abort"
    /\ UNCHANGED <<disk, pos, calls, node, children, adding, todo, files>>

SkipHidden ==
    /\ Reads
    /\ is_hidden(disk[pos])
    /\ pos' = pos + 1
    /\ UNCHANGED <<disk, calls, node, children, adding, todo, files, phase>>

\* The caller goes back to where it was; the last one writes the tree.
EndDirectory ==
    /\ Reads
    /\ ~ is_hidden(disk[pos])
    /\ disk[pos].first = "nul"
    /\ pos' = Call.location
    /\ calls' = SubSeq(calls, 1, Len(calls) - 1)
    /\ IF Len(calls) = 1
       THEN phase' = "create" /\ todo' = << [id |-> Root, path |-> <<>>] >>
       ELSE UNCHANGED <<phase, todo>>
    /\ UNCHANGED <<disk, node, children, adding, files>>

\* The node is put last among its siblings, from where add_child sinks it.
AddNode(new) ==
    /\ node' = Append(node, new)
    /\ children' = Append([children EXCEPT ![Call.dir] = Append(@, Len(node) + 1)], <<>>)
    /\ adding' = [dir |-> Call.dir, index |-> Len(children[Call.dir]) + 1]

\* fread returns 0 for a file of no bytes, as for one that the image cuts off; the
\* assertion fails.
ReadsWhole(entry) ==
    entry.size > 0 /\ get_offset_from_cluster(entry.cluster) + entry.size - 1 <= Len(disk)

AddFile ==
    /\ Reads
    /\ LET entry == disk[pos]
       IN /\ ~ is_hidden(entry) /\ entry.first # "nul" /\ ~ is_directory(entry)
          /\ IF ReadsWhole(entry)
             THEN AddNode(FileNode(entry)) /\ pos' = pos + 1 /\ UNCHANGED phase
             ELSE phase' = "abort" /\ UNCHANGED <<pos, node, children, adding>>
    /\ UNCHANGED <<disk, calls, todo, files>>

AddDirectory ==
    /\ Reads
    /\ LET entry == disk[pos]
           start == get_offset_from_cluster(entry.cluster)
       IN /\ ~ is_hidden(entry) /\ entry.first # "nul" /\ is_directory(entry)
          /\ AddNode(DirectoryNode(entry.name))
          /\ calls' = Append(calls, [dir |-> Len(node) + 1, start |-> start, location |-> pos + 1])
          /\ pos' = start
    /\ UNCHANGED <<disk, todo, files, phase>>

------------------------------------------------------------------------------
(* add_child_directory_tree: one turn of its loop. *)

NameAt(d, k) == node[children[d][k]].name

\* Mutant: the previous one is lost.
Overwritten(s, k) == [s EXCEPT ![k - 1] = s[k]]

Swapped(s, k) == [s EXCEPT ![k - 1] = s[k], ![k] = s[k - 1]]

\* Mutant: one comparison only.
SinkOnce ==
    /\ phase = "follow"
    /\ adding.index > 1
    /\ LET d == adding.dir
           k == adding.index
       IN /\ children' = IF NameAt(d, k) < NameAt(d, k - 1)
                         THEN [children EXCEPT ![d] = Swapped(@, k)] ELSE children
          /\ adding' = [adding EXCEPT !.index = 1]
    /\ UNCHANGED <<disk, pos, calls, node, todo, files, phase>>

Sink ==
    /\ phase = "follow"
    /\ adding.index > 1
    /\ LET d == adding.dir
           k == adding.index
       IN /\ children' = IF NameAt(d, k) < NameAt(d, k - 1)
                         THEN [children EXCEPT ![d] = Swapped(@, k)] ELSE children
          /\ adding' = [adding EXCEPT !.index = k - 1]
    /\ UNCHANGED <<disk, pos, calls, node, todo, files, phase>>

Sunk ==
    /\ phase = "follow"
    /\ adding.index = 1
    /\ adding' = Idle
    /\ UNCHANGED <<disk, pos, calls, node, children, todo, files, phase>>

------------------------------------------------------------------------------
(* create_tree: depth first; the place it is written to is empty.  *)

There(path) == {f \in files : f.path = path}

\* mkdir() fails, unnoticed, where the path exists or its parent is no directory; then
\* the children.
CreateDirectory ==
    /\ phase = "create" /\ todo # <<>>
    /\ LET item == Head(todo)
           path == Append(item.path, node[item.id].name)
           own  == children[item.id]
       IN /\ node[item.id].type = "directory"
          /\ files' = IF There(path) # {} \/ \E f \in There(item.path) : f.type = "file" THEN files
                      ELSE files \cup {[path |-> path, type |-> "directory", contents |-> 0]}
          /\ todo' = [k \in 1 .. Len(own) |-> [id |-> own[k], path |-> path]] \o Tail(todo)
    /\ UNCHANGED <<disk, pos, calls, node, children, adding, phase>>

\* A file is written over one of the same path.  fopen() fails where a directory has
\* the path, and where the parent is not one.
CreateFile ==
    /\ phase = "create" /\ todo # <<>>
    /\ LET item  == Head(todo)
           path  == Append(item.path, node[item.id].name)
           opens == /\ \A f \in There(path) : f.type = "file"
                    /\ \A f \in There(item.path) : f.type = "directory"
       IN /\ node[item.id].type = "file"
          /\ todo' = Tail(todo)
          /\ IF opens
             THEN /\ files' = (files \ There(path))
                        \cup {[path |-> path, type |-> "file", contents |-> node[item.id].contents]}
                  /\ UNCHANGED phase
             ELSE phase' = "abort" /\ UNCHANGED files
    /\ UNCHANGED <<disk, pos, calls, node, children, adding>>

\* free_directory_tree() leaves no node.
Free ==
    /\ phase = "create" /\ todo = <<>>
    /\ node' = <<>> /\ children' = <<>>
    /\ phase' = "done"
    /\ UNCHANGED <<disk, pos, calls, adding, todo, files>>

Next ==
    \/ ReadFails \/ SkipHidden \/ EndDirectory \/ AddFile \/ AddDirectory
    \/ Sink \/ Sunk \/ CreateDirectory \/ CreateFile \/ Free

Spec == Init /\ [][Next]_vars

------------------------------------------------------------------------------
Placed(id) == {d \in DOMAIN children : \E k \in DOMAIN children[d] : children[d][k] = id}

\* The children of a directory are in the order of their names (directory_tree.h:42),
\* but for the one that add_child_directory_tree (directory_tree.c:38-58) is sinking,
\* and what it has passed is no less than that one.
Sorted ==
    \A d \in DOMAIN children : \A j, k \in DOMAIN children[d] :
        j < k /\ (adding.index = 0 \/ adding.dir # d \/ adding.index # k)
            => NameAt(d, j) <= NameAt(d, k)

\* Every node is the child of one directory, at one place, but for the root:
\* free_directory_tree (directory_tree.c:117-132) frees each node once.
OneParent ==
    /\ \A id \in DOMAIN node \ {Root} : \E d \in DOMAIN children : Placed(id) = {d}
    /\ \A d \in DOMAIN children : \A j, k \in DOMAIN children[d] :
           children[d][j] = children[d][k] => j = k

\* "exit loop if filename starts with \0" (recover.c:20): no call of follow() reads on
\* behind such an entry of its directory.
ExitsAtEnd ==
    phase = "follow" =>
        \A k \in Call.start .. pos - 1 : k \in DOMAIN disk => disk[k].first # "nul"
===============================================================================

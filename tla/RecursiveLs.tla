------------------------------ MODULE RecursiveLs ------------------------------
(***************************************************************************)
(* globus_cli.services.transfer.recursive_ls: `globus ls --recursive`.     *)
(* RecursiveLsResponse lists one directory at a time and hands out items   *)
(* one by one; further calls are made only when the consumer asks for      *)
(* more.  Its constructor takes the first item, to have errors of the      *)
(* first call raised there.                                                *)
(*                                                                         *)
(* The file system is any graph of directories, with cycles where symbolic *)
(* links make some.  An entry of a directory is a file or a directory; its *)
(* name is its position in the listing.  A path is a sequence of names.    *)
(* The pauses of the client-side rate limiter are left out.                *)
(***************************************************************************)
EXTENDS Naturals, Sequences, SequencesExt

CONSTANTS
    Dirs,          \* the directories
    Root,          \* the one the listing starts at
    File,          \* any file
    MaxEntries,    \* bound: entries of a directory
    Depths         \* values of --recursive-depth-limit

ASSUME TreeAssumption == Root \in Dirs /\ File \notin Dirs
ASSUME DepthsAssumption == Depths \subseteq Nat /\ MaxEntries \in Nat

VARIABLES
    tree,          \* the entries of every directory
    max_depth,     \* _max_depth
    dir_queue,     \* directories to list: paths and depths
    rel_path,      \* path of the last one listed, relative to the start
    items,         \* names of its entries that have not been handed out
    pc,            \* of the generator and its consumer
    first_elem,    \* <<>>, or the item that the constructor took
    out            \* the items the consumer was given, by relative path

vars == <<tree, max_depth, dir_queue, rel_path, items, pc, first_elem, out>>

Name == 1..MaxEntries
Path == BoundedSeq(Name, 1 + max_depth)
Listings == BoundedSeq(Dirs \cup {File}, MaxEntries)
Queued == [abs_path : Path, rel_path : Path, depth : 0..max_depth]

TypeOK ==
    /\ tree \in [Dirs -> Listings]
    /\ max_depth \in Depths
    /\ \A i \in DOMAIN dir_queue : dir_queue[i] \in Queued
    /\ rel_path \in Path /\ Len(rel_path) <= max_depth
    /\ items \in BoundedSeq(Name, MaxEntries)
    /\ pc \in {"construct", "iterate", "next", "done", "failed"}
    /\ first_elem \in BoundedSeq(Path, 1)
    /\ \A i \in DOMAIN out : out[i] \in Path

Init ==
    /\ tree \in [Dirs -> Listings]
    /\ max_depth \in Depths
    /\ dir_queue = <<[abs_path |-> <<>>, rel_path |-> <<>>, depth |-> 0]>>
    /\ rel_path = <<>> /\ items = <<>>
    /\ pc = "construct"
    /\ first_elem = <<>> /\ out = <<>>
-------------------------------------------------------------------------------
\* operation_ls, by absolute path: the directory that the path leads to.
DirAt[path \in Path] ==
    IF path = <<>> THEN Root ELSE tree[DirAt[Front(path)]][Last(path)]

\* The names of the directories in a directory, in the order of the listing.
Subdirs(dir) ==
    LET among[n \in 0..Len(tree[dir])] ==
            IF n = 0 THEN <<>>
            ELSE IF tree[dir][n] = File THEN among[n - 1] ELSE Append(among[n - 1], n)
    IN  among[Len(tree[dir])]

Below(top, name) ==
    [abs_path |-> Append(top.abs_path, name),
     rel_path |-> Append(top.rel_path, name), depth |-> top.depth + 1]

\* Fault: the depth limit is off by one.
Extend_OneDeeper(queue, top) ==
    IF top.depth <= max_depth
    THEN queue \o [i \in DOMAIN Subdirs(DirAt[top.abs_path]) |->
                     Below(top, Reverse(Subdirs(DirAt[top.abs_path]))[i])]
    ELSE queue

\* The queue after `top` was listed: its directories, the first one at the end.
Extend(queue, top) ==
    IF top.depth < max_depth
    THEN queue \o [i \in DOMAIN Subdirs(DirAt[top.abs_path]) |->
                     Below(top, Reverse(Subdirs(DirAt[top.abs_path]))[i])]
    ELSE queue

Running == pc \in {"construct", "next"}

\* Fault: the queue is taken from its front.
ListNext_Fifo ==
    /\ Running /\ items = <<>> /\ dir_queue # <<>>
    /\ LET top == Head(dir_queue) IN
        /\ dir_queue' = Extend(Tail(dir_queue), top)
        /\ rel_path' = top.rel_path
        /\ items' = [name \in DOMAIN tree[DirAt[top.abs_path]] |-> name]
    /\ UNCHANGED <<tree, max_depth, pc, first_elem, out>>

\* Fault: the items are renamed before the directories among them are queued.
ListNext_RenameFirst ==
    /\ Running /\ items = <<>> /\ dir_queue # <<>>
    /\ LET top == Last(dir_queue)
           renamed == [top EXCEPT !.rel_path = top.rel_path \o top.rel_path] IN
        /\ dir_queue' = Extend(Front(dir_queue), renamed)
        /\ rel_path' = top.rel_path
        /\ items' = [name \in DOMAIN tree[DirAt[top.abs_path]] |-> name]
    /\ UNCHANGED <<tree, max_depth, pc, first_elem, out>>

\* One turn of the `while dir_queue` loop: list a directory, queue those in it.
ListNext ==
    /\ Running /\ items = <<>> /\ dir_queue # <<>>
    /\ LET top == Last(dir_queue) IN
        /\ dir_queue' = Extend(Front(dir_queue), top)
        /\ rel_path' = top.rel_path
        /\ items' = [name \in DOMAIN tree[DirAt[top.abs_path]] |-> name]
    /\ UNCHANGED <<tree, max_depth, pc, first_elem, out>>

\* The call raises: so does the constructor or the loop over the response.
ListFails ==
    /\ Running /\ items = <<>> /\ dir_queue # <<>>
    /\ pc' = "failed"
    /\ UNCHANGED <<tree, max_depth, dir_queue, rel_path, items, first_elem, out>>

Item == Append(rel_path, Head(items))

\* next(self._generator) in the constructor ...
TakeFirst ==
    /\ pc = "construct" /\ items # <<>>
    /\ first_elem' = <<Item>>
    /\ items' = Tail(items)
    /\ pc' = "iterate"
    /\ UNCHANGED <<tree, max_depth, dir_queue, rel_path, out>>

\* ... which __iter__ yields before the rest ...
YieldFirst ==
    /\ pc = "iterate"
    /\ out' = Append(out, first_elem[1])
    /\ pc' = "next"
    /\ UNCHANGED <<tree, max_depth, dir_queue, rel_path, items, first_elem>>

\* ... of the items.
YieldItem ==
    /\ pc = "next" /\ items # <<>>
    /\ out' = Append(out, Item)
    /\ items' = Tail(items)
    /\ UNCHANGED <<tree, max_depth, dir_queue, rel_path, pc, first_elem>>

\* StopIteration: in the constructor it makes an empty response.
Stop ==
    /\ Running /\ items = <<>> /\ dir_queue = <<>>
    /\ pc' = "done"
    /\ UNCHANGED <<tree, max_depth, dir_queue, rel_path, items, first_elem, out>>

Terminated == pc \in {"done", "failed"} /\ UNCHANGED vars

Next == ListNext \/ ListFails \/ TakeFirst \/ YieldFirst \/ YieldItem \/ Stop \/ Terminated

Spec == Init /\ [][Next]_vars
-------------------------------------------------------------------------------
\* What `ls -R` means, by recursion on the depth that is left: the entries of a
\* directory, followed by those below each of its directories in their order.
Expected[k \in 0..max_depth] ==
    [dir \in Dirs |->
        [name \in DOMAIN tree[dir] |-> <<name>>]
        \o IF k = 0 THEN <<>>
           ELSE FlattenSeq([i \in DOMAIN Subdirs(dir) |->
                   LET name == Subdirs(dir)[i]
                       below == Expected[k - 1][tree[dir][name]]
                   IN  [j \in DOMAIN below |-> <<name>> \o below[j]]])]

\* The consumer is given a prefix of that, and all of it unless a call fails:
\* no item is lost, repeated (the first one is taken early), misplaced, or named
\* by a wrong path, and the listing of a cyclic file system is finite.
ListsInOrder ==
    /\ IsPrefix(out, Expected[max_depth][Root])
    /\ pc = "done" => out = Expected[max_depth][Root]

\* "Without keeping the whole filesystem tree in memory": the directories in the
\* queue are children of the directory listed last or of its ancestors.
QueueOnSpine ==
    \A i \in DOMAIN dir_queue :
        dir_queue[i].rel_path # <<>> => IsPrefix(Front(dir_queue[i].rel_path), rel_path)
===============================================================================

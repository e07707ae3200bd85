------------------------------ MODULE ObjectTree -----------------------------
(***************************************************************************)
(* Directories of an object store behind Hadoop's FileSystem, as the        *)
(* publishing code uses it: a tree maps every path to its set of files. A   *)
(* rename copies and deletes object by object, so that one that fails, or   *)
(* is cut short, leaves any part of it done.                                *)
(***************************************************************************)
EXTENDS Integers

Exists(tree, path) == tree[path] # {}

Moved(tree, from, to) == [tree EXCEPT ![to] = @ \cup tree[from], ![from] = {}]

\* What a rename that does not report success may leave, all of it and
\* nothing of it included.
PartialMoves(tree, from, to) ==
    { [tree EXCEPT ![to] = @ \cup m[1], ![from] = @ \ m[2]] :
        m \in { n \in (SUBSET tree[from]) \X (SUBSET tree[from]) : n[2] \subseteq n[1] } }

Deleted(tree, path) == [tree EXCEPT ![path] = {}]

PartialDeletes(tree, path) ==
    {[tree EXCEPT ![path] = left] : left \in SUBSET tree[path]}
=============================================================================

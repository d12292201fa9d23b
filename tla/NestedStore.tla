---------------------------- MODULE NestedStore ----------------------------
(***************************************************************************)
(* What nested database contexts promise: a stack of views of the store.   *)
(* The bottom view is the store itself.  Opening a context copies the top  *)
(* view, a write changes the top view only, rolling back drops it, and     *)
(* committing puts it in the place of the view below.                      *)
(***************************************************************************)
EXTENDS Integers, Sequences

CONSTANTS
    Key,        \* keys of both tables
    Value,      \* values
    Absent      \* what a key that was never written maps to

VARIABLE views

EmptyView == [t \in {"data", "metadata"} |-> [k \in Key |-> Absent]]

Init == views = <<EmptyView>>

Nest == views' = Append(views, views[Len(views)])

Write(t, k, v) ==
    /\ Len(views) > 1
    /\ views' = [views EXCEPT ![Len(views)][t][k] = v]

\* A metadata entry is written once: it must be absent from the view.
Put(k, v) == Write("data", k, v)
Insert(k, v) == views[Len(views)]["metadata"][k] = Absent /\ Write("metadata", k, v)

Rollback ==
    /\ Len(views) > 1
    /\ views' = SubSeq(views, 1, Len(views) - 1)

Commit ==
    /\ Len(views) > 1
    /\ views' = Append(SubSeq(views, 1, Len(views) - 2), views[Len(views)])

Next ==
    \/ Nest \/ Rollback \/ Commit
    \/ \E k \in Key, v \in Value : Put(k, v) \/ Insert(k, v)

Spec == Init /\ [][Next]_views
=============================================================================

----------------------------- MODULE MCIssueTree -----------------------------
(***************************************************************************)
(* IssueTree for TLC: three issues, the first of them the parent of the    *)
(* second.  A run starts from a board without events whose third issue is  *)
(* yet to be made, from a chain of three, or from a parent with two        *)
(* subtasks, one finished and on the calendar.                             *)
(***************************************************************************)
EXTENDS IssueTree, TLC

CONSTANTS i1, i2, i3, e1, d1

At0(p, n) == NewRow(p, n, None)

Dated == [parent |-> i1, progress |-> Full, date |-> d1, event |-> e1]

NoEvents == [e \in Events |-> None]

MCBoards ==
  {[issue |-> (i1 :> At0(None, 0)) @@ (i2 :> At0(i1, 0)) @@ (i3 :> None), event |-> NoEvents, made |-> 0],
   [issue |-> (i1 :> At0(None, 0)) @@ (i2 :> At0(i1, 0)) @@ (i3 :> At0(i2, 0)), event |-> NoEvents, made |-> 0],
   [issue |-> (i1 :> At0(None, Full \div 2)) @@ (i2 :> At0(i1, 0)) @@ (i3 :> Dated),
    event |-> [NoEvents EXCEPT ![e1] = [issue |-> i3, date |-> d1]], made |-> 1]}
=============================================================================

--------------------------- MODULE MCProjectMembers ---------------------------
(***************************************************************************)
(* ProjectMembers for TLC: an owner, a member and a team member outside.   *)
(* A run starts without a project, from a project whose member has a       *)
(* personal calendar and an event on the TEAM calendar, or from one        *)
(* without any calendar but an inactive one.                               *)
(***************************************************************************)
EXTENDS ProjectMembers, TLC

CONSTANTS own, mem, out, c1, c2, k1, k2, e1

NoRow(S) == [x \in S |-> None]

MCRole == (own :> "OWNER") @@ (mem :> "MEMBER") @@ (out :> None)

Cal(type, u, on) == [type |-> type, owner |-> u, active |-> on]
Cat(c, d) == [calendar |-> c, default |-> d, active |-> TRUE]

MCBoards ==
  {[project |-> FALSE, role |-> NoRow(Users), calendar |-> NoRow(CalendarIds),
    attendees |-> [c \in CalendarIds |-> {}], category |-> NoRow(CategoryIds), event |-> NoRow(EventIds)],
   [project |-> TRUE, role |-> MCRole,
    calendar |-> [NoRow(CalendarIds) EXCEPT ![c1] = Cal("TEAM", own, TRUE), ![c2] = Cal("PERSONAL", mem, TRUE)],
    attendees |-> [c \in CalendarIds |-> IF c = c1 THEN {own} ELSE IF c = c2 THEN {mem} ELSE {}],
    category |-> [NoRow(CategoryIds) EXCEPT ![k1] = Cat(c1, TRUE), ![k2] = Cat(c2, TRUE)],
    event |-> [NoRow(EventIds) EXCEPT ![e1] = [calendar |-> c1, category |-> k1, by |-> mem]]],
   [project |-> TRUE, role |-> MCRole,
    calendar |-> [NoRow(CalendarIds) EXCEPT ![c1] = Cal("TEAM", own, FALSE)],
    attendees |-> [c \in CalendarIds |-> IF c = c1 THEN {own} ELSE {}],
    category |-> [NoRow(CategoryIds) EXCEPT ![k1] = Cat(c1, TRUE)],
    event |-> NoRow(EventIds)]}

Symmetry == Permutations(Requests)
=============================================================================

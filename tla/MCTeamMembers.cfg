CONSTANTS
  Teams = {t1}
  Users = {creator, u1}
  Creator = creator
  Invites = {i1, i2}
  CustomRoles = {x1, x2}
  Calls = {c1, c2}
  None = None
  MaxRoles = 1
  Invited = {"MANAGER"}
SPECIFICATION Spec
SYMMETRY Symmetry
INVARIANTS
  Consistent
  OwnerStays
  SeatsFollowTeams
PROPERTIES
  RoleChangesAsked
CHECK_DEADLOCK FALSE

SPECIFICATION HistorySpec

CONSTANTS
  eng = eng
  fin = fin
  chief = chief
  Contracts = {c1}
  Actors <- Team
  RolesOf <- TeamRoles
  Requests = {r1, r2}
  WrittenStatuses <- NoStatuses
  MaxEvents = 6

SYMMETRY AnyRequest

INVARIANTS
  HistoryTypeOK

PROPERTIES
  ImplementsRound

CHECK_DEADLOCK FALSE

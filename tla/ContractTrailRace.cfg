SPECIFICATION HistorySpec

CONSTANTS
  eng = eng
  fin = fin
  chief = chief
  Contracts = {c1}
  Actors <- Team
  RolesOf <- TeamRoles
  Requests = {r1, r2}
  WrittenStatuses <- NoStatuses
  MaxEvents = 4

INVARIANTS
  AuditTrailExact

CHECK_DEADLOCK FALSE

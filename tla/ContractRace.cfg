SPECIFICATION HistorySpec

CONSTANTS
  eng = eng
  fin = fin
  chief = chief
  Contracts = {c1}
  Actors <- Team
  RolesOf <- TeamRoles
  Requests = {r1, r2}
  WrittenStatuses <- OneOfEachKind
  MaxEvents = 3

SYMMETRY AnyRequest

INVARIANTS
  NoStageSkippedUnlessWritten
  SignedAtMatchesTrail
  TrailExactUnlessStrayed

PROPERTIES
  CancelIsFinalUnlessRaced

CHECK_DEADLOCK FALSE

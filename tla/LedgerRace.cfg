SPECIFICATION HistorySpec

CONSTANTS
  manager = manager
  accountant = accountant
  director = director
  admin = admin
  Actors <- AdminAlone
  RolesOf <- AdminRoles
  Requests = {r1, r2}
  MaxEvents = 5
  Contract <- UnitRate
  Amounts <- TwoAmounts
  WorksInputs <- OneWork
  Lines <- OneLine
  Deductions = {d1}
  AdvanceOutstanding = 0

SYMMETRY AnyRequest

INVARIANTS
  LedgerTypeOK
  SumsAreCurrentUnlessDrifted
  TrailFollowsTableUnlessStrayed
  OnlyDraftsDeletedUnlessStrayed

PROPERTIES
  SubmittedIsFrozenUnlessRaced
  DecisionIsFinalUnlessRaced

CHECK_DEADLOCK FALSE

CONSTANTS
  manager = manager
  accountant = accountant
  director = director
  admin = admin
  Actors <- Staff
  RolesOf <- StaffRoles
  Requests = {r1}
  MaxEvents = 1
  Contract <- UnitRate
  Amounts <- OneAmount
  WorksInputs <- OneWork
  Lines <- OneLine
  Deductions = {d1}
  AdvanceOutstanding = 0
SPECIFICATION HistorySpec
INVARIANT NetAddsUp
CHECK_DEADLOCK FALSE

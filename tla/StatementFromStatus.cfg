CONSTANTS
  manager = manager
  accountant = accountant
  director = director
  admin = admin
  Actors <- Staff
  RolesOf <- StaffRoles
  Requests = {r1}
  MaxEvents = 2
  Contract <- NoRates
  Amounts <- OneAmount
  WorksInputs <- OneWork
  Lines <- OneLine
  Deductions = {}
  AdvanceOutstanding = 0
SPECIFICATION HistorySpec
INVARIANT TrailNamesPrevious
CHECK_DEADLOCK FALSE

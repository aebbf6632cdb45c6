CONSTANTS
  manager = manager
  accountant = accountant
  director = director
  admin = admin
  Actors <- Staff
  RolesOf <- StaffRoles
  Requests = {r1}
  MaxEvents = 1
  Contract <- NoRates
  Amounts <- OneAmount
  WorksInputs <- OneWork
  Lines <- OneLine
  Deductions = {d1}
  AdvanceOutstanding = 0
SPECIFICATION HistorySpec
INVARIANT NoEditRefused
CHECK_DEADLOCK FALSE

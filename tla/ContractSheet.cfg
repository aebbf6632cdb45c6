SPECIFICATION Spec

CONSTANTS
  Contracts = {c1, c2}
  Requests = {r1, r2}
  SheetRequests = {r1}
  Items = {i1, i2, i3, i4, i5}
  Slots = {s1}
  Keys = {k1, k2, k3, k4}
  Budgets = {2}
  Prices <- MCPrices
  MaxBlind = 1
  One = 1
  QuantityUnit = 1
  RateUnit = 2
  BudgetUnit = 1
  DoubleOf <- MCDoubleOf
  DoubleTotal <- MCDoubleTotal
  Blank = Blank
  Types = {"lump_sum", "cost_plus"}
  SubmittedForms <- MCSubmittedForms
  MaxChanges = 0
  RowChoices <- MCRowChoices
  MaxRows = 2
  MaxOpenings = 2
  ColleaguePrices <- MCColleaguePrices
  MaxColleague = 1
  MaxDocuments = 1
  MaxFaults = 1

INVARIANTS
  TypeOK
  StepsCoverSchema
  OnlyTheFeeTraps
  OneSuccessPerOpening
  BudgetOverrunBounded
  TornBounded

PROPERTIES
  SuccessIsComplete
  SubmissionSettles
  NoSurpriseRefusal
  DocumentsSpec

CHECK_DEADLOCK FALSE

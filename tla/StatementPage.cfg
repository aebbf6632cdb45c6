SPECIFICATION PageSpec

CONSTANTS
  pm = pm
  accountant = accountant
  director = director
  l1 = l1
  l2 = l2
  d1 = d1
  d2 = d2
  d3 = d3
  Actors = {pm, accountant, director}
  RolesOf <- MCRolesOf
  Requests = {r1, r2, r3}
  PageRequests = {r1, r2}
  MaxEvents = 9
  Entries <- MCEntries
  Queries <- MCQueries
  Missing = Missing
  LineItems = {l1, l2}
  Deds = {d1, d2, d3}
  Amounts = {0, 1}

INVARIANTS
  NoReviewSkipped
  DecisionLandsWhereShown

PROPERTIES
  UntypedQuantitiesKept
  DeductionsKeepTheirRow

CHECK_DEADLOCK FALSE

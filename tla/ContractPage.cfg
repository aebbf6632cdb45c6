SPECIFICATION PageSpec

CONSTANTS
  Contracts = {c1}
  id = c1
  engineer = engineer
  financier = financier
  jurist = jurist
  boss = boss
  both = both
  Actors = {engineer, financier, jurist, boss, both}
  RolesOf <- MCRolesOf
  Requests = {r1, r2, r3}
  PageRequests = {r1, r2}
  WrittenStatuses = {}
  MaxEvents = 9
  Entries <- MCEntries
  Queries <- ContractQueries
  Missing = Missing
  Items = {i1, i2}
  FirstItems = {i1}
  DocTypes = {"guarantees", "signed_contract"}

INVARIANTS
  PageTypeOK
  DecisionLandsWhereShown
  OwnChangesComing

PROPERTIES
  LockedEditsAreBlind

CHECK_DEADLOCK FALSE

SPECIFICATION ListSpec

CONSTANTS
  Nobody = Nobody
  Missing = Missing
  Queries <- MCQueries
  Users <- MCUsers
  Limit = 2
  Ids <- MCIds
  Entries <- MCEntries
  Requests = {r1}
  CreateRequests <- MCCreateRequests
  UpdateRequests <- MCUpdateRequests

INVARIANTS
  OfficeTypeOK
  RequestsKeepTheirRow
  EmptyPageMeansRemoval
  ShownRowsAreOwn

PROPERTIES
  LastAdministratorStays

CHECK_DEADLOCK FALSE

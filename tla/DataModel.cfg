SPECIFICATION Spec
CONSTANTS
  \* Requests: two services and the agent's own table
  Services = {"s1", "s2"}
  MaxInst = 4
  MaxRqFaults = 2
  IndexlessDelete = FALSE
  AddBelowTable = FALSE
  \* DmTrans
  MaxConn = 1
  MaxMtp = 2
  MaxCont = 1
  MaxContMtp = 1
  MaxAgentMtps = 1
  MaxCalls = 2
  \* PathResolver
  RowValues <- PrRows
  Roles <- PrRoles
  AskedPaths <- PrPaths
  Depths = {1, 2}
  \* Schema
  SchServices = {"s1", "s2"}
  SchOffers <- SchOffersMC
  SchAsks <- SchAsksMC
  SchCores <- SchCoresMC
  Restrictions <- RestrictionsMC
  MaxRestricted = 1
  HiddenTables = FALSE
  LateDeregister = FALSE
  MaxSchRegisters = 2
  \* Gets
  Resolutions <- ResolutionsMC
  GetGroups = {1, 2, 3}
  Hooked = {1, 2}
  ChunkSize = 2
  SearchLimit = 1
  MaxGetExprs = 3
  KeySets <- KeySetsMC
INVARIANTS RequestInv TransactionKept ResolvedIsMeant SchemaInv EachAsAsked
\* Requests end, and changes and faults are bounded.
CHECK_DEADLOCK FALSE

\* Four processes, a call in flight in each of their servers, two faults.
CONSTANTS
  Services = {"auth", "group", "transaction", "gateway"}
  MaxCalls = 1
  MaxFaults = 2
SPECIFICATION DepSpec
INVARIANT CallsKeepTheirStores
PROPERTY StopsAfterSignal
PROPERTY EverythingComesUp
CHECK_DEADLOCK FALSE

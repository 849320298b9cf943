SPECIFICATION FairSpec
CONSTANTS
  NULL = NULL
  Name <- Names
  Request <- Requests
  AsksFor <- Asks
  DefaultServer = "s0"
  Settings <- SecondServer
  DNS_TABLE_SIZE = 2
  DNS_MAX_SERVERS = 2
  DNS_MAX_RETRIES = 2
  DNS_MAX_TTL = 1
  Ttls = {0, 1}
  SeqnoValues = 3
  MaxEntries = 4
  TtlValues = 2
  AsksOnFailure <- OnFailure
  AsksOnSuccess <- OnSuccess
INVARIANTS  CallbackPromised
PROPERTIES OldestIsReplaced CallbackComes

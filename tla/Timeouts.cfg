CONSTANTS
  Cyclic <- TwoTimers
  CallsBack <- DnsTimer
  TCP_TMR_INTERVAL = 2
  Application = {a}
  Delays = {3}
  MEMP_NUM_SYS_TIMEOUT = 4
  Modulus = 5
  MaxLag = 2
  NULL = NULL
SPECIFICATION FairSpec
INVARIANTS DifferencesAddUp StackTimersRun PromptIsExact
PROPERTY TimeoutsEnd
CHECK_DEADLOCK FALSE

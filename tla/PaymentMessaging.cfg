SPECIFICATION MessagingSpec
CONSTANTS
  Requests = {q1, q2}
  Jobs = {j1, j2}
  NoRequest = NoRequest
  NoJob = NoJob
  Timeout = 1
  Lease = 2
  Backoff = 1
  MaxFailures = 1
INVARIANTS
  OneDeliversAtATime
  RepeatsNeedFailures
PROPERTY
  ImplementsReportedPayment
CHECK_DEADLOCK FALSE

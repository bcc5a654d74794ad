\* Timed lockf handles of three processes; a holder may keep its lock for ever.
CONSTANTS
  h1 = h1  h2 = h2  h3 = h3  p1 = p1  p2 = p2  p3 = p3
  Handle = {h1, h2, h3}
  Process = {p1, p2, p3}
  ProcessOf <- OnePerProcess
  LockType = "lockf"
  Blocking = {h1, h2, h3}
  Timed = {h1, h2, h3}
  Nobody = Nobody
  MaxCalls = 2
SPECIFICATION PatientSpec
PROPERTY TimedCallReturns

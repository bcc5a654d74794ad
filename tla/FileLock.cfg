\* Three processes, one lockf handle each: h1 waits, h2 is non-blocking, h3
\* waits with a timeout.
CONSTANTS
  h1 = h1  h2 = h2  h3 = h3  p1 = p1  p2 = p2  p3 = p3
  Handle = {h1, h2, h3}
  Process = {p1, p2, p3}
  ProcessOf <- OnePerProcess
  LockType = "lockf"
  Blocking = {h1, h3}
  Timed = {h3}
  Nobody = Nobody
  MaxCalls = 3
SPECIFICATION LiveSpec
INVARIANTS CallersHaveTheirLocks Exclusive ThirdCallNeverFails
PROPERTIES EveryCallReturns ImplementsRWLock

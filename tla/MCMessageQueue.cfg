CONSTANTS
  r1 = r1  r2 = r2  w1 = w1 
  m1 = m1  m2 = m2  m3 = m3 
  CALLBACK = CALLBACK  HALT = HALT
  Threads = {r1, r2, w1}
  Msgs = {m1, m2, m3}
  Types = {CALLBACK, HALT}
  TypeOf <- MCTypeOf
  CallsOf <- MCCallsOf
  AnyType = AnyType  NoMsg = NoMsg  Free = Free
SPECIFICATION FairSpec
INVARIANT NoLostWakeup
PROPERTIES ImplementsAtomicQueue ReaderServed
CHECK_DEADLOCK FALSE

CONSTANTS
  s1 = s1
  s2 = s2
  r1 = r1
  r2 = r2
  r3 = r3
  Nobody = Nobody
  Senders <- MCSenders
  Receivers <- MCReceivers
  Calls <- MCCalls
SPECIFICATION MCSpec
INVARIANT NoLostWakeup
PROPERTIES ImplementsFifo AllDelivered

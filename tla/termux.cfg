\* Two devices, two sockets: reconnects, answers of another device, every call ends.
SPECIFICATION Spec
CONSTANTS
  None = None
  d1 = d1
  d2 = d2
  s1 = s1
  s2 = s2
  c1 = c1
  Devices <- TwoDevices
  Sockets <- TwoSockets
  Calls <- OneCall
INVARIANTS TypeOK ViewsAgree WaitingIsReachable PendingIsAwaited AnsweredByItsDevice
PROPERTIES RevokedForGood ImplementsRemoteCalls CallsEnd
CHECK_DEADLOCK FALSE

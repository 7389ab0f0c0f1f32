\* One session with two request rules and one response rule; two commands, one port.
SPECIFICATION PartsFairSpec
CONSTANTS
  None = None
  Sessions = {s1}
  RequestRules = {q1, q2}
  ResponseRules = {p1}
  Ops = {o1, o2}
  Ports = {t1}
  DefaultPort = t1
  User = User
  Mixed = Mixed
INVARIANTS
  WaiterReachable
  EntryHasOwner
  AnnouncedIsRecorded
PROPERTIES
  EveryExchangeEnds
  EveryCommandReturns

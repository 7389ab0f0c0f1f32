\* Stop while the system proxy is being enabled.
CONSTANTS
  Ops = {o1, o2}
  Ports = {p1}
  DefaultPort = p1
  User = User
  Mixed = Mixed
  None = None
SPECIFICATION Spec
SYMMETRY Symmetric
INVARIANT StoppedNotRouted

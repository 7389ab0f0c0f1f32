CONSTANTS
  Callers = {c1, c2}
  Keys = {k1}
  Conns = {x1, x2}
  Channels = {d1, d2}
  MaxH1 = 1
  IdleTimeout = 1
  MaxIdle = 1
  Protocols = {"h1"}
  MaxAge = 0
  MayStop = FALSE
  None = None
SPECIFICATION Spec
SYMMETRY Symmetric
INVARIANT NotStranded

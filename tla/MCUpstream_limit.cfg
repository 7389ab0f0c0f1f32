CONSTANTS
  Callers = {c1, c2, c3}
  Keys = {k1}
  Conns = {x1, x2, x3}
  Channels = {d1, d2, d3}
  MaxH1 = 2
  IdleTimeout = 1
  MaxIdle = 1
  Protocols = {"h1"}
  MaxAge = 0
  MayStop = FALSE
  None = None
SPECIFICATION Spec
SYMMETRY Symmetric
INVARIANT WithinH1Limit

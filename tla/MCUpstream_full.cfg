CONSTANTS
  Callers = {c1, c2}
  Keys = {k1}
  Conns = {x1, x2}
  Channels = {d1, d2}
  MaxH1 = 2
  IdleTimeout = 1
  MaxIdle = 1
  Protocols = {"h1", "h2"}
  MaxAge = 1
  MayStop = TRUE
  None = None
SPECIFICATION Spec
SYMMETRY Symmetric
PROPERTIES IdleEvictionSparesLeases SingleFlightRefined

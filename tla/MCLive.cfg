\* Two callers on one connection; streams of two or three frames.
CONSTANTS
  Callers = {c1, c2}
  Keys = {k1}
  Conns = {x1, x2}
  Channels = {d1, d2}
  MaxH1 = 1
  IdleTimeout = 1
  MaxIdle = 1
  Protocols = {"h1", "h2"}
  MaxAge = 0
  MayStop = FALSE
  None = None
  WsCases <- MCWsCases
  Injects <- MCInjects
  MaxInjects = 1
  InjectRoom = 1
  AssemblyCap = 2
  BodyCap = 3
  Heads <- MCHeads
SPECIFICATION LiveSpec
INVARIANTS UpgradeIsFaithful
PROPERTIES EveryCallReturns RelayEnds

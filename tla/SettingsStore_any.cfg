SPECIFICATION Spec
CONSTANTS
  Ops = {o1, o2}
  Kinds = {"save", "models", "refresh", "apply", "start", "port", "restore"}
  Gateways = {g1, g2}
  Prefs = {p1, p2}
  Keys = {k1, k2}
  NoKey = NoKey
  NoModels = NoModels
  Absent = Absent
  Keep = Keep
  Unreadable = Unreadable
SYMMETRY Symmetry
INVARIANTS TokenAgrees CacheServesItsGateway EditInForce

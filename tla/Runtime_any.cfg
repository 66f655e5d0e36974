SPECIFICATION Spec
CONSTANTS
  Commands = {c1, c2, c3}
  Kinds = {"start", "stop", "uninstall", "purge"}
  Pids = {p1, p2}
  Ports = {q1, q2}
  MaxPolls = 2
  Faults = {"interrupt", "io", "miss", "nokill", "crash", "reboot"}
  Absent = Absent
  Empty = Empty
SYMMETRY Symmetry
INVARIANT Stoppable
PROPERTIES FailedStartLeavesNothing SuccessIsTrue

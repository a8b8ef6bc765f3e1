\* Two launches on one host, with signals, a full disk and crashes.
SPECIFICATION Spec
CONSTANTS
  Procs = {p1, p2}
  Clients = {}
  Commands = {"stop"}
  Configs = {"invalid", "api"}
  Events = {"signal", "disk", "kill"}
  None = None
SYMMETRY Symmetry
INVARIANTS OneCommandServer InstanceStaysReachable CleanHostAfterGracefulExits
PROPERTY SocketIsALock
CHECK_DEADLOCK FALSE

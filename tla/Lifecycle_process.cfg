\* One process, two command clients, requests that may never end, faults.
SPECIFICATION FairSpec
CONSTANTS
  Procs = {p1}
  Clients = {c1, c2}
  Commands = {"stop", "unknown"}
  Configs = {"noapi", "api"}
  Events = {"signal", "request", "bind", "accept"}
  None = None
INVARIANTS TypeOK OkMeansServersReturned
PROPERTIES StopOfServingExits StopClientAnswered
CHECK_DEADLOCK FALSE

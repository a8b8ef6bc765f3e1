---------------------------- MODULE InstanceLock ----------------------------
(***************************************************************************)
(* What the path of the command socket promises the processes of a host:   *)
(* it is a lock.  A live process takes it when it is free, only its live   *)
(* holder gives it back, and a holder that ends without giving it back     *)
(* keeps it for ever.  Lifecycle implements it.                            *)
(***************************************************************************)
CONSTANTS Procs, None

VARIABLES holder, ended

Init == holder = None /\ ended = {}

Acquire(p) ==
  /\ p \notin ended
  /\ holder = None
  /\ holder' = p
  /\ UNCHANGED ended

Release(p) ==
  /\ p \notin ended
  /\ holder = p
  /\ holder' = None
  /\ UNCHANGED ended

End(p) ==
  /\ p \notin ended
  /\ ended' = ended \cup {p}
  /\ UNCHANGED holder

Next == \E p \in Procs : Acquire(p) \/ Release(p) \/ End(p)

Spec == Init /\ [][Next]_<<holder, ended>>
=============================================================================

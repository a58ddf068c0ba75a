---------------------------- MODULE AtMostOnceRpc ----------------------------
(***************************************************************************)
(* What labrpc promises a caller: a call is executed at most once; it       *)
(* returns true only when it was executed; it may return false and be       *)
(* executed all the same, before or after it returned.                      *)
(***************************************************************************)
CONSTANT Calls

VARIABLES
  pending,     \* calls placed and not yet returned
  executed,    \* calls whose handler ran
  acked,       \* calls that returned true
  failed       \* calls that returned false

vars == <<pending, executed, acked, failed>>

Init == pending = {} /\ executed = {} /\ acked = {} /\ failed = {}

Place(c) ==
  /\ c \notin pending \cup acked \cup failed
  /\ pending' = pending \cup {c}
  /\ UNCHANGED <<executed, acked, failed>>

Execute(c) ==
  /\ c \in pending \cup failed
  /\ c \notin executed
  /\ executed' = executed \cup {c}
  /\ UNCHANGED <<pending, acked, failed>>

ReturnTrue(c) ==
  /\ c \in pending \cap executed
  /\ pending' = pending \ {c}
  /\ acked' = acked \cup {c}
  /\ UNCHANGED <<executed, failed>>

ReturnFalse(c) ==
  /\ c \in pending
  /\ pending' = pending \ {c}
  /\ failed' = failed \cup {c}
  /\ UNCHANGED <<executed, acked>>

Next == \E c \in Calls : Place(c) \/ Execute(c) \/ ReturnTrue(c) \/ ReturnFalse(c)

Spec == Init /\ [][Next]_vars
=============================================================================

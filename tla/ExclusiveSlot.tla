----------------------------- MODULE ExclusiveSlot -----------------------------
(***************************************************************************)
(* What a mountpoint promises its broadcasters, free of locks, readers and *)
(* close calls: at most one broadcaster is on the air, it gets there only  *)
(* when nobody is, and a connection that has been on the air once does not *)
(* come back after it has lost the slot.                                   *)
(***************************************************************************)
CONSTANTS Sources, None

VARIABLES
  holder,  \* the broadcaster on the air, or None
  served   \* every broadcaster that has been on the air

slot == <<holder, served>>

Init ==
  /\ holder = None
  /\ served = {}

Acquire(s) ==
  /\ holder = None
  /\ s \notin served
  /\ holder' = s
  /\ served' = served \cup {s}

Release ==
  /\ holder # None
  /\ holder' = None
  /\ UNCHANGED served

Next ==
  \/ \E s \in Sources : Acquire(s)
  \/ Release

Spec == Init /\ [][Next]_slot
===============================================================================

---------------------------- MODULE EngineMutex ----------------------------
(***************************************************************************)
(* What the engine lock (services/engine_lock_service.py) promises to its  *)
(* callers: one of them at a time works with the engine, until the         *)
(* database loses the connection that holds the lock.                      *)
(***************************************************************************)
CONSTANT Clients

VARIABLES
  inside,    \* the clients that work with the engine
  breached   \* a connection that held the lock was lost

Init == inside = {} /\ breached = FALSE

Enter(c) ==
  /\ c \notin inside
  /\ breached \/ inside = {}
  /\ inside' = inside \cup {c}
  /\ UNCHANGED breached

Leave(c) ==
  /\ c \in inside
  /\ inside' = inside \ {c}
  /\ UNCHANGED breached

Breach == breached' = TRUE /\ UNCHANGED inside

Next == Breach \/ \E c \in Clients : Enter(c) \/ Leave(c)

Spec == Init /\ [][Next]_<<inside, breached>>

=============================================================================

---------------------------- MODULE AtomicStore ----------------------------
(* What the persisted sync state promises the engine: memory moves ahead,    *)
(* and a restart brings back a state memory really held, no older than any   *)
(* restart before it could have brought back.  A state is its version, and   *)
(* version 0 is the empty state of a first run.                              *)
EXTENDS Naturals

VARIABLES mem,      \* the state in memory
          durable   \* the state a restart would load

Init == mem = 0 /\ durable = 0

Change  == mem' > mem /\ UNCHANGED durable
Commit  == durable' \in durable..mem /\ UNCHANGED mem
Restart == mem' = durable /\ UNCHANGED durable

Next == Change \/ Commit \/ Restart

Spec == Init /\ [][Next]_<<mem, durable>>
=============================================================================

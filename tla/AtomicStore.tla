----------------------------- MODULE AtomicStore -----------------------------
(***************************************************************************)
(* What the storage promises to its callers: saving a snapshot of the      *)
(* queue is atomic.  Each call takes effect at one instant between its     *)
(* start and its end, a success is never reported without it, and a crash  *)
(* loses the calls that have not ended but nothing that took effect.       *)
(***************************************************************************)
EXTENDS Naturals

CONSTANTS Calls, Versions

VARIABLES
  durable,   \* the version that a start of the application would load
  phase,     \* idle, called (not in effect yet) or committed
  version,   \* what each call saves
  acked      \* the versions that were reported as saved

vars == <<durable, phase, version, acked>>

Init ==
  /\ durable \in Versions
  /\ phase = [c \in Calls |-> "idle"]
  /\ version \in [Calls -> Versions]
  /\ acked = {}

Call(c, v) ==
  /\ phase[c] = "idle"
  /\ phase' = [phase EXCEPT ![c] = "called"]
  /\ version' = [version EXCEPT ![c] = v]
  /\ UNCHANGED <<durable, acked>>

Commit(c) ==
  /\ phase[c] = "called"
  /\ phase' = [phase EXCEPT ![c] = "committed"]
  /\ durable' = version[c]
  /\ UNCHANGED <<version, acked>>

Succeed(c) ==
  /\ phase[c] = "committed"
  /\ phase' = [phase EXCEPT ![c] = "idle"]
  /\ acked' = acked \cup {version[c]}
  /\ UNCHANGED <<durable, version>>

Fail(c) ==
  /\ phase[c] # "idle"
  /\ phase' = [phase EXCEPT ![c] = "idle"]
  /\ UNCHANGED <<durable, version, acked>>

Crash ==
  /\ phase' = [c \in Calls |-> "idle"]
  /\ UNCHANGED <<durable, version, acked>>

Next ==
  \/ \E c \in Calls :
       \/ \E v \in Versions : Call(c, v)
       \/ Commit(c) \/ Succeed(c) \/ Fail(c)
  \/ Crash

Spec == Init /\ [][Next]_vars
=============================================================================

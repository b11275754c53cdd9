------------------------------ MODULE MotorView ------------------------------
(***************************************************************************)
(* The M7's view of the motor: the state frames the Cortex-M4 publishes    *)
(* (app_m4/src/app_ipc.c), the cache the M7's endpoint callback keeps of   *)
(* the last one and the snapshots app_ipc_get_motor_state hands out with   *)
(* their age (app_m7/src/ipc/app_ipc.c).                                   *)
(*                                                                         *)
(* Time is the M7's true uptime in ticks; the code sees it modulo Wrap,    *)
(* which stands for the 2^32 ms of k_uptime_get_32.  The words of a frame  *)
(* cross the cache in one critical section and are left out.               *)
(***************************************************************************)
EXTENDS Integers

CONSTANTS
  Wrap,       \* the range of k_uptime_get_32
  Stale,      \* APP_IPC_MOTOR_STATE_STALE_MS
  Horizon     \* bound: the uptime the model follows

ASSUME ViewAssumption ==
  /\ Wrap \in Nat \ {0} /\ Wrap % 2 = 0
  /\ Stale \in Nat /\ Stale < Wrap \div 2
  /\ Horizon \in Nat /\ Horizon > Wrap

VARIABLES
  time,       \* the true uptime of the M7
  frame,      \* a state frame is in the shared memory
  cache,      \* motor_state_cache: valid, and the true time of age_ms
  told        \* the last snapshot handed out: valid, called stale, and, as
              \* history, the true age it had

viewVars == <<time, frame, cache, told>>

Uptime(t) == t % Wrap

NothingTold == [valid |-> FALSE, stale |-> TRUE, age |-> 0]

ViewInit ==
  /\ time = 0
  /\ frame = FALSE
  /\ cache = [valid |-> FALSE, at |-> 0]
  /\ told = NothingTold

\* app_ipc_publish_motor_state at the end of each iteration of the M4.  A send
\* that finds the channel full is given up, and so is the state.
Publish ==
  /\ ~frame
  /\ frame' = TRUE
  /\ UNCHANGED <<time, cache, told>>

\* endpoint_received of the M7, under motor_state_lock.
Receive ==
  /\ frame
  /\ frame' = FALSE
  /\ cache' = [valid |-> TRUE, at |-> time]
  /\ UNCHANGED <<time, told>>

\* Mutant of Age: a clock that has wrapped is taken for an age of 0.
AgeWithoutWrap(now, at) ==
  IF Uptime(now) >= Uptime(at) THEN Uptime(now) - Uptime(at) ELSE 0

Age(now, at) == (Uptime(now) - Uptime(at)) % Wrap

\* app_ipc_get_motor_state: the cache is copied under the lock, and the clock
\* read after it, a tick later when the reader was preempted.
Snapshot(now) ==
  [valid |-> cache.valid, age |-> IF cache.valid THEN now - cache.at ELSE 0,
   stale |-> ~cache.valid \/ Age(now, cache.at) > Stale]

\* json_motor_state, on the Web thread.
WebState(late) ==
  /\ told' = Snapshot(time + late)
  /\ UNCHANGED <<time, frame, cache>>

ViewStep == Publish \/ Receive \/ \E late \in {0, 1} : WebState(late)
=============================================================================

------------------------------ MODULE IpcPing ------------------------------
(***************************************************************************)
(* The PING / PONG exchange between the cores: app_ipc_ping and the PONG   *)
(* branch of the callback in app_m7/src/ipc/app_ipc.c, the PING branch of  *)
(* the callback and the tail of app_ipc_process in app_m4/src/app_ipc.c.   *)
(*                                                                         *)
(* The shared-memory channels keep the order, lose nothing, and refuse a   *)
(* frame when they are full.  Each of a callback's two stores is a step of *)
(* its own, so that the model does not depend on the thread icmsg runs its *)
(* callbacks in.                                                           *)
(***************************************************************************)
EXTENDS Naturals, Sequences, FiniteSets

CONSTANTS
  Callers,    \* the threads that ping
  MaxPings,   \* bound: the sequence numbers given out
  Room        \* the frames a channel holds

ASSUME PingAssumption ==
  /\ MaxPings \in Nat
  /\ Room \in Nat \ {0}

NoOne == "no one"
ASSUME NoOneAssumption == NoOne \notin Callers

VARIABLES
  call,       \* of each caller: where app_ipc_ping is, its sequence, its result
  lock,       \* ping_lock: the caller that holds it
  sem,        \* pong_sem
  received,   \* received_sequence
  next,       \* next_sequence
  giving,     \* the M7 callback stored received_sequence, not yet k_sem_give
  bound,      \* endpoint_is_bound of the M7
  toM4, toM7, \* the frames in the shared memory, by their sequence numbers
  m4,         \* pending_sequence, pending_ping and where the M4's two threads are
  ponged,     \* history: the sequences the M4 has answered
  unanswered  \* history: some ping has timed out

vars == <<call, lock, sem, received, next, giving, bound, toM4, toM7, m4,
          ponged, unanswered>>

Results == {"none", "ok", "ENOTCONN", "ENOBUFS", "ETIMEDOUT", "EBADMSG"}
Call ==
  [pc : {"idle", "lock", "number", "send", "wait", "check"},
   sequence : 0 .. MaxPings, result : Results]

M4 ==
  [sequence : 0 .. MaxPings, ping : BOOLEAN,
   storing : BOOLEAN,    \* the callback stored the sequence, not yet pending_ping
   answering : BOOLEAN]  \* app_ipc_process took pending_ping, not yet sent

Holding(c) == call[c].pc \in {"number", "send", "wait", "check"}

TypeOK ==
  /\ call \in [Callers -> Call]
  /\ \A c \in Callers : lock = c <=> Holding(c)
  /\ lock \in Callers \cup {NoOne}
  /\ sem \in 0 .. 1
  /\ received \in 0 .. MaxPings /\ next \in 0 .. MaxPings
  /\ giving \in BOOLEAN /\ bound \in BOOLEAN /\ unanswered \in BOOLEAN
  /\ Len(toM4) <= Room /\ Len(toM7) <= Room
  /\ m4 \in M4
  /\ ponged \subseteq 1 .. next

Init ==
  /\ call = [c \in Callers |-> [pc |-> "idle", sequence |-> 0, result |-> "none"]]
  /\ lock = NoOne
  /\ sem = 0 /\ received = 0 /\ next = 0
  /\ giving = FALSE /\ bound = FALSE
  /\ toM4 = << >> /\ toM7 = << >>
  /\ m4 = [sequence |-> 0, ping |-> FALSE, storing |-> FALSE, answering |-> FALSE]
  /\ ponged = {} /\ unanswered = FALSE

Goto(c, from, to) ==
  /\ call[c].pc = from
  /\ call' = [call EXCEPT ![c].pc = to]

\* Leaves app_ipc_ping, giving ping_lock back.
Answer(c, from, result) ==
  /\ call[c].pc = from
  /\ call' = [call EXCEPT ![c] = [pc |-> "idle", sequence |-> 0, result |-> result]]
  /\ lock' = NoOne

link == <<bound, toM4, toM7, m4, ponged>>

-----------------------------------------------------------------------------
PingCall(c) ==
  /\ next + Cardinality({d \in Callers : call[d].pc \in {"lock", "number"}}) < MaxPings
  /\ IF bound THEN Goto(c, "idle", "lock")
     ELSE /\ call[c].pc = "idle"
          /\ call' = [call EXCEPT ![c].result = "ENOTCONN"]
  /\ UNCHANGED <<lock, sem, received, next, giving, link, unanswered>>

\* k_mutex_lock, k_sem_reset.
PingLock(c) ==
  /\ Goto(c, "lock", "number")
  /\ lock = NoOne
  /\ lock' = c
  /\ sem' = 0
  /\ UNCHANGED <<received, next, giving, link, unanswered>>

PingNumber(c) ==
  /\ call[c].pc = "number"
  /\ call' = [call EXCEPT ![c].pc = "send", ![c].sequence = next + 1]
  /\ next' = next + 1
  /\ received' = 0
  /\ UNCHANGED <<lock, sem, giving, link, unanswered>>

PingSend(c) ==
  /\ Goto(c, "send", "wait")
  /\ Len(toM4) < Room
  /\ toM4' = Append(toM4, call[c].sequence)
  /\ UNCHANGED <<lock, sem, received, next, giving, bound, toM7, m4, ponged,
                 unanswered>>

\* The retries are used up, or the error is one that is not retried.
PingRefused(c) ==
  /\ Answer(c, "send", "ENOBUFS")
  /\ UNCHANGED <<sem, received, next, giving, link, unanswered>>

PingTake(c) ==
  /\ Goto(c, "wait", "check")
  /\ sem = 1
  /\ sem' = 0
  /\ UNCHANGED <<lock, received, next, giving, link, unanswered>>

\* Mutant of PingTimeout: the lock is not given back.
PingTimeoutKeepsLock(c) ==
  /\ Goto(c, "wait", "idle")
  /\ sem = 0
  /\ unanswered' = TRUE
  /\ UNCHANGED <<lock, sem, received, next, giving, link>>

PingTimeout(c) ==
  /\ Answer(c, "wait", "ETIMEDOUT")
  /\ sem = 0
  /\ unanswered' = TRUE
  /\ UNCHANGED <<sem, received, next, giving, link>>

\* Mutant of PingCheck: any PONG will do.
PingUnchecked(c) ==
  /\ Answer(c, "check", "ok")
  /\ UNCHANGED <<sem, received, next, giving, link, unanswered>>

PingCheck(c) ==
  /\ Answer(c, "check", IF received = call[c].sequence THEN "ok" ELSE "EBADMSG")
  /\ UNCHANGED <<sem, received, next, giving, link, unanswered>>

\* endpoint_received of the M7: received_sequence, then k_sem_give.
PongStore ==
  /\ ~giving /\ toM7 # << >>
  /\ received' = Head(toM7)
  /\ toM7' = Tail(toM7)
  /\ giving' = TRUE
  /\ UNCHANGED <<call, lock, sem, next, bound, toM4, m4, ponged, unanswered>>

PongGive ==
  /\ giving
  /\ giving' = FALSE
  /\ sem' = 1
  /\ UNCHANGED <<call, lock, received, next, link, unanswered>>

\* endpoint_bound_callback, once the handshake of the cores is over.
Bind ==
  /\ ~bound
  /\ bound' = TRUE
  /\ UNCHANGED <<call, lock, sem, received, next, giving, toM4, toM7, m4,
                 ponged, unanswered>>

m7 == <<call, lock, sem, received, next, giving, bound, unanswered>>

\* endpoint_received of the M4: pending_sequence, then pending_ping.
M4Store ==
  /\ ~m4.storing /\ toM4 # << >>
  /\ m4' = [m4 EXCEPT !.sequence = Head(toM4), !.storing = TRUE]
  /\ toM4' = Tail(toM4)
  /\ UNCHANGED <<m7, toM7, ponged>>

M4Mark ==
  /\ m4.storing
  /\ m4' = [m4 EXCEPT !.ping = TRUE, !.storing = FALSE]
  /\ UNCHANGED <<m7, toM4, toM7, ponged>>

\* Mutant of M4Take: pending_ping is read, not exchanged.
M4TakeKeepsPing ==
  /\ m4.ping /\ ~m4.answering
  /\ m4' = [m4 EXCEPT !.answering = TRUE]
  /\ UNCHANGED <<m7, toM4, toM7, ponged>>

\* app_ipc_process: the exchange of pending_ping.
M4Take ==
  /\ m4.ping /\ ~m4.answering
  /\ m4' = [m4 EXCEPT !.ping = FALSE, !.answering = TRUE]
  /\ UNCHANGED <<m7, toM4, toM7, ponged>>

\* The sequence is read only now.
M4Answer ==
  /\ m4.answering
  /\ Len(toM7) < Room
  /\ toM7' = Append(toM7, m4.sequence)
  /\ ponged' = ponged \cup {m4.sequence}
  /\ m4' = [m4 EXCEPT !.answering = FALSE]
  /\ UNCHANGED <<m7, toM4>>

\* The PONG is refused: the ping is put back for the next iteration.
M4Refused ==
  /\ m4.answering
  /\ m4' = [m4 EXCEPT !.ping = TRUE, !.answering = FALSE]
  /\ UNCHANGED <<m7, toM4, toM7, ponged>>

Caller(c) ==
  \/ PingNumber(c) \/ PingSend(c) \/ PingRefused(c)
  \/ PingTake(c) \/ PingTimeout(c) \/ PingCheck(c)

Next ==
  \/ \E c \in Callers : PingCall(c) \/ PingLock(c) \/ Caller(c)
  \/ PongStore \/ PongGive \/ Bind
  \/ M4Store \/ M4Mark \/ M4Take \/ M4Answer \/ M4Refused

Spec == Init /\ [][Next]_vars

\* The callers run, k_sem_take ends by its timeout, and ping_lock goes to each
\* thread that waits for it.  Nothing obliges the M4 to answer.
FairSpec ==
  Spec /\ \A c \in Callers : WF_vars(Caller(c)) /\ SF_vars(PingLock(c))

-----------------------------------------------------------------------------
(***************************************************************************)
(* A ping that succeeds was answered: the PONG it took is the M4's reply   *)
(* to this very PING, not the late reply to an earlier one.                *)
(***************************************************************************)
OkTakesItsOwnPong ==
  [][\A c \in Callers :
       call[c].pc = "check" /\ call'[c].result = "ok" /\ call'[c].pc = "idle"
         => call[c].sequence \in ponged]_vars

(***************************************************************************)
(* While every ping has been answered within its timeout none is refused   *)
(* as EBADMSG: neither core repeats or mixes up a PONG by itself.          *)
(***************************************************************************)
BadNeedsATimeout ==
  \A c \in Callers : call[c].result = "EBADMSG" => unanswered

(***************************************************************************)
(* Every app_ipc_ping returns, whatever the M4 does and whoever else pings.*)
(***************************************************************************)
PingsReturn == \A c \in Callers : call[c].pc # "idle" ~> call[c].pc = "idle"
=============================================================================

---------------------------- MODULE MotorGateway ----------------------------
(***************************************************************************)
(* How a motor command crosses the Cortex-M7: the register writes of the   *)
(* protocols (app_modbus_tcp.c, app_web.c, app_eip.c), the remote command  *)
(* and its periodic refresh (ipc/app_ipc.c), and the frame queued for the  *)
(* M4.                                                                     *)
(*                                                                         *)
(* Two mutexes guard the path: holding_regs_lock around the registers and  *)
(* remote_command_lock around remote_command.  A critical section that     *)
(* takes only one of them is one action, enabled when the mutex is free.   *)
(* The four places that take the second while they hold the first are two  *)
(* actions each: Commit/Submit, RefreshSend/RefreshPublish and             *)
(* ShellLocal/ShellPublish.                                                *)
(*                                                                         *)
(* The system workqueue runs one thing at a time: a request of the Modbus  *)
(* server or the refresh handler.  The Web, EtherNet/IP and shell threads  *)
(* are preempted anywhere.                                                 *)
(***************************************************************************)
EXTENDS Naturals, Sequences

CONSTANTS
  Outside,        \* the threads, other than the workqueue, that write registers
  Requests,       \* Requests[t]: the sequences of register writes t may ask for
  ShellCommands,  \* the "m4" shell commands in use
  Controls,       \* the control words
  Setpoints,      \* the duties; ramps and timeout, tested with them, are left out
  ValidSetpoints, \* those app_ipc_motor_submit accepts
  LeastSetpoint,  \* APP_MOTOR_COMMAND_DUTY_MIN_PERMILLE
  Stopped,        \* the control word 0
  Enabled,        \* APP_MOTOR_COMMAND_ENABLE
  Acknowledge,    \* ENABLE and RESET_FAULT
  SendMayFail     \* may ipc_service_send still refuse after its 20 retries

ASSUME GatewayAssumption ==
  /\ {"wq", "shell", "refresh", "free"} \cap Outside = {}
  /\ ValidSetpoints \subseteq Setpoints
  /\ LeastSetpoint \in ValidSetpoints
  /\ {Stopped, Enabled, Acknowledge} \subseteq Controls
  /\ ShellCommands \subseteq {"remote", "run", "duty", "local", "reset", "pause"}
  /\ SendMayFail \in BOOLEAN

Modes == {"local", "remote"}

\* A register write; writing 1 to REG12 is Apply.
Write(reg, value) == [reg |-> reg, value |-> value]
Apply == Write("apply", 1)

Writers == Outside \cup {"wq"}
Threads == Writers \cup {"shell"}
Free == "free"
NoCommand == [op |-> "none", control |-> Stopped, setpoint |-> LeastSetpoint]

\* Requests[t] lists the writes of a request, and a request applies last.
ASSUME RequestAssumption ==
  \A t \in Writers : \A r \in Requests[t] :
    /\ r \in Seq([reg : {"mode"}, value : Modes]
                 \cup [reg : {"control"}, value : Controls]
                 \cup [reg : {"setpoint"}, value : Setpoints]
                 \cup {Apply})
    /\ \A i \in DOMAIN r : r[i] = Apply => i = Len(r)

VARIABLES
  regs,     \* REG10, REG11, REG13..16 and REG17
  cmd,      \* remote_command
  timer,    \* remote_refresh_work: its timeout is armed, it waits on the queue
  lock,     \* the owners of the two mutexes
  at,       \* where each thread is
  todo,     \* what is left of the request each writer executes
  shell,    \* the arguments a shell command read before it took the mutex
  frame,    \* the last command queued for the M4, and who queued it
  refused   \* the last thing the link did was to refuse a command

vars == <<regs, cmd, timer, lock, at, todo, shell, frame, refused>>

\* A register command that is waiting for the second mutex holds the first;
\* a refresh or "m4 local" that publishes holds the second.
LockOrder ==
  /\ \A t \in Writers : at[t] = "submit" <=> lock["holding"] = t
  /\ \A t \in Threads : at[t] = "publish" <=> lock["remote"] = t
  /\ at["shell"] \in {"idle", "locking", "publish"}
  /\ \A t \in Writers \ {"wq"} : at[t] \in {"idle", "writing", "submit"}
  /\ at["wq"] # "locking"
  /\ lock["holding"] # "shell"
  /\ regs.status = "pending" <=> lock["holding"] # Free

Places == {"idle", "writing", "submit", "refresh", "publish", "locking"}

TypeOK ==
  /\ regs \in [mode : Modes, control : Controls, setpoint : Setpoints,
               status : {"ok", "pending", "error"}]
  /\ cmd \in [enabled : BOOLEAN, control : Controls, setpoint : Setpoints]
  /\ timer \in [armed : BOOLEAN, due : BOOLEAN]
  /\ lock \in [{"holding", "remote"} -> Threads \cup {Free}]
  /\ at \in [Threads -> Places]
  /\ shell \in [op : ShellCommands \cup {"none"}, control : Controls,
                setpoint : Setpoints]
  /\ frame \in [mode : Modes \cup {"none"}, control : Controls,
                setpoint : Setpoints, by : Threads \cup {"refresh"}]
  /\ refused \in BOOLEAN
  /\ LockOrder

Init ==
  /\ regs = [mode |-> "local", control |-> Stopped, setpoint |-> LeastSetpoint,
             status |-> "ok"]
  /\ cmd = [enabled |-> FALSE, control |-> Stopped, setpoint |-> LeastSetpoint]
  /\ timer = [armed |-> FALSE, due |-> FALSE]
  /\ lock = [l \in {"holding", "remote"} |-> Free]
  /\ at = [t \in Threads |-> "idle"]
  /\ todo = [t \in Writers |-> << >>]
  /\ shell = NoCommand
  /\ frame = [mode |-> "none", control |-> Stopped, setpoint |-> LeastSetpoint,
              by |-> "shell"]
  /\ refused = FALSE

-----------------------------------------------------------------------------
Goto(t, place) == at' = [at EXCEPT ![t] = place]

\* The end of a register request, and of a shell command.
Finish(t) == Goto(t, "idle")
Prompt == Goto("shell", "idle") /\ shell' = NoCommand

\* What ipc_service_send may answer.
SendResults == IF SendMayFail THEN BOOLEAN ELSE {TRUE}

\* send_remote_command_locked, with the command's fields and the mode it is given.
Send(sent, mode, c, who) ==
  /\ refused' = ~sent
  /\ frame' = IF sent
              THEN [mode |-> mode, control |-> c.control,
                    setpoint |-> c.setpoint, by |-> who]
              ELSE frame

\* k_work_reschedule and k_work_cancel_delayable.  Rescheduling leaves a work
\* that is already on the queue there; cancelling takes it off.
Rearm == timer' = [timer EXCEPT !.armed = TRUE]
Cancel == timer' = [armed |-> FALSE, due |-> FALSE]

-----------------------------------------------------------------------------
(***************************************************************************)
(* The writers: a Modbus request on the workqueue, a Web request, an       *)
(* EtherNet/IP output assembly.                                            *)
(***************************************************************************)
Begin(t, request) ==
  /\ at[t] = "idle"
  /\ todo' = [todo EXCEPT ![t] = request]
  /\ Goto(t, "writing")
  /\ UNCHANGED <<regs, cmd, timer, lock, shell, frame, refused>>

\* holding_reg_wr of a motor register: it is only prepared.
Prepare(t) ==
  /\ at[t] = "writing"
  /\ lock["holding"] = Free
  /\ todo[t] # << >> /\ Head(todo[t]) # Apply
  /\ regs' = [regs EXCEPT ![Head(todo[t]).reg] = Head(todo[t]).value]
  /\ todo' = [todo EXCEPT ![t] = Tail(todo[t])]
  /\ IF Len(todo[t]) = 1 THEN Finish(t) ELSE UNCHANGED at
  /\ UNCHANGED <<cmd, timer, lock, shell, frame, refused>>

\* Mutant of Commit: the bounds are not tested.
CommitUnchecked(t) ==
  /\ at[t] = "writing"
  /\ lock["holding"] = Free
  /\ todo[t] # << >> /\ Head(todo[t]) = Apply
  /\ todo' = [todo EXCEPT ![t] = << >>]
  /\ regs' = [regs EXCEPT !.status = "pending"]
  /\ lock' = [lock EXCEPT !["holding"] = t]
  /\ Goto(t, "submit")
  /\ UNCHANGED <<cmd, timer, shell, frame, refused>>

\* holding_reg_wr of REG12 up to the second mutex; a command out of bounds is
\* refused before it.
Commit(t) ==
  /\ at[t] = "writing"
  /\ lock["holding"] = Free
  /\ todo[t] # << >> /\ Head(todo[t]) = Apply
  /\ todo' = [todo EXCEPT ![t] = << >>]
  /\ IF regs.setpoint \in ValidSetpoints
     THEN /\ regs' = [regs EXCEPT !.status = "pending"]
          /\ lock' = [lock EXCEPT !["holding"] = t]
          /\ Goto(t, "submit")
     ELSE /\ regs' = [regs EXCEPT !.status = "error"]
          /\ Finish(t)
          /\ UNCHANGED lock
  /\ UNCHANGED <<cmd, timer, shell, frame, refused>>

\* Mutant of Submit: the command is stored after it was sent.
SubmitStoresLate(t, sent) ==
  LET new == [enabled |-> regs.mode = "remote", control |-> regs.control,
              setpoint |-> regs.setpoint]
  IN  /\ at[t] = "submit"
      /\ lock["remote"] = Free
      /\ cmd' = new
      /\ Send(sent, regs.mode, cmd, t)
      /\ IF ~sent THEN UNCHANGED timer
         ELSE IF regs.mode = "remote" THEN Rearm ELSE Cancel
      /\ regs' = [regs EXCEPT !.status = IF sent THEN "ok" ELSE "error"]
      /\ lock' = [lock EXCEPT !["holding"] = Free]
      /\ Finish(t)
      /\ UNCHANGED <<todo, shell>>

\* app_ipc_motor_submit under its mutex, then the rest of holding_reg_wr.
Submit(t, sent) ==
  LET new == [enabled |-> regs.mode = "remote", control |-> regs.control,
              setpoint |-> regs.setpoint]
  IN  /\ at[t] = "submit"
      /\ lock["remote"] = Free
      /\ cmd' = new
      /\ Send(sent, regs.mode, new, t)
      /\ IF ~sent THEN UNCHANGED timer
         ELSE IF regs.mode = "remote" THEN Rearm ELSE Cancel
      /\ regs' = [regs EXCEPT !.status = IF sent THEN "ok" ELSE "error"]
      /\ lock' = [lock EXCEPT !["holding"] = Free]
      /\ Finish(t)
      /\ UNCHANGED <<todo, shell>>

-----------------------------------------------------------------------------
(***************************************************************************)
(* The refresh.                                                            *)
(***************************************************************************)
Expire ==
  /\ timer.armed
  /\ timer' = [armed |-> FALSE, due |-> TRUE]
  /\ UNCHANGED <<regs, cmd, lock, at, todo, shell, frame, refused>>

RefreshBegin ==
  /\ timer.due /\ at["wq"] = "idle"
  /\ timer' = [timer EXCEPT !.due = FALSE]
  /\ Goto("wq", "refresh")
  /\ UNCHANGED <<regs, cmd, lock, todo, shell, frame, refused>>

\* The command may have been withdrawn while the handler waited.
RefreshWithdrawn ==
  /\ at["wq"] = "refresh"
  /\ lock["remote"] = Free
  /\ ~cmd.enabled
  /\ Goto("wq", "idle")
  /\ UNCHANGED <<regs, cmd, timer, lock, todo, shell, frame, refused>>

\* Mutant of RefreshSend: enabled is not looked at again under the mutex.
RefreshSendUnchecked(sent) ==
  /\ at["wq"] = "refresh"
  /\ lock["remote"] = Free
  /\ Send(sent, "remote", cmd, "refresh")
  /\ lock' = [lock EXCEPT !["remote"] = IF sent THEN "wq" ELSE Free]
  /\ Goto("wq", IF sent THEN "publish" ELSE "idle")
  /\ UNCHANGED <<regs, cmd, timer, todo, shell>>

\* A refused send ends the chain of refreshes: nothing reschedules it.
RefreshSend(sent) ==
  /\ at["wq"] = "refresh"
  /\ lock["remote"] = Free
  /\ cmd.enabled
  /\ Send(sent, "remote", cmd, "refresh")
  /\ lock' = [lock EXCEPT !["remote"] = IF sent THEN "wq" ELSE Free]
  /\ Goto("wq", IF sent THEN "publish" ELSE "idle")
  /\ UNCHANGED <<regs, cmd, timer, todo, shell>>

\* Mutant of RefreshPublish: the work is not rescheduled.
RefreshPublishOnce ==
  /\ at["wq"] = "publish"
  /\ lock["holding"] = Free
  /\ regs' = [regs EXCEPT !.mode = "remote"]
  /\ lock' = [lock EXCEPT !["remote"] = Free]
  /\ Goto("wq", "idle")
  /\ UNCHANGED <<cmd, timer, todo, shell, frame, refused>>

\* app_modbus_tcp_motor_set_mode(true), under both mutexes.
RefreshPublish ==
  /\ at["wq"] = "publish"
  /\ lock["holding"] = Free
  /\ regs' = [regs EXCEPT !.mode = "remote"]
  /\ Rearm
  /\ lock' = [lock EXCEPT !["remote"] = Free]
  /\ Goto("wq", "idle")
  /\ UNCHANGED <<cmd, todo, shell, frame, refused>>

-----------------------------------------------------------------------------
(***************************************************************************)
(* The "m4" shell commands.  Those that keep a part of the command read it *)
(* before they take the mutex.                                             *)
(***************************************************************************)
ShellBegin(op, control, setpoint) ==
  /\ at["shell"] = "idle"
  /\ shell' = [op |-> op,
               control |-> CASE op = "remote" -> Enabled
                             [] op = "run" -> control
                             [] op = "duty" -> cmd.control
                             [] OTHER -> Stopped,
               setpoint |-> CASE op = "run" -> cmd.setpoint
                              [] op = "duty" -> setpoint
                              [] OTHER -> LeastSetpoint]
  /\ Goto("shell", "locking")
  /\ UNCHANGED <<regs, cmd, timer, lock, todo, frame, refused>>

\* remote_command_update refuses to act on a motor that is not remote.
ShellRefused ==
  /\ at["shell"] = "locking" /\ shell.op \in {"run", "duty"}
  /\ lock["remote"] = Free
  /\ ~cmd.enabled
  /\ Prompt
  /\ UNCHANGED <<regs, cmd, timer, lock, todo, frame, refused>>

\* remote_command_update: m4 remote, start, stop, quickstop, forward, reverse, duty.
ShellUpdate(sent) ==
  LET new == [enabled |-> TRUE, control |-> shell.control,
              setpoint |-> shell.setpoint]
  IN  /\ at["shell"] = "locking" /\ shell.op \in {"remote", "run", "duty"}
      /\ lock["remote"] = Free
      /\ cmd.enabled \/ shell.op = "remote"
      /\ cmd' = new
      /\ Send(sent, "remote", new, "shell")
      /\ IF sent THEN Rearm ELSE UNCHANGED timer
      /\ Prompt
      /\ UNCHANGED <<regs, lock, todo>>

\* remote_command_reset.
ShellReset(sent) ==
  LET new == [cmd EXCEPT !.control = Acknowledge]
  IN  /\ at["shell"] = "locking" /\ shell.op = "reset"
      /\ lock["remote"] = Free
      /\ cmd' = new
      /\ Send(sent, IF cmd.enabled THEN "remote" ELSE "local", new, "shell")
      /\ IF sent /\ cmd.enabled THEN Rearm ELSE UNCHANGED timer
      /\ Prompt
      /\ UNCHANGED <<regs, lock, todo>>

\* remote_command_disable up to the second mutex.
ShellLocal(sent) ==
  /\ at["shell"] = "locking" /\ shell.op = "local"
  /\ lock["remote"] = Free
  /\ Send(sent, "local", cmd, "shell")
  /\ lock' = [lock EXCEPT !["remote"] = IF sent THEN "shell" ELSE Free]
  /\ IF sent THEN Goto("shell", "publish") /\ UNCHANGED shell ELSE Prompt
  /\ UNCHANGED <<regs, cmd, timer, todo>>

ShellPublish ==
  /\ at["shell"] = "publish"
  /\ lock["holding"] = Free
  /\ regs' = [regs EXCEPT !.mode = "local"]
  /\ cmd' = [cmd EXCEPT !.enabled = FALSE, !.control = Stopped]
  /\ Cancel
  /\ lock' = [lock EXCEPT !["remote"] = Free]
  /\ Prompt
  /\ UNCHANGED <<todo, frame, refused>>

\* m4 pause: the M4 is left to its timeout.
ShellPause ==
  /\ at["shell"] = "locking" /\ shell.op = "pause"
  /\ lock["remote"] = Free
  /\ cmd' = [cmd EXCEPT !.enabled = FALSE]
  /\ Cancel
  /\ Prompt
  /\ UNCHANGED <<regs, lock, todo, frame, refused>>

-----------------------------------------------------------------------------
Ask ==
  \/ \E t \in Writers : \E r \in Requests[t] : Begin(t, r)
  \/ \E op \in ShellCommands, c \in Controls, s \in ValidSetpoints :
        ShellBegin(op, c, s)

WriterStep(t) ==
  \/ Prepare(t)
  \/ Commit(t)
  \/ \E sent \in SendResults : Submit(t, sent)

RefreshStep ==
  \/ RefreshWithdrawn
  \/ \E sent \in SendResults : RefreshSend(sent)
  \/ RefreshPublish

ShellStep ==
  \/ ShellRefused
  \/ \E sent \in SendResults :
        ShellUpdate(sent) \/ ShellReset(sent) \/ ShellLocal(sent)
  \/ ShellPublish
  \/ ShellPause

Next ==
  \/ Ask
  \/ \E t \in Writers : WriterStep(t)
  \/ Expire
  \/ RefreshBegin
  \/ RefreshStep
  \/ ShellStep

Spec == Init /\ [][Next]_vars

\* Nobody is obliged to ask.  Fairness is strong where a thread waits for a
\* mutex, which k_mutex_unlock hands to a waiter, and where a work waits for
\* its turn in the queue, which is served in order.
FairSpec ==
  /\ Spec
  /\ \A t \in Writers : SF_vars(WriterStep(t))
  /\ WF_vars(Expire) /\ SF_vars(RefreshBegin) /\ SF_vars(RefreshStep)
  /\ SF_vars(ShellStep)

-----------------------------------------------------------------------------
(***************************************************************************)
(* Once the M4 was told to go local, only a new request makes it remote    *)
(* again: a refresh that was armed, queued or waiting for the mutex when   *)
(* the local command went out is not sent after it.  A refresh does send   *)
(* the request the link has refused in the meantime.                       *)
(***************************************************************************)
RefreshNeverRevokesLocal ==
  [][frame.mode = "local" /\ frame'.mode = "remote"
       => frame'.by # "refresh" \/ refused]_vars

(***************************************************************************)
(* Whoever asks last and whatever the interleaving, the command being      *)
(* refreshed is the last one queued for the M4, unless the link refused    *)
(* it.  Whether the M4 accepts it is a matter of MotorSystem.              *)
(***************************************************************************)
RefreshedCommandIsHeld ==
  cmd.enabled /\ lock["remote"] = Free /\ ~refused =>
    /\ frame.mode = "remote"
    /\ frame.control = cmd.control /\ frame.setpoint = cmd.setpoint

(***************************************************************************)
(* The M7 never queues a command it has itself found out of bounds, by     *)
(* refresh or otherwise: what one writer prepared and was refused cannot   *)
(* leave on another one's APPLY, nor on a shell command.                   *)
(***************************************************************************)
OnlyValidSetpointsLeave ==
  frame.setpoint \in ValidSetpoints /\ cmd.setpoint \in ValidSetpoints

(***************************************************************************)
(* A remote command in force has its next refresh on its way, unless the   *)
(* link refused the last send: no cancellation of a withdrawn command      *)
(* takes the refresh of the command that replaced it.  (A refused send     *)
(* leaves the command enabled and unrefreshed until somebody asks again.)  *)
(***************************************************************************)
RefreshIsArmed ==
  cmd.enabled /\ lock["remote"] = Free /\ ~refused
    => timer.armed \/ timer.due \/ at["wq"] = "refresh"

-----------------------------------------------------------------------------
(***************************************************************************)
(* DES04_IPC.md promises PLC polling that never blocks Modbus, EtherNet/IP *)
(* or HTTP: whoever holds the holding registers gives them back.           *)
(***************************************************************************)
HoldingRegistersComeBack ==
  lock["holding"] # Free ~> lock["holding"] = Free
=============================================================================

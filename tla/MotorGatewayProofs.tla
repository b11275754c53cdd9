------------------------ MODULE MotorGatewayProofs ------------------------
(***************************************************************************)
(* The command path of the M7 for any protocols, requests and setpoints:   *)
(* the command being refreshed is the last one queued for the M4, its next *)
(* is on its way, only valid setpoints leave, and no refresh revokes a     *)
(* local command.                                                          *)
(***************************************************************************)
EXTENDS MotorGateway, TLAPS

USE GatewayAssumption

Register ==
  [reg : {"mode"}, value : Modes]
    \cup [reg : {"control"}, value : Controls]
    \cup [reg : {"setpoint"}, value : Setpoints]
    \cup {Apply}

Command == [enabled : BOOLEAN, control : Controls, setpoint : Setpoints]
Frame == [mode : Modes \cup {"none"}, control : Controls,
          setpoint : Setpoints, by : Threads \cup {"refresh"}]
Argument == [op : ShellCommands \cup {"none"}, control : Controls,
             setpoint : Setpoints]

\* What is left of a request is made of register writes.
TodoOK == todo \in [Writers -> Seq(Register)]

\* The last frame is the command in force, and the link took it.
Held ==
  /\ ~refused
  /\ frame.mode = "remote"
  /\ frame.control = cmd.control /\ frame.setpoint = cmd.setpoint

\* Every setpoint past the test of the APPLY is valid: that of a writer that
\* waits for the second mutex, that of a shell command, the command's, the frame's.
Checked ==
  /\ lock["holding"] # Free => regs.setpoint \in ValidSetpoints
  /\ shell.setpoint \in ValidSetpoints
  /\ OnlyValidSetpointsLeave

\* A refresh that was sent and is not yet published still holds its mutex, so
\* nothing has replaced what it sent.
Publishing == lock["remote"] = "wq" => cmd.enabled /\ Held

GatewayInv ==
  /\ TypeOK
  /\ TodoOK
  /\ Checked
  /\ Publishing
  /\ RefreshedCommandIsHeld
  /\ RefreshIsArmed

-----------------------------------------------------------------------------
LEMMA GatewayInit == Init => GatewayInv
<1> SUFFICES ASSUME Init
             PROVE  GatewayInv
  OBVIOUS
<1>1. TypeOK
  <2>1. LockOrder
    BY DEF Init, LockOrder, Threads, Writers, Free
  <2>2. /\ regs \in [mode : Modes, control : Controls, setpoint : Setpoints,
                    status : {"ok", "pending", "error"}]
        /\ cmd \in [enabled : BOOLEAN, control : Controls, setpoint : Setpoints]
        /\ timer \in [armed : BOOLEAN, due : BOOLEAN]
        /\ shell \in [op : ShellCommands \cup {"none"}, control : Controls,
                     setpoint : Setpoints]
        /\ frame \in [mode : Modes \cup {"none"}, control : Controls,
                     setpoint : Setpoints, by : Threads \cup {"refresh"}]
    BY DEF Init, Modes, NoCommand, Threads
  <2>3. lock \in [{"holding", "remote"} -> Threads \cup {Free}]
    BY DEF Init
  <2>4. at \in [Threads -> Places]
    BY DEF Init, Places
  <2> QED  BY <2>1, <2>2, <2>3, <2>4 DEF TypeOK, Init
<1>2. TodoOK
  BY DEF Init, TodoOK
<1>3. Checked
  BY DEF Init, Checked, OnlyValidSetpointsLeave, NoCommand
<1>4. Publishing /\ RefreshedCommandIsHeld /\ RefreshIsArmed
  BY DEF Init, Publishing, RefreshedCommandIsHeld, RefreshIsArmed, Free
<1> QED  BY <1>1, <1>2, <1>3, <1>4 DEF GatewayInv

-----------------------------------------------------------------------------
(***************************************************************************)
(* Type correctness, with the places a thread takes as it takes and        *)
(* returns a mutex.                                                        *)
(***************************************************************************)
LEMMA AskKeepsTypes ==
  ASSUME TypeOK, TodoOK, Ask
  PROVE  TypeOK' /\ TodoOK'
<1>1. ASSUME NEW t \in Writers, NEW r \in Requests[t], Begin(t, r)
      PROVE  TypeOK' /\ TodoOK'
  <2>1. r \in Seq(Register)
    BY RequestAssumption DEF Register
  <2>2. TodoOK'
    BY <1>1, <2>1 DEF Begin, TodoOK
  <2>3. at' \in [Threads -> Places]
    BY <1>1 DEF Begin, Goto, TypeOK, Places
  <2>4. LockOrder'
    BY <1>1 DEF Begin, Goto, TypeOK, LockOrder, Threads, Writers
  <2> QED  BY <1>1, <2>2, <2>3, <2>4 DEF Begin, TypeOK
<1>2. ASSUME NEW op \in ShellCommands, NEW c \in Controls,
             NEW s \in ValidSetpoints, ShellBegin(op, c, s)
      PROVE  TypeOK' /\ TodoOK'
  <2>1. shell' \in [op : ShellCommands \cup {"none"}, control : Controls,
                   setpoint : Setpoints]
    <3> DEFINE control == CASE op = "remote" -> Enabled
                            [] op = "run" -> c
                            [] op = "duty" -> cmd.control
                            [] OTHER -> Stopped
               setpoint == CASE op = "run" -> cmd.setpoint
                             [] op = "duty" -> s
                             [] OTHER -> LeastSetpoint
    <3>1. cmd.control \in Controls /\ cmd.setpoint \in Setpoints
      BY DEF TypeOK
    <3>2. control \in Controls
      BY <3>1
    <3>3. setpoint \in Setpoints
      BY <3>1
    <3>4. shell' = [op |-> op, control |-> control, setpoint |-> setpoint]
      BY <1>2 DEF ShellBegin
    <3> HIDE DEF control, setpoint
    <3> QED  BY <3>2, <3>3, <3>4
  <2>2. at' \in [Threads -> Places]
    BY <1>2 DEF ShellBegin, Goto, TypeOK, Places
  <2>3. LockOrder'
    BY <1>2 DEF ShellBegin, Goto, TypeOK, LockOrder, Threads, Writers
  <2> QED  BY <1>2, <2>1, <2>2, <2>3 DEF ShellBegin, TypeOK, TodoOK
<1> QED  BY <1>1, <1>2 DEF Ask

LEMMA PrepareKeepsTypes ==
  ASSUME TypeOK, TodoOK, NEW t \in Writers, Prepare(t)
  PROVE  TypeOK' /\ TodoOK'
<1>1. Head(todo[t]) \in Register /\ Tail(todo[t]) \in Seq(Register)
  BY DEF Prepare, TodoOK
<1>2. TodoOK'
  BY <1>1 DEF Prepare, TodoOK
<1>3. regs' \in [mode : Modes, control : Controls, setpoint : Setpoints,
                status : {"ok", "pending", "error"}]
  BY <1>1 DEF Prepare, TypeOK, Register, Modes
<1>4. regs'.status = regs.status
  BY <1>1 DEF Prepare, TypeOK, Register
<1>5. at' = at \/ at' = [at EXCEPT ![t] = "idle"]
  BY DEF Prepare, Finish, Goto
<1>6. at' \in [Threads -> Places]
  BY <1>5 DEF TypeOK, Places
<1>7. LockOrder'
  BY <1>4, <1>5 DEF Prepare, TypeOK, LockOrder, Threads, Writers
<1> QED  BY <1>2, <1>3, <1>6, <1>7 DEF Prepare, TypeOK

LEMMA CommitKeepsTypes ==
  ASSUME TypeOK, TodoOK, NEW t \in Writers, Commit(t)
  PROVE  TypeOK' /\ TodoOK'
<1>1. TodoOK'
  BY DEF Commit, TodoOK
<1>2. CASE regs.setpoint \in ValidSetpoints
  <2>1. /\ regs' = [regs EXCEPT !.status = "pending"]
        /\ lock' = [lock EXCEPT !["holding"] = t]
        /\ at' = [at EXCEPT ![t] = "submit"]
    BY <1>2 DEF Commit, Goto
  <2>2. regs' \in [mode : Modes, control : Controls, setpoint : Setpoints,
                  status : {"ok", "pending", "error"}]
    BY <2>1 DEF TypeOK
  <2>3. lock' \in [{"holding", "remote"} -> Threads \cup {Free}]
    BY <2>1 DEF TypeOK, Threads
  <2>4. at' \in [Threads -> Places]
    BY <2>1 DEF TypeOK, Places
  <2>5. LockOrder'
    BY <2>1 DEF Commit, TypeOK, LockOrder, Threads, Writers, Free
  <2> QED  BY <1>1, <2>2, <2>3, <2>4, <2>5 DEF Commit, TypeOK
<1>3. CASE regs.setpoint \notin ValidSetpoints
  <2>1. /\ regs' = [regs EXCEPT !.status = "error"]
        /\ lock' = lock
        /\ at' = [at EXCEPT ![t] = "idle"]
    BY <1>3 DEF Commit, Finish, Goto
  <2>2. regs' \in [mode : Modes, control : Controls, setpoint : Setpoints,
                  status : {"ok", "pending", "error"}]
    BY <2>1 DEF TypeOK
  <2>3. at' \in [Threads -> Places]
    BY <2>1 DEF TypeOK, Places
  <2>4. LockOrder'
    BY <2>1 DEF Commit, TypeOK, LockOrder, Threads, Writers, Free
  <2> QED  BY <1>1, <2>1, <2>2, <2>3, <2>4 DEF Commit, TypeOK
<1> QED  BY <1>2, <1>3

\* What Send leaves in the frame, given a command it may send.
LEMMA SendTypes ==
  ASSUME TypeOK, NEW sent \in BOOLEAN, NEW mode \in Modes, NEW c \in Command,
         NEW who \in Threads \cup {"refresh"}, Send(sent, mode, c, who)
  PROVE  frame' \in Frame /\ refused' \in BOOLEAN
BY DEF Send, TypeOK, Frame, Command

LEMMA SendResultsTypes == SendResults \subseteq BOOLEAN
BY DEF SendResults

LEMMA SubmitKeepsTypes ==
  ASSUME TypeOK, TodoOK, NEW t \in Writers, NEW sent \in BOOLEAN, Submit(t, sent)
  PROVE  TypeOK' /\ TodoOK'
<1> DEFINE new == [enabled |-> regs.mode = "remote", control |-> regs.control,
                   setpoint |-> regs.setpoint]
<1>1. new \in Command
  BY DEF TypeOK, Command
<1>2. cmd' = new /\ Send(sent, regs.mode, new, t)
  BY DEF Submit
<1> HIDE DEF new
<1>3. regs.mode \in Modes
  BY DEF TypeOK
<1>4. t \in Threads \cup {"refresh"}
  BY DEF Threads
<1>5. frame' \in Frame /\ refused' \in BOOLEAN
  BY <1>1, <1>2, <1>3, <1>4, SendTypes
<1>6. timer' \in [armed : BOOLEAN, due : BOOLEAN]
  <2>1. UNCHANGED timer \/ Rearm \/ Cancel
    BY DEF Submit
  <2>2. timer \in [armed : BOOLEAN, due : BOOLEAN]
    BY DEF TypeOK
  <2>3. CASE UNCHANGED timer \/ Rearm
    BY <2>2, <2>3 DEF Rearm
  <2>4. CASE Cancel
    BY <2>4 DEF Cancel
  <2> QED  BY <2>1, <2>3, <2>4
<1>7. /\ regs' = [regs EXCEPT !.status = IF sent THEN "ok" ELSE "error"]
      /\ lock' = [lock EXCEPT !["holding"] = Free]
      /\ at' = [at EXCEPT ![t] = "idle"]
      /\ UNCHANGED <<todo, shell>>
  BY DEF Submit, Finish, Goto
<1>8. regs' \in [mode : Modes, control : Controls, setpoint : Setpoints,
                status : {"ok", "pending", "error"}]
  BY <1>7 DEF TypeOK
<1>9. lock' \in [{"holding", "remote"} -> Threads \cup {Free}]
  BY <1>7 DEF TypeOK
<1>10. at' \in [Threads -> Places]
  BY <1>7 DEF TypeOK, Places
<1>11. LockOrder'
  BY <1>7 DEF Submit, TypeOK, LockOrder, Threads, Writers, Free
<1> QED  BY <1>1, <1>2, <1>5, <1>6, <1>7, <1>8, <1>9, <1>10, <1>11
         DEF TypeOK, TodoOK, Frame, Command

LEMMA RefreshKeepsTypes ==
  ASSUME TypeOK, TodoOK, Expire \/ RefreshBegin \/ RefreshStep
  PROVE  TypeOK' /\ TodoOK'
<1>1. CASE Expire
  BY <1>1 DEF Expire, TypeOK, LockOrder, TodoOK
<1>2. CASE RefreshBegin
  <2>1. at' \in [Threads -> Places]
    BY <1>2 DEF RefreshBegin, Goto, TypeOK, Places
  <2>2. LockOrder'
    BY <1>2 DEF RefreshBegin, Goto, TypeOK, LockOrder, Threads, Writers
  <2> QED  BY <1>2, <2>1, <2>2 DEF RefreshBegin, TypeOK, TodoOK
<1>3. CASE RefreshWithdrawn
  <2>1. at' \in [Threads -> Places]
    BY <1>3 DEF RefreshWithdrawn, Goto, TypeOK, Places
  <2>2. LockOrder'
    BY <1>3 DEF RefreshWithdrawn, Goto, TypeOK, LockOrder, Threads, Writers
  <2> QED  BY <1>3, <2>1, <2>2 DEF RefreshWithdrawn, TypeOK, TodoOK
<1>4. ASSUME NEW sent \in BOOLEAN, RefreshSend(sent)
      PROVE  TypeOK' /\ TodoOK'
  <2>1. cmd \in Command
    BY DEF TypeOK, Command
  <2>2. frame' \in Frame /\ refused' \in BOOLEAN
    BY <1>4, <2>1, SendTypes DEF RefreshSend, Modes
  <2>3. at' \in [Threads -> Places]
    BY <1>4 DEF RefreshSend, Goto, TypeOK, Places
  <2>4. lock' \in [{"holding", "remote"} -> Threads \cup {Free}]
    BY <1>4 DEF RefreshSend, TypeOK, Threads, Writers
  <2>5. LockOrder'
    BY <1>4 DEF RefreshSend, Goto, TypeOK, LockOrder, Threads, Writers, Free
  <2> QED  BY <1>4, <2>2, <2>3, <2>4, <2>5 DEF RefreshSend, TypeOK, TodoOK, Frame
<1>5. CASE RefreshPublish
  <2>1. at' \in [Threads -> Places]
    BY <1>5 DEF RefreshPublish, Goto, TypeOK, Places
  <2>2. lock' \in [{"holding", "remote"} -> Threads \cup {Free}]
    BY <1>5 DEF RefreshPublish, TypeOK
  <2>3. LockOrder'
    BY <1>5 DEF RefreshPublish, Goto, TypeOK, LockOrder, Threads, Writers, Free
  <2>4. regs' \in [mode : Modes, control : Controls, setpoint : Setpoints,
                  status : {"ok", "pending", "error"}]
    BY <1>5 DEF RefreshPublish, TypeOK, Modes
  <2>5. timer' \in [armed : BOOLEAN, due : BOOLEAN]
    BY <1>5 DEF RefreshPublish, Rearm, TypeOK
  <2> QED  BY <1>5, <2>1, <2>2, <2>3, <2>4, <2>5 DEF RefreshPublish, TypeOK, TodoOK
<1> QED  BY <1>1, <1>2, <1>3, <1>4, <1>5, SendResultsTypes DEF RefreshStep

\* A shell command that returns, or goes on to publish.
LEMMA PromptKeepsTypes ==
  ASSUME TypeOK, Prompt, UNCHANGED <<regs, lock, todo>>, at["shell"] = "locking"
  PROVE  /\ at' \in [Threads -> Places] /\ LockOrder'
         /\ shell' \in Argument
<1>1. at' \in [Threads -> Places]
  BY DEF Prompt, Goto, TypeOK, Places
<1>2. LockOrder'
  BY DEF Prompt, Goto, TypeOK, LockOrder, Threads, Writers
<1>3. shell' \in Argument
  BY DEF Prompt, NoCommand, Argument
<1> QED  BY <1>1, <1>2, <1>3

LEMMA ShellKeepsTypes ==
  ASSUME TypeOK, TodoOK, ShellStep
  PROVE  TypeOK' /\ TodoOK'
<1> DEFINE Settled == /\ at' \in [Threads -> Places] /\ LockOrder'
                      /\ shell' \in Argument
<1>1. CASE ShellRefused
  <2>1. Settled
    BY <1>1, PromptKeepsTypes DEF ShellRefused
  <2> QED  BY <1>1, <2>1 DEF ShellRefused, TypeOK, TodoOK, Argument
<1>2. ASSUME NEW sent \in BOOLEAN, ShellUpdate(sent)
      PROVE  TypeOK' /\ TodoOK'
  <2> DEFINE new == [enabled |-> TRUE, control |-> shell.control,
                     setpoint |-> shell.setpoint]
  <2>1. Settled
    BY <1>2, PromptKeepsTypes DEF ShellUpdate
  <2>2. new \in Command
    BY DEF TypeOK, Command
  <2>3. cmd' = new /\ Send(sent, "remote", new, "shell")
    BY <1>2 DEF ShellUpdate
  <2> HIDE DEF new
  <2>4. frame' \in Frame /\ refused' \in BOOLEAN
    BY <2>2, <2>3, SendTypes DEF Modes, Threads
  <2>5. timer' \in [armed : BOOLEAN, due : BOOLEAN]
    <3>1. UNCHANGED timer \/ Rearm
      BY <1>2 DEF ShellUpdate
    <3> QED  BY <3>1 DEF Rearm, TypeOK
  <2> QED  BY <1>2, <2>1, <2>2, <2>3, <2>4, <2>5
           DEF ShellUpdate, TypeOK, TodoOK, Argument, Frame, Command
<1>3. ASSUME NEW sent \in BOOLEAN, ShellReset(sent)
      PROVE  TypeOK' /\ TodoOK'
  <2> DEFINE new == [cmd EXCEPT !.control = Acknowledge]
             mode == IF cmd.enabled THEN "remote" ELSE "local"
  <2>1. Settled
    BY <1>3, PromptKeepsTypes DEF ShellReset
  <2>2. new \in Command
    BY DEF TypeOK, Command
  <2>3. mode \in Modes
    BY DEF Modes
  <2>4. cmd' = new /\ Send(sent, mode, new, "shell")
    BY <1>3 DEF ShellReset
  <2> HIDE DEF new, mode
  <2>5. frame' \in Frame /\ refused' \in BOOLEAN
    BY <2>2, <2>3, <2>4, SendTypes DEF Threads
  <2>6. timer' \in [armed : BOOLEAN, due : BOOLEAN]
    <3>1. UNCHANGED timer \/ Rearm
      BY <1>3 DEF ShellReset
    <3> QED  BY <3>1 DEF Rearm, TypeOK
  <2> QED  BY <1>3, <2>1, <2>2, <2>4, <2>5, <2>6
           DEF ShellReset, TypeOK, TodoOK, Argument, Frame, Command
<1>4. ASSUME NEW sent \in BOOLEAN, ShellLocal(sent)
      PROVE  TypeOK' /\ TodoOK'
  <2>1. cmd \in Command
    BY DEF TypeOK, Command
  <2>2. frame' \in Frame /\ refused' \in BOOLEAN
    BY <1>4, <2>1, SendTypes DEF ShellLocal, Modes, Threads
  <2>3. CASE sent
    <3>1. /\ lock' = [lock EXCEPT !["remote"] = "shell"]
          /\ at' = [at EXCEPT !["shell"] = "publish"]
          /\ UNCHANGED <<shell, regs, cmd, timer, todo>>
      BY <1>4, <2>3 DEF ShellLocal, Goto
    <3>2. at' \in [Threads -> Places]
      BY <3>1 DEF TypeOK, Places
    <3>3. lock' \in [{"holding", "remote"} -> Threads \cup {Free}]
      BY <3>1 DEF TypeOK, Threads
    <3>4. LockOrder'
      BY <1>4, <3>1 DEF ShellLocal, TypeOK, LockOrder, Threads, Writers, Free
    <3> QED  BY <2>2, <3>1, <3>2, <3>3, <3>4 DEF TypeOK, TodoOK, Frame
  <2>4. CASE ~sent
    <3>1. lock' = [lock EXCEPT !["remote"] = Free]
      BY <1>4, <2>4 DEF ShellLocal
    <3>2. lock' = lock
      BY <1>4, <3>1 DEF ShellLocal, TypeOK
    <3>3. Prompt /\ UNCHANGED <<regs, cmd, timer, todo>>
      BY <1>4, <2>4 DEF ShellLocal
    <3>4. Settled
      BY <1>4, <3>2, <3>3, PromptKeepsTypes DEF ShellLocal
    <3> QED  BY <2>2, <3>2, <3>3, <3>4 DEF TypeOK, TodoOK, Argument, Frame
  <2> QED  BY <2>3, <2>4
<1>5. CASE ShellPublish
  <2>1. at' \in [Threads -> Places]
    BY <1>5 DEF ShellPublish, Prompt, Goto, TypeOK, Places
  <2>2. lock' \in [{"holding", "remote"} -> Threads \cup {Free}]
    BY <1>5 DEF ShellPublish, TypeOK
  <2>3. LockOrder'
    BY <1>5 DEF ShellPublish, Prompt, Goto, TypeOK, LockOrder, Threads, Writers, Free
  <2>4. regs' \in [mode : Modes, control : Controls, setpoint : Setpoints,
                  status : {"ok", "pending", "error"}]
    BY <1>5 DEF ShellPublish, TypeOK, Modes
  <2>5. timer' \in [armed : BOOLEAN, due : BOOLEAN]
    BY <1>5 DEF ShellPublish, Cancel, TypeOK
  <2>6. shell' \in Argument
    BY <1>5 DEF ShellPublish, Prompt, NoCommand, Argument
  <2>7. cmd' \in Command
    BY <1>5 DEF ShellPublish, TypeOK, Command
  <2> QED  BY <1>5, <2>1, <2>2, <2>3, <2>4, <2>5, <2>6, <2>7
           DEF ShellPublish, TypeOK, TodoOK, Argument, Command
<1>6. CASE ShellPause
  <2>1. Settled
    BY <1>6, PromptKeepsTypes DEF ShellPause
  <2>2. cmd' \in Command
    BY <1>6 DEF ShellPause, TypeOK, Command
  <2>3. timer' \in [armed : BOOLEAN, due : BOOLEAN]
    BY <1>6 DEF ShellPause, Cancel, TypeOK
  <2> QED  BY <1>6, <2>1, <2>2, <2>3 DEF ShellPause, TypeOK, TodoOK, Argument, Command
<1> QED  BY <1>1, <1>2, <1>3, <1>4, <1>5, <1>6, SendResultsTypes DEF ShellStep

LEMMA TypeNext ==
  ASSUME TypeOK, TodoOK, Next
  PROVE  TypeOK' /\ TodoOK'
<1>1. ASSUME NEW t \in Writers, WriterStep(t)
      PROVE  TypeOK' /\ TodoOK'
  BY <1>1, PrepareKeepsTypes, CommitKeepsTypes, SubmitKeepsTypes, SendResultsTypes
     DEF WriterStep
<1> QED  BY <1>1, AskKeepsTypes, RefreshKeepsTypes, ShellKeepsTypes DEF Next

-----------------------------------------------------------------------------
(***************************************************************************)
(* Only what passed the test of the APPLY travels.                         *)
(***************************************************************************)
LEMMA CheckedNext ==
  ASSUME GatewayInv, Next
  PROVE  Checked'
<1>1. TypeOK /\ TodoOK /\ Checked /\ LockOrder
  BY DEF GatewayInv, TypeOK
<1>2. ASSUME NEW t \in Writers, NEW r \in Requests[t], Begin(t, r)
      PROVE  Checked'
  BY <1>1, <1>2 DEF Begin, Checked, OnlyValidSetpointsLeave
<1>3. ASSUME NEW op \in ShellCommands, NEW c \in Controls,
             NEW s \in ValidSetpoints, ShellBegin(op, c, s)
      PROVE  Checked'
  <2>1. shell'.setpoint \in ValidSetpoints
    <3> DEFINE setpoint == CASE op = "run" -> cmd.setpoint
                             [] op = "duty" -> s
                             [] OTHER -> LeastSetpoint
    <3>1. setpoint \in ValidSetpoints
      BY <1>1 DEF Checked, OnlyValidSetpointsLeave
    <3>2. shell'.setpoint = setpoint
      BY <1>3 DEF ShellBegin
    <3> QED  BY <3>1, <3>2
  <2> QED  BY <1>1, <1>3, <2>1 DEF ShellBegin, Checked, OnlyValidSetpointsLeave
<1>4. ASSUME NEW t \in Writers, Prepare(t)
      PROVE  Checked'
  BY <1>1, <1>4 DEF Prepare, Checked, OnlyValidSetpointsLeave
<1>5. ASSUME NEW t \in Writers, Commit(t)
      PROVE  Checked'
  <2>1. CASE regs.setpoint \in ValidSetpoints
    <3>1. regs' = [regs EXCEPT !.status = "pending"]
      BY <1>5, <2>1 DEF Commit
    <3>2. regs'.setpoint \in ValidSetpoints
      BY <1>1, <2>1, <3>1 DEF TypeOK
    <3> QED  BY <1>1, <1>5, <3>2 DEF Commit, Checked, OnlyValidSetpointsLeave
  <2>2. CASE regs.setpoint \notin ValidSetpoints
    BY <1>1, <1>5, <2>2 DEF Commit, Checked, OnlyValidSetpointsLeave
  <2> QED  BY <2>1, <2>2
<1>6. ASSUME NEW t \in Writers, NEW sent \in BOOLEAN, Submit(t, sent)
      PROVE  Checked'
  <2>1. regs.setpoint \in ValidSetpoints
    BY <1>1, <1>6 DEF Submit, Checked, LockOrder, Free, Writers
  <2>2. cmd'.setpoint = regs.setpoint
    BY <1>6 DEF Submit
  <2>3. frame' = frame \/ frame'.setpoint = regs.setpoint
    BY <1>6 DEF Submit, Send
  <2>4. lock'["holding"] = Free
    BY <1>1, <1>6 DEF Submit, TypeOK
  <2> QED  BY <1>1, <1>6, <2>1, <2>2, <2>3, <2>4
           DEF Submit, Checked, OnlyValidSetpointsLeave
<1>7. CASE Expire \/ RefreshBegin \/ RefreshWithdrawn
  BY <1>1, <1>7 DEF Expire, RefreshBegin, RefreshWithdrawn, Checked,
                    OnlyValidSetpointsLeave
<1>8. ASSUME NEW sent \in BOOLEAN, RefreshSend(sent)
      PROVE  Checked'
  <2>1. frame' = frame \/ frame'.setpoint = cmd.setpoint
    BY <1>8 DEF RefreshSend, Send
  <2>2. lock'["holding"] = lock["holding"]
    BY <1>1, <1>8 DEF RefreshSend, TypeOK
  <2> QED  BY <1>1, <1>8, <2>1, <2>2 DEF RefreshSend, Checked, OnlyValidSetpointsLeave
<1>9. CASE RefreshPublish
  <2>1. lock'["holding"] = Free
    BY <1>1, <1>9 DEF RefreshPublish, TypeOK
  <2> QED  BY <1>1, <1>9, <2>1 DEF RefreshPublish, Checked, OnlyValidSetpointsLeave
<1>10. CASE ShellRefused
  BY <1>1, <1>10 DEF ShellRefused, Prompt, NoCommand, Checked, OnlyValidSetpointsLeave
<1>11. ASSUME NEW sent \in BOOLEAN, ShellUpdate(sent)
       PROVE  Checked'
  <2>1. frame' = frame \/ frame'.setpoint = shell.setpoint
    BY <1>11 DEF ShellUpdate, Send
  <2>2. cmd'.setpoint = shell.setpoint /\ shell'.setpoint = LeastSetpoint
    BY <1>11 DEF ShellUpdate, Prompt, NoCommand
  <2> QED  BY <1>1, <1>11, <2>1, <2>2 DEF ShellUpdate, Checked, OnlyValidSetpointsLeave
<1>12. ASSUME NEW sent \in BOOLEAN, ShellReset(sent)
       PROVE  Checked'
  <2>1. [cmd EXCEPT !.control = Acknowledge].setpoint = cmd.setpoint
    BY <1>1 DEF TypeOK
  <2>2. frame' = frame \/ frame'.setpoint = cmd.setpoint
    BY <1>12, <2>1 DEF ShellReset, Send
  <2>3. cmd'.setpoint = cmd.setpoint /\ shell'.setpoint = LeastSetpoint
    BY <1>12, <2>1 DEF ShellReset, Prompt, NoCommand
  <2> QED  BY <1>1, <1>12, <2>2, <2>3 DEF ShellReset, Checked, OnlyValidSetpointsLeave
<1>13. ASSUME NEW sent \in BOOLEAN, ShellLocal(sent)
       PROVE  Checked'
  <2>1. frame' = frame \/ frame'.setpoint = cmd.setpoint
    BY <1>13 DEF ShellLocal, Send
  <2>2. lock'["holding"] = lock["holding"]
    BY <1>1, <1>13 DEF ShellLocal, TypeOK
  <2>3. shell' = shell \/ shell'.setpoint = LeastSetpoint
    BY <1>13 DEF ShellLocal, Prompt, NoCommand
  <2> QED  BY <1>1, <1>13, <2>1, <2>2, <2>3
           DEF ShellLocal, Checked, OnlyValidSetpointsLeave
<1>14. CASE ShellPublish
  <2>1. lock'["holding"] = Free
    BY <1>1, <1>14 DEF ShellPublish, TypeOK
  <2>2. cmd'.setpoint = cmd.setpoint /\ shell'.setpoint = LeastSetpoint
    BY <1>1, <1>14 DEF ShellPublish, Prompt, NoCommand, TypeOK
  <2> QED  BY <1>1, <1>14, <2>1, <2>2 DEF ShellPublish, Checked, OnlyValidSetpointsLeave
<1>15. CASE ShellPause
  <2>1. cmd'.setpoint = cmd.setpoint /\ shell'.setpoint = LeastSetpoint
    BY <1>1, <1>15 DEF ShellPause, Prompt, NoCommand, TypeOK
  <2> QED  BY <1>1, <1>15, <2>1 DEF ShellPause, Checked, OnlyValidSetpointsLeave
<1> QED  BY <1>2, <1>3, <1>4, <1>5, <1>6, <1>7, <1>8, <1>9, <1>10, <1>11, <1>12,
            <1>13, <1>14, <1>15, SendResultsTypes
         DEF Next, Ask, WriterStep, RefreshStep, ShellStep

-----------------------------------------------------------------------------
(***************************************************************************)
(* The command in force is the last one queued for the M4, and its refresh *)
(* is on its way.  Both are about the moments when nobody publishes; while *)
(* the refresh publishes, Publishing carries them over.                    *)
(***************************************************************************)
Refreshed == Publishing /\ RefreshedCommandIsHeld /\ RefreshIsArmed

\* A step that leaves the command, the link, the mutex and the refresh alone.
LEMMA BystanderKeepsRefreshed ==
  ASSUME GatewayInv, UNCHANGED <<cmd, timer, frame, refused>>,
         lock'["remote"] = lock["remote"],
         at["wq"] = "refresh" => at'["wq"] = "refresh"
  PROVE  Refreshed'
BY DEF GatewayInv, Refreshed, Publishing, Held, RefreshedCommandIsHeld, RefreshIsArmed

\* A step that stores the command it sends, and arms the refresh of a remote one.
LEMMA StoreKeepsRefreshed ==
  ASSUME GatewayInv, NEW sent \in BOOLEAN, NEW who,
         NEW mode \in Modes, NEW new \in Command,
         lock["remote"] = Free, lock'["remote"] = Free,
         cmd' = new, new.enabled <=> mode = "remote",
         Send(sent, mode, new, who),
         sent /\ mode = "remote" => timer'.armed
  PROVE  Refreshed'
<1>1. Publishing'
  BY DEF Publishing, Free
<1>2. CASE sent
  <2>1. refused' = FALSE /\ frame' = [mode |-> mode, control |-> new.control,
                                      setpoint |-> new.setpoint, by |-> who]
    BY <1>2 DEF Send
  <2>2. RefreshedCommandIsHeld'
    BY <2>1 DEF RefreshedCommandIsHeld
  <2>3. RefreshIsArmed'
    BY <1>2 DEF RefreshIsArmed
  <2> QED  BY <1>1, <2>2, <2>3 DEF Refreshed
<1>3. CASE ~sent
  <2>1. refused' = TRUE
    BY <1>3 DEF Send
  <2> QED  BY <1>1, <2>1 DEF Refreshed, RefreshedCommandIsHeld, RefreshIsArmed
<1> QED  BY <1>2, <1>3

\* A step after which no command is in force.
LEMMA WithdrawKeepsRefreshed ==
  ASSUME ~cmd'.enabled, lock'["remote"] # "wq"
  PROVE  Refreshed'
BY DEF Refreshed, Publishing, RefreshedCommandIsHeld, RefreshIsArmed

LEMMA RefreshedNext ==
  ASSUME GatewayInv, Next
  PROVE  Refreshed'
<1>1. TypeOK /\ LockOrder /\ Refreshed
  BY DEF GatewayInv, TypeOK, Refreshed
<1>2. ASSUME NEW t \in Writers, NEW r \in Requests[t], Begin(t, r)
      PROVE  Refreshed'
  <2>1. at["wq"] = "refresh" => at'["wq"] = "refresh"
    BY <1>1, <1>2 DEF Begin, Goto, TypeOK
  <2> QED  BY <1>2, <2>1, BystanderKeepsRefreshed DEF Begin
<1>3. ASSUME NEW op \in ShellCommands, NEW c \in Controls,
             NEW s \in ValidSetpoints, ShellBegin(op, c, s)
      PROVE  Refreshed'
  <2>1. at["wq"] = "refresh" => at'["wq"] = "refresh"
    BY <1>1, <1>3 DEF ShellBegin, Goto, TypeOK
  <2> QED  BY <1>3, <2>1, BystanderKeepsRefreshed DEF ShellBegin
<1>4. ASSUME NEW t \in Writers, Prepare(t)
      PROVE  Refreshed'
  <2>1. at["wq"] = "refresh" => at'["wq"] = "refresh"
    <3>1. at[t] = "writing" /\ (at' = at \/ \E place : at' = [at EXCEPT ![t] = place])
      BY <1>4 DEF Prepare, Finish, Goto
    <3> QED  BY <1>1, <3>1 DEF TypeOK, Threads, Writers
  <2> QED  BY <1>4, <2>1, BystanderKeepsRefreshed DEF Prepare
<1>5. ASSUME NEW t \in Writers, Commit(t)
      PROVE  Refreshed'
  <2>1. at["wq"] = "refresh" => at'["wq"] = "refresh"
    <3>1. at[t] = "writing" /\ (at' = at \/ \E place : at' = [at EXCEPT ![t] = place])
      BY <1>5 DEF Commit, Finish, Goto
    <3> QED  BY <1>1, <3>1 DEF TypeOK, Threads, Writers
  <2>2. lock'["remote"] = lock["remote"]
    BY <1>1, <1>5 DEF Commit, TypeOK
  <2> QED  BY <1>5, <2>1, <2>2, BystanderKeepsRefreshed DEF Commit
<1>6. ASSUME NEW t \in Writers, NEW sent \in BOOLEAN, Submit(t, sent)
      PROVE  Refreshed'
  <2> DEFINE mode == regs.mode
             new == [enabled |-> regs.mode = "remote", control |-> regs.control,
                     setpoint |-> regs.setpoint]
  <2>1. mode \in Modes /\ new \in Command /\ (new.enabled <=> mode = "remote")
    BY <1>1 DEF TypeOK, Command
  <2>2. lock["remote"] = Free /\ lock'["remote"] = Free
    BY <1>1, <1>6 DEF Submit, TypeOK
  <2>3. sent /\ mode = "remote" => timer'.armed
    BY <1>1, <1>6 DEF Submit, Rearm, TypeOK
  <2>4. cmd' = new /\ Send(sent, mode, new, t)
    BY <1>6 DEF Submit
  <2> HIDE DEF mode, new
  <2> QED  BY <2>1, <2>2, <2>3, <2>4, StoreKeepsRefreshed
<1>7. CASE Expire
  BY <1>1, <1>7 DEF Expire, Refreshed, Publishing, Held, RefreshedCommandIsHeld,
                    RefreshIsArmed
<1>8. CASE RefreshBegin
  <2>1. at'["wq"] = "refresh"
    BY <1>1, <1>8 DEF RefreshBegin, Goto, TypeOK, Threads, Writers
  <2> QED  BY <1>1, <1>8, <2>1 DEF RefreshBegin, Refreshed, Publishing, Held,
                                   RefreshedCommandIsHeld, RefreshIsArmed
<1>9. CASE RefreshWithdrawn
  BY <1>9, WithdrawKeepsRefreshed DEF RefreshWithdrawn, Free
<1>10. ASSUME NEW sent \in BOOLEAN, RefreshSend(sent)
       PROVE  Refreshed'
  <2>1. CASE sent
    <3>1. lock'["remote"] = "wq"
      BY <1>1, <1>10, <2>1 DEF RefreshSend, TypeOK
    <3>2. refused' = FALSE /\ frame' = [mode |-> "remote", control |-> cmd.control,
                                        setpoint |-> cmd.setpoint, by |-> "refresh"]
      BY <1>10, <2>1 DEF RefreshSend, Send
    <3>3. cmd' = cmd /\ cmd.enabled
      BY <1>10 DEF RefreshSend
    <3>4. Held'
      BY <3>2, <3>3 DEF Held
    <3> QED  BY <3>1, <3>3, <3>4 DEF Refreshed, Publishing, RefreshedCommandIsHeld,
                                     RefreshIsArmed, Free
  <2>2. CASE ~sent
    <3>1. lock'["remote"] = Free /\ refused' = TRUE
      BY <1>1, <1>10, <2>2 DEF RefreshSend, Send, TypeOK
    <3> QED  BY <3>1 DEF Refreshed, Publishing, RefreshedCommandIsHeld,
                         RefreshIsArmed, Free
  <2> QED  BY <2>1, <2>2
<1>11. CASE RefreshPublish
  <2>1. lock["remote"] = "wq"
    BY <1>1, <1>11 DEF RefreshPublish, LockOrder, Threads, Writers
  <2>2. lock'["remote"] = Free /\ timer'.armed
    BY <1>1, <1>11 DEF RefreshPublish, Rearm, TypeOK
  <2> QED  BY <1>1, <1>11, <2>1, <2>2
           DEF RefreshPublish, Refreshed, Publishing, Held, RefreshedCommandIsHeld,
               RefreshIsArmed, Free
<1>12. CASE ShellRefused
  BY <1>12, WithdrawKeepsRefreshed DEF ShellRefused, Free
<1>13. ASSUME NEW sent \in BOOLEAN, ShellUpdate(sent)
       PROVE  Refreshed'
  <2> DEFINE mode == "remote"
             new == [enabled |-> TRUE, control |-> shell.control,
                     setpoint |-> shell.setpoint]
  <2>1. mode \in Modes /\ new \in Command /\ (new.enabled <=> mode = "remote")
    BY <1>1 DEF TypeOK, Command, Modes
  <2>2. lock["remote"] = Free /\ lock'["remote"] = Free
    BY <1>13 DEF ShellUpdate
  <2>3. sent /\ mode = "remote" => timer'.armed
    BY <1>1, <1>13 DEF ShellUpdate, Rearm, TypeOK
  <2>4. cmd' = new /\ Send(sent, mode, new, "shell")
    BY <1>13 DEF ShellUpdate
  <2> HIDE DEF mode, new
  <2> QED  BY <2>1, <2>2, <2>3, <2>4, StoreKeepsRefreshed
<1>14. ASSUME NEW sent \in BOOLEAN, ShellReset(sent)
       PROVE  Refreshed'
  <2> DEFINE mode == IF cmd.enabled THEN "remote" ELSE "local"
             new == [cmd EXCEPT !.control = Acknowledge]
  <2>1. mode \in Modes /\ new \in Command /\ (new.enabled <=> mode = "remote")
    BY <1>1 DEF TypeOK, Command, Modes
  <2>2. lock["remote"] = Free /\ lock'["remote"] = Free
    BY <1>14 DEF ShellReset
  <2>3. sent /\ mode = "remote" => timer'.armed
    BY <1>1, <1>14 DEF ShellReset, Rearm, TypeOK
  <2>4. cmd' = new /\ Send(sent, mode, new, "shell")
    BY <1>14 DEF ShellReset
  <2> HIDE DEF mode, new
  <2> QED  BY <2>1, <2>2, <2>3, <2>4, StoreKeepsRefreshed
<1>15. ASSUME NEW sent \in BOOLEAN, ShellLocal(sent)
       PROVE  Refreshed'
  <2>1. CASE sent
    <3>1. lock'["remote"] = "shell"
      BY <1>1, <1>15, <2>1 DEF ShellLocal, TypeOK
    <3> QED  BY <3>1 DEF Refreshed, Publishing, RefreshedCommandIsHeld,
                         RefreshIsArmed, Free
  <2>2. CASE ~sent
    <3>1. lock'["remote"] = Free /\ refused' = TRUE
      BY <1>1, <1>15, <2>2 DEF ShellLocal, Send, TypeOK
    <3> QED  BY <3>1 DEF Refreshed, Publishing, RefreshedCommandIsHeld,
                         RefreshIsArmed, Free
  <2> QED  BY <2>1, <2>2
<1>16. CASE ShellPublish
  <2>1. ~cmd'.enabled /\ lock'["remote"] = Free
    BY <1>1, <1>16 DEF ShellPublish, TypeOK
  <2> QED  BY <2>1, WithdrawKeepsRefreshed DEF Free
<1>17. CASE ShellPause
  <2>1. ~cmd'.enabled /\ lock'["remote"] = Free
    BY <1>1, <1>17 DEF ShellPause, TypeOK
  <2> QED  BY <2>1, WithdrawKeepsRefreshed DEF Free
<1> QED  BY <1>2, <1>3, <1>4, <1>5, <1>6, <1>7, <1>8, <1>9, <1>10, <1>11, <1>12,
            <1>13, <1>14, <1>15, <1>16, <1>17, SendResultsTypes
         DEF Next, Ask, WriterStep, RefreshStep, ShellStep

-----------------------------------------------------------------------------
LEMMA GatewayNext ==
  ASSUME GatewayInv, [Next]_vars
  PROVE  GatewayInv'
<1>1. CASE Next
  <2>1. TypeOK' /\ TodoOK'
    BY <1>1, TypeNext DEF GatewayInv
  <2>2. Checked'
    BY <1>1, CheckedNext
  <2>3. Refreshed'
    BY <1>1, RefreshedNext
  <2> QED  BY <2>1, <2>2, <2>3 DEF GatewayInv, Refreshed
<1>2. CASE UNCHANGED vars
  BY <1>2 DEF vars, GatewayInv, TypeOK, LockOrder, TodoOK, Checked,
              OnlyValidSetpointsLeave, Publishing, Held, RefreshedCommandIsHeld,
              RefreshIsArmed
<1> QED  BY <1>1, <1>2

\* The invariant that the theorems below rest on.
THEOREM GatewayInvariant == Spec => []GatewayInv
<1>1. Init => GatewayInv
  BY GatewayInit
<1>2. GatewayInv /\ [Next]_vars => GatewayInv'
  BY GatewayNext
<1> QED  BY <1>1, <1>2, PTL DEF Spec

\* The variables keep their types, and who holds a mutex is where the code
\* releases it (holding_reg_wr, remote_refresh_handler, remote_command_disable).
THEOREM GatewayTypes == Spec => []TypeOK
<1>1. GatewayInv => TypeOK
  BY DEF GatewayInv
<1> QED  BY <1>1, GatewayInvariant, PTL

\* Whatever the protocols, the shell and the refresh interleave, the command
\* being refreshed is the last one queued for the M4, unless the link refused it.
THEOREM GatewayHeld == Spec => []RefreshedCommandIsHeld
<1>1. GatewayInv => RefreshedCommandIsHeld
  BY DEF GatewayInv
<1> QED  BY <1>1, GatewayInvariant, PTL

\* A remote command in force has its next refresh on its way, unless the link
\* refused the last send.
THEOREM GatewayArmed == Spec => []RefreshIsArmed
<1>1. GatewayInv => RefreshIsArmed
  BY DEF GatewayInv
<1> QED  BY <1>1, GatewayInvariant, PTL

\* No setpoint that app_ipc_motor_submit refuses is ever queued for the M4 or
\* kept for the refresh.
THEOREM GatewayValid == Spec => []OnlyValidSetpointsLeave
<1>1. GatewayInv => OnlyValidSetpointsLeave
  BY DEF GatewayInv, Checked
<1> QED  BY <1>1, GatewayInvariant, PTL

\* A frame is replaced by the command its sender meant, or not at all.
LEMMA FrameBy ==
  ASSUME GatewayInv, [Next]_vars, frame.mode = "local", frame'.mode = "remote", ~refused
  PROVE  frame'.by # "refresh"
<1>1. ASSUME NEW t \in Writers, NEW sent \in BOOLEAN, Submit(t, sent)
      PROVE  frame'.by # "refresh"
  <2>1. frame' = frame \/ frame'.by = t
    BY <1>1 DEF Submit, Send
  <2> QED  BY <2>1 DEF Writers
<1>2. ASSUME NEW sent \in BOOLEAN, RefreshSend(sent)
      PROVE  FALSE
  BY <1>2 DEF RefreshSend, GatewayInv, RefreshedCommandIsHeld
<1>3. ASSUME NEW sent \in BOOLEAN, ShellUpdate(sent) \/ ShellReset(sent)
      PROVE  frame'.by # "refresh"
  <2>1. frame' = frame \/ frame'.by = "shell"
    BY <1>3 DEF ShellUpdate, ShellReset, Send
  <2> QED  BY <2>1
<1>4. ASSUME NEW sent \in BOOLEAN, ShellLocal(sent)
      PROVE  FALSE
  <2>1. frame' = frame \/ frame'.mode = "local"
    BY <1>4 DEF ShellLocal, Send
  <2> QED  BY <2>1
<1>5. frame' # frame
  OBVIOUS
<1>6. Next
  BY <1>5 DEF vars
<1> QED  BY <1>1, <1>2, <1>3, <1>4, <1>5, <1>6, SendResultsTypes
         DEF Next, Ask, WriterStep, RefreshStep, ShellStep, Begin, ShellBegin, Prepare,
             Commit, Expire, RefreshBegin, RefreshWithdrawn, RefreshPublish,
             ShellRefused, ShellPublish, ShellPause

\* A refresh that was armed, queued or waiting for the mutex when the local
\* command went out is not sent after it, for any number of threads.
THEOREM GatewayLocalStays == Spec => RefreshNeverRevokesLocal
<1> DEFINE Keeps == frame.mode = "local" /\ frame'.mode = "remote"
                      => frame'.by # "refresh" \/ refused
<1>1. GatewayInv /\ [Next]_vars => [Keeps]_vars
  BY FrameBy DEF Keeps
<1> QED  BY <1>1, GatewayInvariant, PTL DEF Spec, RefreshNeverRevokesLocal
=============================================================================

----------------------------- MODULE MotorSystem -----------------------------
(***************************************************************************)
(* Both cores under one clock: the loop, the mailbox and the watchdog of   *)
(* the Cortex-M4 (MotorNode) driven by the command the Cortex-M7 stores    *)
(* and refreshes (ipc/app_ipc.c), on a system workqueue that a SAVE may    *)
(* hold up (app_modbus_tcp.c).                                             *)
(*                                                                         *)
(* MotorGateway has the threads and the mutexes of the M7; here a critical *)
(* section under remote_command_lock is one action and what matters is how *)
(* long the refresh takes, and whether its command gets through.  The M7   *)
(* stores and sends any control word; the M4 drops the frame of one it     *)
(* does not know, although the link took it.  Any other frame is in the    *)
(* M4's mailbox before its next iteration: the mailbox stands for both.    *)
(***************************************************************************)
EXTENDS MotorNode

CONSTANTS
  Refresh,     \* APP_IPC_REMOTE_REFRESH_MS
  Lateness,    \* how late the refresh may be when no SAVE holds the workqueue
  Pressed,     \* the sets of buttons newly pressed in an iteration
  Readings,    \* what the potentiometer may read
  Storable,    \* what remote_command may hold
  Asked,       \* the commands the clients and the shell ask for
  AtBoot       \* remote_command as it is initialised, with
               \* APP_IPC_REMOTE_TIMEOUT_MS

\* app_ipc_motor_submit tests everything the M4 tests but the control word.
Undocumented == "UNDOCUMENTED"
StoredWord ==
  [mode : {"local", "remote"}, control : SUBSET (ControlBits \cup {Undocumented}),
   duty : DutyMin .. DutyMax, accel : Nat \ {0}, decel : Nat \ {0},
   timeout : 0 .. MaxAge - 1]

\* What command_is_valid says of a command that the M7 could store.
Accepted(c) == c.control \subseteq ControlBits

\* What remote_command_disable makes of the stored command: before the link
\* answers, what it sends, and once that is sent.
ByDefault(c) == [c EXCEPT !.timeout = AtBoot.timeout]
Local(c) == [c EXCEPT !.timeout = AtBoot.timeout, !.mode = "local"]
Withdrawn(c) ==
  [c EXCEPT !.timeout = AtBoot.timeout, !.mode = "local", !.control = {}]

\* What remote_command_reset and cmd_m4_pause_refresh make of it.
Cleared(c) ==
  [c EXCEPT !.timeout = AtBoot.timeout, !.control = {"ENABLE", "RESET"}]
Paused(c) == [c EXCEPT !.mode = "local"]

ASSUME SystemAssumption ==
  /\ Refresh \in Nat \ {0} /\ Lateness \in Nat
  /\ Pressed \subseteq SUBSET Events /\ Readings \subseteq PotReadings
  /\ Storable \subseteq StoredWord /\ Asked \subseteq Storable
  /\ AtBoot \in Storable /\ AtBoot.mode = "local"
  /\ \A c \in Storable :
       /\ Accepted(c) => c \in Commands
       /\ {ByDefault(c), Local(c), Withdrawn(c), Cleared(c), Paused(c)}
            \subseteq Storable

VARIABLES
  stored,    \* remote_command: its mode tells whether it is enabled
  left,      \* the time before remote_refresh_work is due, or Never
  saving,    \* a SAVE of REG8 waits on the system workqueue
  stuck,     \* the holder of remote_command_lock waits for holding_regs_lock,
             \* whose holder waits for remote_command_lock
  refused,   \* history: the link refused the last command
  served     \* history: the last command the link took was a remote one
             \* that the M4 accepts

m7 == <<stored, left, saving, stuck, refused, served>>
systemVars == <<vars, m7>>

Never == Refresh + 1

\* A work that is later than Lateness is late, no matter how much.
Overdue == -Lateness - 1

SystemInit ==
  /\ Init
  /\ stored = AtBoot
  /\ left = Never
  /\ saving = FALSE
  /\ stuck = FALSE
  /\ refused = FALSE
  /\ served = FALSE

\* ipc_service_send, which nothing is bound to before the M4 has started, and
\* the M4's endpoint_received, which drops in silence what it does not accept.
Send(c, sent) ==
  /\ sent => pc \notin {"boot", "halted"}
  /\ refused' = ~sent
  /\ served' = IF sent THEN c.mode = "remote" /\ Accepted(c) ELSE served
  /\ IF sent /\ Accepted(c) THEN Receive(c) ELSE UNCHANGED vars

\* app_ipc_motor_submit; remote_command_update of the shell does the same with
\* commands of its own.
Submit(c, sent) ==
  /\ ~stuck
  /\ stored' = c
  /\ Send(c, sent)
  /\ left' = CASE sent /\ c.mode = "remote" -> Refresh
               [] sent /\ c.mode = "local" -> Never
               [] OTHER -> left
  /\ UNCHANGED <<saving, stuck>>

\* remote_command_reset: a withdrawn command is sent, and not refreshed.
ShellReset(sent) ==
  LET c == Cleared(stored)
  IN  /\ ~stuck
      /\ stored' = c
      /\ Send(c, sent)
      /\ left' = IF sent /\ c.mode = "remote" THEN Refresh ELSE left
      /\ UNCHANGED <<saving, stuck>>

\* remote_command_disable: the command is withdrawn only once that is sent and
\* REG10 is written, for which it may wait for ever.
ShellLocal(sent, blocks) ==
  /\ ~stuck
  /\ Send(Local(stored), sent)
  /\ stored' = IF sent /\ ~blocks THEN Withdrawn(stored) ELSE ByDefault(stored)
  /\ left' = IF sent THEN Never ELSE left
  /\ stuck' = (sent /\ blocks)
  /\ UNCHANGED saving

\* cmd_m4_pause_refresh: nothing is sent, the M4 is left to its watchdog.
Pause ==
  /\ ~stuck
  /\ stored' = Paused(stored)
  /\ left' = Never
  /\ UNCHANGED <<vars, saving, stuck, refused, served>>

\* remote_refresh_work_handler; a refused frame ends the chain, and so does
\* the write of REG10 that waits for ever.
RefreshRemote(sent, blocks) ==
  /\ ~stuck /\ left <= 0 /\ ~saving
  /\ stored.mode = "remote"
  /\ Send(stored, sent)
  /\ left' = IF sent /\ ~blocks THEN Refresh ELSE Never
  /\ stuck' = (sent /\ blocks)
  /\ UNCHANGED <<stored, saving>>

\* The command was withdrawn, but the link refused the local command.
RefreshWithdrawn ==
  /\ ~stuck /\ left <= 0 /\ ~saving
  /\ stored.mode = "local"
  /\ left' = Never
  /\ UNCHANGED <<vars, stored, saving, stuck, refused, served>>

\* The register write waits up to 5 s for modbus_cmd_wq; a write takes
\* holding_regs_lock, so that none goes on once that is held for ever.
Save ==
  /\ ~stuck
  /\ saving' = ~saving
  /\ UNCHANGED <<vars, stored, left, stuck, refused, served>>

\* dt passes in the M4's sleep; a due refresh runs before Lateness is over,
\* unless a SAVE is before it on the queue.
Tick(dt) ==
  LET then == left - dt
  IN  /\ Sleep(dt)
      /\ left' = CASE left = Never -> Never
                   [] then < -Lateness -> Overdue
                   [] OTHER -> then
      /\ left' = Overdue => saving \/ left = Overdue
      /\ UNCHANGED <<stored, saving, stuck, refused, served>>

LoopStep ==
  \/ \E e \in Pressed, p \in Readings : Inputs(e, p)
  \/ \E bad, startBad, safeBad \in Refusals : Ipc(bad, startBad, safeBad)
  \/ \E bad, safeBad \in Refusals : Decide(bad, safeBad) \/ Drive(bad, safeBad)

Advance ==
  \/ LoopStep /\ UNCHANGED m7
  \/ \E dt \in LoopTimes : Tick(dt)
  \/ \E sent, blocks \in BOOLEAN : RefreshRemote(sent, blocks)
  \/ RefreshWithdrawn

SystemNext ==
  \/ \E ready, others \in BOOLEAN, bad, safeBad \in Refusals :
        Boot(ready, others, bad, safeBad) /\ UNCHANGED m7
  \/ Advance
  \/ Save
  \/ Pause
  \/ \E sent, blocks \in BOOLEAN : ShellLocal(sent, blocks)
  \/ \E sent \in BOOLEAN :
        ShellReset(sent) \/ \E c \in Asked : Submit(c, sent)

SystemSpec == SystemInit /\ [][SystemNext]_systemVars

\* Time passes: the loop and the refresh go on.  Nobody is obliged to command.
FairSystemSpec == SystemSpec /\ WF_systemVars(Advance)

-----------------------------------------------------------------------------
(***************************************************************************)
(* While the M7 refreshes a command that the M4 accepts, the M4 never      *)
(* takes it for expired, whoever submits commands meanwhile.  The causes:  *)
(* the command was withdrawn; a SAVE holds the workqueue past the refresh; *)
(* the link refused it, or the refresh waits for ever for REG10; what was  *)
(* sent last is a command the M4 drops, or a local one; or the client      *)
(* asked for a timeout that leaves the refresh no room                     *)
(* (APP_MOTOR_COMMAND_TIMEOUT_MIN_MS is the refresh period itself).        *)
(***************************************************************************)
ExpiryHasACause ==
  [][~remote.timedOut /\ remote'.timedOut =>
       \/ stored.mode = "local"
       \/ left = Overdue
       \/ left = Never /\ (refused \/ stuck)
       \/ ~served
       \/ remote.timeout < Refresh + Lateness]_systemVars

\* What the M4 takes from a command, apart from the control bits.
Obeys(c) ==
  /\ remote.mode = "remote" /\ remote.timeout = c.timeout
  /\ motor.target = c.duty
  /\ motor.accel = c.accel /\ motor.decel = c.decel

(***************************************************************************)
(* The command the M7 believes in force is the one the M4 obeys, once the  *)
(* mailbox is empty: no order of submissions, refreshes and losses in the  *)
(* single slot leaves the M4 with an older one.  Excepted are a command    *)
(* the link refused, one the M4 drops for its control word, and the `m4    *)
(* local' that has sent its command and waits for ever to store it.        *)
(***************************************************************************)
StoredCommandIsObeyed ==
  stored.mode = "remote" /\ Accepted(stored) /\ pending = NoCommand
  /\ ~refused /\ ~stuck => Obeys(stored)

\* What makes these two inductive: a command in force is as young as the
\* refresh is far from being due, or on its way; a chain that has ended has a
\* cause; and the stored command is the one on its way.
SystemTypes ==
  /\ stored \in Storable /\ left \in Overdue .. Never
  /\ saving \in BOOLEAN /\ stuck \in BOOLEAN
  /\ refused \in BOOLEAN /\ served \in BOOLEAN

YoungerThanRefresh ==
  served /\ left \notin {Never, Overdue} =>
    /\ pending = NoCommand /\ remote.mode = "remote"
         => remote.age <= Refresh - left
    /\ pending # NoCommand => pending.mode = "remote"

ChainEndsWithACause ==
  stored.mode = "remote" /\ left = Never => refused \/ stuck

StoredIsOnItsWay ==
  stored.mode = "remote" /\ Accepted(stored) /\ ~refused /\ ~stuck =>
    pc \notin {"boot", "halted"} /\ pending \in {stored, NoCommand}

SystemInv ==
  /\ NodeInv
  /\ SystemTypes
  /\ YoungerThanRefresh
  /\ ChainEndsWithACause
  /\ StoredIsOnItsWay
  /\ StoredCommandIsObeyed

(***************************************************************************)
(* A chain of refreshes that has ended, by a frame the link refused or by  *)
(* a withdrawal, ends in a motor at rest, or given back to its buttons.    *)
(***************************************************************************)
LostRefreshStops ==
  <>[](left = Never)
    => <>[](remote.mode = "local" \/ motor.state \notin {"RUNNING", "STOPPING"})
=============================================================================

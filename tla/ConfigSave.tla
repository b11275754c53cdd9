----------------------------- MODULE ConfigSave -----------------------------
(***************************************************************************)
(* The network configuration of the Cortex-M7: the copy of it in the       *)
(* holding registers, the SAVE command of REG8 and its handshake between   *)
(* the caller and modbus_cmd_wq (app_modbus_tcp.c), the copy in RAM and    *)
(* the one in flash (net_cfg.c), the "ip" shell commands, and reboots.     *)
(*                                                                         *)
(* The callers, the work queue and the shell are threads preempted         *)
(* anywhere; a section under one mutex is one action.                      *)
(***************************************************************************)
EXTENDS Naturals

CONSTANTS
  Clients,      \* the threads that write REG8
  Configs,      \* the configurations net_cfg_validate accepts
  Default,      \* net_cfg's defaults
  BadMode,      \* what the registers hold when REG1 is no net_cfg mode
  ShellConfigs, \* what "ip dhcp" and "ip static" set
  OlderKeys,    \* what an older build may have left in its own keys
  ReadMayFail   \* may reading the settings fail at boot

Absent == "absent"
Corrupt == "corrupt"

ASSUME ConfigAssumption ==
  /\ Default \in Configs /\ ShellConfigs \subseteq Configs
  /\ {BadMode, Absent, Corrupt} \cap Configs = {}
  /\ OlderKeys \subseteq Configs \cup {Absent, Corrupt}
  /\ ReadMayFail \in BOOLEAN

VARIABLES
  up,      \* the M7 has booted
  blob,    \* flash: net_cfg/blob
  legacy,  \* flash: the separate keys of older builds
  cfg,     \* net_cfg.c: cfg
  regs,    \* REG1..7 as config, REG8 as command, REG9 as status
  pending, \* command_pending
  queued,  \* modbus_cmd_work is on its queue
  worker,  \* modbus_cmd_wq: where it is, its snapshot, its result
  done,    \* command_done
  result,  \* command_result
  client,  \* where each caller of holding_reg_wr is
  shell    \* the shell's own net_cfg_set_saved

vars == <<up, blob, legacy, cfg, regs, pending, queued, worker, done,
          result, client, shell>>
flash == <<blob, legacy>>
save == <<pending, queued, worker, done, result>>

Results == {"ok", "failed", "invalid"}
Statuses == Results \cup {"pending", "busy", "timeout"}
AtRest == [at |-> "idle", config |-> Default, ret |-> "ok"]

TypeOK ==
  /\ up \in BOOLEAN
  /\ blob \in Configs \cup {Absent, Corrupt}
  /\ legacy \in OlderKeys
  /\ cfg \in Configs
  /\ regs \in [config : Configs \cup {BadMode}, command : BOOLEAN,
               status : Statuses]
  /\ pending \in BOOLEAN /\ queued \in BOOLEAN /\ done \in BOOLEAN
  /\ worker \in [at : {"idle", "collect", "persist", "store", "notify",
                       "complete", "sync", "give"},
                 config : Configs, ret : Results]
  /\ result \in Results
  /\ client \in [Clients -> {"idle", "taking", "waiting", "late", "woken"}]
  /\ shell \in [at : {"idle", "persist", "store", "notify"}, config : Configs]

-----------------------------------------------------------------------------
(***************************************************************************)
(* Boot: net_cfg_load, net_cfg_start and init_modbus_server run in main    *)
(* before there is anyone to interleave with.                              *)
(***************************************************************************)

\* net_cfg_load: an unusable blob gives way to the defaults, an absent one to
\* the keys of older builds; both are then written as a blob.
Loaded == IF blob \in Configs THEN blob
          ELSE IF blob = Absent /\ legacy \in Configs THEN legacy
          ELSE Default

\* A failed read leaves the defaults, as does settings_subsys_init failing; one
\* that fails among the older keys has already taken some of them over.
HalfLoaded == IF blob = Absent /\ legacy # Absent THEN Configs ELSE {Default}

net_cfg_load(read, written) ==
  /\ IF read THEN cfg' = Loaded ELSE cfg' \in HalfLoaded
  /\ blob' = IF read /\ (blob \in Configs \/ written) THEN Loaded ELSE blob
  /\ UNCHANGED legacy

\* net_cfg_start sets the interface up, which nothing here reads back; then
\* sync_holding_regs_from_saved_cfg.
Boot(read, written) ==
  /\ ~up /\ up' = TRUE
  /\ net_cfg_load(read, written)
  /\ regs' = [config |-> cfg', command |-> FALSE, status |-> "ok"]
  /\ UNCHANGED <<save, client, shell>>

\* A reboot command, a reset or a power cut: flash is what is left.
Restart ==
  /\ up /\ up' = FALSE
  /\ pending' = FALSE /\ queued' = FALSE /\ done' = FALSE
  /\ result' = "ok" /\ worker' = AtRest
  /\ client' = [c \in Clients |-> "idle"]
  /\ shell' = [at |-> "idle", config |-> Default]
  /\ UNCHANGED <<flash, cfg, regs>>

Init ==
  /\ up = FALSE
  /\ blob \in Configs \cup {Absent, Corrupt}
  /\ legacy \in OlderKeys
  /\ cfg = Default
  /\ regs = [config |-> Default, command |-> FALSE, status |-> "ok"]
  /\ pending = FALSE /\ queued = FALSE /\ done = FALSE
  /\ result = "ok" /\ worker = AtRest
  /\ client = [c \in Clients |-> "idle"]
  /\ shell = [at |-> "idle", config |-> Default]

-----------------------------------------------------------------------------
(***************************************************************************)
(* holding_reg_wr of the configuration and command registers.              *)
(***************************************************************************)
Edit(config) ==
  /\ up
  /\ regs' = [regs EXCEPT !.config = config]
  /\ UNCHANGED <<up, flash, cfg, save, client, shell>>

\* A value other than SAVE.
NotSave ==
  /\ up
  /\ regs' = [regs EXCEPT !.status = "invalid", !.command = FALSE]
  /\ UNCHANGED <<up, flash, cfg, save, client, shell>>

Busy(c) ==
  /\ up /\ client[c] = "idle" /\ pending
  /\ regs' = [regs EXCEPT !.status = "busy", !.command = FALSE]
  /\ UNCHANGED <<up, flash, cfg, save, client, shell>>

\* k_sem_reset aborts the wait of a caller that is still there.
Save(c) ==
  /\ up /\ client[c] = "idle" /\ ~pending
  /\ pending' = TRUE /\ queued' = TRUE /\ done' = FALSE
  /\ regs' = [regs EXCEPT !.status = "pending", !.command = TRUE]
  /\ client' = [d \in Clients |-> IF d = c THEN "taking"
                                  ELSE IF client[d] = "waiting" THEN "late"
                                  ELSE client[d]]
  /\ UNCHANGED <<up, flash, cfg, worker, result, shell>>

\* k_sem_take finds the semaphore given, or waits for it.
Take(c) ==
  /\ client[c] = "taking"
  /\ client' = [client EXCEPT ![c] = IF done THEN "woken" ELSE "waiting"]
  /\ done' = FALSE
  /\ UNCHANGED <<up, flash, cfg, regs, pending, queued, worker, result,
                 shell>>

\* Mutant of Timeout: the wait is K_FOREVER.
TimeoutNever(c) == client[c] = "waiting" /\ FALSE /\ UNCHANGED vars

\* APP_MODBUS_CMD_TIMEOUT_MS.
Timeout(c) ==
  /\ client[c] = "waiting"
  /\ client' = [client EXCEPT ![c] = "late"]
  /\ UNCHANGED <<up, flash, cfg, regs, save, shell>>

\* Mutant of ReturnLate: the caller gives its command up.
ReturnLateGivesUp(c) ==
  /\ client[c] = "late"
  /\ client' = [client EXCEPT ![c] = "idle"]
  /\ regs' = [regs EXCEPT !.status = "timeout"]
  /\ pending' = FALSE
  /\ UNCHANGED <<up, flash, cfg, queued, worker, done, result, shell>>

ReturnLate(c) ==
  /\ client[c] = "late"
  /\ client' = [client EXCEPT ![c] = "idle"]
  /\ regs' = [regs EXCEPT !.status = "timeout"]
  /\ UNCHANGED <<up, flash, cfg, save, shell>>

\* The caller returns command_result.
Return(c) ==
  /\ client[c] = "woken"
  /\ client' = [client EXCEPT ![c] = "idle"]
  /\ UNCHANGED <<up, flash, cfg, regs, save, shell>>

-----------------------------------------------------------------------------
(***************************************************************************)
(* modbus_command_work_handler, on modbus_cmd_wq.                          *)
(***************************************************************************)
Waits(place) == up /\ worker.at = place

WorkBegin ==
  /\ Waits("idle") /\ queued
  /\ queued' = FALSE
  /\ worker' = [worker EXCEPT !.at = "collect"]
  /\ UNCHANGED <<up, flash, cfg, regs, pending, done, result, client,
                 shell>>

\* The snapshot of save_holding_regs_config.
WorkCollect ==
  /\ Waits("collect")
  /\ worker' =
       IF regs.config = BadMode
       THEN [worker EXCEPT !.at = "complete", !.ret = "invalid"]
       ELSE [worker EXCEPT !.at = "persist", !.config = regs.config]
  /\ UNCHANGED <<up, flash, cfg, regs, pending, queued, done, result,
                 client, shell>>

\* Mutant of WorkPersist: what settings_save_one answers is ignored.
WorkPersistUnchecked(written) ==
  /\ Waits("persist")
  /\ blob' = IF written THEN worker.config ELSE blob
  /\ worker' = [worker EXCEPT !.at = "store", !.ret = "ok"]
  /\ UNCHANGED <<up, legacy, cfg, regs, pending, queued, done, result,
                 client, shell>>

\* net_cfg_set_saved: settings_save_one ...
WorkPersist(written) ==
  /\ Waits("persist")
  /\ blob' = IF written THEN worker.config ELSE blob
  /\ worker' = [worker EXCEPT !.at = IF written THEN "store" ELSE "complete",
                              !.ret = IF written THEN "ok" ELSE "failed"]
  /\ UNCHANGED <<up, legacy, cfg, regs, pending, queued, done, result,
                 client, shell>>

\* ... the copy under cfg_lock ...
WorkStore ==
  /\ Waits("store")
  /\ cfg' = worker.config
  /\ worker' = [worker EXCEPT !.at = "notify"]
  /\ UNCHANGED <<up, flash, regs, pending, queued, done, result, client,
                 shell>>

\* ... and the change callback, modbus_net_cfg_changed.
WorkNotify ==
  /\ Waits("notify")
  /\ regs' = [regs EXCEPT !.config = cfg]
  /\ worker' = [worker EXCEPT !.at = "complete"]
  /\ UNCHANGED <<up, flash, cfg, pending, queued, done, result, client,
                 shell>>

\* Mutant of WorkComplete: only a successful save releases the command.
WorkCompleteOnSuccess ==
  /\ Waits("complete")
  /\ regs' = [regs EXCEPT !.status = worker.ret, !.command = FALSE]
  /\ pending' = (worker.ret # "ok")
  /\ worker' = [worker EXCEPT !.at = IF worker.ret = "ok" THEN "sync" ELSE "give"]
  /\ UNCHANGED <<up, flash, cfg, queued, done, result, client, shell>>

\* complete_pending_command, under the mutex.
WorkComplete ==
  /\ Waits("complete")
  /\ regs' = [regs EXCEPT !.status = worker.ret, !.command = FALSE]
  /\ pending' = FALSE
  /\ worker' = [worker EXCEPT !.at = IF worker.ret = "ok" THEN "sync" ELSE "give"]
  /\ UNCHANGED <<up, flash, cfg, queued, done, result, client, shell>>

WorkSync ==
  /\ Waits("sync")
  /\ regs' = [regs EXCEPT !.config = cfg]
  /\ worker' = [worker EXCEPT !.at = "give"]
  /\ UNCHANGED <<up, flash, cfg, pending, queued, done, result, client,
                 shell>>

\* command_result, then k_sem_give: it wakes the caller that waits, if any.
WorkGive ==
  /\ Waits("give")
  /\ result' = worker.ret
  /\ LET waits == {c \in Clients : client[c] = "waiting"}
     IN  IF waits = {} THEN done' = TRUE /\ UNCHANGED client
         ELSE /\ \E c \in waits : client' = [client EXCEPT ![c] = "woken"]
              /\ UNCHANGED done
  /\ worker' = AtRest
  /\ UNCHANGED <<up, flash, cfg, regs, pending, queued, shell>>

-----------------------------------------------------------------------------
(***************************************************************************)
(* "ip dhcp" and "ip static": net_cfg_set_saved in the shell thread.       *)
(***************************************************************************)
ShellSet(config) ==
  /\ up /\ shell.at = "idle"
  /\ shell' = [at |-> "persist", config |-> config]
  /\ UNCHANGED <<up, flash, cfg, regs, save, client>>

ShellPersist(written) ==
  /\ up /\ shell.at = "persist"
  /\ blob' = IF written THEN shell.config ELSE blob
  /\ shell' = [shell EXCEPT !.at = IF written THEN "store" ELSE "idle"]
  /\ UNCHANGED <<up, legacy, cfg, regs, save, client>>

ShellStore ==
  /\ up /\ shell.at = "store"
  /\ cfg' = shell.config
  /\ shell' = [shell EXCEPT !.at = "notify"]
  /\ UNCHANGED <<up, flash, regs, save, client>>

ShellNotify ==
  /\ up /\ shell.at = "notify"
  /\ regs' = [regs EXCEPT !.config = cfg]
  /\ shell' = [at |-> "idle", config |-> Default]
  /\ UNCHANGED <<up, flash, cfg, save, client>>

-----------------------------------------------------------------------------
Power == Restart \/ \E written \in BOOLEAN :
  \E read \in IF ReadMayFail THEN BOOLEAN ELSE {TRUE} : Boot(read, written)

Call(c) == Save(c) \/ Busy(c)
Wait(c) == Take(c) \/ Timeout(c) \/ ReturnLate(c) \/ Return(c)

Work ==
  \/ WorkBegin \/ WorkCollect \/ WorkStore \/ WorkNotify
  \/ WorkComplete \/ WorkSync \/ WorkGive
  \/ \E written \in BOOLEAN : WorkPersist(written)

ShellStep ==
  \/ ShellStore \/ ShellNotify
  \/ \E written \in BOOLEAN : ShellPersist(written)

Next ==
  \/ Power
  \/ \E config \in Configs \cup {BadMode} : Edit(config)
  \/ NotSave
  \/ \E c \in Clients : Call(c) \/ Wait(c)
  \/ Work
  \/ \E config \in ShellConfigs : ShellSet(config)
  \/ ShellStep

Spec == Init /\ [][Next]_vars

\* Threads that are ready run, and a wait ends at its timeout.
FairSpec ==
  /\ Spec
  /\ WF_vars(Work) /\ WF_vars(ShellStep)
  /\ \A c \in Clients : WF_vars(Wait(c))

-----------------------------------------------------------------------------
(***************************************************************************)
(* command_pending is exact: it is up precisely while the work is queued   *)
(* for it or has not published its result, whatever the callers' timeouts, *)
(* so that REG8 neither stays busy for ever nor runs two saves at once.    *)
(***************************************************************************)
PendingIsServed ==
  pending <=> \/ queued
              \/ worker.at \in {"collect", "persist", "store", "notify",
                                "complete"}

(***************************************************************************)
(* DES04_Network.md: net_cfg_get_saved() returns what the next boot will   *)
(* apply.  True between saves, across power cuts at any step of one, as    *)
(* long as there is a single thread that saves.                            *)
(***************************************************************************)
SavedIsNextBoot ==
  up /\ blob \in Configs /\ worker.at # "store" /\ shell.at # "store"
    => cfg = blob

(***************************************************************************)
(* A save that was accepted ends, and every caller gets an answer, within  *)
(* its timeout when another caller has taken the wake-up meant for it.     *)
(***************************************************************************)
SaveEnds == pending ~> ~pending
CallersReturn == \A c \in Clients : client[c] # "idle" ~> client[c] = "idle"
=============================================================================

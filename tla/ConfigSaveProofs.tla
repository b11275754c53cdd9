-------------------------- MODULE ConfigSaveProofs --------------------------
(***************************************************************************)
(* The SAVE command for any number of callers and configurations: REG8 is  *)
(* busy exactly while a save is queued or has not published its result,    *)
(* and the configuration in RAM is the one the next boot applies.          *)
(***************************************************************************)
EXTENDS ConfigSave, TLAPS

USE ConfigAssumption

WorkerPlaces == {"idle", "collect", "persist", "store", "notify", "complete",
                 "sync", "give"}
Worker == [at : WorkerPlaces, config : Configs, ret : Results]
ShellSave == [at : {"idle", "persist", "store", "notify"}, config : Configs]
Registers == [config : Configs \cup {BadMode}, command : BOOLEAN, status : Statuses]

\* Nothing is under way before the boot.
AtRestWhenDown == ~up => worker = AtRest /\ ~queued /\ ~pending

\* A save is either queued or being executed, so no second one waits behind it.
OneSave == queued => worker.at \in {"idle", "sync", "give"}

SaveInv ==
  /\ TypeOK
  /\ AtRestWhenDown
  /\ OneSave
  /\ PendingIsServed

-----------------------------------------------------------------------------
LEMMA RestTypes == AtRest \in Worker
BY DEF AtRest, Worker, WorkerPlaces, Results

LEMMA SaveInit == Init => SaveInv
<1> SUFFICES ASSUME Init
             PROVE  SaveInv
  OBVIOUS
<1>1. TypeOK
  <2>1. worker \in Worker
    BY RestTypes DEF Init
  <2>2. regs \in Registers
    BY DEF Init, Registers, Statuses, Results
  <2>3. client \in [Clients -> {"idle", "taking", "waiting", "late", "woken"}]
    BY DEF Init
  <2>4. shell \in ShellSave
    BY DEF Init, ShellSave
  <2> QED  BY <2>1, <2>2, <2>3, <2>4
           DEF Init, TypeOK, Worker, WorkerPlaces, Registers, ShellSave, Results
<1>2. AtRestWhenDown /\ OneSave /\ PendingIsServed
  BY DEF Init, AtRest, AtRestWhenDown, OneSave, PendingIsServed
<1> QED  BY <1>1, <1>2 DEF SaveInv

\* net_cfg_load takes its configuration from the valid ones only.
LEMMA LoadedTypes ==
  ASSUME TypeOK
  PROVE  Loaded \in Configs /\ HalfLoaded \subseteq Configs
BY DEF Loaded, HalfLoaded

LEMMA PowerKeepsTypes ==
  ASSUME TypeOK, Power
  PROVE  TypeOK'
<1>1. ASSUME NEW read \in BOOLEAN, NEW written \in BOOLEAN, Boot(read, written)
      PROVE  TypeOK'
  <2>1. cfg' \in Configs
    BY <1>1, LoadedTypes DEF Boot, net_cfg_load
  <2>2. blob' \in Configs \cup {Absent, Corrupt}
    BY <1>1, LoadedTypes DEF Boot, net_cfg_load, TypeOK
  <2>3. regs' \in Registers
    BY <1>1, <2>1 DEF Boot, Registers, Statuses, Results
  <2> QED  BY <1>1, <2>1, <2>2, <2>3 DEF Boot, net_cfg_load, save, TypeOK, Registers
<1>2. CASE Restart
  <2>1. worker' \in Worker
    BY <1>2, RestTypes DEF Restart
  <2>2. client' \in [Clients -> {"idle", "taking", "waiting", "late", "woken"}]
    BY <1>2 DEF Restart
  <2>3. shell' \in ShellSave
    BY <1>2 DEF Restart, ShellSave
  <2> QED  BY <1>2, <2>1, <2>2, <2>3
           DEF Restart, flash, TypeOK, Worker, WorkerPlaces, ShellSave, Results
<1> QED  BY <1>1, <1>2 DEF Power

LEMMA CallerKeepsTypes ==
  ASSUME TypeOK,
         \/ \E config \in Configs \cup {BadMode} : Edit(config)
         \/ NotSave
         \/ \E c \in Clients : Call(c) \/ Wait(c)
  PROVE  TypeOK'
<1> DEFINE Places == {"idle", "taking", "waiting", "late", "woken"}
<1>1. regs \in Registers /\ client \in [Clients -> Places]
  BY DEF TypeOK, Registers
<1>2. ASSUME NEW config \in Configs \cup {BadMode}, Edit(config)
      PROVE  TypeOK'
  <2>1. regs' \in Registers
    BY <1>1, <1>2 DEF Edit, Registers
  <2> QED  BY <1>2, <2>1 DEF Edit, TypeOK, flash, save, Registers
<1>3. CASE NotSave
  <2>1. regs' \in Registers
    BY <1>1, <1>3 DEF NotSave, Registers, Statuses, Results
  <2> QED  BY <1>3, <2>1 DEF NotSave, TypeOK, flash, save, Registers
<1>4. ASSUME NEW c \in Clients, Busy(c)
      PROVE  TypeOK'
  <2>1. regs' \in Registers
    BY <1>1, <1>4 DEF Busy, Registers, Statuses, Results
  <2> QED  BY <1>4, <2>1 DEF Busy, TypeOK, flash, save, Registers
<1>5. ASSUME NEW c \in Clients, Save(c)
      PROVE  TypeOK'
  <2>1. regs' \in Registers
    BY <1>1, <1>5 DEF Save, Registers, Statuses, Results
  <2>2. client' \in [Clients -> Places]
    BY <1>1, <1>5 DEF Save
  <2> QED  BY <1>5, <2>1, <2>2 DEF Save, TypeOK, flash, Registers
<1>6. ASSUME NEW c \in Clients, Take(c)
      PROVE  TypeOK'
  <2>1. client' \in [Clients -> Places]
    BY <1>1, <1>6 DEF Take
  <2> QED  BY <1>6, <2>1 DEF Take, TypeOK, flash
<1>7. ASSUME NEW c \in Clients, Timeout(c) \/ Return(c)
      PROVE  TypeOK'
  <2>1. client' \in [Clients -> Places]
    BY <1>1, <1>7 DEF Timeout, Return
  <2> QED  BY <1>7, <2>1 DEF Timeout, Return, TypeOK, flash, save
<1>8. ASSUME NEW c \in Clients, ReturnLate(c)
      PROVE  TypeOK'
  <2>1. client' \in [Clients -> Places]
    BY <1>1, <1>8 DEF ReturnLate
  <2>2. regs' \in Registers
    BY <1>1, <1>8 DEF ReturnLate, Registers, Statuses
  <2> QED  BY <1>8, <2>1, <2>2 DEF ReturnLate, TypeOK, flash, save, Registers
<1> QED  BY <1>2, <1>3, <1>4, <1>5, <1>6, <1>7, <1>8 DEF Call, Wait

LEMMA WorkKeepsTypes ==
  ASSUME TypeOK, Work
  PROVE  TypeOK'
<1> DEFINE Places == {"idle", "taking", "waiting", "late", "woken"}
<1>1. worker \in Worker /\ regs \in Registers /\ client \in [Clients -> Places]
  BY DEF TypeOK, Worker, WorkerPlaces, Registers
<1>2. CASE WorkBegin
  <2>1. worker' \in Worker
    BY <1>1, <1>2 DEF WorkBegin, Worker, WorkerPlaces
  <2> QED  BY <1>2, <2>1 DEF WorkBegin, TypeOK, flash, Worker, WorkerPlaces
<1>3. CASE WorkCollect
  <2>1. worker' \in Worker
    <3>1. CASE regs.config = BadMode
      BY <1>1, <1>3, <3>1 DEF WorkCollect, Worker, WorkerPlaces, Results
    <3>2. CASE regs.config # BadMode
      BY <1>1, <1>3, <3>2 DEF WorkCollect, Worker, WorkerPlaces, Registers
    <3> QED  BY <3>1, <3>2
  <2> QED  BY <1>3, <2>1 DEF WorkCollect, TypeOK, flash, Worker, WorkerPlaces
<1>4. ASSUME NEW written \in BOOLEAN, WorkPersist(written)
      PROVE  TypeOK'
  <2>1. worker' \in Worker
    BY <1>1, <1>4 DEF WorkPersist, Worker, WorkerPlaces, Results
  <2>2. blob' \in Configs \cup {Absent, Corrupt}
    BY <1>1, <1>4 DEF WorkPersist, TypeOK, Worker
  <2> QED  BY <1>4, <2>1, <2>2 DEF WorkPersist, TypeOK, Worker, WorkerPlaces
<1>5. CASE WorkStore
  <2>1. worker' \in Worker /\ cfg' \in Configs
    BY <1>1, <1>5 DEF WorkStore, Worker, WorkerPlaces
  <2> QED  BY <1>5, <2>1 DEF WorkStore, TypeOK, flash, Worker, WorkerPlaces
<1>6. CASE WorkNotify \/ WorkSync
  <2>1. worker' \in Worker /\ regs' \in Registers
    BY <1>1, <1>6 DEF WorkNotify, WorkSync, Worker, WorkerPlaces, Registers, TypeOK
  <2> QED  BY <1>6, <2>1 DEF WorkNotify, WorkSync, TypeOK, flash, Worker, WorkerPlaces,
                             Registers
<1>7. CASE WorkComplete
  <2>1. worker' \in Worker
    BY <1>1, <1>7 DEF WorkComplete, Worker, WorkerPlaces
  <2>2. regs' \in Registers
    BY <1>1, <1>7 DEF WorkComplete, Worker, Registers, Statuses
  <2> QED  BY <1>7, <2>1, <2>2 DEF WorkComplete, TypeOK, flash, Worker, WorkerPlaces,
                                   Registers
<1>8. CASE WorkGive
  <2>1. worker' \in Worker
    BY <1>8, RestTypes DEF WorkGive
  <2>2. result' \in Results
    BY <1>1, <1>8 DEF WorkGive, Worker
  <2>3. \/ done' = TRUE /\ client' = client
        \/ done' = done /\ \E c \in Clients : client' = [client EXCEPT ![c] = "woken"]
    BY <1>8 DEF WorkGive
  <2>4. client' \in [Clients -> Places] /\ done' \in BOOLEAN
    BY <1>1, <2>3 DEF TypeOK
  <2> QED  BY <1>8, <2>1, <2>2, <2>4 DEF WorkGive, TypeOK, flash, Worker, WorkerPlaces
<1> QED  BY <1>2, <1>3, <1>4, <1>5, <1>6, <1>7, <1>8 DEF Work

LEMMA ShellKeepsTypes ==
  ASSUME TypeOK, (\E config \in ShellConfigs : ShellSet(config)) \/ ShellStep
  PROVE  TypeOK'
<1>1. shell \in ShellSave
  BY DEF TypeOK, ShellSave
<1>2. ASSUME NEW config \in ShellConfigs, ShellSet(config)
      PROVE  TypeOK'
  <2>1. shell' \in ShellSave
    BY <1>2 DEF ShellSet, ShellSave
  <2> QED  BY <1>2, <2>1 DEF ShellSet, TypeOK, flash, save, ShellSave
<1>3. ASSUME NEW written \in BOOLEAN, ShellPersist(written)
      PROVE  TypeOK'
  <2>1. shell' \in ShellSave
    BY <1>1, <1>3 DEF ShellPersist, ShellSave
  <2>2. blob' \in Configs \cup {Absent, Corrupt}
    BY <1>1, <1>3 DEF ShellPersist, TypeOK, ShellSave
  <2> QED  BY <1>3, <2>1, <2>2 DEF ShellPersist, TypeOK, save, ShellSave
<1>4. CASE ShellStore
  <2>1. shell' \in ShellSave /\ cfg' \in Configs
    BY <1>1, <1>4 DEF ShellStore, ShellSave
  <2> QED  BY <1>4, <2>1 DEF ShellStore, TypeOK, flash, save, ShellSave
<1>5. CASE ShellNotify
  <2>1. shell' \in ShellSave
    BY <1>5 DEF ShellNotify, ShellSave
  <2>2. regs' \in Registers
    BY <1>5 DEF ShellNotify, Registers, TypeOK
  <2> QED  BY <1>5, <2>1, <2>2 DEF ShellNotify, TypeOK, flash, save, ShellSave,
                                   Registers
<1> QED  BY <1>2, <1>3, <1>4, <1>5 DEF ShellStep

LEMMA TypeNext ==
  ASSUME TypeOK, Next
  PROVE  TypeOK'
BY PowerKeepsTypes, CallerKeepsTypes, WorkKeepsTypes, ShellKeepsTypes DEF Next
-----------------------------------------------------------------------------
(***************************************************************************)
(* command_pending and the work.                                           *)
(***************************************************************************)
Served == AtRestWhenDown /\ OneSave /\ PendingIsServed

\* Whoever is not the saver, the worker or the reboot leaves the handshake alone.
LEMMA BystanderKeepsServed ==
  ASSUME Served, UNCHANGED <<up, pending, queued, worker>>
  PROVE  Served'
BY DEF Served, AtRestWhenDown, OneSave, PendingIsServed

LEMMA ServedNext ==
  ASSUME TypeOK, Served, Next
  PROVE  Served'
<1> USE DEF Served, AtRestWhenDown, OneSave, PendingIsServed
<1>1. worker \in Worker
  BY DEF TypeOK, Worker, WorkerPlaces
<1>2. ASSUME NEW read \in BOOLEAN, NEW written \in BOOLEAN, Boot(read, written)
      PROVE  Served'
  BY <1>2 DEF Boot, save, AtRest
<1>3. CASE Restart
  BY <1>3 DEF Restart, AtRest
<1>4. ASSUME \/ \E config \in Configs \cup {BadMode} : Edit(config)
             \/ NotSave
             \/ \E config \in ShellConfigs : ShellSet(config)
             \/ ShellStep
             \/ \E c \in Clients : Busy(c) \/ Wait(c)
      PROVE  Served'
  <2>1. UNCHANGED <<up, pending, queued, worker>>
    BY <1>4 DEF Edit, NotSave, ShellSet, ShellStep, ShellPersist, ShellStore,
                ShellNotify, Busy, Wait, Take, Timeout, ReturnLate, Return, save
  <2> QED  BY <2>1, BystanderKeepsServed
<1>5. ASSUME NEW c \in Clients, Save(c)
      PROVE  Served'
  BY <1>1, <1>5 DEF Save, Worker, WorkerPlaces
<1>6. CASE WorkBegin
  BY <1>1, <1>6 DEF WorkBegin, Waits, Worker
<1>7. CASE WorkCollect
  <2>1. worker'.at \in {"complete", "persist"}
    BY <1>1, <1>7 DEF WorkCollect, Worker
  <2> QED  BY <1>7, <2>1 DEF WorkCollect, Waits
<1>8. ASSUME NEW written \in BOOLEAN, WorkPersist(written)
      PROVE  Served'
  <2>1. worker'.at \in {"complete", "store"}
    BY <1>1, <1>8 DEF WorkPersist, Worker
  <2> QED  BY <1>8, <2>1 DEF WorkPersist, Waits
<1>9. CASE WorkStore
  BY <1>1, <1>9 DEF WorkStore, Waits, Worker
<1>10. CASE WorkNotify
  BY <1>1, <1>10 DEF WorkNotify, Waits, Worker
<1>11. CASE WorkComplete
  <2>1. worker'.at \in {"sync", "give"}
    BY <1>1, <1>11 DEF WorkComplete, Worker
  <2> QED  BY <1>11, <2>1 DEF WorkComplete, Waits
<1>12. CASE WorkSync
  BY <1>1, <1>12 DEF WorkSync, Waits, Worker
<1>13. CASE WorkGive
  BY <1>1, <1>13 DEF WorkGive, Waits, AtRest
<1> QED  BY <1>2, <1>3, <1>4, <1>5, <1>6, <1>7, <1>8, <1>9, <1>10, <1>11, <1>12, <1>13
         DEF Next, Power, Call, Work

LEMMA SaveNext ==
  ASSUME SaveInv, [Next]_vars
  PROVE  SaveInv'
<1>1. CASE Next
  BY <1>1, TypeNext, ServedNext DEF SaveInv, Served
<1>2. CASE UNCHANGED vars
  BY <1>2 DEF vars, SaveInv, TypeOK, AtRestWhenDown, OneSave, PendingIsServed
<1> QED  BY <1>1, <1>2

\* The invariant that the theorems below rest on.
THEOREM SaveInvariant == Spec => []SaveInv
<1>1. Init => SaveInv
  BY SaveInit
<1>2. SaveInv /\ [Next]_vars => SaveInv'
  BY SaveNext
<1> QED  BY <1>1, <1>2, PTL DEF Spec

\* What the registers, the worker and the flash may hold.
THEOREM SaveTypes == Spec => []TypeOK
<1>1. SaveInv => TypeOK
  BY DEF SaveInv
<1> QED  BY <1>1, SaveInvariant, PTL

\* command_pending is exact for any number of callers, whenever they give up
\* and wherever the power goes: REG8 neither stays busy nor runs two saves.
THEOREM SavePending == Spec => []PendingIsServed
<1>1. SaveInv => PendingIsServed
  BY DEF SaveInv
<1> QED  BY <1>1, SaveInvariant, PTL

-----------------------------------------------------------------------------
(***************************************************************************)
(* The copy in RAM and the one in flash.                                   *)
(***************************************************************************)

\* With no second thread that saves, what is in flash between settings_save_one
\* and the copy under cfg_lock is what the worker is about to copy.
OneSaver ==
  /\ shell.at = "idle"
  /\ worker.at = "store" => blob = worker.config
  /\ SavedIsNextBoot

LEMMA OneSaverInit == Init => OneSaver
BY DEF Init, OneSaver, SavedIsNextBoot, AtRest

LEMMA OneSaverNext ==
  ASSUME ShellConfigs = {}, ~ReadMayFail, SaveInv, OneSaver, [Next]_vars
  PROVE  OneSaver'
<1> USE DEF OneSaver, SavedIsNextBoot
<1>1. worker \in Worker /\ AtRestWhenDown
  BY DEF SaveInv, TypeOK, Worker, WorkerPlaces
<1>2. ASSUME NEW written \in BOOLEAN, Boot(TRUE, written)
      PROVE  OneSaver'
  <2>1. blob' \in Configs => blob' = cfg'
    BY <1>2 DEF Boot, net_cfg_load, Loaded
  <2> QED  BY <1>1, <1>2, <2>1 DEF Boot, save, AtRestWhenDown, AtRest
<1>3. CASE Restart
  BY <1>3 DEF Restart, AtRest
<1>4. ASSUME \/ \E config \in Configs \cup {BadMode} : Edit(config)
             \/ NotSave
             \/ \E c \in Clients : Call(c) \/ Wait(c)
             \/ UNCHANGED vars
      PROVE  OneSaver'
  <2>1. UNCHANGED <<up, blob, cfg, worker, shell>>
    BY <1>4 DEF Edit, NotSave, Call, Save, Busy, Wait, Take, Timeout, ReturnLate,
                Return, save, flash, vars
  <2> QED  BY <2>1
<1>5. CASE WorkBegin \/ WorkNotify \/ WorkComplete \/ WorkSync \/ WorkGive
  <2>1. UNCHANGED <<up, blob, cfg, shell>> /\ worker.at # "store"
    BY <1>5 DEF WorkBegin, WorkNotify, WorkComplete, WorkSync, WorkGive, Waits, flash
  <2>2. worker'.at # "store"
    BY <1>1, <1>5 DEF WorkBegin, WorkNotify, WorkComplete, WorkSync, WorkGive, AtRest,
                      Worker
  <2> QED  BY <2>1, <2>2
<1>6. CASE WorkCollect
  <2>1. UNCHANGED <<up, blob, cfg, shell>> /\ worker.at # "store"
    BY <1>6 DEF WorkCollect, Waits, flash
  <2>2. worker'.at # "store"
    BY <1>1, <1>6 DEF WorkCollect, Worker
  <2> QED  BY <2>1, <2>2
<1>7. ASSUME NEW written \in BOOLEAN, WorkPersist(written)
      PROVE  OneSaver'
  <2>1. CASE written
    <3>1. blob' = worker.config /\ worker'.at = "store" /\ worker'.config = worker.config
      BY <1>1, <1>7, <2>1 DEF WorkPersist, Worker
    <3> QED  BY <1>7, <3>1 DEF WorkPersist
  <2>2. CASE ~written
    <3>1. blob' = blob /\ worker'.at = "complete"
      BY <1>1, <1>7, <2>2 DEF WorkPersist, Worker
    <3> QED  BY <1>7, <3>1 DEF WorkPersist, Waits
  <2> QED  BY <2>1, <2>2
<1>8. CASE WorkStore
  <2>1. blob' = blob /\ blob = worker.config /\ cfg' = worker.config /\ shell' = shell
    BY <1>8 DEF WorkStore, Waits, flash
  <2>2. worker'.at = "notify"
    BY <1>1, <1>8 DEF WorkStore, Worker
  <2> QED  BY <2>1, <2>2
<1>9. ShellStep => FALSE
  BY DEF ShellStep, ShellPersist, ShellStore, ShellNotify
<1> QED  BY <1>2, <1>3, <1>4, <1>5, <1>6, <1>7, <1>8, <1>9 DEF Next, Power, Work

\* net_cfg_get_saved returns what the next boot applies, across power cuts at
\* any step of a save, as long as the SAVE command is the only one that saves
\* ("ip dhcp" and "ip static" do it in the shell's thread) and the boot could
\* read the settings.
THEOREM SaveNextBoot ==
  ASSUME ShellConfigs = {}, ~ReadMayFail
  PROVE  Spec => []SavedIsNextBoot
<1>1. Init => OneSaver
  BY OneSaverInit
<1>2. SaveInv /\ OneSaver /\ [Next]_vars => OneSaver'
  BY OneSaverNext
<1>3. OneSaver => SavedIsNextBoot
  BY DEF OneSaver
<1> QED  BY <1>1, <1>2, <1>3, SaveInvariant, PTL DEF Spec
=============================================================================

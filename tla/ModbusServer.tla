---------------------------- MODULE ModbusServer ----------------------------
(***************************************************************************)
(* The Modbus TCP server of the Cortex-M7 and the scanner images behind    *)
(* its Unit-ID 2 (app_modbus_tcp.c, app_modbus_scanner.c), with the two    *)
(* others that write registers and images: EtherNet/IP (app_eip.c) and the *)
(* PUT requests of the Web server (app_web.c).                             *)
(*                                                                         *)
(* The TCP thread and the system workqueue share one ADU, one semaphore    *)
(* and the Unit-ID in force.  Zephyr's RAW backend is external: it copies  *)
(* the ADU it is given, executes it on the workqueue and calls raw_tx_cb,  *)
(* except for a broadcast, which it executes without answering.            *)
(*                                                                         *)
(* Registers have their addresses.  Of the values only those the code      *)
(* looks at are kept; REG11 and REG13 hold who wrote them.  A section      *)
(* under holding_regs_lock is one action.                                  *)
(***************************************************************************)
EXTENDS Naturals, Sequences

CONSTANTS
  Requests,     \* what the Modbus clients may ask
  Images,       \* the output assemblies EtherNet/IP may receive
  Puts,         \* the writes the Web may ask
  MaxRequests,  \* bound: the Modbus requests
  MaxJobs       \* bound: the images and PUTs, of each

\* A request writes values from its first address on, then reads a table.
Request ==
  [unit : Nat, fits : BOOLEAN, first : Nat, values : Seq(Nat),
   table : {"holding", "input"}, reads : Seq(Nat)]

ASSUME ServerAssumption ==
  /\ Requests \subseteq Request /\ Puts \subseteq Request
  /\ \A r \in Requests \cup Puts : r.values # << >> \/ r.reads # << >>
  /\ \A r \in Puts : r.unit \in {1, 2} /\ r.reads = << >>
  /\ Images \subseteq [1 .. 5 -> Nat]   \* APP_EIP_ASSEMBLY_WORD_COUNT
  /\ MaxRequests \in Nat /\ MaxJobs \in Nat

COMMAND == 8
MODE == 10
CONTROL == 11
APPLY == 12
DUTY == 13
Slots == 0 .. 4
InputMap(slot) == 40 + slot
OutputMap(slot) == 45 + slot
Count == 60       \* APP_MODBUS_HOLDING_REG_COUNT
InputCount == 16  \* APP_MODBUS_INPUT_REG_COUNT
Free == 65535     \* APP_MB_SCAN_MAP_FREE

InputMaps == {InputMap(s) : s \in Slots}
OutputMaps == {OutputMap(s) : s \in Slots}
Kept == {MODE, CONTROL, DUTY} \cup InputMaps \cup OutputMaps
States == 20 .. 31
ReadOnly == States \cup {17, 18, 19}

Others == {"eip", "web"}
Writers == Others \cup {"wq"}
NoRequest ==
  [unit |-> 1, fits |-> TRUE, first |-> 0, values |-> << >>,
   table |-> "holding", reads |-> << >>]

VARIABLES
  tcp,      \* modbus_tcp_thread_fn: where it is, and the request it handles
  inbox,    \* the requests in the client's connection
  issued,   \* the requests sent so far
  adu,      \* tcp_adu: a request, or the answer to one
  ready,    \* raw_response_ready
  active,   \* active_request_unit_id
  queue,    \* RAW backend: the requests submitted to the workqueue
  job,      \* what each writer executes
  regs,     \* holding_regs
  valid,    \* motor_state_cache.valid
  eip,      \* the EtherNet/IP adapter and its connection
  jobs,     \* the images and PUTs so far
  sent,     \* the last motor command submitted: its mode, words and author
  late,     \* history: an answer was given up while it was being made
  foreign   \* history: of each writer, another has written since it began

server == <<tcp, inbox, issued, adu, ready, active, queue>>
data == <<regs, sent, foreign>>
vars == <<server, data, job, valid, eip, jobs, late>>

\* A job is a request with the place of its execution.
NoJob == [id |-> 0, asks |-> NoRequest, done |-> 0, at |-> "none", target |-> Free,
          saves |-> 0, failed |-> FALSE, own |-> TRUE]
Starting(id, r) == [NoJob EXCEPT !.id = id, !.asks = r, !.at = "word"]

Message(id, r) == [id |-> id, asks |-> r, kind |-> "request", own |-> TRUE]

\* init_modbus_server: the default mappings, of which the input is fault and duty.
Defaults ==
  [a \in Kept |->
     CASE a = InputMap(0) -> 24 [] a = InputMap(1) -> 21
       [] a = OutputMap(0) -> CONTROL [] a = OutputMap(1) -> DUTY
       [] a = OutputMap(2) -> APPLY
       [] a = MODE -> 0
       [] a \in {CONTROL, DUTY} -> "none"
       [] OTHER -> Free]

Init ==
  /\ tcp = [at |-> "start", id |-> 0]
  /\ inbox = << >> /\ issued = 0
  /\ adu = Message(0, NoRequest)
  /\ ready = FALSE /\ active = 1
  /\ queue = << >>
  /\ job = [t \in Writers |-> NoJob]
  /\ regs = Defaults
  /\ valid = FALSE
  /\ eip = "waiting"
  /\ jobs = [t \in Others |-> 0]
  /\ sent = [mode |-> 0, control |-> "none", duty |-> "none", by |-> "none"]
  /\ late = FALSE
  /\ foreign = [t \in Writers |-> FALSE]

-----------------------------------------------------------------------------
(***************************************************************************)
(* holding_reg_wr.                                                         *)
(***************************************************************************)
IsMapping(v) == v = Free \/ v < Count

\* Mutant of IsWritable: the mapping tables may be mapped.
IsWritableTables(v) == v = Free \/ v \notin ReadOnly

\* is_writable_output_scanner_mapping
IsWritable(v) ==
  v = Free \/ v \notin ReadOnly \cup InputMaps \cup OutputMaps

Refused(a, v) ==
  \/ a >= Count
  \/ a \in ReadOnly
  \/ a \in InputMaps \cup OutputMaps /\ ~IsMapping(v)
  \/ a \in OutputMaps /\ ~IsWritable(v)
  \/ a = MODE /\ v > 1
  \/ a \in {APPLY, COMMAND} /\ v # 1

Value(t) == job[t].asks.values[job[t].done + 1]
Address(t) == job[t].asks.first + job[t].done

\* The end of a job: a Modbus request goes on to its answer.
Ended(t, j, failed) ==
  IF t = "wq" THEN [j EXCEPT !.at = "answer", !.failed = failed] ELSE NoJob

\* After a word, the next one or the reads; a word that fails ends the job.
Advanced(t, j) ==
  LET next == [j EXCEPT !.done = @ + 1, !.at = "word", !.target = Free]
  IN  IF next.done < Len(j.asks.values) THEN next
      ELSE IF j.asks.reads # << >> THEN [next EXCEPT !.at = "read"]
      ELSE Ended(t, next, FALSE)

After(t, j, ok) == job' = [job EXCEPT ![t] = IF ok THEN Advanced(t, j) ELSE Ended(t, j, TRUE)]

\* A kept register is written under holding_regs_lock.
Set(t, a, v) ==
  /\ regs' = [regs EXCEPT ![a] = IF a \in {CONTROL, DUTY} THEN t ELSE v]
  /\ foreign' = [w \in Writers |-> foreign[w] \/ (w # t /\ job[w].at # "none")]

\* One call of holding_reg_wr by t, whose job is j.  APPLY submits the command
\* to the link, which may refuse it; SAVE waits for the work it submits.
Put(t, j, a, v) ==
  \/ /\ Refused(a, v)
     /\ After(t, j, FALSE)
     /\ UNCHANGED data
  \/ /\ ~Refused(a, v) /\ a = APPLY
     /\ \E taken \in BOOLEAN :
          /\ sent' = IF taken THEN [mode |-> regs[MODE], control |-> regs[CONTROL],
                                   duty |-> regs[DUTY], by |-> t]
                     ELSE sent
          /\ After(t, j, taken)
     /\ UNCHANGED <<regs, foreign>>
  \/ /\ ~Refused(a, v) /\ a = COMMAND
     /\ job' = [job EXCEPT ![t] = [j EXCEPT !.at = "saving"]]
     /\ UNCHANGED data
  \/ /\ ~Refused(a, v) /\ a \notin {APPLY, COMMAND}
     /\ IF a \in Kept THEN Set(t, a, v) ELSE UNCHANGED <<regs, foreign>>
     /\ After(t, j, TRUE)
     /\ UNCHANGED sent

\* modbus_cmd_wq has answered, refused or let the caller's 5 s pass.
SaveEnds(t, ok) ==
  /\ job[t].at = "saving"
  /\ After(t, [job[t] EXCEPT !.saves = @ + 1], ok)
  /\ UNCHANGED data

-----------------------------------------------------------------------------
(***************************************************************************)
(* routed_holding_reg_wr and app_modbus_scanner_output_reg_wr.             *)
(***************************************************************************)

\* A Modbus request is routed by the Unit-ID in force, word by word.
UnitOf(t) == IF t = "wq" THEN active ELSE job[t].asks.unit
Routed(t) ==
  [job[t] EXCEPT !.own = @ /\ ((UnitOf(t) = 2) <=> (job[t].asks.unit = 2))]

WriteRegister(t) ==
  /\ job[t].at = "word" /\ job[t].asks.values # << >>
  /\ UnitOf(t) # 2
  /\ Put(t, Routed(t), Address(t), Value(t))

\* The slot's target is read in a critical section of its own.
LookUp(t) ==
  /\ job[t].at = "word" /\ job[t].asks.values # << >>
  /\ UnitOf(t) = 2
  /\ IF Address(t) \notin Slots THEN After(t, Routed(t), FALSE)
     ELSE LET target == regs[OutputMap(Address(t))]
          IN  IF target = Free \/ (target = APPLY /\ Value(t) = 0)
              THEN After(t, Routed(t), TRUE)
              ELSE job' = [job EXCEPT ![t] =
                     [Routed(t) EXCEPT !.target = target,
                        !.at = IF target = APPLY THEN "claim" ELSE "write"]]
  /\ UNCHANGED data

\* Mutant of Claim: APPLY is written alone.
ClaimNothing(t) ==
  /\ job[t].at = "claim"
  /\ job' = [job EXCEPT ![t].at = "write"]
  /\ UNCHANGED data

\* An image that applies claims the remote mode first.
Claim(t) ==
  /\ job[t].at = "claim"
  /\ Set(t, MODE, 1)
  /\ job' = [job EXCEPT ![t].at = "write"]
  /\ UNCHANGED sent

WriteTarget(t) ==
  /\ job[t].at = "write"
  /\ Put(t, job[t], job[t].target, Value(t))

\* holding_reg_rd: the words of the M4 can be read once there are any.
Readable(a) == a < Count /\ (a \in States => valid)

\* app_modbus_scanner_input_reg_rd
SlotReadable(s) ==
  s \in Slots /\ (regs[InputMap(s)] = Free \/ Readable(regs[InputMap(s)]))

\* input_reg_rd: the words of the input table are computed when they are read.
InputReadable(a) == a < InputCount

\* routed_holding_reg_rd and routed_input_reg_rd: Unit-ID 2 has one table.
RoutedReadable(t, a) ==
  CASE UnitOf(t) = 2 -> SlotReadable(a)
    [] UnitOf(t) # 2 /\ job[t].asks.table = "input" -> InputReadable(a)
    [] OTHER -> Readable(a)

\* Every word the request reads; one that fails is the whole request's failure.
Read(t) ==
  /\ job[t].at = "read" \/ (job[t].at = "word" /\ job[t].asks.values = << >>)
  /\ LET reads == job[t].asks.reads
         ok == \A i \in DOMAIN reads : RoutedReadable(t, reads[i])
     IN  job' = [job EXCEPT ![t] = Ended(t, Routed(t), ~ok \/ reads = << >>)]
  /\ UNCHANGED data

Step(t) ==
  /\ \/ WriteRegister(t) \/ LookUp(t) \/ Claim(t) \/ WriteTarget(t) \/ Read(t)
     \/ \E ok \in BOOLEAN : SaveEnds(t, ok)
  /\ UNCHANGED <<server, valid, eip, jobs, late>>

\* What t's earlier jobs have left in the registers is not this job's.
Begin(t, j) ==
  /\ job' = [job EXCEPT ![t] = j]
  /\ regs' = [a \in Kept |-> IF a \in {CONTROL, DUTY} /\ regs[a] = t
                            THEN "none" ELSE regs[a]]
  /\ foreign' = [foreign EXCEPT ![t] = FALSE]
  /\ UNCHANGED sent

-----------------------------------------------------------------------------
(***************************************************************************)
(* The TCP thread, one connection and one request at a time.               *)
(***************************************************************************)
Goto(place) == tcp' = [tcp EXCEPT !.at = place]
Handled == <<data, job, valid, eip, jobs>>

Listen(ok) ==
  /\ tcp.at = "start"
  /\ Goto(IF ok THEN "accept" ELSE "dead")
  /\ UNCHANGED <<inbox, issued, adu, ready, active, queue, late, Handled>>

Accept ==
  /\ tcp.at = "accept"
  /\ Goto("recv")
  /\ UNCHANGED <<inbox, issued, adu, ready, active, queue, late, Handled>>

\* The client is external: it may send before it has its answer.
ClientSends(r) ==
  /\ tcp.at \in {"recv", "submit", "wait", "send"}
  /\ inbox = << >> /\ issued < MaxRequests
  /\ issued' = issued + 1
  /\ inbox' = <<Message(issued', r)>>
  /\ UNCHANGED <<tcp, adu, ready, active, queue, late, Handled>>

\* zsock_close; what the client had sent is lost.
Close == Goto("accept") /\ inbox' = << >>

Hangup ==
  /\ tcp.at = "recv" /\ inbox = << >>
  /\ Close
  /\ UNCHANGED <<issued, adu, ready, active, queue, late, Handled>>

\* A header that announces more than tcp_adu holds ends the connection.
Receive ==
  /\ tcp.at = "recv" /\ inbox # << >>
  /\ IF Head(inbox).asks.fits
     THEN /\ adu' = Head(inbox)
          /\ inbox' = Tail(inbox)
          /\ tcp' = [at |-> "submit", id |-> Head(inbox).id]
     ELSE Close /\ UNCHANGED adu
  /\ UNCHANGED <<issued, ready, active, queue, late, Handled>>

Interface(unit) == IF unit = 2 THEN 2 ELSE 1   \* RAW_0 and RAW_1

\* modbus_raw_submit_rx: an interface has room for one request that waits.
Submitted(m) ==
  LET same == {i \in DOMAIN queue :
                 Interface(queue[i].asks.unit) = Interface(m.asks.unit)}
  IN  IF same = {} THEN Append(queue, m)
      ELSE [i \in DOMAIN queue |-> IF i \in same THEN m ELSE queue[i]]

\* Mutant of Submit: the Unit-ID is routed once the request is submitted,
\* when the workqueue has already run.
SubmitBeforeRouting ==
  /\ tcp.at = "submit"
  /\ IF adu.asks.unit \notin {0, 1, 2} THEN Close /\ UNCHANGED <<ready, active, queue>>
     ELSE /\ ready' = FALSE
          /\ UNCHANGED active
          /\ queue' = Submitted(adu)
          /\ Goto("wait") /\ UNCHANGED inbox
  /\ UNCHANGED <<issued, adu, late, Handled>>

\* The answer to another Unit-ID is to close the connection.
Submit ==
  /\ tcp.at = "submit"
  /\ IF adu.asks.unit \notin {0, 1, 2} THEN Close /\ UNCHANGED <<ready, active, queue>>
     ELSE /\ ready' = FALSE
          /\ active' = adu.asks.unit
          /\ queue' = Submitted(adu)
          /\ Goto("wait") /\ UNCHANGED inbox
  /\ UNCHANGED <<issued, adu, late, Handled>>

Take ==
  /\ tcp.at = "wait" /\ ready
  /\ ready' = FALSE
  /\ Goto("send")
  /\ UNCHANGED <<inbox, issued, adu, active, queue, late, Handled>>

\* The 6 s of APP_MODBUS_RAW_TIMEOUT_MS pass when no answer is to come, and
\* during the second of two SAVEs, of 5 s at most each.
Idle == queue = << >> /\ job["wq"].at = "none"
Slow == job["wq"].at = "saving" /\ job["wq"].saves > 0

\* Mutant of Timeout: the thread waits for ever.
TimeoutNever == FALSE /\ UNCHANGED vars

Timeout ==
  /\ tcp.at = "wait" /\ ~ready /\ (Idle \/ Slow)
  /\ adu' = [adu EXCEPT !.kind = "failure"]
  /\ late' = (late \/ Slow)
  /\ Goto("send")
  /\ UNCHANGED <<inbox, issued, ready, active, queue, Handled>>

\* send_modbus_reply.
Reply ==
  /\ tcp.at = "send"
  /\ Goto("recv")
  /\ UNCHANGED <<inbox, issued, adu, ready, active, queue, late, Handled>>

ReplyFails ==
  /\ tcp.at = "send"
  /\ Close
  /\ UNCHANGED <<issued, adu, ready, active, queue, late, Handled>>

-----------------------------------------------------------------------------
(***************************************************************************)
(* The workqueue, EtherNet/IP, the Web and the M4.                         *)
(***************************************************************************)
Run ==
  /\ job["wq"].at = "none" /\ queue # << >>
  /\ Begin("wq", Starting(Head(queue).id, Head(queue).asks))
  /\ queue' = Tail(queue)
  /\ UNCHANGED <<tcp, inbox, issued, adu, ready, active, valid, eip, jobs, late>>

\* The answer to FC6 repeats it; the others would make no request.
Echo(r) == IF Len(r.values) = 1 /\ r.reads = << >> THEN r
           ELSE [NoRequest EXCEPT !.unit = r.unit]

\* raw_tx_cb; a broadcast is not answered.
Answer ==
  LET j == job["wq"]
  IN  /\ j.at = "answer"
      /\ IF j.asks.unit = 0 THEN UNCHANGED <<adu, ready>>
         ELSE /\ adu' = [id |-> j.id, asks |-> Echo(j.asks), own |-> j.own,
                         kind |-> IF j.failed THEN "exception" ELSE "answer"]
              /\ ready' = TRUE
      /\ job' = [job EXCEPT !["wq"] = NoJob]
      /\ UNCHANGED <<tcp, inbox, issued, active, queue, data, valid, eip, jobs, late>>

\* eip_thread_fn once it has an IPv4 address; the stack may fail, at once or in
\* NetworkHandlerProcessCyclic, and is then gone.
EipThread ==
  /\ \/ eip = "waiting" /\ eip' \in {"listening", "stopped"}
     \/ eip \in {"listening", "connected"} /\ eip' = "stopped"
  /\ job["eip"].at = "none"
  /\ UNCHANGED <<server, data, job, valid, jobs, late>>

\* CheckIoConnectionEvent: a connection is opened, closed or times out.
EipConnection ==
  /\ job["eip"].at = "none"
  /\ \/ eip = "listening" /\ eip' = "connected"
     \/ eip = "connected" /\ eip' = "listening"
  /\ UNCHANGED <<server, data, job, valid, jobs, late>>

\* AfterAssemblyDataReceived.
EipImage(image) ==
  /\ eip = "connected"
  /\ job["eip"].at = "none" /\ jobs["eip"] < MaxJobs
  /\ jobs' = [jobs EXCEPT !["eip"] = @ + 1]
  /\ Begin("eip", Starting(0, [NoRequest EXCEPT !.unit = 2, !.values = image]))
  /\ UNCHANGED <<server, valid, eip, late>>

\* handle_api_put and the save of handle_api_post.
WebPut(r) ==
  /\ job["web"].at = "none" /\ jobs["web"] < MaxJobs
  /\ jobs' = [jobs EXCEPT !["web"] = @ + 1]
  /\ Begin("web", Starting(0, r))
  /\ UNCHANGED <<server, valid, eip, late>>

\* The first state frame of the M4.
M4Publishes ==
  /\ ~valid /\ valid' = TRUE
  /\ UNCHANGED <<server, data, job, eip, jobs, late>>

TcpStep == Receive \/ Submit \/ Take \/ Timeout \/ Reply
WorkqueueStep == Run \/ Step("wq") \/ Answer

Next ==
  \/ \E ok \in BOOLEAN : Listen(ok)
  \/ Accept \/ Hangup \/ ReplyFails
  \/ \E r \in Requests : ClientSends(r)
  \/ TcpStep
  \/ WorkqueueStep
  \/ EipThread \/ EipConnection
  \/ \E image \in Images : EipImage(image)
  \/ \E r \in Puts : WebPut(r)
  \/ \E t \in Others : Step(t)
  \/ M4Publishes

Spec == Init /\ [][Next]_vars

\* The threads run, a SAVE ends within its 5 s and the 6 s pass.
FairSpec == Spec /\ WF_vars(TcpStep) /\ WF_vars(WorkqueueStep)

-----------------------------------------------------------------------------
(***************************************************************************)
(* Until a request outlasts the 6 s the server waits for it, each client   *)
(* gets the answer to its own request, executed on the unit it was         *)
(* addressed to: through the one ADU, the one semaphore and the one        *)
(* Unit-ID that all requests share.                                        *)
(***************************************************************************)
RepliesAnswerTheirRequest ==
  [][tcp.at = "send" /\ tcp'.at = "recv" =>
       late \/ (adu.id = tcp.id /\ adu.own /\ adu.kind # "request")]_vars

(***************************************************************************)
(* A command that an image applies carries the control word and the duty   *)
(* of that image, and is remote (DES04_Modbus.md, Unit-ID 2; DES04_        *)
(* EtherNetIP.md), when the mapping is the default one and no other client *)
(* has written since the image began.                                      *)
(***************************************************************************)
CommitTakesItsImage ==
  [][\A t \in Writers :
       /\ sent' # sent /\ sent'.by = t
       /\ job[t].asks.unit = 2 /\ job[t].asks.first = 0 /\ job[t].own
       /\ \A s \in 0 .. 2 : regs[OutputMap(s)] = Defaults[OutputMap(s)]
       /\ ~foreign[t]
       => sent' = [mode |-> 1, control |-> t, duty |-> t, by |-> t]]_vars

(***************************************************************************)
(* No image, of whatever mapping and by whatever client, writes the        *)
(* mapping tables: only a request to Unit-ID 1 or the Web's registers do   *)
(* (Eth_industriel_plan.md: a read-only target is refused).  An image that *)
(* a late answer has left under the Unit-ID of the next request is not     *)
(* executed as one.                                                        *)
(***************************************************************************)
ImagesKeepTheTables ==
  [][\A t \in Writers :
       /\ job'[t] # job[t] /\ job'[t].own
       /\ job[t].asks.unit = 2 /\ job[t].at # "none"
       => \A a \in InputMaps \cup OutputMaps : regs'[a] = regs[a]]_vars

(***************************************************************************)
(* Every request the server has received is answered, or its connection is *)
(* closed, whatever the workqueue was busy with.                           *)
(***************************************************************************)
Owing == inbox # << >> \/ tcp.at \in {"submit", "wait", "send"}

RequestsAreAnswered == Owing ~> ~Owing
=============================================================================

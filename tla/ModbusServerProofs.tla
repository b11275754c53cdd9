------------------------- MODULE ModbusServerProofs -------------------------
(***************************************************************************)
(* The Modbus server for any requests, images, PUTs and numbers of them:   *)
(* what an image may write, what the command it applies carries, and that  *)
(* every answer is that of its request while none is late.                 *)
(*                                                                         *)
(* The three action properties come from one inductive invariant,          *)
(* ServerInv: the jobs (JobOK, ImageOK), the tables (TablesOK) and the way *)
(* of the one request the server handles (OneAtATime).                     *)
(***************************************************************************)
EXTENDS ModbusServer, SequenceTheorems, TLAPS

Places == {"none", "word", "claim", "write", "saving", "read", "answer"}
AnyJob ==
  [id : Nat, asks : Request, done : Nat, at : Places, target : Nat,
   saves : Nat, failed : BOOLEAN, own : BOOLEAN]
AnyMessage ==
  [id : Nat, asks : Request, own : BOOLEAN,
   kind : {"request", "answer", "exception", "failure"}]

TypeOK ==
  /\ tcp \in [at : {"start", "dead", "accept", "recv", "submit", "wait", "send"},
              id : Nat]
  /\ inbox \in Seq(AnyMessage) /\ Len(inbox) <= 1
  /\ issued \in Nat
  /\ adu \in AnyMessage
  /\ ready \in BOOLEAN /\ active \in Nat
  /\ queue \in Seq(AnyMessage)
  /\ job \in [Writers -> AnyJob]
  /\ DOMAIN regs = Kept /\ regs = [a \in Kept |-> regs[a]]
  /\ jobs \in [Others -> Nat]
  /\ late \in BOOLEAN
  /\ foreign \in [Writers -> BOOLEAN]

\* An output table holds what holding_reg_wr lets into it.
TablesOK ==
  \A a \in OutputMaps : regs[a] \in Nat /\ IsWritable(regs[a])

\* A job that is writing, and the register it asks for.
Going == {"claim", "write"}
Busy == Going \cup {"saving"}
Place(j) == j.asks.first + j.done

\* What holds of a job whatever the others do.
JobOK(j) ==
  /\ j.at \in Busy => j.done < Len(j.asks.values)
  /\ j.at = "word" /\ j.asks.values # << >> => j.done < Len(j.asks.values)
  /\ j.at \in Going => j.target \notin InputMaps \cup OutputMaps
  /\ j.own /\ j.asks.unit = 2 =>
       /\ j.at \in Busy => Place(j) \in Slots
       /\ j.at = "word" => j.done = 0 \/ Place(j) <= 5

\* What holds of an image of t that is executed as one, with the registers r,
\* while nobody else writes them.
ImageOK(t, j, r) ==
  /\ j.at \in Busy => j.target = r[OutputMap(Place(j))]
  /\ j.at = "saving" => j.target = COMMAND
  /\ j.at = "write" /\ j.target = APPLY => r[MODE] = 1
  /\ j.at \in Busy \cup {"word"} /\ j.asks.first = 0 =>
       /\ j.done > 0 /\ r[OutputMap(0)] = CONTROL => r[CONTROL] = t
       /\ j.done > 1 /\ r[OutputMap(1)] = DUTY => r[DUTY] = t

Alone(t) == job[t].own /\ job[t].asks.unit = 2 /\ ~foreign[t]

JobsOK ==
  \A t \in Writers : JobOK(job[t]) /\ (Alone(t) => ImageOK(t, job[t], regs))

\* Until an answer is late: the workqueue is at rest except while the thread
\* waits, and what it then has is the request the thread waits for.
Resting == queue = << >> /\ job["wq"].at = "none"

Waiting ==
  \/ job["wq"].at = "none" /\ Len(queue) = 1 /\ queue[1] = adu
     /\ active = adu.asks.unit /\ ~ready
  \/ queue = << >> /\ job["wq"].at # "none" /\ job["wq"].id = tcp.id
     /\ job["wq"].own /\ job["wq"].asks.unit = active /\ ~ready
  \/ Resting /\ (ready => adu.kind # "request")

OneAtATime ==
  /\ Len(inbox) = 1 => inbox[1].own
  /\ ~late =>
       /\ tcp.at \in {"submit", "wait", "send"} => adu.id = tcp.id /\ adu.own
       /\ tcp.at # "wait" => Resting
       /\ tcp.at = "wait" => Waiting
       /\ tcp.at = "send" => adu.kind # "request"

ServerInv == TypeOK /\ TablesOK /\ JobsOK /\ OneAtATime

-----------------------------------------------------------------------------
(***************************************************************************)
(* The registers: the tables are apart from each other and from the motor  *)
(* command, and every slot has its own entry.                              *)
(***************************************************************************)
LEMMA Registers ==
  /\ InputMaps \subseteq 40 .. 44 /\ OutputMaps \subseteq 45 .. 49
  /\ \A s \in Slots : OutputMap(s) \in OutputMaps
  /\ InputMaps \cup OutputMaps \subseteq Kept
  /\ {MODE, CONTROL, DUTY} \subseteq Kept
  /\ {MODE, CONTROL, DUTY, APPLY, COMMAND} \cap (InputMaps \cup OutputMaps \cup ReadOnly) = {}
  /\ APPLY \notin Kept /\ COMMAND \notin Kept
  /\ CONTROL # DUTY /\ MODE \notin {CONTROL, DUTY} /\ APPLY # COMMAND
  /\ APPLY \notin {CONTROL, DUTY, MODE} /\ COMMAND \notin {CONTROL, DUTY, MODE}
  /\ Kept \subseteq Nat
BY DEF InputMaps, OutputMaps, InputMap, OutputMap, Slots, Kept, MODE, CONTROL, DUTY,
       APPLY, COMMAND, ReadOnly, States

LEMMA DefaultMapping ==
  /\ Defaults[OutputMap(0)] = CONTROL /\ Defaults[OutputMap(1)] = DUTY
  /\ Defaults[OutputMap(2)] = APPLY
BY DEF Defaults, InputMap, OutputMap, InputMaps, OutputMaps, Slots, Kept, MODE, CONTROL,
       DUTY, APPLY

LEMMA DefaultTables == \A a \in OutputMaps : Defaults[a] \in Nat /\ IsWritable(Defaults[a])
<1> SUFFICES ASSUME NEW s \in Slots
             PROVE  /\ Defaults[OutputMap(s)] \in Nat
                    /\ IsWritable(Defaults[OutputMap(s)])
  BY DEF OutputMaps
<1>1. OutputMap(s) \in Kept
  BY Registers
<1>2. OutputMap(s) \notin {InputMap(0), InputMap(1), MODE, CONTROL, DUTY}
  BY DEF OutputMap, InputMap, Slots, MODE, CONTROL, DUTY
<1>3. Defaults[OutputMap(s)] \in {CONTROL, DUTY, APPLY, Free}
  BY <1>1, <1>2 DEF Defaults
<1> QED
  BY <1>3, Registers DEF IsWritable, Free, CONTROL, DUTY, APPLY

-----------------------------------------------------------------------------
(***************************************************************************)
(* A job after a word: the same request one word on, or its answer, or the *)
(* end of it.                                                              *)
(***************************************************************************)
Follows(t, j, n) ==
  /\ n \in AnyJob
  /\ t = "wq" => n.at # "none"
  /\ \/ t # "wq" /\ n = NoJob
     \/ /\ n.id = j.id /\ n.asks = j.asks /\ n.own = j.own
        /\ n.at \in {"read", "answer", "word"}
        /\ n.at = "word" => n.done = j.done + 1 /\ n.done < Len(j.asks.values)

LEMMA NoJobIs ==
  /\ NoJob \in AnyJob /\ JobOK(NoJob) /\ NoJob.asks.unit = 1 /\ NoJob.at = "none"
  /\ NoRequest \in Request /\ NoRequest.unit = 1
<1>1. << >> \in Seq(Nat)
  BY EmptySeq
<1>2. NoRequest \in Request
  BY <1>1 DEF NoRequest, Request
<1> QED
  BY <1>2 DEF NoJob, AnyJob, Places, JobOK, Busy, Going, NoRequest, Free

LEMMA EndedFollows ==
  ASSUME NEW t, NEW j \in AnyJob, NEW failed \in BOOLEAN
  PROVE  Follows(t, j, Ended(t, j, failed)) /\ Ended(t, j, failed).at # "word"
BY NoJobIs DEF Follows, Ended, AnyJob, Places

LEMMA AdvancedFollows ==
  ASSUME NEW t, NEW j \in AnyJob
  PROVE  Follows(t, j, Advanced(t, j))
<1> DEFINE next == [j EXCEPT !.done = @ + 1, !.at = "word", !.target = Free]
<1>1. /\ next \in AnyJob /\ next.id = j.id /\ next.asks = j.asks /\ next.own = j.own
      /\ next.at = "word" /\ next.done = j.done + 1
  <2>1. j.done + 1 \in Nat /\ "word" \in Places /\ Free \in Nat
    BY DEF AnyJob, Places, Free
  <2> QED
    BY <2>1 DEF AnyJob
<1>2. CASE next.done < Len(j.asks.values)
  <2>1. Advanced(t, j) = next
    BY <1>2 DEF Advanced
  <2> QED
    BY <1>1, <1>2, <2>1 DEF Follows
<1>3. CASE ~(next.done < Len(j.asks.values)) /\ j.asks.reads # << >>
  <2>1. Advanced(t, j) = [next EXCEPT !.at = "read"]
    BY <1>3 DEF Advanced
  <2> QED
    BY <1>1, <2>1 DEF Follows, AnyJob, Places
<1>4. CASE ~(next.done < Len(j.asks.values)) /\ j.asks.reads = << >>
  <2>1. Advanced(t, j) = Ended(t, next, FALSE)
    BY <1>4 DEF Advanced
  <2>2. Follows(t, next, Ended(t, next, FALSE)) /\ Ended(t, next, FALSE).at # "word"
    BY <1>1, EndedFollows, NoJobIs DEF Ended, AnyJob
  <2> QED
    BY <1>1, <2>1, <2>2 DEF Follows
<1> QED
  BY <1>2, <1>3, <1>4

LEMMA AfterFollows ==
  ASSUME NEW t, NEW j \in AnyJob, NEW ok, After(t, j, ok)
  PROVE  \E n : job' = [job EXCEPT ![t] = n] /\ Follows(t, j, n)
<1>1. CASE ok
  BY <1>1, AdvancedFollows DEF After
<1>2. CASE ~ok
  BY <1>2, EndedFollows DEF After
<1> QED
  BY <1>1, <1>2

-----------------------------------------------------------------------------
(***************************************************************************)
(* What one call of holding_reg_wr does: the registers it leaves, and the  *)
(* command it may send.                                                    *)
(***************************************************************************)
OthersKnow(t) == foreign' = [w \in Writers |-> foreign[w] \/ (w # t /\ job[w].at # "none")]

WritesOne(t, a) ==
  \/ regs' = regs /\ foreign' = foreign
  \/ \E v : /\ a \in Kept /\ regs' = [regs EXCEPT ![a] = v]
            /\ a \in OutputMaps => v \in Nat /\ IsWritable(v)
            /\ a \in {CONTROL, DUTY} => v = t
            /\ OthersKnow(t)

Sends(t, a) ==
  \/ sent' = sent
  \/ a = APPLY /\ sent' = [mode |-> regs[MODE], control |-> regs[CONTROL],
                           duty |-> regs[DUTY], by |-> t]

Served(t, j, a, n) ==
  \/ Follows(t, j, n) /\ (n.at = "word" /\ a \in {CONTROL, DUTY} =>
                            regs' = [regs EXCEPT ![a] = t])
  \/ a = COMMAND /\ n = [j EXCEPT !.at = "saving"]

LEMMA PutServes ==
  ASSUME NEW t \in Writers, NEW j \in AnyJob, NEW a, NEW v \in Nat, Put(t, j, a, v)
  PROVE  /\ \E n : job' = [job EXCEPT ![t] = n] /\ Served(t, j, a, n)
         /\ WritesOne(t, a) /\ Sends(t, a)
<1>1. CASE Refused(a, v) /\ After(t, j, FALSE) /\ UNCHANGED data
  <2>1. PICK n : job' = [job EXCEPT ![t] = n] /\ Follows(t, j, n)
    BY <1>1, AfterFollows
  <2>2. a \notin {CONTROL, DUTY}
    BY <1>1, Registers DEF Refused, CONTROL, DUTY, APPLY, COMMAND, MODE, Count
  <2> QED
    BY <1>1, <2>1, <2>2 DEF Served, WritesOne, Sends, data
<1>2. CASE /\ ~Refused(a, v) /\ a = APPLY
           /\ \E taken \in BOOLEAN :
                /\ sent' = IF taken THEN [mode |-> regs[MODE], control |-> regs[CONTROL],
                                          duty |-> regs[DUTY], by |-> t]
                           ELSE sent
                /\ After(t, j, taken)
           /\ UNCHANGED <<regs, foreign>>
  <2>1. PICK n : job' = [job EXCEPT ![t] = n] /\ Follows(t, j, n)
    BY <1>2, AfterFollows
  <2>2. a \notin {CONTROL, DUTY}
    BY <1>2, Registers
  <2>3. Sends(t, a)
    BY <1>2 DEF Sends
  <2> QED
    BY <1>2, <2>1, <2>2, <2>3 DEF Served, WritesOne
<1>3. CASE /\ ~Refused(a, v) /\ a = COMMAND
           /\ job' = [job EXCEPT ![t] = [j EXCEPT !.at = "saving"]]
           /\ UNCHANGED data
  BY <1>3 DEF Served, WritesOne, Sends, data
<1>4. CASE /\ ~Refused(a, v) /\ a \notin {APPLY, COMMAND}
           /\ IF a \in Kept THEN Set(t, a, v) ELSE UNCHANGED <<regs, foreign>>
           /\ After(t, j, TRUE)
           /\ UNCHANGED sent
  <2>1. PICK n : job' = [job EXCEPT ![t] = n] /\ Follows(t, j, n)
    BY <1>4, AfterFollows
  <2>2. a \in OutputMaps => IsWritable(v)
    BY <1>4 DEF Refused
  <2>3. a \in {CONTROL, DUTY} => a \in Kept /\ a \notin OutputMaps
    BY Registers
  <2>4. CASE a \in Kept
    <3>1. Set(t, a, v)
      BY <1>4, <2>4
    <3>2. WritesOne(t, a)
      BY <3>1, <2>2, <2>3, <2>4 DEF Set, WritesOne, OthersKnow
    <3>3. a \in {CONTROL, DUTY} => regs' = [regs EXCEPT ![a] = t]
      BY <3>1 DEF Set
    <3> QED
      BY <1>4, <2>1, <3>2, <3>3 DEF Served, Sends
  <2>5. CASE a \notin Kept
    BY <1>4, <2>1, <2>3, <2>5 DEF Served, Sends, WritesOne
  <2> QED
    BY <2>4, <2>5
<1> QED
  BY <1>1, <1>2, <1>3, <1>4 DEF Put

-----------------------------------------------------------------------------
(***************************************************************************)
(* One step of a job: what is left of the job, the registers and the       *)
(* command, for the job itself and for the properties.                     *)
(***************************************************************************)
Commits(t) ==
  /\ sent'.by = t
  /\ /\ job[t].asks.unit = 2 /\ job[t].asks.first = 0 /\ job[t].own
     /\ \A s \in 0 .. 2 : regs[OutputMap(s)] = Defaults[OutputMap(s)]
     /\ ~foreign[t]
     => sent' = [mode |-> 1, control |-> t, duty |-> t, by |-> t]

StepOK(t, n) ==
  /\ n \in AnyJob /\ JobOK(n)
  /\ n.own /\ n.asks.unit = 2 /\ ~foreign[t] => ImageOK(t, n, regs')
  /\ \E a : /\ WritesOne(t, a)
            /\ n.own /\ job[t].asks.unit = 2 => a \notin InputMaps \cup OutputMaps
  /\ sent' = sent \/ Commits(t)
  /\ t = "wq" =>
       /\ n.at # "none" /\ n.id = job[t].id /\ n.asks = job[t].asks
       /\ job[t].own /\ job[t].asks.unit = active => n.own

Good == TypeOK /\ TablesOK /\ JobsOK

\* The words of an image that are in the registers before and after the step.
Written(t, j) ==
  j.asks.first = 0 =>
    /\ j.done > 0 /\ regs'[OutputMap(0)] = CONTROL => regs'[CONTROL] = t
    /\ j.done > 1 /\ regs'[OutputMap(1)] = DUTY => regs'[DUTY] = t

WritesNow(t, j) ==
  j.asks.first = 0 =>
    /\ j.done = 0 /\ regs'[OutputMap(0)] = CONTROL => regs'[CONTROL] = t
    /\ j.done = 1 /\ regs'[OutputMap(1)] = DUTY => regs'[DUTY] = t

LEMMA Advances ==
  ASSUME NEW t \in Writers, NEW j \in AnyJob, NEW n, Follows(t, j, n),
         n.at = "word" /\ j.own /\ j.asks.unit = 2 => Place(j) \in Slots,
         n.at = "word" /\ j.own /\ j.asks.unit = 2 /\ ~foreign[t] =>
           Written(t, j) /\ WritesNow(t, j)
  PROVE  /\ n \in AnyJob /\ JobOK(n)
         /\ n.own /\ n.asks.unit = 2 /\ ~foreign[t] => ImageOK(t, n, regs')
<1>0. /\ j.asks \in Request /\ j.done \in Nat /\ j.asks.first \in Nat
  BY DEF AnyJob, Request
<1>1. CASE n = NoJob
  BY <1>1, NoJobIs DEF ImageOK
<1>2. CASE n.at \in {"read", "answer"}
  BY <1>2 DEF Follows, JobOK, ImageOK, Busy, Going
<1>3. CASE /\ n.asks = j.asks /\ n.own = j.own /\ n.at = "word"
           /\ n.done = j.done + 1 /\ n.done < Len(j.asks.values)
  <2>1. n \in AnyJob
    BY DEF Follows
  <2>2. JobOK(n)
    BY <1>0, <1>3 DEF JobOK, Place, Slots, Busy, Going
  <2>3. ASSUME n.own, n.asks.unit = 2, ~foreign[t]
        PROVE  ImageOK(t, n, regs')
    <3>1. Written(t, j) /\ WritesNow(t, j)
      BY <1>3, <2>3
    <3>2. n.at \notin Busy /\ n.at \notin {"saving", "write"}
      BY <1>3 DEF Busy, Going
    <3>3. ASSUME n.asks.first = 0
          PROVE  /\ n.done > 0 /\ regs'[OutputMap(0)] = CONTROL => regs'[CONTROL] = t
                 /\ n.done > 1 /\ regs'[OutputMap(1)] = DUTY => regs'[DUTY] = t
      <4>1. n.done > 1 => j.done > 1 \/ j.done = 1
        BY <1>0, <1>3
      <4>2. j.done > 0 \/ j.done = 0
        BY <1>0
      <4> QED
        BY <1>3, <3>1, <3>3, <4>1, <4>2 DEF Written, WritesNow
    <3> QED
      BY <3>2, <3>3 DEF ImageOK
  <2> QED
    BY <2>1, <2>2, <2>3
<1> QED
  BY <1>1, <1>2, <1>3 DEF Follows

LEMMA RoutedIs ==
  ASSUME NEW t \in Writers, Good
  PROVE  /\ job[t] \in AnyJob /\ Routed(t) \in AnyJob
         /\ \A f \in {"id", "asks", "done", "at", "target", "saves", "failed"} :
              Routed(t)[f] = job[t][f]
         /\ Routed(t).own => job[t].own
         /\ Routed(t).own /\ job[t].asks.unit = 2 => UnitOf(t) = 2
         /\ t = "wq" /\ job[t].own /\ job[t].asks.unit = active => Routed(t).own
<1>1. job[t] \in AnyJob
  BY DEF Good, TypeOK
<1>2. Routed(t) = [job[t] EXCEPT !.own = job[t].own /\ ((UnitOf(t) = 2) <=> (job[t].asks.unit = 2))]
  BY <1>1 DEF Routed, AnyJob
<1> DEFINE b == job[t].own /\ ((UnitOf(t) = 2) <=> (job[t].asks.unit = 2))
<1>3. b \in BOOLEAN /\ (b => job[t].own) /\ (b /\ job[t].asks.unit = 2 => UnitOf(t) = 2)
  OBVIOUS
<1>4. t = "wq" /\ job[t].own /\ job[t].asks.unit = active => b
  BY DEF UnitOf
<1> HIDE DEF b
<1>5. Routed(t) = [job[t] EXCEPT !.own = b]
  BY <1>2 DEF b
<1> QED
  BY <1>1, <1>3, <1>4, <1>5 DEF AnyJob

LEMMA Stays ==
  ASSUME NEW t \in Writers, regs' = regs, foreign' = foreign
  PROVE  \A a : WritesOne(t, a)
BY DEF WritesOne

\* What an image has written stays written by its own steps.
LEMMA KeepsWritten ==
  ASSUME NEW t \in Writers, Good, NEW j \in AnyJob, NEW a, WritesOne(t, a),
         a \notin InputMaps \cup OutputMaps,
         Alone(t), job[t].at \in Busy \cup {"word"},
         j.asks = job[t].asks, j.done = job[t].done
  PROVE  /\ Written(t, j)
         /\ \A s \in Slots : regs'[OutputMap(s)] = regs[OutputMap(s)]
<1>1. ImageOK(t, job[t], regs)
  BY DEF Good, JobsOK
<1>2. \A s \in Slots : regs'[OutputMap(s)] = regs[OutputMap(s)]
  BY Registers DEF WritesOne, Good, TypeOK
<1>3. \A b \in {CONTROL, DUTY} : regs[b] = t => regs'[b] = t
  BY Registers DEF WritesOne, Good, TypeOK
<1>4. 0 \in Slots /\ 1 \in Slots
  BY DEF Slots
<1> QED
  BY <1>1, <1>2, <1>3, <1>4 DEF Written, ImageOK

\* The value and the register a job has reached.
LEMMA Reached ==
  ASSUME NEW t \in Writers, Good, job[t].at \in Busy \cup {"word"}, job[t].asks.values # << >>
  PROVE  Value(t) \in Nat /\ Address(t) = Place(job[t]) /\ Address(t) \in Nat
<1>1. job[t] \in AnyJob /\ JobOK(job[t])
  BY DEF Good, TypeOK, JobsOK
<1>2. /\ job[t].asks.values \in Seq(Nat) /\ job[t].done \in Nat
      /\ job[t].asks.first \in Nat
  BY <1>1 DEF AnyJob, Request
<1>3. job[t].done < Len(job[t].asks.values) /\ Len(job[t].asks.values) \in Nat
  BY <1>1, <1>2, LenProperties DEF JobOK
<1>4. job[t].done + 1 \in 1 .. Len(job[t].asks.values)
  BY <1>2, <1>3
<1>5. Value(t) \in Nat
  BY <1>2, <1>4, ElementOfSeq DEF Value
<1> QED
  BY <1>2, <1>5 DEF Address, Place

LEMMA NotWordOfImage ==
  ASSUME NEW t \in Writers, Good, job[t].at = "word", job[t].own, job[t].asks.unit = 2,
         job[t].asks.first = 0
  PROVE  Place(job[t]) <= 5
<1>1. job[t] \in AnyJob /\ JobOK(job[t])
  BY DEF Good, TypeOK, JobsOK
<1> QED
  BY <1>1 DEF AnyJob, JobOK, Place

LEMMA WriteRegisterStep ==
  ASSUME NEW t \in Writers, Good, WriteRegister(t)
  PROVE  \E n : job' = [job EXCEPT ![t] = n] /\ StepOK(t, n)
<1> DEFINE j == Routed(t)
           a == Address(t)
<1>1. /\ job[t].at = "word" /\ job[t].asks.values # << >> /\ UnitOf(t) # 2
      /\ Put(t, j, a, Value(t))
  BY DEF WriteRegister
<1>2. Value(t) \in Nat /\ a = Place(job[t]) /\ a \in Nat
  BY <1>1, Reached
<1>3. /\ j \in AnyJob /\ job[t] \in AnyJob /\ j.asks = job[t].asks /\ j.id = job[t].id
      /\ j.done = job[t].done /\ j.target = job[t].target
      /\ j.own /\ j.asks.unit = 2 => FALSE
      /\ t = "wq" /\ job[t].own /\ job[t].asks.unit = active => j.own
  BY <1>1, RoutedIs
<1>4. JobOK(job[t])
  BY DEF Good, JobsOK
<1> HIDE DEF j, a
<1>5. PICK n : job' = [job EXCEPT ![t] = n] /\ Served(t, j, a, n)
  BY <1>1, <1>2, <1>3, PutServes
<1>6. WritesOne(t, a) /\ Sends(t, a)
  BY <1>1, <1>2, <1>3, PutServes
<1>7. sent' = sent \/ Commits(t)
  <2>1. CASE a = APPLY /\ sent' = [mode |-> regs[MODE], control |-> regs[CONTROL],
                                   duty |-> regs[DUTY], by |-> t]
    <3>1. ~(job[t].own /\ job[t].asks.unit = 2 /\ job[t].asks.first = 0)
      <4> SUFFICES ASSUME job[t].own, job[t].asks.unit = 2, job[t].asks.first = 0
                   PROVE  FALSE
        OBVIOUS
      <4>1. a <= 5
        BY <1>1, <1>2, NotWordOfImage
      <4> QED
        BY <2>1, <4>1 DEF APPLY
    <3> QED
      BY <2>1, <3>1 DEF Commits
  <2> QED
    BY <1>6, <2>1 DEF Sends
<1>8. CASE Follows(t, j, n)
  <2>1. /\ n \in AnyJob /\ JobOK(n)
        /\ n.own /\ n.asks.unit = 2 /\ ~foreign[t] => ImageOK(t, n, regs')
    BY <1>3, <1>8, Advances
  <2>2. n.own /\ job[t].asks.unit = 2 /\ n # NoJob => FALSE
    BY <1>3, <1>8 DEF Follows
  <2>3. \E b : WritesOne(t, b) /\ (n.own /\ job[t].asks.unit = 2 => b \notin InputMaps \cup OutputMaps)
    <3>1. CASE n.own /\ job[t].asks.unit = 2
      <4>1. n = NoJob /\ t # "wq"
        BY <2>2, <3>1, <1>8, NoJobIs DEF Follows
      <4>2. FALSE
        BY <1>1, <4>1, <3>1 DEF UnitOf
      <4> QED
        BY <4>2
    <3> QED
      BY <1>6, <3>1
  <2>4. t = "wq" => /\ n.at # "none" /\ n.id = job[t].id /\ n.asks = job[t].asks
                    /\ job[t].own /\ job[t].asks.unit = active => n.own
    BY <1>3, <1>8 DEF Follows
  <2> QED
    BY <1>5, <1>7, <2>1, <2>3, <2>4 DEF StepOK
<1>9. CASE a = COMMAND /\ n = [j EXCEPT !.at = "saving"]
  <2>1. /\ n \in AnyJob /\ n.at = "saving" /\ n.asks = j.asks /\ n.own = j.own
        /\ n.done = j.done /\ n.id = j.id
    BY <1>3, <1>9 DEF AnyJob, Places
  <2>2. JobOK(n)
    BY <1>1, <1>3, <1>4, <2>1 DEF JobOK, Busy, Going
  <2> QED
    BY <1>3, <1>5, <1>6, <1>7, <2>1, <2>2 DEF StepOK
<1> QED
  BY <1>5, <1>8, <1>9 DEF Served

LEMMA LookUpStep ==
  ASSUME NEW t \in Writers, Good, LookUp(t)
  PROVE  \E n : job' = [job EXCEPT ![t] = n] /\ StepOK(t, n)
<1> DEFINE j == Routed(t)
           target == regs[OutputMap(Address(t))]
<1>1. /\ job[t].at = "word" /\ job[t].asks.values # << >> /\ UnitOf(t) = 2
      /\ regs' = regs /\ foreign' = foreign /\ sent' = sent
  BY DEF LookUp, data
<1>2. Value(t) \in Nat /\ Address(t) = Place(job[t])
  BY <1>1, Reached
<1>3. /\ j \in AnyJob /\ job[t] \in AnyJob /\ j.asks = job[t].asks /\ j.id = job[t].id
      /\ j.done = job[t].done /\ j.at = job[t].at /\ (j.own => job[t].own)
      /\ t = "wq" /\ job[t].own /\ job[t].asks.unit = active => j.own
  BY <1>1, RoutedIs
<1>4. JobOK(job[t]) /\ (Alone(t) => ImageOK(t, job[t], regs))
  BY DEF Good, JobsOK
<1>5. \A b : WritesOne(t, b)
  BY <1>1, Stays
<1>6. Place(j) = Place(job[t])
  BY <1>3 DEF Place
<1>7. ASSUME j.own, j.asks.unit = 2, ~foreign[t]
      PROVE  Written(t, j)
  BY <1>1, <1>3, <1>5, <1>7, Registers, KeepsWritten DEF Alone
<1>8. ASSUME NEW n, Follows(t, j, n), job' = [job EXCEPT ![t] = n],
             /\ n \in AnyJob /\ JobOK(n)
             /\ n.own /\ n.asks.unit = 2 /\ ~foreign[t] => ImageOK(t, n, regs')
      PROVE  StepOK(t, n)
  BY <1>1, <1>3, <1>5, <1>8, Registers DEF StepOK, Follows
<1>9. CASE Address(t) \notin Slots
  <2>1. After(t, j, FALSE)
    BY <1>9 DEF LookUp
  <2>2. PICK n : job' = [job EXCEPT ![t] = n] /\ Follows(t, j, n) /\ n.at # "word"
    BY <1>3, <2>1, EndedFollows DEF After
  <2>3. /\ n \in AnyJob /\ JobOK(n)
        /\ n.own /\ n.asks.unit = 2 /\ ~foreign[t] => ImageOK(t, n, regs')
    BY <1>3, <2>2, Advances
  <2> QED
    BY <1>8, <2>2, <2>3
<1>10. CASE Address(t) \in Slots /\ (target = Free \/ (target = APPLY /\ Value(t) = 0))
  <2>1. After(t, j, TRUE)
    BY <1>10 DEF LookUp
  <2>2. PICK n : job' = [job EXCEPT ![t] = n] /\ Follows(t, j, n)
    BY <1>3, <2>1, AfterFollows
  <2>3. j.own /\ j.asks.unit = 2 => Place(j) \in Slots
    BY <1>2, <1>6, <1>10
  <2>4. WritesNow(t, j)
    <3>1. j.asks.first = 0 => Address(t) = j.done
      BY <1>2, <1>3 DEF Place, AnyJob
    <3> QED
      BY <1>1, <1>10, <3>1 DEF WritesNow, Free, APPLY, CONTROL, DUTY
  <2>5. /\ n \in AnyJob /\ JobOK(n)
        /\ n.own /\ n.asks.unit = 2 /\ ~foreign[t] => ImageOK(t, n, regs')
    BY <1>3, <1>7, <2>2, <2>3, <2>4, Advances
  <2> QED
    BY <1>8, <2>2, <2>5
<1>11. CASE Address(t) \in Slots /\ ~(target = Free \/ (target = APPLY /\ Value(t) = 0))
  <2> DEFINE place == IF target = APPLY THEN "claim" ELSE "write"
             n == [Routed(t) EXCEPT !.target = target, !.at = place]
  <2>1. job' = [job EXCEPT ![t] = n]
    BY <1>11 DEF LookUp
  <2>2. target \in Nat /\ target \notin InputMaps \cup OutputMaps
    BY <1>11, Registers DEF Good, TablesOK, IsWritable
  <2>3. place \in Going /\ place \in Places /\ (place = "write" => target # APPLY)
    BY DEF Going, Places
  <2> HIDE DEF target, place
  <2>4. /\ n \in AnyJob /\ n.asks = j.asks /\ n.own = j.own /\ n.id = j.id /\ n.done = j.done
        /\ n.at = place /\ n.target = target
    BY <1>3, <2>2, <2>3 DEF AnyJob
  <2> HIDE DEF n
  <2>5. Place(n) \in Slots /\ n.at \in Going
    BY <1>2, <1>3, <1>11, <2>3, <2>4 DEF Place
  <2>6. JobOK(n)
    BY <1>1, <1>3, <1>4, <2>2, <2>4, <2>5 DEF JobOK, Busy, Going
  <2>7. ASSUME n.own, n.asks.unit = 2, ~foreign[t]
        PROVE  ImageOK(t, n, regs')
    <3>1. Written(t, j)
      BY <1>7, <2>4, <2>7
    <3>2. n.target = regs'[OutputMap(Place(n))]
      BY <1>1, <1>2, <1>3, <2>4 DEF Place, target
    <3> QED
      BY <2>3, <2>4, <2>5, <3>1, <3>2 DEF ImageOK, Written, Going
  <2>8. n.at # "none"
    BY <2>5 DEF Going
  <2>9. StepOK(t, n)
    BY <1>1, <1>3, <1>5, <2>4, <2>6, <2>7, <2>8, Registers DEF StepOK
  <2> QED
    BY <2>1, <2>9
<1> QED
  BY <1>9, <1>10, <1>11

LEMMA ClaimStep ==
  ASSUME NEW t \in Writers, Good, Claim(t)
  PROVE  \E n : job' = [job EXCEPT ![t] = n] /\ StepOK(t, n)
<1> DEFINE n == [job[t] EXCEPT !.at = "write"]
<1>1. /\ job[t].at = "claim" /\ sent' = sent /\ regs' = [regs EXCEPT ![MODE] = 1]
      /\ OthersKnow(t)
  BY Registers DEF Claim, Set, OthersKnow
<1>2. job[t] \in AnyJob /\ JobOK(job[t]) /\ (Alone(t) => ImageOK(t, job[t], regs))
  BY DEF Good, TypeOK, JobsOK
<1>3. /\ n \in AnyJob /\ n.asks = job[t].asks /\ n.own = job[t].own /\ n.id = job[t].id
      /\ n.done = job[t].done /\ n.at = "write" /\ n.target = job[t].target
  BY <1>2 DEF AnyJob, Places
<1>4. job' = [job EXCEPT ![t] = n]
  BY DEF Claim, Good, TypeOK
<1> HIDE DEF n
<1>5. WritesOne(t, MODE) /\ MODE \notin InputMaps \cup OutputMaps
  BY <1>1, Registers DEF WritesOne
<1>6. JobOK(n)
  BY <1>1, <1>2, <1>3 DEF JobOK, Busy, Going, Place
<1>7. ASSUME n.own, n.asks.unit = 2, ~foreign[t]
      PROVE  ImageOK(t, n, regs')
  <2>1. Alone(t)
    BY <1>3, <1>7 DEF Alone
  <2>2. Written(t, n) /\ \A s \in Slots : regs'[OutputMap(s)] = regs[OutputMap(s)]
    BY <1>1, <1>3, <1>5, <2>1, KeepsWritten DEF Busy, Going
  <2>3. Place(n) \in Slots /\ Place(n) = Place(job[t])
    BY <1>3, <1>6, <1>7 DEF JobOK, Busy, Going, Place
  <2>4. n.target = regs'[OutputMap(Place(n))]
    BY <1>1, <1>2, <1>3, <2>1, <2>2, <2>3 DEF ImageOK, Busy, Going
  <2>5. regs'[MODE] = 1
    BY <1>1, Registers DEF Good, TypeOK
  <2> QED
    BY <1>3, <2>2, <2>4, <2>5 DEF ImageOK, Written
<1>8. StepOK(t, n)
  BY <1>1, <1>3, <1>5, <1>6, <1>7 DEF StepOK
<1> QED
  BY <1>4, <1>8

LEMMA WriteTargetStep ==
  ASSUME NEW t \in Writers, Good, WriteTarget(t)
  PROVE  \E n : job' = [job EXCEPT ![t] = n] /\ StepOK(t, n)
<1> DEFINE j == job[t]
           a == job[t].target
<1>1. j.at = "write" /\ Put(t, j, a, Value(t))
  BY DEF WriteTarget
<1>2. j \in AnyJob /\ JobOK(j) /\ (Alone(t) => ImageOK(t, j, regs))
  BY DEF Good, TypeOK, JobsOK
<1>3. j.asks.values # << >> /\ a \notin InputMaps \cup OutputMaps
  <2>1. j.done < Len(j.asks.values) /\ j.done \in Nat /\ Len(<< >>) = 0
    BY <1>1, <1>2, EmptySeq DEF JobOK, Busy, Going, AnyJob
  <2>2. a \notin InputMaps \cup OutputMaps
    BY <1>1, <1>2 DEF JobOK, Going
  <2> QED
    BY <2>1, <2>2
<1>4. Value(t) \in Nat
  BY <1>1, <1>3, Reached DEF Busy, Going
<1>5. PICK n : job' = [job EXCEPT ![t] = n] /\ Served(t, j, a, n)
  BY <1>1, <1>2, <1>4, PutServes
<1>6. WritesOne(t, a) /\ Sends(t, a)
  BY <1>1, <1>2, <1>4, PutServes
<1>7. j.own /\ j.asks.unit = 2 => Place(j) \in Slots
  BY <1>1, <1>2 DEF JobOK, Busy, Going
<1>8. ASSUME j.own, j.asks.unit = 2, ~foreign[t]
      PROVE  /\ Written(t, j) /\ a = regs[OutputMap(Place(j))]
             /\ \A s \in Slots : regs'[OutputMap(s)] = regs[OutputMap(s)]
             /\ a = APPLY => regs[MODE] = 1
  <2>1. Alone(t) /\ j.at \in Busy
    BY <1>1, <1>8 DEF Alone, Busy, Going
  <2>2. Written(t, j) /\ \A s \in Slots : regs'[OutputMap(s)] = regs[OutputMap(s)]
    BY <1>2, <1>3, <1>6, <2>1, KeepsWritten
  <2> QED
    BY <1>1, <1>2, <2>1, <2>2 DEF ImageOK
<1>9. sent' = sent \/ Commits(t)
  <2>1. CASE a = APPLY /\ sent' = [mode |-> regs[MODE], control |-> regs[CONTROL],
                                   duty |-> regs[DUTY], by |-> t]
    <3>1. ASSUME j.own, j.asks.unit = 2, j.asks.first = 0, ~foreign[t],
                 \A s \in 0 .. 2 : regs[OutputMap(s)] = Defaults[OutputMap(s)]
          PROVE  sent' = [mode |-> 1, control |-> t, duty |-> t, by |-> t]
      <4>1. regs[OutputMap(0)] = CONTROL /\ regs[OutputMap(1)] = DUTY
        BY <3>1, DefaultMapping
      <4>2. Place(j) = j.done /\ j.done \in Slots
        BY <1>2, <1>7, <3>1 DEF Place, AnyJob
      <4>3. j.done \notin {0, 1}
        BY <1>8, <2>1, <3>1, <4>1, <4>2, Registers
      <4>4. j.done > 0 /\ j.done > 1
        BY <4>2, <4>3 DEF Slots
      <4>5. Alone(t) /\ j.at \in Busy \cup {"word"}
        BY <1>1, <3>1 DEF Alone, Busy, Going
      <4>6. regs[CONTROL] = t /\ regs[DUTY] = t
        BY <1>2, <3>1, <4>1, <4>4, <4>5 DEF ImageOK
      <4> QED
        BY <1>8, <2>1, <3>1, <4>6
    <3> QED
      BY <2>1, <3>1 DEF Commits
  <2> QED
    BY <1>6, <2>1 DEF Sends
<1>10. CASE Follows(t, j, n) /\ (n.at = "word" /\ a \in {CONTROL, DUTY} =>
                                   regs' = [regs EXCEPT ![a] = t])
  <2>1. ASSUME n.at = "word", j.own, j.asks.unit = 2, ~foreign[t]
        PROVE  Written(t, j) /\ WritesNow(t, j)
    <3>1. ASSUME j.asks.first = 0, NEW s \in {0, 1}, j.done = s,
                 regs'[OutputMap(s)] \in {CONTROL, DUTY}
          PROVE  regs'[regs'[OutputMap(s)]] = t
      <4>1. Place(j) = s /\ s \in Slots
        BY <3>1 DEF Place, Slots
      <4>2. regs'[OutputMap(s)] = a
        BY <1>8, <2>1, <4>1
      <4>3. regs' = [regs EXCEPT ![a] = t] /\ a \in Kept
        BY <1>10, <2>1, <3>1, <4>2, Registers
      <4> QED
        BY <4>2, <4>3 DEF Good, TypeOK
    <3>2. WritesNow(t, j)
      BY <3>1 DEF WritesNow
    <3> QED
      BY <1>8, <2>1, <3>2
  <2>2. /\ n \in AnyJob /\ JobOK(n)
        /\ n.own /\ n.asks.unit = 2 /\ ~foreign[t] => ImageOK(t, n, regs')
    BY <1>2, <1>7, <1>10, <2>1, Advances
  <2> QED
    BY <1>3, <1>5, <1>6, <1>9, <1>10, <2>2 DEF StepOK, Follows
<1>11. CASE a = COMMAND /\ n = [j EXCEPT !.at = "saving"]
  <2>1. /\ n \in AnyJob /\ n.at = "saving" /\ n.asks = j.asks /\ n.own = j.own
        /\ n.done = j.done /\ n.id = j.id /\ n.target = a
    BY <1>2, <1>11 DEF AnyJob, Places
  <2>2. JobOK(n)
    BY <1>1, <1>2, <2>1 DEF JobOK, Busy, Going, Place
  <2>3. ASSUME n.own, n.asks.unit = 2, ~foreign[t]
        PROVE  ImageOK(t, n, regs')
    <3>1. Place(n) = Place(j) /\ Place(j) \in Slots
      BY <1>7, <2>1, <2>3 DEF Place
    <3>2. Written(t, j) /\ a = regs'[OutputMap(Place(j))]
      BY <1>8, <2>1, <2>3, <3>1
    <3> QED
      BY <1>11, <2>1, <3>1, <3>2 DEF ImageOK, Written
  <2> QED
    BY <1>3, <1>5, <1>6, <1>9, <2>1, <2>2, <2>3 DEF StepOK
<1> QED
  BY <1>5, <1>10, <1>11 DEF Served

LEMMA ReadStep ==
  ASSUME NEW t \in Writers, Good, Read(t)
  PROVE  \E n : job' = [job EXCEPT ![t] = n] /\ StepOK(t, n)
<1> DEFINE j == Routed(t)
<1>1. PICK failed \in BOOLEAN : job' = [job EXCEPT ![t] = Ended(t, j, failed)]
  BY DEF Read
<1>2. regs' = regs /\ foreign' = foreign /\ sent' = sent
  BY DEF Read, data
<1>3. /\ j \in AnyJob /\ j.asks = job[t].asks /\ j.id = job[t].id
      /\ t = "wq" /\ job[t].own /\ job[t].asks.unit = active => j.own
  BY RoutedIs
<1> HIDE DEF j
<1> DEFINE n == Ended(t, j, failed)
<1>4. Follows(t, j, n) /\ n.at # "word"
  BY <1>3, EndedFollows
<1> HIDE DEF n
<1>5. /\ n \in AnyJob /\ JobOK(n)
      /\ n.own /\ n.asks.unit = 2 /\ ~foreign[t] => ImageOK(t, n, regs')
  BY <1>3, <1>4, Advances
<1>6. StepOK(t, n)
  BY <1>2, <1>3, <1>4, <1>5, Stays, Registers DEF StepOK, Follows
<1> QED
  BY <1>1, <1>6 DEF n

LEMMA SaveEndsStep ==
  ASSUME NEW t \in Writers, Good, NEW ok \in BOOLEAN, SaveEnds(t, ok)
  PROVE  \E n : job' = [job EXCEPT ![t] = n] /\ StepOK(t, n)
<1> DEFINE j == [job[t] EXCEPT !.saves = @ + 1]
<1>1. job[t].at = "saving" /\ After(t, j, ok)
  BY DEF SaveEnds
<1>2. regs' = regs /\ foreign' = foreign /\ sent' = sent
  BY DEF SaveEnds, data
<1>3. job[t] \in AnyJob /\ JobOK(job[t]) /\ (Alone(t) => ImageOK(t, job[t], regs))
  BY DEF Good, TypeOK, JobsOK
<1>4. /\ j \in AnyJob /\ j.asks = job[t].asks /\ j.id = job[t].id /\ j.own = job[t].own
      /\ j.done = job[t].done
  BY <1>3 DEF AnyJob
<1> HIDE DEF j
<1>5. PICK n : job' = [job EXCEPT ![t] = n] /\ Follows(t, j, n)
  BY <1>1, <1>4, AfterFollows
<1>6. Place(j) = Place(job[t]) /\ (j.own /\ j.asks.unit = 2 => Place(j) \in Slots)
  BY <1>1, <1>3, <1>4 DEF Place, JobOK, Busy, Going
<1>7. ASSUME j.own, j.asks.unit = 2, ~foreign[t]
      PROVE  Written(t, j) /\ WritesNow(t, j)
  <2>1. Alone(t) /\ job[t].at \in Busy
    BY <1>1, <1>4, <1>7 DEF Alone, Busy, Going
  <2>2. Written(t, j)
    BY <1>2, <1>4, <2>1, Stays, Registers, KeepsWritten
  <2>3. regs[OutputMap(Place(j))] = COMMAND
    BY <1>1, <1>3, <1>6, <2>1 DEF ImageOK
  <2>4. j.asks.first = 0 => Place(j) = j.done
    BY <1>4 DEF Place, AnyJob
  <2>5. WritesNow(t, j)
    BY <1>2, <2>3, <2>4, Registers DEF WritesNow
  <2> QED
    BY <2>2, <2>5
<1>8. /\ n \in AnyJob /\ JobOK(n)
      /\ n.own /\ n.asks.unit = 2 /\ ~foreign[t] => ImageOK(t, n, regs')
  BY <1>4, <1>5, <1>6, <1>7, Advances
<1>9. StepOK(t, n)
  BY <1>2, <1>4, <1>5, <1>8, Stays, Registers DEF StepOK, Follows
<1> QED
  BY <1>5, <1>9

LEMMA StepIsOK ==
  ASSUME NEW t \in Writers, Good, Step(t)
  PROVE  \E n : job' = [job EXCEPT ![t] = n] /\ StepOK(t, n)
BY WriteRegisterStep, LookUpStep, ClaimStep, WriteTargetStep, ReadStep, SaveEndsStep DEF Step

-----------------------------------------------------------------------------
(***************************************************************************)
(* What the steps leave of the other jobs, the tables and the types.       *)
(***************************************************************************)
DataTypes ==
  /\ job \in [Writers -> AnyJob]
  /\ DOMAIN regs = Kept /\ regs = [a \in Kept |-> regs[a]]
  /\ foreign \in [Writers -> BOOLEAN]

GoodData == DataTypes /\ TablesOK /\ JobsOK

LEMMA StepKeepsData ==
  ASSUME Good, NEW t \in Writers, NEW n, job' = [job EXCEPT ![t] = n], StepOK(t, n)
  PROVE  GoodData'
<1>1. /\ job \in [Writers -> AnyJob] /\ DOMAIN regs = Kept
      /\ regs = [a \in Kept |-> regs[a]] /\ foreign \in [Writers -> BOOLEAN]
  BY DEF Good, TypeOK
<1>2. PICK a : WritesOne(t, a)
  BY DEF StepOK
<1>3. job' \in [Writers -> AnyJob]
  BY <1>1 DEF StepOK
<1>4. /\ DOMAIN regs' = Kept /\ regs' = [b \in Kept |-> regs'[b]]
      /\ foreign' \in [Writers -> BOOLEAN]
  BY <1>1, <1>2 DEF WritesOne, OthersKnow
<1>5. TablesOK'
  <2> SUFFICES ASSUME NEW b \in OutputMaps
               PROVE  regs'[b] \in Nat /\ IsWritable(regs'[b])
    BY DEF TablesOK
  <2>1. regs[b] \in Nat /\ IsWritable(regs[b]) /\ b \in Kept
    BY Registers DEF Good, TablesOK
  <2> QED
    BY <1>1, <1>2, <2>1 DEF WritesOne
<1>6. ASSUME NEW w \in Writers
      PROVE  JobOK(job'[w]) /\ (Alone(w)' => ImageOK(w, job'[w], regs'))
  <2>1. CASE w = t
    <3>1. job'[w] = n /\ foreign'[w] = foreign[t]
      BY <1>1, <1>2, <2>1 DEF WritesOne, OthersKnow
    <3> QED
      BY <2>1, <3>1 DEF StepOK, Alone
  <2>2. CASE w # t
    <3>1. job'[w] = job[w] /\ JobOK(job[w]) /\ (Alone(w) => ImageOK(w, job[w], regs))
      BY <1>1, <2>2 DEF Good, JobsOK
    <3>2. CASE regs' = regs /\ foreign' = foreign
      BY <3>1, <3>2 DEF Alone
    <3>3. CASE OthersKnow(t)
      <4>1. ~foreign'[w] => job[w].at = "none"
        BY <2>2, <3>3 DEF OthersKnow
      <4>2. job[w].at = "none" => ImageOK(w, job[w], regs')
        BY DEF ImageOK, Busy, Going
      <4> QED
        BY <3>1, <4>1, <4>2 DEF Alone
    <3> QED
      BY <1>2, <3>2, <3>3 DEF WritesOne
  <2> QED
    BY <2>1, <2>2
<1> QED
  BY <1>3, <1>4, <1>5, <1>6 DEF GoodData, DataTypes, JobsOK

LEMMA BeginKeepsData ==
  ASSUME Good, NEW t \in Writers, NEW id \in Nat, NEW r \in Request,
         Begin(t, Starting(id, r))
  PROVE  /\ GoodData' /\ job' = [job EXCEPT ![t] = Starting(id, r)]
         /\ Starting(id, r).id = id /\ Starting(id, r).asks = r
         /\ Starting(id, r).own /\ Starting(id, r).at = "word"
<1> DEFINE n == Starting(id, r)
<1>1. /\ job \in [Writers -> AnyJob] /\ DOMAIN regs = Kept
      /\ foreign \in [Writers -> BOOLEAN]
  BY DEF Good, TypeOK
<1>2. /\ n \in AnyJob /\ n.done = 0 /\ n.at = "word" /\ n.asks = r /\ n.id = id /\ n.own
  BY NoJobIs DEF Starting, AnyJob, NoJob, Places
<1>3. job' = [job EXCEPT ![t] = n] /\ foreign' = [foreign EXCEPT ![t] = FALSE]
  BY DEF Begin
<1>4. regs' = [a \in Kept |-> IF a \in {CONTROL, DUTY} /\ regs[a] = t THEN "none" ELSE regs[a]]
  BY DEF Begin
<1> HIDE DEF n
<1>5. /\ job' \in [Writers -> AnyJob] /\ foreign' \in [Writers -> BOOLEAN]
      /\ DOMAIN regs' = Kept /\ regs' = [a \in Kept |-> regs'[a]]
  BY <1>1, <1>2, <1>3, <1>4
<1>6. /\ \A a \in OutputMaps : regs'[a] = regs[a]
      /\ regs'[MODE] = regs[MODE]
      /\ \A a \in {CONTROL, DUTY}, w \in Writers :
           w # t /\ regs[a] = w => regs'[a] = w
  BY <1>4, Registers
<1>7. JobOK(n) /\ ImageOK(t, n, regs')
  <2>1. r.values \in Seq(Nat)
    BY DEF Request
  <2>2. r.values # << >> => 0 < Len(r.values)
    BY <2>1, EmptySeq
  <2> QED
    BY <1>2, <2>2 DEF JobOK, ImageOK, Busy, Going
<1>8. ASSUME NEW w \in Writers
      PROVE  JobOK(job'[w]) /\ (Alone(w)' => ImageOK(w, job'[w], regs'))
  <2>1. CASE w = t
    BY <1>1, <1>3, <1>7, <2>1
  <2>2. CASE w # t
    <3>1. /\ job'[w] = job[w] /\ foreign'[w] = foreign[w]
          /\ JobOK(job[w]) /\ (Alone(w) => ImageOK(w, job[w], regs))
      BY <1>1, <1>3, <2>2 DEF Good, JobsOK
    <3>2. ASSUME Alone(w)
          PROVE  ImageOK(w, job[w], regs')
      <4>1. job[w].at \in Busy => Place(job[w]) \in Slots
        BY <3>1, <3>2 DEF JobOK, Alone
      <4>2. ImageOK(w, job[w], regs)
        BY <3>1, <3>2
      <4>3. 0 \in Slots /\ 1 \in Slots
        BY DEF Slots
      <4> QED
        BY <1>6, <2>2, <4>1, <4>2, <4>3, Registers DEF ImageOK
    <3> QED
      BY <3>1, <3>2 DEF Alone
  <2> QED
    BY <2>1, <2>2
<1>9. TablesOK'
  BY <1>6 DEF Good, TablesOK
<1> QED
  BY <1>2, <1>3, <1>5, <1>8, <1>9 DEF GoodData, DataTypes, JobsOK, n

LEMMA UnmovedData ==
  ASSUME Good, UNCHANGED <<data, job>>
  PROVE  GoodData'
<1>1. regs' = regs /\ foreign' = foreign /\ job' = job
  BY DEF data
<1> QED
  BY <1>1 DEF Good, TypeOK, GoodData, DataTypes, TablesOK, JobsOK, Alone

LEMMA FinishedData ==
  ASSUME Good, NEW t \in Writers, job' = [job EXCEPT ![t] = NoJob], UNCHANGED data
  PROVE  GoodData'
<1>1. regs' = regs /\ foreign' = foreign /\ job \in [Writers -> AnyJob]
  BY DEF data, Good, TypeOK
<1>2. job' \in [Writers -> AnyJob]
  BY <1>1, NoJobIs
<1>3. ASSUME NEW w \in Writers
      PROVE  JobOK(job'[w]) /\ (Alone(w)' => ImageOK(w, job'[w], regs'))
  BY <1>1, NoJobIs DEF Good, JobsOK, Alone
<1> QED
  BY <1>1, <1>2, <1>3 DEF Good, TypeOK, GoodData, DataTypes, TablesOK, JobsOK

-----------------------------------------------------------------------------
(***************************************************************************)
(* The thread and the workqueue.                                           *)
(***************************************************************************)
ServerTypes ==
  /\ tcp \in [at : {"start", "dead", "accept", "recv", "submit", "wait", "send"},
              id : Nat]
  /\ inbox \in Seq(AnyMessage) /\ Len(inbox) <= 1
  /\ issued \in Nat
  /\ adu \in AnyMessage
  /\ ready \in BOOLEAN /\ active \in Nat
  /\ queue \in Seq(AnyMessage)
  /\ jobs \in [Others -> Nat]
  /\ late \in BOOLEAN

LEMMA Parts ==
  /\ ServerInv <=> ServerTypes /\ GoodData /\ OneAtATime
  /\ ServerInv => Good
  /\ ServerInv' <=> ServerTypes' /\ GoodData' /\ OneAtATime'
BY DEF ServerInv, TypeOK, ServerTypes, GoodData, DataTypes, Good

\* The places of the thread that change nothing of the workqueue.
LEMMA Moves ==
  ASSUME ServerInv, NEW place \in {"dead", "accept", "recv"},
         tcp' = [tcp EXCEPT !.at = place], tcp.at # "wait",
         inbox' = inbox \/ inbox' = << >>,
         UNCHANGED <<issued, adu, ready, active, queue, late, job, jobs>>
  PROVE  ServerTypes' /\ OneAtATime'
<1>1. tcp' \in [at : {"start", "dead", "accept", "recv", "submit", "wait", "send"},
                id : Nat] /\ tcp'.at = place
  BY Parts DEF ServerTypes
<1>2. inbox' \in Seq(AnyMessage) /\ Len(inbox') <= 1 /\ (Len(inbox') = 1 => inbox'[1].own)
  <2>1. << >> \in Seq(AnyMessage) /\ Len(<< >>) = 0
    BY EmptySeq
  <2>2. CASE inbox' = inbox
    <3>1. ServerTypes /\ OneAtATime
      BY Parts
    <3> QED
      BY <2>2, <3>1 DEF ServerTypes, OneAtATime
  <2>3. CASE inbox' = << >>
    BY <2>1, <2>3
  <2> QED
    BY <2>2, <2>3
<1>3. ServerTypes'
  BY <1>1, <1>2, Parts DEF ServerTypes
<1>4. ~late => Resting'
  BY Parts DEF OneAtATime, Resting
<1> QED
  BY <1>1, <1>2, <1>3, <1>4, Parts DEF OneAtATime

LEMMA ThreadMoves ==
  ASSUME ServerInv,
         (\E ok \in BOOLEAN : Listen(ok)) \/ Accept \/ Hangup \/ Reply \/ ReplyFails
  PROVE  ServerInv'
<1>0. tcp \in [at : {"start", "dead", "accept", "recv", "submit", "wait", "send"}, id : Nat]
  BY Parts DEF ServerTypes
<1>1. \E place \in {"dead", "accept", "recv"} :
         tcp' = [tcp EXCEPT !.at = place] /\ tcp.at # "wait"
  BY <1>0 DEF Listen, Accept, Hangup, Reply, ReplyFails, Goto, Close
<1>2. /\ inbox' = inbox \/ inbox' = << >>
      /\ UNCHANGED <<issued, adu, ready, active, queue, late, job, jobs, data>>
  BY DEF Listen, Accept, Hangup, Reply, ReplyFails, Goto, Close, Handled
<1>3. ServerTypes' /\ OneAtATime'
  BY <1>1, <1>2, Moves
<1> QED
  BY <1>2, <1>3, Parts, UnmovedData

LEMMA SendsStep ==
  ASSUME ServerInv, NEW r \in Requests, ClientSends(r)
  PROVE  ServerInv'
<1>1. /\ inbox' = <<Message(issued + 1, r)>> /\ issued' = issued + 1
      /\ UNCHANGED <<tcp, adu, ready, active, queue, late, job, jobs, data>>
  BY DEF ClientSends, Handled
<1> DEFINE m == Message(issued + 1, r)
<1>2. r \in Request /\ issued \in Nat
  BY ServerAssumption, Parts DEF ServerTypes
<1>3. m \in AnyMessage /\ m.own
  BY <1>2 DEF Message, AnyMessage
<1> HIDE DEF m
<1>4. inbox' \in Seq(AnyMessage) /\ Len(inbox') = 1 /\ inbox'[1] = m
  BY <1>1, <1>3 DEF m
<1>5. ServerTypes'
  BY <1>1, <1>2, <1>4, Parts DEF ServerTypes
<1>6. OneAtATime'
  BY <1>1, <1>3, <1>4, Parts DEF OneAtATime, Resting, Waiting
<1> QED
  BY <1>1, <1>5, <1>6, Parts, UnmovedData

LEMMA ReceiveStep ==
  ASSUME ServerInv, Receive
  PROVE  ServerInv'
<1>1. /\ tcp.at = "recv" /\ inbox # << >>
      /\ UNCHANGED <<issued, ready, active, queue, late, job, jobs, data>>
  BY DEF Receive, Handled
<1>2. inbox \in Seq(AnyMessage) /\ Len(inbox) <= 1
  BY Parts DEF ServerTypes
<1>3. /\ Head(inbox) = inbox[1] /\ inbox[1] \in AnyMessage /\ Len(inbox) = 1
      /\ Tail(inbox) \in Seq(AnyMessage) /\ Len(Tail(inbox)) = 0
  BY <1>1, <1>2, EmptySeq, HeadTailProperties
<1>4. CASE Head(inbox).asks.fits
  <2>1. /\ adu' = inbox[1] /\ inbox' = Tail(inbox)
        /\ tcp' = [at |-> "submit", id |-> inbox[1].id]
    BY <1>3, <1>4 DEF Receive
  <2>2. ServerTypes'
    BY <1>1, <1>3, <2>1, Parts DEF ServerTypes, AnyMessage
  <2>3. inbox[1].own
    BY <1>3, Parts DEF OneAtATime
  <2>4. OneAtATime'
    BY <1>1, <1>3, <2>1, <2>3, Parts DEF OneAtATime, Resting
  <2> QED
    BY <1>1, <2>2, <2>4, Parts, UnmovedData
<1>5. CASE ~Head(inbox).asks.fits
  <2>1. tcp' = [tcp EXCEPT !.at = "accept"] /\ inbox' = << >> /\ adu' = adu
    BY <1>5 DEF Receive, Close, Goto
  <2>2. ServerTypes' /\ OneAtATime'
    BY <1>1, <2>1, Moves
  <2> QED
    BY <1>1, <2>2, Parts, UnmovedData
<1> QED
  BY <1>4, <1>5

LEMMA SubmittedIs ==
  ASSUME NEW m \in AnyMessage, queue \in Seq(AnyMessage)
  PROVE  /\ Submitted(m) \in Seq(AnyMessage)
         /\ queue = << >> => Len(Submitted(m)) = 1 /\ Submitted(m)[1] = m
<1> DEFINE same == {i \in DOMAIN queue :
                      Interface(queue[i].asks.unit) = Interface(m.asks.unit)}
           put == [i \in DOMAIN queue |-> IF i \in same THEN m ELSE queue[i]]
<1>1. Submitted(m) = IF same = {} THEN Append(queue, m) ELSE put
  BY DEF Submitted
<1>2. DOMAIN queue = 1 .. Len(queue) /\ Len(queue) \in Nat
  BY LenProperties
<1>3. \A i \in 1 .. Len(queue) : queue[i] \in AnyMessage
  BY ElementOfSeq
<1>4. queue = << >> => same = {}
  BY <1>2, EmptySeq
<1>5. put \in Seq(AnyMessage)
  <2>1. put \in [1 .. Len(queue) -> AnyMessage]
    BY <1>2, <1>3
  <2> HIDE DEF put
  <2> QED
    BY <1>2, <2>1, SeqDef
<1> HIDE DEF put, same
<1>6. /\ Append(queue, m) \in Seq(AnyMessage)
      /\ queue = << >> => Len(Append(queue, m)) = 1 /\ Append(queue, m)[1] = m
  BY AppendProperties, EmptySeq
<1> QED
  BY <1>1, <1>4, <1>5, <1>6

LEMMA SubmitStep ==
  ASSUME ServerInv, Submit
  PROVE  ServerInv'
<1>1. /\ tcp.at = "submit"
      /\ UNCHANGED <<issued, adu, late, job, jobs, data>>
  BY DEF Submit, Handled
<1>2. ServerTypes /\ OneAtATime
  BY Parts
<1>3. CASE adu.asks.unit \notin {0, 1, 2}
  <2>1. tcp' = [tcp EXCEPT !.at = "accept"] /\ inbox' = << >>
        /\ UNCHANGED <<ready, active, queue>>
    BY <1>3 DEF Submit, Close, Goto
  <2>2. ServerTypes' /\ OneAtATime'
    BY <1>1, <2>1, Moves
  <2> QED
    BY <1>1, <2>2, Parts, UnmovedData
<1>4. CASE adu.asks.unit \in {0, 1, 2}
  <2>1. /\ ready' = FALSE /\ active' = adu.asks.unit /\ queue' = Submitted(adu)
        /\ tcp' = [tcp EXCEPT !.at = "wait"] /\ inbox' = inbox
    BY <1>4 DEF Submit, Goto
  <2>2. adu \in AnyMessage /\ queue \in Seq(AnyMessage) /\ adu.asks.unit \in Nat
    BY <1>2 DEF ServerTypes, AnyMessage, Request
  <2>3. /\ queue' \in Seq(AnyMessage)
        /\ queue = << >> => Len(queue') = 1 /\ queue'[1] = adu
    BY <2>1, <2>2, SubmittedIs
  <2>4. ServerTypes'
    BY <1>1, <1>2, <2>1, <2>2, <2>3 DEF ServerTypes
  <2>5. tcp'.at = "wait" /\ tcp'.id = tcp.id
    BY <1>2, <2>1 DEF ServerTypes
  <2>6. ~late => Waiting'
    BY <1>1, <1>2, <2>1, <2>3 DEF OneAtATime, Resting, Waiting
  <2>7. OneAtATime'
    BY <1>1, <1>2, <2>1, <2>5, <2>6 DEF OneAtATime
  <2> QED
    BY <1>1, <2>4, <2>7, Parts, UnmovedData
<1> QED
  BY <1>3, <1>4

LEMMA TakeStep ==
  ASSUME ServerInv, Take
  PROVE  ServerInv'
<1>1. /\ tcp.at = "wait" /\ ready /\ ready' = FALSE /\ tcp' = [tcp EXCEPT !.at = "send"]
      /\ UNCHANGED <<inbox, issued, adu, active, queue, late, job, jobs, data>>
  BY DEF Take, Goto, Handled
<1>2. ServerTypes /\ OneAtATime
  BY Parts
<1>3. tcp'.at = "send" /\ tcp'.id = tcp.id
  BY <1>1, <1>2 DEF ServerTypes
<1>4. ServerTypes'
  BY <1>1, <1>2 DEF ServerTypes
<1>5. OneAtATime'
  BY <1>1, <1>2, <1>3 DEF OneAtATime, Waiting, Resting
<1> QED
  BY <1>1, <1>4, <1>5, Parts, UnmovedData

LEMMA TimeoutStep ==
  ASSUME ServerInv, Timeout
  PROVE  ServerInv'
<1>1. /\ tcp.at = "wait" /\ ~ready /\ (Idle \/ Slow)
      /\ adu' = [adu EXCEPT !.kind = "failure"]
      /\ late' = (late \/ Slow) /\ tcp' = [tcp EXCEPT !.at = "send"]
      /\ UNCHANGED <<inbox, issued, ready, active, queue, job, jobs, data>>
  BY DEF Timeout, Goto, Handled
<1>2. ServerTypes /\ OneAtATime
  BY Parts
<1>3. tcp'.at = "send" /\ tcp'.id = tcp.id
  BY <1>1, <1>2 DEF ServerTypes
<1>4. adu' \in AnyMessage /\ adu'.id = adu.id /\ adu'.own = adu.own /\ adu'.kind = "failure"
  BY <1>1, <1>2 DEF ServerTypes, AnyMessage
<1>5. ServerTypes'
  <2>1. late' \in BOOLEAN
    BY <1>1
  <2>2. tcp' \in [at : {"start", "dead", "accept", "recv", "submit", "wait", "send"}, id : Nat]
    BY <1>1, <1>2 DEF ServerTypes
  <2> QED
    BY <1>1, <1>2, <1>4, <2>1, <2>2 DEF ServerTypes
<1>6. ~late' => ~late /\ Resting'
  BY <1>1 DEF Idle, Resting
<1>7. OneAtATime'
  BY <1>1, <1>2, <1>3, <1>4, <1>6 DEF OneAtATime
<1> QED
  BY <1>1, <1>5, <1>7, Parts, UnmovedData

LEMMA RunStep ==
  ASSUME ServerInv, Run
  PROVE  ServerInv'
<1> DEFINE m == Head(queue)
<1>1. /\ job["wq"].at = "none" /\ queue # << >> /\ queue' = Tail(queue)
      /\ Begin("wq", Starting(m.id, m.asks))
      /\ UNCHANGED <<tcp, inbox, issued, adu, ready, active, jobs, late>>
  BY DEF Run
<1>2. ServerTypes /\ OneAtATime /\ Good
  BY Parts
<1>3. queue \in Seq(AnyMessage) /\ m \in AnyMessage /\ m = queue[1]
      /\ Tail(queue) \in Seq(AnyMessage) /\ Len(Tail(queue)) = Len(queue) - 1
  BY <1>1, <1>2, HeadTailProperties, EmptySeq DEF ServerTypes
<1>4. m.id \in Nat /\ m.asks \in Request
  BY <1>3 DEF AnyMessage
<1> HIDE DEF m
<1>5. /\ GoodData' /\ job' = [job EXCEPT !["wq"] = Starting(m.id, m.asks)]
      /\ Starting(m.id, m.asks).id = m.id /\ Starting(m.id, m.asks).asks = m.asks
      /\ Starting(m.id, m.asks).own /\ Starting(m.id, m.asks).at = "word"
  BY <1>1, <1>2, <1>4, BeginKeepsData DEF Writers
<1>6. job'["wq"] = Starting(m.id, m.asks)
  BY <1>2, <1>5 DEF Good, TypeOK, Writers
<1>7. ServerTypes'
  BY <1>1, <1>2, <1>3 DEF ServerTypes
<1>8. ~late => tcp.at = "wait" /\ Waiting /\ ~Resting
  BY <1>1, <1>2 DEF OneAtATime, Resting
<1>9. ~late => Waiting'
  <2> SUFFICES ASSUME ~late
               PROVE  Waiting'
    OBVIOUS
  <2>1. Len(queue) = 1 /\ queue[1] = adu /\ active = adu.asks.unit /\ ~ready /\ adu.id = tcp.id
    BY <1>1, <1>2, <1>8 DEF Waiting, OneAtATime
  <2>2. queue' = << >>
    BY <1>1, <1>3, <2>1, EmptySeq
  <2> QED
    BY <1>1, <1>3, <1>5, <1>6, <2>1, <2>2 DEF Waiting
<1>10. OneAtATime'
  BY <1>1, <1>2, <1>8, <1>9 DEF OneAtATime
<1> QED
  BY <1>5, <1>7, <1>10, Parts

LEMMA JobStep ==
  ASSUME ServerInv, NEW t \in Writers, Step(t)
  PROVE  ServerInv'
<1>1. UNCHANGED <<tcp, inbox, issued, adu, ready, active, queue, jobs, late>>
  BY DEF Step, server
<1>2. ServerTypes /\ OneAtATime /\ Good
  BY Parts
<1>3. PICK n : job' = [job EXCEPT ![t] = n] /\ StepOK(t, n)
  BY <1>2, StepIsOK
<1>4. GoodData'
  BY <1>2, <1>3, StepKeepsData
<1>5. ServerTypes'
  BY <1>1, <1>2 DEF ServerTypes
<1>6. /\ t # "wq" => job'["wq"] = job["wq"]
      /\ t = "wq" => job'["wq"] = n
  BY <1>2, <1>3 DEF Good, TypeOK, Writers
<1>7. t = "wq" => job["wq"].at # "none"
  BY DEF Step, WriteRegister, LookUp, Claim, WriteTarget, Read, SaveEnds
<1>8. ~late /\ tcp.at # "wait" => Resting'
  BY <1>1, <1>2, <1>6, <1>7 DEF OneAtATime, Resting
<1>9. ~late /\ tcp.at = "wait" => Waiting'
  <2>1. CASE t # "wq"
    BY <1>1, <1>2, <1>6, <2>1 DEF OneAtATime, Waiting, Resting
  <2>2. CASE t = "wq"
    BY <1>1, <1>2, <1>3, <1>6, <1>7, <2>2 DEF OneAtATime, Waiting, Resting, StepOK
  <2> QED
    BY <2>1, <2>2
<1>10. OneAtATime'
  BY <1>1, <1>2, <1>8, <1>9 DEF OneAtATime
<1> QED
  BY <1>4, <1>5, <1>10, Parts

LEMMA EchoIs ==
  ASSUME NEW r \in Request
  PROVE  Echo(r) \in Request
BY NoJobIs DEF Echo, Request

LEMMA AnswerStep ==
  ASSUME ServerInv, Answer
  PROVE  ServerInv'
<1> DEFINE j == job["wq"]
<1>1. /\ j.at = "answer" /\ job' = [job EXCEPT !["wq"] = NoJob]
      /\ UNCHANGED <<tcp, inbox, issued, active, queue, data, jobs, late>>
  BY DEF Answer
<1>2. ServerTypes /\ OneAtATime /\ Good
  BY Parts
<1>3. j \in AnyJob /\ "wq" \in Writers
  BY <1>2 DEF Good, TypeOK, Writers
<1>4. \/ adu' = adu /\ ready' = ready
      \/ /\ adu' = [id |-> j.id, asks |-> Echo(j.asks), own |-> j.own,
                    kind |-> IF j.failed THEN "exception" ELSE "answer"]
         /\ ready' = TRUE
  BY DEF Answer
<1>5. /\ adu' \in AnyMessage /\ ready' \in BOOLEAN
      /\ \/ adu' = adu /\ ready' = ready
         \/ adu'.id = j.id /\ adu'.own = j.own /\ adu'.kind # "request"
  <2>1. Echo(j.asks) \in Request /\ j.id \in Nat /\ j.own \in BOOLEAN
    BY <1>3, EchoIs DEF AnyJob
  <2>2. CASE adu' = adu /\ ready' = ready
    BY <1>2, <2>2 DEF ServerTypes
  <2>3. CASE /\ adu' = [id |-> j.id, asks |-> Echo(j.asks), own |-> j.own,
                       kind |-> IF j.failed THEN "exception" ELSE "answer"]
             /\ ready' = TRUE
    <3> DEFINE kind == IF j.failed THEN "exception" ELSE "answer"
    <3>1. kind \in {"request", "answer", "exception", "failure"} /\ kind # "request"
      OBVIOUS
    <3> HIDE DEF kind
    <3>2. adu' = [id |-> j.id, asks |-> Echo(j.asks), own |-> j.own, kind |-> kind]
      BY <2>3 DEF kind
    <3> QED
      BY <2>1, <2>3, <3>1, <3>2 DEF AnyMessage
  <2> QED
    BY <1>4, <2>2, <2>3
<1>6. job'["wq"] = NoJob /\ job'["wq"].at = "none"
  BY <1>1, <1>2, <1>3, NoJobIs DEF Good, TypeOK
<1>7. GoodData'
  BY <1>1, <1>2, <1>3, FinishedData
<1>8. ServerTypes'
  BY <1>1, <1>2, <1>5 DEF ServerTypes
<1>9. ~late => /\ tcp.at = "wait" /\ queue = << >> /\ j.id = tcp.id /\ j.own /\ ~ready
               /\ adu.id = tcp.id /\ adu.own
  BY <1>1, <1>2 DEF OneAtATime, Resting, Waiting
<1>10. ~late => Waiting' /\ adu'.id = tcp.id /\ adu'.own
  BY <1>1, <1>5, <1>6, <1>9 DEF Waiting, Resting
<1>11. OneAtATime'
  BY <1>1, <1>2, <1>9, <1>10 DEF OneAtATime
<1> QED
  BY <1>7, <1>8, <1>11, Parts

LEMMA ImageIsARequest ==
  ASSUME NEW image \in Images
  PROVE  [NoRequest EXCEPT !.unit = 2, !.values = image] \in Request
<1>1. image \in [1 .. 5 -> Nat]
  BY ServerAssumption
<1>2. image \in Seq(Nat)
  <2>1. 5 \in Nat /\ Seq(Nat) = UNION {[1 .. n -> Nat] : n \in Nat}
    BY SeqDef
  <2> QED
    BY <1>1, <2>1
<1> QED
  BY <1>2, NoJobIs DEF Request

LEMMA BeginsStep ==
  ASSUME ServerInv, NEW t \in Others, NEW r \in Request, Begin(t, Starting(0, r)),
         jobs' = [jobs EXCEPT ![t] = @ + 1], UNCHANGED <<server, late>>
  PROVE  ServerInv'
<1>1. ServerTypes /\ OneAtATime /\ Good
  BY Parts
<1>2. GoodData' /\ job' = [job EXCEPT ![t] = Starting(0, r)]
  BY <1>1, BeginKeepsData DEF Writers
<1>3. job'["wq"] = job["wq"]
  BY <1>1, <1>2 DEF Good, TypeOK, Writers, Others
<1>4. ServerTypes'
  BY <1>1 DEF ServerTypes, server
<1>5. OneAtATime'
  BY <1>1, <1>3 DEF OneAtATime, Waiting, Resting, server
<1> QED
  BY <1>2, <1>4, <1>5, Parts

LEMMA OthersStep ==
  ASSUME ServerInv, UNCHANGED <<server, data, job, jobs, late>>
  PROVE  ServerInv'
<1>1. ServerTypes /\ OneAtATime /\ Good
  BY Parts
<1>2. ServerTypes' /\ OneAtATime'
  BY <1>1 DEF ServerTypes, OneAtATime, Waiting, Resting, server
<1> QED
  BY <1>1, <1>2, Parts, UnmovedData

LEMMA InitialStep == Init => ServerInv
<1> SUFFICES ASSUME Init
             PROVE  ServerInv
  OBVIOUS
<1>1. << >> \in Seq(AnyMessage) /\ Len(<< >>) = 0
  BY EmptySeq
<1>2. Message(0, NoRequest) \in AnyMessage
  BY NoJobIs DEF Message, AnyMessage
<1>3. ServerTypes
  <2>1. tcp \in [at : {"start", "dead", "accept", "recv", "submit", "wait", "send"},
               id : Nat]
    BY DEF Init
  <2>2. inbox \in Seq(AnyMessage) /\ Len(inbox) <= 1 /\ queue \in Seq(AnyMessage)
    BY <1>1 DEF Init
  <2>3. issued \in Nat /\ active \in Nat /\ jobs \in [Others -> Nat]
    BY DEF Init
  <2> QED
    BY <1>2, <2>1, <2>2, <2>3 DEF Init, ServerTypes
<1>4. DataTypes
  BY NoJobIs DEF Init, DataTypes, Defaults
<1>5. TablesOK
  BY DefaultTables DEF Init, TablesOK
<1>6. JobsOK
  BY NoJobIs DEF Init, JobsOK, Alone
<1>7. OneAtATime
  BY <1>1, NoJobIs DEF Init, OneAtATime, Resting, Writers
<1> QED
  BY <1>3, <1>4, <1>5, <1>6, <1>7, Parts DEF GoodData

LEMMA InductiveStep == ServerInv /\ [Next]_vars => ServerInv'
<1> SUFFICES ASSUME ServerInv, [Next]_vars
             PROVE  ServerInv'
  OBVIOUS
<1>1. CASE (\E ok \in BOOLEAN : Listen(ok)) \/ Accept \/ Hangup \/ Reply \/ ReplyFails
  BY <1>1, ThreadMoves
<1>2. ASSUME NEW r \in Requests, ClientSends(r)
      PROVE  ServerInv'
  BY <1>2, SendsStep
<1>3. CASE Receive \/ Submit \/ Take \/ Timeout
  BY <1>3, ReceiveStep, SubmitStep, TakeStep, TimeoutStep
<1>4. CASE Run \/ Answer
  BY <1>4, RunStep, AnswerStep
<1>5. ASSUME NEW t \in Writers, Step(t)
      PROVE  ServerInv'
  BY <1>5, JobStep
<1>6. CASE EipThread \/ EipConnection \/ M4Publishes
  BY <1>6, OthersStep DEF EipThread, EipConnection, M4Publishes
<1>7. ASSUME NEW image \in Images, EipImage(image)
      PROVE  ServerInv'
  BY <1>7, ImageIsARequest, BeginsStep DEF EipImage, Others
<1>8. ASSUME NEW r \in Puts, WebPut(r)
      PROVE  ServerInv'
  BY <1>8, BeginsStep, ServerAssumption DEF WebPut, Others
<1>9. CASE UNCHANGED vars
  BY <1>9, OthersStep DEF vars
<1> QED
  BY <1>1, <1>2, <1>3, <1>4, <1>5, <1>6, <1>7, <1>8, <1>9
     DEF Next, TcpStep, WorkqueueStep, Writers, Others

-----------------------------------------------------------------------------
(***************************************************************************)
(* The properties of the steps.                                            *)
(***************************************************************************)

\* Which step changes a job under way, or the last command submitted.
LEMMA OnlyStepsWrite ==
  ASSUME ServerInv, [Next]_vars
  PROVE  \/ \E t \in Writers : Step(t)
         \/ /\ sent' = sent
            /\ \A t \in Writers : job'[t] # job[t] /\ job[t].at # "none" => regs' = regs
<1>0. job \in [Writers -> AnyJob]
  BY Parts DEF Good, TypeOK
<1>1. CASE UNCHANGED <<regs, sent>>
  BY <1>1
<1>2. ASSUME NEW w \in Writers, NEW j, Begin(w, j), job[w].at = "none"
      PROVE  /\ sent' = sent
             /\ \A t \in Writers : job'[t] # job[t] /\ job[t].at # "none" => regs' = regs
  BY <1>0, <1>2 DEF Begin
<1>3. CASE Run
  BY <1>2, <1>3 DEF Run, Writers
<1>4. ASSUME NEW image \in Images, EipImage(image)
      PROVE  \E w \in Writers : \E j : Begin(w, j) /\ job[w].at = "none"
  BY <1>4 DEF EipImage, Writers, Others
<1>5. ASSUME NEW r \in Puts, WebPut(r)
      PROVE  \E w \in Writers : \E j : Begin(w, j) /\ job[w].at = "none"
  BY <1>5 DEF WebPut, Writers, Others
<1>6. CASE \/ \E ok \in BOOLEAN : Listen(ok)
           \/ Accept \/ Hangup \/ ReplyFails \/ Receive \/ Submit \/ Take \/ Timeout \/ Reply
           \/ \E r \in Requests : ClientSends(r)
  BY <1>1, <1>6 DEF Listen, Accept, Hangup, ReplyFails, Receive, Submit, Take, Timeout,
       Reply, ClientSends, Handled, data
<1>7. CASE Answer \/ EipThread \/ EipConnection \/ M4Publishes \/ UNCHANGED vars
  BY <1>1, <1>7 DEF Answer, EipThread, EipConnection, M4Publishes, vars, data
<1> QED
  BY <1>2, <1>3, <1>4, <1>5, <1>6, <1>7
     DEF Next, TcpStep, WorkqueueStep, Writers, Others

(***************************************************************************)
(* The inductive invariant of the server, for any requests, images, PUTs   *)
(* and numbers of them.                                                    *)
(***************************************************************************)
THEOREM ServerInvariant == Spec => []ServerInv
<1> QED
  BY InitialStep, InductiveStep, PTL DEF Spec

(***************************************************************************)
(* Until an answer is late each client gets the answer to its own request, *)
(* made on the unit it asked: the ADU, the semaphore and the Unit-ID are   *)
(* shared, but one request at a time has them.                             *)
(***************************************************************************)
THEOREM OwnReplies == Spec => RepliesAnswerTheirRequest
<1>1. ServerInv =>
        [tcp.at = "send" /\ tcp'.at = "recv" =>
           late \/ (adu.id = tcp.id /\ adu.own /\ adu.kind # "request")]_vars
  BY DEF ServerInv, OneAtATime
<1> QED
  BY ServerInvariant, <1>1, PTL DEF RepliesAnswerTheirRequest

(***************************************************************************)
(* Until an answer is late no word of a request is executed on another     *)
(* unit than the one it was addressed to: what ImagesKeepTheTables and     *)
(* CommitTakesItsImage except of a request does not happen.                *)
(***************************************************************************)
THEOREM OwnUntilLate == Spec => [](~late /\ job["wq"].at # "none" => job["wq"].own)
<1>1. ServerInv => (~late /\ job["wq"].at # "none" => job["wq"].own)
  BY DEF ServerInv, OneAtATime, Waiting, Resting
<1> QED
  BY ServerInvariant, <1>1, PTL

(***************************************************************************)
(* No image, of whatever mapping and by whatever client, writes the        *)
(* mapping tables, as long as each of its words is executed as an image's. *)
(***************************************************************************)
THEOREM TablesKept == Spec => ImagesKeepTheTables
<1>1. ServerInv /\ [Next]_vars =>
        [\A t \in Writers :
           /\ job'[t] # job[t] /\ job'[t].own
           /\ job[t].asks.unit = 2 /\ job[t].at # "none"
           => \A a \in InputMaps \cup OutputMaps : regs'[a] = regs[a]]_vars
  <2> SUFFICES ASSUME ServerInv, [Next]_vars,
                      NEW t \in Writers, job'[t] # job[t], job'[t].own,
                      job[t].asks.unit = 2, job[t].at # "none",
                      NEW b \in InputMaps \cup OutputMaps
               PROVE  regs'[b] = regs[b]
    OBVIOUS
  <2>1. ASSUME NEW w \in Writers, Step(w)
        PROVE  regs'[b] = regs[b]
    <3>1. Good
      BY Parts
    <3>2. PICK n : job' = [job EXCEPT ![w] = n] /\ StepOK(w, n)
      BY <2>1, <3>1, StepIsOK
    <3>3. w = t /\ job'[t] = n
      BY <3>1, <3>2 DEF Good, TypeOK
    <3>4. PICK a : WritesOne(t, a) /\ a \notin InputMaps \cup OutputMaps
      BY <3>2, <3>3 DEF StepOK
    <3> QED
      BY <3>1, <3>4, Registers DEF WritesOne, Good, TypeOK
  <2> QED
    BY <2>1, OnlyStepsWrite
<1> QED
  BY ServerInvariant, <1>1, PTL DEF Spec, ImagesKeepTheTables

(***************************************************************************)
(* A command an image applies is remote and carries the control word and   *)
(* the duty of that image, under the default mapping, while no other       *)
(* client writes and each word is executed as an image's.                  *)
(***************************************************************************)
THEOREM CommitsWhole == Spec => CommitTakesItsImage
<1>1. ServerInv /\ [Next]_vars =>
        [\A t \in Writers :
           /\ sent' # sent /\ sent'.by = t
           /\ job[t].asks.unit = 2 /\ job[t].asks.first = 0 /\ job[t].own
           /\ \A s \in 0 .. 2 : regs[OutputMap(s)] = Defaults[OutputMap(s)]
           /\ ~foreign[t]
           => sent' = [mode |-> 1, control |-> t, duty |-> t, by |-> t]]_vars
  <2> SUFFICES ASSUME ServerInv, [Next]_vars,
                      NEW t \in Writers, sent' # sent, sent'.by = t,
                      job[t].asks.unit = 2, job[t].asks.first = 0, job[t].own,
                      \A s \in 0 .. 2 : regs[OutputMap(s)] = Defaults[OutputMap(s)],
                      ~foreign[t]
               PROVE  sent' = [mode |-> 1, control |-> t, duty |-> t, by |-> t]
    OBVIOUS
  <2>1. PICK w \in Writers : Step(w)
    BY OnlyStepsWrite
  <2>2. Commits(w)
    BY <2>1, Parts, StepIsOK DEF StepOK
  <2> QED
    BY <2>2 DEF Commits
<1> QED
  BY ServerInvariant, <1>1, PTL DEF Spec, CommitTakesItsImage

=============================================================================

--------------------------- MODULE IpcPingProofs ---------------------------
(***************************************************************************)
(* A successful ping took its own PONG, for any number of callers, pings   *)
(* and frames in the channels.                                             *)
(***************************************************************************)
EXTENDS IpcPing, SequenceTheorems, TLAPS

Places == {"idle", "lock", "number", "send", "wait", "check"}
AnyCall == [pc : Places, sequence : Nat, result : Results]

\* Every PONG on its way, and the one last received, was sent by the M4; and
\* a call past PingNumber has a sequence that is not the cleared value.
PongInv ==
  /\ call \in [Callers -> AnyCall]
  /\ next \in Nat
  /\ toM7 \in Seq(ponged)
  /\ received \in ponged \cup {0}
  /\ \A c \in Callers :
       call[c].pc \in {"send", "wait", "check"} => call[c].sequence # 0

LEMMA PongInit == Init => PongInv
<1> SUFFICES ASSUME Init
             PROVE  PongInv
  OBVIOUS
<1> DEFINE zero == 0
<1>1. call = [c \in Callers |-> [pc |-> "idle", sequence |-> zero, result |-> "none"]]
  BY DEF Init
<1>2. zero \in Nat
  OBVIOUS
<1> HIDE DEF zero
<1>3. call \in [Callers -> AnyCall]
  BY <1>1, <1>2 DEF AnyCall, Places, Results
<1>4. \A c \in Callers : call[c].pc = "idle"
  BY <1>1
<1>5. next \in Nat /\ toM7 \in Seq(ponged) /\ received = 0
  BY DEF Init
<1> QED  BY <1>3, <1>4, <1>5 DEF PongInv

\* A caller that moves on leaves the PONGs alone.
LEMMA GotoKeepsPongs ==
  ASSUME PongInv, NEW c \in Callers, NEW from \in Places, NEW to \in Places,
         Goto(c, from, to),
         to \in {"send", "wait", "check"} => from \in {"send", "wait", "check"},
         UNCHANGED <<next, received, toM7, ponged>>
  PROVE  PongInv'
<1>1. call' \in [Callers -> AnyCall]
  BY DEF PongInv, AnyCall, Goto
<1>2. ASSUME NEW d \in Callers, call'[d].pc \in {"send", "wait", "check"}
      PROVE  call'[d].sequence # 0
  BY <1>2 DEF PongInv, AnyCall, Goto
<1> QED  BY <1>1, <1>2 DEF PongInv

\* And so does one that returns.
LEMMA AnswerKeepsPongs ==
  ASSUME PongInv, NEW c \in Callers, NEW from \in Places, NEW result \in Results,
         Answer(c, from, result),
         UNCHANGED <<next, received, toM7, ponged>>
  PROVE  PongInv'
<1> DEFINE zero == 0
<1>1. call' = [call EXCEPT ![c] = [pc |-> "idle", sequence |-> zero,
                                   result |-> result]]
  BY DEF Answer
<1>2. zero \in Nat
  OBVIOUS
<1> HIDE DEF zero
<1>3. call' \in [Callers -> AnyCall]
  BY <1>1, <1>2 DEF PongInv, AnyCall, Places
<1>4. ASSUME NEW d \in Callers, call'[d].pc \in {"send", "wait", "check"}
      PROVE  call'[d].sequence # 0
  BY <1>1, <1>4 DEF PongInv, AnyCall
<1> QED  BY <1>3, <1>4 DEF PongInv

LEMMA PongNext ==
  ASSUME PongInv, [Next]_vars
  PROVE  PongInv'
<1>1. ASSUME NEW c \in Callers, PingCall(c)
      PROVE  PongInv'
  <2>1. CASE bound
    <3>1. Goto(c, "idle", "lock") /\ UNCHANGED <<next, received, toM7, ponged>>
      BY <1>1, <2>1 DEF PingCall, link
    <3> QED  BY <3>1, GotoKeepsPongs DEF Places
  <2>2. CASE ~bound
    <3>1. call' = [call EXCEPT ![c].result = "ENOTCONN"]
      BY <1>1, <2>2 DEF PingCall
    <3>2. call' \in [Callers -> AnyCall]
      BY <3>1 DEF PongInv, AnyCall, Results
    <3>3. \A d \in Callers : call'[d].pc = call[d].pc /\ call'[d].sequence = call[d].sequence
      BY <3>1 DEF PongInv, AnyCall
    <3>4. UNCHANGED <<next, received, toM7, ponged>>
      BY <1>1 DEF PingCall, link
    <3> QED  BY <3>2, <3>3, <3>4 DEF PongInv
  <2> QED  BY <2>1, <2>2
<1>2. ASSUME NEW c \in Callers, PingLock(c)
      PROVE  PongInv'
  <2>1. Goto(c, "lock", "number") /\ UNCHANGED <<next, received, toM7, ponged>>
    BY <1>2 DEF PingLock, link
  <2> QED  BY <2>1, GotoKeepsPongs DEF Places
<1>3. ASSUME NEW c \in Callers, PingNumber(c)
      PROVE  PongInv'
  <2> DEFINE s == next + 1
  <2>1. s \in Nat /\ s # 0
    BY DEF PongInv
  <2>2. call' = [call EXCEPT ![c].pc = "send", ![c].sequence = s]
    BY <1>3 DEF PingNumber
  <2>3. next' = s /\ received' = 0 /\ UNCHANGED <<toM7, ponged>>
    BY <1>3 DEF PingNumber, link
  <2> HIDE DEF s
  <2>4. call' \in [Callers -> AnyCall]
    BY <2>1, <2>2 DEF PongInv, AnyCall, Places
  <2>5. ASSUME NEW d \in Callers, call'[d].pc \in {"send", "wait", "check"}
        PROVE  call'[d].sequence # 0
    BY <2>1, <2>2, <2>5 DEF PongInv, AnyCall
  <2> QED  BY <2>1, <2>3, <2>4, <2>5 DEF PongInv
<1>4. ASSUME NEW c \in Callers, PingSend(c)
      PROVE  PongInv'
  <2>1. Goto(c, "send", "wait") /\ UNCHANGED <<next, received, toM7, ponged>>
    BY <1>4 DEF PingSend
  <2> QED  BY <2>1, GotoKeepsPongs DEF Places
<1>5. ASSUME NEW c \in Callers, PingRefused(c)
      PROVE  PongInv'
  <2>1. Answer(c, "send", "ENOBUFS") /\ UNCHANGED <<next, received, toM7, ponged>>
    BY <1>5 DEF PingRefused, link
  <2> QED  BY <2>1, AnswerKeepsPongs DEF Places, Results
<1>6. ASSUME NEW c \in Callers, PingTake(c)
      PROVE  PongInv'
  <2>1. Goto(c, "wait", "check") /\ UNCHANGED <<next, received, toM7, ponged>>
    BY <1>6 DEF PingTake, link
  <2> QED  BY <2>1, GotoKeepsPongs DEF Places
<1>7. ASSUME NEW c \in Callers, PingTimeout(c)
      PROVE  PongInv'
  <2>1. Answer(c, "wait", "ETIMEDOUT") /\ UNCHANGED <<next, received, toM7, ponged>>
    BY <1>7 DEF PingTimeout, link
  <2> QED  BY <2>1, AnswerKeepsPongs DEF Places, Results
<1>8. ASSUME NEW c \in Callers, PingCheck(c)
      PROVE  PongInv'
  <2>1. PICK result \in {"ok", "EBADMSG"} : Answer(c, "check", result)
    BY <1>8 DEF PingCheck
  <2>2. UNCHANGED <<next, received, toM7, ponged>>
    BY <1>8 DEF PingCheck, link
  <2> QED  BY <2>1, <2>2, AnswerKeepsPongs DEF Places, Results
<1>9. CASE PongStore
  <2>1. Head(toM7) \in ponged /\ Tail(toM7) \in Seq(ponged)
    BY <1>9 DEF PongStore, PongInv
  <2> QED  BY <1>9, <2>1 DEF PongStore, PongInv
<1>10. CASE M4Answer
  <2>1. toM7 \in Seq(ponged') /\ m4.sequence \in ponged'
    <3>1. ponged \subseteq ponged' /\ m4.sequence \in ponged'
      BY <1>10 DEF M4Answer
    <3> QED  BY <3>1 DEF PongInv
  <2>2. toM7' \in Seq(ponged')
    BY <1>10, <2>1 DEF M4Answer
  <2> QED  BY <1>10, <2>2 DEF M4Answer, PongInv, m7
<1>11. CASE PongGive \/ Bind \/ M4Store \/ M4Mark \/ M4Take \/ M4Refused
  BY <1>11 DEF PongGive, Bind, M4Store, M4Mark, M4Take, M4Refused, m7, link, PongInv
<1>12. CASE UNCHANGED vars
  BY <1>12 DEF vars, PongInv
<1> QED
  BY <1>1, <1>2, <1>3, <1>4, <1>5, <1>6, <1>7, <1>8, <1>9, <1>10, <1>11, <1>12
  DEF Next, Caller

\* The inductive invariant of the exchange.
THEOREM PingInvariant == Spec => []PongInv
  BY PongInit, PongNext, PTL DEF Spec

(***************************************************************************)
(* A ping that succeeds took the PONG the M4 sent for it: late answers to  *)
(* earlier pings are never mistaken for it.                                *)
(***************************************************************************)
THEOREM OwnPong == Spec => OkTakesItsOwnPong
<1> DEFINE Own ==
      \A c \in Callers :
        call[c].pc = "check" /\ call'[c].result = "ok" /\ call'[c].pc = "idle"
          => call[c].sequence \in ponged
<1>1. ASSUME PongInv, [Next]_vars
      PROVE  [Own]_vars
  <2> SUFFICES ASSUME NEW c \in Callers, Next,
                      call[c].pc = "check", call'[c].result = "ok",
                      call'[c].pc = "idle"
               PROVE  call[c].sequence \in ponged
    BY <1>1
  <2>1. PingCheck(c)
    <3>1. call' # call
      BY DEF PongInv
    <3>2. PICK d \in Callers : PingCall(d) \/ PingLock(d) \/ Caller(d)
      BY <3>1 DEF Next, PongStore, PongGive, Bind, M4Store, M4Mark, M4Take,
                  M4Answer, M4Refused, m7
    <3>3. d = c
      BY <1>1, <3>2 DEF PongInv, AnyCall, Caller, PingCall, PingLock, PingNumber,
           PingSend, PingRefused, PingTake, PingTimeout, PingCheck, Goto, Answer
    <3> QED
      BY <3>2, <3>3 DEF PongInv, AnyCall, Caller, PingCall, PingLock, PingNumber,
           PingSend, PingRefused, PingTake, PingTimeout, Goto, Answer
  <2>2. received = call[c].sequence
    <3> DEFINE zero == 0
    <3>1. call' = [call EXCEPT ![c] =
             [pc |-> "idle", sequence |-> zero,
              result |-> IF received = call[c].sequence THEN "ok" ELSE "EBADMSG"]]
      BY <2>1 DEF PingCheck, Answer
    <3> HIDE DEF zero
    <3> QED  BY <1>1, <3>1 DEF PongInv, AnyCall
  <2> QED  BY <1>1, <2>2 DEF PongInv
<1> QED  BY <1>1, PingInvariant, PTL DEF Spec, OkTakesItsOwnPong

-----------------------------------------------------------------------------
(***************************************************************************)
(* While no ping has timed out there is one frame under way at most, the   *)
(* ping's own, and it is in one place.                                     *)
(***************************************************************************)
Pending == [sequence : Nat, ping : BOOLEAN, storing : BOOLEAN, answering : BOOLEAN]

\* The mutex, and the types of what a frame crosses.
PathOK ==
  /\ \A c \in Callers : lock = c <=> Holding(c)
  /\ sem \in 0 .. 1 /\ giving \in BOOLEAN
  /\ toM4 \in Seq(Nat) /\ toM7 \in Seq(Nat)
  /\ m4 \in Pending
  /\ unanswered \in BOOLEAN

Stages == {"sent", "storing", "marked", "answering", "ponged", "giving", "given"}

\* The one place of the path that holds something, if any does.
At(stage) ==
  /\ toM4 # << >> <=> stage = "sent"
  /\ m4.storing <=> stage = "storing"
  /\ m4.ping <=> stage = "marked"
  /\ m4.answering <=> stage = "answering"
  /\ toM7 # << >> <=> stage = "ponged"
  /\ giving <=> stage = "giving"
  /\ sem = 1 <=> stage = "given"

Carries(stage, s) ==
  /\ stage = "sent" => toM4 = <<s>>
  /\ stage \in {"storing", "marked", "answering"} => m4.sequence = s
  /\ stage = "ponged" => toM7 = <<s>>
  /\ stage \in {"giving", "given"} => received = s

NobodyWaits == \A c \in Callers : call[c].pc # "wait"

Answered ==
  ~unanswered =>
    /\ NobodyWaits => At("nowhere")
    /\ \A c \in Callers :
         /\ call[c].pc = "wait" =>
              \E stage \in Stages : At(stage) /\ Carries(stage, call[c].sequence)
         /\ call[c].pc = "check" => received = call[c].sequence
         /\ call[c].result # "EBADMSG"

CleanInv == PongInv /\ PathOK /\ Answered

LEMMA CleanInit == Init => CleanInv
<1> SUFFICES ASSUME Init
             PROVE  CleanInv
  OBVIOUS
<1> DEFINE zero == 0
<1>1. call = [c \in Callers |-> [pc |-> "idle", sequence |-> zero, result |-> "none"]]
  BY DEF Init
<1>2. m4 = [sequence |-> zero, ping |-> FALSE, storing |-> FALSE, answering |-> FALSE]
  BY DEF Init
<1>3. zero \in Nat
  OBVIOUS
<1> HIDE DEF zero
<1>4. \A c \in Callers : call[c].pc = "idle" /\ call[c].result = "none"
  BY <1>1
<1>5. m4 \in Pending /\ ~m4.ping /\ ~m4.storing /\ ~m4.answering
  BY <1>2, <1>3 DEF Pending
<1>6. PathOK
  <2>1. \A c \in Callers : lock = c <=> Holding(c)
    BY <1>4, NoOneAssumption DEF Init, Holding
  <2>2. sem \in 0 .. 1 /\ toM4 \in Seq(Nat) /\ toM7 \in Seq(Nat)
    BY DEF Init
  <2>3. giving \in BOOLEAN /\ unanswered \in BOOLEAN
    BY DEF Init
  <2> QED  BY <1>5, <2>1, <2>2, <2>3 DEF PathOK
<1>7. At("nowhere")
  BY <1>5 DEF Init, At
<1> QED  BY <1>4, <1>6, <1>7, PongInit DEF CleanInv, Answered

\* The callers' steps that leave the path alone keep the invariant, as long as
\* none of them begins or ends a wait and none is refused.
LEMMA CallerKeepsClean ==
  ASSUME CleanInv, PathOK', NEW c \in Callers,
         UNCHANGED <<toM4, toM7, m4, giving, unanswered>>,
         \A d \in Callers \ {c} : call'[d] = call[d],
         sem' = sem \/ (sem' = 0 /\ NobodyWaits),
         received' = received \/ \A d \in Callers \ {c} : ~Holding(d),
         call[c].pc # "wait", call'[c].pc \notin {"wait", "check"},
         call'[c].result = "EBADMSG" => call[c].result = "EBADMSG" \/ unanswered
  PROVE  Answered'
<1> SUFFICES ASSUME ~unanswered
             PROVE  Answered'
  BY DEF Answered
<1>1. NobodyWaits' => NobodyWaits
  BY DEF NobodyWaits
<1>2. NobodyWaits => At("nowhere")'
  BY DEF CleanInv, Answered, At, PathOK
<1>3. ASSUME NEW d \in Callers, call'[d].pc = "wait"
      PROVE  \E stage \in Stages : At(stage)' /\ Carries(stage, call[d].sequence)'
  <2>1. d # c /\ call[d].pc = "wait" /\ call'[d] = call[d]
    BY <1>3
  <2>2. sem' = sem /\ received' = received
    BY <2>1 DEF NobodyWaits, Holding
  <2>3. PICK stage \in Stages : At(stage) /\ Carries(stage, call[d].sequence)
    BY <2>1 DEF CleanInv, Answered
  <2>4. At(stage)' /\ Carries(stage, call[d].sequence)'
    BY <2>1, <2>2, <2>3 DEF At, Carries
  <2> QED  BY <2>4
<1>4. ASSUME NEW d \in Callers, call'[d].pc = "check"
      PROVE  received' = call'[d].sequence
  <2>1. d # c /\ call'[d] = call[d] /\ call[d].pc = "check"
    BY <1>4
  <2> QED  BY <2>1 DEF CleanInv, Answered, Holding
<1>5. ASSUME NEW d \in Callers
      PROVE  call'[d].result # "EBADMSG"
  BY DEF CleanInv, Answered
<1>6. ASSUME NEW d \in Callers, call'[d].pc = "wait"
      PROVE  call'[d].sequence = call[d].sequence
  BY <1>6
<1> QED  BY <1>1, <1>2, <1>3, <1>4, <1>5, <1>6 DEF Answered

\* Who holds the mutex, for each of the three ways the callers move.
LEMMA MutexMoves ==
  ASSUME PongInv, PathOK, NEW c \in Callers,
         \A d \in Callers \ {c} : call'[d] = call[d],
         \/ lock' = lock /\ (Holding(c) <=> Holding(c)')
         \/ lock = NoOne /\ lock' = c /\ Holding(c)'
         \/ Holding(c) /\ lock' = NoOne /\ ~Holding(c)'
  PROVE  \A d \in Callers : lock' = d <=> Holding(d)'
<1>1. ASSUME NEW d \in Callers, d # c
      PROVE  Holding(d) <=> Holding(d)'
  BY <1>1 DEF Holding
<1> QED  BY <1>1, NoOneAssumption DEF PathOK

\* What Goto and Answer do to the callers.
LEMMA GotoMoves ==
  ASSUME PongInv, NEW c \in Callers, NEW from, NEW to, Goto(c, from, to)
  PROVE  /\ \A d \in Callers \ {c} : call'[d] = call[d]
         /\ call[c].pc = from /\ call'[c].pc = to
         /\ call'[c].sequence = call[c].sequence /\ call'[c].result = call[c].result
BY DEF PongInv, AnyCall, Goto

LEMMA AnswerMoves ==
  ASSUME PongInv, NEW c \in Callers, NEW from, NEW result, Answer(c, from, result)
  PROVE  /\ \A d \in Callers \ {c} : call'[d] = call[d]
         /\ call[c].pc = from /\ call'[c].pc = "idle" /\ call'[c].result = result
         /\ lock' = NoOne
BY DEF PongInv, AnyCall, Answer

\* An M4 step leaves the M7 alone; its frames carry numbers.
LEMMA M4KeepsPath ==
  ASSUME PongInv, PathOK, M4Store \/ M4Mark \/ M4Take \/ M4Answer \/ M4Refused
  PROVE  PathOK'
<1>1. UNCHANGED <<call, lock, sem, giving, unanswered>>
  BY DEF M4Store, M4Mark, M4Take, M4Answer, M4Refused, m7
<1>2. m4' \in Pending /\ toM4' \in Seq(Nat) /\ toM7' \in Seq(Nat)
  <2>1. CASE M4Store
    <3>1. Head(toM4) \in Nat /\ Tail(toM4) \in Seq(Nat)
      BY <2>1 DEF M4Store, PathOK
    <3>2. toM4' = Tail(toM4) /\ toM7' = toM7
      BY <2>1 DEF M4Store
    <3>3. m4' \in Pending
      BY <2>1, <3>1 DEF M4Store, PathOK, Pending
    <3> QED  BY <3>1, <3>2, <3>3 DEF PathOK
  <2>2. CASE M4Mark \/ M4Take \/ M4Refused
    BY <2>2 DEF M4Mark, M4Take, M4Refused, PathOK, Pending
  <2>3. CASE M4Answer
    <3>1. m4.sequence \in Nat /\ m4' \in Pending
      BY <2>3 DEF M4Answer, PathOK, Pending
    <3>2. toM7' = Append(toM7, m4.sequence) /\ toM4' = toM4
      BY <2>3 DEF M4Answer, m7
    <3> QED  BY <3>1, <3>2 DEF PathOK
  <2> QED  BY <2>1, <2>2, <2>3
<1> QED  BY <1>1, <1>2 DEF PathOK, Holding

LEMMA CallerKeepsPath ==
  ASSUME PongInv, PathOK, NEW c \in Callers, PingCall(c) \/ PingLock(c) \/ Caller(c)
  PROVE  /\ PathOK'
         /\ \A d \in Callers \ {c} : call'[d] = call[d]
         /\ UNCHANGED <<toM7, m4, giving>>
<1> DEFINE others == \A d \in Callers \ {c} : call'[d] = call[d]
           owner == \A d \in Callers : lock' = d <=> Holding(d)'
<1>1. UNCHANGED <<toM7, m4, giving>>
  BY DEF PingCall, PingLock, Caller, PingNumber, PingSend, PingRefused, PingTake,
         PingTimeout, PingCheck, link
<1>2. others /\ owner
  <2>1. CASE PingCall(c)
    <3>1. others /\ call'[c].pc \in {"idle", "lock"} /\ call[c].pc = "idle"
      BY <2>1 DEF PingCall, Goto, PongInv, AnyCall
    <3>2. lock' = lock /\ ~Holding(c) /\ ~Holding(c)'
      BY <2>1, <3>1 DEF PingCall, Holding
    <3> QED  BY <3>1, <3>2, MutexMoves
  <2>2. CASE PingLock(c)
    <3>1. others /\ call'[c].pc = "number"
      BY <2>2, GotoMoves DEF PingLock
    <3>2. lock = NoOne /\ lock' = c /\ Holding(c)'
      BY <2>2, <3>1 DEF PingLock, Holding
    <3> QED  BY <3>1, <3>2, MutexMoves
  <2>3. CASE PingNumber(c)
    <3>1. others /\ call[c].pc = "number" /\ call'[c].pc = "send"
      BY <2>3 DEF PingNumber, PongInv, AnyCall
    <3>2. lock' = lock /\ Holding(c) /\ Holding(c)'
      BY <2>3, <3>1 DEF PingNumber, Holding
    <3> QED  BY <3>1, <3>2, MutexMoves
  <2>4. CASE PingSend(c) \/ PingTake(c)
    <3>1. others /\ Holding(c) /\ Holding(c)'
      BY <2>4, GotoMoves DEF PingSend, PingTake, Holding
    <3>2. lock' = lock
      BY <2>4 DEF PingSend, PingTake
    <3> QED  BY <3>1, <3>2, MutexMoves
  <2>5. CASE PingRefused(c) \/ PingTimeout(c) \/ PingCheck(c)
    <3>1. \E from \in {"send", "wait", "check"}, result \in Results :
            Answer(c, from, result)
      BY <2>5 DEF PingRefused, PingTimeout, PingCheck, Results
    <3>2. others /\ lock' = NoOne /\ Holding(c) /\ ~Holding(c)'
      BY <3>1, AnswerMoves DEF Holding
    <3> QED  BY <3>2, MutexMoves
  <2> QED  BY <2>1, <2>2, <2>3, <2>4, <2>5 DEF Caller
<1>3. sem' \in 0 .. 1
  BY DEF PathOK, PingCall, PingLock, Caller, PingNumber, PingSend, PingRefused,
         PingTake, PingTimeout, PingCheck
<1>4. unanswered' \in BOOLEAN
  BY DEF PathOK, PingCall, PingLock, Caller, PingNumber, PingSend, PingRefused,
         PingTake, PingTimeout, PingCheck
<1>5. toM4' \in Seq(Nat)
  <2>1. CASE PingSend(c)
    <3>1. call[c].sequence \in Nat
      BY DEF PongInv, AnyCall
    <3> QED  BY <2>1, <3>1 DEF PingSend, PathOK
  <2>2. CASE ~PingSend(c)
    BY <2>2 DEF PathOK, PingCall, PingLock, Caller, PingNumber, PingRefused,
                PingTake, PingTimeout, PingCheck, link
  <2> QED  BY <2>1, <2>2
<1> QED  BY <1>1, <1>2, <1>3, <1>4, <1>5 DEF PathOK

\* One caller at most is past the mutex.
LEMMA OneHolder ==
  ASSUME PathOK, NEW c \in Callers, NEW d \in Callers, Holding(c), Holding(d)
  PROVE  c = d
BY DEF PathOK

\* As long as nobody waits the path is empty.
LEMMA NothingUnderWay ==
  ASSUME CleanInv, ~unanswered, NEW c \in Callers, Holding(c), call[c].pc # "wait"
  PROVE  NobodyWaits /\ At("nowhere")
<1>1. NobodyWaits
  BY OneHolder DEF NobodyWaits, Holding, CleanInv
<1> QED  BY <1>1 DEF CleanInv, Answered

LEMMA CallerKeepsAnswered ==
  ASSUME CleanInv, NEW c \in Callers, PingCall(c) \/ PingLock(c) \/ Caller(c)
  PROVE  PathOK' /\ Answered'
<1>1. /\ PathOK' /\ \A d \in Callers \ {c} : call'[d] = call[d]
      /\ UNCHANGED <<toM7, m4, giving>>
  BY CallerKeepsPath DEF CleanInv
<1>2. PongInv /\ PathOK
  BY DEF CleanInv
<1> SUFFICES ASSUME ~unanswered
             PROVE  Answered'
  <2>1. unanswered => unanswered'
    BY DEF PingCall, PingLock, Caller, PingNumber, PingSend, PingRefused, PingTake,
           PingTimeout, PingCheck
  <2> QED  BY <1>1, <2>1 DEF Answered
<1>3. CASE PingCall(c)
  <2>1. /\ call[c].pc = "idle" /\ call'[c].pc \in {"idle", "lock"}
        /\ call'[c].result \in {call[c].result, "ENOTCONN"}
    BY <1>2, <1>3 DEF PingCall, Goto, PongInv, AnyCall
  <2>2. UNCHANGED <<toM4, sem, received, unanswered>>
    BY <1>3 DEF PingCall, link
  <2> QED  BY <1>1, <2>1, <2>2, CallerKeepsClean
<1>4. CASE PingLock(c)
  <2>1. /\ call[c].pc = "lock" /\ call'[c].pc = "number"
        /\ call'[c].result = call[c].result
    BY <1>2, <1>4, GotoMoves DEF PingLock
  <2>2. UNCHANGED <<toM4, received, unanswered>> /\ sem' = 0 /\ lock = NoOne
    BY <1>4 DEF PingLock, link
  <2>3. NobodyWaits
    BY <1>2, <2>2, NoOneAssumption DEF NobodyWaits, PathOK, Holding
  <2> QED  BY <1>1, <2>1, <2>2, <2>3, CallerKeepsClean
<1>5. CASE PingNumber(c)
  <2>1. /\ call[c].pc = "number" /\ call'[c].pc = "send"
        /\ call'[c].result = call[c].result
    BY <1>2, <1>5 DEF PingNumber, PongInv, AnyCall
  <2>2. UNCHANGED <<toM4, sem, unanswered>>
    BY <1>5 DEF PingNumber, link
  <2>3. \A d \in Callers \ {c} : ~Holding(d)
    BY <1>2, <2>1, OneHolder DEF Holding
  <2> QED  BY <1>1, <2>1, <2>2, <2>3, CallerKeepsClean
<1>6. CASE PingSend(c)
  <2>1. /\ call[c].pc = "send" /\ call'[c].pc = "wait"
        /\ call'[c].result = call[c].result /\ call'[c].sequence = call[c].sequence
    BY <1>2, <1>6, GotoMoves DEF PingSend
  <2>2. UNCHANGED <<sem, received, unanswered>> /\ toM4' = Append(toM4, call[c].sequence)
    BY <1>6 DEF PingSend
  <2>3. NobodyWaits /\ At("nowhere")
    BY <2>1, NothingUnderWay DEF Holding
  <2>4. toM4' = <<call[c].sequence>>
    BY <2>2, <2>3 DEF At
  <2>5. At("sent")' /\ Carries("sent", call[c].sequence)'
    BY <1>1, <2>1, <2>2, <2>3, <2>4 DEF At, Carries
  <2>6. \A d \in Callers \ {c} : ~Holding(d)
    BY <1>2, <2>1, OneHolder DEF Holding
  <2>7. \A d \in Callers : call'[d].pc \in {"wait", "check"} => d = c
    BY <1>1, <2>6 DEF Holding
  <2>8. \A d \in Callers : call'[d].result # "EBADMSG"
    BY <1>1, <2>1 DEF CleanInv, Answered
  <2>9. \E stage \in Stages : At(stage)' /\ Carries(stage, call[c].sequence)'
    BY <2>5 DEF Stages
  <2> QED  BY <2>1, <2>7, <2>8, <2>9 DEF Answered, NobodyWaits
<1>7. CASE PingRefused(c)
  <2>1. call[c].pc = "send" /\ call'[c].pc = "idle" /\ call'[c].result = "ENOBUFS"
    BY <1>2, <1>7, AnswerMoves DEF PingRefused
  <2>2. UNCHANGED <<toM4, sem, received, unanswered>>
    BY <1>7 DEF PingRefused, link
  <2> QED  BY <1>1, <2>1, <2>2, CallerKeepsClean
<1>8. CASE PingTake(c)
  <2>1. /\ call[c].pc = "wait" /\ call'[c].pc = "check"
        /\ call'[c].result = call[c].result /\ call'[c].sequence = call[c].sequence
    BY <1>2, <1>8, GotoMoves DEF PingTake
  <2>2. UNCHANGED <<toM4, received, unanswered>> /\ sem = 1 /\ sem' = 0
    BY <1>8 DEF PingTake, link
  <2>3. At("given") /\ Carries("given", call[c].sequence)
    BY <2>1, <2>2 DEF CleanInv, Answered, At
  <2>4. At("nowhere")'
    BY <1>1, <2>2, <2>3 DEF At
  <2>5. received' = call'[c].sequence
    BY <2>1, <2>2, <2>3 DEF Carries
  <2>6. \A d \in Callers \ {c} : ~Holding(d)
    BY <1>2, <2>1, OneHolder DEF Holding
  <2>7. \A d \in Callers : call'[d].pc # "wait" /\ (call'[d].pc = "check" => d = c)
    BY <1>1, <2>1, <2>6 DEF Holding
  <2>8. \A d \in Callers : call'[d].result # "EBADMSG"
    BY <1>1, <2>1 DEF CleanInv, Answered
  <2> QED  BY <2>4, <2>5, <2>7, <2>8 DEF Answered
<1>9. CASE PingTimeout(c)
  BY <1>9 DEF PingTimeout, Answered
<1>10. CASE PingCheck(c)
  <2>1. PICK result \in {"ok", "EBADMSG"} :
          /\ Answer(c, "check", result)
          /\ received = call[c].sequence => result = "ok"
    BY <1>10 DEF PingCheck
  <2>2. call[c].pc = "check" /\ call'[c].pc = "idle" /\ call'[c].result = result
    BY <1>2, <2>1, AnswerMoves
  <2>3. result = "ok"
    BY <2>1, <2>2 DEF CleanInv, Answered
  <2>4. UNCHANGED <<toM4, sem, received, unanswered>>
    BY <1>10 DEF PingCheck, link
  <2> QED  BY <1>1, <2>2, <2>3, <2>4, CallerKeepsClean
<1> QED  BY <1>3, <1>4, <1>5, <1>6, <1>7, <1>8, <1>9, <1>10 DEF Caller

\* What is under way moves on, with the sequence it carries.
LEMMA PathKeepsAnswered ==
  ASSUME CleanInv, PathOK', NEW from \in Stages, NEW to \in Stages,
         UNCHANGED <<call, unanswered>>,
         At(from), At(to)',
         \A s \in Nat : Carries(from, s) => Carries(to, s)',
         received' = received \/ from = "ponged"
  PROVE  Answered'
<1> SUFFICES ASSUME ~unanswered
             PROVE  Answered'
  BY DEF Answered
<1>1. PICK c \in Callers : call[c].pc = "wait"
  BY DEF CleanInv, Answered, NobodyWaits, At, Stages
<1>2. ASSUME NEW d \in Callers, call[d].pc = "wait"
      PROVE  At(to)' /\ Carries(to, call[d].sequence)'
  <2>1. PICK stage \in Stages : At(stage) /\ Carries(stage, call[d].sequence)
    BY <1>2 DEF CleanInv, Answered
  <2>2. stage = from
    BY <2>1 DEF At, Stages
  <2>3. call[d].sequence \in Nat
    BY DEF CleanInv, PongInv, AnyCall
  <2> QED  BY <2>1, <2>2, <2>3
<1>3. \A d \in Callers : call[d].pc # "check"
  BY <1>1, OneHolder DEF CleanInv, Holding
<1> QED  BY <1>1, <1>2, <1>3 DEF CleanInv, Answered, NobodyWaits

LEMMA OneFrame ==
  ASSUME NEW s \in Nat
  PROVE  Head(<<s>>) = s /\ Tail(<<s>>) = << >>
<1>1. <<s>> = Append(<< >>, s) /\ << >> \in Seq(Nat)
  OBVIOUS
<1> QED  BY <1>1, HeadTailAppend

\* Where the frame is, when there is one.
LEMMA UnderWay ==
  ASSUME CleanInv, ~unanswered, ~At("nowhere")
  PROVE  \E stage \in Stages : At(stage)
BY DEF CleanInv, Answered, NobodyWaits

LEMMA PathAnswered ==
  ASSUME CleanInv, PathOK',
         PongStore \/ PongGive \/ M4Store \/ M4Mark \/ M4Take \/ M4Answer \/ M4Refused
  PROVE  Answered'
<1>1. UNCHANGED <<call, unanswered>>
  BY DEF PongStore, PongGive, M4Store, M4Mark, M4Take, M4Answer, M4Refused, m7, link
<1> SUFFICES ASSUME ~unanswered
             PROVE  Answered'
  BY <1>1 DEF Answered
<1>2. PathOK /\ PathOK'
  BY DEF CleanInv
<1>3. CASE PongStore
  <2>1. ~At("nowhere")
    BY <1>3 DEF PongStore, At
  <2>2. At("ponged")
    BY <1>3, <2>1, UnderWay DEF PongStore, At, Stages
  <2>3. UNCHANGED <<sem, toM4, m4>> /\ giving'
    BY <1>3 DEF PongStore
  <2>4. ASSUME NEW s \in Nat, Carries("ponged", s)
        PROVE  Carries("giving", s)' /\ toM7' = << >>
    BY <1>3, <2>4, OneFrame DEF PongStore, Carries
  <2>5. \E s \in Nat : Carries("ponged", s)
    BY <2>2 DEF CleanInv, Answered, NobodyWaits, At, PongInv, AnyCall, Stages, Carries
  <2>6. toM7' = << >>
    BY <2>4, <2>5
  <2>7. At("giving")'
    BY <2>2, <2>3, <2>6 DEF At
  <2> QED  BY <1>1, <2>2, <2>4, <2>7, PathKeepsAnswered DEF Stages
<1>4. CASE PongGive
  <2>1. At("giving")
    BY <1>4, UnderWay DEF PongGive, At, Stages
  <2>2. UNCHANGED <<received, toM4, toM7, m4>> /\ ~giving' /\ sem' = 1
    BY <1>4 DEF PongGive, link
  <2>3. At("given")'
    BY <2>1, <2>2 DEF At
  <2>4. \A s \in Nat : Carries("giving", s) => Carries("given", s)'
    BY <2>2 DEF Carries
  <2> QED  BY <1>1, <2>1, <2>2, <2>3, <2>4, PathKeepsAnswered DEF Stages
<1>5. CASE M4Store
  <2>1. At("sent")
    BY <1>5, UnderWay DEF M4Store, At, Stages
  <2>2. UNCHANGED <<sem, giving, received, toM7>> /\ toM4' = Tail(toM4)
    BY <1>5 DEF M4Store, m7
  <2>3. /\ m4'.sequence = Head(toM4) /\ m4'.storing
        /\ (m4'.ping <=> m4.ping) /\ (m4'.answering <=> m4.answering)
    BY <1>2, <1>5 DEF M4Store, PathOK, Pending
  <2>4. \E s \in Nat : Carries("sent", s)
    BY <2>1 DEF CleanInv, Answered, NobodyWaits, At, PongInv, AnyCall, Stages, Carries
  <2>5. toM4' = << >>
    BY <2>2, <2>4, OneFrame DEF Carries
  <2>6. At("storing")'
    BY <2>1, <2>2, <2>3, <2>5 DEF At
  <2>7. \A s \in Nat : Carries("sent", s) => Carries("storing", s)'
    BY <2>3 DEF Carries
  <2> QED  BY <1>1, <2>1, <2>2, <2>6, <2>7, PathKeepsAnswered DEF Stages
<1>6. CASE M4Mark
  <2>1. At("storing")
    BY <1>6, UnderWay DEF M4Mark, At, Stages
  <2>2. UNCHANGED <<sem, giving, received, toM4, toM7>>
    BY <1>6 DEF M4Mark, m7
  <2>3. /\ m4'.sequence = m4.sequence /\ m4'.ping /\ ~m4'.storing
        /\ (m4'.answering <=> m4.answering)
    BY <1>2, <1>6 DEF M4Mark, PathOK, Pending
  <2>4. At("marked")'
    BY <2>1, <2>2, <2>3 DEF At
  <2>5. \A s \in Nat : Carries("storing", s) => Carries("marked", s)'
    BY <2>3 DEF Carries
  <2> QED  BY <1>1, <2>1, <2>2, <2>4, <2>5, PathKeepsAnswered DEF Stages
<1>7. CASE M4Take
  <2>1. At("marked")
    BY <1>7, UnderWay DEF M4Take, At, Stages
  <2>2. UNCHANGED <<sem, giving, received, toM4, toM7>>
    BY <1>7 DEF M4Take, m7
  <2>3. /\ m4'.sequence = m4.sequence /\ ~m4'.ping /\ m4'.answering
        /\ (m4'.storing <=> m4.storing)
    BY <1>2, <1>7 DEF M4Take, PathOK, Pending
  <2>4. At("answering")'
    BY <2>1, <2>2, <2>3 DEF At
  <2>5. \A s \in Nat : Carries("marked", s) => Carries("answering", s)'
    BY <2>3 DEF Carries
  <2> QED  BY <1>1, <2>1, <2>2, <2>4, <2>5, PathKeepsAnswered DEF Stages
<1>8. CASE M4Answer
  <2>1. At("answering")
    BY <1>8, UnderWay DEF M4Answer, At, Stages
  <2>2. UNCHANGED <<sem, giving, received, toM4>> /\ toM7' = Append(toM7, m4.sequence)
    BY <1>8 DEF M4Answer, m7
  <2>3. /\ m4'.sequence = m4.sequence /\ ~m4'.answering
        /\ (m4'.storing <=> m4.storing) /\ (m4'.ping <=> m4.ping)
    BY <1>2, <1>8 DEF M4Answer, PathOK, Pending
  <2>4. toM7' = <<m4.sequence>> /\ toM7' # << >>
    BY <2>1, <2>2 DEF At
  <2>5. At("ponged")'
    BY <2>1, <2>2, <2>3, <2>4 DEF At
  <2>6. \A s \in Nat : Carries("answering", s) => Carries("ponged", s)'
    BY <2>4 DEF Carries
  <2> QED  BY <1>1, <2>1, <2>2, <2>5, <2>6, PathKeepsAnswered DEF Stages
<1>9. CASE M4Refused
  <2>1. At("answering")
    BY <1>9, UnderWay DEF M4Refused, At, Stages
  <2>2. UNCHANGED <<sem, giving, received, toM4, toM7>>
    BY <1>9 DEF M4Refused, m7
  <2>3. /\ m4'.sequence = m4.sequence /\ m4'.ping /\ ~m4'.answering
        /\ (m4'.storing <=> m4.storing)
    BY <1>2, <1>9 DEF M4Refused, PathOK, Pending
  <2>4. At("marked")'
    BY <2>1, <2>2, <2>3 DEF At
  <2>5. \A s \in Nat : Carries("answering", s) => Carries("marked", s)'
    BY <2>3 DEF Carries
  <2> QED  BY <1>1, <2>1, <2>2, <2>4, <2>5, PathKeepsAnswered DEF Stages
<1> QED  BY <1>3, <1>4, <1>5, <1>6, <1>7, <1>8, <1>9

LEMMA CleanNext ==
  ASSUME CleanInv, [Next]_vars
  PROVE  CleanInv'
<1>1. PongInv'
  BY PongNext DEF CleanInv
<1>2. PathOK' /\ Answered'
  <2>1. CASE \E c \in Callers : PingCall(c) \/ PingLock(c) \/ Caller(c)
    BY <2>1, CallerKeepsAnswered
  <2>2. CASE M4Store \/ M4Mark \/ M4Take \/ M4Answer \/ M4Refused
    <3>1. PathOK'
      BY <2>2, M4KeepsPath DEF CleanInv
    <3> QED  BY <2>2, <3>1, PathAnswered
  <2>3. CASE PongStore \/ PongGive
    <3>1. PathOK'
      <4>1. UNCHANGED <<call, lock, toM4, m4, unanswered>> /\ giving' \in BOOLEAN
        BY <2>3 DEF PongStore, PongGive, link
      <4>2. sem' \in 0 .. 1
        BY <2>3 DEF CleanInv, PathOK, PongStore, PongGive
      <4>3. toM7' \in Seq(Nat)
        <5>1. CASE PongStore
          BY <5>1, HeadTailProperties DEF CleanInv, PathOK, PongStore
        <5>2. CASE PongGive
          BY <5>2 DEF CleanInv, PathOK, PongGive, link
        <5> QED  BY <2>3, <5>1, <5>2
      <4> QED  BY <4>1, <4>2, <4>3 DEF CleanInv, PathOK, Holding
    <3> QED  BY <2>3, <3>1, PathAnswered
  <2>4. CASE Bind \/ UNCHANGED vars
    BY <2>4 DEF Bind, vars, CleanInv, PathOK, Holding, Answered, NobodyWaits, At, Carries
  <2> QED  BY <2>1, <2>2, <2>3, <2>4 DEF Next
<1> QED  BY <1>1, <1>2 DEF CleanInv

(***************************************************************************)
(* No ping is refused as EBADMSG before one has timed out: the two cores   *)
(* neither repeat nor mix up a PONG by themselves, for any number of       *)
(* callers and whatever the channels refuse.                               *)
(***************************************************************************)
THEOREM CleanUntilATimeout == Spec => []BadNeedsATimeout
<1>1. Init => CleanInv
  BY CleanInit
<1>2. CleanInv /\ [Next]_vars => CleanInv'
  BY CleanNext
<1>3. CleanInv => BadNeedsATimeout
  BY DEF CleanInv, Answered, BadNeedsATimeout
<1> QED  BY <1>1, <1>2, <1>3, PTL DEF Spec
=============================================================================

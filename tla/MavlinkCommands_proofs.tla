------------------------ MODULE MavlinkCommands_proofs ------------------------
(***************************************************************************)
(* Theorems about MavlinkCommands for every set of commands and timers,    *)
(* every number of work items and retries, and every schedule.             *)
(***************************************************************************)
EXTENDS MavlinkCommands, SequenceTheorems, TLAPS

(* The strengthening.  Which program locations hold which mutex. *)
LockInv ==
  /\ queueLock = "recv" <=> recv.pc \in {"ack", "unregister", "raise", "rearm"}
  /\ queueLock = "sys" <=> sys.pc = "send"
  /\ stateLock = "sys" <=> sys.pc \in {"borrow", "drop", "callback"}
  /\ stateLock # "recv"

(* A thread that borrowed a work knows which one, and what it will report. *)
FrameInv ==
  /\ recv.pc # "idle" => recv.work \in Work
  /\ recv.pc \in {"unregister", "pop", "callback"} => recv.outcome \in Outcomes
  /\ sys.pc \in {"send", "drop", "callback"} => sys.work \in Work
  /\ sys.pc \in {"drop", "callback"} => sys.outcome \in Outcomes

(* What the location of a thread says of the state it has set. *)
StateInv ==
  /\ recv.pc = "unregister" => state = "NONE"
  /\ recv.pc \in {"raise", "rearm"} => state = "IN_PROGRESS"
  /\ sys.pc = "borrow" => state = "WAITING"
  /\ sys.pc \in {"drop", "callback"} => state = "NONE"

(* When a thread arms a timer, none is armed. *)
TimerInv ==
  /\ recv.pc = "rearm" => timers = {}
  /\ state = "NONE" /\ recv.pc # "unregister" => timers = {}
  /\ state = "WAITING" /\ sys.pc \in {"timeout", "borrow"} => timers = {}

IInv ==
  /\ TypeOK /\ LockInv /\ FrameInv /\ StateInv /\ TimerInv
  /\ CookieNamesTheTimer /\ NoLostTimeout

-----------------------------------------------------------------------------

LEMMA InitIInv == Init => IInv
<1> SUFFICES ASSUME Init PROVE IInv
  OBVIOUS
<1> USE CommandsAssumption DEF Init, At, Rest, Work, Free, States, Threads
<1>1. TypeOK
  BY DEF TypeOK, Position, RecvPc, SysPc
<1>2. LockInv /\ FrameInv /\ StateInv /\ TimerInv
  BY DEF LockInv, FrameInv, StateInv, TimerInv
<1>3. CookieNamesTheTimer /\ NoLostTimeout
  BY DEF CookieNamesTheTimer, NoLostTimeout
<1> QED
  BY <1>1, <1>2, <1>3 DEF IInv

(* Where a thread can be put. *)
LEMMA AtTyped ==
  ASSUME NEW pcs, NEW pc \in pcs, NEW w \in 0 .. MaxWork,
         NEW o \in AckResult \cup Outcomes \cup {"none"}
  PROVE  /\ At(pc, w, o) \in Position(pcs)
         /\ At(pc, w, o).pc = pc
         /\ At(pc, w, o).work = w
         /\ At(pc, w, o).outcome = o
  BY DEF At, Position

LEMMA GotoTyped ==
  ASSUME NEW pcs, NEW pc \in pcs, NEW t \in Position(pcs)
  PROVE  /\ Goto(t, pc) \in Position(pcs)
         /\ Goto(t, pc).pc = pc
         /\ Goto(t, pc).work = t.work
         /\ Goto(t, pc).outcome = t.outcome
  BY DEF Goto, Position

LEMMA RestTyped ==
  ASSUME NEW pcs, NEW pc \in pcs
  PROVE  Rest(pc) \in Position(pcs) /\ Rest(pc).pc = pc
  BY CommandsAssumption DEF Rest, At, Position

LEMMA FrontIsWork ==
  ASSUME TypeOK, ~Empty
  PROVE  Front \in Work /\ Front \in 1 .. Len(works)
  BY CommandsAssumption DEF TypeOK, Empty, Front, Work

(* What every step of the receive thread does to each component. *)
LEMMA RecvPreservesTypeOK ==
  ASSUME IInv, ReceiveCommandAck PROVE TypeOK'
<1> USE DEF queueVars, workVars, lockVars, timerVars
<1>1. TypeOK /\ LockInv /\ FrameInv
  BY DEF IInv
<1>2. ASSUME NEW c \in Command, NEW r \in AckResult, AckBorrow(c, r)
      PROVE  TypeOK'
  <2>0. Front \in 0 .. MaxWork
    BY <1>1, <1>2, FrontIsWork, CommandsAssumption DEF AckBorrow, Work
  <2>1. At("ack", Front, r) \in Position(RecvPc)
    BY <2>0, AtTyped DEF RecvPc
  <2> QED
    BY <1>1, <1>2, <2>1 DEF AckBorrow, TypeOK, Threads
<1>3. CASE AckFinal
  <2>1. OutcomeOf(recv.outcome) \in Outcomes
    BY DEF OutcomeOf, Outcomes
  <2>0. recv.work \in 0 .. MaxWork
    BY <1>1 DEF TypeOK, Position
  <2>2. At("unregister", recv.work, OutcomeOf(recv.outcome)) \in Position(RecvPc)
    BY <2>0, <2>1, AtTyped DEF RecvPc
  <2> QED
    BY <1>1, <1>3, <2>2 DEF AckFinal, TypeOK, States
<1>4. CASE AckUnregister
  <2>1. Goto(recv, "pop") \in Position(RecvPc)
    BY <1>1, GotoTyped DEF TypeOK, RecvPc
  <2> QED
    BY <1>1, <1>4, <2>1 DEF AckUnregister, TypeOK, Free
<1>5. CASE AckPop
  <2>1. Goto(recv, "callback") \in Position(RecvPc)
    BY <1>1, GotoTyped DEF TypeOK, RecvPc
  <2>2. popped' \in 0 .. Len(works)
    BY <1>1, <1>5 DEF AckPop, PopFront, TypeOK, Empty
  <2> QED
    BY <1>1, <1>5, <2>1, <2>2 DEF AckPop, TypeOK
<1>6. CASE AckCallback
  <2>1. Rest("idle") \in Position(RecvPc)
    BY RestTyped DEF RecvPc
  <2>2. calls' \in Seq([work: Work, outcome: Outcomes])
    BY <1>1, <1>6 DEF AckCallback, Report, TypeOK, FrameInv
  <2> QED
    BY <1>1, <1>6, <2>1, <2>2 DEF AckCallback, TypeOK
<1>7. CASE AckInProgress
  <2>1. Goto(recv, "raise") \in Position(RecvPc)
    BY <1>1, GotoTyped DEF TypeOK, RecvPc
  <2> QED
    BY <1>1, <1>7, <2>1 DEF AckInProgress, TypeOK, States
<1>8. CASE AckRaise
  <2>1. Goto(recv, "rearm") \in Position(RecvPc)
    BY <1>1, GotoTyped DEF TypeOK, RecvPc
  <2> QED
    BY <1>1, <1>8, <2>1 DEF AckRaise, TypeOK
<1>9. CASE AckRearm
  <2>1. Rest("idle") \in Position(RecvPc)
    BY RestTyped DEF RecvPc
  <2> QED
    BY <1>1, <1>9, <2>1 DEF AckRearm, Register, TypeOK, Free
<1>10. CASE AckUnknown
  <2>1. Rest("idle") \in Position(RecvPc)
    BY RestTyped DEF RecvPc
  <2> QED
    BY <1>1, <1>10, <2>1 DEF AckUnknown, TypeOK, Free
<1> QED
  BY <1>2, <1>3, <1>4, <1>5, <1>6, <1>7, <1>8, <1>9, <1>10 DEF ReceiveCommandAck

(* What every step of the system thread does to each component. *)
LEMMA SysPreservesTypeOK ==
  ASSUME IInv, SystemThread PROVE TypeOK'
<1> USE DEF queueVars, workVars, lockVars, timerVars
<1>1. TypeOK /\ LockInv /\ FrameInv
  BY DEF IInv
<1>2. /\ Rest("timers") \in Position(SysPc)
      /\ Rest("timeout") \in Position(SysPc)
      /\ Rest("work") \in Position(SysPc)
      /\ Goto(sys, "borrow") \in Position(SysPc)
      /\ Goto(sys, "callback") \in Position(SysPc)
  BY <1>1, RestTyped, GotoTyped DEF SysPc, TypeOK
<1>3. CASE FireTimer \/ NoTimerExpired
  BY <1>1, <1>2, <1>3 DEF FireTimer, NoTimerExpired, TypeOK
<1>4. CASE TimeoutNotWaiting \/ TimeoutWaiting \/ TimeoutQueueEmpty
  BY <1>1, <1>2, <1>4
  DEF TimeoutNotWaiting, TimeoutWaiting, TimeoutQueueEmpty, TypeOK, Threads,
      Free, States
<1>5. CASE TimeoutResend
  <2>1. Front \in Work
    BY <1>1, <1>5, FrontIsWork DEF TimeoutResend
  <2>2. sent' \in [Work -> Nat]
    BY <1>1, <1>5, <2>1 DEF TimeoutResend, TypeOK
  <2>3. retries' \in [Work -> 0 .. Retries]
    BY <1>1, <1>5, <2>1, CommandsAssumption DEF TimeoutResend, TypeOK
  <2> QED
    BY <1>1, <1>2, <1>5, <2>2, <2>3 DEF TimeoutResend, Register, TypeOK, Free
<1>6. ASSUME NEW o \in {"CONNECTION_ERROR", "TIMEOUT"}, TimeoutGiveUp(o)
      PROVE  TypeOK'
  <2>1. Front \in 0 .. MaxWork
    BY <1>1, <1>6, FrontIsWork, CommandsAssumption DEF TimeoutGiveUp, Work
  <2>2. At("drop", Front, o) \in Position(SysPc)
    BY <2>1, AtTyped DEF SysPc, Outcomes
  <2> QED
    BY <1>1, <1>6, <2>2 DEF TimeoutGiveUp, TypeOK, States
<1>7. CASE WorkQueueEmpty \/ WorkBusy
  BY <1>1, <1>2, <1>7 DEF WorkQueueEmpty, WorkBusy, TypeOK, Free
<1>8. CASE WorkBorrow
  <2>1. Front \in 0 .. MaxWork
    BY <1>1, <1>8, FrontIsWork, CommandsAssumption DEF WorkBorrow, Work
  <2>2. At("send", Front, "none") \in Position(SysPc)
    BY <2>1, AtTyped DEF SysPc
  <2> QED
    BY <1>1, <1>8, <2>2 DEF WorkBorrow, TypeOK, Threads
<1>9. CASE WorkSend
  <2>1. sent' \in [Work -> Nat]
    BY <1>1, <1>9 DEF WorkSend, TypeOK, FrameInv
  <2> QED
    BY <1>1, <1>2, <1>9, <2>1 DEF WorkSend, Register, TypeOK, Free, States
<1>10. CASE WorkSendFails
  <2>1. sys.work \in 0 .. MaxWork
    BY <1>1 DEF TypeOK, Position
  <2>2. At("drop", sys.work, "CONNECTION_ERROR") \in Position(SysPc)
    BY <2>1, AtTyped DEF SysPc, Outcomes
  <2> QED
    BY <1>1, <1>10, <2>2 DEF WorkSendFails, TypeOK, Threads, Free
<1>11. CASE SysPop
  <2>1. popped' \in 0 .. Len(works)
    BY <1>1, <1>11 DEF SysPop, PopFront, TypeOK, Empty
  <2> QED
    BY <1>1, <1>2, <1>11, <2>1 DEF SysPop, TypeOK
<1>12. CASE SysCallback
  <2>1. calls' \in Seq([work: Work, outcome: Outcomes])
    BY <1>1, <1>12 DEF SysCallback, Report, TypeOK, FrameInv
  <2> QED
    BY <1>1, <1>2, <1>12, <2>1 DEF SysCallback, TypeOK, Free
<1> QED
  BY <1>3, <1>4, <1>5, <1>6, <1>7, <1>8, <1>9, <1>10, <1>11, <1>12
  DEF SystemThread, ReceiveTimeout, DoWork

LEMMA PushPreservesTypeOK ==
  ASSUME TypeOK, NEW c \in Command, QueueCommandAsync(c) PROVE TypeOK'
<1>1. works' \in Seq(Command) /\ Len(works') = Len(works) + 1
  BY DEF QueueCommandAsync, TypeOK
<1>2. Len(works') <= MaxWork /\ popped' \in 0 .. Len(works')
  BY <1>1, CommandsAssumption DEF QueueCommandAsync, TypeOK
<1> QED
  BY <1>1, <1>2 DEF QueueCommandAsync, TypeOK, workVars, lockVars, timerVars

-----------------------------------------------------------------------------
(* The other parts of IInv, one group of actions at a time. *)

ControlInv ==
  LockInv /\ FrameInv /\ StateInv /\ TimerInv /\ CookieNamesTheTimer /\ NoLostTimeout

LEMMA PushPreservesControl ==
  ASSUME IInv, NEW c \in Command, QueueCommandAsync(c) PROVE ControlInv'
BY DEF IInv, ControlInv, QueueCommandAsync, workVars, lockVars, timerVars,
       LockInv, FrameInv, StateInv, TimerInv, CookieNamesTheTimer, NoLostTimeout

LEMMA RecvPreservesControl ==
  ASSUME IInv, ReceiveCommandAck PROVE ControlInv'
<1>0. TypeOK /\ ControlInv /\ recv \in Position(RecvPc)
  BY DEF IInv, ControlInv, TypeOK
<1>1. /\ TypeOK /\ ControlInv
      /\ \A pc \in RecvPc: /\ Goto(recv, pc).pc = pc
                           /\ Goto(recv, pc).work = recv.work
                           /\ Goto(recv, pc).outcome = recv.outcome
      /\ Rest("idle").pc = "idle"
  BY <1>0, GotoTyped, RestTyped, SMTT(30) DEF RecvPc
<1> USE DEF queueVars, workVars, lockVars, timerVars, ControlInv, Free,
            LockInv, FrameInv, StateInv, TimerInv, CookieNamesTheTimer, NoLostTimeout
<1>2. ASSUME NEW c \in Command, NEW r \in AckResult, AckBorrow(c, r)
      PROVE  ControlInv'
  <2>1. Front \in Work
    BY <1>1, <1>2, FrontIsWork DEF AckBorrow
  <2> QED
    BY <1>1, <1>2, <2>1 DEF AckBorrow, At
<1>3. CASE AckFinal
  <2>1. OutcomeOf(recv.outcome) \in Outcomes
    BY DEF OutcomeOf, Outcomes
  <2> QED
    BY <1>1, <1>3, <2>1 DEF AckFinal, At
<1>4. CASE AckUnregister
  BY <1>1, <1>4 DEF AckUnregister, RecvPc
<1>5. CASE AckPop \/ AckCallback
  BY <1>1, <1>5 DEF AckPop, AckCallback, PopFront, RecvPc
<1>6. CASE AckInProgress \/ AckRaise
  BY <1>1, <1>6 DEF AckInProgress, AckRaise, RecvPc
<1>7. CASE AckRearm
  BY <1>1, <1>7 DEF AckRearm, Register
<1>8. CASE AckUnknown
  BY <1>1, <1>8 DEF AckUnknown
<1> QED
  BY <1>2, <1>3, <1>4, <1>5, <1>6, <1>7, <1>8 DEF ReceiveCommandAck

LEMMA SysPreservesControl ==
  ASSUME IInv, SystemThread PROVE ControlInv'
<1>0. TypeOK /\ ControlInv /\ sys \in Position(SysPc)
  BY DEF IInv, ControlInv, TypeOK
<1>1. /\ TypeOK /\ ControlInv
      /\ \A pc \in SysPc: /\ Goto(sys, pc).pc = pc
                          /\ Goto(sys, pc).work = sys.work
                          /\ Goto(sys, pc).outcome = sys.outcome
                          /\ Rest(pc).pc = pc
  BY <1>0, GotoTyped, RestTyped
<1> USE DEF queueVars, workVars, lockVars, timerVars, ControlInv, Free,
            LockInv, FrameInv, StateInv, TimerInv, CookieNamesTheTimer, NoLostTimeout
<1>2. CASE FireTimer \/ NoTimerExpired
  BY <1>1, <1>2 DEF FireTimer, NoTimerExpired, SysPc
<1>3. CASE TimeoutNotWaiting \/ TimeoutWaiting \/ TimeoutQueueEmpty
  BY <1>1, <1>3 DEF TimeoutNotWaiting, TimeoutWaiting, TimeoutQueueEmpty, SysPc
<1>4. CASE TimeoutResend
  BY <1>1, <1>4 DEF TimeoutResend, Register, SysPc
<1>5. ASSUME NEW o \in {"CONNECTION_ERROR", "TIMEOUT"}, TimeoutGiveUp(o)
      PROVE  ControlInv'
  <2>1. Front \in Work
    BY <1>1, <1>5, FrontIsWork DEF TimeoutGiveUp
  <2> QED
    BY <1>1, <1>5, <2>1 DEF TimeoutGiveUp, At, Outcomes
<1>6. CASE WorkQueueEmpty \/ WorkBusy
  BY <1>1, <1>6 DEF WorkQueueEmpty, WorkBusy, SysPc
<1>7. CASE WorkBorrow
  <2>1. Front \in Work
    BY <1>1, <1>7, FrontIsWork DEF WorkBorrow
  <2> QED
    BY <1>1, <1>7, <2>1 DEF WorkBorrow, At
<1>8. CASE WorkSend
  BY <1>1, <1>8 DEF WorkSend, Register, SysPc
<1>9. CASE WorkSendFails
  BY <1>1, <1>9 DEF WorkSendFails, At, Outcomes
<1>10. CASE SysPop \/ SysCallback
  BY <1>1, <1>10 DEF SysPop, SysCallback, PopFront, SysPc
<1> QED
  BY <1>2, <1>3, <1>4, <1>5, <1>6, <1>7, <1>8, <1>9, <1>10
  DEF SystemThread, ReceiveTimeout, DoWork

LEMMA NextPreservesIInv == IInv /\ [Next]_vars => IInv'
<1> SUFFICES ASSUME IInv, [Next]_vars PROVE IInv'
  OBVIOUS
<1>1. CASE Next
  <2>1. TypeOK'
    BY <1>1, PushPreservesTypeOK, RecvPreservesTypeOK, SysPreservesTypeOK
    DEF Next, IInv
  <2>2. ControlInv'
    BY <1>1, PushPreservesControl, RecvPreservesControl, SysPreservesControl
    DEF Next
  <2> QED
    BY <2>1, <2>2 DEF IInv, ControlInv
<1>2. CASE UNCHANGED vars
  BY <1>2 DEF vars, IInv, TypeOK, LockInv, FrameInv, StateInv, TimerInv,
              CookieNamesTheTimer, NoLostTimeout
<1> QED
  BY <1>1, <1>2

\* Under every schedule the variables keep their types.
THEOREM TypeCorrect == Spec => []TypeOK
<1>1. IInv => TypeOK
  BY DEF IInv
<1> QED
  BY <1>1, InitIInv, NextPreservesIInv, PTL DEF Spec

\* Under every schedule the cookie names the only armed timer, so that the
\* component can always cancel it.
THEOREM TimerIsNamed == Spec => []CookieNamesTheTimer
<1>1. IInv => CookieNamesTheTimer
  BY DEF IInv
<1> QED
  BY <1>1, InitIInv, NextPreservesIInv, PTL DEF Spec

(* The holder of a mutex that the system thread waits for is the receive     *)
(* thread: it never waits for itself.                                        *)
LEMMA SysWaitsForRecv ==
  ASSUME IInv, SysWaits
  PROVE  /\ queueLock = "recv"
         /\ sys.pc \in {"work", "borrow", "drop"}
<1>1. /\ LockInv /\ queueLock \in Threads \cup {Free}
      /\ stateLock \in Threads \cup {Free}
  BY DEF IInv, TypeOK
<1>2. sys.pc \in {"timeout", "send"} => stateLock = Free
  BY <1>1 DEF LockInv, Threads, Free
<1>3. sys.pc \in {"work", "borrow", "drop"} => queueLock # "sys"
  BY <1>1 DEF LockInv
<1> QED
  BY <1>1, <1>2, <1>3 DEF SysWaits, Threads, Free

\* In every interleaving, whatever the commands, acks and timers, the two
\* threads block each other only in the lock-order inversion between
\* receive_command_ack and the give-up paths of the system thread.
THEOREM OnlyInversionBlocks == Spec => []OnlyInversionStops
<1>1. IInv => OnlyInversionStops
  <2> SUFFICES ASSUME IInv, SysWaits, RecvWaits \/ recv.pc = "idle"
               PROVE  LockCycle
    BY DEF OnlyInversionStops
  <2>1. /\ LockInv /\ stateLock \in Threads \cup {Free}
    BY DEF IInv, TypeOK
  <2>2. /\ queueLock = "recv" /\ sys.pc \in {"work", "borrow", "drop"}
    BY SysWaitsForRecv
  <2>3. recv.pc = "ack" /\ stateLock # Free
    BY <2>1, <2>2 DEF LockInv, RecvWaits
  <2>4. stateLock = "sys" /\ sys.pc \in {"borrow", "drop"}
    BY <2>1, <2>2, <2>3 DEF LockInv, Threads, Free
  <2> QED
    BY <2>2, <2>3, <2>4 DEF LockCycle
<1> QED
  BY <1>1, InitIInv, NextPreservesIInv, PTL DEF Spec

\* Under every schedule a command that waits for its ack has a timeout coming.
THEOREM TimeoutIsNeverLost == Spec => []NoLostTimeout
<1>1. IInv => NoLostTimeout
  BY DEF IInv
<1> QED
  BY <1>1, InitIInv, NextPreservesIInv, PTL DEF Spec

-----------------------------------------------------------------------------
(***************************************************************************)
(* When handlers do not overlap.  A thread at work then knows the front of *)
(* the queue, and the callbacks lag behind the pops by at most the one the *)
(* thread is about to call.                                                *)
(***************************************************************************)
Reporting == recv.pc = "callback" \/ sys.pc = "callback"

SerialInv ==
  /\ recv.pc # "idle" => sys.pc \in {"timers", "work"}
  /\ recv.pc \in {"ack", "unregister", "raise", "rearm", "pop"} =>
       ~Empty /\ recv.work = Front
  /\ recv.pc \in {"unregister", "pop", "callback"} => state = "NONE"
  /\ recv.pc = "callback" => recv.work = popped
  /\ sys.pc \in {"send", "drop"} => ~Empty /\ sys.work = Front
  /\ sys.pc = "callback" => sys.work = popped
  /\ state # "NONE" => ~Empty
  /\ Len(calls) = IF Reporting THEN popped - 1 ELSE popped
  /\ AnsweredInOrder

LEMMA InitSerialInv == Init => SerialInv
BY DEF Init, SerialInv, Reporting, AnsweredInOrder, Rest, At, Empty, Front

(* A callback of the work popped last extends the answers in order. *)
LEMMA ReportInOrder ==
  ASSUME TypeOK, AnsweredInOrder, NEW t,
         t.work = popped, Len(calls) = popped - 1, Report(t)
  PROVE  Len(calls') = popped /\ AnsweredInOrder'
<1>1. calls \in Seq([work: Work, outcome: Outcomes]) /\ popped \in Nat
  BY DEF TypeOK
<1>2. calls' = Append(calls, [work |-> t.work, outcome |-> t.outcome])
  BY DEF Report
<1>3. Len(calls') = popped
  BY <1>1, <1>2
<1>4. ASSUME NEW i \in DOMAIN calls' PROVE calls'[i].work = i
  <2>1. i \in 1 .. popped
    BY <1>1, <1>2, <1>3, <1>4
  <2>2. CASE i = popped
    BY <1>1, <1>2, <2>2
  <2>3. CASE i # popped
    BY <1>1, <1>2, <2>1, <2>3 DEF AnsweredInOrder
  <2> QED
    BY <2>2, <2>3
<1> QED
  BY <1>3, <1>4 DEF AnsweredInOrder

LEMMA RecvPreservesSerial ==
  ASSUME Serial, IInv, SerialInv, ReceiveCommandAck PROVE SerialInv'
<1>0. TypeOK /\ ControlInv /\ recv \in Position(RecvPc) /\ popped \in Nat
  BY DEF IInv, ControlInv, TypeOK
<1>a. Len(works) \in Nat /\ "idle" \in RecvPc
  BY <1>0 DEF TypeOK, RecvPc
<1>1. /\ \A pc \in RecvPc: Goto(recv, pc).pc = pc /\ Goto(recv, pc).work = recv.work
      /\ Rest("idle").pc = "idle"
      /\ Len(works) \in Nat
  BY <1>0, <1>a, GotoTyped, RestTyped
<1> USE <1>0, <1>1 DEF queueVars, workVars, lockVars, timerVars, RecvPc,
        SerialInv, Reporting, AnsweredInOrder, Empty, Front
<1>2. ASSUME NEW c \in Command, NEW r \in AckResult, AckBorrow(c, r)
      PROVE  SerialInv'
  BY <1>2 DEF AckBorrow, At, RecvMayStart
<1>3. CASE AckFinal
  BY <1>3 DEF AckFinal, At
<1>4. CASE AckUnregister
  BY <1>4 DEF AckUnregister
<1>5. CASE AckPop
  BY <1>5 DEF AckPop, PopFront
<1>6. CASE AckCallback
  <2>1. Len(calls') = popped /\ AnsweredInOrder'
    BY <1>6, ReportInOrder DEF AckCallback
  <2> QED
    BY <1>6, <2>1 DEF AckCallback
<1>7. CASE AckInProgress \/ AckRaise \/ AckRearm
  BY <1>7 DEF AckInProgress, AckRaise, AckRearm
<1>8. CASE AckUnknown
  BY <1>8 DEF AckUnknown
<1> QED
  BY <1>2, <1>3, <1>4, <1>5, <1>6, <1>7, <1>8 DEF ReceiveCommandAck

LEMMA SysPreservesSerial ==
  ASSUME Serial, IInv, SerialInv, SystemThread PROVE SerialInv'
<1>0. TypeOK /\ ControlInv /\ sys \in Position(SysPc) /\ popped \in Nat
  BY DEF IInv, ControlInv, TypeOK
<1>1. /\ \A pc \in SysPc: /\ Goto(sys, pc).pc = pc
                          /\ Goto(sys, pc).work = sys.work
                          /\ Rest(pc).pc = pc
      /\ Len(works) \in Nat
  BY <1>0, GotoTyped, RestTyped DEF TypeOK
<1> USE <1>0, <1>1 DEF queueVars, workVars, lockVars, timerVars, SysPc,
        SerialInv, Reporting, AnsweredInOrder, Empty, Front
<1>2. CASE FireTimer \/ NoTimerExpired
  BY <1>2 DEF FireTimer, NoTimerExpired, SysMayStart
<1>3. CASE TimeoutNotWaiting \/ TimeoutWaiting \/ TimeoutQueueEmpty
  BY <1>3 DEF TimeoutNotWaiting, TimeoutWaiting, TimeoutQueueEmpty
<1>4. CASE TimeoutResend
  BY <1>4 DEF TimeoutResend
<1>5. ASSUME NEW o \in {"CONNECTION_ERROR", "TIMEOUT"}, TimeoutGiveUp(o)
      PROVE  SerialInv'
  BY <1>5 DEF TimeoutGiveUp, At
<1>6. CASE WorkQueueEmpty \/ WorkBusy
  BY <1>6 DEF WorkQueueEmpty, WorkBusy
<1>7. CASE WorkBorrow
  BY <1>7 DEF WorkBorrow, At, SysMayStart
<1>8. CASE WorkSend
  BY <1>8 DEF WorkSend
<1>9. CASE WorkSendFails
  BY <1>9 DEF WorkSendFails, At
<1>10. CASE SysPop
  BY <1>10 DEF SysPop, PopFront, ControlInv, StateInv
<1>11. CASE SysCallback
  <2>1. Len(calls') = popped /\ AnsweredInOrder'
    BY <1>11, ReportInOrder DEF SysCallback
  <2> QED
    BY <1>11, <2>1 DEF SysCallback
<1> QED
  BY <1>2, <1>3, <1>4, <1>5, <1>6, <1>7, <1>8, <1>9, <1>10, <1>11
  DEF SystemThread, ReceiveTimeout, DoWork

LEMMA NextPreservesSerial ==
  ASSUME Serial PROVE IInv /\ SerialInv /\ [Next]_vars => SerialInv'
<1> SUFFICES ASSUME IInv, SerialInv, [Next]_vars PROVE SerialInv'
  OBVIOUS
<1>1. ASSUME NEW c \in Command, QueueCommandAsync(c) PROVE SerialInv'
  <2>1. /\ Len(works') = Len(works) + 1
        /\ Len(works) \in Nat /\ popped \in Nat /\ popped <= Len(works)
    BY <1>1 DEF QueueCommandAsync, IInv, TypeOK
  <2> QED
    BY <1>1, <2>1 DEF QueueCommandAsync, SerialInv, Reporting, AnsweredInOrder,
                      Empty, Front, workVars, lockVars, timerVars
<1>2. CASE UNCHANGED vars
  BY <1>2 DEF vars, SerialInv, Reporting, AnsweredInOrder, Empty, Front
<1> QED
  BY <1>1, <1>2, RecvPreservesSerial, SysPreservesSerial DEF Next

LEMMA SerialAlways == Serial => (Spec => [](IInv /\ SerialInv))
<1> SUFFICES ASSUME Serial PROVE Spec => [](IInv /\ SerialInv)
  OBVIOUS
<1>1. Init => IInv /\ SerialInv
  BY InitIInv, InitSerialInv
<1>2. IInv /\ SerialInv /\ [Next]_vars => (IInv /\ SerialInv)'
  BY NextPreservesIInv, NextPreservesSerial
<1> QED
  BY <1>1, <1>2, PTL DEF Spec

\* When handlers do not overlap, a command that waits for its ack is in the
\* queue: what the comment at mavlink_commands.cpp:238-240 takes for granted.
THEOREM SerialWaitingHasWork == Serial => (Spec => []WaitingHasWork)
<1>1. SerialInv => WaitingHasWork
  BY DEF SerialInv, WaitingHasWork
<1> QED
  BY <1>1, SerialAlways, PTL

\* When handlers do not overlap, the i-th callback is that of the i-th command:
\* no command is passed over and none is answered twice.
THEOREM SerialAnsweredInOrder == Serial => (Spec => []AnsweredInOrder)
<1>1. SerialInv => AnsweredInOrder
  BY DEF SerialInv
<1> QED
  BY <1>1, SerialAlways, PTL

(* Steps of the command sender as steps of the service. *)
LEMMA ReportIsAnswer ==
  ASSUME TypeOK, NEW t, t.outcome \in Outcomes, Report(t),
         Len(calls) = popped - 1, UNCHANGED works
  PROVE  Service!Answer(t.outcome)
<1> DEFINE results(c) == [i \in DOMAIN c |-> c[i].outcome]
<1>1. /\ calls \in Seq([work: Work, outcome: Outcomes])
      /\ popped \in Nat /\ Len(works) \in Nat /\ popped <= Len(works)
  BY DEF TypeOK
<1>2. calls' = Append(calls, [work |-> t.work, outcome |-> t.outcome])
  BY DEF Report
<1>3. results(calls) \in Seq(Outcomes) /\ Len(results(calls)) = Len(calls)
  <2>1. /\ DOMAIN calls = 1 .. Len(calls) /\ Len(calls) \in Nat
        /\ \A i \in 1 .. Len(calls): calls[i].outcome \in Outcomes
    <3>1. DOMAIN calls = 1 .. Len(calls) /\ Len(calls) \in Nat
      BY <1>1, LenProperties
    <3>2. \A i \in 1 .. Len(calls): calls[i] \in [work: Work, outcome: Outcomes]
      BY <1>1, ElementOfSeq
    <3> QED
      BY <3>1, <3>2
  <2>2. results(calls) \in [1 .. Len(calls) -> Outcomes]
    BY <2>1
  <2>3. results(calls) \in Seq(Outcomes)
    BY <2>1, <2>2, SeqDef
  <2>4. DOMAIN results(calls) = 1 .. Len(results(calls))
    BY <2>3, LenProperties
  <2>5. DOMAIN results(calls) = 1 .. Len(calls)
    BY <2>2
  <2>6. Len(results(calls)) \in Nat
    BY <2>3, LenProperties
  <2> HIDE DEF results
  <2> QED
    BY <2>1, <2>3, <2>4, <2>5, <2>6
<1>4. results(calls') = Append(results(calls), t.outcome)
  BY <1>1, <1>2, <1>3
<1>5. Len(results(calls)) < Len(works)
  BY <1>1, <1>3
<1> QED
  BY <1>4, <1>5 DEF Service!Answer

\* When handlers do not overlap, the command sender keeps the promise of
\* CommandService: one final result per command, in queueing order.
THEOREM SerialImplementsService == Serial => (Spec => ServiceSpec)
<1> SUFFICES ASSUME Serial PROVE Spec => ServiceSpec
  OBVIOUS
<1>1. Init => Service!Init
  BY DEF Init, Service!Init
<1>2. IInv /\ SerialInv /\ [Next]_vars => [Service!Next]_(Service!serviceVars)
  <2> SUFFICES ASSUME IInv, SerialInv, [Next]_vars
               PROVE  [Service!Next]_(Service!serviceVars)
    OBVIOUS
  <2>0. TypeOK /\ FrameInv
    BY DEF IInv
  <2>1. ASSUME NEW c \in Command, QueueCommandAsync(c) PROVE Service!Submit
    <3>1. Len(works') = Len(works) + 1 /\ UNCHANGED calls /\ Len(works) < MaxWork
      BY <2>0, <2>1 DEF QueueCommandAsync, TypeOK
    <3> QED
      BY <3>1 DEF Service!Submit
  <2>2. CASE AckCallback
    <3>1. /\ recv.outcome \in Outcomes /\ Report(recv) /\ UNCHANGED works
          /\ Len(calls) = popped - 1
      BY <2>0, <2>2 DEF AckCallback, FrameInv, queueVars, SerialInv, Reporting
    <3> QED
      BY <2>0, <3>1, ReportIsAnswer DEF Service!Next
  <2>3. CASE SysCallback
    <3>1. /\ sys.outcome \in Outcomes /\ Report(sys) /\ UNCHANGED works
          /\ Len(calls) = popped - 1
      BY <2>0, <2>3 DEF SysCallback, FrameInv, queueVars, SerialInv, Reporting
    <3> QED
      BY <2>0, <3>1, ReportIsAnswer DEF Service!Next
  <2>4. CASE UNCHANGED <<works, calls>>
    BY <2>4 DEF Service!serviceVars
  <2>5. ReceiveCommandAck => AckCallback \/ UNCHANGED <<works, calls>>
    BY DEF ReceiveCommandAck, AckBorrow, AckFinal, AckUnregister, AckPop,
           AckInProgress, AckRaise, AckRearm, AckUnknown, queueVars
  <2>6. SystemThread => SysCallback \/ UNCHANGED <<works, calls>>
    BY DEF SystemThread, ReceiveTimeout, DoWork, FireTimer, NoTimerExpired,
           TimeoutNotWaiting, TimeoutWaiting, TimeoutQueueEmpty, TimeoutResend,
           TimeoutGiveUp, WorkQueueEmpty, WorkBorrow, WorkBusy, WorkSend,
           WorkSendFails, SysPop, queueVars
  <2> QED
    BY <2>1, <2>2, <2>3, <2>4, <2>5, <2>6 DEF Next, vars, Service!Next
<1> QED
  BY <1>1, <1>2, SerialAlways, PTL DEF Spec, ServiceSpec, Service!Spec

-----------------------------------------------------------------------------
(***************************************************************************)
(* How often a command was sent before it is given up.  A retry that is    *)
(* used up is a transmission: the two add up for the command that waits,   *)
(* and what is behind it has neither been sent nor retried.                *)
(***************************************************************************)
Untried(w) == sent[w] = 0 /\ retries[w] = Retries

RetryInv ==
  /\ recv.pc \in {"unregister", "pop", "callback"} => recv.outcome # "TIMEOUT"
  /\ \A w \in Work: w > Front => Untried(w)
  /\ state = "NONE" /\ recv.pc \notin {"unregister", "pop"} /\ sys.pc # "drop" =>
       \A w \in Work: w = Front => Untried(w)
  /\ state = "WAITING" => \A w \in Work: w = Front => sent[w] + retries[w] = Retries + 1
  /\ sys.pc \in {"drop", "callback"} /\ sys.outcome = "TIMEOUT" =>
       sent[sys.work] = Retries + 1
  /\ TimeoutMeansRetried

LEMMA InitRetryInv == Init => RetryInv
BY DEF Init, RetryInv, Untried, TimeoutMeansRetried, Rest, At, Front, Work

(* What was answered is not sent again. *)
LEMMA AnsweredStays ==
  ASSUME TypeOK, SerialInv, RetryInv, calls' = calls,
         \A w \in Work: w <= popped => sent'[w] = sent[w]
  PROVE  TimeoutMeansRetried'
<1>1. ASSUME NEW i \in DOMAIN calls PROVE calls[i].work \in Work /\ calls[i].work <= popped
  <2>1. calls \in Seq([work: Work, outcome: Outcomes]) /\ popped \in Nat
    BY DEF TypeOK
  <2>2. i \in 1 .. Len(calls) /\ calls[i] \in [work: Work, outcome: Outcomes]
    BY <2>1, ElementOfSeq, LenProperties
  <2>3. calls[i].work = i /\ Len(calls) <= popped /\ Len(calls) \in Nat
    BY <2>1, LenProperties DEF SerialInv, AnsweredInOrder
  <2> QED
    BY <2>1, <2>2, <2>3
<1> QED
  BY <1>1 DEF TimeoutMeansRetried, RetryInv

(* A callback is called with TIMEOUT only after all retries. *)
LEMMA ReportKeepsRetries ==
  ASSUME TypeOK, TimeoutMeansRetried, NEW t, Report(t), sent' = sent,
         t.outcome = "TIMEOUT" => sent[t.work] = Retries + 1
  PROVE  TimeoutMeansRetried'
<1>1. calls \in Seq([work: Work, outcome: Outcomes])
  BY DEF TypeOK
<1>2. calls' = Append(calls, [work |-> t.work, outcome |-> t.outcome])
  BY DEF Report
<1>3. ASSUME NEW i \in DOMAIN calls', calls'[i].outcome = "TIMEOUT"
      PROVE  sent[calls'[i].work] = Retries + 1
  <2>1. CASE i \in DOMAIN calls
    <3>1. calls'[i] = calls[i]
      BY <1>1, <1>2, <2>1
    <3> QED
      BY <1>3, <2>1, <3>1 DEF TimeoutMeansRetried
  <2>2. CASE i \notin DOMAIN calls
    <3>1. calls'[i] = [work |-> t.work, outcome |-> t.outcome]
      BY <1>1, <1>2, <1>3, <2>2
    <3> QED
      BY <1>3, <3>1
  <2> QED
    BY <2>1, <2>2
<1> QED
  BY <1>3 DEF TimeoutMeansRetried

LEMMA RecvPreservesRetry ==
  ASSUME Serial, IInv, SerialInv, RetryInv, ReceiveCommandAck PROVE RetryInv'
<1>0. TypeOK /\ FrameInv /\ recv \in Position(RecvPc) /\ popped \in Nat
  BY DEF IInv, TypeOK
<1>1. /\ \A pc \in RecvPc: Goto(recv, pc).pc = pc /\ Goto(recv, pc).outcome = recv.outcome
      /\ Rest("idle").pc = "idle"
  <2>1. "idle" \in RecvPc
    BY DEF RecvPc
  <2> QED
    BY <1>0, <2>1, GotoTyped, RestTyped
<1>2. sent' = sent /\ retries' = retries
  BY DEF ReceiveCommandAck, AckBorrow, AckFinal, AckUnregister, AckPop, AckCallback,
         AckInProgress, AckRaise, AckRearm, AckUnknown, workVars
<1>3. CASE AckCallback
  <2>1. TimeoutMeansRetried'
    BY <1>0, <1>2, <1>3, ReportKeepsRetries DEF AckCallback, RetryInv
  <2> QED
    BY <1>1, <1>2, <1>3, <2>1 DEF AckCallback, RetryInv, Untried, queueVars, Front
<1>4. ASSUME ~AckCallback PROVE TimeoutMeansRetried' /\ calls' = calls
  <2>1. calls' = calls
    BY <1>4 DEF ReceiveCommandAck, AckBorrow, AckFinal, AckUnregister, AckPop,
           AckInProgress, AckRaise, AckRearm, AckUnknown
  <2> QED
    BY <1>0, <1>2, <2>1, AnsweredStays
<1>5. ASSUME NEW c \in Command, NEW r \in AckResult, AckBorrow(c, r)
      PROVE  RetryInv'
  <2>1. recv'.pc = "ack" /\ recv.pc = "idle"
        /\ UNCHANGED <<popped, state, sys, sent, retries>> /\ ~AckCallback
    BY <1>2, <1>5 DEF AckBorrow, At, queueVars, AckCallback
  <2> QED
    BY <2>1, <1>4 DEF RetryInv, Untried, Front
<1>6. CASE AckFinal
  <2>1. /\ recv'.pc = "unregister" /\ recv'.outcome # "TIMEOUT" /\ ~AckCallback
        /\ UNCHANGED <<popped, sys, sent, retries>> /\ state' = "NONE"
    BY <1>2, <1>6 DEF AckFinal, At, queueVars, OutcomeOf, AckCallback
  <2> QED
    BY <2>1, <1>4 DEF RetryInv, Untried, Front
<1>7. CASE AckUnregister
  <2>1. /\ recv'.pc = "pop" /\ recv'.outcome = recv.outcome /\ recv.pc = "unregister"
        /\ UNCHANGED <<popped, state, sys, sent, retries>> /\ ~AckCallback
    BY <1>1, <1>2, <1>7 DEF AckUnregister, queueVars, AckCallback, RecvPc
  <2> QED
    BY <2>1, <1>4 DEF RetryInv, Untried, Front
<1>8. CASE AckPop
  <2>1. /\ recv'.pc = "callback" /\ recv'.outcome = recv.outcome /\ recv.pc = "pop"
        /\ UNCHANGED <<state, sys, sent, retries>> /\ ~AckCallback /\ popped' = popped + 1
        /\ state = "NONE"
    BY <1>1, <1>2, <1>8 DEF AckPop, AckCallback, RecvPc, PopFront, SerialInv
  <2>2. Front' = Front + 1 /\ Front \in Nat
    BY <1>0, <2>1 DEF Front
  <2> QED
    BY <2>1, <2>2, <1>4 DEF RetryInv, Untried, Work
<1>9. CASE AckInProgress \/ AckRaise \/ AckRearm
  <2>1. /\ recv'.pc \in {"raise", "rearm", "idle"} /\ state' = "IN_PROGRESS"
        /\ UNCHANGED <<popped, sys, sent, retries>> /\ ~AckCallback
    BY <1>1, <1>2, <1>9 DEF AckInProgress, AckRaise, AckRearm, queueVars, AckCallback, RecvPc,
       IInv, StateInv
  <2> QED
    BY <2>1, <1>4 DEF RetryInv, Untried, Front
<1>10. CASE AckUnknown
  <2>1. /\ recv'.pc = "idle" /\ recv.pc = "ack" /\ ~AckCallback
        /\ UNCHANGED <<popped, state, sys, sent, retries>>
    BY <1>1, <1>2, <1>10 DEF AckUnknown, queueVars, AckCallback
  <2> QED
    BY <2>1, <1>4 DEF RetryInv, Untried, Front
<1> QED
  BY <1>3, <1>5, <1>6, <1>7, <1>8, <1>9, <1>10 DEF ReceiveCommandAck

(* A retry is a transmission that is not left any more. *)
LEMMA ResendPreservesRetry ==
  ASSUME IInv, SerialInv, RetryInv, TimeoutResend PROVE RetryInv'
<1>1. TypeOK /\ popped \in Nat /\ Front \in Work /\ Work \subseteq Nat /\ Retries \in Nat
  <2>1. TypeOK /\ ~Empty
    BY DEF IInv, TimeoutResend
  <2>2. Work \subseteq Nat /\ Retries \in Nat
    BY CommandsAssumption DEF Work
  <2> QED
    BY <2>1, <2>2, FrontIsWork, SMTT(30) DEF TypeOK
<1>2. /\ sys.pc = "borrow" /\ state = "WAITING" /\ UNCHANGED <<popped, state, recv, calls>>
      /\ sent' = [sent EXCEPT ![Front] = @ + 1]
      /\ retries' = [retries EXCEPT ![Front] = @ - 1] /\ sys' = Rest("timers")
  BY DEF TimeoutResend, IInv, StateInv, queueVars
<1>3. sys'.pc = "timers"
  BY <1>2 DEF Rest, At
<1>4. sent[Front] \in Nat /\ retries[Front] \in Nat
  BY <1>1 DEF TypeOK
<1>5. /\ sent'[Front] = sent[Front] + 1 /\ retries'[Front] = retries[Front] - 1
      /\ \A w \in Work: w # Front => sent'[w] = sent[w] /\ retries'[w] = retries[w]
  BY <1>1, <1>2 DEF TypeOK
<1>6. \A w \in Work: w <= popped => sent'[w] = sent[w]
  BY <1>1, <1>5 DEF Front
<1>7. TimeoutMeansRetried'
  BY <1>1, <1>2, <1>6, AnsweredStays
<1>8. Front' = Front
  BY <1>2 DEF Front
<1>9. sent'[Front] + retries'[Front] = Retries + 1
  BY <1>1, <1>2, <1>4, <1>5 DEF RetryInv
<1>10. \A w \in Work: w > Front => Untried(w)'
  <2>1. ASSUME NEW w \in Work, w > Front PROVE Untried(w)'
    <3>1. w # Front
      BY <1>1, <2>1
    <3> QED
      BY <1>5, <2>1, <3>1 DEF RetryInv, Untried
  <2> QED
    BY <2>1
<1> QED
  BY <1>2, <1>3, <1>7, <1>8, <1>9, <1>10 DEF RetryInv

(* The first transmission is that of a command that is untried. *)
LEMMA SendPreservesRetry ==
  ASSUME Serial, IInv, SerialInv, RetryInv, WorkSend PROVE RetryInv'
<1>1. /\ TypeOK /\ popped \in Nat /\ sys.work = Front /\ Front \in Work /\ Work \subseteq Nat
      /\ Retries \in Nat
  <2>1. TypeOK /\ ~Empty /\ sys.work = Front
    BY DEF IInv, WorkSend, SerialInv
  <2>2. Work \subseteq Nat /\ Retries \in Nat
    BY CommandsAssumption DEF Work
  <2> QED
    BY <2>1, <2>2, FrontIsWork DEF TypeOK
<1>2. /\ sys.pc = "send" /\ state = "NONE" /\ state' = "WAITING"
      /\ UNCHANGED <<popped, recv, calls, retries>>
      /\ sent' = [sent EXCEPT ![Front] = @ + 1] /\ sys' = Rest("timers")
  BY <1>1 DEF WorkSend, queueVars
<1>3. sys'.pc = "timers" /\ recv.pc = "idle"
  BY <1>2 DEF Rest, At, SerialInv
<1>4. Untried(Front)
  BY <1>1, <1>2, <1>3 DEF RetryInv
<1>5. /\ sent'[Front] = 1 /\ \A w \in Work: w # Front => sent'[w] = sent[w]
  BY <1>1, <1>2, <1>4 DEF TypeOK, Untried
<1>6. \A w \in Work: w <= popped => sent'[w] = sent[w]
  BY <1>1, <1>5 DEF Front
<1>7. TimeoutMeansRetried'
  BY <1>1, <1>2, <1>6, AnsweredStays
<1>8. Front' = Front
  BY <1>2 DEF Front
<1>9. sent'[Front] + retries'[Front] = Retries + 1
  BY <1>1, <1>2, <1>4, <1>5 DEF Untried
<1>10. \A w \in Work: w > Front => Untried(w)'
  <2>1. ASSUME NEW w \in Work, w > Front PROVE Untried(w)'
    <3>1. w # Front
      BY <1>1, <2>1
    <3> QED
      BY <1>2, <1>5, <2>1, <3>1 DEF RetryInv, Untried
  <2> QED
    BY <2>1
<1> QED
  BY <1>2, <1>3, <1>7, <1>8, <1>9, <1>10 DEF RetryInv

(* Giving up with TIMEOUT: no retry is left. *)
LEMMA GiveUpPreservesRetry ==
  ASSUME Serial, IInv, SerialInv, RetryInv, NEW o \in {"CONNECTION_ERROR", "TIMEOUT"},
         TimeoutGiveUp(o)
  PROVE  RetryInv'
<1>1. TypeOK /\ Front \in Work /\ Retries \in Nat
  BY FrontIsWork, CommandsAssumption DEF IInv, TypeOK, TimeoutGiveUp
<1>2. /\ sys.pc = "borrow" /\ state = "WAITING" /\ state' = "NONE"
      /\ UNCHANGED <<popped, recv, calls, sent, retries>> /\ sys' = At("drop", Front, o)
      /\ o = "TIMEOUT" => ~(retries[Front] > 0)
  BY DEF TimeoutGiveUp, IInv, StateInv, queueVars, workVars
<1>3. sys'.pc = "drop" /\ sys'.work = Front /\ sys'.outcome = o
  BY <1>2 DEF At
<1>4. sent[Front] \in Nat /\ retries[Front] \in Nat /\ sent[Front] + retries[Front] = Retries + 1
  BY <1>1, <1>2 DEF TypeOK, RetryInv
<1>5. o = "TIMEOUT" => sent[Front] = Retries + 1
  BY <1>1, <1>2, <1>4
<1>6. TimeoutMeansRetried'
  BY <1>1, <1>2, AnsweredStays
<1> QED
  BY <1>2, <1>3, <1>5, <1>6 DEF RetryInv, Untried, Front

LEMMA SysPreservesRetry ==
  ASSUME Serial, IInv, SerialInv, RetryInv, SystemThread PROVE RetryInv'
<1>0. TypeOK /\ sys \in Position(SysPc) /\ popped \in Nat
  BY DEF IInv, TypeOK
<1>1. \A pc \in SysPc: /\ Goto(sys, pc).pc = pc
                       /\ Goto(sys, pc).work = sys.work
                       /\ Goto(sys, pc).outcome = sys.outcome
                       /\ Rest(pc).pc = pc
  BY <1>0, GotoTyped, RestTyped
<1>2. CASE SysCallback
  <2>1. /\ sys.pc = "callback" /\ sys'.pc = "timers" /\ Report(sys)
        /\ UNCHANGED <<popped, sent, retries, state, recv>>
    BY <1>1, <1>2 DEF SysCallback, SysPc, queueVars, workVars
  <2>2. TimeoutMeansRetried'
    BY <1>0, <2>1, ReportKeepsRetries DEF RetryInv
  <2> QED
    BY <2>1, <2>2 DEF RetryInv, Untried, Front
<1>3. CASE SysPop
  <2>1. /\ sys.pc = "drop" /\ sys'.pc = "callback" /\ sys'.work = sys.work
        /\ sys'.outcome = sys.outcome /\ popped' = popped + 1 /\ state = "NONE"
        /\ UNCHANGED <<sent, retries, state, recv, calls>>
    BY <1>1, <1>3 DEF SysPop, SysPc, PopFront, workVars, IInv, StateInv, SerialInv
  <2>2. Front' = Front + 1 /\ Front \in Nat
    BY <1>0, <2>1 DEF Front
  <2>3. TimeoutMeansRetried'
    BY <1>0, <2>1, AnsweredStays
  <2> QED
    BY <2>1, <2>2, <2>3 DEF RetryInv, Untried, Work
<1>4. CASE WorkSendFails
  <2>1. /\ sys'.pc = "drop" /\ sys'.outcome = "CONNECTION_ERROR"
        /\ UNCHANGED <<popped, sent, retries, state, recv, calls>>
    BY <1>4 DEF WorkSendFails, At, queueVars, workVars
  <2>2. TimeoutMeansRetried'
    BY <1>0, <2>1, AnsweredStays
  <2> QED
    BY <2>1, <2>2 DEF RetryInv, Untried, Front
<1>5. CASE TimeoutQueueEmpty
  <2>1. state = "WAITING" /\ Empty
    BY <1>5 DEF TimeoutQueueEmpty, IInv, StateInv
  <2> QED
    BY <2>1 DEF SerialInv
<1>6. CASE \/ FireTimer \/ NoTimerExpired \/ TimeoutNotWaiting \/ TimeoutWaiting
           \/ WorkQueueEmpty \/ WorkBorrow \/ WorkBusy
  <2>1. /\ sys.pc \in {"timers", "timeout", "work", "send"}
        /\ sys'.pc \in {"timers", "timeout", "work", "borrow", "send"}
        /\ UNCHANGED <<popped, sent, retries, state, recv, calls>>
    BY <1>1, <1>6 DEF FireTimer, NoTimerExpired, TimeoutNotWaiting, TimeoutWaiting,
       WorkQueueEmpty, WorkBorrow, WorkBusy, At, queueVars, workVars, SysPc
  <2>2. TimeoutMeansRetried'
    BY <1>0, <2>1, AnsweredStays
  <2> QED
    BY <2>1, <2>2 DEF RetryInv, Untried, Front
<1> QED
  BY <1>2, <1>3, <1>4, <1>5, <1>6, ResendPreservesRetry, SendPreservesRetry, GiveUpPreservesRetry
  DEF SystemThread, ReceiveTimeout, DoWork

LEMMA NextPreservesRetry ==
  ASSUME Serial PROVE IInv /\ SerialInv /\ RetryInv /\ [Next]_vars => RetryInv'
<1> SUFFICES ASSUME IInv, SerialInv, RetryInv, [Next]_vars PROVE RetryInv'
  OBVIOUS
<1>1. CASE UNCHANGED <<popped, sent, retries, state, recv, sys, calls>>
  BY <1>1 DEF RetryInv, Untried, Front, TimeoutMeansRetried
<1>2. \/ UNCHANGED <<popped, sent, retries, state, recv, sys, calls>>
      \/ ReceiveCommandAck \/ SystemThread
  BY DEF Next, vars, QueueCommandAsync, workVars
<1> QED
  BY <1>1, <1>2, RecvPreservesRetry, SysPreservesRetry

\* When handlers do not overlap, the system thread never waits for a receive
\* thread that waits or is done: the inversion needs the overlap.
THEOREM SerialNeverBlocks ==
  Serial => (Spec => []~(SysWaits /\ (RecvWaits \/ recv.pc = "idle")))
<1> SUFFICES ASSUME Serial
             PROVE  Spec => []~(SysWaits /\ (RecvWaits \/ recv.pc = "idle"))
  OBVIOUS
<1>1. IInv /\ SerialInv => ~(SysWaits /\ (RecvWaits \/ recv.pc = "idle"))
  <2> SUFFICES ASSUME IInv, SerialInv, SysWaits, RecvWaits \/ recv.pc = "idle"
               PROVE  FALSE
    OBVIOUS
  <2>1. /\ queueLock = "recv" /\ LockInv /\ stateLock \in Threads \cup {Free}
    BY SysWaitsForRecv DEF IInv, TypeOK
  <2>2. recv.pc = "ack" /\ stateLock = "sys"
    BY <2>1 DEF LockInv, RecvWaits, Threads, Free
  <2> QED
    BY <2>1, <2>2 DEF LockInv, SerialInv
<1> QED
  BY <1>1, SerialAlways, PTL DEF Spec

\* When handlers do not overlap, TIMEOUT is reported only for a command that was
\* transmitted once and then retried as often as it may be.
THEOREM SerialTimeoutMeansRetried == Serial => (Spec => []TimeoutMeansRetried)
<1> SUFFICES ASSUME Serial PROVE Spec => []TimeoutMeansRetried
  OBVIOUS
<1>1. Init => RetryInv
  BY InitRetryInv
<1>2. IInv /\ SerialInv /\ RetryInv /\ [Next]_vars => RetryInv'
  BY NextPreservesRetry
<1>3. RetryInv => TimeoutMeansRetried
  BY DEF RetryInv
<1> QED
  BY <1>1, <1>2, <1>3, SerialAlways, PTL DEF Spec
=============================================================================

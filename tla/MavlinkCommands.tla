--------------------------- MODULE MavlinkCommands ---------------------------
(***************************************************************************)
(* The command sender of core/mavlink_commands.cpp with its LockedQueue    *)
(* (core/locked_queue.h), at the granularity of lock acquisitions.         *)
(*                                                                         *)
(* Two threads run its handlers: "recv", a connection's receive thread     *)
(* (receive_command_ack), and "sys", the system thread, whose loop runs    *)
(* the expired timers (receive_timeout) and then do_work.  Any thread may  *)
(* push_back a command.  Two mutexes: the queue's, which borrow_front      *)
(* keeps locked, and _state_mutex.                                         *)
(*                                                                         *)
(* A step begins where a thread acquires a lock and runs to the point      *)
(* before its next acquisition; what it does in between is protected by    *)
(* the locks it holds.  The queue holds work items popped+1 .. Len(works): *)
(* items are appended at the back and removed only at the front.           *)
(***************************************************************************)
EXTENDS Integers, Sequences, FiniteSets

CONSTANTS
  Command,    \* MAV_CMD numbers
  MaxWork,    \* bound: how many commands are ever queued
  Retries,    \* Work::retries_to_do, 3 in the code
  AckResult,  \* the MAV_RESULTs the vehicle answers with
  Timer,      \* cookies the TimeoutHandler can hand out
  Serial      \* TRUE: a handler starts only when the other thread runs none

NoCookie == "nullptr"

ASSUME CommandsAssumption ==
  /\ MaxWork \in Nat
  /\ Retries \in Nat
  /\ AckResult \subseteq {"ACCEPTED", "DENIED", "IN_PROGRESS", "UNKNOWN"}
  /\ NoCookie \notin Timer
  /\ Serial \in BOOLEAN

VARIABLES
  works,      \* the command of every item ever pushed, in order
  popped,     \* how many items pop_front has removed
  retries,    \* retries_to_do of each item
  sent,       \* how often each item was handed to send_message
  state,      \* _state
  queueLock,  \* holder of LockedQueue::_mutex
  stateLock,  \* holder of _state_mutex
  timers,     \* this component's entries in the TimeoutHandler
  cookie,     \* _timeout_cookie
  recv,       \* receive thread: where it is, the work it borrowed, the outcome
  sys,        \* system thread: likewise
  calls       \* history: callbacks handed to the thread pool, in order

queueVars == <<works, popped>>
workVars  == <<retries, sent>>
lockVars  == <<queueLock, stateLock>>
timerVars == <<timers, cookie>>
vars == <<works, popped, retries, sent, state, queueLock, stateLock,
          timers, cookie, recv, sys, calls>>

Work      == 1 .. MaxWork
Threads   == {"recv", "sys"}
Free      == "free"
States    == {"NONE", "WAITING", "IN_PROGRESS"}
Outcomes  == {"SUCCESS", "COMMAND_DENIED", "CONNECTION_ERROR", "TIMEOUT"}
RecvPc    == {"idle", "ack", "unregister", "raise", "rearm", "pop", "callback"}
SysPc     == {"timers", "work", "timeout", "borrow", "send", "drop", "callback"}

Empty == popped = Len(works)
Front == popped + 1
Queue == popped + 1 .. Len(works)

\* A thread at rest, and a thread that has borrowed work w.
At(pc, w, outcome) == [pc |-> pc, work |-> w, outcome |-> outcome]
Goto(t, pc)        == [t EXCEPT !.pc = pc]
Rest(pc)           == At(pc, 0, "none")

Init ==
  /\ works = <<>>
  /\ popped = 0
  /\ retries = [w \in Work |-> Retries]
  /\ sent = [w \in Work |-> 0]
  /\ state = "NONE"
  /\ queueLock = Free
  /\ stateLock = Free
  /\ timers = {}
  /\ cookie = NoCookie
  /\ recv = Rest("idle")
  /\ sys = Rest("timers")
  /\ calls = <<>>

-----------------------------------------------------------------------------
(* LockedQueue and the services of the parent system. *)

\* pop_front, after return_front: lock again and remove whatever is in front.
PopFront ==
  /\ queueLock = Free
  /\ popped' = IF Empty THEN popped ELSE popped + 1

\* register_timeout_handler: a fresh entry, its address stored in the cookie.
Register ==
  \E t \in Timer \ timers:
    /\ timers' = timers \cup {t}
    /\ cookie' = t

\* call_callback: the callback is queued on the thread pool.
Report(t) == calls' = Append(calls, [work |-> t.work, outcome |-> t.outcome])

\* The window in which the other thread may start a handler.
RecvMayStart == Serial => sys.pc \in {"timers", "work"}
SysMayStart  == Serial => recv.pc = "idle"

-----------------------------------------------------------------------------
(* Faulty variants of the actions below, one per property: each is a bug the *)
(* property must catch.                                                      *)

\* Raises the timeout without cancelling the first timer.
AckRaiseKeepsTimer ==
  /\ recv.pc = "raise"
  /\ recv' = Goto(recv, "rearm")
  /\ UNCHANGED <<queueVars, workVars, state, lockVars, timerVars, sys, calls>>

\* Sends the command without arming its timer.
WorkSendUnarmed ==
  /\ sys.pc = "send"
  /\ stateLock = Free
  /\ state = "NONE"
  /\ sent' = [sent EXCEPT ![sys.work] = @ + 1]
  /\ state' = "WAITING"
  /\ queueLock' = Free
  /\ sys' = Rest("timers")
  /\ UNCHANGED <<queueVars, retries, stateLock, timerVars, recv, calls>>

\* Does not return the front after an unknown result.
AckUnknownKeepsQueue ==
  /\ recv.pc = "ack"
  /\ recv.outcome = "UNKNOWN"
  /\ stateLock = Free
  /\ recv' = Rest("idle")
  /\ UNCHANGED <<queueVars, workVars, state, lockVars, timerVars, sys, calls>>

\* Gives up without resetting the state.
TimeoutGiveUpKeepsState(outcome) ==
  /\ sys.pc = "borrow"
  /\ queueLock = Free
  /\ ~Empty
  /\ outcome = IF retries[Front] > 0 THEN "CONNECTION_ERROR" ELSE "TIMEOUT"
  /\ sys' = At("drop", Front, outcome)
  /\ UNCHANGED <<queueVars, workVars, state, lockVars, timerVars, recv, calls>>

\* Gives up one retry too early.
TimeoutGiveUpEarly(outcome) ==
  /\ sys.pc = "borrow"
  /\ queueLock = Free
  /\ ~Empty
  /\ outcome = IF retries[Front] > 1 THEN "CONNECTION_ERROR" ELSE "TIMEOUT"
  /\ state' = "NONE"
  /\ sys' = At("drop", Front, outcome)
  /\ UNCHANGED <<queueVars, workVars, lockVars, timerVars, recv, calls>>

\* Reports the ack but leaves the command in the queue.
AckPopForgotten ==
  /\ recv.pc = "pop"
  /\ queueLock = Free
  /\ recv' = Goto(recv, "callback")
  /\ UNCHANGED <<queueVars, workVars, state, lockVars, timerVars, sys, calls>>

\* Forgets the callback.
AckCallbackForgotten ==
  /\ recv.pc = "callback"
  /\ recv' = Rest("idle")
  /\ UNCHANGED <<queueVars, workVars, state, lockVars, timerVars, sys, calls>>

-----------------------------------------------------------------------------
(* Any thread: queue_command_async. *)

QueueCommandAsync(c) ==
  /\ Len(works) < MaxWork
  /\ queueLock = Free
  /\ works' = Append(works, c)
  /\ UNCHANGED <<popped, workVars, state, lockVars, timerVars, recv, sys, calls>>

-----------------------------------------------------------------------------
(* The receive thread: receive_command_ack. *)

\* Which acks can arrive: for any command that was ever transmitted, any
\* number of times and arbitrarily late (the link duplicates and reorders).
Transmitted == {works[w] : w \in {v \in 1 .. Len(works) : sent[v] > 0}}

\* The outcome reported for a final MAV_RESULT.
OutcomeOf(result) == IF result = "ACCEPTED" THEN "SUCCESS" ELSE "COMMAND_DENIED"

\* borrow_front; an empty queue or another command than the front's is ignored.
AckBorrow(c, result) ==
  /\ recv.pc = "idle"
  /\ RecvMayStart
  /\ queueLock = Free
  /\ c \in Transmitted
  /\ ~Empty
  /\ works[Front] = c
  /\ queueLock' = "recv"
  /\ recv' = At("ack", Front, result)
  /\ UNCHANGED <<queueVars, workVars, state, stateLock, timerVars, sys, calls>>

\* ACCEPTED, DENIED, UNSUPPORTED, TEMPORARILY_REJECTED, FAILED.
AckFinal ==
  /\ recv.pc = "ack"
  /\ recv.outcome \in {"ACCEPTED", "DENIED"}
  /\ stateLock = Free
  /\ state' = "NONE"
  /\ recv' = At("unregister", recv.work, OutcomeOf(recv.outcome))
  /\ UNCHANGED <<queueVars, workVars, lockVars, timerVars, sys, calls>>

\* The timer goes; pop_front first gives the queue back ...
AckUnregister ==
  /\ recv.pc = "unregister"
  /\ timers' = timers \ {cookie}
  /\ queueLock' = Free
  /\ recv' = Goto(recv, "pop")
  /\ UNCHANGED <<queueVars, workVars, state, stateLock, cookie, sys, calls>>

\* ... and then takes it again to remove the front.
AckPop ==
  /\ recv.pc = "pop"
  /\ PopFront
  /\ recv' = Goto(recv, "callback")
  /\ UNCHANGED <<works, workVars, state, lockVars, timerVars, sys, calls>>

AckCallback ==
  /\ recv.pc = "callback"
  /\ Report(recv)
  /\ recv' = Rest("idle")
  /\ UNCHANGED <<queueVars, workVars, state, lockVars, timerVars, sys>>

AckInProgress ==
  /\ recv.pc = "ack"
  /\ recv.outcome = "IN_PROGRESS"
  /\ stateLock = Free
  /\ state' = "IN_PROGRESS"
  /\ recv' = Goto(recv, "raise")
  /\ UNCHANGED <<queueVars, workVars, lockVars, timerVars, sys, calls>>

\* The timeout is raised: the old timer goes ...
AckRaise ==
  /\ recv.pc = "raise"
  /\ timers' = timers \ {cookie}
  /\ recv' = Goto(recv, "rearm")
  /\ UNCHANGED <<queueVars, workVars, state, lockVars, cookie, sys, calls>>

\* ... a longer one is armed, and the work stays in front.
AckRearm ==
  /\ recv.pc = "rearm"
  /\ Register
  /\ queueLock' = Free
  /\ recv' = Rest("idle")
  /\ UNCHANGED <<queueVars, workVars, state, stateLock, sys, calls>>

\* Any other result: the work is returned.
AckUnknown ==
  /\ recv.pc = "ack"
  /\ recv.outcome = "UNKNOWN"
  /\ stateLock = Free
  /\ queueLock' = Free
  /\ recv' = Rest("idle")
  /\ UNCHANGED <<queueVars, workVars, state, stateLock, timerVars, sys, calls>>

-----------------------------------------------------------------------------
(* The system thread: TimeoutHandler::run_once, then do_work. *)

\* An expired entry is erased before its callback, receive_timeout, runs.
FireTimer ==
  /\ sys.pc = "timers"
  /\ SysMayStart
  /\ \E t \in timers: timers' = timers \ {t}
  /\ sys' = Rest("timeout")
  /\ UNCHANGED <<queueVars, workVars, state, lockVars, cookie, recv, calls>>

NoTimerExpired ==
  /\ sys.pc = "timers"
  /\ sys' = Rest("work")
  /\ UNCHANGED <<queueVars, workVars, state, lockVars, timerVars, recv, calls>>

\* receive_timeout does nothing unless the state is WAITING.
TimeoutNotWaiting ==
  /\ sys.pc = "timeout"
  /\ stateLock = Free
  /\ state # "WAITING"
  /\ sys' = Rest("timers")
  /\ UNCHANGED <<queueVars, workVars, state, lockVars, timerVars, recv, calls>>

\* It keeps _state_mutex while it waits for the queue.
TimeoutWaiting ==
  /\ sys.pc = "timeout"
  /\ stateLock = Free
  /\ state = "WAITING"
  /\ stateLock' = "sys"
  /\ sys' = Goto(sys, "borrow")
  /\ UNCHANGED <<queueVars, workVars, state, queueLock, timerVars, recv, calls>>

\* "we probably shouldn't be in State::WAITING if nothing is in the queue"
TimeoutQueueEmpty ==
  /\ sys.pc = "borrow"
  /\ queueLock = Free
  /\ Empty
  /\ state' = "NONE"
  /\ stateLock' = Free
  /\ sys' = Rest("timers")
  /\ UNCHANGED <<queueVars, workVars, queueLock, timerVars, recv, calls>>

TimeoutResend ==
  /\ sys.pc = "borrow"
  /\ queueLock = Free
  /\ ~Empty
  /\ retries[Front] > 0
  /\ sent' = [sent EXCEPT ![Front] = @ + 1]
  /\ retries' = [retries EXCEPT ![Front] = @ - 1]
  /\ Register
  /\ stateLock' = Free
  /\ sys' = Rest("timers")
  /\ UNCHANGED <<queueVars, state, queueLock, recv, calls>>

\* Giving up, because the link fails or no retry is left: the state is reset
\* and return_front, inside pop_front, has released the queue.
TimeoutGiveUp(outcome) ==
  /\ sys.pc = "borrow"
  /\ queueLock = Free
  /\ ~Empty
  /\ outcome = IF retries[Front] > 0 THEN "CONNECTION_ERROR" ELSE "TIMEOUT"
  /\ state' = "NONE"
  /\ sys' = At("drop", Front, outcome)
  /\ UNCHANGED <<queueVars, workVars, lockVars, timerVars, recv, calls>>

\* do_work: borrow the front, and then wait for _state_mutex.
WorkQueueEmpty ==
  /\ sys.pc = "work"
  /\ queueLock = Free
  /\ Empty
  /\ sys' = Rest("timers")
  /\ UNCHANGED <<queueVars, workVars, state, lockVars, timerVars, recv, calls>>

WorkBorrow ==
  /\ sys.pc = "work"
  /\ SysMayStart
  /\ queueLock = Free
  /\ ~Empty
  /\ queueLock' = "sys"
  /\ sys' = At("send", Front, "none")
  /\ UNCHANGED <<queueVars, workVars, state, stateLock, timerVars, recv, calls>>

WorkBusy ==
  /\ sys.pc = "send"
  /\ stateLock = Free
  /\ state # "NONE"
  /\ queueLock' = Free
  /\ sys' = Rest("timers")
  /\ UNCHANGED <<queueVars, workVars, state, stateLock, timerVars, recv, calls>>

WorkSend ==
  /\ sys.pc = "send"
  /\ stateLock = Free
  /\ state = "NONE"
  /\ sent' = [sent EXCEPT ![sys.work] = @ + 1]
  /\ state' = "WAITING"
  /\ Register
  /\ queueLock' = Free
  /\ sys' = Rest("timers")
  /\ UNCHANGED <<queueVars, retries, stateLock, recv, calls>>

WorkSendFails ==
  /\ sys.pc = "send"
  /\ stateLock = Free
  /\ state = "NONE"
  /\ stateLock' = "sys"
  /\ queueLock' = Free
  /\ sys' = At("drop", sys.work, "CONNECTION_ERROR")
  /\ UNCHANGED <<queueVars, workVars, state, timerVars, recv, calls>>

\* pop_front and call_callback of the three give-up paths, which still hold
\* _state_mutex until the handler returns.
SysPop ==
  /\ sys.pc = "drop"
  /\ PopFront
  /\ sys' = Goto(sys, "callback")
  /\ UNCHANGED <<works, workVars, state, lockVars, timerVars, recv, calls>>

SysCallback ==
  /\ sys.pc = "callback"
  /\ Report(sys)
  /\ stateLock' = Free
  /\ sys' = Rest("timers")
  /\ UNCHANGED <<queueVars, workVars, state, queueLock, timerVars, recv>>

-----------------------------------------------------------------------------

ReceiveCommandAck ==
  \/ \E c \in Command, r \in AckResult: AckBorrow(c, r)
  \/ AckFinal \/ AckUnregister \/ AckPop \/ AckCallback
  \/ AckInProgress \/ AckRaise \/ AckRearm
  \/ AckUnknown

ReceiveTimeout ==
  \/ TimeoutNotWaiting \/ TimeoutWaiting \/ TimeoutQueueEmpty \/ TimeoutResend
  \/ \E o \in {"CONNECTION_ERROR", "TIMEOUT"}: TimeoutGiveUp(o)

DoWork == WorkQueueEmpty \/ WorkBorrow \/ WorkBusy \/ WorkSend \/ WorkSendFails

SystemThread ==
  \/ FireTimer \/ NoTimerExpired
  \/ ReceiveTimeout
  \/ DoWork
  \/ SysPop \/ SysCallback

Next ==
  \/ \E c \in Command: QueueCommandAsync(c)
  \/ ReceiveCommandAck
  \/ SystemThread

\* The threads run, time passes (a timer the loop keeps seeing expires), and
\* the mutexes are not starved.  Commands and acks need never arrive: only the
\* handling of an ack that did arrive is fair.
Fairness ==
  /\ SF_vars(SystemThread)
  /\ SF_vars(FireTimer)
  /\ SF_vars(WorkBorrow)
  /\ SF_vars(ReceiveCommandAck /\ recv.pc # "idle")

Spec     == Init /\ [][Next]_vars
FairSpec == Spec /\ Fairness
-----------------------------------------------------------------------------
(* Properties of every schedule. *)

Position(pcs) == [pc: pcs, work: 0 .. MaxWork,
                  outcome: AckResult \cup Outcomes \cup {"none"}]

\* The variables have their types.
TypeOK ==
  /\ works \in Seq(Command)
  /\ Len(works) <= MaxWork
  /\ popped \in 0 .. Len(works)
  /\ retries \in [Work -> 0 .. Retries]
  /\ sent \in [Work -> Nat]
  /\ state \in States
  /\ queueLock \in Threads \cup {Free}
  /\ stateLock \in Threads \cup {Free}
  /\ timers \subseteq Timer
  /\ cookie \in Timer \cup {NoCookie}
  /\ recv \in Position(RecvPc)
  /\ sys \in Position(SysPc)
  /\ calls \in Seq([work: Work, outcome: Outcomes])

\* The only timer of the component that can be armed is the one _timeout_cookie
\* names, whichever thread armed it last: receive_command_ack and the two
\* handlers of the system thread write the cookie without a common state lock,
\* and a timer the cookie has lost could never be cancelled
\* (mavlink_commands.cpp:150,202-205,258-260,300-302).
CookieNamesTheTimer == timers \subseteq {cookie}

\* State::WAITING is never left without somebody who will end it: a timer is
\* armed, or the system thread is on its way into receive_timeout, whatever
\* the receive thread is doing (mavlink_commands.cpp:221-231,299-302).
NoLostTimeout ==
  state = "WAITING" => timers # {} \/ sys.pc \in {"timeout", "borrow"}

\* The receive thread holds the queue and wants _state_mutex, while the system
\* thread holds _state_mutex and wants the queue.
LockCycle ==
  /\ recv.pc = "ack" /\ queueLock = "recv"
  /\ sys.pc \in {"borrow", "drop"} /\ stateLock = "sys"

\* A thread waits when its next acquisition is of a mutex that is taken: the
\* locations from which every step of the thread is guarded by that mutex.
RecvWaits ==
  \/ recv.pc = "ack" /\ stateLock # Free
  \/ recv.pc = "pop" /\ queueLock # Free

SysWaits ==
  \/ sys.pc \in {"timeout", "send"} /\ stateLock # Free
  \/ sys.pc \in {"work", "borrow", "drop"} /\ queueLock # Free

\* The system thread waits while nobody moves who could let it go on only in
\* the lock-order inversion between receive_command_ack (queue, then state:
\* lines 132,145) and receive_timeout or a failed send (state, then queue:
\* lines 223,231 and 287,295): in particular a receive thread that is done
\* with an ack leaves no mutex behind.
OnlyInversionStops == SysWaits /\ (RecvWaits \/ recv.pc = "idle") => LockCycle

-----------------------------------------------------------------------------
(* Properties of the schedules in which no two handlers overlap. *)

\* "it should not be possible to ever end up in State::WAITING with an empty
\* queue, especially since the state is protected by a mutex"
\* (mavlink_commands.cpp:238-240).
WaitingHasWork == state = "WAITING" => ~Empty

\* TIMEOUT is reported only for a command that was transmitted once and then
\* retried as often as it may be (mavlink_commands.cpp:264-275).
TimeoutMeansRetried ==
  \A i \in DOMAIN calls:
    calls[i].outcome = "TIMEOUT" => sent[calls[i].work] = Retries + 1

Reported(w) == \E i \in DOMAIN calls: calls[i].work = w

\* Every queued command is reported in the end, unless the vehicle answered
\* IN_PROGRESS and then fell silent: receive_timeout ignores that state.
EveryCommandReported ==
  \A w \in Work: w \in Queue ~> (Reported(w) \/ state = "IN_PROGRESS")

\* The promise to the callers, with the results in the order of the callbacks.
Service ==
  INSTANCE CommandService WITH
    Outcome <- Outcomes,
    queued  <- Len(works),
    results <- [i \in DOMAIN calls |-> calls[i].outcome]

\* Each command gets exactly one final result, and results come in the order
\* the commands were queued (mavlink_commands.cpp:58-63,147-153).
ServiceSpec == Service!Spec

AnsweredInOrder == \A i \in DOMAIN calls: calls[i].work = i
=============================================================================

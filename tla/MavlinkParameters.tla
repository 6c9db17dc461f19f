-------------------------- MODULE MavlinkParameters --------------------------
(***************************************************************************)
(* The parameter client of core/mavlink_parameters.cpp: one queue of       *)
(* parameters to set and one of parameters to get, and one _state that     *)
(* says which of the two is waiting for the vehicle.                       *)
(*                                                                         *)
(* User threads queue requests; "recv", the receive thread, runs the three *)
(* message handlers; "sys", the system thread, runs the expired timers and *)
(* do_work.  Every handler holds _state_mutex from start to end and the    *)
(* mutex of a queue in between, so a step again runs from one lock         *)
(* acquisition to the next.  push_back takes two steps, because            *)
(* return_front unlocks a queue without knowing who has locked it.         *)
(***************************************************************************)
EXTENDS Integers, Sequences, FiniteSets

CONSTANTS
  Name,     \* parameter names
  User,     \* user threads
  MaxWork,  \* bound, per kind: requests
  Timer,    \* cookies the TimeoutHandler can hand out
  Patient   \* TRUE: nobody is using a queue when it is returned unborrowed

Kind == {"set", "get"}

NoCookie == "nullptr"

ASSUME ParametersAssumption ==
  /\ MaxWork \in [Kind -> Nat]
  /\ NoCookie \notin Timer
  /\ IsFiniteSet(User) /\ User \cap {"free", "recv", "sys"} = {}
  /\ Patient \in BOOLEAN

VARIABLES
  works,      \* per kind: the names of the requests ever queued, in order
  popped,     \* per kind: how many pop_front has removed
  sent,       \* per kind: the requests handed to send_message
  lock,       \* per kind: holder of LockedQueue::_mutex
  state,      \* _state: "NONE", or the kind that is busy
  stateLock,  \* holder of _state_mutex
  timers,     \* this component's entries in the TimeoutHandler
  cookie,     \* _timeout_cookie
  cache,      \* the names in _cache
  user,       \* user threads: where they are, and with which request
  recv,       \* receive thread: where it is, and with which message
  sys,        \* system thread: where it is, the kind it works on, and the
              \* queues whose front it has borrowed
  calls       \* history, per kind: the results given to the callbacks

queueVars == <<works, popped, sent>>
lockVars  == <<lock, stateLock>>
timerVars == <<timers, cookie>>
vars == <<works, popped, sent, lock, state, stateLock, timers, cookie, cache,
          user, recv, sys, calls>>

Free     == "free"
Messages == {"VALUE", "EXT_VALUE", "EXT_ACCEPTED", "EXT_IN_PROGRESS", "EXT_FAILED"}
UserPc   == {"idle", "wanting", "pushing"}
RecvPc   == {"idle", "match", "pop"}
SysPc    == {"timers", "work", "timeout", "expire", "pop", "borrowSet",
             "borrowGet", "return", "send"}

Empty(k) == popped[k] = Len(works[k])
Front(k) == popped[k] + 1

Resting == [pc |-> "idle", kind |-> "set", name |-> "none"]
Quiet   == [pc |-> "idle", kind |-> "set", message |-> "none", name |-> "none"]
At(pc, kind, has) == [pc |-> pc, kind |-> kind, has |-> has]
Looping == At("timers", "set", {})

Init ==
  /\ works = [k \in Kind |-> <<>>]
  /\ popped = [k \in Kind |-> 0]
  /\ sent = [k \in Kind |-> {}]
  /\ lock = [k \in Kind |-> Free]
  /\ state = "NONE"
  /\ stateLock = Free
  /\ timers = {} /\ cookie = NoCookie
  /\ cache = {}
  /\ user = [u \in User |-> Resting]
  /\ recv = Quiet
  /\ sys = Looping
  /\ calls = [k \in Kind |-> <<>>]

-----------------------------------------------------------------------------
(* Services. *)

Register ==
  \E t \in Timer \ timers: timers' = timers \cup {t} /\ cookie' = t

\* The callback is invoked in place, with the locks held.
Report(k, ok) == calls' = [calls EXCEPT ![k] = Append(@, ok)]

\* pop_front, once the front has been returned: lock again and remove it.
PopFront(k) ==
  /\ lock[k] = Free
  /\ popped' = IF Empty(k) THEN popped ELSE [popped EXCEPT ![k] = @ + 1]

\* The front of the queue is what the received message names.
Matches == ~Empty(state) /\ works[state][Front(state)] = recv.name

-----------------------------------------------------------------------------
(* Faulty variants of the actions below, one per property. *)

\* Sends without arming the timer.
SendRequestUnarmed ==
  /\ sys.pc = "send"
  /\ sent' = [sent EXCEPT ![sys.kind] = @ \cup {Front(sys.kind)}]
  /\ lock' = [lock EXCEPT ![sys.kind] = Free]
  /\ stateLock' = Free
  /\ sys' = Looping
  /\ UNCHANGED <<works, popped, state, timerVars, cache, user, recv, calls>>

\* Leaves the request that was answered in the queue.
RecvPopForgotten ==
  /\ recv.pc = "pop"
  /\ lock[recv.kind] = Free
  /\ stateLock' = Free
  /\ recv' = Quiet
  /\ UNCHANGED <<queueVars, lock, state, timerVars, cache, user, sys, calls>>

\* Stays busy although nothing was sent.
SendFailsKeepsState ==
  /\ sys.pc = "send"
  /\ Report(sys.kind, FALSE)
  /\ lock' = [lock EXCEPT ![sys.kind] = Free]
  /\ sys' = At("pop", sys.kind, {})
  /\ UNCHANGED <<queueVars, state, stateLock, timerVars, cache, user, recv>>

-----------------------------------------------------------------------------
(* User threads: set_param_async and get_param_async.  A name that is too    *)
(* long, or a cached one, is answered at once and changes nothing.           *)

Queueing(k)  == {u \in User: user[u].pc # "idle" /\ user[u].kind = k}
Requested(k) == Len(works[k]) + Cardinality(Queueing(k))

\* The cache is read without a lock, and may be filled by the time of the push.
ParamAsync(u, k, n) ==
  /\ user[u].pc = "idle"
  /\ Requested(k) < MaxWork[k]
  /\ k = "get" => n \notin cache
  /\ user' = [user EXCEPT ![u] = [pc |-> "wanting", kind |-> k, name |-> n]]
  /\ UNCHANGED <<queueVars, lockVars, state, timerVars, cache, recv, sys, calls>>

LockQueue(u) ==
  /\ user[u].pc = "wanting"
  /\ lock[user[u].kind] = Free
  /\ lock' = [lock EXCEPT ![user[u].kind] = u]
  /\ user' = [user EXCEPT ![u].pc = "pushing"]
  /\ UNCHANGED <<queueVars, state, stateLock, timerVars, cache, recv, sys, calls>>

PushBack(u) ==
  /\ user[u].pc = "pushing"
  /\ works' = [works EXCEPT ![user[u].kind] = Append(@, user[u].name)]
  /\ lock' = [lock EXCEPT ![user[u].kind] = Free]
  /\ user' = [user EXCEPT ![u] = Resting]
  /\ UNCHANGED <<popped, sent, state, stateLock, timerVars, cache, recv, sys, calls>>

-----------------------------------------------------------------------------
(* The receive thread.  A vehicle broadcasts PARAM_VALUE when it likes to,   *)
(* and answers may be late or repeated: any message can arrive at any time.  *)

\* The state in which a handler does anything.
Awaited(m) == \/ state = "set" /\ m # "EXT_VALUE"
              \/ state = "get" /\ m \in {"VALUE", "EXT_VALUE"}

Receive(m, n) ==
  /\ recv.pc = "idle"
  /\ stateLock = Free
  /\ Awaited(m)
  /\ stateLock' = "recv"
  /\ recv' = [pc |-> "match", kind |-> state, message |-> m, name |-> n]
  /\ UNCHANGED <<queueVars, lock, state, timerVars, cache, user, sys, calls>>

\* borrow_front, which finds the request that is waiting: another name, ...
OtherName ==
  /\ recv.pc = "match"
  /\ lock[state] = Free
  /\ ~Matches
  /\ stateLock' = Free
  /\ recv' = Quiet
  /\ UNCHANGED <<queueVars, lock, state, timerVars, cache, user, sys, calls>>

\* ... an extended set in progress, for which the timer is refreshed, ...
InProgress ==
  /\ recv.pc = "match"
  /\ lock[state] = Free
  /\ Matches
  /\ recv.message = "EXT_IN_PROGRESS"
  /\ stateLock' = Free
  /\ recv' = Quiet
  /\ UNCHANGED <<queueVars, lock, state, timerVars, cache, user, sys, calls>>

\* ... or its answer.
Answered ==
  /\ recv.pc = "match"
  /\ lock[state] = Free
  /\ Matches
  /\ recv.message # "EXT_IN_PROGRESS"
  /\ Report(state, recv.message # "EXT_FAILED")
  /\ cache' = IF recv.message # "EXT_FAILED" THEN cache \cup {recv.name} ELSE cache
  /\ state' = "NONE"
  /\ timers' = timers \ {cookie}
  /\ recv' = [recv EXCEPT !.pc = "pop"]
  /\ UNCHANGED <<queueVars, lockVars, cookie, user, sys>>

RecvPop ==
  /\ recv.pc = "pop"
  /\ PopFront(recv.kind)
  /\ stateLock' = Free
  /\ recv' = Quiet
  /\ UNCHANGED <<works, sent, lock, state, timerVars, cache, user, sys, calls>>

-----------------------------------------------------------------------------
(* The system thread: TimeoutHandler::run_once, then do_work. *)

FireTimer ==
  /\ sys.pc = "timers"
  /\ \E t \in timers: timers' = timers \ {t}
  /\ sys' = [sys EXCEPT !.pc = "timeout"]
  /\ UNCHANGED <<queueVars, lockVars, state, cookie, cache, user, recv, calls>>

NoTimerExpired ==
  /\ sys.pc = "timers"
  /\ sys' = [sys EXCEPT !.pc = "work"]
  /\ UNCHANGED <<queueVars, lockVars, state, timerVars, cache, user, recv, calls>>

\* receive_timeout: "Strange, a timeout even though we're not doing anything"
TimeoutIdle ==
  /\ sys.pc = "timeout"
  /\ stateLock = Free
  /\ state = "NONE"
  /\ sys' = Looping
  /\ UNCHANGED <<queueVars, lockVars, state, timerVars, cache, user, recv, calls>>

TimeoutBusy ==
  /\ sys.pc = "timeout"
  /\ stateLock = Free
  /\ state # "NONE"
  /\ stateLock' = "sys"
  /\ sys' = At("expire", state, {})
  /\ UNCHANGED <<queueVars, lock, state, timerVars, cache, user, recv, calls>>

\* The request is not repeated.
Expire ==
  /\ sys.pc = "expire"
  /\ lock[state] = Free
  /\ ~Empty(state)
  /\ Report(state, FALSE)
  /\ state' = "NONE"
  /\ sys' = [sys EXCEPT !.pc = "pop"]
  /\ UNCHANGED <<queueVars, lockVars, timerVars, cache, user, recv>>

SysPop ==
  /\ sys.pc = "pop"
  /\ PopFront(sys.kind)
  /\ stateLock' = Free
  /\ sys' = Looping
  /\ UNCHANGED <<works, sent, lock, state, timerVars, cache, user, recv, calls>>

WorkBusy ==
  /\ sys.pc = "work"
  /\ stateLock = Free
  /\ state # "NONE"
  /\ sys' = Looping
  /\ UNCHANGED <<queueVars, lockVars, state, timerVars, cache, user, recv, calls>>

WorkIdle ==
  /\ sys.pc = "work"
  /\ stateLock = Free
  /\ state = "NONE"
  /\ stateLock' = "sys"
  /\ sys' = [sys EXCEPT !.pc = "borrowSet"]
  /\ UNCHANGED <<queueVars, lock, state, timerVars, cache, user, recv, calls>>

\* borrow_front keeps the lock only if there is something to borrow.
Borrow(k) ==
  /\ lock[k] = Free
  /\ lock' = IF Empty(k) THEN lock ELSE [lock EXCEPT ![k] = "sys"]

BorrowSet ==
  /\ sys.pc = "borrowSet"
  /\ Borrow("set")
  /\ sys' = At("borrowGet", "set", IF Empty("set") THEN {} ELSE {"set"})
  /\ UNCHANGED <<queueVars, state, stateLock, timerVars, cache, user, recv, calls>>

NothingToDo ==
  /\ sys.pc = "borrowGet"
  /\ lock["get"] = Free
  /\ Empty("get") /\ sys.has = {}
  /\ stateLock' = Free
  /\ sys' = Looping
  /\ UNCHANGED <<queueVars, lock, state, timerVars, cache, user, recv, calls>>

\* What is to be set goes first.
BorrowGet ==
  /\ sys.pc = "borrowGet"
  /\ Borrow("get")
  /\ LET has == sys.has \cup IF Empty("get") THEN {} ELSE {"get"}
     IN  /\ has # {}
         /\ sys' = At("return", IF "set" \in has THEN "set" ELSE "get", has)
  /\ UNCHANGED <<queueVars, state, stateLock, timerVars, cache, user, recv, calls>>

\* return_front on the other queue, borrowed or not: "We don't know if the mutex
\* is locked", and it is unlocked whoever holds it.
ReturnOther ==
  /\ sys.pc = "return"
  /\ LET other == IF sys.kind = "set" THEN "get" ELSE "set"
     IN  /\ Patient => lock[other] \in {Free, "sys"}
         /\ lock' = [lock EXCEPT ![other] = Free]
  /\ state' = sys.kind
  /\ sys' = At("send", sys.kind, {sys.kind})
  /\ UNCHANGED <<queueVars, stateLock, timerVars, cache, user, recv, calls>>

SendRequest ==
  /\ sys.pc = "send"
  /\ sent' = [sent EXCEPT ![sys.kind] = @ \cup {Front(sys.kind)}]
  /\ Register
  /\ lock' = [lock EXCEPT ![sys.kind] = Free]
  /\ stateLock' = Free
  /\ sys' = Looping
  /\ UNCHANGED <<works, popped, state, cache, user, recv, calls>>

SendFails ==
  /\ sys.pc = "send"
  /\ Report(sys.kind, FALSE)
  /\ state' = "NONE"
  /\ lock' = [lock EXCEPT ![sys.kind] = Free]
  /\ sys' = At("pop", sys.kind, {})
  /\ UNCHANGED <<queueVars, stateLock, timerVars, cache, user, recv>>

-----------------------------------------------------------------------------

UserThread(u) == LockQueue(u) \/ PushBack(u)

Handler == OtherName \/ InProgress \/ Answered \/ RecvPop

DoWork ==
  \/ WorkBusy \/ WorkIdle \/ BorrowSet \/ NothingToDo \/ BorrowGet
  \/ ReturnOther \/ SendRequest \/ SendFails

SystemThread ==
  \/ FireTimer \/ NoTimerExpired
  \/ TimeoutIdle \/ TimeoutBusy \/ Expire \/ SysPop
  \/ DoWork

Next ==
  \/ \E u \in User: UserThread(u) \/ \E k \in Kind, n \in Name: ParamAsync(u, k, n)
  \/ \E m \in Messages, n \in Name: Receive(m, n)
  \/ Handler
  \/ SystemThread

\* The threads run, a timer that is no longer refreshed expires, and the
\* mutexes are not starved.  Messages need not arrive.
Fairness ==
  /\ SF_vars(SystemThread) /\ SF_vars(FireTimer)
  /\ SF_vars(Handler)
  /\ \A u \in User: SF_vars(UserThread(u))

Spec     == Init /\ [][Next]_vars
FairSpec == Spec /\ Fairness
-----------------------------------------------------------------------------
(* Properties. *)

Names == Name \cup {"none"}

\* The variables have their types; no request is answered twice.
TypeOK ==
  /\ works \in [Kind -> Seq(Name)]
  /\ popped \in [Kind -> Nat]
  /\ sent \in [Kind -> SUBSET Nat]
  /\ \A k \in Kind: popped[k] <= Len(works[k]) /\ Len(calls[k]) <= Len(works[k])
  /\ lock \in [Kind -> User \cup {Free, "recv", "sys"}]
  /\ state \in Kind \cup {"NONE"}
  /\ stateLock \in {Free, "recv", "sys"}
  /\ timers \subseteq Timer
  /\ cookie \in Timer \cup {NoCookie}
  /\ cache \subseteq Name
  /\ user \in [User -> [pc: UserPc, kind: Kind, name: Names]]
  /\ recv \in [pc: RecvPc, kind: Kind, message: Messages \cup {"none"}, name: Names]
  /\ sys \in [pc: SysPc, kind: Kind, has: SUBSET Kind]
  /\ calls \in [Kind -> Seq(BOOLEAN)]

\* The threads that are inside the critical section of queue k.
Inside(k) == {u \in User: user[u].pc = "pushing" /\ user[u].kind = k}
               \cup IF k \in sys.has THEN {"sys"} ELSE {}

\* "This allows to get access to the front and keep others from using it"
\* (locked_queue.h:22-23): nobody else is in a queue that a thread is using.
Exclusive == \A k \in Kind: \A t1, t2 \in Inside(k): t1 = t2

\* The thread that holds the mutex a thread waits for: Free if that mutex is
\* free, or if the thread waits for none.  An idle receive thread holds nothing
\* and has a message to take up when _state_mutex is free.
WaitsFor(t) ==
  CASE t \in User /\ user[t].pc = "wanting"         -> lock[user[t].kind]
    [] t = "recv" /\ recv.pc = "match"              -> lock[state]
    [] t = "recv" /\ recv.pc = "pop"                -> lock[recv.kind]
    [] t = "sys" /\ sys.pc \in {"timeout", "work"}  -> stateLock
    [] t = "sys" /\ sys.pc = "expire"               -> lock[state]
    [] t = "sys" /\ sys.pc = "pop"                  -> lock[sys.kind]
    [] t = "sys" /\ sys.pc = "borrowSet"            -> lock["set"]
    [] t = "sys" /\ sys.pc = "borrowGet"            -> lock["get"]
    [] OTHER                                        -> Free

\* No threads wait for each other in a circle, although do_work borrows two
\* queues under _state_mutex and unlocks one without knowing whose it is
\* (mavlink_parameters.cpp:284-400): whoever waits is two threads at most away
\* from one that does not.
NoCircle == \A t \in User \cup {"recv", "sys"}: WaitsFor(WaitsFor(WaitsFor(t))) = Free

\* While the client is busy, the request that keeps it busy is the front of its
\* queue, it has been sent, and a timer will end it or is about to: whatever
\* answers arrive, late or twice, and whoever queues what
\* (mavlink_parameters.cpp:115-244,425-466).
BusyIsUnderWay ==
  state # "NONE" /\ sys.pc # "send" =>
    /\ ~Empty(state) /\ Front(state) \in sent[state]
    /\ timers # {} \/ sys.pc \in {"timeout", "expire"}

\* A request is reported as successful only after it was sent: an answer is
\* never taken for a request that still waits in the queue.
SuccessMeansSent ==
  \A k \in Kind: \A i \in DOMAIN calls[k]: calls[k][i] => i \in sent[k]

\* Each queue answers its requests once and in order: it is a service like the
\* command sender's.
SetService ==
  INSTANCE CommandService WITH
    MaxWork <- MaxWork["set"], Outcome <- BOOLEAN,
    queued <- Len(works["set"]), results <- calls["set"]
GetService ==
  INSTANCE CommandService WITH
    MaxWork <- MaxWork["get"], Outcome <- BOOLEAN,
    queued <- Len(works["get"]), results <- calls["get"]
Services == SetService!Spec /\ GetService!Spec

\* Every request is queued and answered in the end, also if the vehicle is
\* silent: time and again nothing is left to do (requests are bounded).
EveryRequestAnswered ==
  []<>(/\ \A u \in User: user[u].pc = "idle"
       /\ \A k \in Kind: Len(calls[k]) = Len(works[k]))
=============================================================================

----------------------- MODULE MavlinkParameters_proofs -----------------------
(***************************************************************************)
(* The safety of MavlinkParameters, for any names, user threads, timers    *)
(* and bounds.  Only Exclusive needs Patient.                              *)
(***************************************************************************)
EXTENDS MavlinkParameters, FiniteSetTheorems, TLAPS

\* A user thread that is queueing a request knows which.
NameInv == \A u \in User: user[u].pc # "idle" => user[u].name \in Name

\* Where the system thread holds _state_mutex, and where it may hold a queue.
Working   == {"expire", "pop", "borrowSet", "borrowGet", "return", "send"}
Borrowing == {"borrowGet", "return", "send"}

\* Who holds _state_mutex; the other thread is then between two handlers.
StateLockInv ==
  /\ stateLock = "recv" <=> recv.pc # "idle"
  /\ stateLock = "sys" <=> sys.pc \in Working

\* What the location of a thread says of _state and of the queue it works on.
FrontInv ==
  /\ recv.pc = "match" => recv.kind = state
  /\ recv.pc = "pop" => state = "NONE" /\ ~Empty(recv.kind)
  /\ sys.pc \in {"expire", "send"} => sys.kind = state
  /\ sys.pc = "pop" => state = "NONE" /\ ~Empty(sys.kind)
  /\ sys.pc \in {"borrowSet", "borrowGet", "return"} => state = "NONE"

\* What the system thread has borrowed.
BorrowInv ==
  /\ \A k \in sys.has: ~Empty(k)
  /\ sys.pc \notin Borrowing => sys.has = {}
  /\ sys.pc = "return" => sys.kind \in sys.has
  /\ sys.pc = "send" => sys.has = {sys.kind}

\* The requests that have been answered: those removed, and the one that is
\* about to be.
Answers(k) ==
  popped[k] + IF (recv.pc = "pop" /\ recv.kind = k) \/ (sys.pc = "pop" /\ sys.kind = k)
              THEN 1 ELSE 0
CallsInv == \A k \in Kind: Len(calls[k]) = Answers(k)

\* The lock of a queue is held by the thread that uses it.
QueueLockInv ==
  Patient => /\ \A u \in User: user[u].pc = "pushing" => lock[user[u].kind] = u
             /\ \A k \in sys.has: lock[k] = "sys"

\* The bound on the requests counts those that are being queued.
RequestInv == \A k \in Kind: Requested(k) <= MaxWork[k]

IInv ==
  /\ TypeOK /\ NameInv /\ StateLockInv /\ FrontInv /\ BorrowInv /\ CallsInv
  /\ BusyIsUnderWay /\ SuccessMeansSent

-----------------------------------------------------------------------------

LEMMA InitIInv == Init => IInv
<1> SUFFICES ASSUME Init PROVE IInv
  OBVIOUS
<1> USE DEF Init, Resting, Quiet, Looping, At, Free, Kind
<1>1. TypeOK
  <2>1. /\ works \in [Kind -> Seq(Name)] /\ calls \in [Kind -> Seq(BOOLEAN)]
        /\ popped \in [Kind -> Nat] /\ sent \in [Kind -> SUBSET Nat]
        /\ \A k \in Kind: popped[k] <= Len(works[k]) /\ Len(calls[k]) <= Len(works[k])
    OBVIOUS
  <2>2. user \in [User -> [pc: UserPc, kind: Kind, name: Names]]
    BY DEF UserPc, Names
  <2>3. recv \in [pc: RecvPc, kind: Kind, message: Messages \cup {"none"}, name: Names]
    BY DEF RecvPc, Names
  <2>4. sys \in [pc: SysPc, kind: Kind, has: SUBSET Kind]
    BY DEF SysPc
  <2>5. /\ lock \in [Kind -> User \cup {Free, "recv", "sys"}]
        /\ state \in Kind \cup {"NONE"} /\ stateLock \in {Free, "recv", "sys"}
        /\ timers \subseteq Timer /\ cookie \in Timer \cup {NoCookie}
        /\ cache \subseteq Name
    OBVIOUS
  <2> HIDE DEF Init
  <2> QED
    BY <2>1, <2>2, <2>3, <2>4, <2>5 DEF TypeOK
<1>2. NameInv /\ StateLockInv /\ FrontInv /\ BorrowInv
  BY DEF NameInv, StateLockInv, FrontInv, BorrowInv, Working, Borrowing
<1>3. CallsInv /\ SuccessMeansSent
  BY DEF CallsInv, Answers, SuccessMeansSent
<1>4. BusyIsUnderWay
  BY DEF BusyIsUnderWay
<1> QED
  BY <1>1, <1>2, <1>3, <1>4 DEF IInv

(* Where the system thread can be put. *)
SysPosition == [pc: SysPc, kind: Kind, has: SUBSET Kind]

LEMMA AtTyped ==
  ASSUME NEW pc \in SysPc, NEW kind \in Kind, NEW has \in SUBSET Kind
  PROVE  /\ At(pc, kind, has) \in SysPosition
         /\ At(pc, kind, has).pc = pc
         /\ At(pc, kind, has).kind = kind
         /\ At(pc, kind, has).has = has
BY DEF At, SysPosition

LEMMA GotoTyped ==
  ASSUME NEW pc \in SysPc, NEW t \in SysPosition
  PROVE  /\ [t EXCEPT !.pc = pc] \in SysPosition
         /\ [t EXCEPT !.pc = pc].pc = pc
         /\ [t EXCEPT !.pc = pc].kind = t.kind
         /\ [t EXCEPT !.pc = pc].has = t.has
BY DEF SysPosition

LEMMA LoopingTyped ==
  Looping \in SysPosition /\ Looping.pc = "timers" /\ Looping.has = {}
BY AtTyped DEF Looping, SysPc, Kind

(* A callback adds one result to one queue. *)
LEMMA ReportTyped ==
  ASSUME NEW c \in [Kind -> Seq(BOOLEAN)], NEW k \in Kind, NEW ok \in BOOLEAN,
         NEW d, d = [c EXCEPT ![k] = Append(@, ok)]
  PROVE  /\ d \in [Kind -> Seq(BOOLEAN)]
         /\ Len(d[k]) = Len(c[k]) + 1
         /\ d[k][Len(c[k]) + 1] = ok
         /\ \A i \in 1 .. Len(c[k]): d[k][i] = c[k][i]
         /\ \A j \in Kind: j # k => d[j] = c[j]
<1>1. c[k] \in Seq(BOOLEAN) /\ d[k] = Append(c[k], ok)
  OBVIOUS
<1>2. /\ d[k] \in Seq(BOOLEAN) /\ Len(d[k]) = Len(c[k]) + 1
      /\ d[k][Len(c[k]) + 1] = ok
      /\ \A i \in 1 .. Len(c[k]): d[k][i] = c[k][i]
  BY <1>1
<1>3. \A j \in Kind: j # k => d[j] = c[j]
  OBVIOUS
<1> QED
  BY <1>2, <1>3

-----------------------------------------------------------------------------
(* TypeOK in three parts, of which most steps disturb one or two. *)
QueueTypes ==
  /\ works \in [Kind -> Seq(Name)]
  /\ popped \in [Kind -> Nat]
  /\ sent \in [Kind -> SUBSET Nat]
  /\ calls \in [Kind -> Seq(BOOLEAN)]
  /\ \A k \in Kind: popped[k] <= Len(works[k]) /\ Len(calls[k]) <= Len(works[k])

SharedTypes ==
  /\ lock \in [Kind -> User \cup {Free, "recv", "sys"}]
  /\ state \in Kind \cup {"NONE"}
  /\ stateLock \in {Free, "recv", "sys"}
  /\ timers \subseteq Timer
  /\ cookie \in Timer \cup {NoCookie}
  /\ cache \subseteq Name

UserPosition == [pc: UserPc, kind: Kind, name: Names]
RecvPosition == [pc: RecvPc, kind: Kind, message: Messages \cup {"none"}, name: Names]

ThreadTypes ==
  /\ user \in [User -> UserPosition]
  /\ recv \in RecvPosition
  /\ sys \in SysPosition

LEMMA TypeParts == TypeOK <=> QueueTypes /\ SharedTypes /\ ThreadTypes
BY DEF TypeOK, QueueTypes, SharedTypes, ThreadTypes, UserPosition, RecvPosition, SysPosition

-----------------------------------------------------------------------------
(* The user threads: a queue may grow, and nothing else changes but where    *)
(* they are and what they lock.                                              *)

Growth ==
  /\ UNCHANGED <<popped, sent, state, stateLock, timers, cookie, cache, recv, sys, calls>>
  /\ \A k \in Kind: /\ Len(works[k]) <= Len(works'[k])
                    /\ \A i \in 1 .. Len(works[k]): works'[k][i] = works[k][i]
  /\ works' \in [Kind -> Seq(Name)]
  /\ lock' \in [Kind -> User \cup {Free, "recv", "sys"}]
  /\ user' \in [User -> UserPosition]
  /\ NameInv'

LEMMA ParamAsyncGrowth ==
  ASSUME TypeOK, NameInv, NEW u \in User, NEW k \in Kind, NEW n \in Name,
         ParamAsync(u, k, n)
  PROVE  Growth
<1> DEFINE r == [pc |-> "wanting", kind |-> k, name |-> n]
<1>1. r \in UserPosition /\ r.name \in Name
  BY DEF UserPosition, UserPc, Names
<1>2. user' = [user EXCEPT ![u] = r] /\ user \in [User -> UserPosition]
  BY DEF ParamAsync, TypeOK, UserPosition
<1> HIDE DEF r
<1>3. user' \in [User -> UserPosition] /\ NameInv'
  BY <1>1, <1>2 DEF NameInv
<1>4. /\ UNCHANGED <<works, lock>>
      /\ UNCHANGED <<popped, sent, state, stateLock, timers, cookie, cache, recv, sys, calls>>
  BY DEF ParamAsync, queueVars, lockVars, timerVars
<1> QED
  BY <1>3, <1>4, SMTT(30) DEF Growth, TypeOK

LEMMA LockQueueGrowth ==
  ASSUME TypeOK, NameInv, NEW u \in User, LockQueue(u)
  PROVE  Growth
<1> DEFINE r == [user[u] EXCEPT !.pc = "pushing"]
<1>0. user \in [User -> UserPosition] /\ user[u] \in UserPosition
  BY DEF TypeOK, UserPosition
<1>1. r \in UserPosition /\ r.name \in Name
  BY <1>0 DEF UserPosition, UserPc, LockQueue, NameInv
<1>2. user' = [user EXCEPT ![u] = r]
  BY <1>0 DEF LockQueue
<1> HIDE DEF r
<1>3. user' \in [User -> UserPosition] /\ NameInv'
  BY <1>0, <1>1, <1>2 DEF NameInv
<1>4. UNCHANGED <<works, popped, sent, state, stateLock, timers, cookie, cache, recv, sys, calls>>
  BY DEF LockQueue, queueVars, timerVars
<1>5. lock' \in [Kind -> User \cup {Free, "recv", "sys"}]
  BY <1>0 DEF LockQueue, TypeOK, UserPosition
<1> QED
  BY <1>3, <1>4, <1>5 DEF Growth, TypeOK

LEMMA PushBackGrowth ==
  ASSUME TypeOK, NameInv, NEW u \in User, PushBack(u)
  PROVE  Growth
<1> DEFINE kind == user[u].kind
           name == user[u].name
<1>0. /\ user \in [User -> UserPosition] /\ works \in [Kind -> Seq(Name)]
      /\ lock \in [Kind -> User \cup {Free, "recv", "sys"}]
  BY DEF TypeOK, UserPosition
<1>1. kind \in Kind /\ name \in Name
  BY <1>0 DEF UserPosition, PushBack, NameInv
<1>2. /\ works' = [works EXCEPT ![kind] = Append(works[kind], name)]
      /\ lock' = [lock EXCEPT ![kind] = Free]
      /\ user' = [user EXCEPT ![u] = Resting]
  BY DEF PushBack
<1>3. Resting \in UserPosition /\ Resting.pc = "idle"
  BY DEF Resting, UserPosition, UserPc, Kind, Names
<1> HIDE DEF kind, name
<1>4. user' \in [User -> UserPosition] /\ NameInv'
  BY <1>0, <1>2, <1>3 DEF NameInv
<1>5. ASSUME NEW k \in Kind
      PROVE  /\ works'[k] \in Seq(Name)
             /\ Len(works[k]) <= Len(works'[k])
             /\ \A i \in 1 .. Len(works[k]): works'[k][i] = works[k][i]
  <2>1. works[k] \in Seq(Name)
    BY <1>0
  <2>2. CASE k = kind
    <3>1. works'[k] = Append(works[k], name)
      BY <1>0, <1>2, <2>2
    <3> QED
      BY <1>1, <2>1, <3>1
  <2>3. CASE k # kind
    <3>1. works'[k] = works[k]
      BY <1>0, <1>2, <2>3
    <3> QED
      BY <2>1, <3>1
  <2> QED
    BY <2>2, <2>3
<1>6. works' \in [Kind -> Seq(Name)]
  BY <1>0, <1>1, <1>2, <1>5
<1>7. lock' \in [Kind -> User \cup {Free, "recv", "sys"}]
  BY <1>0, <1>2
<1>8. UNCHANGED <<popped, sent, state, stateLock, timers, cookie, cache, recv, sys, calls>>
  BY DEF PushBack, timerVars
<1> QED
  BY <1>4, <1>5, <1>6, <1>7, <1>8 DEF Growth

UserStep ==
  \E u \in User: UserThread(u) \/ \E k \in Kind, n \in Name: ParamAsync(u, k, n)

LEMMA UserStepGrowth ==
  ASSUME TypeOK, NameInv, UserStep
  PROVE  Growth
BY ParamAsyncGrowth, LockQueueGrowth, PushBackGrowth DEF UserStep, UserThread

LEMMA GrowthPreservesIInv ==
  ASSUME IInv, Growth
  PROVE  IInv'
<1>0. /\ TypeOK /\ NameInv /\ StateLockInv /\ FrontInv /\ BorrowInv /\ CallsInv
      /\ BusyIsUnderWay /\ SuccessMeansSent
  BY DEF IInv
<1>1. QueueTypes /\ SharedTypes /\ ThreadTypes
  BY <1>0, TypeParts
<1>2. QueueTypes'
  BY <1>1 DEF Growth, QueueTypes
<1>3. SharedTypes' /\ ThreadTypes'
  BY <1>1 DEF Growth, SharedTypes, ThreadTypes
<1>4. TypeOK'
  BY <1>2, <1>3, TypeParts, PTL
<1>5. \A k \in Kind: ~Empty(k) => ~Empty(k)'
  BY <1>1 DEF Growth, QueueTypes, Empty
<1>6. StateLockInv' /\ FrontInv' /\ BorrowInv'
  <2>1. recv.kind \in Kind /\ sys.kind \in Kind /\ sys.has \subseteq Kind
    BY <1>1 DEF ThreadTypes, RecvPosition, SysPosition
  <2> QED
    BY <1>0, <1>5, <2>1 DEF Growth, StateLockInv, FrontInv, BorrowInv
<1>7. CallsInv' /\ SuccessMeansSent'
  BY <1>0 DEF Growth, CallsInv, Answers, SuccessMeansSent
<1>8. BusyIsUnderWay'
  BY <1>0, <1>1, <1>5 DEF Growth, SharedTypes, BusyIsUnderWay, Front
<1>9. NameInv'
  BY DEF Growth
<1> QED
  BY <1>4, <1>6, <1>7, <1>8, <1>9 DEF IInv

-----------------------------------------------------------------------------
(* The two steps that end a request: its result is reported, and then it is  *)
(* removed from the queue.                                                   *)

LEMMA ReportStep ==
  ASSUME QueueTypes, CallsInv, SuccessMeansSent,
         NEW k \in Kind, NEW ok \in BOOLEAN, Report(k, ok), UNCHANGED queueVars,
         ~Empty(k), Answers(k) = popped[k], ok => Front(k) \in sent[k]
  PROVE  /\ QueueTypes' /\ SuccessMeansSent'
         /\ Len(calls'[k]) = popped[k] + 1
         /\ \A j \in Kind: j # k => calls'[j] = calls[j]
<1>1. UNCHANGED <<works, popped, sent>>
  BY DEF queueVars
<1>2. /\ calls' \in [Kind -> Seq(BOOLEAN)]
      /\ Len(calls'[k]) = Len(calls[k]) + 1
      /\ calls'[k][Len(calls[k]) + 1] = ok
      /\ \A i \in 1 .. Len(calls[k]): calls'[k][i] = calls[k][i]
      /\ \A j \in Kind: j # k => calls'[j] = calls[j]
  BY ReportTyped DEF Report, QueueTypes
<1>3. Len(calls[k]) = popped[k] /\ popped[k] \in Nat
  BY DEF CallsInv, QueueTypes
<1>4. popped[k] + 1 <= Len(works[k])
  <2>1. Len(works[k]) \in Nat /\ popped[k] <= Len(works[k]) /\ popped[k] # Len(works[k])
    BY DEF QueueTypes, Empty
  <2> QED
    BY <1>3, <2>1
<1>5. QueueTypes'
  <2>1. \A j \in Kind: Len(calls'[j]) <= Len(works[j])
    BY <1>2, <1>3, <1>4 DEF QueueTypes
  <2> QED
    BY <1>1, <1>2, <2>1 DEF QueueTypes
<1>6. ASSUME NEW j \in Kind, NEW i \in DOMAIN calls'[j], calls'[j][i]
      PROVE  i \in sent[j]
  <2>1. CASE j # k
    BY <1>2, <1>6, <2>1 DEF SuccessMeansSent
  <2>2. CASE j = k /\ i # popped[k] + 1
    <3>1. i \in 1 .. Len(calls[k])
      BY <1>2, <1>3, <1>6, <2>2
    <3>2. i \in DOMAIN calls[k] /\ calls[k][i]
      BY <1>2, <1>6, <2>2, <3>1 DEF QueueTypes
    <3> QED
      BY <2>2, <3>2 DEF SuccessMeansSent
  <2>3. CASE j = k /\ i = popped[k] + 1
    BY <1>2, <1>3, <1>6, <2>3 DEF Front
  <2> QED
    BY <2>1, <2>2, <2>3
<1>7. SuccessMeansSent'
  BY <1>1, <1>6 DEF SuccessMeansSent
<1> QED
  BY <1>2, <1>3, <1>5, <1>7

LEMMA PopStep ==
  ASSUME QueueTypes, SuccessMeansSent, NEW k \in Kind, PopFront(k), ~Empty(k),
         UNCHANGED <<works, sent, calls>>
  PROVE  /\ QueueTypes' /\ SuccessMeansSent'
         /\ popped' = [popped EXCEPT ![k] = @ + 1]
         /\ \A j \in Kind: j # k => (Empty(j) <=> Empty(j)')
<1>1. popped' = [popped EXCEPT ![k] = @ + 1] /\ popped \in [Kind -> Nat]
  BY DEF PopFront, QueueTypes
<1>2. popped[k] + 1 <= Len(works[k])
  <2>1. /\ Len(works[k]) \in Nat /\ popped[k] \in Nat
        /\ popped[k] <= Len(works[k]) /\ popped[k] # Len(works[k])
    BY DEF QueueTypes, Empty
  <2> QED
    BY <2>1
<1>3. QueueTypes'
  BY <1>1, <1>2 DEF QueueTypes
<1>4. SuccessMeansSent'
  BY DEF SuccessMeansSent
<1>5. \A j \in Kind: j # k => (Empty(j) <=> Empty(j)')
  BY <1>1 DEF Empty
<1> QED
  BY <1>1, <1>3, <1>4, <1>5

-----------------------------------------------------------------------------
(* The receive thread. *)

LEMMA ReceivePreservesIInv ==
  ASSUME IInv, NEW m \in Messages, NEW n \in Name, Receive(m, n)
  PROVE  IInv'
<1>0. /\ TypeOK /\ NameInv /\ StateLockInv /\ FrontInv /\ BorrowInv /\ CallsInv
      /\ BusyIsUnderWay /\ SuccessMeansSent
  BY DEF IInv
<1>1. QueueTypes /\ SharedTypes /\ ThreadTypes
  BY <1>0, TypeParts
<1>2. /\ recv' = [pc |-> "match", kind |-> state, message |-> m, name |-> n]
      /\ stateLock' = "recv" /\ stateLock = Free /\ recv.pc = "idle"
      /\ state \in Kind
      /\ UNCHANGED <<works, popped, sent, lock, state, timers, cookie, cache, user, sys, calls>>
  BY DEF Receive, Awaited, queueVars, timerVars, Kind
<1>3. recv' \in RecvPosition /\ recv'.pc = "match" /\ recv'.kind = state
  BY <1>2 DEF RecvPosition, RecvPc, Names
<1>4. TypeOK'
  <2>1. QueueTypes' /\ SharedTypes' /\ ThreadTypes'
    BY <1>1, <1>2, <1>3 DEF QueueTypes, SharedTypes, ThreadTypes
  <2> QED
    BY <2>1, TypeParts, PTL
<1>5. NameInv' /\ StateLockInv' /\ FrontInv' /\ BorrowInv'
  BY <1>0, <1>2, <1>3 DEF NameInv, StateLockInv, FrontInv, BorrowInv, Empty, Free
<1>6. CallsInv' /\ SuccessMeansSent' /\ BusyIsUnderWay'
  BY <1>0, <1>2, <1>3
  DEF CallsInv, Answers, SuccessMeansSent, BusyIsUnderWay, Empty, Front
<1> QED
  BY <1>4, <1>5, <1>6 DEF IInv

LEMMA QuietTyped == Quiet \in RecvPosition /\ Quiet.pc = "idle"
BY DEF Quiet, RecvPosition, RecvPc, Kind, Names

LEMMA NoAnswerPreservesIInv ==
  ASSUME IInv, OtherName \/ InProgress
  PROVE  IInv'
<1>0. /\ TypeOK /\ NameInv /\ StateLockInv /\ FrontInv /\ BorrowInv /\ CallsInv
      /\ BusyIsUnderWay /\ SuccessMeansSent
  BY DEF IInv
<1>1. QueueTypes /\ SharedTypes /\ ThreadTypes
  BY <1>0, TypeParts
<1>2. /\ recv' = Quiet /\ stateLock' = Free /\ recv.pc = "match"
      /\ UNCHANGED <<works, popped, sent, lock, state, timers, cookie, cache, user, sys, calls>>
  BY DEF OtherName, InProgress, queueVars, timerVars
<1>3. TypeOK'
  <2>1. QueueTypes' /\ SharedTypes' /\ ThreadTypes'
    BY <1>1, <1>2, QuietTyped DEF QueueTypes, SharedTypes, ThreadTypes
  <2> QED
    BY <2>1, TypeParts, PTL
<1>4. NameInv' /\ StateLockInv' /\ FrontInv' /\ BorrowInv'
  BY <1>0, <1>2, QuietTyped DEF NameInv, StateLockInv, FrontInv, BorrowInv, Empty, Free
<1>5. CallsInv' /\ SuccessMeansSent' /\ BusyIsUnderWay'
  BY <1>0, <1>2, QuietTyped
  DEF CallsInv, Answers, SuccessMeansSent, BusyIsUnderWay, Empty, Front
<1> QED
  BY <1>3, <1>4, <1>5 DEF IInv

LEMMA AnsweredPreservesIInv ==
  ASSUME IInv, Answered
  PROVE  IInv'
<1>0. /\ TypeOK /\ NameInv /\ StateLockInv /\ FrontInv /\ BorrowInv /\ CallsInv
      /\ BusyIsUnderWay /\ SuccessMeansSent
  BY DEF IInv
<1>1. QueueTypes /\ SharedTypes /\ ThreadTypes
  BY <1>0, TypeParts
<1>2. /\ recv' = [recv EXCEPT !.pc = "pop"] /\ recv.pc = "match" /\ state' = "NONE"
      /\ recv.message # "EXT_IN_PROGRESS"
      /\ UNCHANGED <<works, popped, sent, lock, stateLock, cookie, user, sys>>
      /\ timers' = timers \ {cookie} /\ Matches
  BY DEF Answered, queueVars, lockVars
<1>3. /\ recv' \in RecvPosition /\ recv'.pc = "pop" /\ recv'.kind = recv.kind
      /\ recv.kind \in Kind /\ recv.name \in Names
  BY <1>1, <1>2 DEF ThreadTypes, RecvPosition, RecvPc
<1>4. stateLock = "recv" /\ recv.kind = state /\ sys.pc \notin Working
  BY <1>0, <1>2 DEF StateLockInv, FrontInv
<1>5. Front(recv.kind) \in sent[recv.kind] /\ ~Empty(recv.kind)
  BY <1>0, <1>3, <1>4 DEF BusyIsUnderWay, Working, Kind
<1>6. Answers(recv.kind) = popped[recv.kind]
  BY <1>1, <1>2, <1>3, <1>4 DEF Answers, Working, QueueTypes
<1>7. /\ QueueTypes' /\ SuccessMeansSent'
      /\ Len(calls'[recv.kind]) = popped[recv.kind] + 1
      /\ \A j \in Kind: j # recv.kind => calls'[j] = calls[j]
  <2> DEFINE ok == recv.message # "EXT_FAILED"
  <2>1. Report(recv.kind, ok) /\ UNCHANGED queueVars /\ ok \in BOOLEAN
    BY <1>4 DEF Answered
  <2> HIDE DEF ok
  <2> QED
    BY <1>0, <1>1, <1>3, <1>5, <1>6, <2>1, ReportStep
<1>8. TypeOK'
  <2>1. cache' \subseteq Name
    <3>1. recv.name \in Name
      BY <1>1, <1>2, <1>3, <1>4 DEF Matches, QueueTypes, Empty, Front
    <3> QED
      BY <1>1, <3>1 DEF Answered, SharedTypes
  <2>2. SharedTypes' /\ ThreadTypes'
    BY <1>1, <1>2, <1>3, <2>1 DEF SharedTypes, ThreadTypes
  <2> QED
    BY <1>7, <2>2, TypeParts, PTL
<1>9. NameInv' /\ StateLockInv' /\ FrontInv' /\ BorrowInv'
  BY <1>0, <1>2, <1>3, <1>4, <1>5
  DEF NameInv, StateLockInv, FrontInv, BorrowInv, Empty, Working
<1>10. CallsInv' /\ BusyIsUnderWay'
  BY <1>0, <1>1, <1>2, <1>3, <1>4, <1>7
  DEF CallsInv, Answers, BusyIsUnderWay, QueueTypes, Working
<1> QED
  BY <1>7, <1>8, <1>9, <1>10 DEF IInv

LEMMA RecvPopPreservesIInv ==
  ASSUME IInv, RecvPop
  PROVE  IInv'
<1>0. /\ TypeOK /\ NameInv /\ StateLockInv /\ FrontInv /\ BorrowInv /\ CallsInv
      /\ BusyIsUnderWay /\ SuccessMeansSent
  BY DEF IInv
<1>1. QueueTypes /\ SharedTypes /\ ThreadTypes
  BY <1>0, TypeParts
<1>2. /\ recv.pc = "pop" /\ recv' = Quiet /\ stateLock' = Free /\ PopFront(recv.kind)
      /\ UNCHANGED <<works, sent, lock, state, timers, cookie, cache, user, sys, calls>>
  BY DEF RecvPop, timerVars
<1>3. /\ state = "NONE" /\ recv.kind \in Kind /\ ~Empty(recv.kind)
      /\ stateLock = "recv" /\ sys.pc \notin Working /\ sys.has = {}
  BY <1>0, <1>1, <1>2
  DEF ThreadTypes, RecvPosition, FrontInv, StateLockInv, BorrowInv, Working, Borrowing
<1>4. /\ QueueTypes' /\ SuccessMeansSent'
      /\ popped' = [popped EXCEPT ![recv.kind] = @ + 1]
  BY <1>0, <1>1, <1>2, <1>3, PopStep
<1>5. TypeOK'
  <2>1. SharedTypes' /\ ThreadTypes'
    BY <1>1, <1>2, QuietTyped DEF SharedTypes, ThreadTypes
  <2> QED
    BY <1>4, <2>1, TypeParts, PTL
<1>6. NameInv' /\ StateLockInv' /\ FrontInv' /\ BorrowInv' /\ BusyIsUnderWay'
  BY <1>0, <1>2, <1>3, QuietTyped
  DEF NameInv, StateLockInv, FrontInv, BorrowInv, BusyIsUnderWay, Free, Working
<1>7. CallsInv'
  BY <1>0, <1>1, <1>2, <1>3, <1>4, QuietTyped DEF CallsInv, Answers, QueueTypes, Working
<1> QED
  BY <1>4, <1>5, <1>6, <1>7 DEF IInv

-----------------------------------------------------------------------------
(* The system thread. *)

LEMMA SysPcs ==
  /\ Working \subseteq SysPc /\ {"timers", "work", "timeout"} \subseteq SysPc
  /\ {"timers", "work", "timeout"} \cap Working = {}
BY DEF SysPc, Working

\* Outside _state_mutex only the thread's place, and a timer, changes.
SysWaits == FireTimer \/ NoTimerExpired \/ TimeoutIdle \/ WorkBusy

LEMMA SysWaitsPreservesIInv ==
  ASSUME IInv, SysWaits
  PROVE  IInv'
<1>0. /\ TypeOK /\ NameInv /\ StateLockInv /\ FrontInv /\ BorrowInv /\ CallsInv
      /\ BusyIsUnderWay /\ SuccessMeansSent
  BY DEF IInv
<1>1. QueueTypes /\ SharedTypes /\ ThreadTypes
  BY <1>0, TypeParts
<1>2. /\ sys.pc \in {"timers", "work", "timeout"} /\ timers' \subseteq timers
      /\ UNCHANGED <<works, popped, sent, lock, state, stateLock, cookie, cache, user, recv, calls>>
  BY DEF SysWaits, FireTimer, NoTimerExpired, TimeoutIdle, WorkBusy,
         queueVars, lockVars, timerVars
<1>3. /\ sys' \in SysPosition /\ sys'.has = {}
      /\ sys'.pc \in {"timers", "work", "timeout"}
      /\ sys'.pc = "timeout" \/ timers' = timers
      /\ sys.pc = "timeout" => state = "NONE"
  <2>1. sys.has = {} /\ sys \in SysPosition
    BY <1>0, <1>1, <1>2 DEF BorrowInv, Borrowing, ThreadTypes
  <2>2. CASE FireTimer
    <3>1. sys' = [sys EXCEPT !.pc = "timeout"] /\ sys.pc = "timers"
      BY <2>2 DEF FireTimer
    <3> QED
      BY <2>1, <3>1, GotoTyped, SysPcs
  <2>3. CASE NoTimerExpired
    <3>1. sys' = [sys EXCEPT !.pc = "work"] /\ sys.pc = "timers" /\ timers' = timers
      BY <2>3 DEF NoTimerExpired, timerVars
    <3> QED
      BY <2>1, <3>1, GotoTyped, SysPcs
  <2>4. CASE TimeoutIdle \/ WorkBusy
    <3>1. sys' = Looping /\ timers' = timers /\ (sys.pc = "timeout" => state = "NONE")
      BY <2>4 DEF TimeoutIdle, WorkBusy, timerVars
    <3> QED
      BY <3>1, LoopingTyped
  <2> QED
    BY <2>2, <2>3, <2>4 DEF SysWaits
<1>4. TypeOK'
  <2>1. QueueTypes' /\ SharedTypes' /\ ThreadTypes'
    BY <1>1, <1>2, <1>3 DEF QueueTypes, SharedTypes, ThreadTypes
  <2> QED
    BY <2>1, TypeParts, PTL
<1>5. NameInv' /\ StateLockInv' /\ FrontInv' /\ BorrowInv'
  BY <1>0, <1>2, <1>3
  DEF NameInv, StateLockInv, FrontInv, BorrowInv, Working, Borrowing, Empty
<1>6. CallsInv' /\ SuccessMeansSent'
  BY <1>0, <1>2, <1>3 DEF CallsInv, Answers, SuccessMeansSent
<1>7. BusyIsUnderWay'
  BY <1>0, <1>2, <1>3 DEF BusyIsUnderWay, Empty, Front
<1> QED
  BY <1>4, <1>5, <1>6, <1>7 DEF IInv

\* It takes _state_mutex, or gives it back for want of work.
SysEnters == TimeoutBusy \/ WorkIdle \/ NothingToDo

LEMMA SysEntersPreservesIInv ==
  ASSUME IInv, SysEnters
  PROVE  IInv'
<1>0. /\ TypeOK /\ NameInv /\ StateLockInv /\ FrontInv /\ BorrowInv /\ CallsInv
      /\ BusyIsUnderWay /\ SuccessMeansSent
  BY DEF IInv
<1>1. QueueTypes /\ SharedTypes /\ ThreadTypes
  BY <1>0, TypeParts
<1>2. UNCHANGED <<works, popped, sent, lock, state, timers, cookie, cache, user, recv, calls>>
  BY DEF SysEnters, TimeoutBusy, WorkIdle, NothingToDo, queueVars, timerVars
<1>3. /\ sys' \in SysPosition /\ sys'.has = {}
      /\ stateLock' \in {Free, "sys"} /\ stateLock # "recv"
      /\ stateLock' = "sys" <=> sys'.pc \in Working
      /\ sys.pc # "pop" /\ sys'.pc \notin {"pop", "send", "return", "borrowGet"}
      /\ sys'.pc = "expire" => sys'.kind = state
      /\ sys'.pc = "borrowSet" => state = "NONE"
      /\ sys.pc = "timeout" => sys'.pc = "expire"
      /\ sys.pc \notin {"expire", "send"}
  <2>1. CASE TimeoutBusy
    <3>1. /\ sys' = At("expire", state, {}) /\ state \in Kind /\ sys.pc = "timeout"
          /\ stateLock = Free /\ stateLock' = "sys"
      BY <1>1, <2>1 DEF TimeoutBusy, SharedTypes
    <3> QED
      BY <3>1, AtTyped, SysPcs DEF Working, Free
  <2>2. CASE WorkIdle
    <3>1. /\ sys' = [sys EXCEPT !.pc = "borrowSet"] /\ state = "NONE" /\ sys.pc = "work"
          /\ stateLock = Free /\ stateLock' = "sys"
      BY <2>2 DEF WorkIdle
    <3>2. sys.has = {} /\ sys \in SysPosition
      BY <1>0, <1>1, <3>1 DEF BorrowInv, Borrowing, ThreadTypes
    <3> QED
      BY <3>1, <3>2, GotoTyped, SysPcs DEF Working, Free
  <2>3. CASE NothingToDo
    <3>1. sys' = Looping /\ stateLock' = Free /\ sys.pc = "borrowGet"
      BY <2>3 DEF NothingToDo
    <3>2. stateLock = "sys"
      BY <1>0, <3>1 DEF StateLockInv, Working
    <3> QED
      BY <3>1, <3>2, LoopingTyped DEF Working, Free
  <2> QED
    BY <2>1, <2>2, <2>3 DEF SysEnters
<1>4. TypeOK'
  <2>1. QueueTypes' /\ SharedTypes' /\ ThreadTypes'
    BY <1>1, <1>2, <1>3 DEF QueueTypes, SharedTypes, ThreadTypes
  <2> QED
    BY <2>1, TypeParts, PTL
<1>5. NameInv' /\ StateLockInv' /\ FrontInv' /\ BorrowInv'
  BY <1>0, <1>1, <1>2, <1>3
  DEF NameInv, StateLockInv, FrontInv, BorrowInv, Borrowing, Empty, Free
<1>6. CallsInv' /\ SuccessMeansSent'
  BY <1>0, <1>2, <1>3 DEF CallsInv, Answers, SuccessMeansSent
<1>7. BusyIsUnderWay'
  BY <1>0, <1>2, <1>3 DEF BusyIsUnderWay, Empty, Front
<1> QED
  BY <1>4, <1>5, <1>6, <1>7 DEF IInv

\* It borrows the queues and gives back the one it does not need.
SysBorrows == BorrowSet \/ BorrowGet \/ ReturnOther

LEMMA SysBorrowsPreservesIInv ==
  ASSUME IInv, SysBorrows
  PROVE  IInv'
<1>0. /\ TypeOK /\ NameInv /\ StateLockInv /\ FrontInv /\ BorrowInv /\ CallsInv
      /\ BusyIsUnderWay /\ SuccessMeansSent
  BY DEF IInv
<1>1. QueueTypes /\ SharedTypes /\ ThreadTypes
  BY <1>0, TypeParts
<1>2. /\ UNCHANGED <<works, popped, sent, stateLock, timers, cookie, cache, user, recv, calls>>
      /\ sys.pc \in {"borrowSet", "borrowGet", "return"}
  BY DEF SysBorrows, BorrowSet, BorrowGet, ReturnOther, queueVars, timerVars
<1>3. /\ stateLock = "sys" /\ recv.pc = "idle" /\ state = "NONE"
      /\ sys \in SysPosition /\ sys.kind \in Kind /\ sys.has \subseteq Kind
  BY <1>0, <1>1, <1>2 DEF StateLockInv, FrontInv, ThreadTypes, SysPosition, Working
<1>4. /\ sys' \in SysPosition /\ sys'.pc \in {"borrowGet", "return", "send"}
      /\ \A k \in sys'.has: ~Empty(k)
      /\ sys'.pc = "return" => sys'.kind \in sys'.has
      /\ sys'.pc = "send" => sys'.has = {sys'.kind}
      /\ state' = IF sys'.pc = "send" THEN sys'.kind ELSE "NONE"
      /\ lock' \in [Kind -> User \cup {Free, "recv", "sys"}]
  <2>1. CASE BorrowSet
    <3> DEFINE has == IF Empty("set") THEN {} ELSE {"set"}
    <3>1. sys' = At("borrowGet", "set", has) /\ state' = "NONE"
      BY <1>3, <2>1 DEF BorrowSet
    <3>2. has \in SUBSET Kind /\ "set" \in Kind /\ "borrowGet" \in SysPc
          /\ \A k \in has: ~Empty(k)
      BY DEF Kind, SysPc
    <3>3. lock' \in [Kind -> User \cup {Free, "recv", "sys"}]
      BY <1>1, <2>1 DEF BorrowSet, Borrow, SharedTypes
    <3> HIDE DEF has
    <3> QED
      BY <3>1, <3>2, <3>3, AtTyped
  <2>2. CASE BorrowGet
    <3> DEFINE has == sys.has \cup IF Empty("get") THEN {} ELSE {"get"}
               kind == IF "set" \in has THEN "set" ELSE "get"
    <3>1. sys' = At("return", kind, has) /\ has # {} /\ state' = "NONE"
      BY <1>3, <2>2 DEF BorrowGet
    <3>2. /\ has \in SUBSET Kind /\ kind \in Kind /\ "return" \in SysPc
          /\ \A k \in has: ~Empty(k)
      BY <1>0, <1>3 DEF Kind, SysPc, BorrowInv
    <3>3. kind \in has
      BY <3>1, <3>2 DEF Kind
    <3>4. lock' \in [Kind -> User \cup {Free, "recv", "sys"}]
      BY <1>1, <2>2 DEF BorrowGet, Borrow, SharedTypes
    <3> HIDE DEF has, kind
    <3> QED
      BY <3>1, <3>2, <3>3, <3>4, AtTyped
  <2>3. CASE ReturnOther
    <3>1. sys' = At("send", sys.kind, {sys.kind}) /\ state' = sys.kind /\ sys.kind \in sys.has
      BY <1>0, <2>3 DEF ReturnOther, BorrowInv
    <3>2. {sys.kind} \in SUBSET Kind /\ "send" \in SysPc
      BY <1>3 DEF SysPc
    <3>3. lock' \in [Kind -> User \cup {Free, "recv", "sys"}]
      BY <1>1, <2>3 DEF ReturnOther, SharedTypes
    <3>4. ~Empty(sys.kind)
      BY <1>0, <3>1 DEF BorrowInv
    <3> QED
      BY <1>3, <3>1, <3>2, <3>3, <3>4, AtTyped
  <2> QED
    BY <2>1, <2>2, <2>3 DEF SysBorrows
<1>5. TypeOK'
  <2>1. sys'.kind \in Kind
    BY <1>4 DEF SysPosition
  <2>2. QueueTypes' /\ SharedTypes' /\ ThreadTypes'
    BY <1>1, <1>2, <1>4, <2>1 DEF QueueTypes, SharedTypes, ThreadTypes
  <2> QED
    BY <2>2, TypeParts, PTL
<1>6. NameInv' /\ StateLockInv' /\ FrontInv' /\ BorrowInv'
  BY <1>0, <1>2, <1>3, <1>4
  DEF NameInv, StateLockInv, FrontInv, BorrowInv, Borrowing, Working, Empty
<1>7. CallsInv' /\ SuccessMeansSent' /\ BusyIsUnderWay'
  BY <1>0, <1>2, <1>3, <1>4 DEF CallsInv, Answers, SuccessMeansSent, BusyIsUnderWay
<1> QED
  BY <1>5, <1>6, <1>7 DEF IInv

LEMMA SendRequestPreservesIInv ==
  ASSUME IInv, SendRequest
  PROVE  IInv'
<1>0. /\ TypeOK /\ NameInv /\ StateLockInv /\ FrontInv /\ BorrowInv /\ CallsInv
      /\ BusyIsUnderWay /\ SuccessMeansSent
  BY DEF IInv
<1>1. QueueTypes /\ SharedTypes /\ ThreadTypes
  BY <1>0, TypeParts
<1>2. /\ sys.pc = "send" /\ sys' = Looping /\ stateLock' = Free
      /\ sent' = [sent EXCEPT ![sys.kind] = @ \cup {Front(sys.kind)}]
      /\ lock' = [lock EXCEPT ![sys.kind] = Free]
      /\ timers' # {} /\ timers' \subseteq Timer /\ cookie' \in Timer
      /\ UNCHANGED <<works, popped, state, cache, user, recv, calls>>
  BY <1>1 DEF SendRequest, Register, SharedTypes
<1>3. /\ stateLock = "sys" /\ recv.pc = "idle" /\ sys.kind = state
      /\ sys.kind \in Kind /\ sys.has = {sys.kind} /\ ~Empty(sys.kind)
  BY <1>0, <1>1, <1>2
  DEF StateLockInv, FrontInv, BorrowInv, ThreadTypes, SysPosition, Working
<1>4. Front(sys.kind) \in Nat
  BY <1>1, <1>3 DEF Front, QueueTypes
<1>5. TypeOK'
  <2>1. QueueTypes'
    BY <1>1, <1>2, <1>3, <1>4 DEF QueueTypes
  <2>2. SharedTypes' /\ ThreadTypes'
    BY <1>1, <1>2, <1>3, LoopingTyped DEF SharedTypes, ThreadTypes
  <2> QED
    BY <2>1, <2>2, TypeParts, PTL
<1>6. NameInv' /\ StateLockInv' /\ FrontInv' /\ BorrowInv'
  BY <1>0, <1>2, <1>3, LoopingTyped
  DEF NameInv, StateLockInv, FrontInv, BorrowInv, Working, Free
<1>7. CallsInv'
  BY <1>0, <1>2, <1>3, LoopingTyped DEF CallsInv, Answers
<1>8. SuccessMeansSent'
  BY <1>0, <1>1, <1>2, <1>3 DEF SuccessMeansSent, QueueTypes
<1>9. BusyIsUnderWay'
  BY <1>1, <1>2, <1>3, LoopingTyped DEF BusyIsUnderWay, Empty, Front, QueueTypes
<1> QED
  BY <1>5, <1>6, <1>7, <1>8, <1>9 DEF IInv

\* A request that cannot be sent, or that timed out, is reported as failed.
LEMMA SysFailsPreservesIInv ==
  ASSUME IInv, SendFails \/ Expire
  PROVE  IInv'
<1>0. /\ TypeOK /\ NameInv /\ StateLockInv /\ FrontInv /\ BorrowInv /\ CallsInv
      /\ BusyIsUnderWay /\ SuccessMeansSent
  BY DEF IInv
<1>1. QueueTypes /\ SharedTypes /\ ThreadTypes
  BY <1>0, TypeParts
<1>2. /\ sys.pc \in {"send", "expire"} /\ state' = "NONE"
      /\ UNCHANGED <<works, popped, sent, stateLock, timers, cookie, cache, user, recv>>
  BY DEF SendFails, Expire, queueVars, lockVars, timerVars
<1>3. /\ stateLock = "sys" /\ recv.pc = "idle" /\ sys.kind = state
      /\ sys.kind \in Kind /\ sys \in SysPosition
  BY <1>0, <1>1, <1>2 DEF StateLockInv, FrontInv, ThreadTypes, SysPosition, Working
<1>4. /\ Report(sys.kind, FALSE) /\ ~Empty(sys.kind)
      /\ sys' \in SysPosition /\ sys'.pc = "pop" /\ sys'.kind = sys.kind /\ sys'.has = {}
      /\ lock' \in [Kind -> User \cup {Free, "recv", "sys"}]
  <2>1. "pop" \in SysPc /\ {} \in SUBSET Kind
    BY DEF SysPc
  <2>2. CASE SendFails
    <3>1. /\ sys.pc = "send" /\ sys' = At("pop", sys.kind, {}) /\ Report(sys.kind, FALSE)
          /\ lock' = [lock EXCEPT ![sys.kind] = Free]
      BY <2>2 DEF SendFails
    <3>2. ~Empty(sys.kind)
      BY <1>0, <3>1 DEF BorrowInv
    <3>3. lock' \in [Kind -> User \cup {Free, "recv", "sys"}]
      BY <1>1, <3>1 DEF SharedTypes
    <3>4. sys' \in SysPosition /\ sys'.pc = "pop" /\ sys'.kind = sys.kind /\ sys'.has = {}
      BY <1>3, <2>1, <3>1, AtTyped
    <3> QED
      BY <3>1, <3>2, <3>3, <3>4
  <2>3. CASE Expire
    <3>1. /\ sys.pc = "expire" /\ sys' = [sys EXCEPT !.pc = "pop"] /\ Report(state, FALSE)
          /\ ~Empty(state) /\ lock' = lock
      BY <2>3 DEF Expire, lockVars
    <3>2. sys.has = {}
      BY <1>0, <3>1 DEF BorrowInv, Borrowing
    <3> QED
      BY <1>1, <1>3, <2>1, <3>1, <3>2, GotoTyped DEF SharedTypes
  <2> QED
    BY <2>2, <2>3
<1>5. Answers(sys.kind) = popped[sys.kind]
  BY <1>1, <1>2, <1>3 DEF Answers, QueueTypes
<1>6. /\ QueueTypes' /\ SuccessMeansSent'
      /\ Len(calls'[sys.kind]) = popped[sys.kind] + 1
      /\ \A j \in Kind: j # sys.kind => calls'[j] = calls[j]
  <2>1. UNCHANGED queueVars /\ FALSE \in BOOLEAN
    BY <1>2 DEF queueVars
  <2> QED
    BY <1>0, <1>1, <1>3, <1>4, <1>5, <2>1, ReportStep
<1>7. TypeOK'
  <2>1. SharedTypes' /\ ThreadTypes'
    BY <1>1, <1>2, <1>4 DEF SharedTypes, ThreadTypes
  <2> QED
    BY <1>6, <2>1, TypeParts, PTL
<1>8. NameInv' /\ StateLockInv' /\ FrontInv' /\ BorrowInv' /\ BusyIsUnderWay'
  BY <1>0, <1>2, <1>3, <1>4
  DEF NameInv, StateLockInv, FrontInv, BorrowInv, BusyIsUnderWay, Working, Empty
<1>9. CallsInv'
  BY <1>0, <1>1, <1>2, <1>3, <1>4, <1>6 DEF CallsInv, Answers, QueueTypes
<1> QED
  BY <1>6, <1>7, <1>8, <1>9 DEF IInv

LEMMA SysPopPreservesIInv ==
  ASSUME IInv, SysPop
  PROVE  IInv'
<1>0. /\ TypeOK /\ NameInv /\ StateLockInv /\ FrontInv /\ BorrowInv /\ CallsInv
      /\ BusyIsUnderWay /\ SuccessMeansSent
  BY DEF IInv
<1>1. QueueTypes /\ SharedTypes /\ ThreadTypes
  BY <1>0, TypeParts
<1>2. /\ sys.pc = "pop" /\ sys' = Looping /\ stateLock' = Free /\ PopFront(sys.kind)
      /\ UNCHANGED <<works, sent, lock, state, timers, cookie, cache, user, recv, calls>>
  BY DEF SysPop, timerVars
<1>3. /\ state = "NONE" /\ sys.kind \in Kind /\ ~Empty(sys.kind)
      /\ stateLock = "sys" /\ recv.pc = "idle"
  BY <1>0, <1>1, <1>2 DEF ThreadTypes, SysPosition, FrontInv, StateLockInv, Working
<1>4. /\ QueueTypes' /\ SuccessMeansSent'
      /\ popped' = [popped EXCEPT ![sys.kind] = @ + 1]
  BY <1>0, <1>1, <1>2, <1>3, PopStep
<1>5. TypeOK'
  <2>1. SharedTypes' /\ ThreadTypes'
    BY <1>1, <1>2, LoopingTyped DEF SharedTypes, ThreadTypes
  <2> QED
    BY <1>4, <2>1, TypeParts, PTL
<1>6. NameInv' /\ StateLockInv' /\ FrontInv' /\ BorrowInv' /\ BusyIsUnderWay'
  BY <1>0, <1>2, <1>3, LoopingTyped
  DEF NameInv, StateLockInv, FrontInv, BorrowInv, BusyIsUnderWay, Free, Working
<1>7. CallsInv'
  BY <1>0, <1>1, <1>2, <1>3, <1>4, LoopingTyped DEF CallsInv, Answers, QueueTypes
<1> QED
  BY <1>4, <1>5, <1>6, <1>7 DEF IInv

-----------------------------------------------------------------------------

LEMMA NextPreservesIInv == IInv /\ [Next]_vars => IInv'
<1> SUFFICES ASSUME IInv, [Next]_vars PROVE IInv'
  OBVIOUS
<1>1. CASE UserStep
  <2>1. TypeOK /\ NameInv
    BY DEF IInv
  <2> QED
    BY <1>1, <2>1, UserStepGrowth, GrowthPreservesIInv
<1>2. CASE Handler
  BY <1>2, NoAnswerPreservesIInv, AnsweredPreservesIInv, RecvPopPreservesIInv DEF Handler
<1>3. CASE SystemThread
  BY <1>3, SysWaitsPreservesIInv, SysEntersPreservesIInv, SysBorrowsPreservesIInv,
     SendRequestPreservesIInv, SysFailsPreservesIInv, SysPopPreservesIInv
  DEF SystemThread, DoWork, SysWaits, SysEnters, SysBorrows
<1>4. CASE \E m \in Messages, n \in Name: Receive(m, n)
  BY <1>4, ReceivePreservesIInv
<1>5. CASE UNCHANGED vars
  BY <1>5, SMTT(30) DEF vars, IInv, TypeOK, NameInv, StateLockInv, FrontInv, BorrowInv, CallsInv,
     Answers, BusyIsUnderWay, SuccessMeansSent, Empty, Front
<1> QED
  BY <1>1, <1>2, <1>3, <1>4, <1>5 DEF Next, UserStep

THEOREM Invariance == Spec => []IInv
BY InitIInv, NextPreservesIInv, PTL DEF Spec

\* Type correctness, and at most one result per request.
THEOREM TypeCorrect == Spec => []TypeOK
BY Invariance, PTL DEF IInv

\* The request that keeps the client busy is the front of its queue, has been
\* sent and will be ended by a timer (do_work, receive_timeout and the handlers).
THEOREM BusyRequestIsUnderWay == Spec => []BusyIsUnderWay
BY Invariance, PTL DEF IInv

\* No answer is taken for a request that still waits in its queue.
THEOREM SuccessWasSent == Spec => []SuccessMeansSent
BY Invariance, PTL DEF IInv

-----------------------------------------------------------------------------
(* Exclusion. The system thread unlocks the queue it does not need, and that *)
(* is its own or nobody's only if the queues are returned patiently.         *)

LEMMA InitQueueLockInv == Init => QueueLockInv
BY DEF Init, QueueLockInv, Resting, Looping, At

LEMMA QueueLockStep ==
  ASSUME IInv, QueueLockInv, Patient, [Next]_vars
  PROVE  QueueLockInv'
<1> USE ParametersAssumption
<1>0. /\ lock \in [Kind -> User \cup {Free, "recv", "sys"}]
      /\ user \in [User -> UserPosition] /\ sys \in SysPosition
      /\ BorrowInv
  BY TypeParts DEF IInv, SharedTypes, ThreadTypes
<1>1. /\ \A u \in User: user[u].pc = "pushing" => lock[user[u].kind] = u
      /\ \A k \in sys.has: lock[k] = "sys"
      /\ \A u \in User: user[u].kind \in Kind
      /\ sys.kind \in Kind /\ sys.has \subseteq Kind
  BY <1>0 DEF QueueLockInv, UserPosition, SysPosition
<1>2. ASSUME NEW u \in User, NEW k \in Kind, NEW n \in Name, ParamAsync(u, k, n)
      PROVE  QueueLockInv'
  <2> DEFINE r == [pc |-> "wanting", kind |-> k, name |-> n]
  <2>1. user' = [user EXCEPT ![u] = r] /\ lock' = lock /\ sys' = sys
    BY <1>2 DEF ParamAsync, lockVars
  <2>2. r.pc = "wanting"
    OBVIOUS
  <2> HIDE DEF r
  <2> QED
    BY <1>0, <1>1, <2>1, <2>2 DEF QueueLockInv
<1>3. ASSUME NEW u \in User, LockQueue(u) PROVE QueueLockInv'
  <2> DEFINE r == [user[u] EXCEPT !.pc = "pushing"]
  <2>1. user' = [user EXCEPT ![u] = r] /\ sys' = sys
        /\ lock' = [lock EXCEPT ![user[u].kind] = u] /\ lock[user[u].kind] = Free
    BY <1>0, <1>3 DEF LockQueue
  <2>2. r.kind = user[u].kind
    BY <1>0 DEF UserPosition
  <2> HIDE DEF r
  <2>3. \A v \in User: user'[v].pc = "pushing" => lock'[user'[v].kind] = v
    <3> SUFFICES ASSUME NEW v \in User, user'[v].pc = "pushing"
                 PROVE  lock'[user'[v].kind] = v
      OBVIOUS
    <3>1. CASE v = u
      BY <1>0, <1>1, <2>1, <2>2, <3>1
    <3>2. CASE v # u
      <4>1. user'[v] = user[v] /\ lock[user[v].kind] = v /\ v # Free
        BY <1>0, <1>1, <2>1, <3>2 DEF Free
      <4> QED
        BY <1>0, <1>1, <2>1, <4>1
    <3> QED
      BY <3>1, <3>2
  <2>4. \A k \in sys'.has: lock'[k] = "sys"
    BY <1>0, <1>1, <2>1 DEF Free
  <2> QED
    BY <2>3, <2>4 DEF QueueLockInv
<1>4. ASSUME NEW u \in User, PushBack(u) PROVE QueueLockInv'
  <2>1. /\ user' = [user EXCEPT ![u] = Resting] /\ sys' = sys /\ Resting.pc = "idle"
        /\ lock' = [lock EXCEPT ![user[u].kind] = Free] /\ lock[user[u].kind] = u
    BY <1>0, <1>1, <1>4 DEF PushBack, Resting
  <2>2. ASSUME NEW v \in User, user'[v].pc = "pushing"
        PROVE  lock'[user'[v].kind] = v
    <3>1. v # u /\ user'[v] = user[v]
      BY <1>0, <2>1, <2>2
    <3> QED
      BY <1>0, <1>1, <2>1, <2>2, <3>1
  <2>3. \A k \in sys'.has: lock'[k] = "sys"
    BY <1>0, <1>1, <2>1
  <2> QED
    BY <2>2, <2>3 DEF QueueLockInv
<1>5. CASE Handler \/ \E m \in Messages, n \in Name: Receive(m, n)
  <2>1. UNCHANGED <<user, sys, lock>>
    BY <1>5 DEF Handler, OtherName, InProgress, Answered, RecvPop, Receive, lockVars
  <2> QED
    BY <1>1, <2>1 DEF QueueLockInv
<1>6. CASE FireTimer \/ NoTimerExpired \/ WorkIdle \/ Expire
  <2>1. UNCHANGED <<user, lock>> /\ \E pc \in SysPc: sys' = [sys EXCEPT !.pc = pc]
    BY <1>6 DEF FireTimer, NoTimerExpired, WorkIdle, Expire, lockVars, SysPc
  <2>2. sys'.has = sys.has
    BY <1>0, <2>1, GotoTyped
  <2> QED
    BY <1>1, <2>1, <2>2 DEF QueueLockInv
<1>7. CASE TimeoutIdle \/ TimeoutBusy \/ SysPop \/ WorkBusy \/ NothingToDo
  <2>1. UNCHANGED <<user, lock>> /\ sys' \in {Looping, At("expire", state, {})}
    BY <1>7 DEF TimeoutIdle, TimeoutBusy, SysPop, WorkBusy, NothingToDo, lockVars
  <2>2. sys'.has = {}
    BY <2>1 DEF Looping, At
  <2> QED
    BY <1>1, <2>1, <2>2 DEF QueueLockInv
<1>8. CASE BorrowSet \/ BorrowGet
  <2>1. PICK k \in Kind: /\ Borrow(k) /\ user' = user
                         /\ sys'.has \subseteq sys.has \cup IF Empty(k) THEN {} ELSE {k}
    BY <1>8 DEF BorrowSet, BorrowGet, At, Kind
  <2>2. \A u \in User: user'[u].pc = "pushing" => lock'[user'[u].kind] = u
    BY <1>0, <1>1, <2>1 DEF Borrow, Free
  <2>3. \A j \in sys'.has: lock'[j] = "sys"
    BY <1>0, <1>1, <2>1 DEF Borrow, Free
  <2> QED
    BY <2>2, <2>3 DEF QueueLockInv
<1>9. CASE ReturnOther
  <2> DEFINE other == IF sys.kind = "set" THEN "get" ELSE "set"
  <2>1. /\ lock[other] \in {Free, "sys"} /\ lock' = [lock EXCEPT ![other] = Free]
        /\ sys' = At("send", sys.kind, {sys.kind}) /\ user' = user
        /\ sys.pc = "return"
    BY <1>9 DEF ReturnOther
  <2>2. other \in Kind /\ other # sys.kind /\ sys'.has = {sys.kind}
    BY <1>1, <2>1 DEF Kind, At
  <2>3. sys.kind \in sys.has
    BY <1>0, <2>1 DEF BorrowInv
  <2> HIDE DEF other
  <2>4. \A u \in User: user'[u].pc = "pushing" => lock'[user'[u].kind] = u
    BY <1>0, <1>1, <2>1, <2>2 DEF Free
  <2>5. \A j \in sys'.has: lock'[j] = "sys"
    BY <1>0, <1>1, <2>1, <2>2, <2>3
  <2> QED
    BY <2>4, <2>5 DEF QueueLockInv
<1>10. CASE SendRequest \/ SendFails
  <2>1. /\ sys.pc = "send" /\ lock' = [lock EXCEPT ![sys.kind] = Free] /\ user' = user
        /\ sys' \in {Looping, At("pop", sys.kind, {})}
    BY <1>10 DEF SendRequest, SendFails
  <2>2. sys'.has = {} /\ sys.kind \in sys.has
    BY <1>0, <2>1 DEF Looping, At, BorrowInv
  <2>3. \A u \in User: user'[u].pc = "pushing" => lock'[user'[u].kind] = u
    BY <1>0, <1>1, <2>1, <2>2
  <2> QED
    BY <2>2, <2>3 DEF QueueLockInv
<1>11. CASE UNCHANGED vars
  BY <1>11 DEF vars, QueueLockInv
<1> QED
  BY <1>2, <1>3, <1>4, <1>5, <1>6, <1>7, <1>8, <1>9, <1>10, <1>11
  DEF Next, UserThread, SystemThread, DoWork

\* As long as no queue is returned under the hands of a thread that uses it,
\* no two threads use one at the same time (locked_queue.h:20-58).
THEOREM QueuesAreExclusive == ASSUME Patient PROVE Spec => []Exclusive
<1>1. IInv /\ QueueLockInv => Exclusive
  <2> SUFFICES ASSUME QueueLockInv, NEW k \in Kind,
                      NEW t1 \in Inside(k), NEW t2 \in Inside(k)
               PROVE  t1 = t2
    BY DEF Exclusive
  <2>1. \A t \in Inside(k): lock[k] = t
    BY DEF Inside, QueueLockInv
  <2> QED
    BY <2>1
<1>2. IInv /\ QueueLockInv /\ [Next]_vars => QueueLockInv'
  BY QueueLockStep
<1> QED
  BY <1>1, <1>2, Invariance, InitQueueLockInv, PTL DEF Spec

-----------------------------------------------------------------------------
(* Waiting.  Whoever unlocks a queue, a mutex names only a thread that is    *)
(* inside it: Patient plays no part.                                         *)

HolderInv ==
  /\ \A k \in Kind: lock[k] \in User =>
       user[lock[k]].pc = "pushing" /\ user[lock[k]].kind = k
  /\ \A k \in Kind: lock[k] = "sys" => k \in sys.has
  /\ \A k \in Kind: lock[k] # "recv"
  /\ sys.pc = "borrowGet" => sys.has \subseteq {"set"}

LEMMA InitHolderInv == Init => HolderInv
BY ParametersAssumption DEF Init, HolderInv, Looping, At, Free

(* A step that locks nothing and unlocks only what the system thread then    *)
(* no longer has.                                                            *)
LEMMA UnlockPreservesHolder ==
  ASSUME HolderInv, user' = user,
         \A k \in Kind: lock'[k] \in {lock[k], Free},
         \A k \in Kind: lock'[k] = "sys" /\ k \in sys.has => k \in sys'.has,
         sys'.pc = "borrowGet" => sys'.has \subseteq {"set"}
  PROVE  HolderInv'
BY ParametersAssumption DEF HolderInv, Free

LEMMA UserPreservesHolder ==
  ASSUME IInv, HolderInv, UserStep PROVE HolderInv'
<1> USE ParametersAssumption
<1>0. /\ lock \in [Kind -> User \cup {Free, "recv", "sys"}]
      /\ user \in [User -> UserPosition]
      /\ \A u \in User: user[u].kind \in Kind
  BY TypeParts DEF IInv, SharedTypes, ThreadTypes, UserPosition
<1>1. /\ \A k \in Kind: lock[k] \in User =>
           user[lock[k]].pc = "pushing" /\ user[lock[k]].kind = k
      /\ \A k \in Kind: lock[k] = "sys" => k \in sys.has
      /\ \A k \in Kind: lock[k] # "recv"
  BY DEF HolderInv
<1>2. ASSUME NEW u \in User, NEW k \in Kind, NEW n \in Name, ParamAsync(u, k, n)
      PROVE  HolderInv'
  <2>1. /\ \A v \in User: v # u => user'[v] = user[v]
        /\ user[u].pc = "idle" /\ lock' = lock /\ sys' = sys
    BY <1>0, <1>2 DEF ParamAsync, lockVars
  <2>2. \A j \in Kind: lock[j] # u
    BY <1>1, <2>1
  <2> QED
    BY <1>1, <2>1, <2>2 DEF HolderInv
<1>3. ASSUME NEW u \in User, LockQueue(u) PROVE HolderInv'
  <2> DEFINE r == [user[u] EXCEPT !.pc = "pushing"]
             k == user[u].kind
  <2>1. /\ user' = [user EXCEPT ![u] = r] /\ sys' = sys
        /\ lock' = [lock EXCEPT ![k] = u] /\ user[u].pc = "wanting"
    BY <1>0, <1>3 DEF LockQueue
  <2>2. r.kind = k /\ r.pc = "pushing" /\ k \in Kind
    BY <1>0 DEF UserPosition
  <2> HIDE DEF r, k
  <2>3. /\ \A v \in User: v # u => user'[v] = user[v]
        /\ user'[u] = r /\ lock'[k] = u
        /\ \A j \in Kind: j # k => lock'[j] = lock[j]
        /\ \A j \in Kind: lock[j] # u
    BY <1>0, <1>1, <2>1, <2>2
  <2> QED
    BY <1>1, <2>1, <2>2, <2>3 DEF HolderInv
<1>4. ASSUME NEW u \in User, PushBack(u) PROVE HolderInv'
  <2> DEFINE k == user[u].kind
  <2>1. /\ user' = [user EXCEPT ![u] = Resting] /\ sys' = sys
        /\ lock' = [lock EXCEPT ![k] = Free] /\ k \in Kind
    BY <1>0, <1>4 DEF PushBack
  <2>2. \A j \in Kind: lock'[j] # u
    BY <1>0, <1>1, <2>1 DEF Free
  <2>3. /\ \A v \in User: v # u => user'[v] = user[v]
        /\ \A j \in Kind: lock'[j] \in {lock[j], Free}
    BY <1>0, <2>1
  <2> QED
    BY <1>1, <2>1, <2>2, <2>3 DEF HolderInv, Free
<1> QED
  BY <1>2, <1>3, <1>4 DEF UserStep, UserThread

LEMMA NextPreservesHolder ==
  ASSUME IInv, HolderInv, [Next]_vars PROVE HolderInv'
<1> USE ParametersAssumption
<1>0. /\ lock \in [Kind -> User \cup {Free, "recv", "sys"}]
      /\ sys \in SysPosition /\ sys.kind \in Kind /\ sys.has \subseteq Kind
      /\ BorrowInv /\ FrontInv
  BY TypeParts DEF IInv, SharedTypes, ThreadTypes, SysPosition
<1>1. CASE Handler \/ (\E m \in Messages, n \in Name: Receive(m, n)) \/ UNCHANGED vars
  <2>1. UNCHANGED <<user, sys, lock>>
    BY <1>1 DEF Handler, OtherName, InProgress, Answered, RecvPop, Receive, lockVars, vars
  <2> QED
    BY <2>1 DEF HolderInv
<1>2. CASE FireTimer \/ NoTimerExpired \/ WorkIdle \/ Expire
  <2>1. /\ UNCHANGED <<user, lock>>
        /\ \E pc \in SysPc \ {"borrowGet"}: sys' = [sys EXCEPT !.pc = pc]
    BY <1>2 DEF FireTimer, NoTimerExpired, WorkIdle, Expire, lockVars, SysPc
  <2>2. sys'.has = sys.has /\ sys'.pc # "borrowGet"
    BY <1>0, <2>1, GotoTyped
  <2> QED
    BY <2>1, <2>2, UnlockPreservesHolder
<1>3. CASE TimeoutIdle \/ TimeoutBusy \/ SysPop \/ WorkBusy \/ NothingToDo
  <2>1. /\ UNCHANGED <<user, lock>> /\ sys' \in {Looping, At("expire", state, {})}
        /\ sys.pc \in {"timeout", "pop", "work"} \/ sys.has = {}
    BY <1>3 DEF TimeoutIdle, TimeoutBusy, SysPop, WorkBusy, NothingToDo, lockVars
  <2>2. sys.has = {} /\ sys'.pc # "borrowGet"
    BY <1>0, <2>1 DEF Looping, At, BorrowInv, Borrowing
  <2> QED
    BY <2>1, <2>2, UnlockPreservesHolder
<1>4. CASE BorrowSet \/ BorrowGet
  <2>1. PICK k \in Kind: /\ Borrow(k) /\ user' = user
                         /\ sys.has \subseteq sys'.has /\ (~Empty(k) => k \in sys'.has)
    <3>1. CASE BorrowSet
      <4>1. sys.has = {}
        BY <1>0, <3>1 DEF BorrowSet, BorrowInv, Borrowing
      <4> QED
        BY <3>1, <4>1 DEF BorrowSet, At, Kind
    <3>2. CASE BorrowGet
      BY <3>2 DEF BorrowGet, At, Kind
    <3> QED
      BY <1>4, <3>1, <3>2
  <2>2. sys'.pc = "borrowGet" => sys'.has \subseteq {"set"}
    BY <1>4 DEF BorrowSet, BorrowGet, At
  <2>3. \A j \in Kind: lock'[j] = lock[j] \/ (j = k /\ ~Empty(k) /\ lock'[j] = "sys")
    BY <1>0, <2>1 DEF Borrow
  <2> QED
    BY <1>0, <2>1, <2>2, <2>3 DEF HolderInv
<1>5. CASE ReturnOther \/ SendRequest \/ SendFails
  <2> DEFINE other == IF sys.kind = "set" THEN "get" ELSE "set"
  <2>1. /\ user' = user
        /\ sys' \in {At("send", sys.kind, {sys.kind}), Looping, At("pop", sys.kind, {})}
    BY <1>5 DEF ReturnOther, SendRequest, SendFails
  <2>2. sys'.pc # "borrowGet"
    BY <2>1 DEF Looping, At
  <2>3. CASE ReturnOther
    <3>1. /\ lock' = [lock EXCEPT ![other] = Free] /\ sys'.has = {sys.kind}
          /\ other \in Kind /\ \A k \in Kind: k # other => k = sys.kind
      BY <1>0, <2>3 DEF ReturnOther, At, Kind
    <3> HIDE DEF other
    <3>2. \A k \in Kind: lock'[k] = IF k = other THEN Free ELSE lock[k]
      BY <1>0, <3>1
    <3> QED
      BY <2>1, <2>2, <3>1, <3>2, UnlockPreservesHolder DEF Free
  <2>4. CASE SendRequest \/ SendFails
    <3>1. lock' = [lock EXCEPT ![sys.kind] = Free] /\ sys.has = {sys.kind}
      BY <1>0, <2>4 DEF SendRequest, SendFails, BorrowInv
    <3>2. \A k \in Kind: lock'[k] = IF k = sys.kind THEN Free ELSE lock[k]
      BY <1>0, <3>1
    <3> QED
      BY <2>1, <2>2, <3>1, <3>2, UnlockPreservesHolder DEF Free
  <2> QED
    BY <1>5, <2>3, <2>4
<1> QED
  BY <1>1, <1>2, <1>3, <1>4, <1>5, UserPreservesHolder
  DEF Next, UserStep, UserThread, SystemThread, DoWork

(* Who holds what a thread waits for: a user thread that is pushing, which   *)
(* waits for nobody, or the system thread with a queue it has borrowed.      *)
Pushing == {u \in User: user[u].pc = "pushing"}

LEMMA Holders ==
  ASSUME IInv, HolderInv, NEW k \in Kind
  PROVE  /\ lock[k] \in Pushing \cup {Free, "sys"}
         /\ lock[k] = "sys" => k \in sys.has /\ sys.pc \in Borrowing
<1>1. /\ lock \in [Kind -> User \cup {Free, "recv", "sys"}] /\ BorrowInv
  BY TypeParts DEF IInv, SharedTypes
<1> QED
  BY <1>1 DEF HolderInv, Pushing, BorrowInv

LEMMA PushingWaitsForNobody ==
  ASSUME NEW t \in Pushing \cup {Free} PROVE WaitsFor(t) = Free
BY ParametersAssumption DEF Pushing, WaitsFor, Free

LEMMA SysWaitsFor ==
  ASSUME IInv, HolderInv
  PROVE  /\ WaitsFor("sys") \in Pushing \cup {Free, "recv"}
         /\ WaitsFor("sys") = "recv" => stateLock = "recv"
         /\ sys.pc \in Borrowing => WaitsFor("sys") # "recv"
<1>1. /\ stateLock \in {Free, "recv", "sys"} /\ StateLockInv /\ BorrowInv /\ FrontInv
      /\ sys.kind \in Kind /\ "sys" \notin User
  BY TypeParts, ParametersAssumption
  DEF IInv, SharedTypes, ThreadTypes, SysPosition
<1>2. CASE sys.pc \in {"timeout", "work"}
  <2>1. WaitsFor("sys") = stateLock
    BY <1>1, <1>2 DEF WaitsFor
  <2> QED
    BY <1>1, <1>2, <2>1 DEF StateLockInv, Working, Borrowing
<1>3. CASE sys.pc \in {"expire", "pop", "borrowSet", "borrowGet"}
  <2>1. PICK k \in Kind: WaitsFor("sys") = lock[k] /\ k \notin sys.has
    <3>1. CASE sys.pc \in {"expire", "pop"}
      BY <1>1, <3>1 DEF WaitsFor, FrontInv, BorrowInv, Borrowing
    <3>2. CASE sys.pc = "borrowSet"
      BY <1>1, <3>2 DEF WaitsFor, BorrowInv, Borrowing, Kind
    <3>3. CASE sys.pc = "borrowGet"
      BY <1>1, <3>3 DEF WaitsFor, HolderInv, Kind
    <3> QED
      BY <1>3, <3>1, <3>2, <3>3
  <2>2. lock[k] \in Pushing \cup {Free}
    BY <2>1, Holders
  <2> QED
    BY <2>1, <2>2, ParametersAssumption DEF Pushing, Free
<1>4. CASE sys.pc \notin {"timeout", "work", "expire", "pop", "borrowSet", "borrowGet"}
  <2>1. WaitsFor("sys") = Free
    BY <1>1, <1>4 DEF WaitsFor
  <2> QED
    BY <2>1 DEF Free
<1> QED
  BY <1>2, <1>3, <1>4

LEMMA RecvWaitsFor ==
  ASSUME IInv, HolderInv PROVE WaitsFor("recv") \in Pushing \cup {Free}
<1>1. /\ StateLockInv /\ FrontInv /\ recv.kind \in Kind /\ "recv" \notin User
  BY TypeParts, ParametersAssumption DEF IInv, ThreadTypes, RecvPosition
<1>2. CASE recv.pc \in {"match", "pop"}
  <2>1. PICK k \in Kind: WaitsFor("recv") = lock[k]
    BY <1>1, <1>2 DEF WaitsFor, FrontInv
  <2>2. sys.pc \notin Borrowing
    BY <1>1, <1>2 DEF StateLockInv, Working, Borrowing
  <2> QED
    BY <2>1, <2>2, Holders
<1>3. CASE recv.pc \notin {"match", "pop"}
  BY <1>1, <1>3 DEF WaitsFor
<1> QED
  BY <1>2, <1>3

LEMMA UserWaitsFor ==
  ASSUME IInv, HolderInv, NEW u \in User
  PROVE  /\ WaitsFor(u) \in Pushing \cup {Free, "sys"}
         /\ WaitsFor(u) = "sys" => sys.pc \in Borrowing
<1>1. user[u].kind \in Kind /\ u \notin {"recv", "sys"}
  BY TypeParts, ParametersAssumption DEF IInv, ThreadTypes, UserPosition
<1>2. CASE user[u].pc = "wanting"
  <2>1. WaitsFor(u) = lock[user[u].kind]
    BY <1>1, <1>2 DEF WaitsFor
  <2> QED
    BY <1>1, <2>1, Holders
<1>3. CASE user[u].pc # "wanting"
  <2>1. WaitsFor(u) = Free
    BY <1>1, <1>3 DEF WaitsFor
  <2> QED
    BY <2>1 DEF Free
<1> QED
  BY <1>2, <1>3

\* The threads of the parameter client never wait for each other in a circle,
\* even when a queue is unlocked under the hands of the thread that uses it.
THEOREM NobodyWaitsInACircle == Spec => []NoCircle
<1>1. IInv /\ HolderInv => NoCircle
  <2> SUFFICES ASSUME IInv, HolderInv, NEW t \in User \cup {"recv", "sys"}
               PROVE  WaitsFor(WaitsFor(WaitsFor(t))) = Free
    BY DEF NoCircle
  <2>1. ASSUME NEW x \in Pushing \cup {Free} PROVE WaitsFor(x) \in Pushing \cup {Free}
    BY <2>1, PushingWaitsForNobody
  <2>2. CASE t = "recv"
    BY <2>1, <2>2, RecvWaitsFor, PushingWaitsForNobody
  <2>3. CASE t = "sys"
    <3>1. CASE WaitsFor("sys") = "recv"
      BY <2>3, <3>1, RecvWaitsFor, PushingWaitsForNobody
    <3>2. CASE WaitsFor("sys") # "recv"
      BY <2>1, <2>3, <3>2, SysWaitsFor, PushingWaitsForNobody
    <3> QED
      BY <3>1, <3>2
  <2>4. CASE t \in User
    <3>1. CASE WaitsFor(t) = "sys"
      <4>1. WaitsFor("sys") \in Pushing \cup {Free}
        BY <2>4, <3>1, UserWaitsFor, SysWaitsFor
      <4> QED
        BY <3>1, <4>1, PushingWaitsForNobody
    <3>2. CASE WaitsFor(t) # "sys"
      BY <2>1, <2>4, <3>2, UserWaitsFor, PushingWaitsForNobody
    <3> QED
      BY <3>1, <3>2
  <2> QED
    BY <2>2, <2>3, <2>4
<1>2. IInv /\ HolderInv /\ [Next]_vars => HolderInv'
  BY NextPreservesHolder
<1> QED
  BY <1>1, <1>2, Invariance, InitHolderInv, PTL DEF Spec

-----------------------------------------------------------------------------
(* Refinement: each queue is a CommandService. *)

LEMMA InitRequestInv == Init => RequestInv
<1> SUFFICES ASSUME Init, NEW k \in Kind PROVE Requested(k) <= MaxWork[k]
  BY DEF RequestInv
<1>1. Queueing(k) = {}
  BY DEF Init, Queueing, Resting
<1>2. Cardinality(Queueing(k)) = 0
  BY <1>1, FS_EmptySet
<1>3. Len(works[k]) = 0 /\ MaxWork[k] \in Nat
  BY ParametersAssumption DEF Init
<1> QED
  BY <1>2, <1>3 DEF Requested

LEMMA QueueingFinite ==
  ASSUME NEW k \in Kind
  PROVE  IsFiniteSet(Queueing(k)) /\ Cardinality(Queueing(k)) \in Nat
BY FS_Subset, FS_CardinalityType, ParametersAssumption DEF Queueing

LEMMA ParamAsyncRequests ==
  ASSUME TypeOK, RequestInv, NEW u \in User, NEW k \in Kind, NEW n \in Name,
         ParamAsync(u, k, n)
  PROVE  RequestInv'
<1> DEFINE r == [pc |-> "wanting", kind |-> k, name |-> n]
<1>1. /\ user' = [user EXCEPT ![u] = r] /\ user[u].pc = "idle" /\ works' = works
      /\ Requested(k) < MaxWork[k] /\ user \in [User -> UserPosition]
  BY TypeParts DEF ParamAsync, queueVars, ThreadTypes
<1>2. r.pc = "wanting" /\ r.kind = k
  OBVIOUS
<1> HIDE DEF r
<1>3. Queueing(k)' = Queueing(k) \cup {u} /\ u \notin Queueing(k)
  BY <1>1, <1>2 DEF Queueing
<1>4. Cardinality(Queueing(k)') = Cardinality(Queueing(k)) + 1
  BY <1>3, QueueingFinite, FS_AddElement
<1>5. Requested(k)' <= MaxWork[k]
  <2>1. Len(works[k]) \in Nat /\ MaxWork[k] \in Nat
    BY TypeParts, ParametersAssumption DEF QueueTypes
  <2> QED
    BY <1>1, <1>4, <2>1, QueueingFinite DEF Requested
<1>6. ASSUME NEW j \in Kind, j # k PROVE Requested(j)' <= MaxWork[j]
  <2>1. Queueing(j)' = Queueing(j)
    BY <1>1, <1>2, <1>6 DEF Queueing
  <2> QED
    BY <1>1, <2>1 DEF Requested, RequestInv
<1> QED
  BY <1>5, <1>6 DEF RequestInv

LEMMA PushBackRequests ==
  ASSUME TypeOK, NameInv, RequestInv, NEW u \in User, PushBack(u)
  PROVE  /\ RequestInv'
         /\ \A k \in Kind: \/ Len(works'[k]) = Len(works[k])
                           \/ /\ Len(works'[k]) = Len(works[k]) + 1
                              /\ Len(works[k]) < MaxWork[k]
<1>1. /\ user \in [User -> UserPosition] /\ works \in [Kind -> Seq(Name)]
      /\ user' = [user EXCEPT ![u] = Resting] /\ user[u].pc = "pushing"
      /\ user[u].kind \in Kind /\ user[u].name \in Name /\ Resting.pc = "idle"
  BY TypeParts DEF ThreadTypes, QueueTypes, PushBack, UserPosition, NameInv, Resting
<1>2. PICK kind \in Kind, name \in Name:
        /\ kind = user[u].kind
        /\ works' = [works EXCEPT ![kind] = Append(works[kind], name)]
  BY <1>1 DEF PushBack
<1>3. Queueing(kind)' = Queueing(kind) \ {u} /\ u \in Queueing(kind)
  BY <1>1, <1>2 DEF Queueing
<1>4. ASSUME NEW k \in Kind, k # kind PROVE Queueing(k)' = Queueing(k)
  <2>1. u \notin Queueing(k) /\ u \notin Queueing(k)'
    BY <1>1, <1>2, <1>4 DEF Queueing
  <2>2. \A v \in User: v # u => user'[v] = user[v]
    BY <1>1
  <2>3. \A v \in User: v # u => (v \in Queueing(k) <=> v \in Queueing(k)')
    BY <2>2 DEF Queueing
  <2> QED
    BY <2>1, <2>3 DEF Queueing
<1>5. Len(works'[kind]) = Len(works[kind]) + 1 /\ Len(works[kind]) \in Nat
  <2>1. works'[kind] = Append(works[kind], name) /\ works[kind] \in Seq(Name)
    BY <1>1, <1>2
  <2> QED
    BY <1>2, <2>1
<1>6. \A k \in Kind: k # kind => works'[k] = works[k]
  BY <1>1, <1>2
<1>7. /\ Cardinality(Queueing(kind)') = Cardinality(Queueing(kind)) - 1
      /\ Cardinality(Queueing(kind)) \in Nat /\ Cardinality(Queueing(kind)) # 0
  <2>1. Cardinality(Queueing(kind)) # 0
    BY <1>2, <1>3, QueueingFinite, FS_EmptySet
  <2> QED
    BY <1>2, <1>3, <2>1, QueueingFinite, FS_RemoveElement, ZenonT(30)
<1>8. Len(works[kind]) < MaxWork[kind] /\ Requested(kind)' <= MaxWork[kind]
  <2>1. Requested(kind) <= MaxWork[kind] /\ MaxWork[kind] \in Nat
    BY <1>2, ParametersAssumption DEF RequestInv
  <2> QED
    BY <1>5, <1>7, <2>1 DEF Requested
<1>9. \A k \in Kind: k # kind => Requested(k)' <= MaxWork[k]
  BY <1>4, <1>6 DEF Requested, RequestInv
<1>10. ASSUME NEW k \in Kind
       PROVE  /\ Requested(k)' <= MaxWork[k]
              /\ \/ Len(works'[k]) = Len(works[k])
                 \/ /\ Len(works'[k]) = Len(works[k]) + 1
                    /\ Len(works[k]) < MaxWork[k]
  <2>1. CASE k = kind
    BY <1>5, <1>8, <2>1
  <2>2. CASE k # kind
    BY <1>6, <1>9, <2>2
  <2> QED
    BY <2>1, <2>2
<1> QED
  BY <1>10 DEF RequestInv

\* What a step does to one queue, seen as a service.
ServiceStep(k) ==
  \/ /\ Len(works[k]) < MaxWork[k] /\ Len(works'[k]) = Len(works[k]) + 1
     /\ calls'[k] = calls[k]
  \/ /\ Len(calls[k]) < Len(works[k]) /\ Len(works'[k]) = Len(works[k])
     /\ \E ok \in BOOLEAN: calls'[k] = Append(calls[k], ok)
  \/ Len(works'[k]) = Len(works[k]) /\ calls'[k] = calls[k]

LEMMA ReportIsService ==
  ASSUME IInv, NEW k \in Kind, NEW ok \in BOOLEAN, Report(k, ok), works' = works,
         ~Empty(k), Answers(k) = popped[k]
  PROVE  \A j \in Kind: ServiceStep(j)
<1>1. QueueTypes /\ Len(calls[k]) = popped[k]
  BY TypeParts DEF IInv, CallsInv
<1>2. Len(calls[k]) < Len(works[k])
  <2>1. Len(works[k]) \in Nat /\ popped[k] \in Nat /\ popped[k] <= Len(works[k])
    BY <1>1 DEF QueueTypes
  <2> QED
    BY <1>1, <2>1 DEF Empty
<1>3. /\ calls'[k] = Append(calls[k], ok)
      /\ \A j \in Kind: j # k => calls'[j] = calls[j]
  BY <1>1 DEF Report, QueueTypes
<1> QED
  BY <1>2, <1>3 DEF ServiceStep

LEMMA NextIsService ==
  ASSUME IInv, RequestInv, [Next]_vars
  PROVE  RequestInv' /\ \A k \in Kind: ServiceStep(k)
<1>0. /\ TypeOK /\ NameInv /\ StateLockInv /\ FrontInv /\ BorrowInv
      /\ QueueTypes /\ SharedTypes /\ ThreadTypes
  BY TypeParts DEF IInv
<1>1. ASSUME UNCHANGED <<works, user>> PROVE RequestInv'
  BY <1>1 DEF RequestInv, Requested, Queueing
<1>2. ASSUME NEW u \in User, NEW k \in Kind, NEW n \in Name, ParamAsync(u, k, n)
      PROVE  RequestInv' /\ \A j \in Kind: ServiceStep(j)
  <2>1. RequestInv'
    BY <1>0, <1>2, ParamAsyncRequests
  <2> QED
    BY <1>2, <2>1 DEF ParamAsync, queueVars, ServiceStep
<1>3. ASSUME NEW u \in User, LockQueue(u)
      PROVE  RequestInv' /\ \A j \in Kind: ServiceStep(j)
  <2> DEFINE r == [user[u] EXCEPT !.pc = "pushing"]
  <2>1. user' = [user EXCEPT ![u] = r] /\ user[u].pc # "idle" /\ user[u] \in UserPosition
        /\ UNCHANGED <<works, calls>>
    BY <1>0, <1>3 DEF LockQueue, ThreadTypes, queueVars
  <2>2. r.pc = "pushing" /\ r.kind = user[u].kind
    BY <2>1 DEF UserPosition
  <2> HIDE DEF r
  <2>3. \A k \in Kind: Queueing(k)' = Queueing(k)
    BY <1>0, <2>1, <2>2 DEF Queueing, ThreadTypes
  <2>4. RequestInv'
    BY <2>1, <2>3 DEF RequestInv, Requested
  <2> QED
    BY <2>1, <2>4 DEF ServiceStep
<1>4. ASSUME NEW u \in User, PushBack(u)
      PROVE  RequestInv' /\ \A j \in Kind: ServiceStep(j)
  <2>1. calls' = calls
    BY <1>4 DEF PushBack
  <2> QED
    BY <1>0, <1>4, <2>1, PushBackRequests DEF ServiceStep
<1>5. CASE Answered
  <2>1. /\ recv.pc = "match" /\ Matches /\ Report(state, recv.message # "EXT_FAILED")
        /\ UNCHANGED <<works, user>>
    BY <1>5 DEF Answered, queueVars
  <2>2. /\ recv.kind = state /\ recv.kind \in Kind /\ stateLock = "recv"
        /\ sys.pc \notin Working /\ ~Empty(state)
    BY <1>0, <2>1 DEF FrontInv, StateLockInv, ThreadTypes, RecvPosition, Matches
  <2>3. Answers(state) = popped[state]
    BY <1>0, <2>1, <2>2 DEF Answers, Working, QueueTypes
  <2>4. \A j \in Kind: ServiceStep(j)
    BY <2>1, <2>2, <2>3, ReportIsService
  <2> QED
    BY <1>1, <2>1, <2>4
<1>6. CASE Expire \/ SendFails
  <2>1. /\ sys.pc \in {"send", "expire"} /\ UNCHANGED <<works, user>>
        /\ Report(state, FALSE) \/ Report(sys.kind, FALSE)
        /\ sys.pc = "expire" => ~Empty(state)
    BY <1>6 DEF Expire, SendFails, queueVars
  <2>2. /\ sys.kind = state /\ sys.kind \in Kind /\ recv.pc = "idle"
        /\ ~Empty(sys.kind)
    BY <1>0, <2>1
    DEF FrontInv, StateLockInv, BorrowInv, ThreadTypes, SysPosition, Working
  <2>3. Answers(sys.kind) = popped[sys.kind]
    BY <1>0, <2>1, <2>2 DEF Answers, QueueTypes
  <2>4. \A j \in Kind: ServiceStep(j)
    BY <2>1, <2>2, <2>3, ReportIsService
  <2> QED
    BY <1>1, <2>1, <2>4
<1>7. CASE \/ \E m \in Messages, n \in Name: Receive(m, n)
           \/ OtherName \/ InProgress \/ RecvPop
  BY <1>1, <1>7 DEF Receive, OtherName, InProgress, RecvPop, queueVars, ServiceStep
<1>8. CASE \/ FireTimer \/ NoTimerExpired \/ TimeoutIdle \/ TimeoutBusy \/ SysPop
           \/ WorkBusy \/ WorkIdle
  BY <1>1, <1>8 DEF FireTimer, NoTimerExpired, TimeoutIdle, TimeoutBusy, SysPop,
     WorkBusy, WorkIdle, queueVars, ServiceStep
<1>9. CASE BorrowSet \/ NothingToDo \/ BorrowGet \/ ReturnOther \/ SendRequest
  BY <1>1, <1>9 DEF BorrowSet, NothingToDo, BorrowGet, ReturnOther, SendRequest,
     queueVars, ServiceStep
<1>10. CASE UNCHANGED vars
  BY <1>1, <1>10 DEF vars, ServiceStep
<1> QED
  BY <1>2, <1>3, <1>4, <1>5, <1>6, <1>7, <1>8, <1>9, <1>10
  DEF Next, UserThread, Handler, SystemThread, DoWork

\* Each queue of the client answers its requests once and in order, whatever
\* the vehicle sends and whenever the timers fire.
THEOREM ServicesImplemented == Spec => Services
<1>1. Init => SetService!Init /\ GetService!Init
  BY DEF Init, SetService!Init, GetService!Init, Kind
<1>2. IInv /\ RequestInv /\ [Next]_vars =>
        /\ [SetService!Next]_(SetService!serviceVars)
        /\ [GetService!Next]_(GetService!serviceVars)
  <2> SUFFICES ASSUME IInv, RequestInv, [Next]_vars
               PROVE  /\ [SetService!Next]_(SetService!serviceVars)
                      /\ [GetService!Next]_(GetService!serviceVars)
    OBVIOUS
  <2>1. ServiceStep("set") /\ ServiceStep("get")
    BY NextIsService DEF Kind
  <2>2. [SetService!Next]_(SetService!serviceVars)
    BY <2>1 DEF ServiceStep, SetService!Next, SetService!Submit, SetService!Answer,
       SetService!serviceVars
  <2>3. [GetService!Next]_(GetService!serviceVars)
    BY <2>1 DEF ServiceStep, GetService!Next, GetService!Submit, GetService!Answer,
       GetService!serviceVars
  <2> QED
    BY <2>2, <2>3
<1>3. IInv /\ RequestInv /\ [Next]_vars => RequestInv'
  BY NextIsService
<1> QED
  BY <1>1, <1>2, <1>3, Invariance, InitRequestInv, PTL
  DEF Spec, Services, SetService!Spec, GetService!Spec

=============================================================================

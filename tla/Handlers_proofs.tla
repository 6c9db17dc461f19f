---------------------------- MODULE Handlers_proofs ----------------------------
(***************************************************************************)
(* What holds of the handlers for any number of owners, addresses and      *)
(* entries: the types, the validity of the iterator, and that a timeout    *)
(* either runs or is removed, and only once.                               *)
(*                                                                         *)
(* An iterator that points to an erased entry can only exist during a      *)
(* callback, and the flag is up then: IteratorValid is inductive as it     *)
(* stands.  RunOrRemoved needs to know where entries are: each in one      *)
(* place at most (OnePlace), no entry from the future anywhere (Fresh), and*)
(* nothing that has ended still in the map (EndedIsGone).                  *)
(***************************************************************************)
EXTENDS Handlers, TLAPS

\* The timeouts that have run or have been removed.
Ended(e) == runs[e] # 0 \/ e \in removed

OnePlace ==
  \A g, h \in Handler: \A a, b \in Addr:
    entries[g][a] # None /\ entries[g][a] = entries[h][b] => g = h /\ a = b

Fresh ==
  /\ \A h \in Handler: \A a \in Addr: entries[h][a] <= added
  /\ \A e \in Entry: Ended(e) => e <= added

EndedIsGone == \A e \in Entry: Ended(e) => \A a \in Addr: entries["timeout"][a] # e

IInv == TypeOK /\ OnePlace /\ Fresh /\ EndedIsGone /\ RunOrRemoved

-----------------------------------------------------------------------------
(* Types. *)

\* The initial state has the types.
LEMMA InitTypes == Init => TypeOK
BY HandlersAssumption
   DEF Init, TypeOK, Handler, Addr, End, Entry, None, Cookie, NoCookie, Outside, Place

\* A step of an owner keeps the types.
LEMMA OwnerTypes ==
  ASSUME TypeOK, NEW o \in Owner, OwnerThread(o)
  PROVE  TypeOK'
<1> USE HandlersAssumption
<1>1. ASSUME NEW h \in Handler, Add(o, h)  PROVE TypeOK'
  <2>1. added + 1 \in Entry /\ added' = added + 1 /\ added' \in 0 .. MaxAdds
    BY <1>1 DEF Add, TypeOK, Entry
  <2>2. PICK a \in Addr:
          /\ entries' = [entries EXCEPT ![h][a] = added + 1]
          /\ storing' = [storing EXCEPT ![o] = [handler |-> h, addr |-> a]]
    BY <1>1 DEF Add
  <2>3. entries' \in [Handler -> [Addr -> Entry \cup {None}]]
    BY <2>1, <2>2 DEF TypeOK
  <2>4. storing' \in [Owner -> Cookie]
    BY <2>2 DEF TypeOK, Cookie
  <2> QED  BY <1>1, <2>1, <2>3, <2>4 DEF Add, TypeOK, timeVars
<1>2. CASE StoreCookie(o)
  BY <1>2 DEF StoreCookie, TypeOK, timeVars, Cookie, NoCookie, Handler
<1>3. CASE Refresh(o)
  BY <1>3 DEF Refresh, TypeOK, ownerVars
<1>4. CASE Change(o)
  <2>1. cookie[o].addr \in Addr /\ entries["every"][cookie[o].addr] \in Entry
    BY <1>4 DEF Change, TypeOK, Used, Handler
  <2> QED  BY <1>4, <2>1 DEF Change, TypeOK, ownerVars
<1>5. CASE Remove(o)
  <2> DEFINE h == cookie[o].handler
             a == cookie[o].addr
  <2>1. h \in Handler /\ a \in Addr /\ entries[h][a] \in Entry
    BY <1>5 DEF Remove, TypeOK, Used, Cookie
  <2>2. /\ entries' = [entries EXCEPT ![h][a] = None]
        /\ invalidated' = [invalidated EXCEPT ![h] = TRUE]
        /\ removed' = Found(h, entries[h][a])
        /\ due' = due \ {entries[h][a]}
        /\ UNCHANGED <<added, now, ownerVars, sys, runs>>
    BY <1>5 DEF Remove
  <2>3. entries' \in [Handler -> [Addr -> Entry \cup {None}]]
    BY <2>1, <2>2 DEF TypeOK
  <2>4. removed' \subseteq Entry
    BY <2>1, <2>2 DEF TypeOK, Found
  <2> QED  BY <2>1, <2>2, <2>3, <2>4 DEF TypeOK, ownerVars
<1> QED  BY <1>1, <1>2, <1>3, <1>4, <1>5 DEF OwnerThread

\* Where an iterator goes is an address or end().
LEMMA FirstType ==
  ASSUME NEW S \in SUBSET Addr, NEW b, IsFirst(b, S)
  PROVE  b \in S \cup {End}
BY DEF IsFirst

\* A step of the system thread keeps the types.
LEMMA SystemTypes ==
  ASSUME TypeOK, SystemThread
  PROVE  TypeOK'
<1> USE HandlersAssumption
<1>1. CASE StartEvery
  BY <1>1 DEF StartEvery, TypeOK, Place, None, Handler, timeVars, ownerVars
<1>2. CASE CallEvery
  <2>1. sys.it \in Addr /\ sys.pc = "loop" /\ entries["every"][sys.it] \in due
    BY <1>2 DEF CallEvery, TypeOK, Place
  <2>2. sys' \in Place /\ sys'.entry \in Entry
    BY <1>2, <2>1 DEF CallEvery, TypeOK, Place
  <2> QED  BY <1>2, <2>2 DEF CallEvery, TypeOK, ownerVars
<1>3. CASE NotElapsed \/ EveryReturns
  <2>1. Break \/ GoOn
    BY <1>3 DEF NotElapsed, EveryReturns
  <2>2. sys' \in Place /\ invalidated' \in [Handler -> BOOLEAN]
    BY <2>1 DEF Break, GoOn, TypeOK, Place, None, End
  <2> QED  BY <1>3, <2>2 DEF NotElapsed, EveryReturns, TypeOK, timeVars, ownerVars
<1>4. CASE EndEvery
  BY <1>4 DEF EndEvery, TypeOK, Place, timeVars, ownerVars
<1>5. CASE StartTimeouts
  BY <1>5 DEF StartTimeouts, TypeOK, Place, None, Handler, ownerVars
<1>6. CASE CallTimeout
  <2>1. sys.it \in Addr /\ entries["timeout"][sys.it] \in due
    BY <1>6 DEF CallTimeout, TypeOK, Place
  <2>2. sys' \in Place /\ sys'.entry \in Entry
    BY <1>6, <2>1 DEF CallTimeout, TypeOK, Place
  <2>3. entries' \in [Handler -> [Addr -> Entry \cup {None}]]
    BY <1>6, <2>1 DEF CallTimeout, TypeOK, Handler
  <2>4. runs' \in [Entry -> Nat]
    BY <1>6, <2>2 DEF CallTimeout, TypeOK
  <2> QED  BY <1>6, <2>2, <2>3, <2>4 DEF CallTimeout, TypeOK, ownerVars
<1>7. CASE NotExpired \/ TimeoutReturns
  <2>1. Restart \/ \E next \in Addr \cup {End}: Continue(next)
    BY <1>7 DEF NotExpired, TimeoutReturns, TypeOK, Place
  <2>2. sys' \in Place /\ invalidated' \in [Handler -> BOOLEAN]
    BY <2>1 DEF Restart, Continue, TypeOK, Place, None
  <2> QED  BY <1>7, <2>2 DEF NotExpired, TimeoutReturns, TypeOK, timeVars, ownerVars
<1>8. CASE EndTimeouts
  BY <1>8 DEF EndTimeouts, TypeOK, Outside, Place, Handler, None, ownerVars
<1> QED  BY <1>1, <1>2, <1>3, <1>4, <1>5, <1>6, <1>7, <1>8 DEF SystemThread

\* Every step keeps the types.
LEMMA NextTypes == TypeOK /\ [Next]_vars => TypeOK'
<1> SUFFICES ASSUME TypeOK, [Next]_vars  PROVE TypeOK'
  OBVIOUS
<1>1. CASE TimePasses
  <2>1. PICK h \in Handler: \E e \in Live(h) \ due: due' = due \cup {e}
    BY <1>1 DEF TimePasses
  <2>2. Live(h) \subseteq Entry
    BY DEF Live, Used, TypeOK
  <2> QED  BY <1>1, <2>1, <2>2 DEF TimePasses, TypeOK, ownerVars
<1>2. CASE UNCHANGED vars
  BY <1>2 DEF vars, timeVars, ownerVars, TypeOK
<1> QED  BY <1>1, <1>2, OwnerTypes, SystemTypes DEF Next

\* The variables keep their types.
THEOREM TypeCorrect == Spec => []TypeOK
BY InitTypes, NextTypes, PTL DEF Spec

-----------------------------------------------------------------------------
(* The iterator. *)

\* Where an iterator goes in the map of h is in use or is end().
LEMMA IteratorLands ==
  ASSUME NEW h, NEW a, NEW b, IsBegin(b, h) \/ IsNext(b, h, a)
  PROVE  b \in Used(h) \cup {End}
BY DEF IsBegin, IsNext, IsFirst

\* Owners change the map of the handler that loops only during its callback,
\* and a removal raises the flag.
LEMMA OwnerKeepsIterator ==
  ASSUME TypeOK, IteratorValid, NEW o \in Owner, OwnerThread(o)
  PROVE  IteratorValid'
<1>1. ASSUME NEW h \in Handler, Add(o, h)  PROVE IteratorValid'
  <2>1. PICK a \in Addr: entries' = [entries EXCEPT ![h][a] = added + 1]
    BY <1>1 DEF Add
  <2>2. \A g \in Handler: Used(g) \subseteq Used(g)'
    BY <2>1, HandlersAssumption DEF Used, TypeOK, None, Entry
  <2>3. sys.handler \in Handler
    BY DEF TypeOK, Place
  <2> QED  BY <1>1, <2>2, <2>3 DEF Add, IteratorValid
<1>2. CASE StoreCookie(o) \/ Refresh(o) \/ Change(o)
  <2>1. UNCHANGED <<entries, invalidated, sys>>
    BY <1>2 DEF StoreCookie, Refresh, Change
  <2> QED  BY <2>1 DEF IteratorValid, Used
<1>3. CASE Remove(o)
  <2> DEFINE h == cookie[o].handler
             a == cookie[o].addr
  <2>1. /\ h \in Handler /\ a \in Addr /\ ~Locked(h)
        /\ entries' = [entries EXCEPT ![h][a] = None]
        /\ invalidated' = [invalidated EXCEPT ![h] = TRUE]
        /\ UNCHANGED sys
    BY <1>3 DEF Remove, Used, TypeOK, Cookie
  <2>2. CASE sys.handler = h
    BY <2>1, <2>2 DEF IteratorValid, Locked, TypeOK
  <2>3. CASE sys.handler # h
    <3>1. sys.handler \in Handler
      BY DEF TypeOK, Place
    <3>2. Used(sys.handler)' = Used(sys.handler) /\ invalidated'[sys.handler] = invalidated[sys.handler]
      BY <2>1, <2>3, <3>1 DEF Used, TypeOK
    <3> QED  BY <2>1, <3>2 DEF IteratorValid
  <2> QED  BY <2>2, <2>3
<1> QED  BY <1>1, <1>2, <1>3 DEF OwnerThread

\* Starting over from begin() makes the iterator valid.
LEMMA RestartLands ==
  ASSUME TypeOK, Restart, UNCHANGED entries, sys.handler = "timeout"
  PROVE  IteratorValid'
<1>1. PICK begin: IsBegin(begin, "timeout")
                  /\ sys' = [sys EXCEPT !.pc = "loop", !.it = begin, !.entry = None]
  BY DEF Restart
<1>2. begin \in Used("timeout") \cup {End}
  BY <1>1, IteratorLands
<1> QED  BY <1>1, <1>2 DEF IteratorValid, TypeOK, Place, Used

\* The loop looks at the flag before it uses its iterator after a callback.
LEMMA SystemKeepsIterator ==
  ASSUME TypeOK, IteratorValid, SystemThread
  PROVE  IteratorValid'
<1>1. CASE StartEvery
  <2>1. PICK begin: IsBegin(begin, "every") /\ sys'.pc = "loop" /\ sys'.it = begin
                    /\ sys'.handler = "every" /\ UNCHANGED entries
    BY <1>1 DEF StartEvery
  <2>2. begin \in Used("every") \cup {End}
    BY <2>1, IteratorLands
  <2> QED  BY <2>1, <2>2 DEF IteratorValid, Used
<1>2. CASE CallEvery
  <2>1. /\ sys.it \in Used("every") /\ UNCHANGED <<entries, invalidated>>
        /\ sys'.pc = "call" /\ sys'.it = sys.it /\ sys'.handler = "every"
    BY <1>2 DEF CallEvery, IteratorValid, TypeOK, Place
  <2> QED  BY <2>1 DEF IteratorValid, Used
<1>3. CASE NotElapsed \/ EveryReturns
  <2>1. UNCHANGED entries /\ sys.handler = "every"
    BY <1>3 DEF NotElapsed, EveryReturns
  <2>2. CASE Break
    BY <2>2 DEF Break, IteratorValid, TypeOK, Place
  <2>3. CASE GoOn
    <3>1. PICK next: IsNext(next, "every", sys.it)
                     /\ sys' = [sys EXCEPT !.pc = "loop", !.it = next, !.entry = None]
      BY <2>3 DEF GoOn
    <3>2. next \in Used("every") \cup {End}
      BY <3>1, IteratorLands
    <3> QED  BY <2>1, <3>1, <3>2 DEF IteratorValid, TypeOK, Place, Used
  <2> QED  BY <1>3, <2>2, <2>3 DEF NotElapsed, EveryReturns
<1>4. CASE EndEvery
  BY <1>4 DEF EndEvery, IteratorValid, TypeOK, Place
<1>5. CASE StartTimeouts
  <2>1. PICK begin: IsBegin(begin, "timeout") /\ sys'.pc = "loop" /\ sys'.it = begin
                    /\ sys'.handler = "timeout" /\ UNCHANGED entries
    BY <1>5 DEF StartTimeouts
  <2>2. begin \in Used("timeout") \cup {End}
    BY <2>1, IteratorLands
  <2> QED  BY <2>1, <2>2 DEF IteratorValid, Used
<1>6. CASE CallTimeout
  <2>1. PICK next \in Addr \cup {End}:
          /\ IsNext(next, "timeout", sys.it)
          /\ sys' = [sys EXCEPT !.pc = "call", !.it = next,
                               !.entry = entries["timeout"][sys.it]]
    BY <1>6 DEF CallTimeout
  <2>2. /\ sys'.pc = "call" /\ sys'.it = next /\ sys'.handler = "timeout"
        /\ sys.it \in Addr
    BY <1>6, <2>1 DEF CallTimeout, TypeOK, Place
  <2>3. next \in {c \in Used("timeout"): c > sys.it} \cup {End}
    BY <2>1 DEF IsNext, IsFirst
  <2>4. next \in Used("timeout")' \cup {End}
    <3>1. entries' = [entries EXCEPT !["timeout"][sys.it] = None]
      BY <1>6 DEF CallTimeout
    <3>2. next # sys.it \/ next = End
      BY <2>2, <2>3, HandlersAssumption DEF Addr, End, Used
    <3> QED  BY <2>2, <2>3, <3>1, <3>2 DEF Used, TypeOK, Handler
  <2> QED  BY <2>2, <2>4 DEF IteratorValid
<1>7. CASE NotExpired
  <2>1. UNCHANGED entries /\ sys.handler = "timeout"
    BY <1>7 DEF NotExpired
  <2>2. CASE Restart
    BY <2>1, <2>2, RestartLands
  <2>3. CASE \E next \in Addr \cup {End}: IsNext(next, "timeout", sys.it) /\ Continue(next)
    <3>1. PICK next: IsNext(next, "timeout", sys.it) /\ Continue(next)
      BY <2>3
    <3>2. next \in Used("timeout") \cup {End}
      BY <3>1, IteratorLands
    <3> QED  BY <2>1, <3>1, <3>2 DEF Continue, IteratorValid, TypeOK, Place, Used
  <2> QED  BY <1>7, <2>2, <2>3 DEF NotExpired
<1>8. CASE TimeoutReturns
  <2>1. UNCHANGED entries /\ sys.handler = "timeout" /\ sys.pc = "call"
    BY <1>8 DEF TimeoutReturns
  <2>2. CASE Restart
    BY <2>1, <2>2, RestartLands
  <2>3. CASE Continue(sys.it)
    BY <2>1, <2>3 DEF Continue, IteratorValid, TypeOK, Place, Used
  <2> QED  BY <1>8, <2>2, <2>3 DEF TimeoutReturns
<1>9. CASE EndTimeouts
  BY <1>9 DEF EndTimeouts, Outside, IteratorValid
<1> QED  BY <1>1, <1>2, <1>3, <1>4, <1>5, <1>6, <1>7, <1>8, <1>9 DEF SystemThread

\* The loops of run_once never follow an iterator to an erased entry, whatever
\* the owners and the callbacks add and remove.
THEOREM IteratorsAreValid == Spec => []IteratorValid
<1>1. Init => IteratorValid
  BY DEF Init, Outside, IteratorValid
<1>2. TypeOK /\ IteratorValid /\ [Next]_vars => IteratorValid'
  <2> SUFFICES ASSUME TypeOK, IteratorValid, [Next]_vars  PROVE IteratorValid'
    OBVIOUS
  <2>1. CASE TimePasses \/ UNCHANGED vars
    BY <2>1 DEF TimePasses, vars, IteratorValid, Used
  <2> QED  BY <2>1, OwnerKeepsIterator, SystemKeepsIterator DEF Next
<1> QED  BY <1>1, <1>2, TypeCorrect, PTL DEF Spec

-----------------------------------------------------------------------------
(* How a timeout ends. *)

\* What is in the maps comes from what was there: a lemma for the steps that
\* add nothing.
LEMMA KeepsPlaces ==
  ASSUME IInv, added' = added, UNCHANGED <<runs, removed>>,
         \A h \in Handler: \A a \in Addr: entries'[h][a] \in {entries[h][a], None}
  PROVE  (OnePlace /\ Fresh /\ EndedIsGone /\ RunOrRemoved)'
<1>1. OnePlace'
  BY DEF IInv, OnePlace
<1>2. Fresh'
  BY DEF IInv, TypeOK, Fresh, Ended, None
<1>3. EndedIsGone'
  BY DEF IInv, EndedIsGone, Ended, Handler, None, Entry
<1>4. RunOrRemoved'
  BY DEF IInv, RunOrRemoved
<1> QED  BY <1>1, <1>2, <1>3, <1>4

\* A timeout that is taken out of its place has not ended before.
LEMMA TakenOut ==
  ASSUME IInv, TypeOK', NEW h \in Handler, NEW a \in Addr, entries[h][a] # None,
         added' = added, entries' = [entries EXCEPT ![h][a] = None],
         \/ h = "timeout" /\ removed' = removed /\ runs' = [runs EXCEPT ![entries[h][a]] = @ + 1]
         \/ runs' = runs /\ removed' = Found(h, entries[h][a])
  PROVE  (OnePlace /\ Fresh /\ EndedIsGone /\ RunOrRemoved)'
<1> DEFINE t == entries[h][a]
<1>1. t \in Entry /\ t <= added /\ h \in Handler /\ Entry \subseteq Nat /\ None \notin Entry
  BY DEF IInv, TypeOK, Fresh, None, Entry
<1>2. /\ \A g \in Handler: \A b \in Addr: entries'[g][b] \in {entries[g][b], None}
      /\ \A g \in Handler: \A b \in Addr: entries'[g][b] # t
  BY <1>1 DEF IInv, TypeOK, OnePlace
<1>3. \A e \in Entry: Ended(e)' => Ended(e) \/ (e = t /\ h = "timeout")
  BY <1>1 DEF IInv, TypeOK, Ended, Found
<1>4. OnePlace'
  BY <1>2 DEF IInv, OnePlace
<1>5. Fresh'
  BY <1>1, <1>2, <1>3 DEF IInv, TypeOK, Fresh, None
<1>6. EndedIsGone'
  BY <1>1, <1>2, <1>3 DEF IInv, EndedIsGone, Handler
<1>7. RunOrRemoved'
  <2>1. h = "timeout" => runs[t] = 0 /\ t \notin removed
    BY <1>1 DEF IInv, EndedIsGone, Ended
  <2>2. SUFFICES ASSUME NEW e \in Entry  PROVE runs'[e] <= IF e \in removed' THEN 0 ELSE 1
    BY DEF RunOrRemoved
  <2>3. CASE e # t
    BY <1>1, <2>3 DEF IInv, TypeOK, RunOrRemoved, Found
  <2>4. CASE e = t
    BY <1>1, <2>1, <2>4 DEF IInv, TypeOK, RunOrRemoved, Found
  <2> QED  BY <2>3, <2>4
<1> QED  BY <1>4, <1>5, <1>6, <1>7

\* A new entry is none of those before it.
LEMMA AddKeepsInv ==
  ASSUME IInv, NEW o \in Owner, NEW h \in Handler, Add(o, h)
  PROVE  (OnePlace /\ Fresh /\ EndedIsGone /\ RunOrRemoved)'
<1>1. PICK a \in Addr: entries' = [entries EXCEPT ![h][a] = added + 1]
  BY DEF Add
<1>2. /\ added \in Nat /\ added' = added + 1 /\ UNCHANGED <<runs, removed>>
  BY HandlersAssumption DEF IInv, TypeOK, Add
<1>3. \A g \in Handler: \A b \in Addr:
        /\ entries[g][b] \in Nat /\ entries[g][b] <= added
        /\ entries'[g][b] = IF g = h /\ b = a THEN added + 1 ELSE entries[g][b]
  BY <1>1 DEF IInv, TypeOK, Fresh, Entry, None
<1>4. OnePlace'
  BY <1>2, <1>3 DEF IInv, OnePlace, None
<1>5. Fresh'
  BY <1>2, <1>3 DEF IInv, Fresh, Ended, Entry
<1>6. EndedIsGone'
  BY <1>2, <1>3 DEF IInv, Fresh, EndedIsGone, Ended, Handler, Entry
<1>7. RunOrRemoved'
  BY <1>2 DEF IInv, RunOrRemoved
<1> QED  BY <1>4, <1>5, <1>6, <1>7

\* Every step keeps the inductive invariant.
LEMMA NextIInv == IInv /\ [Next]_vars => IInv'
<1> SUFFICES ASSUME IInv, [Next]_vars  PROVE (OnePlace /\ Fresh /\ EndedIsGone /\ RunOrRemoved)'
  BY NextTypes DEF IInv
<1>1. TypeOK /\ TypeOK'
  BY NextTypes DEF IInv
<1>2. ASSUME NEW o \in Owner, OwnerThread(o)  PROVE (OnePlace /\ Fresh /\ EndedIsGone /\ RunOrRemoved)'
  <2>1. CASE \E h \in Handler: Add(o, h)
    BY <2>1, AddKeepsInv
  <2>2. CASE StoreCookie(o) \/ Refresh(o) \/ Change(o)
    <3>1. UNCHANGED <<entries, added, runs, removed>>
      BY <2>2 DEF StoreCookie, Refresh, Change
    <3> QED  BY <3>1, KeepsPlaces
  <2>3. CASE Remove(o)
    <3>1. PICK h \in Handler, a \in Addr:
            /\ entries[h][a] # None
            /\ entries' = [entries EXCEPT ![h][a] = None]
            /\ removed' = Found(h, entries[h][a])
            /\ UNCHANGED <<added, runs>>
      BY <1>1, <2>3 DEF Remove, Used, TypeOK, Cookie
    <3> QED  BY <1>1, <3>1, TakenOut
  <2> QED  BY <1>2, <2>1, <2>2, <2>3 DEF OwnerThread
<1>3. CASE CallTimeout
  <2>1. /\ sys.it \in Addr /\ entries["timeout"][sys.it] \in Entry
        /\ sys'.entry = entries["timeout"][sys.it]
    BY <1>1, <1>3 DEF CallTimeout, TypeOK, Place
  <2>2. /\ entries["timeout"][sys.it] # None
        /\ entries' = [entries EXCEPT !["timeout"][sys.it] = None]
        /\ runs' = [runs EXCEPT ![entries["timeout"][sys.it]] = @ + 1]
        /\ UNCHANGED <<added, removed>>
    BY <1>3, <2>1 DEF CallTimeout, Entry, None
  <2>3. "timeout" \in Handler
    BY DEF Handler
  <2> QED  BY <1>1, <2>1, <2>2, <2>3, TakenOut
<1>4. CASE \/ StartEvery \/ CallEvery \/ NotElapsed \/ EveryReturns \/ EndEvery
           \/ StartTimeouts \/ NotExpired \/ TimeoutReturns \/ EndTimeouts
           \/ TimePasses \/ UNCHANGED vars
  <2>1. UNCHANGED <<entries, added, runs, removed>>
    BY <1>4 DEF StartEvery, CallEvery, NotElapsed, EveryReturns, EndEvery, StartTimeouts,
                NotExpired, TimeoutReturns, EndTimeouts, TimePasses, vars
  <2> QED  BY <2>1, KeepsPlaces
<1> QED  BY <1>2, <1>3, <1>4 DEF Next, SystemThread

\* A timeout runs once at most, and not at all when remove has found it.
THEOREM TimeoutsEndOnce == Spec => []RunOrRemoved
<1>1. Init => IInv
  <2> SUFFICES ASSUME Init  PROVE OnePlace /\ Fresh /\ EndedIsGone /\ RunOrRemoved
    BY InitTypes DEF IInv
  <2> QED  BY DEF Init, OnePlace, Fresh, EndedIsGone, RunOrRemoved, Ended, None, Entry, Handler
<1>2. IInv => RunOrRemoved
  BY DEF IInv
<1> QED  BY <1>1, <1>2, NextIInv, PTL DEF Spec

=============================================================================

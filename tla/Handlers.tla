------------------------------- MODULE Handlers -------------------------------
(***************************************************************************)
(* The two handlers the system thread runs in turn: CallEveryHandler       *)
(* (core/call_every_handler.cpp), for periodic calls, and TimeoutHandler   *)
(* (core/timeout_handler.cpp), for calls that run once.  Both keep a map   *)
(* from cookies, which are the addresses of the entries, to entries, and   *)
(* walk through it with an iterator.  They unlock the map while a callback *)
(* runs, so that the callback and the other threads can add, refresh and   *)
(* remove entries meanwhile, and _iterator_invalidated tells the loop that *)
(* something was removed.                                                  *)
(*                                                                         *)
(* Owners are the components that own an entry; one stands for its thread  *)
(* and, while the system thread is in a callback, for the callback.  An    *)
(* address is free again as soon as its entry is gone, and a cookie is     *)
(* not forgotten when its entry goes: it may come to name another's.       *)
(***************************************************************************)
EXTENDS Integers, FiniteSets

CONSTANTS
  Owner,    \* components that own an entry
  MaxAddr,  \* the heap: addresses of entries
  MaxAdds   \* bound: entries ever added

Handler == {"every", "timeout"}
Addr    == 1 .. MaxAddr
End     == MaxAddr + 1         \* end(), and a cookie that names nothing
Entry   == 1 .. MaxAdds
None    == 0

ASSUME HandlersAssumption == MaxAddr \in Nat /\ MaxAdds \in Nat

VARIABLES
  entries,      \* per handler: the entry at an address, or None
  added,        \* how many entries have been added
  invalidated,  \* per handler: _iterator_invalidated
  due,          \* the entries of the maps whose time has come
  now,          \* the entries that were due when this pass of the timeouts began
  cookie,       \* per owner: the handler and the address of its entry
  storing,      \* per owner: what add is about to write to *cookie
  sys,          \* the system thread: where it is, in which handler, its iterator,
                \* and the entry whose callback it runs
  runs,         \* history, per entry: calls of the callback of a timeout
  removed       \* history: the timeouts that remove has found

timeVars  == <<due, now>>
ownerVars == <<cookie, storing>>
vars == <<entries, added, invalidated, timeVars, ownerVars, sys, runs, removed>>

Cookie    == [handler: Handler, addr: Addr \cup {End}]
NoCookie  == [handler |-> "timeout", addr |-> End]
Outside   == [pc |-> "outside", handler |-> "every", it |-> End, entry |-> None]

Init ==
  /\ entries = [h \in Handler |-> [a \in Addr |-> None]]
  /\ added = 0
  /\ invalidated = [h \in Handler |-> FALSE]
  /\ due = {} /\ now = {}
  /\ cookie = [o \in Owner |-> NoCookie]
  /\ storing = [o \in Owner |-> NoCookie]
  /\ sys = Outside
  /\ runs = [e \in Entry |-> 0]
  /\ removed = {}

Used(h)  == {a \in Addr: entries[h][a] # None}
Live(h)  == {entries[h][a] : a \in Used(h)}

\* What remove has found, if that is a timeout.
Found(h, e) == removed \cup {t \in {e}: h = "timeout"}

\* The mutex of a handler is held by the loop, and is free during a callback.
Locked(h) == sys.pc = "loop" /\ sys.handler = h

\* b is where an iterator goes that looks for the first address in S.
IsFirst(b, S) == b \in S \cup {End} /\ \A a \in S: b <= a
IsBegin(b, h)   == IsFirst(b, Used(h))
IsNext(b, h, a) == IsFirst(b, {c \in Used(h): c > a})

-----------------------------------------------------------------------------
(* Faulty variants of the actions below, one per property. *)

\* Removes without telling the loop.
RemoveUntold(o) ==
  LET h == cookie[o].handler
      a == cookie[o].addr
  IN  /\ ~Locked(h)
      /\ a \in Used(h)
      /\ entries' = [entries EXCEPT ![h][a] = None]
      /\ removed' = Found(h, entries[h][a])
      /\ due' = due \ {entries[h][a]}
      /\ UNCHANGED <<added, invalidated, now, ownerVars, sys, runs>>

\* Does not erase the entry before it calls.
CallTimeoutKept ==
  /\ sys.pc = "loop" /\ sys.handler = "timeout" /\ sys.it # End
  /\ entries["timeout"][sys.it] \in now \cap due
  /\ \E next \in Addr \cup {End}:
       /\ IsNext(next, "timeout", sys.it)
       /\ sys' = [sys EXCEPT !.pc = "call", !.it = next, !.entry = entries["timeout"][sys.it]]
  /\ runs' = [runs EXCEPT ![sys'.entry] = @ + 1]
  /\ UNCHANGED <<entries, added, invalidated, timeVars, ownerVars, removed>>

\* Leaves _iterator_invalidated set.
RestartUnreset ==
  /\ invalidated["timeout"]
  /\ UNCHANGED invalidated
  /\ \E begin \in Addr \cup {End}:
       /\ IsBegin(begin, "timeout")
       /\ sys' = [sys EXCEPT !.pc = "loop", !.it = begin, !.entry = None]

-----------------------------------------------------------------------------
(* The owners: add, refresh and reset, remove. *)

\* The entry is in the map before its owner has the cookie.
Add(o, h) ==
  /\ ~Locked(h)
  /\ storing[o] = NoCookie
  /\ added < MaxAdds
  /\ added' = added + 1
  /\ \E a \in Addr \ UNION {Used(g) : g \in Handler}:
       /\ entries' = [entries EXCEPT ![h][a] = added + 1]
       /\ storing' = [storing EXCEPT ![o] = [handler |-> h, addr |-> a]]
  /\ UNCHANGED <<invalidated, timeVars, cookie, sys, runs, removed>>

StoreCookie(o) ==
  /\ storing[o] # NoCookie
  /\ cookie' = [cookie EXCEPT ![o] = storing[o]]
  /\ storing' = [storing EXCEPT ![o] = NoCookie]
  /\ UNCHANGED <<entries, added, invalidated, timeVars, sys, runs, removed>>

\* TimeoutHandler::refresh and CallEveryHandler::reset start the time again.
Refresh(o) ==
  LET h == cookie[o].handler
      a == cookie[o].addr
  IN  /\ ~Locked(h)
      /\ a \in Used(h)
      /\ due' = due \ {entries[h][a]}
      /\ UNCHANGED <<entries, added, invalidated, now, ownerVars, sys, runs, removed>>

\* CallEveryHandler::change may end the wait at once, or prolong it.
Change(o) ==
  LET a == cookie[o].addr
  IN  /\ cookie[o].handler = "every"
      /\ ~Locked("every")
      /\ a \in Used("every")
      /\ due' \in {due \cup {entries["every"][a]}, due \ {entries["every"][a]}}
      /\ UNCHANGED <<entries, added, invalidated, now, ownerVars, sys, runs, removed>>

\* Removes what the cookie names, if it names anything.
Remove(o) ==
  LET h == cookie[o].handler
      a == cookie[o].addr
  IN  /\ ~Locked(h)
      /\ a \in Used(h)
      /\ entries' = [entries EXCEPT ![h][a] = None]
      /\ invalidated' = [invalidated EXCEPT ![h] = TRUE]
      /\ removed' = Found(h, entries[h][a])
      /\ due' = due \ {entries[h][a]}
      /\ UNCHANGED <<added, now, ownerVars, sys, runs>>

\* The time of an entry comes.
TimePasses ==
  /\ \E h \in Handler: \E e \in Live(h) \ due: due' = due \cup {e}
  /\ UNCHANGED <<entries, added, invalidated, now, ownerVars, sys, runs, removed>>

-----------------------------------------------------------------------------
(* The system thread: CallEveryHandler::run_once, ... *)

\* The thread leaves the loop, or goes on to the next entry.
Break ==
  /\ invalidated["every"]
  /\ invalidated' = [invalidated EXCEPT !["every"] = FALSE]
  /\ sys' = [sys EXCEPT !.pc = "between", !.it = End, !.entry = None]

GoOn ==
  /\ ~invalidated["every"]
  /\ UNCHANGED invalidated
  /\ \E next \in Addr \cup {End}:
       /\ IsNext(next, "every", sys.it)
       /\ sys' = [sys EXCEPT !.pc = "loop", !.it = next, !.entry = None]

StartEvery ==
  /\ sys.pc = "outside"
  /\ \E begin \in Addr \cup {End}:
       /\ IsBegin(begin, "every")
       /\ sys' = [pc |-> "loop", handler |-> "every", it |-> begin, entry |-> None]
  /\ UNCHANGED <<entries, added, invalidated, timeVars, ownerVars, runs, removed>>

\* The call is scheduled again before it is made; it may be due again at once.
CallEvery ==
  /\ sys.pc = "loop" /\ sys.handler = "every" /\ sys.it # End
  /\ entries["every"][sys.it] \in due
  /\ sys' = [sys EXCEPT !.pc = "call", !.entry = entries["every"][sys.it]]
  /\ due' \in {due, due \ {sys'.entry}}
  /\ UNCHANGED <<entries, added, invalidated, now, ownerVars, runs, removed>>

NotElapsed ==
  /\ sys.pc = "loop" /\ sys.handler = "every" /\ sys.it # End
  /\ entries["every"][sys.it] \notin due
  /\ Break \/ GoOn
  /\ UNCHANGED <<entries, added, timeVars, ownerVars, runs, removed>>

EveryReturns ==
  /\ sys.pc = "call" /\ sys.handler = "every"
  /\ Break \/ GoOn
  /\ UNCHANGED <<entries, added, timeVars, ownerVars, runs, removed>>

EndEvery ==
  /\ sys.pc = "loop" /\ sys.handler = "every" /\ sys.it = End
  /\ sys' = [sys EXCEPT !.pc = "between"]
  /\ UNCHANGED <<entries, added, invalidated, timeVars, ownerVars, runs, removed>>

(* ... and TimeoutHandler::run_once. *)

\* The time is read once per pass.
StartTimeouts ==
  /\ sys.pc = "between"
  /\ \E begin \in Addr \cup {End}:
       /\ IsBegin(begin, "timeout")
       /\ sys' = [pc |-> "loop", handler |-> "timeout", it |-> begin, entry |-> None]
  /\ now' = due
  /\ UNCHANGED <<entries, added, invalidated, due, ownerVars, runs, removed>>

\* The loop starts over after a removal, or goes on.
Restart ==
  /\ invalidated["timeout"]
  /\ invalidated' = [invalidated EXCEPT !["timeout"] = FALSE]
  /\ \E begin \in Addr \cup {End}:
       /\ IsBegin(begin, "timeout")
       /\ sys' = [sys EXCEPT !.pc = "loop", !.it = begin, !.entry = None]

Continue(next) ==
  /\ ~invalidated["timeout"]
  /\ UNCHANGED invalidated
  /\ sys' = [sys EXCEPT !.pc = "loop", !.it = next, !.entry = None]

\* The entry is erased, and the iterator moved on, before the callback is called.
CallTimeout ==
  /\ sys.pc = "loop" /\ sys.handler = "timeout" /\ sys.it # End
  /\ entries["timeout"][sys.it] \in now \cap due
  /\ \E next \in Addr \cup {End}:
       /\ IsNext(next, "timeout", sys.it)
       /\ sys' = [sys EXCEPT !.pc = "call", !.it = next, !.entry = entries["timeout"][sys.it]]
  /\ entries' = [entries EXCEPT !["timeout"][sys.it] = None]
  /\ due' = due \ {sys'.entry}
  /\ runs' = [runs EXCEPT ![sys'.entry] = @ + 1]
  /\ UNCHANGED <<added, invalidated, now, ownerVars, removed>>

NotExpired ==
  /\ sys.pc = "loop" /\ sys.handler = "timeout" /\ sys.it # End
  /\ entries["timeout"][sys.it] \notin now \cap due
  /\ \/ Restart
     \/ \E next \in Addr \cup {End}: IsNext(next, "timeout", sys.it) /\ Continue(next)
  /\ UNCHANGED <<entries, added, timeVars, ownerVars, runs, removed>>

TimeoutReturns ==
  /\ sys.pc = "call" /\ sys.handler = "timeout"
  /\ Restart \/ Continue(sys.it)
  /\ UNCHANGED <<entries, added, timeVars, ownerVars, runs, removed>>

EndTimeouts ==
  /\ sys.pc = "loop" /\ sys.handler = "timeout" /\ sys.it = End
  /\ sys' = Outside
  /\ now' = {}
  /\ UNCHANGED <<entries, added, invalidated, due, ownerVars, runs, removed>>

-----------------------------------------------------------------------------

OwnerThread(o) ==
  (\E h \in Handler: Add(o, h)) \/ StoreCookie(o) \/ Refresh(o) \/ Change(o) \/ Remove(o)

SystemThread ==
  \/ StartEvery \/ CallEvery \/ NotElapsed \/ EveryReturns \/ EndEvery
  \/ StartTimeouts \/ CallTimeout \/ NotExpired \/ TimeoutReturns \/ EndTimeouts

Next == (\E o \in Owner: OwnerThread(o)) \/ SystemThread \/ TimePasses

\* The system thread runs, and callbacks return.  Owners and time need not move.
Spec     == Init /\ [][Next]_vars
FairSpec == Spec /\ WF_vars(SystemThread)
-----------------------------------------------------------------------------
(* Properties. *)

Place == [pc: {"outside", "between", "loop", "call"}, handler: Handler,
          it: Addr \cup {End}, entry: Entry \cup {None}]

\* The variables have their types.
TypeOK ==
  /\ entries \in [Handler -> [Addr -> Entry \cup {None}]]
  /\ added \in 0 .. MaxAdds
  /\ invalidated \in [Handler -> BOOLEAN]
  /\ due \subseteq Entry /\ now \subseteq Entry
  /\ cookie \in [Owner -> Cookie] /\ storing \in [Owner -> Cookie]
  /\ sys \in Place
  /\ runs \in [Entry -> Nat]
  /\ removed \subseteq Entry

\* The loop never follows an iterator whose entry was erased while a callback
\* ran ("This triggers that the iterator is invalid and causes a segfault if
\* not handled properly", timeout_handler_test.cpp:144-146).
IteratorValid ==
  /\ sys.pc = "loop" => sys.it \in Used(sys.handler) \cup {End}
  /\ sys.pc = "call" => invalidated[sys.handler] \/ sys.it \in Used(sys.handler) \cup {End}

\* A timeout runs once at most, and one that remove has found never runs, in
\* every interleaving of the loop with the owners (timeout_handler.cpp:60-69:
\* "Self-destruct before calling").
RunOrRemoved == \A e \in Entry: runs[e] <= IF e \in removed THEN 0 ELSE 1

\* A pass over the handlers ends, whatever is removed and added meanwhile.
PassEnds == sys.pc # "outside" ~> sys.pc = "outside"

\* What is due is called, unless it is removed or its time starts again: a
\* removal by a callback cannot keep the other entries waiting for ever.
DueIsCalled ==
  \A e \in Entry: e \in due ~> e \notin due \/ (sys.pc = "call" /\ sys.entry = e)

\* The system thread serves the handlers: its passes end, and what is due is called.
ThreadServes == PassEnds /\ DueIsCalled
=============================================================================

----------------------------- MODULE CppThread -----------------------------
(***************************************************************************)
(* CppThread (cpp_tools/CppThread.hpp): start, stop and join a thread that *)
(* runs a function until it is told to stop.  An owner creates and closes  *)
(* the threads; a thread's function is, like every one in the program,     *)
(*                                                                         *)
(*     while (!is_stop()) { work under a lock }                            *)
(*                                                                         *)
(* and the lock is CRWLock (module RWLock), taken to read or to write.     *)
(***************************************************************************)
EXTENDS RWLock

CONSTANT MaxStarts     \* bound: threads created

ASSUME ThreadAssumption == MaxStarts \in Nat

VARIABLES
    stop_, exit_,  \* the object's flags
    place,         \* where its thread is
    owner,         \* what the owner does with it
    starts,        \* threads created
    early          \* history: closed before its thread had cleared the flag?

threadvars == <<stop_, exit_, place, owner, starts, early>>
vars == <<lockvars, threadvars>>

Init ==
    /\ LockInit
    /\ stop_ = [t \in Users |-> TRUE] /\ exit_ = [t \in Users |-> TRUE]
    /\ place = [t \in Users |-> "none"] /\ owner = [t \in Users |-> "idle"]
    /\ starts = 0 /\ early = [t \in Users |-> FALSE]

-----------------------------------------------------------------------------
(* The owner *)

create_thread(t) ==
    /\ owner[t] = "idle" /\ starts < MaxStarts
    /\ owner' = [owner EXCEPT ![t] = "open"]
    /\ place' = [place EXCEPT ![t] = "born"]
    /\ early' = [early EXCEPT ![t] = FALSE]
    /\ starts' = starts + 1
    /\ UNCHANGED <<lockvars, stop_, exit_>>

\* close_thread up to its join; callers that set_stop(true) first change nothing.
close_thread(t) ==
    /\ owner[t] = "open"
    /\ owner' = [owner EXCEPT ![t] = "closing"]
    /\ stop_' = [stop_ EXCEPT ![t] = TRUE]
    /\ early' = [early EXCEPT ![t] = place[t] = "born"]
    /\ UNCHANGED <<lockvars, exit_, place, starts>>

close_thread_returns(t) ==
    /\ owner[t] = "closing" /\ place[t] = "gone"
    /\ owner' = [owner EXCEPT ![t] = "idle"]
    /\ UNCHANGED <<lockvars, stop_, exit_, place, starts, early>>

-----------------------------------------------------------------------------
(* The thread: controll_function and the function it calls                 *)

Goes(t, from, to) == place[t] = from /\ place' = [place EXCEPT ![t] = to]

ClearStop(t) ==
    /\ Goes(t, "born", "clear")
    /\ stop_' = [stop_ EXCEPT ![t] = FALSE]
    /\ UNCHANGED <<lockvars, exit_, owner, starts, early>>

\* The exit flag is cleared, and the function called.
ClearExit_restart(t) == \* (slip: the stop flag is cleared here)
    /\ Goes(t, "clear", "loop")
    /\ exit_' = [exit_ EXCEPT ![t] = FALSE] /\ stop_' = [stop_ EXCEPT ![t] = FALSE]
    /\ UNCHANGED <<lockvars, owner, starts, early>>
ClearExit(t) ==
    /\ Goes(t, "clear", "loop")
    /\ exit_' = [exit_ EXCEPT ![t] = FALSE]
    /\ UNCHANGED <<lockvars, stop_, owner, starts, early>>

\* is_stop, at the head of the loop.
AtHead_inside(t) == place[t] = "loop" /\ holds[t] # "write"   \* (slip: also inside)
AtHead(t) == place[t] = "loop" /\ holds[t] = "out"

is_stop(t) ==
    /\ AtHead(t)
    /\ IF stop_[t]
       THEN Goes(t, "loop", "left") /\ UNCHANGED lockvars
       ELSE (\E mode \in {"read?", "write?"} : Call(t, mode)) /\ UNCHANGED place
    /\ UNCHANGED <<stop_, exit_, owner, starts, early>>

Work(t) ==
    /\ read_lock(t) \/ write_lock(t) \/ read_unlock(t) \/ write_unlock(t)
    /\ UNCHANGED threadvars

SetExit(t) ==
    /\ Goes(t, "left", "gone")
    /\ exit_' = [exit_ EXCEPT ![t] = TRUE]
    /\ UNCHANGED <<lockvars, stop_, owner, starts, early>>

-----------------------------------------------------------------------------
Thread(t) == ClearStop(t) \/ ClearExit(t) \/ is_stop(t) \/ Work(t) \/ SetExit(t)
Owner(t) == create_thread(t) \/ close_thread(t)
Wakes(t) == SpuriousWakeUp(t) /\ UNCHANGED threadvars

Next == \E t \in Users : Owner(t) \/ close_thread_returns(t) \/ Thread(t) \/ Wakes(t)

Spec == Init /\ [][Next]_vars

\* Threads run, and join returns; nothing obliges the owner to do more.
FairSpec == Spec /\ \A t \in Users : WF_vars(Thread(t)) /\ WF_vars(close_thread_returns(t))

-----------------------------------------------------------------------------
\* Every variable keeps its type, and only a thread in its loop is at the lock.
TypeOK ==
    /\ LockTypeOK
    /\ stop_ \in [Users -> BOOLEAN] /\ exit_ \in [Users -> BOOLEAN]
    /\ place \in [Users -> {"none", "born", "clear", "loop", "left", "gone"}]
    /\ owner \in [Users -> {"idle", "open", "closing"}]
    /\ starts \in 0..MaxStarts /\ early \in [Users -> BOOLEAN]
    /\ \A t \in Users : holds[t] # "out" => place[t] = "loop"

\* The new thread never undoes a close_thread that came after it had begun.
StopHeeded == \A t \in Users : owner[t] = "closing" /\ ~early[t] => stop_[t]

\* When the threads are all closed, and none too early, each close_thread
\* returns: no thread is left waiting for the lock for ever.
ShutdownEnds == \A u \in Users :
    owner[u] = "closing" /\ (\A t \in Users : owner[t] # "open" /\ ~early[t])
    ~> owner[u] = "idle" \/ \E t \in Users : owner[t] = "open"
=============================================================================

------------------------------- MODULE RWLock -------------------------------
(***************************************************************************)
(* CRWLock (cpp_tools/CppReadWriteLock.hpp): many readers or one writer,   *)
(* from a mutex, one condition variable and a counter.                     *)
(*                                                                         *)
(* Each method holds the mutex from its first line to its last but for the *)
(* wait, so it is one step, or one that goes to wait and, woken up, starts *)
(* over.  notify_one wakes any one of those that wait; a wait may also end *)
(* for no reason.                                                          *)
(***************************************************************************)
EXTENDS Integers, FiniteSets

CONSTANT Users     \* the threads that use the lock

ASSUME UsersAssumption == IsFiniteSet(Users)

VARIABLES
    rw_cnt,        \* 0: no lock; < 0: write; > 0: read
    waiting,       \* the threads in _cv.wait
    holds          \* per thread: what it asks for or holds

lockvars == <<rw_cnt, waiting, holds>>

Modes == {"out", "read?", "write?", "read", "write"}

LockInit == rw_cnt = 0 /\ waiting = {} /\ holds = [u \in Users |-> "out"]

Readers == {u \in Users : holds[u] = "read"}
Writers == {u \in Users : holds[u] = "write"}

\* u is in the loop of read_lock or write_lock, and awake.
Asks(u, mode) == holds[u] = mode /\ u \notin waiting

Becomes(u, mode) == holds' = [holds EXCEPT ![u] = mode]

-----------------------------------------------------------------------------
Call(u, mode) ==
    /\ holds[u] = "out" /\ Becomes(u, mode)
    /\ UNCHANGED <<rw_cnt, waiting>>

read_lock_free == rw_cnt >= 0

read_lock(u) ==
    /\ Asks(u, "read?")
    /\ IF read_lock_free
       THEN rw_cnt' = rw_cnt + 1 /\ Becomes(u, "read") /\ UNCHANGED waiting
       ELSE waiting' = waiting \union {u} /\ UNCHANGED <<rw_cnt, holds>>

write_lock_free_nowriter == rw_cnt >= 0           \* (slip: beside readers)
write_lock_free == rw_cnt = 0

write_lock(u) ==
    /\ Asks(u, "write?")
    /\ IF write_lock_free
       THEN rw_cnt' = rw_cnt - 1 /\ Becomes(u, "write") /\ UNCHANGED waiting
       ELSE waiting' = waiting \union {u} /\ UNCHANGED <<rw_cnt, holds>>

notify_one == IF waiting = {} THEN waiting' = waiting
                              ELSE \E u \in waiting : waiting' = waiting \ {u}
notify_all == waiting' = {}

\* Whom the last reader wakes.
notify_reader_nobody == UNCHANGED waiting         \* (slip: nobody)
notify_reader == IF rw_cnt' = 0 THEN notify_one ELSE UNCHANGED waiting

read_unlock(u) ==
    /\ holds[u] = "read" /\ Becomes(u, "out")
    /\ rw_cnt' = rw_cnt - 1
    /\ notify_reader

write_unlock(u) ==
    /\ holds[u] = "write" /\ Becomes(u, "out")
    /\ rw_cnt' = 0
    /\ notify_all

SpuriousWakeUp(u) ==
    /\ u \in waiting /\ waiting' = waiting \ {u}
    /\ UNCHANGED <<rw_cnt, holds>>

-----------------------------------------------------------------------------
LockNext == \E u \in Users :
    \/ \E mode \in {"read?", "write?"} : Call(u, mode)
    \/ read_lock(u) \/ write_lock(u) \/ read_unlock(u) \/ write_unlock(u)
    \/ SpuriousWakeUp(u)

LockSpec == LockInit /\ [][LockNext]_lockvars

-----------------------------------------------------------------------------
\* Every variable keeps its type; only who asks for the lock waits.
LockTypeOK ==
    /\ rw_cnt \in Int
    /\ holds \in [Users -> Modes]
    /\ waiting \subseteq {u \in Users : holds[u] \in {"read?", "write?"}}

\* The counter tells who is in: one writer alone, or as many readers.
Exclusion ==
    /\ rw_cnt = Cardinality(Readers) - Cardinality(Writers)
    /\ Writers # {} => Readers = {} /\ Cardinality(Writers) = 1

\* CRWLock implements ReadersWriter.
Admission == INSTANCE ReadersWriter WITH reading <- Readers, writing <- Writers
ImplementsReadersWriter == Admission!RWSpec

\* No wake-up is lost: a reader waits only on a writer, and whenever the lock
\* is free somebody who has asked for it is awake, if anybody waits.
NoLostWakeUp ==
    /\ \A u \in waiting : holds[u] = "read?" => Writers # {}
    /\ rw_cnt = 0 /\ waiting # {} =>
         \E u \in Users : Asks(u, "read?") \/ Asks(u, "write?")
=============================================================================

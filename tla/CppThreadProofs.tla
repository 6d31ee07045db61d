--------------------------- MODULE CppThreadProofs ---------------------------
(***************************************************************************)
(* CRWLock and the threads of CppThread that use it, for any finite set of *)
(* threads and any number of starts.  The lock's counter is what the code  *)
(* decides by, so its invariant is that it counts the readers, or is -1 for *)
(* the writer; the wake-ups then follow from who can change it.  What a    *)
(* thread of CppThread does with the lock is a behaviour of RWLock, so what *)
(* is proved of the lock holds there; the flags need the invariant that a  *)
(* thread closed in time has cleared the stop flag already.                *)
(***************************************************************************)
EXTENDS CppThread, FiniteSetTheorems, TLAPS

-----------------------------------------------------------------------------
(* The lock                                                                *)

LockInv == LockTypeOK /\ Exclusion /\ NoLostWakeUp

\* What a step that makes u's mode another one does to the two sets.
LEMMA SetsChange ==
    ASSUME LockTypeOK, NEW u \in Users, NEW mode \in Modes, Becomes(u, mode)
    PROVE  /\ Readers' = IF mode = "read" THEN Readers \union {u} ELSE Readers \ {u}
           /\ Writers' = IF mode = "write" THEN Writers \union {u} ELSE Writers \ {u}
           /\ holds' \in [Users -> Modes]
           /\ \A v \in Users : holds'[v] = IF v = u THEN mode ELSE holds[v]
BY DEF LockTypeOK, Becomes, Readers, Writers, Modes

LEMMA SetsFinite == /\ IsFiniteSet(Readers) /\ IsFiniteSet(Writers)
                    /\ Cardinality(Readers) \in Nat /\ Cardinality(Writers) \in Nat
                    /\ Cardinality(Readers) = 0 <=> Readers = {}
                    /\ Cardinality(Writers) = 0 <=> Writers = {}
<1>1. Readers \in SUBSET Users /\ Writers \in SUBSET Users
  BY DEF Readers, Writers
<1>2. IsFiniteSet(Readers) /\ IsFiniteSet(Writers)
  BY <1>1, FS_Subset, UsersAssumption
<1> QED BY <1>2, FS_CardinalityType, FS_EmptySet

\* What the counter says about who is in.
LEMMA CounterTells ==
    ASSUME Exclusion
    PROVE  /\ rw_cnt = 0 <=> Readers = {} /\ Writers = {}
           /\ rw_cnt < 0 <=> Writers # {}
           /\ rw_cnt > 0 <=> Readers # {}
           /\ Writers # {} => rw_cnt = -1
BY SetsFinite DEF Exclusion

\* Whoever only joins or leaves those that ask changes nobody's access.
LEMMA NoAccess ==
    ASSUME LockInv, NEW u \in Users, NEW mode \in {"out", "read?", "write?"},
           holds[u] \in {"out", "read?", "write?"}, Becomes(u, mode), rw_cnt' = rw_cnt
    PROVE  Readers' = Readers /\ Writers' = Writers /\ Exclusion'
<1>1. Readers' = Readers /\ Writers' = Writers
  BY SetsChange DEF LockInv, Modes, Readers, Writers
<1> QED BY <1>1 DEF LockInv, Exclusion

LEMMA CallStep ==
    ASSUME LockInv, NEW u \in Users, NEW mode \in {"read?", "write?"}, Call(u, mode)
    PROVE  LockInv'
<1>1. Becomes(u, mode) /\ rw_cnt' = rw_cnt /\ waiting' = waiting /\ holds[u] = "out"
  BY DEF Call
<1>2. Readers' = Readers /\ Writers' = Writers /\ Exclusion'
  BY <1>1, NoAccess
<1>3. holds' \in [Users -> Modes] /\ \A v \in Users : holds'[v] = IF v = u THEN mode ELSE holds[v]
  BY <1>1, SetsChange DEF LockInv, Modes
<1>4. LockTypeOK'
  BY <1>1, <1>3 DEF LockInv, LockTypeOK
<1>5. NoLostWakeUp'
  BY <1>1, <1>2, <1>3 DEF LockInv, LockTypeOK, NoLostWakeUp, Asks
<1> QED BY <1>2, <1>4, <1>5 DEF LockInv

LEMMA ReadLockStep == ASSUME LockInv, NEW u \in Users, read_lock(u) PROVE LockInv'
<1>1. holds[u] = "read?" /\ u \notin waiting
  BY DEF read_lock, Asks
<1>2. CASE read_lock_free
  <2>1. rw_cnt' = rw_cnt + 1 /\ Becomes(u, "read") /\ waiting' = waiting /\ rw_cnt >= 0
    BY <1>2 DEF read_lock, read_lock_free
  <2>2. /\ Readers' = Readers \union {u} /\ Writers' = Writers \ {u}
        /\ holds' \in [Users -> Modes]
        /\ \A v \in Users : holds'[v] = IF v = u THEN "read" ELSE holds[v]
    BY <2>1, SetsChange DEF LockInv, Modes
  <2>3. u \notin Readers /\ u \notin Writers
    BY <1>1 DEF Readers, Writers
  <2>4. Cardinality(Readers') = Cardinality(Readers) + 1
    BY <2>2, <2>3, FS_AddElement, SetsFinite
  <2>5. Writers = {} /\ Writers' = {}
    BY <2>1, <2>2, CounterTells DEF LockInv, LockTypeOK
  <2>6. Exclusion'
    BY <2>1, <2>4, <2>5, SetsFinite DEF LockInv, Exclusion
  <2>7. LockTypeOK'
    BY <1>1, <2>1, <2>2 DEF LockInv, LockTypeOK
  <2>8. NoLostWakeUp'
    BY <1>1, <2>1, <2>2, <2>5 DEF LockInv, LockTypeOK, NoLostWakeUp, Asks
  <2> QED BY <2>6, <2>7, <2>8 DEF LockInv
<1>3. CASE ~read_lock_free
  <2>1. waiting' = waiting \union {u} /\ rw_cnt' = rw_cnt /\ holds' = holds /\ rw_cnt < 0
    BY <1>3 DEF read_lock, read_lock_free, LockInv, LockTypeOK
  <2>2. Readers' = Readers /\ Writers' = Writers /\ Writers # {}
    BY <2>1, CounterTells DEF Readers, Writers, LockInv
  <2>3. LockTypeOK' /\ Exclusion'
    BY <1>1, <2>1, <2>2 DEF LockInv, LockTypeOK, Exclusion
  <2>4. NoLostWakeUp'
    BY <2>1, <2>2 DEF NoLostWakeUp
  <2> QED BY <2>3, <2>4 DEF LockInv
<1> QED BY <1>2, <1>3

LEMMA WriteLockStep == ASSUME LockInv, NEW u \in Users, write_lock(u) PROVE LockInv'
<1>1. holds[u] = "write?" /\ u \notin waiting
  BY DEF write_lock, Asks
<1>2. CASE write_lock_free
  <2>1. rw_cnt' = rw_cnt - 1 /\ Becomes(u, "write") /\ waiting' = waiting /\ rw_cnt = 0
    BY <1>2 DEF write_lock, write_lock_free
  <2>2. /\ Readers' = Readers \ {u} /\ Writers' = Writers \union {u}
        /\ holds' \in [Users -> Modes]
        /\ \A v \in Users : holds'[v] = IF v = u THEN "write" ELSE holds[v]
    BY <2>1, SetsChange DEF LockInv, Modes
  <2>3. Readers = {} /\ Writers = {}
    BY <2>1, CounterTells DEF LockInv
  <2>4. Readers' = {} /\ Writers' = {u} /\ Cardinality(Writers') = 1 /\ Cardinality(Readers') = 0
    BY <2>2, <2>3, FS_Singleton, FS_EmptySet
  <2>5. Exclusion'
    BY <2>1, <2>4 DEF Exclusion
  <2>6. LockTypeOK'
    BY <1>1, <2>1, <2>2 DEF LockInv, LockTypeOK
  <2>7. NoLostWakeUp'
    BY <2>1, <2>4 DEF NoLostWakeUp
  <2> QED BY <2>5, <2>6, <2>7 DEF LockInv
<1>3. CASE ~write_lock_free
  <2>1. waiting' = waiting \union {u} /\ rw_cnt' = rw_cnt /\ holds' = holds /\ rw_cnt # 0
    BY <1>3 DEF write_lock, write_lock_free
  <2>2. Readers' = Readers /\ Writers' = Writers
    BY <2>1 DEF Readers, Writers
  <2>3. LockTypeOK' /\ Exclusion'
    BY <1>1, <2>1, <2>2 DEF LockInv, LockTypeOK, Exclusion
  <2>4. NoLostWakeUp'
    BY <1>1, <2>1, <2>2 DEF LockInv, NoLostWakeUp
  <2> QED BY <2>3, <2>4 DEF LockInv
<1> QED BY <1>2, <1>3

LEMMA ReadUnlockStep == ASSUME LockInv, NEW u \in Users, read_unlock(u) PROVE LockInv'
<1>1. holds[u] = "read" /\ Becomes(u, "out") /\ rw_cnt' = rw_cnt - 1 /\ u \notin waiting
  BY DEF read_unlock, LockInv, LockTypeOK
<1>2. /\ Readers' = Readers \ {u} /\ Writers' = Writers \ {u}
      /\ holds' \in [Users -> Modes]
      /\ \A v \in Users : holds'[v] = IF v = u THEN "out" ELSE holds[v]
  BY <1>1, SetsChange DEF LockInv, Modes
<1>3. u \in Readers /\ Writers = {} /\ Writers' = {}
  BY <1>1, <1>2 DEF Readers, LockInv, Exclusion
<1>4. Cardinality(Readers') = Cardinality(Readers) - 1
  BY <1>2, <1>3, FS_RemoveElement, SetsFinite
<1>5. Exclusion'
  BY <1>1, <1>3, <1>4, SetsFinite DEF LockInv, Exclusion
<1>6. /\ waiting' \subseteq waiting
      /\ rw_cnt' = 0 /\ waiting # {} => \E v \in waiting : waiting' = waiting \ {v}
  BY DEF read_unlock, notify_reader, notify_one
<1>7. LockTypeOK'
  BY <1>1, <1>2, <1>6 DEF LockInv, LockTypeOK
<1>8. NoLostWakeUp'
  <2>1. \A v \in waiting' : holds'[v] = "read?" => Writers' # {}
    BY <1>1, <1>2, <1>3, <1>6 DEF LockInv, LockTypeOK, NoLostWakeUp
  <2>2. ASSUME rw_cnt' = 0, waiting' # {}
        PROVE  \E v \in Users : Asks(v, "read?")' \/ Asks(v, "write?")'
    <3>1. PICK v \in waiting : waiting' = waiting \ {v}
      BY <1>6, <2>2
    <3>2. v \in Users /\ holds'[v] \in {"read?", "write?"} /\ v \notin waiting'
      BY <1>1, <1>2, <3>1 DEF LockInv, LockTypeOK
    <3> QED BY <3>2 DEF Asks
  <2> QED BY <2>1, <2>2 DEF NoLostWakeUp
<1> QED BY <1>5, <1>7, <1>8 DEF LockInv

LEMMA WriteUnlockStep == ASSUME LockInv, NEW u \in Users, write_unlock(u) PROVE LockInv'
<1>1. holds[u] = "write" /\ Becomes(u, "out") /\ rw_cnt' = 0 /\ waiting' = {}
  BY DEF write_unlock, notify_all
<1>2. /\ Readers' = Readers \ {u} /\ Writers' = Writers \ {u}
      /\ holds' \in [Users -> Modes]
  BY <1>1, SetsChange DEF LockInv, Modes
<1>3. u \in Writers /\ Readers = {} /\ \E v : Writers = {v}
  BY <1>1, FS_Singleton, SetsFinite DEF Writers, LockInv, Exclusion
<1>4. Readers' = {} /\ Writers' = {}
  BY <1>2, <1>3
<1>5. Exclusion'
  BY <1>1, <1>4, FS_EmptySet DEF Exclusion
<1>6. LockTypeOK' /\ NoLostWakeUp'
  BY <1>1, <1>2 DEF LockTypeOK, NoLostWakeUp
<1> QED BY <1>5, <1>6 DEF LockInv

LEMMA WakeStep == ASSUME LockInv, NEW u \in Users, SpuriousWakeUp(u) PROVE LockInv'
<1>1. u \in waiting /\ waiting' = waiting \ {u} /\ rw_cnt' = rw_cnt /\ holds' = holds
  BY DEF SpuriousWakeUp
<1>2. Readers' = Readers /\ Writers' = Writers
  BY <1>1 DEF Readers, Writers
<1>3. LockTypeOK' /\ Exclusion'
  BY <1>1, <1>2 DEF LockInv, LockTypeOK, Exclusion
<1>4. NoLostWakeUp'
  BY <1>1, <1>2 DEF LockInv, LockTypeOK, NoLostWakeUp, Asks
<1> QED BY <1>3, <1>4 DEF LockInv

-----------------------------------------------------------------------------
LEMMA LockInvInit == LockInit => LockInv
<1> SUFFICES ASSUME LockInit PROVE LockInv
  OBVIOUS
<1>1. Readers = {} /\ Writers = {}
  BY DEF LockInit, Readers, Writers
<1> QED BY <1>1, FS_EmptySet DEF LockInit, LockInv, LockTypeOK, Exclusion, NoLostWakeUp, Modes

LEMMA LockInvStep == LockInv /\ [LockNext]_lockvars => LockInv'
<1> SUFFICES ASSUME LockInv, [LockNext]_lockvars PROVE LockInv'
  OBVIOUS
<1>1. CASE LockNext
  BY <1>1, CallStep, ReadLockStep, WriteLockStep, ReadUnlockStep, WriteUnlockStep, WakeStep
     DEF LockNext
<1>2. CASE UNCHANGED lockvars
  BY <1>2 DEF lockvars, LockInv, LockTypeOK, Exclusion, NoLostWakeUp, Readers, Writers, Asks
<1> QED BY <1>1, <1>2

\* CRWLock lets in one writer alone or any number of readers, and leaves
\* nobody asleep when nobody is in and nobody else is about to come.
THEOREM LockInvariant == LockSpec => []LockInv
BY LockInvInit, LockInvStep, PTL DEF LockSpec

\* A step of the lock is one of the abstract readers/writer lock, or nothing
\* to it: threads that ask, wait and wake up are.
LEMMA AdmissionStep ==
    LockInv /\ [LockNext]_lockvars => [Admission!RWNext]_(Admission!rwvars)
<1> SUFFICES ASSUME LockInv, [LockNext]_lockvars
             PROVE  Admission!RWNext \/ (Readers' = Readers /\ Writers' = Writers)
  BY DEF Admission!rwvars
<1>1. ASSUME NEW u \in Users, NEW mode \in {"read?", "write?"}, Call(u, mode)
      PROVE  Readers' = Readers /\ Writers' = Writers
  BY <1>1, NoAccess DEF Call
<1>2. ASSUME NEW u \in Users, read_lock(u)
      PROVE  Admission!StartRead(u) \/ (Readers' = Readers /\ Writers' = Writers)
  <2>1. CASE read_lock_free
    <3>1. Readers' = Readers \union {u} /\ Writers' = Writers \ {u}
      BY <1>2, <2>1, SetsChange DEF read_lock, LockInv, Modes
    <3>2. Writers = {} /\ u \notin Readers
      BY <1>2, <2>1, CounterTells
         DEF read_lock, Asks, read_lock_free, Readers, LockInv, LockTypeOK
    <3> QED BY <3>1, <3>2 DEF Admission!StartRead
  <2>2. CASE ~read_lock_free
    BY <1>2, <2>2 DEF read_lock, Readers, Writers
  <2> QED BY <2>1, <2>2
<1>3. ASSUME NEW u \in Users, write_lock(u)
      PROVE  Admission!StartWrite(u) \/ (Readers' = Readers /\ Writers' = Writers)
  <2>1. CASE write_lock_free
    <3>1. Readers' = Readers \ {u} /\ Writers' = Writers \union {u}
      BY <1>3, <2>1, SetsChange DEF write_lock, LockInv, Modes
    <3>2. Readers = {} /\ Writers = {}
      BY <2>1, CounterTells DEF write_lock_free, LockInv
    <3> QED BY <3>1, <3>2 DEF Admission!StartWrite
  <2>2. CASE ~write_lock_free
    BY <1>3, <2>2 DEF write_lock, Readers, Writers
  <2> QED BY <2>1, <2>2
<1>4. ASSUME NEW u \in Users, read_unlock(u) PROVE Admission!Stop(u)
  <2>1. Readers' = Readers \ {u} /\ Writers' = Writers \ {u} /\ u \in Readers
    BY <1>4, SetsChange DEF read_unlock, LockInv, Modes, Readers
  <2>2. Writers = {}
    BY <2>1 DEF LockInv, Exclusion
  <2> QED BY <2>1, <2>2 DEF Admission!Stop
<1>5. ASSUME NEW u \in Users, write_unlock(u) PROVE Admission!Stop(u)
  <2>1. Readers' = Readers \ {u} /\ Writers' = Writers \ {u} /\ u \in Writers
    BY <1>5, SetsChange DEF write_unlock, LockInv, Modes, Writers
  <2>2. Readers = {} /\ \E v : Writers = {v}
    BY <2>1, FS_Singleton, SetsFinite DEF LockInv, Exclusion
  <2> QED BY <2>1, <2>2 DEF Admission!Stop
<1>6. ASSUME NEW u \in Users, SpuriousWakeUp(u) PROVE Readers' = Readers /\ Writers' = Writers
  BY <1>6 DEF SpuriousWakeUp, Readers, Writers
<1>7. CASE UNCHANGED lockvars
  BY <1>7 DEF lockvars, Readers, Writers
<1> QED BY <1>1, <1>2, <1>3, <1>4, <1>5, <1>6, <1>7 DEF LockNext, Admission!RWNext

\* CRWLock implements the abstract readers/writer lock.
THEOREM LockRefinement == LockSpec => ImplementsReadersWriter
<1>1. LockInit => Admission!RWInit
  BY DEF LockInit, Admission!RWInit, Readers, Writers
<1>2. LockInv /\ [LockNext]_lockvars => [Admission!RWNext]_(Admission!rwvars)
  BY AdmissionStep
<1> QED BY <1>1, <1>2, LockInvariant, PTL
        DEF LockSpec, ImplementsReadersWriter, Admission!RWSpec

-----------------------------------------------------------------------------
(* The threads                                                             *)

\* What the threads do is a behaviour of the lock.
LEMMA LockUse == [Next]_vars => [LockNext]_lockvars
<1> SUFFICES ASSUME [Next]_vars PROVE LockNext \/ UNCHANGED lockvars
  OBVIOUS
<1>1. CASE UNCHANGED vars
  BY <1>1 DEF vars
<1>2. ASSUME NEW t \in Users, Owner(t) \/ close_thread_returns(t)
      PROVE  UNCHANGED lockvars
  BY <1>2 DEF Owner, create_thread, close_thread, close_thread_returns
<1>3. ASSUME NEW t \in Users, Thread(t)
      PROVE  LockNext \/ UNCHANGED lockvars
  BY <1>3 DEF Thread, ClearStop, ClearExit, is_stop, Work, SetExit, LockNext
<1>4. ASSUME NEW t \in Users, Wakes(t)
      PROVE  LockNext
  BY <1>4 DEF Wakes, LockNext
<1> QED BY <1>1, <1>2, <1>3, <1>4 DEF Next

LEMMA UsesLock == Spec => LockSpec
<1>1. Init => LockInit
  BY DEF Init
<1> QED BY <1>1, LockUse, PTL DEF Spec, LockSpec

LEMMA LockInvHere == Spec => []LockInv
BY UsesLock, LockInvariant, PTL

-----------------------------------------------------------------------------
\* An idle object's thread is not running, and one closed in time is past the
\* line that clears the stop flag.
Places ==
    \A t \in Users :
        /\ owner[t] = "idle" => place[t] \in {"none", "gone"}
        /\ owner[t] = "closing" /\ ~early[t] => place[t] # "born"

ThreadInv == TypeOK /\ Places /\ StopHeeded

LEMMA ThreadInit == Init => ThreadInv
<1> SUFFICES ASSUME Init PROVE ThreadInv
  OBVIOUS
<1>1. LockTypeOK
  BY LockInvInit DEF Init, LockInv
<1> QED BY <1>1, ThreadAssumption
        DEF Init, LockInit, ThreadInv, TypeOK, Places, StopHeeded

LEMMA OwnerStep ==
    ASSUME ThreadInv, NEW t \in Users, Owner(t) \/ close_thread_returns(t)
    PROVE  ThreadInv'
<1>1. rw_cnt' = rw_cnt /\ waiting' = waiting /\ holds' = holds /\ exit_' = exit_
  BY DEF Owner, create_thread, close_thread, close_thread_returns, lockvars
<1>2. LockTypeOK'
  BY <1>1 DEF ThreadInv, TypeOK, LockTypeOK
<1>3. CASE create_thread(t)
  <2>1. starts' \in 0..MaxStarts
    BY <1>3, ThreadAssumption DEF create_thread, ThreadInv, TypeOK
  <2>2. holds[t] = "out"
    BY <1>3 DEF create_thread, ThreadInv, TypeOK, Places
  <2>3. TypeOK'
    BY <1>1, <1>2, <1>3, <2>1, <2>2 DEF create_thread, ThreadInv, TypeOK
  <2>4. Places' /\ StopHeeded'
    BY <1>3 DEF create_thread, ThreadInv, TypeOK, Places, StopHeeded
  <2> QED BY <2>3, <2>4 DEF ThreadInv
<1>4. CASE close_thread(t)
  <2>1. TypeOK'
    BY <1>1, <1>2, <1>4 DEF close_thread, ThreadInv, TypeOK
  <2>2. Places' /\ StopHeeded'
    BY <1>4 DEF close_thread, ThreadInv, TypeOK, Places, StopHeeded
  <2> QED BY <2>1, <2>2 DEF ThreadInv
<1>5. CASE close_thread_returns(t)
  <2>1. TypeOK'
    BY <1>1, <1>2, <1>5 DEF close_thread_returns, ThreadInv, TypeOK
  <2>2. Places' /\ StopHeeded'
    BY <1>5 DEF close_thread_returns, ThreadInv, TypeOK, Places, StopHeeded
  <2> QED BY <2>1, <2>2 DEF ThreadInv
<1> QED BY <1>3, <1>4, <1>5 DEF Owner

\* A step of the lock alone.
LEMMA LockOnlyStep ==
    ASSUME ThreadInv, LockTypeOK', UNCHANGED threadvars, NEW t \in Users,
           \A u \in Users \ {t} : holds'[u] = holds[u],
           holds[t] # "out" \/ place[t] = "loop"
    PROVE  ThreadInv'
BY DEF threadvars, ThreadInv, TypeOK, Places, StopHeeded

LEMMA ThreadStep ==
    ASSUME ThreadInv, LockTypeOK', NEW t \in Users, Thread(t) \/ Wakes(t)
    PROVE  ThreadInv'
<1>1. CASE ClearStop(t)
  <2>1. /\ place[t] = "born" /\ place' = [place EXCEPT ![t] = "clear"]
        /\ stop_' = [stop_ EXCEPT ![t] = FALSE]
        /\ holds' = holds /\ exit_' = exit_ /\ owner' = owner
        /\ starts' = starts /\ early' = early
    BY <1>1 DEF ClearStop, Goes, lockvars
  <2>2. TypeOK'
    BY <2>1 DEF ThreadInv, TypeOK
  <2> QED BY <2>1, <2>2 DEF ThreadInv, TypeOK, Places, StopHeeded
<1>2. CASE ClearExit(t)
  <2>1. /\ place[t] = "clear" /\ place' = [place EXCEPT ![t] = "loop"]
        /\ exit_' = [exit_ EXCEPT ![t] = FALSE]
        /\ holds' = holds /\ stop_' = stop_ /\ owner' = owner
        /\ starts' = starts /\ early' = early
    BY <1>2 DEF ClearExit, Goes, lockvars
  <2>2. TypeOK'
    BY <2>1 DEF ThreadInv, TypeOK
  <2> QED BY <2>1, <2>2 DEF ThreadInv, TypeOK, Places, StopHeeded
<1>3. CASE is_stop(t) /\ stop_[t]
  <2>1. /\ place[t] = "loop" /\ holds[t] = "out" /\ place' = [place EXCEPT ![t] = "left"]
        /\ holds' = holds /\ stop_' = stop_ /\ exit_' = exit_ /\ owner' = owner
        /\ starts' = starts /\ early' = early
    BY <1>3 DEF is_stop, AtHead, Goes, lockvars
  <2>2. TypeOK'
    BY <2>1 DEF ThreadInv, TypeOK
  <2> QED BY <2>1, <2>2 DEF ThreadInv, TypeOK, Places, StopHeeded
<1>4. CASE is_stop(t) /\ ~stop_[t]
  <2>1. /\ UNCHANGED threadvars /\ place[t] = "loop"
        /\ \E mode \in {"read?", "write?"} : Becomes(t, mode)
    BY <1>4 DEF is_stop, AtHead, Call, threadvars
  <2>2. \A u \in Users \ {t} : holds'[u] = holds[u]
    BY <2>1 DEF Becomes, ThreadInv, TypeOK, LockTypeOK
  <2> QED BY <2>1, <2>2, LockOnlyStep
<1>5. CASE Work(t)
  <2>1. holds[t] # "out" /\ \A u \in Users \ {t} : holds'[u] = holds[u]
    BY <1>5 DEF Work, read_lock, write_lock, read_unlock, write_unlock, Asks, Becomes,
                ThreadInv, TypeOK, LockTypeOK
  <2> QED BY <1>5, <2>1, LockOnlyStep DEF Work
<1>6. CASE SetExit(t)
  <2>1. /\ place[t] = "left" /\ place' = [place EXCEPT ![t] = "gone"]
        /\ exit_' = [exit_ EXCEPT ![t] = TRUE]
        /\ holds' = holds /\ stop_' = stop_ /\ owner' = owner
        /\ starts' = starts /\ early' = early
    BY <1>6 DEF SetExit, Goes, lockvars
  <2>2. TypeOK'
    BY <2>1 DEF ThreadInv, TypeOK
  <2> QED BY <2>1, <2>2 DEF ThreadInv, TypeOK, Places, StopHeeded
<1>7. CASE Wakes(t)
  <2>1. UNCHANGED threadvars /\ holds' = holds /\ t \in waiting
    BY <1>7 DEF Wakes, SpuriousWakeUp
  <2>2. holds[t] # "out"
    BY <2>1 DEF ThreadInv, TypeOK, LockTypeOK
  <2> QED BY <2>1, <2>2, LockOnlyStep
<1> QED BY <1>1, <1>2, <1>3, <1>4, <1>5, <1>6, <1>7 DEF Thread

LEMMA ThreadInvStep == ThreadInv /\ LockInv' /\ [Next]_vars => ThreadInv'
<1> SUFFICES ASSUME ThreadInv, LockInv', [Next]_vars PROVE ThreadInv'
  OBVIOUS
<1>1. CASE UNCHANGED vars
  BY <1>1 DEF vars, lockvars, threadvars, ThreadInv, TypeOK, LockTypeOK, Places, StopHeeded
<1>2. CASE Next
  BY <1>2, OwnerStep, ThreadStep DEF Next, LockInv
<1> QED BY <1>1, <1>2

LEMMA ThreadInvariant == Spec => []ThreadInv
BY ThreadInit, ThreadInvStep, LockInvHere, PTL DEF Spec

-----------------------------------------------------------------------------
\* The variables keep their types; only a thread in its loop is at the lock.
THEOREM ThreadTypes == Spec => []TypeOK
<1>1. ThreadInv => TypeOK
  BY DEF ThreadInv
<1> QED BY <1>1, ThreadInvariant, PTL

\* However many threads use CRWLock, its counter counts those inside: one
\* writer alone, or readers.
THEOREM LockExcludes == Spec => []Exclusion
<1>1. LockInv => Exclusion
  BY DEF LockInv
<1> QED BY <1>1, LockInvHere, PTL

\* No wake-up of CRWLock is lost, though the last reader wakes only one.
THEOREM WakeUpsArrive == Spec => []NoLostWakeUp
<1>1. LockInv => NoLostWakeUp
  BY DEF LockInv
<1> QED BY <1>1, LockInvHere, PTL

\* close_thread is heeded unless it came before the thread had begun.
THEOREM StopIsHeeded == Spec => []StopHeeded
<1>1. ThreadInv => StopHeeded
  BY DEF ThreadInv
<1> QED BY <1>1, ThreadInvariant, PTL

\* CRWLock as the threads use it implements the abstract readers/writer lock.
THEOREM LockImplements == Spec => ImplementsReadersWriter
BY UsesLock, LockRefinement, PTL
=============================================================================

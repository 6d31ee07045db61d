---------------------------- MODULE ReadersWriter ----------------------------
(***************************************************************************)
(* What a readers/writer lock promises: who is let in beside whom.  How    *)
(* the others wait is not its business.                                    *)
(***************************************************************************)
CONSTANT Users

VARIABLES reading, writing     \* who reads, and who writes

rwvars == <<reading, writing>>

RWInit == reading = {} /\ writing = {}

StartRead(u) ==
    /\ writing = {} /\ u \notin reading
    /\ reading' = reading \union {u} /\ UNCHANGED writing

StartWrite(u) ==
    /\ reading = {} /\ writing = {}
    /\ writing' = {u} /\ UNCHANGED reading

Stop(u) ==
    \/ u \in reading /\ reading' = reading \ {u} /\ UNCHANGED writing
    \/ u \in writing /\ writing' = {} /\ UNCHANGED reading

RWNext == \E u \in Users : StartRead(u) \/ StartWrite(u) \/ Stop(u)

RWSpec == RWInit /\ [][RWNext]_rwvars
=============================================================================

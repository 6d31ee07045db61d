---------------------------- MODULE MCCppThread ----------------------------
(* A small instance of CppThread, with CRWLock, for TLC.                   *)
EXTENDS CppThread

ThreeThreads == {"distribute", "calculate", "indicator"}
=============================================================================

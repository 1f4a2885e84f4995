---------------------------- MODULE MCEventLog ----------------------------
(* Small instances of EventLog.                                            *)
EXTENDS EventLog

WriterSymmetry == Permutations(Writers)
=============================================================================

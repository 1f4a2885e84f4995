--------------------------- MODULE MCCgroupUpdate ---------------------------
(* Small instances of CgroupControl alone.                                  *)
EXTENDS CgroupControl

CgSpec == CgInit /\ [][CgNext]_cgVars
=============================================================================

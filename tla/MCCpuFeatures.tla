--------------------------- MODULE MCCpuFeatures ---------------------------
(***************************************************************************)
(* Three threads that call as often as they like, and two fields: enough   *)
(* for a thread that publishes, one that detects and one that copies, each *)
(* of them between two fields.  Threads have no identity in the code, but  *)
(* symmetry would not be sound for the liveness property.                  *)
(***************************************************************************)
EXTENDS CpuFeatures

CONSTANTS t1, t2, t3, avx2, sha

MCThreads == {t1, t2, t3}
MCFields  == {avx2, sha}
=============================================================================

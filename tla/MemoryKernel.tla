---------------------------- MODULE MemoryKernel ----------------------------
(***************************************************************************)
(* What the kernels that copy and those that fill have in common: the      *)
(* width of their vectors and the lengths from which they stream.  Modules *)
(* MemoryCopy and MemoryFill add a call and its state.                     *)
(***************************************************************************)

CONSTANTS
  W,               \* the bytes of a 256 bit vector
  CacheThreshold,  \* above this many bytes a plain call streams
  AutoThreshold    \* from this many bytes on BC_CORE_CACHE_POLICY_AUTO streams
=============================================================================

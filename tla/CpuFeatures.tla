---------------------------- MODULE CpuFeatures ----------------------------
(***************************************************************************)
(* bc_core_cpu_features_detect: the features of the processor, detected by *)
(* every thread that finds nothing published and published once, by the    *)
(* thread that claims the publication.                                     *)
(*                                                                         *)
(* The published structure is not atomic: it is written, and read, one     *)
(* field after the other, in an order the compiler chooses.  The flag      *)
(* g_features_published is stored with release and loaded with acquire     *)
(* order, so that the stores before it are visible after it: the           *)
(* interleaving of the field accesses with the flag is all that matters.   *)
(***************************************************************************)
EXTENDS Naturals

CONSTANTS
  Threads,  \* the threads that call bc_core_cpu_features_detect
  Fields    \* the fields of bc_core_cpu_features_t

VARIABLES
  hardware,     \* what cpuid says of every field
  published,    \* g_features_published
  claimed,      \* g_features_publisher_claimed
  cache,        \* g_features_cache
  stage,        \* where every thread is
  todo,         \* the fields a thread has still to copy or to write
  out_features  \* *out_features of every thread

detectVars == <<hardware, published, claimed, cache, stage, todo, out_features>>

Unknown == [f \in Fields |-> FALSE]

DetectInit ==
  /\ hardware \in [Fields -> BOOLEAN]
  /\ published = FALSE
  /\ claimed = FALSE
  /\ cache = Unknown
  /\ stage = [t \in Threads |-> "idle"]
  /\ todo = [t \in Threads |-> {}]
  /\ out_features \in [Threads -> {Unknown}]

ToStage(t, where) == stage' = [stage EXCEPT ![t] = where]

Call(t) ==
  /\ stage[t] \in {"idle", "returned"}
  /\ ToStage(t, "load")
  /\ out_features' = [out_features EXCEPT ![t] = Unknown]
  /\ UNCHANGED <<hardware, published, claimed, cache, todo>>

(* The flag is set: the cache is copied.                                   *)
LoadPublished(t) ==
  /\ stage[t] = "load"
  /\ published
  /\ ToStage(t, "copy")
  /\ todo' = [todo EXCEPT ![t] = Fields]
  /\ UNCHANGED <<hardware, published, claimed, cache, out_features>>

CopyField(t, f) ==
  /\ stage[t] = "copy"
  /\ f \in todo[t]
  /\ out_features' = [out_features EXCEPT ![t][f] = cache[f]]
  /\ todo' = [todo EXCEPT ![t] = @ \ {f}]
  /\ UNCHANGED <<hardware, published, claimed, cache, stage>>

Copied(t) ==
  /\ stage[t] = "copy"
  /\ todo[t] = {}
  /\ ToStage(t, "returned")
  /\ UNCHANGED <<hardware, published, claimed, cache, todo, out_features>>

(* The flag is not set: detect_into.                                       *)
Detect(t) ==
  /\ stage[t] = "load"
  /\ ~published
  /\ out_features' = [out_features EXCEPT ![t] = hardware]
  /\ ToStage(t, "claim")
  /\ UNCHANGED <<hardware, published, claimed, cache, todo>>

(* A fault: the claim is a store, not a compare and exchange.              *)
ClaimAnyway(t) ==
  /\ stage[t] = "claim"
  /\ claimed' = TRUE
  /\ ToStage(t, "write")
  /\ todo' = [todo EXCEPT ![t] = Fields]
  /\ UNCHANGED <<hardware, published, cache, out_features>>

(* The compare and exchange: one thread wins.                              *)
Claim(t) ==
  /\ stage[t] = "claim"
  /\ ~claimed
  /\ claimed' = TRUE
  /\ ToStage(t, "write")
  /\ todo' = [todo EXCEPT ![t] = Fields]
  /\ UNCHANGED <<hardware, published, cache, out_features>>

(* A fault: the losers wait for the publication.                           *)
LoseWaiting(t) ==
  /\ stage[t] = "claim"
  /\ claimed /\ published
  /\ ToStage(t, "returned")
  /\ UNCHANGED <<hardware, published, claimed, cache, todo, out_features>>

(* The others are content with what they detected, and wait for nobody.    *)
Lose(t) ==
  /\ stage[t] = "claim"
  /\ claimed
  /\ ToStage(t, "returned")
  /\ UNCHANGED <<hardware, published, claimed, cache, todo, out_features>>

WriteField(t, f) ==
  /\ stage[t] = "write"
  /\ f \in todo[t]
  /\ cache' = [cache EXCEPT ![f] = out_features[t][f]]
  /\ todo' = [todo EXCEPT ![t] = @ \ {f}]
  /\ UNCHANGED <<hardware, published, claimed, stage, out_features>>

(* A fault: the flag may be visible before the fields.                     *)
PublishFirst(t) ==
  /\ stage[t] = "write"
  /\ published' = TRUE
  /\ ToStage(t, IF todo[t] = {} THEN "returned" ELSE "write")
  /\ UNCHANGED <<hardware, claimed, cache, todo, out_features>>

Publish(t) ==
  /\ stage[t] = "write"
  /\ todo[t] = {}
  /\ published' = TRUE
  /\ ToStage(t, "returned")
  /\ UNCHANGED <<hardware, claimed, cache, todo, out_features>>

ThreadStep(t) ==
  \/ LoadPublished(t) \/ Copied(t)
  \/ \E f \in Fields : CopyField(t, f) \/ WriteField(t, f)
  \/ Detect(t) \/ Claim(t) \/ Lose(t) \/ Publish(t)

DetectNext == \E t \in Threads : Call(t) \/ ThreadStep(t)

DetectSpec == DetectInit /\ [][DetectNext]_detectVars

-----------------------------------------------------------------------------
(* The types of the variables.                                             *)
DetectTypeOK ==
  /\ hardware \in [Fields -> BOOLEAN]
  /\ published \in BOOLEAN
  /\ claimed \in BOOLEAN
  /\ cache \in [Fields -> BOOLEAN]
  /\ stage \in [Threads -> {"idle", "load", "copy", "claim", "write", "returned"}]
  /\ todo \in [Threads -> SUBSET Fields]
  /\ out_features \in [Threads -> [Fields -> BOOLEAN]]

(* Every call returns what the hardware says, in every field, whether it   *)
(* detected it or copied it while other threads were publishing.           *)
NoTornResult == \A t \in Threads : stage[t] = "returned" => out_features[t] = hardware

(* No thread writes the cache while another one reads or writes it: the    *)
(* plain accesses to g_features_cache are no data race.                    *)
NoDataRace ==
  \A t, u \in Threads : t # u /\ stage[t] = "write" => stage[u] \notin {"copy", "write"}

(* Once the flag is set the cache never changes: the copies made under the *)
(* flag need no further synchronisation.                                   *)
PublishedOnce == [][published => published' /\ cache' = cache]_detectVars

(* No thread waits for another one: a thread that is scheduled returns,    *)
(* even when the one that has claimed the publication never publishes.     *)
WaitFree ==
  \A t \in Threads :
    WF_detectVars(ThreadStep(t)) => (stage[t] = "load" ~> stage[t] = "returned")

-----------------------------------------------------------------------------
(* The inductive invariant: the writer is the one thread that has claimed, *)
(* nobody copies before it has published, and the fields that are no       *)
(* longer to be written, or to be copied, are those of the hardware.       *)
InvWriter ==
  \A t \in Threads :
    stage[t] = "write" =>
      /\ claimed /\ ~published
      /\ out_features[t] = hardware
      /\ \A f \in Fields \ todo[t] : cache[f] = hardware[f]

InvOneWriter == \A t, u \in Threads : stage[t] = "write" /\ stage[u] = "write" => t = u

InvReader ==
  \A t \in Threads :
    /\ stage[t] = "claim" => out_features[t] = hardware
    /\ stage[t] = "copy" =>
         /\ published
         /\ \A f \in Fields \ todo[t] : out_features[t][f] = hardware[f]

InvPublished == published => claimed /\ cache = hardware

InvDetect ==
  /\ DetectTypeOK
  /\ InvWriter
  /\ InvOneWriter
  /\ InvReader
  /\ InvPublished
  /\ NoTornResult
=============================================================================

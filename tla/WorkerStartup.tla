---------------------------- MODULE WorkerStartup ---------------------------
(***************************************************************************)
(* A worker from its start to serving: the engine settles the models and   *)
(* the speculative configuration, the weights of the target and of the     *)
(* drafter are loaded, the memory of the graphs is profiled on a small     *)
(* cache, the real cache is laid out, the kernels are warmed up and tuned  *)
(* together with the other ranks, the graphs are captured, and batches     *)
(* run. What one part leaves behind (keys, graphs, layer names, rows of    *)
(* the persistent buffers) is what the next one finds.                     *)
(*                                                                         *)
(* The order of the parts is that of the GPU worker, which is not in this  *)
(* repository. Batches are those of one worker; the other ranks are there  *)
(* for the weights and the tuning.                                         *)
(***************************************************************************)
EXTENDS KernelWarmup, WeightLoading, ModelRegistry

vars == <<layoutVars, graphVars, warmupVars, loadVars, registryVars>>

workerVars == <<layoutVars, graphVars, warmupVars, loadVars>>

Init == LayoutInit /\ GraphInit /\ WarmupInit /\ LoadInit /\ RegistryInit

ConfigureEngine == RegistryNext /\ UNCHANGED workerVars

\* The workers modelled from here on are those of a DSpark configuration. What the
\* configuration was made from is of no more use to them.
StartWorkers ==
  /\ resolving = "loaded" /\ speculative.method = "dspark"
  /\ resolving' = "started"
  /\ impl' = NoValue /\ convert' = NoValue /\ speculative' = NoArguments
  /\ todo' = <<>> /\ imported' = NoInfo
  /\ known' = <<>> /\ planned' = <<>> /\ loaded' = <<>>
  /\ infoCache' = <<>>
  /\ UNCHANGED workerVars

LoadWeights ==
  /\ stage = "load" /\ resolving = "started"
  /\ LoadNext
  /\ UNCHANGED <<layoutVars, graphVars, warmupVars, registryVars>>

ModelLoaded ==
  /\ reading = "mtp" /\ unread = {} /\ ~raised
  /\ ReadConfig
  /\ UNCHANGED <<warmupVars, loadVars, registryVars>>

Graphs ==
  /\ ProfileGraphMemory \/ ProfileCapture \/ EndProfile \/ InitializeCache
     \/ CaptureModel \/ CaptureGraph \/ EndCapture \/ Execute
  /\ UNCHANGED <<warmupVars, loadVars, registryVars>>

Warmup == WarmupNext /\ UNCHANGED <<loadVars, registryVars>>

Next == ConfigureEngine \/ StartWorkers \/ LoadWeights \/ ModelLoaded \/ Graphs \/ Warmup

Spec == Init /\ [][Next]_vars
=============================================================================

----------------------------- MODULE ModelRegistry --------------------------
(***************************************************************************)
(* How the engine learns what a model class can do without importing it,   *)
(* and how its workers import it (model_executor/models/registry.py). A    *)
(* class is looked up in a cache file, valid while the hash of its module  *)
(* is the same, or else imported in a subprocess, and the file is written. *)
(* Processes of other builds of the program may share the files.           *)
(*                                                                         *)
(* The target's model is resolved first, then the drafter's as SpecConfig  *)
(* says, and an EAGLE head's once more after its architecture is wrapped.  *)
(* What is known of a class is abstracted to the build it is from.         *)
(***************************************************************************)
EXTENDS SpecConfig, FiniteSets

CONSTANTS
  Models,          \* the registered architectures -> the class of each
  Conversions,     \* architectures -> the registered one they are converted from
  Transformers,    \* architectures the Transformers library can run as a backend
  Broken,          \* classes whose module raises when it is imported, in any build
  Builds, Build,   \* builds of the program, and the one that is started
  Digest,          \* Digest[c][b]: the hash of the module of class c in build b
  Defines,         \* Defines[c][b]: what class c is in build b
  Arguments        \* what users ask for: records of impl, convert and spec

BackendArch == "TransformersForCausalLM"

ASSUME RegistryAssumption ==
  /\ BackendArch \in DOMAIN Models /\ Build \in Builds
  /\ \A a \in DOMAIN Models :
       DOMAIN Digest[Models[a]] = Builds /\ DOMAIN Defines[Models[a]] = Builds

VARIABLES
  impl,       \* model_impl of the target
  convert,    \* its convert_type as given
  speculative,     \* the speculative configuration
  resolving,  \* what is being resolved: "target", "draft", "eagle", then "planned",
              \* "loaded", or "failed"
  todo,       \* the architectures still to be tried for it
  imported,   \* the answer of the subprocess, to be saved
  known,      \* lru_cache: the answers this process has had, by architecture
  planned,    \* what the engine goes by: an architecture and an answer for each model
  loaded,     \* what the workers imported for each model
  infoCache   \* the cache files: per class, a hash and an answer

registryVars ==
  <<impl, convert, speculative, resolving, todo, imported, known, planned, loaded, infoCache>>

\* No answer, or no cache file.
NoInfo == NoValue

-----------------------------------------------------------------------------
(* The architectures to try, in order, for a ModelConfig m: archs, impl,    *)
(* convert (convert_type) and draft (the drafter's).                       *)

Unregistered(m) == \A i \in DOMAIN m.archs : m.archs[i] \notin DOMAIN Models

\* _try_resolve_transformers, for models without code of their own (auto_map).
TransformersArch(m) ==
  IF m.archs[1] = BackendArch \/ m.archs[1] \in Transformers THEN <<BackendArch>> ELSE <<>>

\* A pooling model is run by the registered model it is converted from.
NormalizeArch(arch, m) ==
  IF arch \notin DOMAIN Models /\ arch \in DOMAIN Conversions /\ ~m.draft
  THEN Conversions[arch] ELSE arch

Normalized(m) ==
  LET archs == [i \in DOMAIN m.archs |-> NormalizeArch(m.archs[i], m)]
  IN  SelectSeq(archs, LAMBDA a : a \in DOMAIN Models)

BackendFirst(m) ==
  m.impl = "transformers" \/ (m.impl = "auto" /\ Unregistered(m) /\ m.convert = "none")

\* A model that must run on the Transformers backend and cannot is an error.
InspectModelCls(m) ==
  IF m.impl = "transformers" /\ TransformersArch(m) = <<>> THEN <<>>
  ELSE (IF BackendFirst(m) THEN TransformersArch(m) ELSE <<>>)
       \o Normalized(m)
       \o (IF m.impl = "auto" /\ Unregistered(m) THEN TransformersArch(m) ELSE <<>>)

\* ModelConfig has decided on convert_type since the engine asked.
Decided(m) ==
  [m EXCEPT !.convert = IF @ = "auto" /\ m.archs[1] \in DOMAIN Conversions THEN "classify"
                        ELSE IF @ = "auto" THEN "none" ELSE @]

\* Mutant: the workers try the model's own code first.
ResolveModelClsOwnFirst(m) == Normalized(m) \o TransformersArch(m)

\* The workers go by a copy of the same search.
ResolveModelCls(m) == InspectModelCls(Decided(m))

TargetModel(k) ==
  [archs |-> <<Checkpoints[k.target].arch>>, impl |-> impl, convert |-> convert, draft |-> FALSE]
DraftModel(k) ==
  [archs |-> <<k.draft.arch>>, impl |-> "auto", convert |-> "auto", draft |-> TRUE]

-----------------------------------------------------------------------------

EntryOf(c, b) == [hash |-> Digest[c][b], info |-> Defines[c][b]]

\* The cache directory is empty, or some build has filled it.
RegistryInit ==
  /\ \E a \in Arguments :
       impl = a.impl /\ convert = a.convert /\ speculative = Started(a.spec)
  /\ resolving = "target"
  /\ todo = InspectModelCls(TargetModel(speculative))
  /\ imported = NoInfo /\ known = <<>> /\ planned = <<>> /\ loaded = <<>>
  /\ \E b \in Builds \cup {NoInfo} :
       infoCache = [c \in DOMAIN Digest |->
                      IF b = NoInfo \/ c \in Broken THEN NoInfo ELSE EntryOf(c, b)]

Trying == resolving \in {"target", "draft", "eagle"}
ThisClass == Models[Head(todo)]

\* What is to be resolved next, once the architecture of `resolving` is found.
Proceed(k, model) ==
  /\ speculative' = k
  /\ resolving' = IF k.raised THEN "failed" ELSE model
  /\ todo' = IF k.raised \/ model = "planned" THEN <<>> ELSE InspectModelCls(DraftModel(k))

\* A class that cannot be inspected makes room for the next candidate.
Learn(info) ==
  /\ known' = (Head(todo) :> info) @@ known
  /\ imported' = NoInfo
  /\ IF info = NoInfo
     THEN todo' = Tail(todo) /\ UNCHANGED <<speculative, resolving, planned>>
     ELSE /\ planned' = (IF resolving = "target" THEN "target" ELSE "draft")
                          :> [arch |-> Head(todo), info |-> info] @@ planned
          /\ CASE resolving = "target" ->
                    IF speculative.raised \/ Given(speculative.draft)
                    THEN Proceed(speculative, "draft")
                    ELSE Proceed(Finished(speculative), "planned")
               [] resolving = "draft" ->
                    LET k == Detected(speculative) IN
                    IF ~k.raised /\ k.draft.arch # speculative.draft.arch THEN Proceed(k, "eagle")
                    ELSE Proceed(Finished(k), "planned")
               [] resolving = "eagle" -> Proceed(Finished(speculative), "planned")
  /\ UNCHANGED <<impl, convert, loaded>>

\* Mutant: a cache file is believed whatever module it was made from.
CachedInfoUnhashed(c) == IF infoCache[c] = NoInfo THEN NoInfo ELSE infoCache[c].info

\* _load_modelinfo_from_cache.
CachedInfo(c) ==
  IF infoCache[c] # NoInfo /\ infoCache[c].hash = Digest[c][Build]
  THEN infoCache[c].info ELSE NoInfo

LookUp ==
  /\ Trying /\ todo # <<>> /\ imported = NoInfo
  /\ LET info == IF Head(todo) \in DOMAIN known THEN known[Head(todo)]
                 ELSE CachedInfo(ThisClass) IN
       /\ info # NoInfo \/ Head(todo) \in DOMAIN known
       /\ Learn(info)
  /\ UNCHANGED infoCache

\* _run_in_subprocess: the class is imported, away from this process and its GPU.
InspectInSubprocess ==
  /\ Trying /\ todo # <<>> /\ imported = NoInfo
  /\ Head(todo) \notin DOMAIN known /\ CachedInfo(ThisClass) = NoInfo
  /\ IF ThisClass \in Broken
     THEN Learn(NoInfo)
     ELSE /\ imported' = Defines[ThisClass][Build]
          /\ UNCHANGED <<impl, convert, speculative, resolving, todo, known, planned, loaded>>
  /\ UNCHANGED infoCache

\* _save_modelinfo_to_cache replaces the file at once, or fails and says so in the log.
SaveModelInfo(saved) ==
  /\ Trying /\ imported # NoInfo
  /\ Learn(imported)
  /\ infoCache' = IF saved THEN [infoCache EXCEPT ![ThisClass] =
                                   [hash |-> Digest[ThisClass][Build], info |-> imported]]
                  ELSE infoCache

\* Another process, of this build or another, saves its answer for the same class.
OtherProcessSaves(b) ==
  /\ Trying /\ todo # <<>> /\ ThisClass \notin Broken
  /\ infoCache[ThisClass] # EntryOf(ThisClass, b)
  /\ infoCache' = [infoCache EXCEPT ![ThisClass] = EntryOf(ThisClass, b)]
  /\ UNCHANGED <<impl, convert, speculative, resolving, todo, imported, known, planned, loaded>>

\* _raise_for_unsupported.
RaiseForUnsupported ==
  /\ Trying /\ todo = <<>>
  /\ resolving' = "failed"
  /\ UNCHANGED <<impl, convert, speculative, todo, imported, known, planned, loaded, infoCache>>

\* The workers import the classes, and the runner builds the proposer.
LoadModelCls ==
  /\ resolving = "planned"
  /\ LET model(m) == IF m = "target" THEN TargetModel(speculative) ELSE DraftModel(speculative)
         importable(m) == SelectSeq(ResolveModelCls(model(m)),
                                    LAMBDA a : Models[a] \notin Broken) IN
       IF /\ \A m \in DOMAIN planned : importable(m) # <<>>
          /\ ProposerStarts(speculative)
       THEN /\ loaded' = [m \in DOMAIN planned |-> Head(importable(m))]
            /\ resolving' = "loaded"
       ELSE resolving' = "failed" /\ UNCHANGED loaded
  /\ UNCHANGED <<impl, convert, speculative, todo, imported, known, planned, infoCache>>

RegistryNext ==
  \/ LookUp
  \/ InspectInSubprocess
  \/ \E saved \in BOOLEAN : SaveModelInfo(saved)
  \/ \E b \in Builds : OtherProcessSaves(b)
  \/ RaiseForUnsupported
  \/ LoadModelCls

-----------------------------------------------------------------------------

\* The hash of a class's module tells its builds apart. It does not where the module
\* is a package that takes the class from a file of its own (vllm.models.deepseek_v4):
\* there the hash is that of __init__.py.
HashTells(c) ==
  \A b1, b2 \in Builds : Digest[c][b1] = Digest[c][b2] => Defines[c][b1] = Defines[c][b2]

\* The workers load the architecture the engine planned with, and the engine knew the
\* abilities of the class this build has: "file not changed, use cached _ModelInfo
\* properties".
LoadedAsPlanned ==
  \A m \in DOMAIN planned :
    /\ loaded[m] = planned[m].arch
    /\ HashTells(Models[loaded[m]]) => planned[m].info = Defines[Models[loaded[m]]][Build]

\* A proposer drives the class that was loaded, drafts in units the model predicts, not
\* past the longest sequence of either model, and a synthetic acceptance has a rate for
\* every draft, which add up to the mean that was asked for.
DrafterFits ==
  LET k == speculative IN
  /\ Proposer(k) = "DSparkProposer" => loaded["draft"] = "DeepSeekV4DSparkModel"
  /\ Proposer(k) = "EagleProposer" =>
       loaded["draft"] \notin {"DeepSeekV4DSparkModel", Checkpoints[k.target].arch}
  /\ Given(k.draft) =>
       /\ k.draft.nPredict > 0 => k.tokens <= k.draft.nPredict \/ k.tokens % k.draft.nPredict = 0
       /\ k.len <= Min({k.draft.len, TargetLen})
  /\ k.sampling = "synthetic" =>
       /\ Len(k.rates) = k.tokens
       /\ k.acceptance.kind = "length" => FoldSeq(+, 10, k.rates) = k.acceptance.length

\* A configuration the engine accepted is what its workers have: whatever the cache
\* directory held and other builds wrote to it, and however the drafter was asked for.
WorkersAsConfigured == resolving = "loaded" => LoadedAsPlanned /\ DrafterFits
=============================================================================

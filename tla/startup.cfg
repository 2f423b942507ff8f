SPECIFICATION Spec
CONSTANTS
  none = none
  r1 = r1
  r2 = r2
  r3 = r3
  t1 = t1
  t2 = t2
  SharingFastPrefill = TRUE
  UpdatesTable = {"mla", "swa"}
  NumBlocks = 2
  NoLayer = none
  NoTensor = none
  CaptureSizes = {3, 6, 8}
  MaxNumSeqs = 3
  MaxNumTokens = 9
  QueryLen = 2
  Configs <- MCConfigs
  Ranks = {r1, r2, r3}
  Leader = r1
  Host <- MCHost
  FirstOnHost = {r1, r2}
  WarmupTokens = {4, 16}
  Tactics = {t1, t2}
  NoTactics = none
  ExpertDtype = "fp4"
  LoadRanks <- MCLoadRanks
  StageLayers <- MCStageLayers
  FirstDraftLayer = 3
  NumDraftLayers = 1
  MtpStages = {0, 1}
  TpSize = 2
  NumHeads = 2
  NumExperts = 2
  oldBuild = oldBuild
  newBuild = newBuild
  NoValue = none
  Checkpoints <- MCCheckpoints
  TargetTp = 2
  TargetLen = 8
  HasArctic = TRUE
  Models <- MCModels
  Conversions <- MCConversions
  Transformers = {"DeepseekV4ForCausalLM", "LlamaForRewardModeling"}
  Broken = {"medusa"}
  Builds = {oldBuild, newBuild}
  Build = newBuild
  Digest <- MCDigest
  Defines <- MCDefines
  Arguments <- MCArguments
INVARIANTS
  LayersBound
  ReplaysOnlyCaptured
  PaddingIsInert
  TacticsAgree
  WeightsInPlace
  WorkersAsConfigured
CHECK_DEADLOCK FALSE

CONSTANTS
  None = None
  Events = {1, 2, 3}
  Consumers = {w1, w2}
  Limit = 1
  Scripts <- MCScripts
  MaxPosts = 2
  MaxTruncations = 1
  MaxFaults = 1
  Row <- MCRow
  Runs = {1, 2}
  Taped = {2}
  RowKinds <- MCRowKinds
  Payloads <- MCPayloads
  CommandLines <- MCCommandLines
  MaxDepth = 4
  MaxRows = 4
  SpecLists <- MCSpecLists
  Wordings <- MCWordings
  Lineages <- MCLineages
  Laps = 3
  ProtocolIds = {1, 2}
  Gaps <- MCGaps
  Preferences <- MCPreferences
  Derivations <- MCDerivations
  OutcomeNames = {"default"}
  Judgements <- MCJudgements
  Promoters = {w1, w2}
  ChannelRuns = {"x1"}
  MaxOutcomes = 1
  NoOne = NoOne
  g1 = g1
  g2 = g2
  Prompts = {"p1", "p2"}
  Turn <- MCTurn
  TextKind <- MCTextKind
  Legacy <- MCLegacy
  Responses <- MCResponses
  Recorders = {w1, w2}
  MaxCutPrompts = 1
  NoKind = NoKind
  AlikeSummaries <- MCAlikeSummaries
  ShortPrompts = {"p2"}
  TurnCost <- MCTurnCost
  History <- MCHistory
  Changed <- MCChanged
  Corpora <- MCCorpora
  Importers = {w1, w2}
  MaxImports = 2
  MaxCollects = 2
  MaxCuts = 1
  Openings <- MCOpenings
  Sessions = {"a.b", "a_b"}
  MarkerName <- MCMarkerName
  Hooks = {w1, w2}
  NoSession = NoSession
  MaxPrompts = 3
  MaxStoreChanges = 1
  MaxHookFaults = 1
  w1 = w1
  w2 = w2
SPECIFICATION Spec
INVARIANT TypeOK
INVARIANT SkippingNeedsTruncation
 
INVARIANT EpisodesTellTheTrace
INVARIANT ReportsTellTheTrace
 
 
INVARIANT CommitsAreAccounted
INVARIANT BannerIsShownOnce
SYMMETRY Alike
CONSTRAINT NothingFollowsOutcome
CONSTRAINT OneKindOfEvidence
CHECK_DEADLOCK FALSE

CONSTANTS
  None = None
  Events = {1, 2, 3}
  Consumers = {w1, w2}
  Limit = 1
  Scripts <- MCScripts
  MaxPosts = 3
  MaxTruncations = 0
  MaxFaults = 0
  Row <- MCRow
  Runs = {1, 2}
  Taped = {2}
  RowKinds <- MCRowKinds
  Payloads <- MCPayloads
  CommandLines <- MCCommandLines
  MaxDepth = 4
  MaxRows = 0
  SpecLists <- MCSpecLists
  Wordings <- MCWordings
  Lineages <- MCLineages
  Laps = 3
  ProtocolIds = {1, 2}
  Gaps <- MCGaps
  Preferences <- MCPreferences
  Derivations <- MCDerivations
  OutcomeNames = {"default"}
  Judgements <- MCJudgements
  Promoters = {w1}
  ChannelRuns = {"x1"}
  MaxOutcomes = 0
  NoOne = NoOne
  g1 = g1
  g2 = g2
  Prompts = {"p1", "p2"}
  Turn <- MCTurn
  TextKind <- MCTextKind
  Legacy <- MCLegacy
  Responses <- MCResponses
  Recorders = {w1}
  MaxCutPrompts = 1
  NoKind = NoKind
  AlikeSummaries <- MCAlikeSummaries
  ShortPrompts = {"p2"}
  TurnCost <- MCTurnCost
  History <- MCHistory
  Changed <- MCChanged
  Corpora <- MCCorpora
  Importers = {w1}
  MaxImports = 1
  MaxCollects = 1
  MaxCuts = 1
  Openings <- MCOpenings
  Sessions = {"a.b", "a_b"}
  MarkerName <- MCMarkerName
  Hooks = {w1}
  NoSession = NoSession
  MaxPrompts = 0
  MaxStoreChanges = 0
  MaxHookFaults = 0
  w1 = w1
  w2 = w2
SPECIFICATION Spec
SYMMETRY Alike
INVARIANT CorpusEffectsAreFolds
CONSTRAINT NothingFollowsOutcome
CONSTRAINT OneKindOfEvidence
CHECK_DEADLOCK FALSE

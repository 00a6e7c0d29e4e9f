\* Two runs, in two directories or one after the other in one.
CONSTANTS
  None = None
  d1 = d1
  d2 = d2
  Dirs <- MCDirs
  Plans <- MCPlans
  Results <- MCResults
  MaxStarts = 2
  MaxFaults = 1
  MaxApplies = 1
  Classes = {"code-bug", "spec-gap"}
  Vehicles = {"prose"}
  Gates = {"permissive", "strict"}
  Batches <- MCBatches
  Libraries <- MCLibraries
  LessonLimit = 1
  MaxLearns = 1
  MaxReviews = 1
  StagePlans <- MCStagePlans
  SourceTree <- MCSourceTree
  WriterReplies <- MCReplies
  AgentFiles <- MCAgentFiles
  MaxStageRounds = 2
  Rules = {"r1", "r2"}
  RuleRuns = {"x1", "x2"}
  Triggers = {"t1"}
  MaxDeltas = 3
  EvalRules <- MCEvalRules
  Baselines = {"B0", "B4"}
  MaxEpisodes = 3
  MaxChanges = 2
  MaxNotes = 1
  NoEpisode = NoEpisode
SPECIFICATION Spec
CONSTRAINT NothingFollowsApply
INVARIANT TypeOK
INVARIANT UnverifiedNeedsReuse
INVARIANT OutcomesAreJustified
INVARIANT StagesStaySeparate
 
CHECK_DEADLOCK FALSE

SPECIFICATION WorkersSpec
CONSTANTS
  BeatTask = {b1}
  Dispatcher = {d1, d2}
  Tick = 2
  Period <- EveryFour
  LastTime = 9
  Job = {j1, j2}
  Node = {"s", "w", "v", "h", "e"}
  Key = {"again", "done", "other"}
  Documents <- SmallDocuments
  Counters <- SomeCounters
  RecursionLimit = 5
  MaxResumes = 3
  Call = {c1, c2}
  MaxSteps = 3
  MaxDeliveries = 2
  MaxAnswer = 7
  MaxPiece = 4
  Texts <- SomeTexts
  Sizes = {1, 4, 12}
  Overlaps = {0, 2, 4}
  Earlier = e1
  Later = e2
  GraphNode = {n1}
  Eager = {TRUE, FALSE}
  MaxRaises = 2
  Obj = {o1, o2}
  Vocabularies <- SmallVocabularies
  Execution = {g1, g2}
  Watched = g1
  BuiltinRule = {"jailbreak", "pii"}
  OwnRule = {"words", "ids", "bans"}
  RuleFor <- RuleBook
  Tables <- SomeTables
  MaxEdits = 1
  Questions <- SomeQuestions
  Sayings <- SomeSayings
  Arguments <- SomeArguments
  Findings <- SomeFindings
  MaxSaid = 3
INVARIANTS WorkersTypeOK OncePerOccurrence IndexMatchesStatus CasesWithinBudget
  ToolCallsAnswered SplitAsWhole ChunksCover ObservedOnce ExpressionsMean RulesLoad MaskedIsGone
CHECK_DEADLOCK FALSE

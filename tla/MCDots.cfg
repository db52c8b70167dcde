SPECIFICATION ToolsSpec
CONSTANTS
  Compiled <- MCCompiled
  Rules <- MCRules
  Automata <- MCAutomata
  Options <- MCOptions
  Boards <- MCBoards
INVARIANTS
  GraphWellFormed
  OnlyMeetingDotsBreak
  ActionsKept
  NoLoopUnchecked
  CompilerAgrees
  MarksExact
  WritingKeepsActions
  DeterminedByOne
  CompletionsKept
  EndlessOnlyInTraps
PROPERTY
  MovingGoesOn
CHECK_DEADLOCK FALSE

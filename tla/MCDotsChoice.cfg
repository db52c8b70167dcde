SPECIFICATION ToolsSpec
CONSTANTS
  Compiled = {}
  Rules <- MCChoiceRules
  Automata <- MCChoiceAutomata
  Options <- MCOptions
  Boards <- MCBoards
INVARIANT
  ActionsKept
CHECK_DEADLOCK FALSE

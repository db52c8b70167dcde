SPECIFICATION ToolsSpec
CONSTANTS
  Compiled = {}
  Rules <- MCModifierRules
  Automata <- MCModifierAutomata
  Options <- MCOptions
  Boards <- MCBoards
INVARIANT
  OnlyIllegalMarked
CHECK_DEADLOCK FALSE

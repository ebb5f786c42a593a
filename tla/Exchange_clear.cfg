SPECIFICATION Spec
CONSTANTS
  Words <- JustOne
  Limits = {"none", "part", "whole"}
  Options <- ClearAllOptions
  Commands <- ProgramCommands
  Wrappers <- ProgramWrappers
  Layouts <- ProgramLayouts
INVARIANT OptionsArrive
CHECK_DEADLOCK FALSE

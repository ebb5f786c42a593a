SPECIFICATION Spec
CONSTANTS
  Words <- Numbers
  Limits = {"none", "part", "whole"}
  Options <- PolicyGetOptions
  Commands <- ProgramCommands
  Wrappers <- ProgramWrappers
  Layouts <- ProgramLayouts
INVARIANT ShownWasReceived
CHECK_DEADLOCK FALSE

SPECIFICATION Spec
CONSTANTS
  Words <- Numbers
  Limits = {"none", "part", "whole"}
  Options <- AllCommands
  Commands <- ProgramCommands
  Wrappers <- ProgramWrappers
  Layouts <- ProgramLayouts
INVARIANTS
  TypeOK
  TablesAgree
  OptionsArrive
  ShownWasReceived
CHECK_DEADLOCK FALSE

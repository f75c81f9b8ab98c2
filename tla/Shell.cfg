SPECIFICATION Spec
CHECK_DEADLOCK FALSE
CONSTANTS
  Scripts <- MCScripts
  Installed = {"ls"}
  Chdir = {"dir"}
  BufferLines = 4
  MaxLines = 6
  MaxSignals = 3
  Jumbled <- MCJumbled
INVARIANTS LinesOnce OutputOnce PromptAlone WaitsForSomething
PROPERTIES Reaped

SPECIFICATION Spec
CONSTANTS
  Null = Null
  Torn = Torn
  Processes = {"p1", "p2", "q"}
  Strangers = {"q"}
  Editors = {"e1"}
  Default <- MCDefault
  FirstFiles <- MCFirstFiles
  FirstDatabases <- MCFirstDatabases
  Patches <- MCPatches
  Cookies <- MCCookies
  MaxWork = 2
  MaxFaults = 1
CHECK_DEADLOCK FALSE
INVARIANTS
  ConfigSurvives
  FileIsMemory
  CommittedIsKept
PROPERTIES
  SavesOverSeen
  ServiceComesBack

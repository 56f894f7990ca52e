SPECIFICATION MCSpec
CONSTANTS
  COMMANDS <- MCCommands
  Rules <- MCRules
  Lists <- MCLists
  Dirs <- MCDirs
  Home <- MCHome
  Letters = {"a", "-", " ", "j", "~", "/"}
  Wide = {"W"}
  MENU_ROWS = 2
  CAP = 2
  MaxLine = 4
  Requests = {1, 2}
  MaxCreated = 2
  MaxFaults = 1
  Procs = {1, 2}
  MaxSessionIds = 2
  MaxImageIds = 1
  MaxKills = 1
  Importers = {1, 2}
  Files <- MCFiles
  Target = "T"
  FirstImage <- MCImage
  HighQid = 10
  TopQid = 12
  MaxImports = 2
CHECK_DEADLOCK FALSE
INVARIANTS LineSound TokensFollowSessions TmpFilesGo StateFileSound ImportsForeseen
PROPERTIES CompletionKeepsTyped RequestsEnd

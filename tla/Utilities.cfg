SPECIFICATION MCSpec
CONSTANTS
  Chosen = {"cexec", "drun", "map", "ldap", "cpy", "players", "convert"}
  Null = Null
  Calls = {c1, c2}
  MaxStops = 2
  Dirs <- SomeDirs
  Entries <- SomeEntries
  BoxNames = {"dev-main"}
  NoImage = NoImage
  Images = {"own"}
  WorkDirs = {"x/src", "y/src", "z/lib"}
  BaseName <- SomeBaseNames
  NoName = NoName
  Given = {"mine"}
  NoNetwork = NoNetwork
  Networks = {"host"}
  Bridge = "bridge"
  MCap = 4
  Factor = 1
  Keys = {1, 5, 9, 2, 3}
  Values = {2, 5}
  IdMod = 6
  MaxUsers = 3
  MaxGroups = 2
  MaxNameLen = 3
  Inputs <- SomeInputs
  Answers <- SomeAnswers
  Probes <- SomeProbes
  InMax = 5
  ToCopy <- SomeContents
  MaxChunk = 4
  Players = {1, 2}
  Stems = {"s", "t", "u"}
  Extensions = {"x"}
  Films <- SomeFilms
  NoFilm = NoFilm
  Stream = Stream
  MaxKeys = 6
CHECK_DEADLOCK FALSE
INVARIANTS HangsOnlyWhenAllUsed CacheAsTold ClipboardIsInput FilmsKept CodesRoundTrip ToolsRight ScenariosLoadAsWritten
PROPERTIES CexecOutcomeExplained DrunOutcomeExplained IdMapKept

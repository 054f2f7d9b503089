SPECIFICATION Spec
CONSTANTS
  Null = Null
  s1 = s1
  t1 = t1
  t2 = t2
  h1 = h1
  h2 = h2
  h3 = h3
  h4 = h4
  foreign = foreign
  Subjects = {s1}
  Torrents = {t1, t2}
  Hashes = {h1, h2, h3, h4}
  Names <- MCNames
  FilesOf <- MCFilesOf
  FileNames <- MCFileNames
  Editions <- MCEditions
  FirstEdition <- MCFirst
  UsersOwn = {h1}
  Seeders <- MCSeeders
  Rank <- MCRank
  RulesEmpty = FALSE
  Priority <- MCPriority
  Titles <- MCTitles
  Answers <- MCAnswers
  DoubanCounts <- MCCounts
  DoubanSeasons <- MCListings
  TitleSeasons <- MCTitleSeasons
  TmdbAnswers <- MCSeasons
  Kinds = {"movie", "tv"}
  Irregular = Irregular
  Foreign = {foreign}
  Intruders <- MCIntruders
  MaxCopies = 3
  MaxMeddling = 1
CHECK_DEADLOCK FALSE
INVARIANTS
  TypeOK
  OneTorrentPerEffect
  PushedWasListed
  CurrentIsUnique
  LinkedIsOurs
  ReportsAccepted
  CompletedIsCovered
PROPERTIES
  UsersThingsKept
  ForgottenIsGone

SPECIFICATION Spec
CONSTANTS
  Null = Null
  s1 = s1
  t1 = t1
  t2 = t2
  h1 = h1
  h2 = h2
  h3 = h3
  h4 = h4
  foreign = foreign
  Subjects = {s1, s2}
  Torrents = {t1, t2}
  Hashes = {h1, h2, h3, h4}
  Names <- MCNames
  FilesOf <- MCFilesOf
  FileNames <- MCFileNames
  Editions <- MCEditions
  FirstEdition <- MCFirst
  UsersOwn = {}
  Seeders <- MCSeeders
  Rank <- MCRank
  RulesEmpty = FALSE
  Priority <- MCPriority
  Titles <- MCTitles
  Answers <- MCOneAnswer
  DoubanCounts <- MCCounts
  DoubanSeasons <- MCListings
  TitleSeasons <- MCTitleSeasons
  TmdbAnswers <- MCSeasons
  Kinds = {"movie"}
  Irregular = Irregular
  Foreign = {foreign}
  Intruders <- MCIntruders
  MaxCopies = 2
  MaxMeddling = 0
CHECK_DEADLOCK FALSE
PROPERTIES
  SharedTorrentStops

SPECIFICATION Spec

CONSTANTS
  Accounts = {acct1, acct2}
  Limits = {200}
  Tags = {tag}
  WantedTags = {tag}
  Requests = {r1, r2}
  MaxRepeats = 2
  MaxMarks = 1
  MaxIncidents = 1
  Empty = Empty
  Torn = Torn
  Null = Null

SYMMETRY Symmetry

INVARIANTS
  OwnAnswers
  MarksAreShown

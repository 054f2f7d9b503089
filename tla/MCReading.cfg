SPECIFICATION Spec

CONSTANTS
  Subjects = {1, 2, 3, 4}
  Dates = {1, 2}
  PageSize = 2
  MaxPages = 2
  Limits = {3, 4}
  ListLimits = {1, 2}
  FirstWish <- MCFirstWish
  MaxMarks = 2
  MaxFailures = 1
  Null = Null

INVARIANTS
  ListedOnce

PROPERTIES
  CompleteIsWhole
  WishIsFollowed

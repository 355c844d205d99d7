SPECIFICATION Spec
CONSTANTS
  Always = Always
  NoTag = NoTag
  None = None
  Moments <- HoursOfDay
  CategoryDefault <- Defaults
  Category = {"lake", "park", "clinic"}
  Extracts <- Files
  Mappings <- Maps
  Answers <- News
  Normal <- Normals
  WordsOf <- Words
  PlaceTypes <- Types
  AreaWords <- Areas
  CategoryRank <- Ranks
  MaxChanges = 2
INVARIANT ClosedDaysAreKept
CHECK_DEADLOCK FALSE

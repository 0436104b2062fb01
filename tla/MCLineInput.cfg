SPECIFICATION Spec
VIEW Read
CONSTANTS
  Rune <- MCRune
  Keys <- MCKeys
  Defaults <- MCDefaults
  BoxOptions <- MCBoxOptions
  Options <- MCOptions
  Directories <- MCDirectories
  MW = 3
  MaxHistory = 2
  MaxHeight = 3
  TabWidth = 1
  MaxTyped = 2
  MaxText = 3
  MaxLine = 4
  MaxQuery = 1
  Kept <- MCKept
  Drafts <- MCDrafts
  Hinted <- MCHinted
  Searched <- MCSearched
  Opens <- MCOpens
PROPERTIES
  AsMeant
  StarredTaken
  LinesAsMeant
CHECK_DEADLOCK FALSE

CONSTANTS
  Files <- MCFiles
  SourceFiles <- MCSources
  HeaderFiles <- MCHeaders
  Texts <- MCTexts
  NoText = NoText
  Folder <- P
  Trees <- MCTrees
  Lists <- MCLists
  Unreadable <- MCUnreadable
  SCAN_MAX_FILES = 4
  HDL_MAX_FILES = 2

SPECIFICATION WalkSpec
INVARIANTS WalkComplete LimitsHold ListsSiblings
PROPERTIES WalkEnds
CHECK_DEADLOCK FALSE

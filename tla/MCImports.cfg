CONSTANTS
  Root <- P
  Files <- MCFiles
  SourceFiles <- MCSources
  HeaderFiles <- MCHeaders
  Texts <- MCTexts
  NoText = NoText
  None = None
  NoDotfile = NoDotfile
  NamePrefixes <- MCNamePrefixes
  Disks <- MCDisks
  FirstDotfiles <- MCFirstDotfiles
  Dotfiles <- MCDotfiles
  Documents <- MCDocuments
  Volatile <- Nothing
  Resources <- CleanResources
  Imports <- MCImportPaths
  MacroSets <- MCMacroSets
  WriteOutcomes = {TRUE}
  Crashes = {}
  OpensLate = FALSE

SPECIFICATION Spec
INVARIANTS UnitsApart EachTargetOnce
PROPERTIES ScanExact HandEditsKept SplitStays SavedStays ScanFollowsLoad

SPECIFICATION Spec
CONSTANTS
  Words <- MCWords
  Label = "Search"
  Squeezed <- MCSqueezed
  Trimmed <- MCTrimmed
  Sections = 2
  Indexed <- MCIndexed
  Hits <- MCHits
  Children <- MCChildren
  MaxOrphans = 1
INVARIANTS PanelConsistent NoStaleResults RemembersWhatIsShown UpUndoesDown

SPECIFICATION LocalGraphSpec
CONSTANTS
  SrcFiles = {1, 2, 3}
  Symbols <- MCSymbols
  BareName <- MCBareName
  Texts <- MCTexts
  Absent = "absent"
  DefsOf <- MCDefs
  RefsOf <- MCRefs
  Manifests = {}
  FirstFiles <- MCFirst
  Returns = TRUE
  MaxEdits = 2
  MaxStamp = 3
  MaxTrouble = 0
  MaxDerivation = 1
INVARIANTS CurrentIsDerivation
CHECK_DEADLOCK FALSE

SPECIFICATION Spec
CONSTANTS
  Letters <- MCLetters
  Rank <- MCRank
  Labels <- MCLabels
  Forms <- MCForms
  Outside <- MCOutside
  Files <- MCFiles
  Ports = {"22", "2222"}
  Env = "env"
  Folds <- MCFolds
  Number <- MCNumber
  Escapes <- MCEscapes
  Cuts <- MCCuts
  Tasks = {t1, t2}
  NoLetter = "none"
  MaxOps = 3

PROPERTY DegradedShown
SYMMETRY Symmetry
CHECK_DEADLOCK FALSE

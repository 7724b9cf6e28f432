SPECIFICATION Spec
CONSTANTS
  Sources <- MCSources
  Keywords <- MCKeywords
  MaxLength = 3
INVARIANT
  StopsAtSentinel

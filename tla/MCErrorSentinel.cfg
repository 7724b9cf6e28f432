SPECIFICATION DisplaySpec
CONSTANTS
  Sources <- MCSources
  Keywords <- MCKeywords
  MaxAround = 2
INVARIANT
  ShownLineEndsInSource

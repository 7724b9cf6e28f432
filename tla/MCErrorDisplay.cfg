SPECIFICATION DisplaySpec
CONSTANTS
  Sources <- MCSources
  Keywords <- MCKeywords
  MaxAround = 3
INVARIANT
  ShowsTheCitedLine

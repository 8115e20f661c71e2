SPECIFICATION FairSpec
CONSTANTS
  VMin <- ReverseRange
  VMax = 20
  Requests <- TwoForms
INVARIANTS TypeOK LatestLimitInForce
PROPERTY LatestLimitTakesEffect

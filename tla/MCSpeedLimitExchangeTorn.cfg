SPECIFICATION Spec
CONSTANTS
  VMin <- ReverseRange
  VMax = 20
  Requests <- TwoForms
INVARIANT LimitWasRequested

SPECIFICATION Spec
CONSTANTS
  Clients = {c1, c2}
  Payloads <- FewPayloads
  TimeLock = 3
  OracleEnabled = TRUE
  KwilEnabled = TRUE
  Rates <- FewRates
  OracleReplies <- FewReplies
  PolicyInputs <- AllPayloads
  OracleInputs <- AllReplies
  QuoteInputs <- AllQuotes
  MaxHeight = 2
  MaxTriggers = 2
SYMMETRY ClientSymmetry
CHECK_DEADLOCK FALSE
INVARIANTS OnlyVouchedTriggersAreStored ActiveMeansStored TimeLockIsFull
           PolicyIsTheTable VerdictFollowsTheSources

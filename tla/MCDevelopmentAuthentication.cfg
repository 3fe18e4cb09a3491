SPECIFICATION FairSpec
CONSTANTS
  Requests = {r1, r2, r3}
  Attempts = {a1}
  Guests = {g1}
  MAX_ENIGMA_ATTEMPTS = 3
CHECK_DEADLOCK FALSE
INVARIANT AnswersBounded
INVARIANT Inv
PROPERTY ImplementsChallenge
PROPERTY AnsweredIsRemoved

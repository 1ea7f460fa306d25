SPECIFICATION Spec
CONSTANTS
  Slots = {c1, c2, c3, c4}
  Sessions = {s1}
  MaxArrivals = 1
  None = None
  Operations <- MCOperations
  Answers <- MCAnswers
INVARIANTS NoUseAfterFree

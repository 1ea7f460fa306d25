SPECIFICATION Spec
CONSTANTS
  Slots = {c1, c2, c3, c4, c5, c6}
  Sessions = {s1, s2, s3}
  MaxArrivals = 1
  None = None
  Operations <- MCOperations
  Answers <- MCAnswers
SYMMETRY Symmetric
VIEW View
INVARIANTS EveryoneSeesTheConversation RoomHoldsTheLiving

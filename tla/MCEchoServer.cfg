SPECIFICATION FairSpec
CONSTANTS
  Slots = {c1, c2, c3}
  Fds = {1, 2}
  None = None
  Operations <- MCOperations
  Answers <- MCAnswers
INVARIANTS EchoTypeOK OneHandlerPerConnection ConnectionsAccountedFor
PROPERTIES AcceptedIsServed

--------------------------- MODULE MCEchoServer ---------------------------
EXTENDS EchoServer, TLC

MCOperations == {"ACCEPT", "READ", "WRITE"}
MCAnswers == Fds \cup {-1, 1}
Symmetric == Permutations(Slots)
=============================================================================

--------------------------- MODULE MCChatServer ---------------------------
EXTENDS ChatServer

MCOperations == {"ACCEPT", "READ", "WRITE", "WAIT"}
MCAnswers == {-1, 1}

(* Sessions and the first slot are chosen, so they are not interchangeable.*)
Symmetric == Permutations(Slots \ {FirstSlot})

(* A coroutine looks at a result only between the end of its read or write *)
(* and what it does next; any other result is left over from before, and   *)
(* will be overwritten before it is looked at.  States that differ only in *)
(* such results are one.                                                   *)
Looked ==
  [c \in Slots |->
     IF upc[c] \in {"reading", "writing"} /\ awaits[c] = None THEN outcome[c] ELSE 0]
View == <<status, turn, awaits, answer, Looked, over, chatVars>>
=============================================================================

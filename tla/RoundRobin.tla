---------------------------- MODULE RoundRobin ----------------------------
(***************************************************************************)
(* What the executor promises its coroutines, without frames, contexts,    *)
(* tokens, rings or indices.  One runs at a time.  When the main context   *)
(* hands over the processor a round begins, in which every coroutine that  *)
(* is ready, and every one spawned meanwhile, runs exactly once; the       *)
(* processor returns to the main context only when the round is over.  A   *)
(* coroutine that awaits an operation sleeps until the kernel has answered *)
(* it, is woken between rounds, and finds the answer as its result.        *)
(***************************************************************************)
CONSTANTS
  Slots,                 (* places a coroutine can occupy                  *)
  Operations,            (* what a coroutine can await                     *)
  Answers,               (* what the kernel can answer                     *)
  None                   (* no operation, no answer                        *)

VARIABLES
  status,                (* of each slot                                   *)
  turn,                  (* the ready coroutines this round still owes     *)
  awaits,                (* the operation a slot's coroutine sleeps on     *)
  answer,                (* the kernel's answer to it                      *)
  outcome,               (* the last answer delivered to the slot          *)
  over                   (* the executor was freed                         *)

rrVars == <<status, turn, awaits, answer, outcome, over>>

Status == {"free", "ready", "running", "waiting"}

Running == {c \in Slots : status[c] = "running"}
Ready == {c \in Slots : status[c] = "ready"}
Free == {c \in Slots : status[c] = "free"}

RRInit ==
  /\ status = [c \in Slots |-> "free"]
  /\ turn = {}
  /\ awaits = [c \in Slots |-> None]
  /\ answer = [c \in Slots |-> None]
  /\ outcome = [c \in Slots |-> 0]
  /\ over = FALSE

(* By the main context before it starts, or by the running coroutine.      *)
Spawn(c) ==
  /\ ~over
  /\ status[c] = "free"
  /\ status' = [status EXCEPT ![c] = "ready"]
  /\ turn' = IF Running = {} THEN turn ELSE turn \cup {c}
  /\ UNCHANGED <<awaits, answer, outcome, over>>

StartRound(c) ==
  /\ ~over
  /\ Running = {}
  /\ c \in Ready
  /\ status' = [status EXCEPT ![c] = "running"]
  /\ turn' = Ready \ {c}
  /\ UNCHANGED <<awaits, answer, outcome, over>>

SlipKeepsTheTurn(c, s) ==
  /\ status[c] = "running"
  /\ turn' = turn
  /\ IF turn = {}
     THEN status' = [status EXCEPT ![c] = s]
     ELSE \E d \in turn : status' = [status EXCEPT ![c] = s, ![d] = "running"]

SlipBackToMain(c, s) ==
  /\ status[c] = "running"
  /\ status' = [status EXCEPT ![c] = s]
  /\ turn' = {}

(* The running coroutine leaves the processor to the next of the round, if *)
(* there is one left.                                                      *)
HandOver(c, s) ==
  /\ status[c] = "running"
  /\ IF turn = {}
     THEN /\ status' = [status EXCEPT ![c] = s]
          /\ turn' = turn
     ELSE \E d \in turn :
            /\ status' = [status EXCEPT ![c] = s, ![d] = "running"]
            /\ turn' = turn \ {d}

Await(c, op) ==
  /\ HandOver(c, "waiting")
  /\ awaits' = [awaits EXCEPT ![c] = op]
  /\ UNCHANGED <<answer, outcome, over>>

Return(c) ==
  /\ HandOver(c, "free")
  /\ UNCHANGED <<awaits, answer, outcome, over>>

Answer(c, r) ==
  /\ awaits[c] # None
  /\ answer[c] = None
  /\ answer' = [answer EXCEPT ![c] = r]
  /\ UNCHANGED <<status, turn, awaits, outcome, over>>

(* A wait has no result; what was there stays.                             *)
Wake(c) ==
  /\ Running = {}
  /\ answer[c] # None
  /\ status' = [status EXCEPT ![c] = "ready"]
  /\ outcome' = [outcome EXCEPT ![c] = IF awaits[c] = "WAIT" THEN @ ELSE answer[c]]
  /\ awaits' = [awaits EXCEPT ![c] = None]
  /\ answer' = [answer EXCEPT ![c] = None]
  /\ UNCHANGED <<turn, over>>

(* After run() ended, for whatever reason, the executor may be freed:      *)
(* nothing runs or is answered any more.                                   *)
End ==
  /\ ~over
  /\ Running = {}
  /\ over' = TRUE
  /\ awaits' = [c \in Slots |-> None]
  /\ answer' = [c \in Slots |-> None]
  /\ UNCHANGED <<status, turn, outcome>>

RRNext ==
  \/ \E c \in Slots :
       \/ Spawn(c) \/ StartRound(c) \/ Return(c) \/ Wake(c)
       \/ \E op \in Operations : Await(c, op)
       \/ \E r \in Answers : Answer(c, r)
  \/ End

RRSpec == RRInit /\ [][RRNext]_rrVars
=============================================================================

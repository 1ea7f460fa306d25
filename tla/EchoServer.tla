---------------------------- MODULE EchoServer ----------------------------
(***************************************************************************)
(* The echo server (src/examples/echo/echo-server.c) and the ping-pong     *)
(* benchmark's server (src/benchmarks/pingpong-server.c) as programs of    *)
(* the executor: a server coroutine accepts and spawns, one handler per    *)
(* connection reads and writes back.  The two differ in their handlers;    *)
(* `program' says which one runs.                                          *)
(*                                                                         *)
(* Of the executor they see what RoundRobin promises.  Each step of a      *)
(* coroutine runs from one suspension to the next, or to a spawn.  Both    *)
(* programs ask for more tokens than frames, so no operation is refused    *)
(* (TokensSuffice of module Executor).                                     *)
(*                                                                         *)
(* The server's fd is a variable of its loop's body, and a handler reads   *)
(* it through a pointer one iteration later.  What C leaves undefined      *)
(* there is taken as compilers do it: the same stack slot, untouched until *)
(* the next accept returns.                                                *)
(***************************************************************************)
EXTENDS RoundRobin, Integers, FiniteSets

CONSTANT Fds            (* descriptors the process has for connections     *)

ASSUME EchoAssumption ==
  /\ Fds \subseteq Nat \ {0}
  /\ Operations = {"ACCEPT", "READ", "WRITE"}
  /\ Answers = Fds \cup {-1, 1}
  /\ None \notin Operations /\ None \notin Answers \cup {0}

VARIABLES
  program,   (* "echo" or "pingpong"                                       *)
  upc,       (* where a slot's coroutine is in its function                *)
  data,      (* its argument: whose local fd that points to                *)
  fd,        (* its local variable fd                                      *)
  open,      (* connections the process has open                           *)
  lost       (* those among them that nothing will ever close              *)

echoVars == <<program, upc, data, fd, open, lost>>
vars == <<rrVars, echoVars>>

-----------------------------------------------------------------------------
Failure == -1
FullLength == 1         \* of a message, read or written

Init ==
  /\ RRInit
  /\ program \in {"echo", "pingpong"}
  /\ upc = [c \in Slots |-> "free"]
  /\ data = [c \in Slots |-> c]
  /\ fd = [c \in Slots |-> Failure]
  /\ open = {}
  /\ lost = {}

Runs(c, at) == status[c] = "running" /\ upc[c] = at

(* main() spawns the server before run().                                  *)
SpawnServer(c) ==
  /\ Free = Slots
  /\ Spawn(c)
  /\ upc' = [upc EXCEPT ![c] = "loop"]
  /\ UNCHANGED <<program, data, fd, open, lost>>

-----------------------------------------------------------------------------
(* echo_server, pingpong_server *)

ServerAccepts(c) ==
  /\ Runs(c, "loop")
  /\ Await(c, "ACCEPT")
  /\ upc' = [upc EXCEPT ![c] = "accepting"]
  /\ UNCHANGED <<program, data, fd, open, lost>>

(* The handler gets the address of fd; that accept may have failed is not  *)
(* looked at.                                                              *)
ServerSpawns(c) ==
  /\ Runs(c, "accepting")
  /\ fd' = [fd EXCEPT ![c] = outcome[c]]
  /\ \E h \in Free :
       /\ Spawn(h)
       /\ upc' = [upc EXCEPT ![c] = "loop", ![h] = "spawned"]
       /\ data' = [data EXCEPT ![h] = c]
  /\ UNCHANGED <<program, open, lost>>

(* Nor is it that async_exec may fail.                                     *)
ServerDrops(c) ==
  /\ Runs(c, "accepting")
  /\ Free = {}
  /\ fd' = [fd EXCEPT ![c] = outcome[c]]
  /\ upc' = [upc EXCEPT ![c] = "loop"]
  /\ lost' = lost \cup ({outcome[c]} \cap open)
  /\ UNCHANGED <<rrVars, program, data, open>>

-----------------------------------------------------------------------------
(* client_handler *)

HandlerStarts(c) ==
  /\ Runs(c, "spawned")
  /\ fd' = [fd EXCEPT ![c] = fd[data[c]]]
  /\ Await(c, "READ")
  /\ upc' = [upc EXCEPT ![c] = "reading"]
  /\ UNCHANGED <<program, data, open, lost>>

SlipReadsArgumentAgain(c) ==
  /\ Runs(c, "reading")
  /\ outcome[c] > 0
  /\ fd' = [fd EXCEPT ![c] = fd[data[c]]]
  /\ Await(c, "WRITE")
  /\ upc' = [upc EXCEPT ![c] = "writing"]
  /\ UNCHANGED <<program, data, open, lost>>

HandlerWrites(c) ==
  /\ Runs(c, "reading")
  /\ outcome[c] > 0
  /\ Await(c, "WRITE")
  /\ upc' = [upc EXCEPT ![c] = "writing"]
  /\ UNCHANGED <<program, data, fd, open, lost>>

HandlerReadsAgain(c) ==
  /\ program = "pingpong"
  /\ Runs(c, "writing")
  /\ outcome[c] = FullLength
  /\ Await(c, "READ")
  /\ upc' = [upc EXCEPT ![c] = "reading"]
  /\ UNCHANGED <<program, data, fd, open, lost>>

Failed(c) ==
  \/ Runs(c, "reading") /\ outcome[c] <= 0
  \/ Runs(c, "writing") /\ outcome[c] # FullLength

(* The coroutine's locals are gone with it.                                *)
Returns(c) ==
  /\ Return(c)
  /\ upc' = [upc EXCEPT ![c] = "free"]
  /\ data' = [data EXCEPT ![c] = c]
  /\ fd' = [fd EXCEPT ![c] = Failure]
  /\ UNCHANGED program

SlipReturnsFromError(c) ==
  /\ \/ program = "pingpong" /\ Failed(c)
     \/ program = "echo" /\ Runs(c, "writing") /\ ~Failed(c)
  /\ Returns(c)
  /\ open' = IF Failed(c) THEN open ELSE open \ {fd[c]}
  /\ UNCHANGED lost

(* The echo handler closes after the one message it echoes, the ping-pong  *)
(* handler after its loop, which ends with an error.                       *)
HandlerCloses(c) ==
  /\ \/ program = "pingpong" /\ Failed(c)
     \/ program = "echo" /\ Runs(c, "writing") /\ ~Failed(c)
  /\ Returns(c)
  /\ open' = open \ {fd[c]}
  /\ UNCHANGED lost

(* The echo handler returns from an error without closing.                 *)
HandlerGivesUp(c) ==
  /\ program = "echo" /\ Failed(c)
  /\ Returns(c)
  /\ lost' = lost \cup ({fd[c]} \cap open)
  /\ UNCHANGED open

-----------------------------------------------------------------------------
(* What the kernel may answer: a connection gets the lowest descriptor     *)
(* that is not in use, or none; reading and writing work on open ones.     *)
KernelAccepts(c) ==
  /\ awaits[c] = "ACCEPT"
  /\ \E r \in {Failure} \cup {n \in Fds \ open : \A m \in Fds \ open : n <= m} :
       /\ Answer(c, r)
       /\ open' = open \cup ({r} \ {Failure})
  /\ UNCHANGED <<program, upc, data, fd, lost>>

KernelTransfers(c) ==
  /\ awaits[c] \in {"READ", "WRITE"}
  /\ \E r \in {Failure} \cup (IF fd[c] \in open THEN {FullLength} ELSE {}) :
       Answer(c, r)
  /\ UNCHANGED echoVars

Server(c) == ServerAccepts(c) \/ ServerSpawns(c) \/ ServerDrops(c)

Handler(c) ==
  \/ HandlerStarts(c) \/ HandlerWrites(c) \/ HandlerReadsAgain(c)
  \/ HandlerCloses(c) \/ HandlerGivesUp(c)

(* run(), which only an error ends: the server never returns.              *)
Executes(c) == (StartRound(c) \/ Wake(c)) /\ UNCHANGED echoVars
Ends == End /\ UNCHANGED echoVars
Ended == over /\ UNCHANGED vars

Next ==
  \/ \E c \in Slots :
       \/ SpawnServer(c) \/ Server(c) \/ Handler(c) \/ Executes(c)
       \/ KernelAccepts(c) \/ KernelTransfers(c)
  \/ Ends \/ Ended

Spec == Init /\ [][Next]_vars

(* The processor goes on with whatever coroutine has it, and with run();   *)
(* run() starts a round whenever one can start, and reaps each completion  *)
(* sooner or later (CompletionResumes and ReadyRuns of module Executor).   *)
(* Nothing is assumed of the kernel or of the clients.                     *)
Fairness ==
  /\ WF_vars(\E c \in Slots : Server(c) \/ Handler(c))
  /\ WF_vars(\E c \in Slots : StartRound(c) /\ UNCHANGED echoVars)
  /\ \A c \in Slots : SF_vars(Wake(c) /\ UNCHANGED echoVars)

FairSpec == Spec /\ Fairness

-----------------------------------------------------------------------------
(* Properties *)

EchoTypeOK ==
  /\ status \in [Slots -> Status] /\ turn \subseteq Ready /\ Cardinality(Running) <= 1
  /\ awaits \in [Slots -> Operations \cup {None}]
  /\ answer \in [Slots -> Answers \cup {None}]
  /\ outcome \in [Slots -> Answers \cup {0}]
  /\ upc \in [Slots -> {"free", "loop", "accepting", "spawned", "reading", "writing"}]
  /\ data \in [Slots -> Slots]
  /\ fd \in [Slots -> Fds \cup {Failure}]
  /\ lost \subseteq open /\ open \subseteq Fds

Handlers == {c \in Slots : upc[c] \in {"spawned", "reading", "writing"}}

(* The descriptor a handler works on, or will find through its argument.   *)
Serves(c) == IF upc[c] = "spawned" THEN fd[data[c]] ELSE fd[c]

(* Every handler works on a connection that is open and its own: the next  *)
(* accept does not overwrite the server's fd before the handler that was   *)
(* given its address has read it, nothing is used after it was closed, and *)
(* a descriptor the kernel hands out again is in nobody else's hands.      *)
OneHandlerPerConnection ==
  \A c, d \in Handlers :
    Serves(c) # Failure =>
      /\ Serves(c) \in open \ lost
      /\ Serves(c) = Serves(d) => c = d

(* Accepted, and not yet seen by the server.                               *)
InTransit ==
  {answer[c] : c \in {d \in Slots : awaits[d] = "ACCEPT" /\ answer[d] # None}}
    \cup {outcome[c] : c \in {d \in Slots : upc[d] = "accepting" /\ status[d] # "waiting"}}

(* Every open connection is on its way to the server, served by a handler, *)
(* or lost in one of the two ways the programs lose one: all frames were   *)
(* in use, or an echo handler met an error.                                *)
ConnectionsAccountedFor ==
  ~over => open = lost \cup (({Serves(c) : c \in Handlers} \cup InTransit) \ {Failure})

(* A connection the kernel has accepted gets a handler that reads from it, *)
(* unless it is dropped or run() ends: the server neither stops accepting  *)
(* nor starves its handlers, even when accept fails over and over.         *)
AcceptedIsServed ==
  \A n \in Fds :
    n \in InTransit ~>
      \/ \E c \in Slots : upc[c] = "reading" /\ fd[c] = n
      \/ n \in lost
      \/ over
=============================================================================

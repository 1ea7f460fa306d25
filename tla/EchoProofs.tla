----------------------------- MODULE EchoProofs -----------------------------
(***************************************************************************)
(* The safety of the echo and the ping-pong server, for every number of    *)
(* frames and of descriptors.                                              *)
(***************************************************************************)
EXTENDS EchoServer, FiniteSetTheorems, TLAPS

Points == {"free", "loop", "accepting", "spawned", "reading", "writing"}

Types ==
  /\ status \in [Slots -> Status] /\ turn \subseteq Slots
  /\ awaits \in [Slots -> Operations \cup {None}]
  /\ answer \in [Slots -> Answers \cup {None}]
  /\ outcome \in [Slots -> Answers \cup {0}]
  /\ upc \in [Slots -> Points]
  /\ data \in [Slots -> Slots]
  /\ fd \in [Slots -> Fds \cup {Failure}]
  /\ lost \subseteq open /\ open \subseteq Fds
  /\ over \in BOOLEAN

(* One coroutine runs; a round belongs to those that are ready, and is     *)
(* over when none runs.                                                    *)
Rounds ==
  /\ \A c, d \in Slots : status[c] = "running" /\ status[d] = "running" => c = d
  /\ \A c \in turn : status[c] = "ready"
  /\ (\A c \in Slots : status[c] # "running") => turn = {}
  /\ over => \A c \in Slots : status[c] # "running"

(* Where a coroutine is in its function is what it sleeps on.              *)
Places ==
  \A c \in Slots :
    /\ (upc[c] = "free") <=> (status[c] = "free")
    /\ upc[c] \in {"loop", "spawned"} => status[c] \in {"ready", "running"}
    /\ awaits[c] # None => status[c] = "waiting"
    /\ ~over /\ status[c] = "waiting" =>
         awaits[c] = CASE upc[c] = "accepting" -> "ACCEPT"
                       [] upc[c] = "reading" -> "READ"
                       [] OTHER -> "WRITE"
    /\ answer[c] # None => awaits[c] # None
    /\ over => awaits[c] = None

Serving(c) == upc[c] \in {"loop", "accepting"}

OneServer == \A c, d \in Slots : Serving(c) /\ Serving(d) => c = d

(* A handler that was spawned runs before the server does again: it is in  *)
(* the round in which the server spawned it, and the server, once it       *)
(* sleeps, is not woken in it.                                             *)
ArgumentIntact ==
  /\ \A h \in Slots : upc[h] = "spawned" =>
       /\ h \in turn \/ status[h] = "running"
       /\ \/ upc[data[h]] = "loop" /\ status[data[h]] = "running"
          \/ upc[data[h]] = "accepting" /\ status[data[h]] = "waiting"
  /\ \A h, k \in Slots : upc[h] = "spawned" /\ upc[k] = "spawned" => h = k

Handles(c) == upc[c] \in {"spawned", "reading", "writing"}

(* The server's slot holds the connection n, which it has not handed on.   *)
Brings(c, n) ==
  /\ upc[c] = "accepting"
  /\ \/ status[c] = "waiting" /\ answer[c] = n
     \/ status[c] # "waiting" /\ outcome[c] = n

Unserved(n) ==
  \/ n = Failure
  \/ n \in open \ lost /\ \A h \in Slots : Handles(h) => Serves(h) # n

Connections ==
  /\ \A h \in Slots : Handles(h) => Serves(h) = Failure \/ Serves(h) \in open \ lost
  /\ \A h, k \in Slots :
       Handles(h) /\ Handles(k) /\ Serves(h) = Serves(k) /\ Serves(h) # Failure => h = k
  /\ \A c \in Slots, n \in Answers \cup {0} : Brings(c, n) => Unserved(n)
  /\ ~over => \A n \in open \ lost :
       \E c \in Slots : Brings(c, n) \/ (Handles(c) /\ Serves(c) = n)

EchoInv == Types /\ Rounds /\ Places /\ OneServer /\ ArgumentIntact /\ Connections

-----------------------------------------------------------------------------
LEMMA EchoInit == Init => EchoInv
<1> SUFFICES ASSUME Init PROVE EchoInv
  OBVIOUS
<1>1. Types
  BY DEF Init, RRInit, Types, Status, Points, Failure
<1>2. Rounds /\ Places /\ OneServer /\ ArgumentIntact
  BY DEF Init, RRInit, Rounds, Places, OneServer, Serving, ArgumentIntact
<1>3. Connections
  BY DEF Init, Connections, Handles, Brings
<1> QED
  BY <1>1, <1>2, <1>3 DEF EchoInv

LEMMA HandOverKeeps ==
  ASSUME Types, Rounds, over' = over,
         NEW c \in Slots, NEW s \in {"free", "waiting"}, HandOver(c, s)
  PROVE  /\ status' \in [Slots -> Status] /\ turn' \subseteq Slots /\ Rounds'
         /\ status[c] = "running" /\ status'[c] = s /\ ~over
         /\ \A d \in Slots \ {c} :
              \/ status'[d] = status[d] /\ status[d] # "running" /\ (d \in turn => d \in turn')
              \/ status[d] = "ready" /\ status'[d] = "running"
<1> USE DEF Types, Status
<1>1. CASE turn = {}
  BY <1>1 DEF HandOver, Rounds
<1>2. CASE turn # {}
  <2>1. PICK d \in turn : /\ status' = [status EXCEPT ![c] = s, ![d] = "running"]
                          /\ turn' = turn \ {d}
    BY <1>2 DEF HandOver
  <2>2. status[c] = "running" /\ status[d] = "ready" /\ d \in Slots /\ c # d
    BY <2>1 DEF HandOver, Rounds
  <2>3. /\ status' \in [Slots -> Status] /\ status'[d] = "running" /\ status'[c] = s
        /\ \A e \in Slots \ {c, d} : status'[e] = status[e] /\ status[e] # "running"
    BY <2>1, <2>2 DEF Rounds
  <2> QED
    BY <2>1, <2>2, <2>3 DEF Rounds
<1> QED
  BY <1>1, <1>2

LEMMA StartKeeps ==
  ASSUME EchoInv, NEW c \in Slots, StartRound(c), UNCHANGED echoVars
  PROVE  EchoInv'
<1>1. /\ status' \in [Slots -> Status] /\ status'[c] = "running" /\ status[c] = "ready"
      /\ \A d \in Slots \ {c} : status'[d] = status[d] /\ status[d] # "running"
      /\ turn' = {d \in Slots : status[d] = "ready"} \ {c} /\ turn = {}
  BY DEF EchoInv, Types, Rounds, StartRound, Running, Ready, Status
<1>2. Types' /\ Rounds'
  BY <1>1 DEF EchoInv, Types, Rounds, StartRound, echoVars
<1>3. Places' /\ OneServer'
  BY <1>1 DEF EchoInv, Types, Places, OneServer, Serving, StartRound, echoVars
<1>4. ArgumentIntact'
  BY <1>1 DEF EchoInv, Types, ArgumentIntact, StartRound, echoVars
<1>5. Connections'
  BY <1>1 DEF EchoInv, Types, Connections, Handles, Brings, Unserved, Serves, StartRound, echoVars
<1> QED
  BY <1>2, <1>3, <1>4, <1>5 DEF EchoInv

LEMMA WakeKeeps ==
  ASSUME EchoInv, NEW c \in Slots, Wake(c), UNCHANGED echoVars
  PROVE  EchoInv'
<1>1. /\ status' \in [Slots -> Status] /\ status'[c] = "ready" /\ status[c] = "waiting"
      /\ \A d \in Slots \ {c} : status'[d] = status[d]
      /\ \A d \in Slots : status[d] # "running"
      /\ turn' = {} /\ turn = {} /\ ~over
  BY DEF EchoInv, Types, Rounds, Places, Wake, Running, Status
<1>2. /\ awaits[c] # "WAIT" /\ answer[c] \in Answers /\ awaits'[c] = None /\ answer'[c] = None
      /\ outcome'[c] = answer[c]
      /\ \A d \in Slots \ {c} :
           awaits'[d] = awaits[d] /\ answer'[d] = answer[d] /\ outcome'[d] = outcome[d]
      /\ awaits' \in [Slots -> Operations \cup {None}]
      /\ answer' \in [Slots -> Answers \cup {None}]
      /\ outcome' \in [Slots -> Answers \cup {0}]
  BY EchoAssumption DEF EchoInv, Types, Places, Wake
<1>3. Types' /\ Rounds'
  BY <1>1, <1>2 DEF EchoInv, Types, Rounds, Wake, echoVars
<1>4. Places' /\ OneServer'
  BY <1>1, <1>2 DEF EchoInv, Types, Places, OneServer, Serving, Wake, echoVars
<1>5. ArgumentIntact'
  BY <1>1, <1>2 DEF EchoInv, Types, ArgumentIntact, Wake, echoVars
<1>6. Connections'
  BY <1>1, <1>2 DEF EchoInv, Types, Connections, Handles, Brings, Unserved, Serves, Wake, echoVars
<1> QED
  BY <1>3, <1>4, <1>5, <1>6 DEF EchoInv

LEMMA EndKeeps == EchoInv /\ Ends => EchoInv'
<1> SUFFICES ASSUME EchoInv, Ends PROVE EchoInv'
  OBVIOUS
<1> USE DEF Ends, End, echoVars
<1>1. Types' /\ Rounds'
  BY DEF EchoInv, Types, Rounds, Running
<1>2. Places' /\ OneServer' /\ ArgumentIntact'
  BY DEF EchoInv, Types, Places, OneServer, Serving, ArgumentIntact
<1>3. Connections'
  BY EchoAssumption DEF EchoInv, Types, Connections, Handles, Brings, Unserved, Serves
<1> QED
  BY <1>1, <1>2, <1>3 DEF EchoInv

LEMMA SpawnServerKeeps ==
  ASSUME EchoInv, NEW c \in Slots, SpawnServer(c)
  PROVE  EchoInv'
<1>1. \A d \in Slots : status[d] = "free" /\ upc[d] = "free"
  BY DEF EchoInv, Places, SpawnServer, Free
<1>2. /\ status' \in [Slots -> Status] /\ status'[c] = "ready" /\ upc'[c] = "loop"
      /\ \A d \in Slots \ {c} : status'[d] = "free" /\ upc'[d] = "free"
      /\ upc' \in [Slots -> Points] /\ turn' = turn /\ turn = {}
  BY <1>1 DEF EchoInv, Types, Rounds, SpawnServer, Spawn, Running, Status, Points
<1> USE DEF SpawnServer, Spawn
<1>3. Types' /\ Rounds'
  BY <1>1, <1>2 DEF EchoInv, Types, Rounds
<1>4. Places' /\ OneServer' /\ ArgumentIntact'
  BY <1>1, <1>2 DEF EchoInv, Types, Places, OneServer, Serving, ArgumentIntact
<1>5. Connections'
  BY <1>1, <1>2 DEF EchoInv, Types, Connections, Handles, Brings, Unserved, Serves
<1> QED
  BY <1>3, <1>4, <1>5 DEF EchoInv

LEMMA AcceptsKeeps ==
  ASSUME EchoInv, NEW c \in Slots, ServerAccepts(c)
  PROVE  EchoInv'
<1>1. /\ Rounds' /\ status' \in [Slots -> Status] /\ turn' \subseteq Slots
      /\ status[c] = "running" /\ status'[c] = "waiting" /\ ~over /\ ~over'
      /\ \A d \in Slots \ {c} :
           \/ status'[d] = status[d] /\ status[d] # "running" /\ (d \in turn => d \in turn')
           \/ status[d] = "ready" /\ status'[d] = "running"
  BY HandOverKeeps DEF EchoInv, ServerAccepts, Await
<1>2. /\ upc' \in [Slots -> Points] /\ awaits' \in [Slots -> Operations \cup {None}]
      /\ upc[c] = "loop" /\ upc'[c] = "accepting" /\ awaits'[c] = "ACCEPT"
      /\ answer[c] = None
      /\ \A d \in Slots \ {c} : upc'[d] = upc[d] /\ awaits'[d] = awaits[d]
      /\ UNCHANGED <<answer, outcome, over, data, fd, open, lost>>
  BY <1>1, EchoAssumption
     DEF EchoInv, Types, Points, Places, ServerAccepts, Runs, Await
<1>3. Types'
  BY <1>1, <1>2 DEF EchoInv, Types
<1>4. Places'
  BY <1>1, <1>2, EchoAssumption DEF EchoInv, Types, Places
<1>5. OneServer' /\ ArgumentIntact'
  <2>1. OneServer'
    BY <1>2 DEF EchoInv, OneServer, Serving
  <2>2. ASSUME NEW h \in Slots, upc'[h] = "spawned"
        PROVE  upc[h] = "spawned" /\ data'[h] = c /\ (h \in turn' \/ status'[h] = "running")
    BY <1>1, <1>2, <2>2 DEF EchoInv, Types, OneServer, Serving, ArgumentIntact
  <2> QED
    BY <1>1, <1>2, <2>1, <2>2 DEF EchoInv, ArgumentIntact
<1>6. Connections'
  <2>1. \A d \in Slots : (Handles(d)' <=> Handles(d)) /\ (Handles(d) => Serves(d)' = Serves(d))
    BY <1>2 DEF Handles, Serves
  <2>2. \A d \in Slots, n \in Answers \cup {0} : ~Brings(d, n)' /\ ~Brings(d, n)
    BY <1>1, <1>2, EchoAssumption DEF EchoInv, OneServer, Serving, Brings
  <2> QED
    BY <1>2, <2>1, <2>2, EchoAssumption DEF EchoInv, Types, Connections
<1> QED
  BY <1>1, <1>3, <1>4, <1>5, <1>6 DEF EchoInv

LEMMA SpawnsKeeps ==
  ASSUME EchoInv, NEW c \in Slots, ServerSpawns(c)
  PROVE  EchoInv'
<1>1. PICK h \in Slots :
        /\ status[h] = "free" /\ status' = [status EXCEPT ![h] = "ready"]
        /\ ~over /\ turn' = turn \cup {h}
        /\ upc' = [upc EXCEPT ![c] = "loop", ![h] = "spawned"]
        /\ data' = [data EXCEPT ![h] = c]
  BY DEF ServerSpawns, Free, Spawn, Runs, Running
<1>2. /\ status[c] = "running" /\ upc[c] = "accepting" /\ fd' = [fd EXCEPT ![c] = outcome[c]]
      /\ UNCHANGED <<awaits, answer, outcome, over, open, lost>>
  BY DEF ServerSpawns, Spawn, Runs
<1>3. upc[h] = "free" /\ h # c /\ \A k \in Slots : upc[k] # "spawned"
  BY <1>1, <1>2 DEF EchoInv, Types, Places, OneServer, Serving, ArgumentIntact
<1>4. outcome[c] \in Fds \cup {Failure} /\ Unserved(outcome[c])
  BY <1>2, EchoAssumption DEF EchoInv, Types, Connections, Brings, Unserved
<1>5. /\ status' \in [Slots -> Status] /\ upc' \in [Slots -> Points] /\ data' \in [Slots -> Slots]
      /\ fd' \in [Slots -> Fds \cup {Failure}]
      /\ status'[h] = "ready" /\ upc'[h] = "spawned" /\ data'[h] = c
      /\ status'[c] = "running" /\ upc'[c] = "loop" /\ fd'[c] = outcome[c]
      /\ \A d \in Slots \ {c, h} : status'[d] = status[d] /\ upc'[d] = upc[d]
      /\ \A d \in Slots \ {c} : fd'[d] = fd[d]
  BY <1>1, <1>2, <1>3, <1>4 DEF EchoInv, Types, Status, Points
<1>6. Types' /\ Rounds'
  BY <1>1, <1>2, <1>3, <1>5 DEF EchoInv, Types, Rounds
<1>7. Places'
  BY <1>2, <1>3, <1>5 DEF EchoInv, Places
<1>8. OneServer' /\ ArgumentIntact'
  BY <1>1, <1>2, <1>3, <1>5 DEF EchoInv, OneServer, Serving, ArgumentIntact
<1>9. Connections'
  <2>1. /\ Handles(h)' /\ Serves(h)' = outcome[c] /\ ~Handles(c)' /\ ~Handles(h) /\ ~Handles(c)
        /\ \A d \in Slots \ {c, h} : (Handles(d)' <=> Handles(d)) /\ (Handles(d) => Serves(d)' = Serves(d))
    BY <1>2, <1>3, <1>5 DEF Handles, Serves
  <2>2. \A d \in Slots, n \in Answers \cup {0} : ~Brings(d, n)'
    BY <1>2, <1>3, <1>5 DEF EchoInv, OneServer, Serving, Brings
  <2>3. \A d \in Slots, n \in Fds : Brings(d, n) => d = c /\ n = outcome[c]
    BY <1>2 DEF EchoInv, OneServer, Serving, Brings
  <2> QED
    BY <1>1, <1>2, <1>4, <2>1, <2>2, <2>3 DEF EchoInv, Types, Connections, Unserved
<1> QED
  BY <1>6, <1>7, <1>8, <1>9 DEF EchoInv

LEMMA DropsKeeps ==
  ASSUME EchoInv, NEW c \in Slots, ServerDrops(c)
  PROVE  EchoInv'
<1>1. /\ status[c] = "running" /\ upc[c] = "accepting" /\ ~over
      /\ fd' = [fd EXCEPT ![c] = outcome[c]] /\ upc' = [upc EXCEPT ![c] = "loop"]
      /\ lost' = lost \cup ({outcome[c]} \cap open)
      /\ UNCHANGED <<status, turn, awaits, answer, outcome, over, data, open>>
  BY DEF ServerDrops, Runs, rrVars, EchoInv, Rounds
<1>2. outcome[c] \in Fds \cup {Failure} /\ Unserved(outcome[c])
  BY <1>1, EchoAssumption DEF EchoInv, Types, Connections, Brings, Unserved
<1>3. \A k \in Slots : upc[k] # "spawned"
  BY <1>1 DEF EchoInv, Types, OneServer, Serving, ArgumentIntact
<1>4. /\ upc' \in [Slots -> Points] /\ fd' \in [Slots -> Fds \cup {Failure}]
      /\ upc'[c] = "loop"
      /\ \A d \in Slots \ {c} : upc'[d] = upc[d] /\ fd'[d] = fd[d]
  BY <1>1, <1>2 DEF EchoInv, Types, Points
<1>5. Types' /\ Rounds'
  BY <1>1, <1>4 DEF EchoInv, Types, Rounds
<1>6. Places' /\ OneServer' /\ ArgumentIntact'
  BY <1>1, <1>3, <1>4 DEF EchoInv, Places, OneServer, Serving, ArgumentIntact
<1>7. Connections'
  <2>1. /\ \A d \in Slots : Handles(d)' <=> Handles(d)
        /\ \A d \in Slots : Handles(d) => Serves(d)' = Serves(d)
    BY <1>1, <1>3, <1>4 DEF Handles, Serves
  <2>2. \A d \in Slots, n \in Answers \cup {0} : ~Brings(d, n)'
    BY <1>1, <1>4 DEF EchoInv, OneServer, Serving, Brings
  <2>3. \A d \in Slots, n \in Fds : Brings(d, n) => d = c /\ n = outcome[c]
    BY <1>1 DEF EchoInv, OneServer, Serving, Brings
  <2> QED
    BY <1>1, <1>2, <2>1, <2>2, <2>3 DEF EchoInv, Types, Connections, Unserved
<1> QED
  BY <1>5, <1>6, <1>7 DEF EchoInv

LEMMA HandlerSuspends ==
  ASSUME EchoInv, NEW c \in Slots, NEW at \in {"reading", "writing"}, Handles(c),
         Await(c, IF at = "reading" THEN "READ" ELSE "WRITE"),
         upc' = [upc EXCEPT ![c] = at],
         fd' = [fd EXCEPT ![c] = Serves(c)],
         UNCHANGED <<program, data, open, lost>>
  PROVE  EchoInv'
<1> DEFINE op == IF at = "reading" THEN "READ" ELSE "WRITE"
<1>1. /\ Rounds' /\ status' \in [Slots -> Status] /\ turn' \subseteq Slots
      /\ status[c] = "running" /\ status'[c] = "waiting" /\ ~over /\ ~over'
      /\ \A d \in Slots \ {c} :
           \/ status'[d] = status[d] /\ status[d] # "running" /\ (d \in turn => d \in turn')
           \/ status[d] = "ready" /\ status'[d] = "running"
  BY HandOverKeeps DEF EchoInv, Await
<1>2. Serves(c) \in Fds \cup {Failure} /\ op \in Operations
  BY EchoAssumption DEF EchoInv, Types, Serves
<1>3. /\ upc' \in [Slots -> Points] /\ awaits' \in [Slots -> Operations \cup {None}]
      /\ fd' \in [Slots -> Fds \cup {Failure}]
      /\ upc'[c] = at /\ awaits'[c] = op /\ fd'[c] = Serves(c) /\ answer[c] = None
      /\ \A d \in Slots \ {c} : upc'[d] = upc[d] /\ awaits'[d] = awaits[d] /\ fd'[d] = fd[d]
      /\ UNCHANGED <<answer, outcome, over, data, open, lost>>
  BY <1>1, <1>2 DEF EchoInv, Types, Points, Places, Await
<1>4. Types'
  BY <1>1, <1>3 DEF EchoInv, Types
<1>5. Places'
  BY <1>1, <1>3, EchoAssumption DEF EchoInv, Types, Places
<1>6. OneServer'
  BY <1>3 DEF EchoInv, OneServer, Serving
<1>7. ArgumentIntact'
  <2>1. ASSUME NEW h \in Slots, upc'[h] = "spawned"
        PROVE  /\ upc[h] = "spawned" /\ h # c /\ data'[h] = data[h] /\ data[h] \in Slots
               /\ h \in turn' \/ status'[h] = "running"
               /\ upc[data[h]] = "accepting" /\ status[data[h]] = "waiting" /\ data[h] # c
    BY <1>1, <1>3, <2>1 DEF EchoInv, Types, Rounds, ArgumentIntact, Handles
  <2> QED
    BY <1>1, <1>3, <2>1 DEF EchoInv, ArgumentIntact
<1>8. Connections'
  <2>1. \A d \in Slots : (Handles(d)' <=> Handles(d)) /\ (Handles(d) => Serves(d)' = Serves(d))
    BY <1>3 DEF EchoInv, Types, ArgumentIntact, Handles, Serves
  <2>2. \A d \in Slots, n \in Answers \cup {0} : Brings(d, n)' <=> Brings(d, n)
    BY <1>1, <1>3 DEF Brings, Handles
  <2> QED
    BY <1>3, <2>1, <2>2, EchoAssumption DEF EchoInv, Types, Connections, Unserved
<1> QED
  BY <1>1, <1>4, <1>5, <1>6, <1>7, <1>8 DEF EchoInv

LEMMA HandlerReturns ==
  ASSUME EchoInv, NEW c \in Slots, upc[c] \in {"reading", "writing"}, Returns(c),
         \/ open' = open \ {fd[c]} /\ lost' = lost
         \/ open' = open /\ lost' = lost \cup ({fd[c]} \cap open)
  PROVE  EchoInv'
<1>1. /\ Rounds' /\ status' \in [Slots -> Status] /\ turn' \subseteq Slots
      /\ status[c] = "running" /\ status'[c] = "free" /\ ~over /\ ~over'
      /\ \A d \in Slots \ {c} :
           \/ status'[d] = status[d] /\ status[d] # "running" /\ (d \in turn => d \in turn')
           \/ status[d] = "ready" /\ status'[d] = "running"
  BY HandOverKeeps DEF EchoInv, Returns, Return
<1>2. /\ upc' \in [Slots -> Points] /\ data' \in [Slots -> Slots]
      /\ fd' \in [Slots -> Fds \cup {Failure}]
      /\ upc'[c] = "free" /\ awaits[c] = None
      /\ \A d \in Slots \ {c} : upc'[d] = upc[d] /\ data'[d] = data[d] /\ fd'[d] = fd[d]
      /\ UNCHANGED <<awaits, answer, outcome, over>>
  BY <1>1 DEF EchoInv, Types, Points, Places, Returns, Return
<1>3. Types' /\ (open \ lost)' = (open \ lost) \ {fd[c]}
  <2>1. fd[c] = Failure \/ fd[c] \in open \ lost
    BY DEF EchoInv, Connections, Handles, Serves
  <2>2. Failure \notin open
    BY EchoAssumption DEF EchoInv, Types, Failure
  <2> QED
    BY <1>1, <1>2, <2>1, <2>2 DEF EchoInv, Types
<1>4. Places'
  BY <1>1, <1>2 DEF EchoInv, Types, Places
<1>5. OneServer'
  BY <1>2 DEF EchoInv, OneServer, Serving
<1>6. ASSUME NEW h \in Slots, upc'[h] = "spawned"
      PROVE  /\ upc[h] = "spawned" /\ h # c /\ data'[h] = data[h] /\ data[h] \in Slots
             /\ h \in turn' \/ status'[h] = "running"
             /\ upc[data[h]] = "accepting" /\ status[data[h]] = "waiting" /\ data[h] # c
  BY <1>1, <1>2, <1>6 DEF EchoInv, Types, Rounds, ArgumentIntact
<1>7. ArgumentIntact'
  BY <1>1, <1>2, <1>6 DEF EchoInv, ArgumentIntact
<1>8. Connections'
  <2>1. /\ Handles(c) /\ ~Handles(c)' /\ Serves(c) = fd[c]
        /\ \A d \in Slots \ {c} : (Handles(d)' <=> Handles(d)) /\ (Handles(d) => Serves(d)' = Serves(d))
    BY <1>2, <1>6 DEF Handles, Serves
  <2>2. \A d \in Slots, n \in Answers \cup {0} : Brings(d, n)' <=> Brings(d, n)
    BY <1>1, <1>2 DEF Brings
  <2>3. \A d \in Slots \ {c} : Handles(d) => Serves(d) = Failure \/ Serves(d) # fd[c]
    BY <2>1 DEF EchoInv, Connections
  <2>4. \A n \in Answers \cup {0} : Unserved(n) /\ (\E d \in Slots : Brings(d, n)) => Unserved(n)'
    BY <1>3, <2>1 DEF Unserved
  <2>5. \A h \in Slots : Handles(h)' => Serves(h)' = Failure \/ Serves(h)' \in (open \ lost)'
    BY <1>3, <2>1, <2>3 DEF EchoInv, Connections
  <2>6. \A n \in (open \ lost)' : \E d \in Slots : Brings(d, n)' \/ (Handles(d)' /\ Serves(d)' = n)
    BY <1>1, <1>3, <2>1, <2>2, EchoAssumption DEF EchoInv, Types, Connections
  <2> QED
    BY <2>1, <2>2, <2>4, <2>5, <2>6 DEF EchoInv, Connections
<1> QED
  BY <1>1, <1>3, <1>4, <1>5, <1>7, <1>8 DEF EchoInv

LEMMA KernelKeeps ==
  ASSUME EchoInv, NEW c \in Slots, KernelAccepts(c) \/ KernelTransfers(c)
  PROVE  EchoInv'
<1>1. PICK r \in Answers :
        /\ Answer(c, r) /\ UNCHANGED <<program, upc, data, fd, lost>>
        /\ \/ awaits[c] = "ACCEPT" /\ open' = open \cup ({r} \ {Failure})
              /\ (r = Failure \/ r \in Fds \ open)
           \/ awaits[c] # "ACCEPT" /\ open' = open
  BY EchoAssumption
     DEF KernelAccepts, KernelTransfers, echoVars, Failure, FullLength
<1>2. /\ status[c] = "waiting" /\ ~over
      /\ upc[c] = "accepting" <=> awaits[c] = "ACCEPT"
      /\ answer' = [answer EXCEPT ![c] = r] /\ answer[c] = None
      /\ UNCHANGED <<status, turn, awaits, outcome, over>>
  BY <1>1, EchoAssumption DEF EchoInv, Types, Places, Answer
<1>3. /\ answer' \in [Slots -> Answers \cup {None}] /\ answer'[c] = r
      /\ \A d \in Slots \ {c} : answer'[d] = answer[d]
  BY <1>2 DEF EchoInv, Types
<1>4. Types' /\ Rounds'
  BY <1>1, <1>2, <1>3 DEF EchoInv, Types, Rounds
<1>5. Places' /\ OneServer' /\ ArgumentIntact'
  BY <1>1, <1>2, <1>3 DEF EchoInv, Types, Places, OneServer, Serving, ArgumentIntact, Answer
<1>6. Connections'
  <2>1. \A d \in Slots : (Handles(d)' <=> Handles(d)) /\ Serves(d)' = Serves(d)
    BY <1>1 DEF Handles, Serves
  <2>2. \A d \in Slots \ {c}, n \in Answers \cup {0} : Brings(d, n)' <=> Brings(d, n)
    BY <1>1, <1>2, <1>3 DEF Brings
  <2>3. CASE awaits[c] = "ACCEPT"
    <3>1. /\ \A n \in Answers \cup {0} : ~Brings(c, n) /\ (Brings(c, n)' <=> n = r)
          /\ \A d \in Slots \ {c}, n \in Answers \cup {0} : ~Brings(d, n)
      BY <1>1, <1>2, <1>3, <2>3, EchoAssumption DEF EchoInv, OneServer, Serving, Brings
    <3>2. /\ (open \ lost)' = (open \ lost) \cup ({r} \ {Failure})
          /\ r = Failure \/ r \notin open
      BY <1>1, <2>3 DEF EchoInv, Types
    <3>3. Unserved(r)'
      BY <2>1, <3>2, EchoAssumption DEF EchoInv, Connections, Unserved
    <3>4. \A n \in (open \ lost)' : \E d \in Slots : Brings(d, n)' \/ (Handles(d)' /\ Serves(d)' = n)
      <4> SUFFICES ASSUME NEW n \in (open \ lost)'
                   PROVE  \E d \in Slots : Brings(d, n)' \/ (Handles(d)' /\ Serves(d)' = n)
        OBVIOUS
      <4>1. n \in Answers
        BY <3>2, EchoAssumption DEF EchoInv, Types
      <4>2. n = r \/ n \in open \ lost
        BY <3>2
      <4>3. n \in open \ lost => \E d \in Slots : Handles(d) /\ Serves(d) = n
        BY <1>2, <3>1, <4>1 DEF EchoInv, Connections
      <4> QED
        BY <2>1, <3>1, <4>1, <4>2, <4>3
    <3> QED
      BY <2>1, <2>2, <3>1, <3>2, <3>3, <3>4 DEF EchoInv, Connections
  <2>4. CASE awaits[c] # "ACCEPT"
    <3>1. \A n \in Answers \cup {0} : ~Brings(c, n)' /\ ~Brings(c, n)
      BY <1>1, <1>2, <2>4 DEF Brings
    <3>2. open' = open /\ lost' = lost /\ over' = over
      BY <1>1, <1>2, <2>4
    <3> QED
      BY <2>1, <2>2, <3>1, <3>2, EchoAssumption DEF EchoInv, Types, Connections, Unserved
  <2> QED
    BY <2>3, <2>4
<1> QED
  BY <1>4, <1>5, <1>6 DEF EchoInv

LEMMA HandlerKeeps ==
  ASSUME EchoInv, NEW c \in Slots, Handler(c)
  PROVE  EchoInv'
<1>1. CASE HandlerStarts(c)
  <2>1. upc[c] = "spawned" /\ Handles(c) /\ Serves(c) = fd[data[c]]
    BY <1>1 DEF HandlerStarts, Runs, Handles, Serves
  <2> QED
    BY <1>1, <2>1, HandlerSuspends DEF HandlerStarts
<1>2. CASE HandlerWrites(c) \/ HandlerReadsAgain(c)
  <2>1. Handles(c) /\ Serves(c) = fd[c] /\ fd = [fd EXCEPT ![c] = fd[c]]
    BY <1>2 DEF HandlerWrites, HandlerReadsAgain, Runs, Handles, Serves, EchoInv, Types
  <2>2. CASE HandlerWrites(c)
    BY <2>1, <2>2, HandlerSuspends DEF HandlerWrites
  <2>3. CASE HandlerReadsAgain(c)
    BY <2>1, <2>3, HandlerSuspends DEF HandlerReadsAgain
  <2> QED
    BY <1>2, <2>2, <2>3
<1>3. CASE HandlerCloses(c)
  BY <1>3, HandlerReturns DEF HandlerCloses, Failed, Runs
<1>4. CASE HandlerGivesUp(c)
  BY <1>4, HandlerReturns DEF HandlerGivesUp, Failed, Runs
<1> QED
  BY <1>1, <1>2, <1>3, <1>4 DEF Handler

LEMMA EchoAlways == Spec => []EchoInv
<1>1. EchoInv /\ [Next]_vars => EchoInv'
  <2> SUFFICES ASSUME EchoInv, [Next]_vars PROVE EchoInv'
    OBVIOUS
  <2>1. CASE UNCHANGED vars
    BY <2>1 DEF vars, rrVars, echoVars, EchoInv, Types, Rounds, Places, OneServer, Serving,
         ArgumentIntact, Connections, Handles, Brings, Unserved, Serves
  <2>2. CASE Next
    <3>1. ASSUME NEW c \in Slots,
                 \/ SpawnServer(c) \/ Server(c) \/ Handler(c) \/ Executes(c)
                 \/ KernelAccepts(c) \/ KernelTransfers(c)
          PROVE  EchoInv'
      BY <3>1, SpawnServerKeeps, AcceptsKeeps, SpawnsKeeps, DropsKeeps, HandlerKeeps,
         StartKeeps, WakeKeeps, KernelKeeps DEF Server, Executes
    <3> QED
      BY <2>1, <2>2, <3>1, EndKeeps DEF Next, Ended
  <2> QED
    BY <2>1, <2>2
<1> QED
  BY <1>1, EchoInit, PTL DEF Spec

-----------------------------------------------------------------------------
(* The types, and that one coroutine runs at a time.                       *)
THEOREM EchoTypes == Spec => []EchoTypeOK
<1>1. EchoInv => EchoTypeOK
  <2> SUFFICES ASSUME EchoInv PROVE EchoTypeOK
    OBVIOUS
  <2>1. Cardinality(Running) <= 1
    <3>1. CASE Running = {}
      BY <3>1, FS_EmptySet
    <3>2. CASE Running # {}
      <4>1. PICK c \in Running : Running = {c}
        BY <3>2 DEF EchoInv, Rounds, Running
      <4> QED
        BY <4>1, FS_Singleton
    <3> QED
      BY <3>1, <3>2
  <2>2. turn \subseteq Ready
    BY DEF EchoInv, Types, Rounds, Ready
  <2> QED
    BY <2>1, <2>2 DEF EchoInv, Types, EchoTypeOK, Points
<1> QED
  BY <1>1, EchoAlways, PTL

(* No handler works on a descriptor that was closed, lost or given to      *)
(* another: not through its argument, which points into the server's       *)
(* frame, and not when the kernel gives a closed descriptor out again.     *)
THEOREM HandlersKeepToThemselves == Spec => []OneHandlerPerConnection
<1>1. EchoInv => OneHandlerPerConnection
  BY DEF EchoInv, Connections, OneHandlerPerConnection, Handlers, Handles
<1> QED
  BY <1>1, EchoAlways, PTL

(* A connection is lost only where the programs lose one.                  *)
THEOREM NothingElseIsLost == Spec => []ConnectionsAccountedFor
<1>1. EchoInv => ConnectionsAccountedFor
  <2> SUFFICES ASSUME EchoInv, ~over
               PROVE  open = lost \cup (({Serves(c) : c \in Handlers} \cup InTransit) \ {Failure})
    BY DEF ConnectionsAccountedFor
  <2>1. \A c \in Slots : c \in Handlers <=> Handles(c)
    BY DEF Handlers, Handles
  <2>2. \A n \in Answers \cup {0} : n \in InTransit <=> \E c \in Slots : Brings(c, n)
    BY EchoAssumption DEF EchoInv, Types, Places, InTransit, Brings
  <2>3. InTransit \subseteq Answers \cup {0}
    BY DEF EchoInv, Types, InTransit
  <2>4. ASSUME NEW n \in open \ lost
        PROVE  n # Failure /\ n \in {Serves(c) : c \in Handlers} \cup InTransit
    BY <2>1, <2>2, <2>4, EchoAssumption DEF EchoInv, Types, Connections, Handlers, Failure
  <2>5. ASSUME NEW n \in ({Serves(c) : c \in Handlers} \cup InTransit) \ {Failure}
        PROVE  n \in open
    BY <2>1, <2>2, <2>3, <2>5 DEF EchoInv, Connections, Handlers, Unserved
  <2> QED
    BY <2>4, <2>5 DEF EchoInv, Types
<1> QED
  BY <1>1, EchoAlways, PTL

(* A program of the executor does nothing with slots, rounds and answers   *)
(* that RoundRobin does not let it, whatever coroutine, main() or kernel   *)
(* does it: what the executor keeps to, all of whose behaviours are        *)
(* RoundRobin's, is all that the servers rely on.                          *)
THEOREM EchoKeepsToRoundRobin == Spec => RRSpec
<1>1. Init => RRInit
  BY DEF Init
<1>2. ASSUME [Next]_vars
      PROVE  [RRNext]_rrVars
  <2>1. CASE UNCHANGED vars
    BY <2>1 DEF vars
  <2>2. ASSUME NEW c \in Slots, SpawnServer(c) PROVE RRNext
    BY <2>2 DEF SpawnServer, RRNext
  <2>3. ASSUME NEW c \in Slots, Server(c) PROVE RRNext \/ UNCHANGED rrVars
    BY <2>3, EchoAssumption
       DEF Server, ServerAccepts, ServerSpawns, ServerDrops, Free, RRNext
  <2>4. ASSUME NEW c \in Slots, Handler(c) PROVE RRNext
    BY <2>4, EchoAssumption
       DEF Handler, HandlerStarts, HandlerWrites, HandlerReadsAgain, HandlerCloses,
           HandlerGivesUp, Returns, RRNext
  <2>5. ASSUME NEW c \in Slots, KernelAccepts(c) \/ KernelTransfers(c) PROVE RRNext
    <3>1. PICK r \in Answers : Answer(c, r)
      BY <2>5, EchoAssumption DEF KernelAccepts, KernelTransfers, Failure, FullLength
    <3> QED
      BY <3>1 DEF RRNext
  <2>6. ASSUME NEW c \in Slots, Executes(c) PROVE RRNext
    BY <2>6 DEF Executes, RRNext
  <2>7. CASE Ends \/ Ended
    BY <2>7 DEF Ends, Ended, vars, RRNext
  <2> QED
    BY <1>2, <2>1, <2>2, <2>3, <2>4, <2>5, <2>6, <2>7 DEF Next
<1> QED
  BY <1>1, <1>2, PTL DEF Spec, RRSpec
=============================================================================

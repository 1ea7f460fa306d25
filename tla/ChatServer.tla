---------------------------- MODULE ChatServer ----------------------------
(***************************************************************************)
(* The chat server (src/examples/chat/chat-server.c) as a program of the   *)
(* executor.  For each connection the server coroutine allocates a session *)
(* and spawns `start', which joins the room and spawns a reader and a      *)
(* writer.  The reader puts what it reads on the queues of the other       *)
(* participants; the writer sends what is queued for its own client, and   *)
(* polls once a second when there is nothing.  Either of them ends the     *)
(* session when its operation fails: it leaves the room and frees the      *)
(* session.                                                                *)
(*                                                                         *)
(* Of the executor the program sees what RoundRobin promises; it asks for  *)
(* more tokens than frames, so no operation is refused.  Sessions are the  *)
(* allocations of the server's loop, each used once.  Messages are         *)
(* numbered in the order they were sent to the room; their text, and that  *)
(* strncpy cuts it at a zero byte, is left out.  The room is an            *)
(* uninitialised local, but lies on a stack that is still as calloc        *)
(* returned it.  malloc is taken to succeed.                               *)
(*                                                                         *)
(* The first use of a freed session is undefined, and the model stops.     *)
(***************************************************************************)
EXTENDS RoundRobin, Integers, FiniteSets, SequencesExt

CONSTANTS
  Sessions,      (* bounds the connections the kernel accepts              *)
  MaxArrivals    (* bounds the messages that arrive from clients           *)

ASSUME OperationsAssumption == Operations = {"ACCEPT", "READ", "WRITE", "WAIT"}

ASSUME ChatAssumption == Answers = {-1, 1} /\ MaxArrivals \in Nat /\ None \notin Sessions

VARIABLES
  upc,         (* where a slot's coroutine is in its function              *)
  session,     (* its local pointer `session'                              *)
  writing,     (* the message in a writer's buffer                         *)
  heap,        (* sessions allocated and not freed                         *)
  fresh,       (* sessions not allocated yet                               *)
  room,        (* room->participants, as a sequence of their sessions      *)
  messages,    (* session->write_messages                                  *)
  arrivals,    (* how many messages have arrived                           *)
  undefined,   (* a freed session was used                                 *)
  log,         (* for the properties: who sent the room's messages         *)
  joined,      (* ... how many there had been when a session joined        *)
  delivered    (* ... and those written to its client                      *)

chatVars == <<upc, session, writing, heap, fresh, room, messages, arrivals,
              undefined, log, joined, delivered>>
vars == <<rrVars, chatVars>>

-----------------------------------------------------------------------------
Failure == -1
Success == 1
NoMessage == 0

Init ==
  /\ RRInit
  /\ upc = [c \in Slots |-> "free"]
  /\ session = [c \in Slots |-> None]
  /\ writing = [c \in Slots |-> NoMessage]
  /\ heap = {}
  /\ fresh = Sessions
  /\ room = << >>
  /\ messages = [s \in Sessions |-> << >>]
  /\ arrivals = 0
  /\ undefined = FALSE
  /\ log = << >>
  /\ joined = [s \in Sessions |-> 0]
  /\ delivered = [s \in Sessions |-> << >>]

Runs(c, at) == ~undefined /\ status[c] = "running" /\ upc[c] = at

(* The same, of a coroutine that is about to dereference its session.      *)
RunsWithSession(c, at) == Runs(c, at) /\ session[c] \in heap

-----------------------------------------------------------------------------
(* The room *)

(* The message about to be numbered, for each time t is in the list.       *)
Copies(rm, t) ==
  [i \in 1 .. Cardinality({j \in 1 .. Len(rm) : rm[j] = t}) |-> Len(log) + 1]

SlipAlsoToSender(rm, s, qs) == [t \in Sessions |-> qs[t] \o Copies(rm, t)]

(* sendto_room: the message goes to the end of every other participant's   *)
(* queue.                                                                  *)
SendToRoom(rm, s, qs) ==
  [t \in Sessions |-> IF t = s THEN qs[t] ELSE qs[t] \o Copies(rm, t)]

(* leave: unlink the first participant of that session.                    *)
Without(rm, s) ==
  RemoveAt(rm, CHOOSE j \in 1 .. Len(rm) : rm[j] = s /\ \A i \in 1 .. j - 1 : rm[i] # s)

(* stop: leave the room, tell the others, free the session.                *)
Stop(s) ==
  /\ room' = Without(room, s)
  /\ messages' = [SendToRoom(room', None, messages) EXCEPT ![s] = << >>]
  /\ log' = Append(log, s)
  /\ heap' = heap \ {s}
  /\ delivered' = [delivered EXCEPT ![s] = << >>]
  /\ joined' = [joined EXCEPT ![s] = 0]

-----------------------------------------------------------------------------
(* chat_server, start *)

(* main() spawns the server before anything else.  Slots are alike, and so *)
(* are allocations: it does not matter which is taken first.               *)
FirstSlot == CHOOSE c \in Slots : TRUE

SpawnServer(c) ==
  /\ Free = Slots
  /\ c = FirstSlot
  /\ Spawn(c)
  /\ upc' = [upc EXCEPT ![c] = "loop"]
  /\ UNCHANGED <<session, writing, heap, fresh, room, messages, arrivals,
                 undefined, log, joined, delivered>>

ServerAccepts(c) ==
  /\ Runs(c, "loop")
  /\ Await(c, "ACCEPT")
  /\ upc' = [upc EXCEPT ![c] = "accepting"]
  /\ UNCHANGED <<session, writing, heap, fresh, room, messages, arrivals,
                 undefined, log, joined, delivered>>

(* A session is made for whatever accept returned, also for an error.  If  *)
(* async_exec fails nothing points to it any more.                         *)
ServerSpawns(c) ==
  /\ Runs(c, "accepting")
  /\ fresh # {}
  /\ LET s == CHOOSE s \in fresh : TRUE
     IN  /\ fresh' = fresh \ {s}
         /\ \/ \E h \in Free :
                 /\ Spawn(h)
                 /\ heap' = heap \cup {s}
                 /\ session' = [session EXCEPT ![h] = s]
                 /\ upc' = [upc EXCEPT ![c] = "loop", ![h] = "start"]
            \/ /\ Free = {}
               /\ upc' = [upc EXCEPT ![c] = "loop"]
               /\ UNCHANGED <<rrVars, heap, session>>
  /\ UNCHANGED <<writing, room, messages, arrivals, undefined, log, joined, delivered>>

(* async_exec of fn with the caller's session; nobody looks at its result. *)
SpawnOn(c, fn, next) ==
  \/ \E h \in Free :
       /\ Spawn(h)
       /\ session' = [session EXCEPT ![h] = session[c]]
       /\ upc' = [upc EXCEPT ![c] = next, ![h] = fn]
  \/ /\ Free = {}
     /\ upc' = [upc EXCEPT ![c] = next]
     /\ UNCHANGED <<rrVars, session>>

StartJoins(c) ==
  LET s == session[c]
  IN  /\ RunsWithSession(c, "start")
      /\ room' = Append(room, s)
      /\ messages' = SendToRoom(room', s, messages)
      /\ joined' = [joined EXCEPT ![s] = Len(log)]
      /\ log' = Append(log, s)
      /\ SpawnOn(c, "reader", "joined")
      /\ UNCHANGED <<writing, heap, fresh, arrivals, undefined, delivered>>

StartSpawnsWriter(c) ==
  /\ Runs(c, "joined")
  /\ SpawnOn(c, "writer", "started")
  /\ UNCHANGED <<writing, heap, fresh, room, messages, arrivals, undefined,
                 log, joined, delivered>>

(* The coroutine's locals are gone with it.                                *)
Returns(c) ==
  /\ Return(c)
  /\ upc' = [upc EXCEPT ![c] = "free"]
  /\ session' = [session EXCEPT ![c] = None]
  /\ writing' = [writing EXCEPT ![c] = NoMessage]

StartReturns(c) ==
  /\ Runs(c, "started")
  /\ Returns(c)
  /\ UNCHANGED <<heap, fresh, room, messages, arrivals, undefined, log, joined, delivered>>

-----------------------------------------------------------------------------
(* reader *)

ReaderStarts(c) ==
  /\ RunsWithSession(c, "reader")
  /\ Await(c, "READ")
  /\ upc' = [upc EXCEPT ![c] = "reading"]
  /\ UNCHANGED <<session, writing, heap, fresh, room, messages, arrivals,
                 undefined, log, joined, delivered>>

ReaderBroadcasts(c) ==
  /\ RunsWithSession(c, "reading")
  /\ outcome[c] > 0
  /\ messages' = SendToRoom(room, session[c], messages)
  /\ log' = Append(log, session[c])
  /\ Await(c, "READ")
  /\ UNCHANGED <<upc, session, writing, heap, fresh, room, arrivals, undefined,
                 joined, delivered>>

ReaderStops(c) ==
  /\ RunsWithSession(c, "reading")
  /\ outcome[c] <= 0
  /\ Stop(session[c])
  /\ Returns(c)
  /\ UNCHANGED <<fresh, arrivals, undefined>>

-----------------------------------------------------------------------------
(* writer *)

Written(c) == IF writing[c] = NoMessage THEN << >> ELSE <<writing[c]>>

(* After a wait, whatever came of it, or a complete write: pop, and write  *)
(* or wait again.                                                          *)
WriterContinues(c) ==
  LET s == session[c]
  IN  /\ \/ RunsWithSession(c, "writer")
         \/ RunsWithSession(c, "waiting")
         \/ RunsWithSession(c, "writing") /\ outcome[c] = Success
      /\ delivered' = [delivered EXCEPT ![s] = @ \o Written(c)]
      /\ IF messages[s] = << >>
         THEN /\ Await(c, "WAIT")
              /\ upc' = [upc EXCEPT ![c] = "waiting"]
              /\ writing' = [writing EXCEPT ![c] = NoMessage]
              /\ UNCHANGED messages
         ELSE /\ Await(c, "WRITE")
              /\ upc' = [upc EXCEPT ![c] = "writing"]
              /\ writing' = [writing EXCEPT ![c] = Head(messages[s])]
              /\ messages' = [messages EXCEPT ![s] = Tail(@)]
      /\ UNCHANGED <<session, heap, fresh, room, arrivals, undefined, log, joined>>

SlipFreesWithoutLeaving(c) ==
  /\ RunsWithSession(c, "writing")
  /\ outcome[c] # Success
  /\ heap' = heap \ {session[c]}
  /\ Returns(c)
  /\ UNCHANGED <<fresh, room, messages, arrivals, undefined, log, joined, delivered>>

WriterStops(c) ==
  /\ RunsWithSession(c, "writing")
  /\ outcome[c] # Success
  /\ Stop(session[c])
  /\ Returns(c)
  /\ UNCHANGED <<fresh, arrivals, undefined>>

(* The other of the two ended the session, and this one does not know: the *)
(* next thing it does, whatever its operation returned, is to follow the   *)
(* pointer.                                                                *)
UsesFreedSession(c) ==
  /\ \E at \in {"reader", "reading", "writer", "waiting", "writing"} : Runs(c, at)
  /\ session[c] \notin heap
  /\ undefined' = TRUE
  /\ UNCHANGED <<rrVars, upc, session, writing, heap, fresh, room, messages,
                 arrivals, log, joined, delivered>>

-----------------------------------------------------------------------------
Server(c) == ServerAccepts(c) \/ ServerSpawns(c)
Start(c) == StartJoins(c) \/ StartSpawnsWriter(c) \/ StartReturns(c)
Reader(c) == ReaderStarts(c) \/ ReaderBroadcasts(c) \/ ReaderStops(c)
Writer(c) == WriterContinues(c) \/ WriterStops(c)

(* The kernel and the clients.  An accept is answered, well or badly, as   *)
(* long as there are sessions to try; messages arrive up to their bound.   *)
KernelAccepts(c) ==
  /\ ~undefined
  /\ awaits[c] = "ACCEPT"
  /\ fresh # {}
  /\ \E r \in {Success, Failure} : Answer(c, r)
  /\ UNCHANGED chatVars

KernelReads(c) ==
  /\ ~undefined
  /\ awaits[c] = "READ"
  /\ \/ /\ arrivals < MaxArrivals
        /\ Answer(c, Success)
        /\ arrivals' = arrivals + 1
     \/ Answer(c, Failure) /\ UNCHANGED arrivals
  /\ UNCHANGED <<upc, session, writing, heap, fresh, room, messages, undefined,
                 log, joined, delivered>>

KernelWrites(c) ==
  /\ ~undefined
  /\ awaits[c] = "WRITE"
  /\ \E r \in {Success, Failure} : Answer(c, r)
  /\ UNCHANGED chatVars

(* The second is over.                                                     *)
KernelTimer(c) ==
  /\ ~undefined
  /\ awaits[c] = "WAIT"
  /\ Answer(c, Failure)
  /\ UNCHANGED chatVars

Executes(c) == ~undefined /\ (StartRound(c) \/ Wake(c)) /\ UNCHANGED chatVars

(* run() fails and main() frees the executor, or the program is undefined. *)
Ends == ~undefined /\ End /\ UNCHANGED chatVars
Ended == (over \/ undefined) /\ UNCHANGED vars

Next ==
  \/ \E c \in Slots :
       \/ SpawnServer(c) \/ Server(c) \/ Start(c) \/ Reader(c) \/ Writer(c)
       \/ UsesFreedSession(c) \/ Executes(c)
       \/ KernelAccepts(c) \/ KernelReads(c) \/ KernelWrites(c) \/ KernelTimer(c)
  \/ Ends \/ Ended

Spec == Init /\ [][Next]_vars

-----------------------------------------------------------------------------
(* Properties *)

Holders(s, points) == {c \in Slots : session[c] = s /\ upc[c] \in points}
ReaderPoints == {"reader", "reading"}
WriterPoints == {"writer", "waiting", "writing"}

(* What of the room's messages a session is owed: those sent since it      *)
(* joined, but not its own.                                                *)
Owed(s) == {i \in 1 .. Len(log) : i > joined[s] /\ log[i] # s}

InBuffer(s) ==
  IF \E c \in Holders(s, {"writing"}) : TRUE
  THEN <<writing[CHOOSE c \in Holders(s, {"writing"}) : TRUE]>>
  ELSE << >>

(* What its client has been written, is being written, or will be.         *)
Seen(s) == delivered[s] \o InBuffer(s) \o messages[s]

Ascending(q) == \A i, j \in 1 .. Len(q) : i < j => q[i] < q[j]

(* All participants see one conversation: each sees exactly what it is     *)
(* owed, once, in the order it was sent and so in the same order as        *)
(* everybody else, through joins, leaves and failing writes of others.     *)
EveryoneSeesTheConversation ==
  \A s \in ToSet(room) : Ascending(Seen(s)) /\ ToSet(Seen(s)) = Owed(s)

(* The room holds each session that was started and not stopped, once, and *)
(* nothing that was freed, so that no message goes to freed memory; and no *)
(* session has two readers or two writers.                                 *)
RoomHoldsTheLiving ==
  /\ IsInjective(room)
  /\ ToSet(room) = {s \in heap : Holders(s, {"start"}) = {}}
  /\ \A s \in Sessions : \A points \in {ReaderPoints, WriterPoints} :
       Cardinality(Holders(s, points)) <= 1

(* chat-server.c:163,180: reader and writer run "while (session)", and     *)
(* stop() ends with "session = NULL" (154).  Neither outlives its session. *)
NoUseAfterFree == ~undefined
=============================================================================

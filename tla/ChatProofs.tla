----------------------------- MODULE ChatProofs -----------------------------
(***************************************************************************)
(* The chat server's room and its sessions, for every number of frames,    *)
(* connections and messages: the room is the living sessions, up to the    *)
(* first use of a freed session, which the program does not avoid.         *)
(***************************************************************************)
EXTENDS ChatServer, SequenceTheorems, FiniteSetTheorems, TLAPS

StartPoints == {"start", "joined", "started"}
NoSession == {"free", "loop", "accepting"}
Points == NoSession \cup StartPoints \cup ReaderPoints \cup WriterPoints

Types ==
  /\ status \in [Slots -> Status] /\ turn \subseteq Slots
  /\ upc \in [Slots -> Points]
  /\ session \in [Slots -> Sessions \cup {None}]
  /\ heap \subseteq Sessions /\ fresh \subseteq Sessions
  /\ room \in Seq(Sessions)

(* Who has a session, and that it was allocated.                           *)
Held ==
  /\ heap \cap fresh = {}
  /\ \A c \in Slots :
       /\ status[c] = "free" => upc[c] = "free"
       /\ session[c] = None <=> upc[c] \in NoSession
       /\ session[c] \notin fresh

(* Coroutines that have the same session have different parts in it.  The  *)
(* one that starts it is alone until it has joined the room, and the only  *)
(* one to spawn the others.                                                *)
Parts ==
  \A c, d \in Slots : session[c] = session[d] /\ session[c] # None /\ c # d =>
    /\ upc[c] # "start"
    /\ upc[c] = "joined" => upc[d] \notin WriterPoints
    /\ \A points \in {StartPoints, ReaderPoints, WriterPoints} :
         ~(upc[c] \in points /\ upc[d] \in points)

InRoom(s) == s \in heap /\ \A c \in Slots : session[c] = s => upc[c] # "start"

Room == IsInjective(room) /\ \A s \in Sessions : s \in ToSet(room) <=> InRoom(s)

ChatInv == Types /\ Held /\ Parts /\ Room

-----------------------------------------------------------------------------
(* Joining and leaving the list.                                           *)

LEMMA AppendKeeps ==
  ASSUME NEW S, NEW rm \in Seq(S), NEW s \in S, IsInjective(rm), s \notin ToSet(rm)
  PROVE  /\ Append(rm, s) \in Seq(S) /\ IsInjective(Append(rm, s))
         /\ ToSet(Append(rm, s)) = ToSet(rm) \cup {s}
BY AppendProperties DEF IsInjective, ToSet

LEMMA WithoutKeeps ==
  ASSUME NEW S, NEW rm \in Seq(S), NEW s \in ToSet(rm), IsInjective(rm)
  PROVE  /\ Without(rm, s) \in Seq(S) /\ IsInjective(Without(rm, s))
         /\ ToSet(Without(rm, s)) = ToSet(rm) \ {s}
<1>1. PICK j \in 1 .. Len(rm) : rm[j] = s
  BY DEF ToSet
<1>2. \A i \in 1 .. Len(rm) : rm[i] = s => i = j
  BY <1>1 DEF IsInjective
<1>3. (CHOOSE k \in 1 .. Len(rm) : rm[k] = s /\ \A i \in 1 .. k - 1 : rm[i] # s) = j
  BY <1>1, <1>2
<1>4. Without(rm, s) = SubSeq(rm, 1, j - 1) \o SubSeq(rm, j + 1, Len(rm))
  BY <1>3 DEF Without, RemoveAt
<1> DEFINE left == SubSeq(rm, 1, j - 1)
           right == SubSeq(rm, j + 1, Len(rm))
           new == left \o right
<1>5. /\ left \in Seq(S) /\ Len(left) = j - 1
      /\ \A i \in 1 .. j - 1 : left[i] = rm[i]
  BY SubSeqProperties
<1>6. /\ right \in Seq(S) /\ Len(right) = Len(rm) - j
      /\ \A i \in 1 .. Len(rm) - j : right[i] = rm[i + j]
  BY SubSeqProperties
<1> HIDE DEF left, right
<1>7. /\ new \in Seq(S) /\ Len(new) = Len(rm) - 1
      /\ \A i \in 1 .. Len(rm) - 1 : new[i] = IF i < j THEN rm[i] ELSE rm[i + 1]
  <2>1. /\ new \in Seq(S) /\ Len(new) = Len(left) + Len(right)
        /\ \A i \in 1 .. Len(left) + Len(right) :
             new[i] = IF i <= Len(left) THEN left[i] ELSE right[i - Len(left)]
    BY <1>5, <1>6, ConcatProperties
  <2>2. Len(rm) \in Nat
    OBVIOUS
  <2> HIDE DEF new
  <2>3. ASSUME NEW i \in 1 .. Len(rm) - 1
        PROVE  new[i] = IF i < j THEN rm[i] ELSE rm[i + 1]
    <3>1. CASE i < j
      <4>1. i \in 1 .. j - 1 /\ i \in 1 .. (j - 1) + (Len(rm) - j)
        BY <2>2, <3>1
      <4>2. new[i] = left[i]
        BY <1>5, <1>6, <2>1, <4>1
      <4> QED
        BY <1>5, <3>1, <4>1, <4>2
    <3>2. CASE i >= j
      <4>1. i - (j - 1) \in 1 .. Len(rm) - j /\ i - (j - 1) + j = i + 1
        BY <2>2, <3>2
      <4>2. new[i] = right[i - (j - 1)]
        BY <1>5, <1>6, <2>1, <2>2, <3>2
      <4> QED
        BY <1>6, <3>2, <4>1, <4>2
    <3> QED
      BY <2>2, <3>1, <3>2
  <2>4. Len(new) = Len(rm) - 1
    BY <1>5, <1>6, <2>1, <2>2
  <2> QED
    BY <2>1, <2>3, <2>4
<1> HIDE DEF new
<1>8. /\ DOMAIN new = 1 .. Len(rm) - 1 /\ DOMAIN rm = 1 .. Len(rm) /\ Len(rm) \in Nat
      /\ \A i \in 1 .. Len(rm) - 1 :
           \/ i < j /\ new[i] = rm[i]
           \/ i >= j /\ new[i] = rm[i + 1]
  BY <1>7
<1>9. IsInjective(new)
  <2> SUFFICES ASSUME NEW i \in 1 .. Len(rm) - 1, NEW k \in 1 .. Len(rm) - 1, new[i] = new[k]
               PROVE  i = k
    BY <1>8 DEF IsInjective
  <2>1. \A x, y \in 1 .. Len(rm) : rm[x] = rm[y] => x = y
    BY <1>8 DEF IsInjective
  <2>2. i + 1 \in 1 .. Len(rm) /\ k + 1 \in 1 .. Len(rm)
    BY <1>8
  <2> QED
    BY <1>8, <2>1, <2>2
<1>10. ToSet(new) = ToSet(rm) \ {s}
  <2>1. ASSUME NEW i \in 1 .. Len(rm) - 1
        PROVE  \E x \in 1 .. Len(rm) : new[i] = rm[x] /\ x # j
    <3>1. i \in 1 .. Len(rm) /\ i + 1 \in 1 .. Len(rm)
      BY <1>8
    <3> QED
      BY <1>8, <3>1
  <2>2. ASSUME NEW x \in 1 .. Len(rm), x # j
        PROVE  \E i \in 1 .. Len(rm) - 1 : new[i] = rm[x]
    <3>1. CASE x < j
      <4>1. x \in 1 .. Len(rm) - 1
        BY <1>8, <3>1
      <4> QED
        BY <1>8, <3>1, <4>1
    <3>2. CASE x > j
      <4>1. x - 1 \in 1 .. Len(rm) - 1 /\ x - 1 >= j /\ (x - 1) + 1 = x
        BY <1>8, <3>2
      <4>2. new[x - 1] = rm[x]
        BY <1>8, <4>1
      <4> QED
        BY <4>1, <4>2
    <3> QED
      BY <1>8, <2>2, <3>1, <3>2
  <2>3. ToSet(new) \subseteq ToSet(rm) \ {s}
    <3> SUFFICES ASSUME NEW i \in 1 .. Len(rm) - 1 PROVE new[i] \in ToSet(rm) \ {s}
      BY <1>8 DEF ToSet
    <3> QED
      BY <1>2, <1>8, <2>1 DEF ToSet
  <2>4. ToSet(rm) \ {s} \subseteq ToSet(new)
    <3> SUFFICES ASSUME NEW x \in 1 .. Len(rm), rm[x] # s PROVE rm[x] \in ToSet(new)
      BY <1>8 DEF ToSet
    <3> QED
      BY <1>1, <1>8, <2>2 DEF ToSet
  <2> QED
    BY <2>3, <2>4
<1> QED
  BY <1>4, <1>7, <1>9, <1>10 DEF new, left, right

-----------------------------------------------------------------------------
(* Steps that change nobody's part.                                        *)

SamePart(c) ==
  \/ upc'[c] = upc[c]
  \/ upc[c] \in {"loop", "accepting"} /\ upc'[c] \in {"loop", "accepting"}
  \/ upc[c] = "joined" /\ upc'[c] = "started"
  \/ \E points \in {ReaderPoints, WriterPoints} : upc[c] \in points /\ upc'[c] \in points

LEMMA PartsKept ==
  ASSUME ChatInv, status' \in [Slots -> Status], turn' \subseteq Slots,
         \A c \in Slots : status'[c] = "free" => status[c] = "free",
         upc' \in [Slots -> Points], \A c \in Slots : SamePart(c),
         fresh' \subseteq fresh, UNCHANGED <<session, heap, room>>
  PROVE  ChatInv'
<1> USE DEF Points, NoSession, StartPoints, ReaderPoints, WriterPoints, SamePart
<1>1. Types'
  BY DEF ChatInv, Types
<1>2. Held'
  BY DEF ChatInv, Types, Held
<1>3. Parts'
  BY DEF ChatInv, Parts
<1>4. Room'
  BY DEF ChatInv, Room, InRoom
<1> QED
  BY <1>1, <1>2, <1>3, <1>4 DEF ChatInv

(* The processor changes hands.                                            *)
LEMMA HandOverFrees ==
  ASSUME Types, NEW c \in Slots, NEW s \in {"free", "waiting"}, HandOver(c, s)
  PROVE  /\ status' \in [Slots -> Status] /\ turn' \subseteq Slots
         /\ \A d \in Slots : status'[d] = "free" => status[d] = "free" \/ (d = c /\ s = "free")
<1>1. CASE turn = {}
  BY <1>1 DEF HandOver, Types, Status
<1>2. CASE turn # {}
  BY <1>2 DEF HandOver, Types, Status
<1> QED
  BY <1>1, <1>2

LEMMA Suspends ==
  ASSUME ChatInv, NEW c \in Slots, NEW op, Await(c, op),
         upc' \in [Slots -> Points], \A d \in Slots : SamePart(d),
         UNCHANGED <<session, heap, room, fresh>>
  PROVE  ChatInv'
<1>1. /\ status' \in [Slots -> Status] /\ turn' \subseteq Slots
      /\ \A d \in Slots : status'[d] = "free" => status[d] = "free"
  BY HandOverFrees DEF ChatInv, Await
<1> QED
  BY <1>1, PartsKept

(* A step of the kernel, of run(), or into the undefined.                  *)
LEMMA OutsideKeeps ==
  ASSUME ChatInv, UNCHANGED <<upc, session, heap, room, fresh>>,
         \/ UNCHANGED <<status, turn>>
         \/ \E c \in Slots : StartRound(c) \/ Wake(c) \/ (\E r \in Answers : Answer(c, r))
         \/ End
  PROVE  ChatInv'
<1> DEFINE Scheduled == /\ status' \in [Slots -> Status] /\ turn' \subseteq Slots
                        /\ \A d \in Slots : status'[d] = "free" => status[d] = "free"
<1>1. Scheduled
  <2>1. CASE UNCHANGED <<status, turn>> \/ End \/ \E c \in Slots, r \in Answers : Answer(c, r)
    BY <2>1 DEF ChatInv, Types, End, Answer
  <2>2. ASSUME NEW c \in Slots, StartRound(c) PROVE Scheduled
    BY <2>2 DEF ChatInv, Types, StartRound, Ready, Status
  <2>3. ASSUME NEW c \in Slots, Wake(c) PROVE Scheduled
    BY <2>3 DEF ChatInv, Types, Wake, Status
  <2> QED
    BY <2>1, <2>2, <2>3
<1>2. upc' \in [Slots -> Points] /\ \A c \in Slots : SamePart(c)
  BY DEF ChatInv, Types, SamePart
<1> QED
  BY <1>1, <1>2, PartsKept

-----------------------------------------------------------------------------
(* Steps that give a session to a new coroutine.                           *)

LEMMA SpawnGives ==
  ASSUME ChatInv, NEW c \in Slots, NEW h \in Free, Spawn(h), status[c] # "free"
  PROVE  /\ h \in Slots /\ h # c /\ upc[h] = "free" /\ session[h] = None
         /\ status' \in [Slots -> Status] /\ turn' \subseteq Slots
         /\ status'[h] # "free" /\ \A d \in Slots \ {h} : status'[d] = status[d]
BY DEF ChatInv, Types, Held, NoSession, Spawn, Free, Status

LEMMA SpawnServerKeeps ==
  ASSUME ChatInv, NEW c \in Slots, SpawnServer(c)
  PROVE  ChatInv'
<1>1. /\ \A d \in Slots : upc[d] = "free" /\ session[d] = None
      /\ status' \in [Slots -> Status] /\ turn' \subseteq Slots
      /\ \A d \in Slots : status'[d] = "free" => status[d] = "free" /\ d # c
      /\ upc' = [upc EXCEPT ![c] = "loop"] /\ UNCHANGED <<session, heap, room, fresh>>
  BY DEF SpawnServer, Spawn, Free, ChatInv, Types, Held, NoSession, Status
<1>2. Types' /\ Held'
  BY <1>1 DEF ChatInv, Types, Held, Points, NoSession
<1>3. Parts' /\ Room'
  BY <1>1 DEF ChatInv, Types, Parts, Room, InRoom
<1> QED
  BY <1>2, <1>3 DEF ChatInv

LEMMA AcceptedKeeps ==
  ASSUME ChatInv, NEW c \in Slots, ServerSpawns(c)
  PROVE  ChatInv'
<1>1. PICK s \in fresh :
        /\ fresh' = fresh \ {s}
        /\ \/ \E h \in Free :
                /\ Spawn(h)
                /\ heap' = heap \cup {s}
                /\ session' = [session EXCEPT ![h] = s]
                /\ upc' = [upc EXCEPT ![c] = "loop", ![h] = "start"]
           \/ upc' = [upc EXCEPT ![c] = "loop"] /\ UNCHANGED <<rrVars, heap, session>>
  BY DEF ServerSpawns
<1>2. status[c] = "running" /\ upc[c] = "accepting" /\ room' = room
  BY DEF ServerSpawns, Runs
<1>3. ASSUME NEW h \in Free, Spawn(h), heap' = heap \cup {s},
             session' = [session EXCEPT ![h] = s],
             upc' = [upc EXCEPT ![c] = "loop", ![h] = "start"]
      PROVE  ChatInv'
  <2>1. /\ h \in Slots /\ h # c /\ upc[h] = "free" /\ session[h] = None
        /\ status' \in [Slots -> Status] /\ turn' \subseteq Slots
        /\ status'[h] # "free" /\ \A d \in Slots \ {h} : status'[d] = status[d]
    BY <1>2, <1>3, SpawnGives
  <2>2. /\ s \in Sessions /\ s # None /\ s \notin heap
        /\ \A d \in Slots : session[d] # s
    BY <1>1, ChatAssumption DEF ChatInv, Types, Held
  <2>3. /\ session' \in [Slots -> Sessions \cup {None}] /\ upc' \in [Slots -> Points]
        /\ session'[h] = s /\ upc'[h] = "start" /\ upc'[c] = "loop" /\ session'[c] = session[c]
        /\ \A d \in Slots \ {c, h} : session'[d] = session[d] /\ upc'[d] = upc[d]
    BY <1>3, <2>1, <2>2 DEF ChatInv, Types, Points, NoSession, StartPoints
  <2>4. Types'
    BY <1>1, <1>2, <1>3, <2>1, <2>2, <2>3 DEF ChatInv, Types
  <2>5. Held'
    BY <1>1, <1>2, <1>3, <2>1, <2>2, <2>3 DEF ChatInv, Types, Held, NoSession
  <2>6. Parts'
    BY <1>2, <2>2, <2>3, ChatAssumption DEF ChatInv, Held, NoSession, Parts
  <2>7. Room'
    BY <1>2, <1>3, <2>1, <2>2, <2>3 DEF ChatInv, Room, InRoom
  <2> QED
    BY <2>4, <2>5, <2>6, <2>7 DEF ChatInv
<1>4. CASE upc' = [upc EXCEPT ![c] = "loop"] /\ UNCHANGED <<rrVars, heap, session>>
  <2>1. upc' \in [Slots -> Points] /\ \A d \in Slots : SamePart(d)
    BY <1>2, <1>4 DEF ChatInv, Types, Points, NoSession, SamePart
  <2> QED
    BY <1>1, <1>2, <1>4, <2>1, PartsKept DEF rrVars, ChatInv, Types
<1> QED
  BY <1>1, <1>3, <1>4

LEMMA JoinsKeeps ==
  ASSUME ChatInv, NEW c \in Slots, StartJoins(c)
  PROVE  ChatInv'
<1> DEFINE s == session[c]
<1>1. /\ status[c] = "running" /\ upc[c] = "start" /\ s \in heap /\ s \in Sessions /\ s # None
      /\ room' = Append(room, s) /\ UNCHANGED <<heap, fresh>>
  BY ChatAssumption DEF StartJoins, RunsWithSession, Runs, ChatInv, Types
<1>2. \A d \in Slots \ {c} : session[d] # s
  BY <1>1 DEF ChatInv, Parts
<1>3. /\ room' \in Seq(Sessions) /\ IsInjective(room')
      /\ ToSet(room') = ToSet(room) \cup {s}
  <2>1. s \notin ToSet(room)
    BY <1>1 DEF ChatInv, Room, InRoom
  <2> QED
    BY <1>1, <2>1, AppendKeeps DEF ChatInv, Types, Room
<1>4. ASSUME NEW h \in Free, Spawn(h), session' = [session EXCEPT ![h] = s],
             upc' = [upc EXCEPT ![c] = "joined", ![h] = "reader"]
      PROVE  ChatInv'
  <2>1. /\ h \in Slots /\ h # c /\ upc[h] = "free" /\ session[h] = None
        /\ status' \in [Slots -> Status] /\ turn' \subseteq Slots
        /\ status'[h] # "free" /\ \A d \in Slots \ {h} : status'[d] = status[d]
    BY <1>1, <1>4, SpawnGives
  <2>2. /\ session' \in [Slots -> Sessions \cup {None}] /\ upc' \in [Slots -> Points]
        /\ session'[h] = s /\ upc'[h] = "reader" /\ upc'[c] = "joined" /\ session'[c] = s
        /\ \A d \in Slots \ {c, h} : session'[d] = session[d] /\ upc'[d] = upc[d]
    BY <1>1, <1>4, <2>1 DEF ChatInv, Types, Points, NoSession, StartPoints, ReaderPoints
  <2>3. Types'
    BY <1>1, <1>3, <2>1, <2>2 DEF ChatInv, Types
  <2>4. Held'
    BY <1>1, <2>1, <2>2 DEF ChatInv, Types, Held, NoSession
  <2>5. Parts'
    BY <1>1, <1>2, <2>2 DEF ChatInv, Parts, StartPoints, ReaderPoints, WriterPoints
  <2>6. Room'
    BY <1>1, <1>2, <1>3, <2>1, <2>2 DEF ChatInv, Room, InRoom
  <2> QED
    BY <2>3, <2>4, <2>5, <2>6 DEF ChatInv
<1>5. CASE upc' = [upc EXCEPT ![c] = "joined"] /\ UNCHANGED <<rrVars, session>>
  <2>1. /\ upc' \in [Slots -> Points] /\ upc'[c] = "joined"
        /\ \A d \in Slots \ {c} : upc'[d] = upc[d]
    BY <1>1, <1>5 DEF ChatInv, Types, Points, StartPoints
  <2>2. Types' /\ Held'
    BY <1>1, <1>3, <1>5, <2>1 DEF rrVars, ChatInv, Types, Held, NoSession
  <2>3. Parts'
    BY <1>1, <1>2, <1>5, <2>1 DEF ChatInv, Parts
  <2>4. Room'
    BY <1>1, <1>2, <1>3, <1>5, <2>1 DEF ChatInv, Room, InRoom
  <2> QED
    BY <2>2, <2>3, <2>4 DEF ChatInv
<1> QED
  BY <1>4, <1>5 DEF StartJoins, SpawnOn

LEMMA SpawnsWriterKeeps ==
  ASSUME ChatInv, NEW c \in Slots, StartSpawnsWriter(c)
  PROVE  ChatInv'
<1> DEFINE s == session[c]
<1>1. /\ status[c] = "running" /\ upc[c] = "joined" /\ s \in Sessions /\ s # None
      /\ UNCHANGED <<room, heap, fresh>>
  BY ChatAssumption DEF StartSpawnsWriter, Runs, ChatInv, Types, Held, NoSession
<1>2. \A d \in Slots \ {c} : session[d] = s => upc[d] \in ReaderPoints
  BY <1>1 DEF ChatInv, Types, Held, Parts, Points, StartPoints
<1>3. ASSUME NEW h \in Free, Spawn(h), session' = [session EXCEPT ![h] = s],
             upc' = [upc EXCEPT ![c] = "started", ![h] = "writer"]
      PROVE  ChatInv'
  <2>1. /\ h \in Slots /\ h # c /\ upc[h] = "free" /\ session[h] = None
        /\ status' \in [Slots -> Status] /\ turn' \subseteq Slots
        /\ status'[h] # "free" /\ \A d \in Slots \ {h} : status'[d] = status[d]
    BY <1>1, <1>3, SpawnGives
  <2>2. /\ session' \in [Slots -> Sessions \cup {None}] /\ upc' \in [Slots -> Points]
        /\ session'[h] = s /\ upc'[h] = "writer" /\ upc'[c] = "started" /\ session'[c] = s
        /\ \A d \in Slots \ {c, h} : session'[d] = session[d] /\ upc'[d] = upc[d]
    BY <1>1, <1>3, <2>1 DEF ChatInv, Types, Points, NoSession, StartPoints, WriterPoints
  <2>3. Types'
    BY <1>1, <2>1, <2>2 DEF ChatInv, Types
  <2>4. Held'
    BY <1>1, <2>1, <2>2 DEF ChatInv, Types, Held, NoSession
  <2>5. Parts'
    BY <1>1, <1>2, <2>2 DEF ChatInv, Parts, StartPoints, ReaderPoints, WriterPoints
  <2>6. Room'
    BY <1>1, <2>1, <2>2 DEF ChatInv, Room, InRoom
  <2> QED
    BY <2>3, <2>4, <2>5, <2>6 DEF ChatInv
<1>4. CASE upc' = [upc EXCEPT ![c] = "started"] /\ UNCHANGED <<rrVars, session>>
  <2>1. upc' \in [Slots -> Points] /\ \A d \in Slots : SamePart(d)
    BY <1>1, <1>4 DEF ChatInv, Types, Points, StartPoints, SamePart
  <2> QED
    BY <1>1, <1>4, <2>1, PartsKept DEF rrVars, ChatInv, Types
<1> QED
  BY <1>3, <1>4 DEF StartSpawnsWriter, SpawnOn

-----------------------------------------------------------------------------
(* Steps that end a coroutine, and with it perhaps the session.            *)

LEMMA ReturnKeeps ==
  ASSUME ChatInv, NEW c \in Slots, Returns(c), UNCHANGED fresh, session[c] # None,
         \/ UNCHANGED <<heap, room>> /\ upc[c] = "started"
         \/ Stop(session[c]) /\ session[c] \in heap /\ upc[c] \in ReaderPoints \cup WriterPoints
  PROVE  ChatInv'
<1> DEFINE s == session[c]
<1>1. /\ status' \in [Slots -> Status] /\ turn' \subseteq Slots
      /\ \A d \in Slots : status'[d] = "free" => status[d] = "free" \/ d = c
  BY HandOverFrees DEF ChatInv, Returns, Return
<1>2. /\ upc' \in [Slots -> Points] /\ session' \in [Slots -> Sessions \cup {None}]
      /\ upc'[c] = "free" /\ session'[c] = None
      /\ \A d \in Slots \ {c} : upc'[d] = upc[d] /\ session'[d] = session[d]
  BY DEF Returns, ChatInv, Types, Points, NoSession
<1>3. /\ s \in Sessions /\ upc[c] # "start"
      /\ \A d \in Slots : session[d] = s => upc[d] # "start"
  BY DEF ChatInv, Types, Parts, ReaderPoints, WriterPoints
<1>4. /\ heap' \subseteq heap /\ room' \in Seq(Sessions) /\ IsInjective(room')
      /\ \A t \in Sessions : t \in ToSet(room') <=> InRoom(t) /\ t \in heap'
  <2>1. CASE UNCHANGED <<heap, room>>
    BY <2>1 DEF ChatInv, Types, Room, InRoom
  <2>2. CASE Stop(s) /\ s \in heap
    <3>1. s \in ToSet(room)
      BY <1>3, <2>2 DEF ChatInv, Room, InRoom
    <3>2. /\ room' \in Seq(Sessions) /\ IsInjective(room')
          /\ ToSet(room') = ToSet(room) \ {s} /\ heap' = heap \ {s}
      BY <2>2, <3>1, WithoutKeeps DEF ChatInv, Types, Room, Stop
    <3> QED
      BY <3>2 DEF ChatInv, Room, InRoom
  <2> QED
    BY <2>1, <2>2
<1>5. Types' /\ Held'
  BY <1>1, <1>2, <1>4, ChatAssumption DEF ChatInv, Types, Held, NoSession
<1>6. Parts'
  BY <1>2 DEF ChatInv, Parts
<1>7. Room'
  <2>1. ASSUME NEW t \in Sessions PROVE InRoom(t)' <=> InRoom(t) /\ t \in heap'
    BY <1>2, <1>3, <1>4, ChatAssumption DEF InRoom
  <2> QED
    BY <1>4, <2>1 DEF Room
<1> QED
  BY <1>5, <1>6, <1>7 DEF ChatInv

-----------------------------------------------------------------------------
LEMMA ChatInit == Init => ChatInv
<1> SUFFICES ASSUME Init PROVE ChatInv
  OBVIOUS
<1>1. Types /\ Held /\ Parts
  BY ChatAssumption DEF Init, RRInit, Types, Status, Points, NoSession, Held, Parts
<1>2. Room
  BY DEF Init, Room, InRoom, IsInjective, ToSet
<1> QED
  BY <1>1, <1>2 DEF ChatInv

LEMMA ReaderKeeps ==
  ASSUME ChatInv, NEW c \in Slots, Reader(c)
  PROVE  ChatInv'
<1>1. CASE ReaderStarts(c)
  <2>1. upc' \in [Slots -> Points] /\ \A d \in Slots : SamePart(d)
    BY <1>1 DEF ReaderStarts, RunsWithSession, Runs, ChatInv, Types, Points, ReaderPoints, SamePart
  <2> QED
    BY <1>1, <2>1, Suspends DEF ReaderStarts
<1>2. CASE ReaderBroadcasts(c)
  <2>1. upc' \in [Slots -> Points] /\ \A d \in Slots : SamePart(d)
    BY <1>2 DEF ReaderBroadcasts, ChatInv, Types, SamePart
  <2> QED
    BY <1>2, <2>1, Suspends DEF ReaderBroadcasts
<1>3. CASE ReaderStops(c)
  <2>1. upc[c] \in ReaderPoints /\ session[c] \in heap /\ session[c] # None
    BY <1>3, ChatAssumption
       DEF ReaderStops, RunsWithSession, Runs, ReaderPoints, ChatInv, Types
  <2> QED
    BY <1>3, <2>1, ReturnKeeps DEF ReaderStops
<1> QED
  BY <1>1, <1>2, <1>3 DEF Reader

LEMMA WriterKeeps ==
  ASSUME ChatInv, NEW c \in Slots, Writer(c)
  PROVE  ChatInv'
<1>1. CASE WriterContinues(c)
  <2>1. upc[c] \in WriterPoints
    BY <1>1 DEF WriterContinues, RunsWithSession, Runs, WriterPoints
  <2>2. PICK op \in {"WAIT", "WRITE"}, at \in WriterPoints :
          Await(c, op) /\ upc' = [upc EXCEPT ![c] = at]
    BY <1>1 DEF WriterContinues, WriterPoints
  <2>3. upc' \in [Slots -> Points] /\ \A d \in Slots : SamePart(d)
    BY <2>1, <2>2 DEF ChatInv, Types, Points, SamePart
  <2>4. UNCHANGED <<session, heap, room, fresh>>
    BY <1>1 DEF WriterContinues
  <2> QED
    BY <2>2, <2>3, <2>4, Suspends
<1>2. CASE WriterStops(c)
  <2>1. upc[c] \in WriterPoints /\ session[c] \in heap /\ session[c] # None
    BY <1>2, ChatAssumption
       DEF WriterStops, RunsWithSession, Runs, WriterPoints, ChatInv, Types
  <2> QED
    BY <1>2, <2>1, ReturnKeeps DEF WriterStops
<1> QED
  BY <1>1, <1>2 DEF Writer

LEMMA StartKeeps ==
  ASSUME ChatInv, NEW c \in Slots, Start(c)
  PROVE  ChatInv'
<1>1. CASE StartReturns(c)
  <2>1. upc[c] = "started" /\ session[c] # None
    BY <1>1 DEF StartReturns, Runs, ChatInv, Held, NoSession
  <2> QED
    BY <1>1, <2>1, ReturnKeeps DEF StartReturns
<1> QED
  BY <1>1, JoinsKeeps, SpawnsWriterKeeps DEF Start

LEMMA ServerKeeps ==
  ASSUME ChatInv, NEW c \in Slots, Server(c)
  PROVE  ChatInv'
<1>1. CASE ServerAccepts(c)
  <2>1. upc' \in [Slots -> Points] /\ \A d \in Slots : SamePart(d)
    BY <1>1 DEF ServerAccepts, Runs, ChatInv, Types, Points, NoSession, SamePart
  <2> QED
    BY <1>1, <2>1, Suspends DEF ServerAccepts
<1> QED
  BY <1>1, AcceptedKeeps DEF Server

LEMMA ChatAlways == Spec => []ChatInv
<1>1. ChatInv /\ [Next]_vars => ChatInv'
  <2> SUFFICES ASSUME ChatInv, [Next]_vars PROVE ChatInv'
    OBVIOUS
  <2>1. CASE UNCHANGED vars
    BY <2>1, OutsideKeeps DEF vars, rrVars, chatVars
  <2>2. ASSUME NEW c \in Slots,
               \/ UsesFreedSession(c) \/ Executes(c)
               \/ KernelAccepts(c) \/ KernelReads(c) \/ KernelWrites(c) \/ KernelTimer(c)
        PROVE  ChatInv'
    <3>1. UNCHANGED <<upc, session, heap, room, fresh>>
      BY <2>2 DEF UsesFreedSession, Executes, KernelAccepts, KernelReads, KernelWrites,
           KernelTimer, chatVars
    <3>2. \/ UNCHANGED <<status, turn>>
          \/ StartRound(c) \/ Wake(c)
      BY <2>2 DEF UsesFreedSession, Executes, KernelAccepts, KernelReads, KernelWrites,
           KernelTimer, rrVars, Answer
    <3> QED
      BY <3>1, <3>2, OutsideKeeps
  <2>3. ASSUME NEW c \in Slots,
               SpawnServer(c) \/ Server(c) \/ Start(c) \/ Reader(c) \/ Writer(c)
        PROVE  ChatInv'
    BY <2>3, SpawnServerKeeps, ServerKeeps, StartKeeps, ReaderKeeps, WriterKeeps
  <2>4. CASE Ends
    BY <2>4, OutsideKeeps DEF Ends, chatVars
  <2> QED
    BY <2>1, <2>2, <2>3, <2>4 DEF Next, Ended
<1> QED
  BY <1>1, ChatInit, PTL DEF Spec

-----------------------------------------------------------------------------
(* Through any joins, failures and departures, up to the first use of a    *)
(* freed session: whoever was freed has left the list that messages are    *)
(* sent along, nobody is in it twice, and a session has at most one reader *)
(* and one writer.                                                         *)
THEOREM RoomIsTheLiving == Spec => []RoomHoldsTheLiving
<1>1. ChatInv => RoomHoldsTheLiving
  <2> SUFFICES ASSUME ChatInv PROVE RoomHoldsTheLiving
    OBVIOUS
  <2>1. ToSet(room) = {s \in heap : Holders(s, {"start"}) = {}}
    <3>1. ToSet(room) \subseteq Sessions /\ heap \subseteq Sessions
      BY DEF ChatInv, Types, ToSet
    <3>2. \A s \in Sessions : s \in ToSet(room) <=> s \in heap /\ Holders(s, {"start"}) = {}
      BY DEF ChatInv, Room, InRoom, Holders
    <3> QED
      BY <3>1, <3>2
  <2>2. ASSUME NEW s \in Sessions, NEW points \in {ReaderPoints, WriterPoints}
        PROVE  Cardinality(Holders(s, points)) <= 1
    <3>1. CASE Holders(s, points) = {}
      BY <3>1, FS_EmptySet
    <3>2. CASE Holders(s, points) # {}
      <4>1. \A c, d \in Holders(s, points) : c = d
        BY <2>2, ChatAssumption DEF ChatInv, Parts, Holders
      <4>2. PICK c \in Holders(s, points) : Holders(s, points) = {c}
        BY <3>2, <4>1
      <4>3. Cardinality({c}) = 1
        BY FS_Singleton
      <4> QED
        BY <4>2, <4>3
    <3> QED
      BY <3>1, <3>2
  <2> QED
    BY <2>1, <2>2 DEF RoomHoldsTheLiving, ChatInv, Room
<1> QED
  BY <1>1, ChatAlways, PTL

-----------------------------------------------------------------------------
(* The conversation.  Whoever is not in the room has nothing queued and    *)
(* was told nothing, so that it starts anew when it joins; and a writer    *)
(* has a message in its buffer only while it writes.                       *)

TalkTypes ==
  /\ log \in Seq(Sessions) /\ joined \in [Sessions -> Nat]
  /\ messages \in [Sessions -> Seq(Nat)] /\ delivered \in [Sessions -> Seq(Nat)]
  /\ writing \in [Slots -> Nat]
  /\ \A c \in Slots : upc[c] # "writing" => writing[c] = NoMessage

Silent == \A s \in Sessions \ ToSet(room) : messages[s] = << >> /\ delivered[s] = << >>

Told ==
  \A s \in ToSet(room) : joined[s] <= Len(log) /\ Ascending(Seen(s)) /\ ToSet(Seen(s)) = Owed(s)

TalkInv == TalkTypes /\ Silent /\ Told

LEMMA AscendingGrows ==
  ASSUME NEW q \in Seq(Nat), NEW n \in Nat, Ascending(q), \A i \in ToSet(q) : i < n
  PROVE  Ascending(Append(q, n)) /\ ToSet(Append(q, n)) = ToSet(q) \cup {n}
<1> DEFINE r == Append(q, n)
<1>1. /\ DOMAIN q = 1 .. Len(q) /\ Len(q) \in Nat
      /\ \A i \in 1 .. Len(q) : q[i] \in Nat /\ q[i] < n
  BY DEF ToSet
<1>2. /\ DOMAIN r = 1 .. Len(q) + 1 /\ Len(r) = Len(q) + 1 /\ r[Len(q) + 1] = n
      /\ \A i \in 1 .. Len(q) : r[i] = q[i]
  BY AppendProperties
<1> HIDE DEF r
<1>3. \A i \in 1 .. Len(r) : i \in 1 .. Len(q) \/ i = Len(q) + 1
  BY <1>1, <1>2
<1>4. Ascending(r)
  BY <1>1, <1>2, <1>3 DEF Ascending
<1>5. ToSet(r) = ToSet(q) \cup {n}
  BY <1>1, <1>2, <1>3 DEF ToSet
<1> QED
  BY <1>4, <1>5 DEF r

LEMMA ConcatAppend ==
  ASSUME NEW q \in Seq(Nat), NEW m \in Seq(Nat), NEW n \in Nat
  PROVE  q \o Append(m, n) = Append(q \o m, n)
<1>1. Append(m, n) = m \o <<n>> /\ <<n>> \in Seq(Nat)
  BY AppendIsConcat
<1>2. q \o m \in Seq(Nat)
  BY ConcatProperties
<1>3. (q \o m) \o <<n>> = q \o (m \o <<n>>)
  BY <1>1, ConcatAssociative
<1> QED
  BY <1>1, <1>2, <1>3, AppendIsConcat

LEMMA ConcatHead ==
  ASSUME NEW q \in Seq(Nat), NEW m \in Seq(Nat), m # << >>
  PROVE  (q \o <<Head(m)>>) \o Tail(m) = q \o m
<1>1. Head(m) \in Nat /\ Tail(m) \in Seq(Nat) /\ <<Head(m)>> \in Seq(Nat)
  BY HeadTailProperties
<1>2. <<Head(m)>> \o Tail(m) = m
  <2>1. <<Head(m)>> \o Tail(m) \in Seq(Nat)
        /\ Len(<<Head(m)>> \o Tail(m)) = 1 + Len(Tail(m))
        /\ \A i \in 1 .. 1 + Len(Tail(m)) :
             (<<Head(m)>> \o Tail(m))[i] = IF i <= 1 THEN <<Head(m)>>[i] ELSE Tail(m)[i - 1]
    BY <1>1, ConcatProperties
  <2>2. Len(Tail(m)) = Len(m) - 1 /\ \A i \in 1 .. Len(Tail(m)) : Tail(m)[i] = m[i + 1]
    BY HeadTailProperties
  <2>3. Len(m) \in Nat /\ Head(m) = m[1]
    OBVIOUS
  <2> DEFINE r == <<Head(m)>> \o Tail(m)
  <2>4. Len(r) = Len(m)
    BY <2>1, <2>2, <2>3
  <2>5. ASSUME NEW i \in 1 .. Len(m)
        PROVE  r[i] = m[i]
    <3>1. CASE i = 1
      BY <2>1, <2>2, <2>3, <3>1
    <3>2. CASE i > 1
      <4>1. i - 1 \in 1 .. Len(Tail(m)) /\ i \in 1 .. 1 + Len(Tail(m)) /\ ~(i <= 1) /\ i - 1 + 1 = i
        BY <2>2, <2>3, <3>2
      <4>2. r[i] = Tail(m)[i - 1]
        BY <2>1, <4>1
      <4>3. Tail(m)[i - 1] = m[i - 1 + 1]
        BY <2>2, <4>1
      <4> QED
        BY <4>1, <4>2, <4>3
    <3> QED
      BY <2>3, <3>1, <3>2
  <2> QED
    BY <2>1, <2>4, <2>5, SeqEqual
<1> QED
  BY <1>1, <1>2, ConcatAssociative

(* A message goes once to each of the others that are in the room, and to  *)
(* nobody else.                                                            *)
LEMMA SendGives ==
  ASSUME NEW rm \in Seq(Sessions), IsInjective(rm), NEW s \in Sessions \cup {None}, NEW t \in Sessions,
         NEW qs \in [Sessions -> Seq(Nat)], log \in Seq(Sessions)
  PROVE  SendToRoom(rm, s, qs)[t] =
           IF t # s /\ t \in ToSet(rm) THEN Append(qs[t], Len(log) + 1) ELSE qs[t]
<1> DEFINE places == {j \in 1 .. Len(rm) : rm[j] = t}
           n == Len(log) + 1
<1>1. qs[t] \in Seq(Nat) /\ n \in Nat
  OBVIOUS
<1>2. DOMAIN rm = 1 .. Len(rm)
  OBVIOUS
<1>3. SendToRoom(rm, s, qs)[t] = IF t = s THEN qs[t] ELSE qs[t] \o Copies(rm, t)
  BY DEF SendToRoom
<1>4. Copies(rm, t) = [i \in 1 .. Cardinality(places) |-> n]
  BY DEF Copies
<1>5. CASE t \in ToSet(rm)
  <2>1. PICK j \in 1 .. Len(rm) : rm[j] = t
    BY <1>2, <1>5 DEF ToSet
  <2>2. places = {j}
    BY <1>2, <2>1 DEF IsInjective
  <2>3. Cardinality({j}) = 1
    BY FS_Singleton
  <2>4. Copies(rm, t) = <<n>>
    <3>1. Copies(rm, t) = [i \in 1 .. 1 |-> n]
      BY <1>4, <2>2, <2>3
    <3> HIDE DEF n
    <3>2. [i \in 1 .. 1 |-> n] = <<n>>
      OBVIOUS
    <3> QED
      BY <3>1, <3>2
  <2>5. qs[t] \o <<n>> = Append(qs[t], n)
    BY <1>1, AppendIsConcat
  <2> QED
    BY <1>3, <1>5, <2>4, <2>5
<1>6. CASE t \notin ToSet(rm)
  <2>1. places = {}
    BY <1>2, <1>6 DEF ToSet
  <2>2. Cardinality(places) = 0
    BY <2>1, FS_EmptySet
  <2>3. Copies(rm, t) = << >>
    <3>1. Copies(rm, t) = [i \in 1 .. 0 |-> n]
      BY <1>4, <2>2
    <3> HIDE DEF n
    <3>2. [i \in 1 .. 0 |-> n] \in Seq(Nat) /\ Len([i \in 1 .. 0 |-> n]) = 0
      OBVIOUS
    <3> QED
      BY <3>1, <3>2, EmptySeq
  <2>4. qs[t] \o << >> = qs[t]
    BY <1>1, ConcatEmptySeq
  <2> QED
    BY <1>3, <1>6, <2>3, <2>4
<1> QED
  BY <1>5, <1>6

LEMMA Sends ==
  ASSUME NEW rm \in Seq(Sessions), IsInjective(rm), NEW s \in Sessions \cup {None},
         NEW qs \in [Sessions -> Seq(Nat)], log \in Seq(Sessions)
  PROVE  /\ SendToRoom(rm, s, qs) \in [Sessions -> Seq(Nat)]
         /\ \A t \in Sessions :
              SendToRoom(rm, s, qs)[t] =
                IF t # s /\ t \in ToSet(rm) THEN Append(qs[t], Len(log) + 1) ELSE qs[t]
<1> DEFINE sent == SendToRoom(rm, s, qs)
<1>1. ASSUME NEW t \in Sessions
      PROVE  sent[t] = IF t # s /\ t \in ToSet(rm) THEN Append(qs[t], Len(log) + 1) ELSE qs[t]
  BY SendGives
<1>2. \A t \in Sessions : qs[t] \in Seq(Nat) /\ Append(qs[t], Len(log) + 1) \in Seq(Nat)
  OBVIOUS
<1>3. sent = [t \in Sessions |-> sent[t]]
  BY DEF SendToRoom
<1> HIDE DEF sent
<1>4. sent \in [Sessions -> Seq(Nat)]
  <2>1. \A t \in Sessions : sent[t] \in Seq(Nat)
    BY <1>1, <1>2
  <2> QED
    BY <1>3, <2>1
<1> QED
  BY <1>1, <1>4 DEF sent

LEMMA BufferTyped ==
  ASSUME TalkTypes, NEW s
  PROVE  InBuffer(s) \in Seq(Nat)
<1>1. CASE \E c \in Holders(s, {"writing"}) : TRUE
  <2> DEFINE h == CHOOSE c \in Holders(s, {"writing"}) : TRUE
  <2>1. h \in Slots
    BY <1>1 DEF Holders
  <2>2. InBuffer(s) = <<writing[h]>>
    BY <1>1 DEF InBuffer
  <2>3. writing[h] \in Nat
    BY <2>1 DEF TalkTypes
  <2> QED
    BY <2>2, <2>3
<1>2. CASE ~\E c \in Holders(s, {"writing"}) : TRUE
  BY <1>2 DEF InBuffer
<1> QED
  BY <1>1, <1>2

LEMMA BufferOf ==
  ASSUME ChatInv, NEW c \in Slots, session[c] # None, upc[c] \in WriterPoints
  PROVE  InBuffer(session[c]) = IF upc[c] = "writing" THEN <<writing[c]>> ELSE << >>
<1>1. \A d \in Holders(session[c], {"writing"}) : d = c
  BY DEF Holders, ChatInv, Parts, WriterPoints
<1>2. CASE upc[c] = "writing"
  <2>1. Holders(session[c], {"writing"}) = {c}
    BY <1>1, <1>2 DEF Holders
  <2> QED
    BY <1>2, <2>1 DEF InBuffer
<1>3. CASE upc[c] # "writing"
  <2>1. Holders(session[c], {"writing"}) = {}
    BY <1>1, <1>3 DEF Holders
  <2> QED
    BY <1>3, <2>1 DEF InBuffer
<1> QED
  BY <1>2, <1>3

LEMMA BufferKept ==
  ASSUME NEW t,
         \A c \in Slots : (session[c] = t /\ upc[c] = "writing")
                           <=> (session'[c] = t /\ upc'[c] = "writing"),
         \A c \in Slots : session[c] = t /\ upc[c] = "writing" => writing'[c] = writing[c]
  PROVE  InBuffer(t)' = InBuffer(t)
<1>1. Holders(t, {"writing"})' = Holders(t, {"writing"})
  <2>1. Holders(t, {"writing"}) = {c \in Slots : session[c] = t /\ upc[c] = "writing"}
    BY DEF Holders
  <2>2. Holders(t, {"writing"})' = {c \in Slots : session'[c] = t /\ upc'[c] = "writing"}
    BY DEF Holders
  <2> QED
    BY <2>1, <2>2
<1> DEFINE H == Holders(t, {"writing"})
           h == CHOOSE c \in H : TRUE
<1>2. CASE H = {}
  BY <1>1, <1>2 DEF InBuffer
<1>3. CASE H # {}
  <2>1. h \in H
    BY <1>3
  <2>2. writing'[h] = writing[h]
    <3>1. h \in Slots /\ session[h] = t /\ upc[h] = "writing"
      BY <2>1 DEF Holders
    <3> HIDE DEF h
    <3> QED
      BY <3>1
  <2>3. InBuffer(t) = <<writing[h]>>
    BY <1>3 DEF InBuffer
  <2>4. InBuffer(t)' = <<writing'[h]>>
    BY <1>1, <1>3 DEF InBuffer
  <2> QED
    BY <2>2, <2>3, <2>4
<1> QED
  BY <1>2, <1>3

(* One more message, from s.                                               *)
LEMMA Broadcasts ==
  ASSUME TalkTypes, NEW t \in Sessions, NEW s \in Sessions,
         joined[t] <= Len(log), Ascending(Seen(t)), ToSet(Seen(t)) = Owed(t),
         log' = Append(log, s), InBuffer(t)' = InBuffer(t),
         delivered'[t] = delivered[t], joined'[t] = joined[t],
         messages'[t] = IF t # s THEN Append(messages[t], Len(log) + 1) ELSE messages[t]
  PROVE  (joined[t] <= Len(log) /\ Ascending(Seen(t)) /\ ToSet(Seen(t)) = Owed(t))'
<1> DEFINE n == Len(log) + 1
           q == delivered[t] \o InBuffer(t)
<1>1. /\ Len(log) \in Nat /\ n \in Nat /\ joined[t] \in Nat /\ joined[t] < n
      /\ delivered[t] \in Seq(Nat) /\ messages[t] \in Seq(Nat) /\ InBuffer(t) \in Seq(Nat)
  BY BufferTyped DEF TalkTypes
<1>2. /\ Len(log') = n /\ log'[n] = s /\ \A i \in 1 .. Len(log) : log'[i] = log[i]
  BY AppendProperties DEF TalkTypes
<1>3. \A i \in 1 .. n : i \in 1 .. Len(log) \/ i = n
  BY <1>1
<1>4. Owed(t)' = IF t # s THEN Owed(t) \cup {n} ELSE Owed(t)
  <2>1. Owed(t) = {i \in 1 .. Len(log) : i > joined[t] /\ log[i] # t}
    BY DEF Owed
  <2>2. Owed(t)' = {i \in 1 .. n : i > joined[t] /\ log'[i] # t}
    BY <1>2 DEF Owed
  <2>3. n \in 1 .. n /\ n > joined[t] /\ \A i \in 1 .. Len(log) : i \in 1 .. n
    BY <1>1
  <2> HIDE DEF n
  <2> QED
    BY <1>2, <1>3, <2>1, <2>2, <2>3
<1>5. q \in Seq(Nat) /\ q \o messages[t] \in Seq(Nat) /\ Seen(t) = q \o messages[t]
  BY <1>1, ConcatProperties DEF Seen
<1>6. Seen(t)' = q \o messages'[t]
  BY DEF Seen
<1>7. \A i \in ToSet(Seen(t)) : i < n
  BY <1>1 DEF Owed
<1> HIDE DEF n, q
<1>8. joined'[t] <= Len(log')
  BY <1>1, <1>2
<1>9. CASE t = s
  <2>1. Seen(t)' = Seen(t)
    BY <1>5, <1>6, <1>9
  <2> QED
    BY <1>4, <1>8, <1>9, <2>1 DEF Ascending, ToSet
<1>10. CASE t # s
  <2>1. Seen(t)' = Append(Seen(t), n)
    <3>1. messages'[t] = Append(messages[t], n)
      BY <1>10 DEF n
    <3>2. q \o Append(messages[t], n) = Append(q \o messages[t], n)
      BY <1>1, <1>5, ConcatAppend
    <3> QED
      BY <1>5, <1>6, <3>1, <3>2
  <2>2. Ascending(Append(Seen(t), n)) /\ ToSet(Append(Seen(t), n)) = ToSet(Seen(t)) \cup {n}
    BY <1>1, <1>5, <1>7, AscendingGrows
  <2>3. Ascending(Seen(t))' /\ ToSet(Seen(t))' = ToSet(Seen(t)) \cup {n}
    BY <2>1, <2>2 DEF Ascending, ToSet
  <2> QED
    BY <1>4, <1>8, <1>10, <2>3
<1> QED
  BY <1>9, <1>10

(* A step at which nobody begins or ends writing a message.                *)
SameWriters ==
  /\ writing' \in [Slots -> Nat]
  /\ \A c \in Slots :
       /\ upc[c] = "writing" <=> upc'[c] = "writing"
       /\ upc[c] = "writing" => session'[c] = session[c] /\ writing'[c] = writing[c]
       /\ upc'[c] # "writing" => writing'[c] = NoMessage

LEMMA BuffersKept ==
  ASSUME SameWriters, NEW t
  PROVE  InBuffer(t)' = InBuffer(t)
BY BufferKept DEF SameWriters

LEMMA TalkKept ==
  ASSUME TalkInv, SameWriters, UNCHANGED <<room, messages, log, joined, delivered>>
  PROVE  TalkInv'
<1>1. TalkTypes' /\ Silent'
  BY DEF TalkInv, TalkTypes, Silent, SameWriters
<1>2. ASSUME NEW t PROVE Seen(t)' = Seen(t) /\ Owed(t)' = Owed(t)
  BY BuffersKept DEF Seen, Owed
<1>3. Told'
  BY <1>2 DEF TalkInv, Told, Ascending, ToSet
<1> QED
  BY <1>1, <1>3 DEF TalkInv

LEMMA TalkBroadcast ==
  ASSUME ChatInv, TalkInv, NEW s \in Sessions, s \in ToSet(room), SameWriters,
         messages' = SendToRoom(room, s, messages), log' = Append(log, s),
         UNCHANGED <<room, joined, delivered>>
  PROVE  TalkInv'
<1>1. /\ room \in Seq(Sessions) /\ IsInjective(room) /\ ToSet(room) \subseteq Sessions
      /\ log \in Seq(Sessions) /\ messages \in [Sessions -> Seq(Nat)] /\ Len(log) + 1 \in Nat
  BY DEF ChatInv, Types, Room, TalkInv, TalkTypes, ToSet
<1>2. /\ messages' \in [Sessions -> Seq(Nat)]
      /\ \A t \in Sessions :
           messages'[t] = IF t # s /\ t \in ToSet(room) THEN Append(messages[t], Len(log) + 1)
                          ELSE messages[t]
  BY <1>1, Sends
<1>4. log' \in Seq(Sessions)
  BY <1>1, AppendProperties
<1>5. TalkTypes'
  BY <1>2, <1>4 DEF TalkInv, TalkTypes, SameWriters
<1>6. Silent'
  BY <1>2 DEF TalkInv, Silent
<1>7. Told'
  <2> SUFFICES ASSUME NEW t \in ToSet(room)
               PROVE  (joined[t] <= Len(log) /\ Ascending(Seen(t)) /\ ToSet(Seen(t)) = Owed(t))'
    BY DEF Told
  <2>1. t \in Sessions /\ messages'[t] = IF t # s THEN Append(messages[t], Len(log) + 1) ELSE messages[t]
    BY <1>1, <1>2
  <2>2. InBuffer(t)' = InBuffer(t)
    BY BuffersKept
  <2> QED
    BY <2>1, <2>2, Broadcasts DEF TalkInv, Told
<1> QED
  BY <1>5, <1>6, <1>7 DEF TalkInv

(* A newcomer: nothing is queued for it yet, and it is owed nothing.       *)
LEMMA TalkJoins ==
  ASSUME ChatInv, TalkInv, NEW s \in Sessions, s \notin ToSet(room), SameWriters,
         Holders(s, {"writing"})' = {},
         room' = Append(room, s), messages' = SendToRoom(room', s, messages),
         joined' = [joined EXCEPT ![s] = Len(log)], log' = Append(log, s),
         UNCHANGED delivered
  PROVE  TalkInv'
<1> DEFINE rm == Append(room, s)
<1>1. /\ log \in Seq(Sessions) /\ messages \in [Sessions -> Seq(Nat)] /\ Len(log) \in Nat
      /\ room \in Seq(Sessions) /\ IsInjective(room) /\ ToSet(room) \subseteq Sessions
  BY DEF ChatInv, Types, Room, TalkInv, TalkTypes, ToSet
<1>2. rm \in Seq(Sessions) /\ IsInjective(rm) /\ ToSet(rm) = ToSet(room) \cup {s}
  BY <1>1, AppendKeeps
<1> HIDE DEF rm
<1>3. /\ messages' \in [Sessions -> Seq(Nat)]
      /\ \A t \in Sessions :
           messages'[t] = IF t # s /\ t \in ToSet(rm) THEN Append(messages[t], Len(log) + 1)
                          ELSE messages[t]
  <2>1. messages' = SendToRoom(rm, s, messages)
    BY DEF rm
  <2>2. /\ SendToRoom(rm, s, messages) \in [Sessions -> Seq(Nat)]
        /\ \A t \in Sessions :
             SendToRoom(rm, s, messages)[t] =
               IF t # s /\ t \in ToSet(rm) THEN Append(messages[t], Len(log) + 1) ELSE messages[t]
    BY <1>1, <1>2, Sends
  <2> QED
    BY <2>1, <2>2
<1> USE DEF rm
<1>4. log' \in Seq(Sessions) /\ Len(log') = Len(log) + 1 /\ log'[Len(log) + 1] = s
  BY <1>1, AppendProperties
<1>5. /\ joined' \in [Sessions -> Nat] /\ joined'[s] = Len(log)
      /\ \A t \in Sessions \ {s} : joined'[t] = joined[t]
  BY <1>1 DEF TalkInv, TalkTypes
<1>6. TalkTypes'
  BY <1>3, <1>4, <1>5 DEF TalkInv, TalkTypes, SameWriters
<1>7. Silent'
  BY <1>2, <1>3 DEF TalkInv, Silent
<1>8. Told'
  <2> SUFFICES ASSUME NEW t \in ToSet(room')
               PROVE  (joined[t] <= Len(log) /\ Ascending(Seen(t)) /\ ToSet(Seen(t)) = Owed(t))'
    BY DEF Told
  <2>1. CASE t # s
    <3>1. t \in Sessions /\ t \in ToSet(room) /\ joined'[t] = joined[t]
          /\ messages'[t] = IF t # s THEN Append(messages[t], Len(log) + 1) ELSE messages[t]
      BY <1>1, <1>2, <1>3, <1>5, <2>1
    <3>2. InBuffer(t)' = InBuffer(t)
      BY BuffersKept
    <3> QED
      BY <3>1, <3>2, Broadcasts DEF TalkInv, Told
  <2>2. CASE t = s
    <3>1. messages'[s] = << >> /\ delivered'[s] = << >> /\ InBuffer(s)' = << >>
      BY <1>3 DEF TalkInv, Silent, InBuffer
    <3>2. Seen(s)' = << >>
      BY <3>1 DEF Seen
    <3>3. Owed(s)' = {}
      <4>1. \A i \in 1 .. Len(log) + 1 : i > Len(log) => i = Len(log) + 1
        BY <1>1
      <4> QED
        BY <1>4, <1>5, <4>1 DEF Owed
    <3>4. Ascending(Seen(s))' /\ ToSet(Seen(s))' = {}
      BY <3>2 DEF Ascending, ToSet
    <3> QED
      BY <1>1, <1>4, <1>5, <2>2, <3>3, <3>4
  <2> QED
    BY <2>1, <2>2
<1> QED
  BY <1>6, <1>7, <1>8 DEF TalkInv

LEMMA TalkStops ==
  ASSUME ChatInv, TalkInv, NEW c \in Slots, Returns(c), Stop(session[c]),
         session[c] \in heap, upc[c] \in ReaderPoints \cup WriterPoints
  PROVE  TalkInv'
<1> DEFINE s == session[c]
           rm == Without(room, s)
<1>1. /\ log \in Seq(Sessions) /\ messages \in [Sessions -> Seq(Nat)] /\ Len(log) \in Nat
      /\ room \in Seq(Sessions) /\ IsInjective(room) /\ ToSet(room) \subseteq Sessions
      /\ s \in Sessions /\ None \notin Sessions
  BY ChatAssumption DEF ChatInv, Types, Room, TalkInv, TalkTypes, ToSet
<1>2. s \in ToSet(room)
  <2>1. \A d \in Slots : session[d] = s => upc[d] # "start"
    BY <1>1 DEF ChatInv, Parts, StartPoints, ReaderPoints, WriterPoints
  <2> QED
    BY <1>1, <2>1 DEF ChatInv, Room, InRoom
<1>3. rm \in Seq(Sessions) /\ IsInjective(rm) /\ ToSet(rm) = ToSet(room) \ {s} /\ room' = rm
  BY <1>1, <1>2, WithoutKeeps DEF Stop
<1>4. /\ messages' = [SendToRoom(rm, None, messages) EXCEPT ![s] = << >>]
      /\ log' = Append(log, s)
      /\ delivered' = [delivered EXCEPT ![s] = << >>] /\ joined' = [joined EXCEPT ![s] = 0]
  BY DEF Stop
<1> HIDE DEF rm
<1>5. /\ SendToRoom(rm, None, messages) \in [Sessions -> Seq(Nat)]
      /\ \A t \in Sessions :
           SendToRoom(rm, None, messages)[t] =
             IF t # None /\ t \in ToSet(rm) THEN Append(messages[t], Len(log) + 1) ELSE messages[t]
  BY <1>1, <1>3, Sends
<1>6. /\ messages' \in [Sessions -> Seq(Nat)] /\ messages'[s] = << >>
      /\ \A t \in Sessions \ {s} :
           messages'[t] = IF t \in ToSet(rm) THEN Append(messages[t], Len(log) + 1) ELSE messages[t]
  <2> DEFINE sent == SendToRoom(rm, None, messages)
  <2> HIDE DEF sent
  <2>1. /\ sent \in [Sessions -> Seq(Nat)] /\ messages' = [sent EXCEPT ![s] = << >>]
        /\ \A t \in Sessions :
             sent[t] = IF t \in ToSet(rm) THEN Append(messages[t], Len(log) + 1) ELSE messages[t]
    BY <1>1, <1>4, <1>5 DEF sent
  <2>2. << >> \in Seq(Nat)
    OBVIOUS
  <2> QED
    BY <1>1, <2>1, <2>2
<1>7. /\ delivered' \in [Sessions -> Seq(Nat)] /\ delivered'[s] = << >>
      /\ \A t \in Sessions \ {s} : delivered'[t] = delivered[t]
  BY <1>1, <1>4 DEF TalkInv, TalkTypes
<1>8. /\ joined' \in [Sessions -> Nat] /\ \A t \in Sessions \ {s} : joined'[t] = joined[t]
  BY <1>1, <1>4 DEF TalkInv, TalkTypes
<1>9. /\ writing' \in [Slots -> Nat] /\ upc'[c] = "free" /\ session'[c] = None
      /\ writing'[c] = NoMessage
      /\ \A d \in Slots \ {c} : upc'[d] = upc[d] /\ session'[d] = session[d] /\ writing'[d] = writing[d]
  BY DEF Returns, ChatInv, Types, TalkInv, TalkTypes, NoMessage
<1>10. log' \in Seq(Sessions)
  BY <1>1, <1>4, AppendProperties
<1>11. TalkTypes'
  BY <1>6, <1>7, <1>8, <1>9, <1>10 DEF TalkInv, TalkTypes
<1>12. Silent'
  BY <1>3, <1>6, <1>7 DEF TalkInv, Silent
<1>13. Told'
  <2> SUFFICES ASSUME NEW t \in ToSet(room')
               PROVE  (joined[t] <= Len(log) /\ Ascending(Seen(t)) /\ ToSet(Seen(t)) = Owed(t))'
    BY DEF Told
  <2>1. t \in Sessions /\ t # s /\ t \in ToSet(room) /\ t # None /\ t \in ToSet(rm)
    BY <1>1, <1>3
  <2>2. InBuffer(t)' = InBuffer(t)
    <3>1. \A d \in Slots : (session[d] = t /\ upc[d] = "writing")
                            <=> (session'[d] = t /\ upc'[d] = "writing")
      BY <1>9, <2>1
    <3>2. \A d \in Slots : session[d] = t /\ upc[d] = "writing" => writing'[d] = writing[d]
      BY <1>9, <2>1
    <3> QED
      BY <3>1, <3>2, BufferKept
  <2>3. /\ messages'[t] = IF t # s THEN Append(messages[t], Len(log) + 1) ELSE messages[t]
        /\ delivered'[t] = delivered[t] /\ joined'[t] = joined[t]
    BY <1>6, <1>7, <1>8, <2>1
  <2>4. TalkTypes /\ joined[t] <= Len(log) /\ Ascending(Seen(t)) /\ ToSet(Seen(t)) = Owed(t)
    BY <2>1 DEF TalkInv, Told
  <2> QED
    BY <1>1, <1>4, <2>1, <2>2, <2>3, <2>4, Broadcasts
<1> QED
  BY <1>11, <1>12, <1>13 DEF TalkInv

(* What was in the buffer is delivered, and what was first in the queue is *)
(* in the buffer: the writer moves messages along and nothing else.        *)
LEMMA TalkWrites ==
  ASSUME ChatInv, TalkInv, NEW c \in Slots, WriterContinues(c)
  PROVE  TalkInv'
<1> DEFINE s == session[c]
           m == messages[s]
           b == InBuffer(s)
           d == delivered[s]
<1>1. /\ upc[c] \in WriterPoints /\ s \in heap /\ s \in Sessions /\ s # None
      /\ delivered' = [delivered EXCEPT ![s] = @ \o Written(c)]
      /\ UNCHANGED <<session, room, log, joined>>
  BY ChatAssumption DEF WriterContinues, RunsWithSession, Runs, WriterPoints, ChatInv, Types
<1>2. \A e \in Slots \ {c} : session[e] = s => upc[e] \notin {"start", "writing"}
  BY <1>1 DEF ChatInv, Parts, StartPoints, WriterPoints
<1>3. s \in ToSet(room)
  BY <1>1, <1>2 DEF ChatInv, Room, InRoom, WriterPoints
<1>4. m \in Seq(Nat) /\ b \in Seq(Nat) /\ d \in Seq(Nat) /\ writing[c] \in Nat
  BY <1>1, BufferTyped DEF TalkInv, TalkTypes
<1>5. b = IF upc[c] = "writing" THEN <<writing[c]>> ELSE << >>
  BY <1>1, BufferOf
<1>6. Written(c) = b
  <2>1. CASE upc[c] = "writing"
    <3>1. b = <<writing[c]>> /\ Len(b) = 1 /\ b[1] = writing[c]
      BY <1>5, <2>1
    <3> HIDE DEF b, d, m
    <3>2. /\ d \o b \in Seq(Nat) /\ Len(d \o b) = Len(d) + 1
          /\ (d \o b)[Len(d) + 1] = writing[c]
      <4>1. Len(d) \in Nat /\ Len(d) + 1 \in 1 .. Len(d) + Len(b) /\ Len(d) + 1 - Len(d) = 1
        BY <1>4, <3>1
      <4> QED
        BY <1>4, <3>1, <4>1, ConcatProperties
    <3> DEFINE q == d \o b
    <3> HIDE DEF q
    <3>3. /\ Len(d) + 1 \in 1 .. Len(q \o m)
          /\ (q \o m)[Len(d) + 1] = writing[c] /\ q \o m \in Seq(Nat)
      <4>1. /\ q \in Seq(Nat) /\ Len(q) = Len(d) + 1 /\ q[Len(d) + 1] = writing[c]
            /\ Len(d) \in Nat /\ Len(m) \in Nat
        BY <1>4, <3>2 DEF q
      <4>2. Len(d) + 1 \in 1 .. Len(q) + Len(m) /\ Len(d) + 1 <= Len(q)
        BY <4>1
      <4> QED
        BY <1>4, <4>1, <4>2, ConcatProperties
    <3>4. Seen(s) = q \o m
      BY DEF Seen, q, d, b, m
    <3>5. writing[c] \in ToSet(Seen(s))
      <4>1. DOMAIN (q \o m) = 1 .. Len(q \o m)
        BY <3>3
      <4> QED
        BY <3>3, <3>4, <4>1 DEF ToSet
    <3>6. writing[c] # NoMessage
      BY <1>3, <3>5 DEF TalkInv, Told, Owed, NoMessage
    <3> QED
      BY <3>1, <3>6 DEF Written
  <2>2. CASE upc[c] # "writing"
    BY <1>5, <2>2 DEF TalkInv, TalkTypes, Written
  <2> QED
    BY <2>1, <2>2
<1>7. /\ delivered' \in [Sessions -> Seq(Nat)] /\ delivered'[s] = d \o b
      /\ \A t \in Sessions \ {s} : delivered'[t] = delivered[t]
  <2>1. d \o b \in Seq(Nat)
    BY <1>4, ConcatProperties
  <2> QED
    BY <1>1, <1>6, <2>1 DEF TalkInv, TalkTypes
<1>8. /\ messages' \in [Sessions -> Seq(Nat)]
      /\ \A t \in Sessions \ {s} : messages'[t] = messages[t]
      /\ writing' \in [Slots -> Nat] /\ (upc'[c] # "writing" => writing'[c] = NoMessage)
      /\ \A e \in Slots \ {c} : upc'[e] = upc[e] /\ writing'[e] = writing[e]
      /\ \/ m = << >> /\ messages'[s] = << >> /\ upc'[c] = "waiting"
         \/ m # << >> /\ messages'[s] = Tail(m) /\ upc'[c] = "writing" /\ writing'[c] = Head(m)
  <2>1. CASE m = << >>
    <3>1. /\ upc' = [upc EXCEPT ![c] = "waiting"] /\ writing' = [writing EXCEPT ![c] = NoMessage]
          /\ messages' = messages
      BY <2>1 DEF WriterContinues
    <3> QED
      BY <2>1, <3>1 DEF ChatInv, Types, TalkInv, TalkTypes, NoMessage
  <2>2. CASE m # << >>
    <3>1. /\ upc' = [upc EXCEPT ![c] = "writing"] /\ writing' = [writing EXCEPT ![c] = Head(m)]
          /\ messages' = [messages EXCEPT ![s] = Tail(m)]
      BY <2>2 DEF WriterContinues
    <3>2. Head(m) \in Nat /\ Tail(m) \in Seq(Nat)
      BY <1>4, <2>2, HeadTailProperties
    <3> QED
      BY <1>1, <2>2, <3>1, <3>2 DEF ChatInv, Types, TalkInv, TalkTypes
  <2> QED
    BY <2>1, <2>2
<1>9. TalkTypes'
  BY <1>1, <1>7, <1>8 DEF TalkInv, TalkTypes
<1>10. Silent'
  BY <1>1, <1>3, <1>7, <1>8 DEF TalkInv, Silent
<1>11. InBuffer(s)' = IF upc'[c] = "writing" THEN <<writing'[c]>> ELSE << >>
  <2>1. \A e \in Slots \ {c} : ~(session'[e] = s' /\ upc'[e] = "writing")
    BY <1>1, <1>2, <1>8
  <2>2. Holders(s, {"writing"})' = IF upc'[c] = "writing" THEN {c} ELSE {}
    BY <1>1, <2>1 DEF Holders
  <2> QED
    BY <2>2 DEF InBuffer
<1>12. Seen(s)' = Seen(s)
  <2> DEFINE q == d \o b
  <2>1. q \in Seq(Nat) /\ Seen(s) = q \o m /\ s' = s
    BY <1>1, <1>4, ConcatProperties DEF Seen
  <2>2. Seen(s)' = (q \o InBuffer(s)') \o messages'[s]
    BY <1>1, <1>7 DEF Seen
  <2> HIDE DEF q, b, d, m
  <2>3. CASE m = << >> /\ messages'[s] = << >> /\ upc'[c] = "waiting"
    <3>1. InBuffer(s)' = << >>
      BY <1>11, <2>3
    <3> QED
      BY <2>1, <2>2, <2>3, <3>1, ConcatEmptySeq
  <2>4. CASE m # << >> /\ messages'[s] = Tail(m) /\ upc'[c] = "writing" /\ writing'[c] = Head(m)
    <3>1. InBuffer(s)' = <<Head(m)>>
      BY <1>11, <2>4
    <3> QED
      BY <1>4, <2>1, <2>2, <2>4, <3>1, ConcatHead
  <2> QED
    BY <1>8, <2>3, <2>4 DEF m
<1>13. ASSUME NEW t \in Sessions, t # s
       PROVE  Seen(t)' = Seen(t)
  <2>1. \A e \in Slots : (session[e] = t /\ upc[e] = "writing")
                          <=> (session'[e] = t /\ upc'[e] = "writing")
    BY <1>1, <1>8, <1>13
  <2>2. \A e \in Slots : session[e] = t /\ upc[e] = "writing" => writing'[e] = writing[e]
    BY <1>8, <1>13
  <2>3. InBuffer(t)' = InBuffer(t)
    BY <2>1, <2>2, BufferKept
  <2> QED
    BY <1>7, <1>8, <1>13, <2>3 DEF Seen
<1>14. Told'
  <2>1. \A t \in ToSet(room) : t \in Sessions
    BY DEF ChatInv, Types, ToSet
  <2>2. \A t \in ToSet(room) : Seen(t)' = Seen(t)
    BY <1>1, <1>12, <1>13, <2>1
  <2>3. \A t : Owed(t)' = Owed(t)
    BY <1>1 DEF Owed
  <2> QED
    BY <1>1, <2>2, <2>3 DEF TalkInv, Told, Ascending, ToSet
<1> QED
  BY <1>9, <1>10, <1>14 DEF TalkInv

LEMMA TalkInit == Init => TalkInv
<1> SUFFICES ASSUME Init PROVE TalkInv
  OBVIOUS
<1>1. << >> \in Seq(Nat) /\ << >> \in Seq(Sessions) /\ ToSet(<< >>) = {}
  BY DEF ToSet
<1>2. TalkTypes
  BY <1>1 DEF Init, TalkTypes, NoMessage
<1>3. Silent /\ Told
  BY <1>1 DEF Init, Silent, Told
<1> QED
  BY <1>2, <1>3 DEF TalkInv

LEMMA SpawnOnQuiet ==
  ASSUME ChatInv, TalkInv, NEW c \in Slots, NEW fn, NEW next, SpawnOn(c, fn, next),
         upc[c] # "writing", fn # "writing", next # "writing", UNCHANGED writing
  PROVE  SameWriters
<1>1. ASSUME NEW h \in Free, session' = [session EXCEPT ![h] = session[c]],
             upc' = [upc EXCEPT ![c] = next, ![h] = fn]
      PROVE  SameWriters
  <2>1. h \in Slots /\ upc[h] = "free"
    BY DEF Free, ChatInv, Held
  <2>2. /\ \A d \in Slots \ {c, h} : upc'[d] = upc[d] /\ session'[d] = session[d]
        /\ upc'[c] # "writing" /\ upc'[h] # "writing"
    BY <1>1, <2>1 DEF ChatInv, Types
  <2> QED
    BY <2>1, <2>2 DEF SameWriters, TalkInv, TalkTypes
<1>2. CASE upc' = [upc EXCEPT ![c] = next] /\ UNCHANGED session
  BY <1>2 DEF SameWriters, TalkInv, TalkTypes, ChatInv, Types
<1> QED
  BY <1>1, <1>2 DEF SpawnOn

LEMMA TalkNext == ChatInv /\ TalkInv /\ [Next]_vars => TalkInv'
<1> SUFFICES ASSUME ChatInv, TalkInv, [Next]_vars PROVE TalkInv'
  OBVIOUS
<1>1. ASSUME UNCHANGED <<upc, session, writing, room, messages, log, joined, delivered>>
      PROVE  TalkInv'
  <2>1. SameWriters
    BY <1>1 DEF SameWriters, TalkInv, TalkTypes
  <2> QED
    BY <1>1, <2>1, TalkKept
<1>2. CASE UNCHANGED vars
  BY <1>1, <1>2 DEF vars, chatVars
<1>3. ASSUME NEW c \in Slots,
             \/ UsesFreedSession(c) \/ Executes(c)
             \/ KernelAccepts(c) \/ KernelReads(c) \/ KernelWrites(c) \/ KernelTimer(c)
      PROVE  TalkInv'
  BY <1>1, <1>3 DEF UsesFreedSession, Executes, KernelAccepts, KernelReads, KernelWrites,
     KernelTimer, chatVars
<1>4. ASSUME NEW c \in Slots, SpawnServer(c)
      PROVE  TalkInv'
  <2>1. \A d \in Slots : upc[d] = "free"
    BY <1>4 DEF SpawnServer, Free, ChatInv, Held
  <2>2. SameWriters
    BY <1>4, <2>1 DEF SpawnServer, SameWriters, TalkInv, TalkTypes, ChatInv, Types
  <2> QED
    BY <1>4, <2>2, TalkKept DEF SpawnServer
<1>5. ASSUME NEW c \in Slots, Server(c)
      PROVE  TalkInv'
  <2>1. CASE ServerAccepts(c)
    <3>1. SameWriters
      BY <2>1 DEF ServerAccepts, Runs, SameWriters, TalkInv, TalkTypes, ChatInv, Types
    <3> QED
      BY <2>1, <3>1, TalkKept DEF ServerAccepts
  <2>2. CASE ServerSpawns(c)
    <3>1. upc[c] = "accepting" /\ UNCHANGED <<writing, room, messages, log, joined, delivered>>
      BY <2>2 DEF ServerSpawns, Runs
    <3>2. PICK s \in fresh :
            \/ \E h \in Free :
                 /\ session' = [session EXCEPT ![h] = s]
                 /\ upc' = [upc EXCEPT ![c] = "loop", ![h] = "start"]
            \/ upc' = [upc EXCEPT ![c] = "loop"] /\ UNCHANGED session
      BY <2>2 DEF ServerSpawns
    <3>3. ASSUME NEW h \in Free, session' = [session EXCEPT ![h] = s],
                 upc' = [upc EXCEPT ![c] = "loop", ![h] = "start"]
          PROVE  SameWriters
      <4>1. h \in Slots /\ upc[h] = "free"
        BY DEF Free, ChatInv, Held
      <4>2. /\ \A d \in Slots \ {c, h} : upc'[d] = upc[d] /\ session'[d] = session[d]
            /\ upc'[c] # "writing" /\ upc'[h] # "writing"
        BY <3>3, <4>1 DEF ChatInv, Types
      <4> QED
        BY <3>1, <4>1, <4>2 DEF SameWriters, TalkInv, TalkTypes
    <3>4. CASE upc' = [upc EXCEPT ![c] = "loop"] /\ UNCHANGED session
      <4>1. upc'[c] = "loop" /\ \A d \in Slots \ {c} : upc'[d] = upc[d]
        BY <3>4 DEF ChatInv, Types
      <4>2. SameWriters
        BY <3>1, <3>4, <4>1 DEF SameWriters, TalkInv, TalkTypes
      <4> QED
        BY <3>1, <4>2, TalkKept
    <3>5. ASSUME SameWriters PROVE TalkInv'
      BY <3>1, <3>5, TalkKept
    <3> QED
      BY <3>2, <3>3, <3>4, <3>5
  <2> QED
    BY <1>5, <2>1, <2>2 DEF Server
<1>6. ASSUME NEW c \in Slots, StartJoins(c)
      PROVE  TalkInv'
  <2> DEFINE s == session[c]
  <2>1. /\ upc[c] = "start" /\ s \in heap /\ s \in Sessions /\ s # None
        /\ SpawnOn(c, "reader", "joined")
        /\ room' = Append(room, s) /\ messages' = SendToRoom(room', s, messages)
        /\ joined' = [joined EXCEPT ![s] = Len(log)] /\ log' = Append(log, s)
        /\ UNCHANGED <<writing, delivered>>
    BY <1>6, ChatAssumption DEF StartJoins, RunsWithSession, Runs, ChatInv, Types
  <2>2. SameWriters
    BY <2>1, SpawnOnQuiet
  <2>3. s \notin ToSet(room)
    BY <2>1 DEF ChatInv, Room, InRoom
  <2>4. \A d \in Slots \ {c} : session[d] # s
    BY <2>1 DEF ChatInv, Parts
  <2> HIDE DEF s
  <2>5. Holders(s, {"writing"})' = {}
    <3>1. \A d \in Slots : upc'[d] = "writing" => upc[d] = "writing" /\ session'[d] = session[d]
      BY <2>2 DEF SameWriters
    <3>2. \A d \in Slots : session[d] = session[c] => upc[d] # "writing"
      BY <2>1, <2>4 DEF s
    <3>3. \A d \in Slots : ~(session'[d] = session[c] /\ upc'[d] = "writing")
      BY <3>1, <3>2
    <3>4. session'[c] = session[c]
      BY <2>1 DEF SpawnOn, Free, ChatInv, Types, Held
    <3> QED
      BY <3>3, <3>4 DEF Holders, s
  <2>6. s' = s
    BY <2>1 DEF SpawnOn, Free, ChatInv, Types, Held, s
  <2> QED
    BY <2>1, <2>2, <2>3, <2>5, <2>6, TalkJoins
<1>7. ASSUME NEW c \in Slots, StartSpawnsWriter(c)
      PROVE  TalkInv'
  <2>1. upc[c] = "joined" /\ SpawnOn(c, "writer", "started")
        /\ UNCHANGED <<writing, room, messages, log, joined, delivered>>
    BY <1>7 DEF StartSpawnsWriter, Runs
  <2>2. SameWriters
    BY <2>1, SpawnOnQuiet
  <2> QED
    BY <2>1, <2>2, TalkKept
<1>8. ASSUME NEW c \in Slots, StartReturns(c)
      PROVE  TalkInv'
  <2>1. SameWriters
    BY <1>8 DEF StartReturns, Runs, Returns, SameWriters, TalkInv, TalkTypes, ChatInv, Types,
       NoMessage
  <2> QED
    BY <1>8, <2>1, TalkKept DEF StartReturns
<1>9. ASSUME NEW c \in Slots, ReaderStarts(c)
      PROVE  TalkInv'
  <2>1. SameWriters
    BY <1>9 DEF ReaderStarts, RunsWithSession, Runs, SameWriters, TalkInv, TalkTypes, ChatInv, Types
  <2> QED
    BY <1>9, <2>1, TalkKept DEF ReaderStarts
<1>10. ASSUME NEW c \in Slots, ReaderBroadcasts(c)
       PROVE  TalkInv'
  <2> DEFINE s == session[c]
  <2>1. /\ upc[c] = "reading" /\ s \in heap /\ s \in Sessions /\ s # None
        /\ messages' = SendToRoom(room, s, messages) /\ log' = Append(log, s)
        /\ UNCHANGED <<upc, session, writing, room, joined, delivered>>
    BY <1>10, ChatAssumption DEF ReaderBroadcasts, RunsWithSession, Runs, ChatInv, Types
  <2>2. SameWriters
    BY <2>1 DEF SameWriters, TalkInv, TalkTypes
  <2>3. s \in ToSet(room)
    BY <2>1 DEF ChatInv, Room, InRoom, Parts, ReaderPoints, StartPoints
  <2> QED
    BY <2>1, <2>2, <2>3, TalkBroadcast
<1>11. ASSUME NEW c \in Slots, ReaderStops(c) \/ WriterStops(c)
       PROVE  TalkInv'
  BY <1>11, TalkStops
     DEF ReaderStops, WriterStops, RunsWithSession, Runs, ReaderPoints, WriterPoints
<1>12. CASE Ends
  BY <1>1, <1>12 DEF Ends, chatVars
<1> QED
  BY <1>2, <1>3, <1>4, <1>5, <1>6, <1>7, <1>8, <1>9, <1>10, <1>11, <1>12, TalkWrites
     DEF Next, Ended, Start, Reader, Writer

(* Through any joins, departures and failing writes, up to the first use   *)
(* of a freed session: sendto_room and the writers' queues give every      *)
(* participant exactly what the others sent since it joined, once and in   *)
(* the order it was sent.                                                  *)
THEOREM OneConversation == Spec => []EveryoneSeesTheConversation
<1>1. Spec => []TalkInv
  BY TalkInit, TalkNext, ChatAlways, PTL DEF Spec
<1>2. TalkInv => EveryoneSeesTheConversation
  BY DEF TalkInv, Told, EveryoneSeesTheConversation
<1> QED
  BY <1>1, <1>2, PTL

(* The chat server too does nothing with slots, rounds and answers that    *)
(* RoundRobin does not let it, until it follows a dangling pointer.        *)
THEOREM ChatKeepsToRoundRobin == Spec => RRSpec
<1>1. Init => RRInit
  BY DEF Init
<1>2. ASSUME [Next]_vars
      PROVE  [RRNext]_rrVars
  <2>0. {"ACCEPT", "READ", "WRITE", "WAIT"} \subseteq Operations
    BY OperationsAssumption
  <2>1. CASE UNCHANGED vars
    BY <2>1 DEF vars
  <2>2. ASSUME NEW c \in Slots, SpawnServer(c) PROVE RRNext
    BY <2>2 DEF SpawnServer, RRNext
  <2>3. ASSUME NEW c \in Slots, Server(c) PROVE RRNext \/ UNCHANGED rrVars
    <3>1. CASE ServerAccepts(c)
      BY <3>1, <2>0 DEF ServerAccepts, RRNext
    <3>2. CASE ServerSpawns(c)
      <4>1. (\E h \in Free : Spawn(h)) \/ UNCHANGED rrVars
        BY <3>2 DEF ServerSpawns
      <4> QED
        BY <4>1 DEF Free, RRNext
    <3> QED
      BY <2>3, <3>1, <3>2 DEF Server
  <2>4. ASSUME NEW c \in Slots, Start(c) PROVE RRNext \/ UNCHANGED rrVars
    BY <2>4 DEF Start, StartJoins, StartSpawnsWriter, StartReturns, SpawnOn, Returns, Free, RRNext
  <2>5. ASSUME NEW c \in Slots, Reader(c) PROVE RRNext
    <3>1. Await(c, "READ") \/ Return(c)
      BY <2>5 DEF Reader, ReaderStarts, ReaderBroadcasts, ReaderStops, Returns
    <3> QED
      BY <3>1, <2>0 DEF RRNext
  <2>6. ASSUME NEW c \in Slots, Writer(c) PROVE RRNext
    <3>1. Await(c, "WAIT") \/ Await(c, "WRITE") \/ Return(c)
      BY <2>6 DEF Writer, WriterContinues, WriterStops, Returns
    <3> QED
      BY <3>1, <2>0 DEF RRNext
  <2>7. ASSUME NEW c \in Slots,
               KernelAccepts(c) \/ KernelReads(c) \/ KernelWrites(c) \/ KernelTimer(c)
        PROVE  RRNext
    <3>1. PICK r \in Answers : Answer(c, r)
      BY <2>7, ChatAssumption
         DEF KernelAccepts, KernelReads, KernelWrites, KernelTimer, Success, Failure
    <3> QED
      BY <3>1 DEF RRNext
  <2>8. ASSUME NEW c \in Slots, UsesFreedSession(c) PROVE UNCHANGED rrVars
    BY <2>8 DEF UsesFreedSession
  <2>9. ASSUME NEW c \in Slots, Executes(c) PROVE RRNext
    BY <2>9 DEF Executes, RRNext
  <2>10. CASE Ends \/ Ended
    BY <2>10 DEF Ends, Ended, vars, RRNext
  <2> QED
    BY <1>2, <2>1, <2>2, <2>3, <2>4, <2>5, <2>6, <2>7, <2>8, <2>9, <2>10 DEF Next
<1> QED
  BY <1>1, <1>2, PTL DEF Spec, RRSpec
=============================================================================

---------------------------- MODULE RoundsProofs ----------------------------
(***************************************************************************)
(* The executor implements RoundRobin, for every number of frames and      *)
(* tokens: the invariants of SleepProofs say what each slot of RoundRobin  *)
(* is, and each step of the executor is one of its steps or a stutter.     *)
(***************************************************************************)
EXTENDS SleepProofs

RoundInv == SleepInv /\ Order /\ (mpc = "freed" => pc \in {"freed", "aborted"})

LEMMA FreedNext ==
  ASSUME SleepInv, mpc = "freed" => pc \in {"freed", "aborted"}, [Next]_vars
  PROVE  mpc' = "freed" => pc' \in {"freed", "aborted"}
<1> SUFFICES ASSUME mpc' = "freed" PROVE pc' \in {"freed", "aborted"}
  OBVIOUS
<1>1. CASE FreeExecutor
  BY <1>1 DEF FreeExecutor, FreeIOContext
<1>2. CASE ~FreeExecutor
  <2>1. mpc = "freed" /\ Phase
    BY <1>2 DEF SleepInv, Sched, Next, Yield, Run, AsyncExec, AsyncExecFull, AsyncOp,
         AsyncOpRefused, FinishLast, FinishSwap, RunStart, RunSwitch, RunBreak, RunSubmit,
         RunFails, RunReap, RunCallback, RunAdvance, Kernel, Ended, vars, exVars
  <2>2. cpu = Main /\ pc \in {"freed", "aborted"}
    BY <2>1 DEF Phase
  <2> QED
    BY <1>2, <2>1, <2>2
       DEF Next, Yield, Run, AsyncExec, AsyncExecFull, AsyncOp, AsyncOpRefused,
         RequestRefused, FinishLast, FinishSwap, RunStart, RunSwitch, RunBreak, RunSubmit,
         RunFails, RunReap, ProcessPeek, ProcessWait, ProcessRelease, RunCallback,
         ProcessCallback, RunAdvance, ProcessAdvance, Advance, ProcessWaitFails,
         ProcessSubmitFails, Kernel, KernelComplete, Ended, vars, ioVars, exVars
<1> QED
  BY <1>1, <1>2

LEMMA RoundAlways == Spec => []RoundInv
<1>1. Init => Order /\ (mpc = "freed" => pc \in {"freed", "aborted"})
  BY DEF Init, IOInit, Order, Behind, AllAsleep, KernelOwes
<1>2. RoundInv /\ [Next]_vars => Order' /\ (mpc = "freed" => pc \in {"freed", "aborted"})'
  BY OrderNext, FreedNext DEF RoundInv
<1>3. SleepInv /\ Order /\ (mpc = "freed" => pc \in {"freed", "aborted"}) <=> RoundInv
  BY DEF RoundInv
<1> QED
  BY <1>1, <1>2, <1>3, SleepAlways, PTL DEF Spec

-----------------------------------------------------------------------------
(* The slots.                                                              *)

LEMMA SlotFacts ==
  ASSUME SleepInv
  PROVE  /\ Live \subseteq Slots /\ Slots \subseteq Frames /\ Main \notin Slots
         /\ SlotStatus \in [Slots -> {"free", "running", "ready", "waiting"}]
         /\ cpu = Main => RR!Running = {}
         /\ cpu # Main => /\ RR!Running = {cpu} /\ cpu \in Slots
                          /\ SlotStatus[cpu] = "running"
         /\ RR!Ready = {f \in Live : f # cpu /\ isReady[f]}
<1>1. Live \subseteq Frames /\ Main \notin Live /\ (cpu # Main => cpu \in Live)
  BY LiveFacts DEF SleepInv
<1>2. Live \subseteq Slots /\ Slots \subseteq Frames /\ Main \notin Slots
  BY <1>1 DEF Slots
<1>3. SlotStatus \in [Slots -> {"free", "running", "ready", "waiting"}]
  BY DEF SlotStatus
<1>4. \A f \in Slots : SlotStatus[f] = IF f \notin Live THEN "free"
                                       ELSE IF f = cpu THEN "running"
                                       ELSE IF isReady[f] THEN "ready" ELSE "waiting"
  BY DEF SlotStatus
<1>5. RR!Running = {f \in Live : f = cpu}
  BY <1>2, <1>4 DEF RR!Running
<1>6. RR!Ready = {f \in Live : f # cpu /\ isReady[f]}
  BY <1>2, <1>4 DEF RR!Ready
<1> QED
  BY <1>1, <1>2, <1>3, <1>4, <1>5, <1>6

LEMMA StatusAt ==
  \A f \in Slots : SlotStatus[f] = IF f \notin Live THEN "free"
                                   ELSE IF f = cpu THEN "running"
                                   ELSE IF isReady[f] THEN "ready" ELSE "waiting"
  BY DEF SlotStatus

(* Requests and answers of a frame: one at most, and the answer is to the  *)
(* request.                                                                *)
LEMMA OneRequest ==
  ASSUME SleepInv, NEW e \in Pending
  PROVE  /\ RequestsOf(e.who) = {e} /\ OpOf(RequestsOf(e.who)) = e.op
         /\ e.who \in Live /\ e \in Submission
<1>1. RequestsOf(e.who) = {e} /\ e.who \in Live
  BY DEF RequestsOf, SleepInv, Sleep, OnePerFrame, Owned
<1>2. OpOf({e}) = e.op
  BY DEF OpOf
<1>3. e \in Submission
  <2>1. TypeInv
    BY DEF SleepInv, HoldInv
  <2>2. CASE e \in Asked
    BY <2>1, <2>2, AskedIs, PlaceTypes
  <2>3. CASE \E c \in Answered : e = c.req
    BY <2>1, <2>3, AnsweredFacts, PlaceTypes
  <2> QED
    BY <2>2, <2>3 DEF Pending
<1> QED
  BY <1>1, <1>2, <1>3

LEMMA OneAnswer ==
  ASSUME SleepInv, NEW c \in Answered
  PROVE  /\ AnswersTo(c.req.who) = {c} /\ ResOf(AnswersTo(c.req.who)) = c.res
         /\ c.req \in Pending /\ c \in Completion
<1>1. TypeInv /\ Distinct
  BY DEF SleepInv, HoldInv
<1>2. c.req \in Pending
  BY DEF Pending
<1>3. PICK i \in UnhandledPlaces : c = cq[i]
  BY <1>1, AnsweredFacts
<1>4. ASSUME NEW d \in Answered, d.req.who = c.req.who PROVE d = c
  <2>1. d.req \in Pending
    BY DEF Pending
  <2>2. d.req = c.req
    BY <1>2, <1>4, <2>1 DEF SleepInv, Sleep, OnePerFrame
  <2>3. PICK j \in UnhandledPlaces : d = cq[j]
    BY <1>1, AnsweredFacts
  <2>4. i = j
    BY <1>1, <1>3, <2>2, <2>3, AnsweredFacts DEF Distinct
  <2> QED
    BY <1>3, <2>3, <2>4
<1>5. AnswersTo(c.req.who) = {c}
  BY <1>4 DEF AnswersTo
<1>6. ResOf({c}) = c.res
  BY DEF ResOf
<1>7. c \in Completion
  BY <1>1, <1>3, AnsweredFacts, PlaceTypes
<1> QED
  BY <1>2, <1>5, <1>6, <1>7

LEMMA AskedUnanswered ==
  ASSUME SleepInv, NEW e \in Asked
  PROVE  AnswersTo(e.who) = {}
<1>1. TypeInv /\ Distinct
  BY DEF SleepInv, HoldInv
<1> SUFFICES ASSUME NEW c \in Answered, c.req.who = e.who PROVE FALSE
  BY DEF AnswersTo
<1>2. c.req = e
  BY DEF Pending, SleepInv, Sleep, OnePerFrame
<1>3. PICK i \in UnhandledPlaces : c = cq[i]
  BY <1>1, AnsweredFacts
<1>4. \/ \E j \in SqPlaces : e = sq[j]
      \/ e \in inflight
  BY AskedIs
<1> QED
  BY <1>1, <1>2, <1>3, <1>4, AnsweredFacts DEF Distinct

LEMMA RequestsKept ==
  ASSUME UNCHANGED Pending
  PROVE  SlotAwaits' = SlotAwaits
<1>1. \A f : RequestsOf(f)' = RequestsOf(f)
  BY DEF RequestsOf
<1> QED
  BY <1>1 DEF SlotAwaits

LEMMA AnswersKept ==
  ASSUME UNCHANGED Answered
  PROVE  SlotAnswer' = SlotAnswer
<1>1. \A f : AnswersTo(f)' = AnswersTo(f)
  BY DEF AnswersTo
<1> QED
  BY <1>1 DEF SlotAnswer

(* What the steps of process() that call nobody back do to the answers.    *)
LEMMA AnswersStill ==
  ASSUME HoldInv,
         \/ UNCHANGED ioVars
         \/ \E batch \in BatchSizes : ProcessSubmit(batch)
         \/ ProcessPeek \/ ProcessWait \/ ProcessWaitFails
         \/ ProcessRelease \/ ProcessAdvance
  PROVE  Answered' = Answered
<1>1. CASE UNCHANGED ioVars
  BY <1>1, StillKeeps DEF ioVars
<1>2. ASSUME NEW batch \in BatchSizes, ProcessSubmit(batch) PROVE Answered' = Answered
  BY <1>2, SubmitKeeps
<1>3. CASE ProcessPeek
  <2>1. done' = done
    BY <1>3, PlaceTypes DEF ProcessPeek, HoldInv, TypeInv, BatchProgress
  <2> QED
    BY <1>3, <2>1, StillKeeps DEF ProcessPeek
<1>4. CASE ProcessWait
  BY <1>4, StillKeeps DEF ProcessWait
<1>5. CASE ProcessWaitFails
  BY <1>5, StillKeeps DEF ProcessWaitFails
<1>6. CASE ProcessRelease
  BY <1>6, ReleaseReturns
<1>7. CASE ProcessAdvance
  BY <1>7, AdvanceKeeps
<1> QED
  BY <1>1, <1>2, <1>3, <1>4, <1>5, <1>6, <1>7

-----------------------------------------------------------------------------
(* Rounds.  The scan takes the next of the turn, or ends the round.        *)

ReadyAt(fr, rd, a, b) == {f \in {fr[i] : i \in a .. b} : rd[f]}

LEMMA ScanTurn ==
  ASSUME NEW n \in Nat \ {0}, current \in 0 .. n, NEW fr, NEW rd, fr[0] = Main, rd[Main],
         \A i, k \in 1 .. n - 1 : fr[i] = fr[k] => i = k,
         NEW j, j = NextReady(fr, n, rd)
  PROVE  /\ j \in 0 .. n - 1
         /\ j = 0 => ReadyAt(fr, rd, From(n) + 1, n - 1) = {}
         /\ j # 0 => /\ fr[j] \in ReadyAt(fr, rd, From(n) + 1, n - 1)
                     /\ ReadyAt(fr, rd, j + 1, n - 1) =
                          ReadyAt(fr, rd, From(n) + 1, n - 1) \ {fr[j]}
<1> DEFINE s == From(n)
<1>1. /\ j \in {0} \cup (s + 1 .. n - 1)
      /\ \A i \in s + 1 .. n - 1 : j = 0 \/ i < j => ~rd[fr[i]]
  BY ScanOrder
<1>2. s \in 0 .. n - 1 /\ rd[fr[j]]
  BY NextReadyFacts DEF From
<1> HIDE DEF s
<1>3. CASE j = 0
  <2>1. \A i \in s + 1 .. n - 1 : ~rd[fr[i]]
    BY <1>1, <1>3
  <2>2. ReadyAt(fr, rd, s + 1, n - 1) = {}
    BY <2>1 DEF ReadyAt
  <2> QED
    BY <1>2, <1>3, <2>2 DEF s
<1>4. CASE j # 0
  <2>1. j \in s + 1 .. n - 1 /\ j \in Int /\ s \in Int
    BY <1>1, <1>2, <1>4
  <2>2. fr[j] \in ReadyAt(fr, rd, s + 1, n - 1)
    BY <1>2, <2>1 DEF ReadyAt
  <2>3. ASSUME NEW f \in ReadyAt(fr, rd, j + 1, n - 1)
        PROVE  f \in ReadyAt(fr, rd, s + 1, n - 1) \ {fr[j]}
    <3>1. PICK i \in j + 1 .. n - 1 : f = fr[i] /\ rd[f]
      BY DEF ReadyAt
    <3>2. i \in s + 1 .. n - 1 /\ i \in 1 .. n - 1 /\ j \in 1 .. n - 1 /\ i # j
      BY <1>2, <2>1
    <3> QED
      BY <3>1, <3>2 DEF ReadyAt
  <2>4. ASSUME NEW f \in ReadyAt(fr, rd, s + 1, n - 1) \ {fr[j]}
        PROVE  f \in ReadyAt(fr, rd, j + 1, n - 1)
    <3>1. PICK i \in s + 1 .. n - 1 : f = fr[i] /\ rd[f]
      BY DEF ReadyAt
    <3>2. i # j /\ ~(i < j)
      BY <1>1, <2>4, <3>1
    <3>3. i \in j + 1 .. n - 1
      BY <2>1, <3>2
    <3> QED
      BY <3>1, <3>3 DEF ReadyAt
  <2>5. ReadyAt(fr, rd, j + 1, n - 1) = ReadyAt(fr, rd, s + 1, n - 1) \ {fr[j]}
    BY <2>3, <2>4
  <2> QED
    BY <1>2, <1>4, <2>1, <2>2, <2>5 DEF s
<1> QED
  BY <1>3, <1>4

LEMMA TurnIs ==
  SlotsInTurn = IF cpu = Main THEN {} ELSE ReadyAt(frames, isReady, current + 1, size - 1)
  BY DEF SlotsInTurn, ReadyAt

LEMMA HandOverBy ==
  ASSUME SleepInv, cpu # Main, NEW s,
         \/ cpu' = Main /\ SlotsInTurn = {}
         \/ cpu' \in SlotsInTurn /\ cpu' \in Slots /\ cpu' # cpu,
         SlotsInTurn' = SlotsInTurn \ {cpu'},
         SlotStatus'[cpu] = s,
         \A g \in Slots : g # cpu =>
           SlotStatus'[g] = IF g = cpu' THEN "running" ELSE SlotStatus[g]
  PROVE  RR!HandOver(cpu, s)
<1>1. /\ cpu \in Slots /\ SlotStatus[cpu] = "running" /\ Main \notin Slots
      /\ SlotStatus \in [Slots -> {"free", "running", "ready", "waiting"}]
  BY SlotFacts
<1>2. SlotStatus' \in [Slots -> {"free", "running", "ready", "waiting"}]
  BY DEF SlotStatus
<1>3. CASE cpu' = Main /\ SlotsInTurn = {}
  <2>1. SlotStatus' = [SlotStatus EXCEPT ![cpu] = s]
    BY <1>1, <1>2, <1>3
  <2>2. SlotsInTurn' = SlotsInTurn
    BY <1>3
  <2> QED
    BY <1>1, <1>3, <2>1, <2>2 DEF RR!HandOver
<1>4. CASE cpu' \in SlotsInTurn /\ cpu' \in Slots /\ cpu' # cpu
  <2>1. SlotStatus' = [SlotStatus EXCEPT ![cpu] = s, ![cpu'] = "running"]
    BY <1>1, <1>2, <1>4
  <2>2. SlotsInTurn # {}
    BY <1>4
  <2> QED
    BY <1>1, <1>4, <2>1, <2>2 DEF RR!HandOver
<1> QED
  BY <1>3, <1>4

-----------------------------------------------------------------------------
(* The steps of the coroutines.                                            *)

LEMMA OutcomeKept ==
  ASSUME UNCHANGED result
  PROVE  SlotOutcome' = SlotOutcome
  BY DEF SlotOutcome

LEMMA NotOver ==
  ASSUME SleepInv, cpu # Main
  PROVE  mpc = "swapped" /\ pc = "idle"
  BY DEF SleepInv, Sched, Phase

LEMMA RoundSpawn ==
  ASSUME RoundInv, AsyncExec
  PROVE  \E c \in Slots : RR!Spawn(c)
<1> DEFINE f == frames[size]
<1>1. /\ SleepInv /\ HoldInv /\ ExInv
      /\ isReady' = [isReady EXCEPT ![f] = TRUE] /\ size' = size + 1 /\ size < FrameCapacity
      /\ UNCHANGED <<ioVars, frames, current, result, cpu, mpc>>
      /\ isReady \in [Frames -> BOOLEAN] /\ mpc # "freed"
  BY DEF RoundInv, SleepInv, HoldInv, ExInv, Sched, ExTypes, Phase, AsyncExec, UserCode
<1>2. f \in Frames /\ f \notin Live /\ Live' = Live \cup {f}
  BY <1>1, SchedAsyncExec
<1>3. /\ size \in Frames /\ size # 0 /\ size \in Nat /\ f # Main
      /\ 1 .. size - 1 \subseteq Frames /\ (cpu # Main => current \in 1 .. size - 1)
      /\ frames[0] = Main /\ frames \in [Frames -> Frames] /\ 0 \in Frames
      /\ \A i, j \in Frames : frames[i] = frames[j] => i = j
  BY <1>1, LiveFacts DEF Frames, Sched, SleepInv, Position
<1>4. /\ Live \subseteq Slots /\ (cpu # Main => cpu \in Live)
      /\ SlotStatus \in [Slots -> {"free", "running", "ready", "waiting"}]
      /\ cpu = Main => RR!Running = {}
      /\ cpu # Main => RR!Running # {}
  BY <1>1, SlotFacts, LiveFacts DEF SleepInv
<1>5. f \in Slots /\ f # cpu
  BY <1>2, <1>3, <1>4 DEF Slots
<1>6. Pending' = Pending /\ Answered' = Answered
  BY <1>1, PendingKept, AnswersStill
<1>7. UNCHANGED <<SlotAwaits, SlotAnswer, SlotOutcome>>
  BY <1>1, <1>6, RequestsKept, AnswersKept, OutcomeKept
<1>8. \A i \in 1 .. size - 1 : i \in Frames /\ frames[i] # f
  BY <1>3
<1> HIDE DEF f
<1>9. isReady'[f] /\ \A g \in Frames : g # f => isReady'[g] = isReady[g]
  BY <1>1, <1>2
<1>10. SlotStatus[f] = "free" /\ SlotStatus' = [SlotStatus EXCEPT ![f] = "ready"]
  <2>1. SlotStatus[f] = "free"
    BY <1>2, <1>5, StatusAt
  <2>2. \A g \in Slots : SlotStatus'[g] = IF g \notin Live' THEN "free"
                                          ELSE IF g = cpu' THEN "running"
                                          ELSE IF isReady'[g] THEN "ready" ELSE "waiting"
    BY DEF SlotStatus
  <2>3. \A g \in Slots : SlotStatus'[g] = IF g = f THEN "ready" ELSE SlotStatus[g]
    BY <1>1, <1>2, <1>5, <1>9, <2>2, StatusAt DEF Slots
  <2>4. SlotStatus' \in [Slots -> {"free", "running", "ready", "waiting"}]
    BY DEF SlotStatus
  <2> QED
    BY <1>4, <1>5, <2>1, <2>3, <2>4
<1>11. SlotsInTurn' = IF RR!Running = {} THEN SlotsInTurn ELSE SlotsInTurn \cup {f}
  <2>1. CASE cpu = Main
    BY <1>1, <1>4, <2>1 DEF SlotsInTurn
  <2>2. CASE cpu # Main
    <3>1. /\ SlotsInTurn = ReadyAt(frames, isReady, current + 1, size - 1)
          /\ SlotsInTurn' = ReadyAt(frames, isReady', current + 1, size)
      <4>1. size' - 1 = size
        BY <1>1, <1>3
      <4> QED
        BY <1>1, <2>2, <4>1, TurnIs DEF SlotsInTurn, ReadyAt
    <3>2. ASSUME NEW g \in SlotsInTurn' PROVE g \in SlotsInTurn \cup {f}
      <4>1. PICK i \in current + 1 .. size : g = frames[i] /\ isReady'[g]
        BY <3>1 DEF ReadyAt
      <4>2. i = size \/ (i \in current + 1 .. size - 1 /\ i \in 1 .. size - 1)
        BY <1>3, <2>2, <4>1
      <4> QED
        BY <1>8, <1>9, <1>3, <3>1, <4>1, <4>2 DEF ReadyAt, f
    <3>3. ASSUME NEW g \in SlotsInTurn PROVE g \in SlotsInTurn'
      <4>1. PICK i \in current + 1 .. size - 1 : g = frames[i] /\ isReady[g]
        BY <3>1 DEF ReadyAt
      <4>2. i \in current + 1 .. size /\ i \in 1 .. size - 1
        BY <1>3, <2>2, <4>1
      <4> QED
        BY <1>8, <1>9, <1>3, <3>1, <4>1, <4>2 DEF ReadyAt
    <3>4. f \in SlotsInTurn'
      <4>1. size \in current + 1 .. size
        BY <1>3, <2>2
      <4> QED
        BY <1>9, <3>1, <4>1 DEF ReadyAt, f
    <3> QED
      BY <1>4, <2>2, <3>2, <3>3, <3>4
  <2> QED
    BY <2>1, <2>2
<1>12. (mpc = "freed")' = (mpc = "freed")
  BY <1>1
<1> QED
  BY <1>1, <1>5, <1>7, <1>10, <1>11, <1>12 DEF RR!Spawn

LEMMA RoundAwait ==
  ASSUME RoundInv, NEW ty \in Ops, AsyncOp(ty)
  PROVE  \E c \in Slots : RR!Await(c, ty)
<1> DEFINE e == [tok |-> avail[tail - 1], op |-> ty, who |-> cpu]
<1>1. /\ SleepInv /\ HoldInv /\ ExInv
      /\ cpu # Main /\ frames[current] = cpu /\ current \in 1 .. size - 1
      /\ size \in Nat \ {0} /\ frames \in [Frames -> Frames] /\ frames[0] = Main
      /\ \A i, j \in Frames : frames[i] = frames[j] => i = j
      /\ 1 .. size - 1 \subseteq Frames
      /\ isReady \in [Frames -> BOOLEAN] /\ isReady[Main]
      /\ isReady' = [isReady EXCEPT ![cpu] = FALSE]
      /\ current' = NextReady(frames, size, isReady')
      /\ UNCHANGED <<frames, size, result, mpc>> /\ Request(ty, cpu)
      /\ cpu \in Live /\ Live \subseteq Frames
  BY LiveFacts DEF AsyncOp, RoundInv, SleepInv, HoldInv, ExInv, Sched, Position, ExTypes,
     MainContext
<1>2. /\ Sched' /\ isReady'[cpu'] /\ Live' = Live
      /\ cpu' # Main => cpu' \in Live
  BY <1>1, SchedAsyncOp DEF Live
<1>3. /\ ty \in RequestType /\ cpu \in Data /\ cpu \in Slots /\ cpu \in Frames
      /\ Live \subseteq Slots
  BY <1>1, ExConstants, SlotFacts
<1>4. /\ Pending' = Pending \cup {e} /\ Answered' = Answered
  BY <1>1, <1>3, PendingRequest, RequestAsks
<1>5. e.who = cpu /\ e.op = ty
  OBVIOUS
<1> HIDE DEF e
<1>6. /\ ~isReady'[cpu] /\ cpu' # cpu /\ isReady'[Main]
      /\ \A g \in Frames : g # cpu => isReady'[g] = isReady[g]
  BY <1>1, <1>2, <1>3, ExConstants
<1>7. From(size) = current /\ current \in 0 .. size
  BY <1>1 DEF From
<1>8. /\ current' \in 0 .. size - 1
      /\ current' = 0 => ReadyAt(frames, isReady', current + 1, size - 1) = {}
      /\ current' # 0 => /\ frames[current'] \in ReadyAt(frames, isReady', current + 1, size - 1)
                         /\ ReadyAt(frames, isReady', current' + 1, size - 1) =
                              ReadyAt(frames, isReady', current + 1, size - 1) \ {frames[current']}
  <2> DEFINE rd == isReady'
             j == current'
  <2>1. \A i, k \in 1 .. size - 1 : frames[i] = frames[k] => i = k
    BY <1>1
  <2>2. rd[Main] /\ j = NextReady(frames, size, rd)
    BY <1>1, <1>6
  <2> HIDE DEF rd, j
  <2>3. /\ j \in 0 .. size - 1
        /\ j = 0 => ReadyAt(frames, rd, current + 1, size - 1) = {}
        /\ j # 0 => /\ frames[j] \in ReadyAt(frames, rd, current + 1, size - 1)
                    /\ ReadyAt(frames, rd, j + 1, size - 1) =
                         ReadyAt(frames, rd, current + 1, size - 1) \ {frames[j]}
    BY <1>1, <1>7, <2>1, <2>2, ScanTurn
  <2> QED
    BY <2>3 DEF rd, j
<1>9. ReadyAt(frames, isReady', current + 1, size - 1) = SlotsInTurn
  <2>1. \A i \in current + 1 .. size - 1 : frames[i] \in Frames /\ frames[i] # cpu
    <3>1. \A i \in current + 1 .. size - 1 : i \in 1 .. size - 1 /\ i # current
      BY <1>1
    <3> QED
      BY <1>1, <3>1
  <2>2. ReadyAt(frames, isReady', current + 1, size - 1) =
          ReadyAt(frames, isReady, current + 1, size - 1)
    BY <1>6, <2>1 DEF ReadyAt
  <2> QED
    BY <1>1, <2>2, TurnIs
<1>10. /\ cpu' = Main => current' = 0
       /\ cpu' # Main => current' # 0 /\ frames[current'] = cpu'
  BY <1>1, <1>2, <1>8 DEF Sched, Position, Main
<1>11. SlotsInTurn' = IF cpu' = Main THEN {}
                      ELSE ReadyAt(frames, isReady', current' + 1, size - 1)
  BY <1>1 DEF SlotsInTurn, ReadyAt
<1>12. /\ \/ cpu' = Main /\ SlotsInTurn = {}
          \/ cpu' \in SlotsInTurn /\ cpu' \in Slots /\ cpu' # cpu
       /\ SlotsInTurn' = SlotsInTurn \ {cpu'}
  BY <1>2, <1>3, <1>6, <1>8, <1>9, <1>10, <1>11
<1>13. \A g \in Slots : SlotStatus'[g] = IF g \notin Live' THEN "free"
                                         ELSE IF g = cpu' THEN "running"
                                         ELSE IF isReady'[g] THEN "ready" ELSE "waiting"
  BY DEF SlotStatus
<1>14. SlotStatus'[cpu] = "waiting"
  BY <1>1, <1>2, <1>3, <1>6, <1>13
<1>15. \A g \in Slots : g # cpu =>
         SlotStatus'[g] = IF g = cpu' THEN "running" ELSE SlotStatus[g]
  BY <1>2, <1>6, <1>13, StatusAt DEF Slots
<1>16. RR!HandOver(cpu, "waiting")
  BY <1>1, <1>12, <1>14, <1>15, HandOverBy
<1>17. SlotAwaits' = [SlotAwaits EXCEPT ![cpu] = ty]
  <2>1. RequestsOf(cpu) = {}
    <3>1. isReady[cpu]
      BY <1>1 DEF SleepInv, Sleep, RunningReady
    <3> QED
      BY <1>1, <3>1 DEF SleepInv, Sleep, Owned, RequestsOf
  <2>2. \A f \in Slots : RequestsOf(f)' = IF f = cpu THEN {e} ELSE RequestsOf(f)
    BY <1>4, <1>5, <2>1 DEF RequestsOf
  <2>3. \A f \in Slots : SlotAwaits'[f] = OpOf(RequestsOf(f)')
    BY DEF SlotAwaits
  <2>4. \A f \in Slots : SlotAwaits[f] = OpOf(RequestsOf(f))
    BY DEF SlotAwaits
  <2>5. OpOf({e}) = ty
    BY <1>5 DEF OpOf
  <2>6. \A f \in Slots : SlotAwaits'[f] = IF f = cpu THEN ty ELSE SlotAwaits[f]
    BY <2>2, <2>3, <2>4, <2>5
  <2>7. DOMAIN SlotAwaits' = Slots /\ DOMAIN SlotAwaits = Slots
        /\ SlotAwaits' = [f \in Slots |-> SlotAwaits'[f]]
        /\ SlotAwaits = [f \in Slots |-> SlotAwaits[f]]
    BY DEF SlotAwaits
  <2> QED
    BY <1>3, <2>6, <2>7
<1>18. SlotAnswer' = SlotAnswer /\ SlotOutcome' = SlotOutcome
  BY <1>1, <1>4, AnswersKept, OutcomeKept
<1>19. (mpc = "freed")' = (mpc = "freed")
  BY <1>1
<1> QED
  BY <1>3, <1>16, <1>17, <1>18, <1>19 DEF RR!Await

(* What a returning coroutine leaves alone.                                *)
LEMMA ReturnKeeps ==
  ASSUME SleepInv, cpu # Main, UNCHANGED <<ioVars, isReady, result, mpc>>,
         Live' = Live \ {cpu}, cpu' # cpu
  PROVE  /\ UNCHANGED <<SlotAwaits, SlotAnswer, SlotOutcome>>
         /\ (mpc = "freed")' = (mpc = "freed")
         /\ SlotStatus'[cpu] = "free"
         /\ cpu' # Main /\ cpu' \in Live' =>
              \A g \in Slots : g # cpu =>
                SlotStatus'[g] = IF g = cpu' THEN "running" ELSE SlotStatus[g]
         /\ cpu' = Main =>
              \A g \in Slots : g # cpu => SlotStatus'[g] = SlotStatus[g]
<1>1. Pending' = Pending /\ Answered' = Answered
  BY PendingKept, AnswersStill DEF SleepInv
<1>2. UNCHANGED <<SlotAwaits, SlotAnswer, SlotOutcome>>
  BY <1>1, RequestsKept, AnswersKept, OutcomeKept
<1>3. \A g \in Slots : SlotStatus'[g] = IF g \notin Live' THEN "free"
                                        ELSE IF g = cpu' THEN "running"
                                        ELSE IF isReady'[g] THEN "ready" ELSE "waiting"
  BY DEF SlotStatus
<1>4. cpu \in Slots
  BY SlotFacts
<1> QED
  BY <1>2, <1>3, <1>4, StatusAt DEF Slots

LEMMA RoundFinishLast ==
  ASSUME RoundInv, FinishLast
  PROVE  RR!HandOver(cpu, "free") /\ UNCHANGED <<SlotAwaits, SlotAnswer, SlotOutcome>>
<1>1. /\ SleepInv /\ ExInv /\ cpu # Main /\ current = size - 1 /\ size \in Nat
      /\ UNCHANGED <<ioVars, isReady, result, mpc>>
  BY LiveFacts DEF RoundInv, SleepInv, HoldInv, ExInv, FinishLast
<1>2. cpu' = Main /\ Live' = Live \ {cpu}
  BY <1>1, SchedFinishLast
<1>3. SlotsInTurn = {} /\ SlotsInTurn' = {}
  <2>1. current + 1 .. size - 1 = {}
    BY <1>1
  <2> QED
    BY <1>1, <1>2, <2>1 DEF SlotsInTurn
<1> QED
  BY <1>1, <1>2, <1>3, ReturnKeeps, HandOverBy, SlotFacts

LEMMA RoundFinishSwap ==
  ASSUME RoundInv, FinishSwap
  PROVE  RR!HandOver(cpu, "free") /\ UNCHANGED <<SlotAwaits, SlotAnswer, SlotOutcome>>
<1> DEFINE fr == frames'
           n == size'
           j == current'
           last == frames[size - 1]
<1>1. /\ SleepInv /\ ExInv /\ cpu # Main /\ size \in 1 .. FrameCapacity
      /\ FrameCapacity \in Nat /\ frames \in [Frames -> Frames] /\ frames[0] = Main
      /\ UNCHANGED <<ioVars, isReady, result, mpc>> /\ isReady[Main]
      /\ fr = SwapWithLast(frames) /\ j = NextAfterSwap(fr, n)
      /\ cpu \in Live /\ Live \subseteq Slots
      /\ \A i, k \in Frames : frames[i] = frames[k] => i = k
  BY LiveFacts, SlotFacts DEF RoundInv, SleepInv, HoldInv, ExInv, FinishSwap, Sched, MainContext
<1>2. /\ Live' = Live \ {cpu} /\ Sched' /\ fr[0] = Main /\ fr \in [Frames -> Frames]
      /\ \A i, k \in Frames : fr[i] = fr[k] => i = k
      /\ n = size - 1 /\ n \in Nat \ {0} /\ current \in 1 .. n - 1 /\ frames[current] = cpu
  BY <1>1, SchedFinishSwap, SwapFacts DEF FramesPermuted
<1>3. /\ cpu' # Main => cpu' \in Live' /\ j \in 1 .. n - 1 /\ fr[j] = cpu'
      /\ cpu' = Main => j = 0 \/ j = n
  <2>1. cpu' # Main => cpu' \in Live' /\ j \in 1 .. n - 1 /\ fr[j] = cpu'
    <3> SUFFICES ASSUME cpu' # Main
                 PROVE  cpu' \in Live' /\ j \in 1 .. n - 1 /\ fr[j] = cpu'
      OBVIOUS
    <3>1. j \in 1 .. n - 1 /\ fr[j] = cpu'
      BY <1>2 DEF Sched, Position, Main
    <3> QED
      BY <3>1 DEF Live
  <2> QED
    BY <1>2, <2>1 DEF Sched, Position, Main
<1>4. cpu' # cpu
  BY <1>1, <1>2, <1>3 DEF Slots
<1>5. /\ fr[current] = last
      /\ \A i \in current + 1 .. size - 2 : fr[i] = frames[i] /\ frames[i] # last
      /\ last \notin {Main, cpu}
  <2>1. /\ current \in Frames /\ size - 1 \in Frames /\ 0 \in Frames
        /\ current # size - 1 /\ size - 1 # 0
        /\ \A i \in current + 1 .. size - 2 : i \in Frames /\ i # current /\ i # size - 1
    BY <1>1, <1>2 DEF Frames
  <2> QED
    BY <1>1, <1>2, <2>1 DEF SwapWithLast
<1>6. SlotsInTurn = ReadyAt(frames, isReady, current + 1, size - 1)
  BY <1>1, TurnIs
<1>7. ReadyAt(frames, isReady, current + 1, size - 1) =
        ReadyAt(fr, isReady, current + 1, n - 1) \cup {f \in {last} : isReady[f]}
  <2>1. n - 1 = size - 2
    BY <1>1, <1>2
  <2>2. ReadyAt(fr, isReady, current + 1, size - 2) =
          ReadyAt(frames, isReady, current + 1, size - 2)
    BY <1>5 DEF ReadyAt
  <2>3. current + 1 .. size - 1 = (current + 1 .. size - 2) \cup {size - 1}
    BY <1>1, <1>2
  <2> HIDE DEF fr, n
  <2> QED
    BY <2>1, <2>2, <2>3 DEF ReadyAt
<1>8. last \notin ReadyAt(fr, isReady, current + 1, n - 1)
  <2>1. n - 1 = size - 2
    BY <1>1, <1>2
  <2> QED
    BY <1>5, <2>1 DEF ReadyAt
<1>9. SlotsInTurn' = IF cpu' = Main THEN {} ELSE ReadyAt(fr, isReady, j + 1, n - 1)
  BY <1>1 DEF SlotsInTurn, ReadyAt
<1> HIDE DEF fr, n, j, last
<1>10. /\ \/ cpu' = Main /\ SlotsInTurn = {}
          \/ cpu' \in SlotsInTurn
       /\ SlotsInTurn' = SlotsInTurn \ {cpu'}
  <2>1. CASE isReady[last]
    <3>1. j = current
      BY <1>1, <1>5, <2>1 DEF NextAfterSwap
    <3>2. cpu' = last
      BY <1>2, <1>3, <1>5, <3>1
    <3> QED
      BY <1>5, <1>6, <1>7, <1>8, <1>9, <2>1, <3>1, <3>2
  <2>2. CASE ~isReady[last]
    <3>1. j = NextReady(fr, n, isReady)
      BY <1>1, <1>5, <2>2 DEF NextAfterSwap
    <3>2. From(n) = current /\ current \in 0 .. n
      BY <1>2 DEF From
    <3>3. \A i, k \in 1 .. n - 1 : fr[i] = fr[k] => i = k
      <4>1. 1 .. n - 1 \subseteq Frames
        BY <1>1, <1>2 DEF Frames
      <4> QED
        BY <1>2, <4>1
    <3>4. /\ j \in 0 .. n - 1
          /\ j = 0 => ReadyAt(fr, isReady, current + 1, n - 1) = {}
          /\ j # 0 => /\ fr[j] \in ReadyAt(fr, isReady, current + 1, n - 1)
                      /\ ReadyAt(fr, isReady, j + 1, n - 1) =
                           ReadyAt(fr, isReady, current + 1, n - 1) \ {fr[j]}
      <4>1. n \in Nat \ {0} /\ fr[0] = Main /\ isReady[Main]
        BY <1>1, <1>2
      <4> QED
        BY <3>1, <3>2, <3>3, <4>1, ScanTurn
    <3>5. /\ cpu' = Main => j = 0
          /\ cpu' # Main => j # 0 /\ fr[j] = cpu'
      BY <1>2, <1>3, <3>4
    <3>6. SlotsInTurn = ReadyAt(fr, isReady, current + 1, n - 1)
      BY <1>6, <1>7, <2>2
    <3> QED
      BY <1>9, <3>4, <3>5, <3>6
  <2> QED
    BY <2>1, <2>2
<1>11. cpu' # Main => cpu' \in Slots
  BY <1>1, <1>2, <1>3
<1>12. /\ UNCHANGED <<SlotAwaits, SlotAnswer, SlotOutcome>>
       /\ SlotStatus'[cpu] = "free"
       /\ cpu' # Main =>
            \A g \in Slots : g # cpu =>
              SlotStatus'[g] = IF g = cpu' THEN "running" ELSE SlotStatus[g]
       /\ cpu' = Main => \A g \in Slots : g # cpu => SlotStatus'[g] = SlotStatus[g]
  BY <1>1, <1>2, <1>3, <1>4, ReturnKeeps
<1>13. \A g \in Slots : g # cpu =>
         SlotStatus'[g] = IF g = cpu' THEN "running" ELSE SlotStatus[g]
  BY <1>12 DEF Slots
<1>14. RR!HandOver(cpu, "free")
  <2>1. Main \notin SlotsInTurn
    <3>1. current \in Nat /\ size \in 1 .. FrameCapacity /\ FrameCapacity \in Nat
      BY <1>1, <1>2
    <3>2. \A i \in current + 1 .. size - 1 : i \in Frames /\ i # 0 /\ 0 \in Frames
      BY <3>1 DEF Frames
    <3> QED
      BY <1>1, <1>6, <3>2 DEF ReadyAt
  <2>2. \/ cpu' = Main /\ SlotsInTurn = {}
        \/ cpu' \in SlotsInTurn /\ cpu' \in Slots /\ cpu' # cpu
    BY <1>4, <1>10, <1>11, <2>1
  <2>3. SlotsInTurn' = SlotsInTurn \ {cpu'}
    BY <1>10
  <2> QED
    BY <1>1, <1>12, <1>13, <2>2, <2>3, HandOverBy
<1> QED
  BY <1>12, <1>14

-----------------------------------------------------------------------------
(* The steps of run() and of the kernel.                                   *)

LEMMA SlotsKept ==
  ASSUME UNCHANGED <<frames, current, size, isReady, cpu>>
  PROVE  UNCHANGED <<SlotStatus, SlotsInTurn, Live>>
<1>1. Live' = Live
  BY DEF Live
<1> QED
  BY <1>1 DEF SlotStatus, SlotsInTurn

LEMMA RoundStutter ==
  ASSUME UNCHANGED <<frames, current, size, isReady, result, cpu, Pending, Answered>>,
         mpc' = "freed" <=> mpc = "freed"
  PROVE  UNCHANGED RR!rrVars
<1>1. UNCHANGED <<SlotStatus, SlotsInTurn, SlotAwaits, SlotAnswer, SlotOutcome>>
  BY SlotsKept, RequestsKept, AnswersKept, OutcomeKept
<1> QED
  BY <1>1 DEF RR!rrVars

LEMMA RoundSwitch ==
  ASSUME RoundInv, RunSwitch
  PROVE  (\E c \in Slots : RR!StartRound(c)) \/ UNCHANGED RR!rrVars
<1> DEFINE j == current'
<1>1. /\ SleepInv /\ HoldInv /\ ExInv /\ cpu = Main
      /\ j = NextReady(frames, size, isReady) /\ mpc = "loop" /\ mpc' = "swapped"
      /\ UNCHANGED <<ioVars, frames, size, isReady, result>>
      /\ current = 0 \/ current = size
      /\ size \in Nat \ {0} /\ frames[0] = Main /\ isReady[Main]
      /\ frames \in [Frames -> Frames] /\ 1 .. size - 1 \subseteq Frames
      /\ \A i, k \in Frames : frames[i] = frames[k] => i = k
      /\ Main \notin Live /\ Live \subseteq Slots
  BY LiveFacts, SlotFacts
     DEF RunSwitch, RoundInv, SleepInv, HoldInv, ExInv, Sched, Position, MainContext
<1>2. Sched' /\ Live' = Live
  BY <1>1, SchedRunSwitch DEF Live
<1>3. From(size) = 0 /\ current \in 0 .. size
  BY <1>1 DEF From
<1> HIDE DEF j
<1>4. /\ j \in 0 .. size - 1
      /\ j # 0 => /\ frames[j] \in ReadyAt(frames, isReady, 1, size - 1)
                  /\ ReadyAt(frames, isReady, j + 1, size - 1) =
                       ReadyAt(frames, isReady, 1, size - 1) \ {frames[j]}
  <2>1. \A i, k \in 1 .. size - 1 : frames[i] = frames[k] => i = k
    BY <1>1
  <2>2. 0 + 1 = 1
    OBVIOUS
  <2> QED
    BY <1>1, <1>3, <2>1, <2>2, ScanTurn
<1>5. cpu' # Main => j # 0 /\ frames[j] = cpu'
  BY <1>1, <1>2, <1>4 DEF Sched, Position, Main, j
<1>6. Pending' = Pending /\ Answered' = Answered
  BY <1>1, PendingKept, AnswersStill
<1>7. UNCHANGED <<SlotAwaits, SlotAnswer, SlotOutcome>>
  BY <1>1, <1>6, RequestsKept, AnswersKept, OutcomeKept
<1>8. (mpc = "freed")' = (mpc = "freed") /\ mpc # "freed"
  BY <1>1
<1>9. SlotsInTurn = {}
  BY <1>1 DEF SlotsInTurn
<1>10. CASE cpu' = Main
  <2>1. SlotStatus' = SlotStatus
    BY <1>1, <1>2, <1>10 DEF SlotStatus
  <2>2. SlotsInTurn' = {}
    BY <1>10 DEF SlotsInTurn
  <2> QED
    BY <1>7, <1>8, <1>9, <2>1, <2>2 DEF RR!rrVars
<1>11. CASE cpu' # Main
  <2>1. /\ RR!Ready = {f \in Live : f # cpu /\ isReady[f]} /\ RR!Running = {}
        /\ SlotStatus \in [Slots -> {"free", "running", "ready", "waiting"}]
    BY <1>1, SlotFacts
  <2>2. RR!Ready = ReadyAt(frames, isReady, 1, size - 1)
    <3>1. Live = {frames[i] : i \in 1 .. size - 1}
      BY DEF Live
    <3> QED
      BY <1>1, <2>1, <3>1 DEF ReadyAt
  <2>3. cpu' \in RR!Ready /\ cpu' \in Slots /\ cpu' \in Live /\ isReady[cpu']
    BY <1>1, <1>4, <1>5, <1>11, <2>1, <2>2
  <2>4. SlotsInTurn' = RR!Ready \ {cpu'}
    <3>1. SlotsInTurn' = ReadyAt(frames, isReady, j + 1, size - 1)
      BY <1>1, <1>11 DEF SlotsInTurn, ReadyAt, j
    <3> QED
      BY <1>4, <1>5, <1>11, <2>2, <3>1
  <2>5. SlotStatus' = [SlotStatus EXCEPT ![cpu'] = "running"]
    <3>1. \A g \in Slots : SlotStatus'[g] = IF g \notin Live THEN "free"
                                            ELSE IF g = cpu' THEN "running"
                                            ELSE IF isReady[g] THEN "ready" ELSE "waiting"
      BY <1>1, <1>2 DEF SlotStatus
    <3>2. \A g \in Slots : g # cpu' => SlotStatus'[g] = SlotStatus[g]
      BY <1>1, <3>1, StatusAt DEF Slots
    <3>3. SlotStatus' \in [Slots -> {"free", "running", "ready", "waiting"}]
      BY DEF SlotStatus
    <3> QED
      BY <2>1, <2>3, <3>1, <3>2, <3>3
  <2> QED
    BY <1>7, <1>8, <2>1, <2>3, <2>4, <2>5 DEF RR!StartRound
<1> QED
  BY <1>10, <1>11

LEMMA RoundAnswer ==
  ASSUME RoundInv, Kernel
  PROVE  \E c \in Slots : \E r \in Results : RR!Answer(c, r)
<1>1. SleepInv /\ HoldInv
  BY DEF RoundInv, SleepInv
<1>2. PICK e \in inflight, r \in Results :
        /\ inflight' = inflight \ {e}
        /\ cq' = Append(cq, [req |-> e, res |-> r])
        /\ UNCHANGED <<tail, avail, token, sq, pc, limit, count, done>>
  BY DEF Kernel, KernelComplete
<1> DEFINE a == [req |-> e, res |-> r]
<1>3. e \in Asked /\ Answered' = Answered \cup {a}
  BY <1>1, <1>2, CompleteAnswers
<1>4. a.req = e /\ a.res = r
  OBVIOUS
<1> HIDE DEF a
<1>5. e \in Pending /\ AnswersTo(e.who) = {}
  BY <1>1, <1>3, AskedUnanswered DEF Pending
<1>6. e.who \in Slots /\ OpOf(RequestsOf(e.who)) = e.op /\ e \in Submission
  BY <1>1, <1>5, OneRequest, SlotFacts
<1>7. SlotAwaits[e.who] # Null
  <2>1. e.op \in RequestType
    BY <1>6 DEF Submission
  <2> QED
    BY <1>6, <2>1, ExecutorAssumption DEF SlotAwaits
<1>8. SlotAnswer[e.who] = Null
  BY <1>5, <1>6 DEF SlotAnswer, ResOf
<1>9. SlotAnswer' = [SlotAnswer EXCEPT ![e.who] = r]
  <2>1. \A f \in Slots : AnswersTo(f)' = IF f = e.who THEN {a} ELSE AnswersTo(f)
    BY <1>3, <1>4, <1>5 DEF AnswersTo
  <2>2. ResOf({a}) = r
    BY <1>4 DEF ResOf
  <2>3. /\ SlotAnswer' = [f \in Slots |-> ResOf(AnswersTo(f)')]
        /\ SlotAnswer = [f \in Slots |-> ResOf(AnswersTo(f))]
    BY DEF SlotAnswer
  <2> QED
    BY <1>6, <2>1, <2>2, <2>3
<1>10. Pending' = Pending /\ UNCHANGED exVars
  BY <1>1, PendingKept DEF Kernel
<1>11. UNCHANGED <<SlotStatus, SlotsInTurn, SlotAwaits, SlotOutcome>> /\ mpc' = mpc
  BY <1>10, SlotsKept, RequestsKept, OutcomeKept DEF exVars
<1> QED
  BY <1>6, <1>7, <1>8, <1>9, <1>11 DEF RR!Answer

LEMMA RoundEnd ==
  ASSUME RoundInv, FreeExecutor
  PROVE  RR!End
<1>1. /\ SleepInv /\ HoldInv /\ FreeIOContext /\ mpc = "returned" /\ mpc' = "freed"
      /\ cpu = Main /\ UNCHANGED <<frames, current, size, isReady, result, cpu>>
  BY DEF RoundInv, SleepInv, Sched, FramesPermuted, Phase, FreeExecutor
<1>2. Pending' = {} /\ Answered' = {}
  BY <1>1, PendingFree, FreeCloses
<1>3. SlotAwaits' = [c \in Slots |-> Null] /\ SlotAnswer' = [c \in Slots |-> Null]
  <2>1. \A f \in Slots : RequestsOf(f)' = {} /\ AnswersTo(f)' = {}
    BY <1>2 DEF RequestsOf, AnswersTo
  <2> QED
    BY <2>1 DEF SlotAwaits, SlotAnswer, OpOf, ResOf
<1>4. RR!Running = {} /\ UNCHANGED <<SlotStatus, SlotsInTurn, SlotOutcome>>
  BY <1>1, SlotFacts, SlotsKept, OutcomeKept
<1> QED
  BY <1>1, <1>3, <1>4 DEF RR!End

LEMMA RoundWake ==
  ASSUME RoundInv, RunCallback
  PROVE  \E c \in Slots : RR!Wake(c)
<1> DEFINE w == Reaped.req.who
<1>1. /\ SleepInv /\ HoldInv /\ ProcessCallback /\ pc = "callback" /\ cpu = Main
      /\ UNCHANGED <<frames, current, size, cpu, mpc>>
      /\ isReady \in [Frames -> BOOLEAN] /\ result \in [Frames -> Int]
      /\ RR!Running = {} /\ Live \subseteq Slots /\ Slots \subseteq Frames /\ Main \notin Slots
      /\ SlotStatus \in [Slots -> {"free", "running", "ready", "waiting"}]
  BY SlotFacts DEF RoundInv, SleepInv, Sched, ExTypes, Phase, RunCallback, ProcessCallback
<1>2. /\ w \in Live /\ ~isReady[w]
      /\ isReady' = [isReady EXCEPT ![w] = TRUE]
      /\ result' = [result EXCEPT ![w] = IF Reaped.req.op = "WAIT" THEN result[w] ELSE Reaped.res]
      /\ Reaped.req \in Pending /\ Pending' = Pending \ {Reaped.req}
      /\ UNCHANGED <<Live, cpu>>
  BY <1>1, CallbackWakes
<1>3. Reaped \in Answered /\ Answered' = Answered \ {Reaped}
  BY <1>1, CallbackCalls
<1>4. /\ RequestsOf(w) = {Reaped.req} /\ OpOf(RequestsOf(w)) = Reaped.req.op
      /\ AnswersTo(w) = {Reaped} /\ ResOf(AnswersTo(w)) = Reaped.res
      /\ Reaped \in Completion
  BY <1>1, <1>2, <1>3, OneRequest, OneAnswer
<1>5. w \in Slots /\ w # cpu
  BY <1>1, <1>2
<1>6. \A f : f # w => RequestsOf(f)' = RequestsOf(f) /\ AnswersTo(f)' = AnswersTo(f)
  BY <1>2, <1>3 DEF RequestsOf, AnswersTo
<1>7. RequestsOf(w)' = {} /\ AnswersTo(w)' = {}
  <2>1. RequestsOf(w)' = RequestsOf(w) \ {Reaped.req}
    BY <1>1, <1>2, PendingCallback DEF RequestsOf
  <2>2. AnswersTo(w)' = AnswersTo(w) \ {Reaped}
    BY <1>1, <1>2, <1>3, PendingCallback DEF AnswersTo
  <2> QED
    BY <1>4, <2>1, <2>2
<1> HIDE DEF w
<1>8. SlotAwaits[w] = Reaped.req.op /\ SlotAnswer[w] = Reaped.res
  BY <1>4, <1>5 DEF SlotAwaits, SlotAnswer
<1>9. SlotAnswer[w] # Null
  <2>1. Reaped.res \in Results
    BY <1>4 DEF Completion
  <2> QED
    BY <1>8, <2>1, ExecutorAssumption
<1>10. SlotStatus' = [SlotStatus EXCEPT ![w] = "ready"]
  <2>1. \A g \in Slots : SlotStatus'[g] = IF g \notin Live THEN "free"
                                          ELSE IF g = cpu THEN "running"
                                          ELSE IF isReady'[g] THEN "ready" ELSE "waiting"
    BY <1>2 DEF SlotStatus
  <2>2. isReady'[w] /\ \A g \in Slots : g # w => isReady'[g] = isReady[g]
    BY <1>1, <1>2, <1>5
  <2>3. \A g \in Slots : SlotStatus'[g] = IF g = w THEN "ready" ELSE SlotStatus[g]
    BY <1>2, <1>5, <2>1, <2>2, StatusAt
  <2>4. SlotStatus' \in [Slots -> {"free", "running", "ready", "waiting"}]
    BY DEF SlotStatus
  <2> QED
    BY <1>1, <1>5, <2>3, <2>4
<1>11. SlotOutcome' = [SlotOutcome EXCEPT ![w] = IF SlotAwaits[w] = "WAIT" THEN @
                                                 ELSE SlotAnswer[w]]
  <2>1. \A g \in Slots : result'[g] = IF g = w /\ SlotAwaits[w] # "WAIT" THEN SlotAnswer[w]
                                      ELSE result[g]
    BY <1>1, <1>2, <1>5, <1>8
  <2>2. /\ SlotOutcome' = [f \in Slots |-> result'[f]]
        /\ SlotOutcome = [f \in Slots |-> result[f]]
    BY DEF SlotOutcome
  <2> QED
    BY <1>5, <2>1, <2>2
<1>12. /\ SlotAwaits' = [SlotAwaits EXCEPT ![w] = Null]
       /\ SlotAnswer' = [SlotAnswer EXCEPT ![w] = Null]
  <2> DEFINE awaiting(f) == OpOf(RequestsOf(f))
             answered(f) == ResOf(AnswersTo(f))
             awaitingNext(f) == OpOf(RequestsOf(f)')
             answeredNext(f) == ResOf(AnswersTo(f)')
  <2>1. /\ SlotAwaits' = [f \in Slots |-> awaitingNext(f)]
        /\ SlotAwaits = [f \in Slots |-> awaiting(f)]
        /\ SlotAnswer' = [f \in Slots |-> answeredNext(f)]
        /\ SlotAnswer = [f \in Slots |-> answered(f)]
    BY DEF SlotAwaits, SlotAnswer
  <2>2. awaitingNext(w) = Null /\ answeredNext(w) = Null
    BY <1>7 DEF OpOf, ResOf
  <2>3. \A f \in Slots : f # w => awaitingNext(f) = awaiting(f) /\ answeredNext(f) = answered(f)
    BY <1>6
  <2> HIDE DEF awaiting, answered, awaitingNext, answeredNext
  <2> QED
    BY <1>5, <2>1, <2>2, <2>3
<1>13. SlotsInTurn' = SlotsInTurn /\ (mpc = "freed")' = (mpc = "freed")
  BY <1>1 DEF SlotsInTurn
<1> QED
  BY <1>1, <1>5, <1>9, <1>10, <1>11, <1>12, <1>13 DEF RR!Wake

LEMMA RoundQuiet ==
  ASSUME RoundInv,
         \/ AsyncExecFull \/ AsyncOpRefused \/ Ended \/ UNCHANGED vars
         \/ RunStart \/ RunBreak \/ RunSubmit \/ RunFails \/ RunReap \/ RunAdvance
  PROVE  UNCHANGED RR!rrVars
<1>1. HoldInv /\ (mpc = "freed" => pc \in {"freed", "aborted"})
  BY DEF RoundInv, SleepInv
<1>2. UNCHANGED <<frames, current, size, isReady, result, cpu>>
  BY DEF AsyncExecFull, AsyncOpRefused, Ended, RunStart, RunBreak, RunSubmit, RunFails,
     RunReap, RunAdvance, vars, exVars
<1>3. mpc' = "freed" <=> mpc = "freed"
  <2>1. CASE AsyncExecFull \/ AsyncOpRefused \/ Ended \/ UNCHANGED vars \/ RunReap
    BY <2>1 DEF AsyncExecFull, AsyncOpRefused, Ended, RunReap, vars, exVars
  <2>2. CASE RunStart \/ RunBreak \/ RunSubmit \/ RunFails
    BY <2>2 DEF RunStart, RunBreak, RunSubmit, RunFails
  <2>3. CASE RunAdvance
    BY <1>1, <2>3 DEF RunAdvance, ProcessAdvance, Advance
  <2> QED
    BY <2>1, <2>2, <2>3
<1>4. \/ UNCHANGED ioVars
      \/ ProcessSubmit(BatchSize)
      \/ ProcessPeek \/ ProcessWait \/ ProcessWaitFails
      \/ ProcessRelease \/ ProcessAdvance
  BY DEF AsyncExecFull, AsyncOpRefused, RequestRefused, Ended, RunStart, RunBreak, RunSubmit,
     RunFails, ProcessSubmitFails, RunReap, RunAdvance, vars
<1>5. Pending' = Pending /\ Answered' = Answered
  BY <1>1, <1>4, PendingKept, AnswersStill, ExConstants
<1> QED
  BY <1>2, <1>3, <1>5, RoundStutter

-----------------------------------------------------------------------------
LEMMA RoundInit == Init => RR!RRInit
<1> SUFFICES ASSUME Init PROVE RR!RRInit
  OBVIOUS
<1>1. Live = {} /\ cpu = Main /\ mpc # "freed" /\ result = [f \in Frames |-> 0]
  BY DEF Init, Live
<1>2. Asked = {} /\ Answered = {}
  <2>1. CS!CSInit
    BY ServiceInit DEF Init
  <2> QED
    BY <2>1 DEF CS!CSInit
<1>3. \A f : RequestsOf(f) = {} /\ AnswersTo(f) = {}
  BY <1>2 DEF RequestsOf, AnswersTo, Pending
<1>4. /\ SlotAwaits = [c \in Slots |-> Null]
      /\ SlotAnswer = [c \in Slots |-> Null]
  BY <1>3 DEF SlotAwaits, SlotAnswer, OpOf, ResOf
<1>5. /\ SlotStatus = [c \in Slots |-> "free"]
      /\ SlotsInTurn = {}
      /\ SlotOutcome = [c \in Slots |-> 0]
  BY <1>1 DEF SlotStatus, SlotsInTurn, SlotOutcome, Slots
<1> QED
  BY <1>1, <1>4, <1>5 DEF RR!RRInit

LEMMA RoundNext == RoundInv /\ [Next]_vars => [RR!RRNext]_(RR!rrVars)
<1> SUFFICES ASSUME RoundInv, [Next]_vars PROVE RR!RRNext \/ UNCHANGED RR!rrVars
  OBVIOUS
<1>1. CASE AsyncExec
  BY <1>1, RoundSpawn DEF RR!RRNext
<1>2. CASE \E ty \in Ops : AsyncOp(ty)
  BY <1>2, RoundAwait DEF RR!RRNext
<1>3. CASE FinishLast \/ FinishSwap
  <2>1. RR!HandOver(cpu, "free") /\ UNCHANGED <<SlotAwaits, SlotAnswer, SlotOutcome>>
    BY <1>3, RoundFinishLast, RoundFinishSwap
  <2>2. cpu \in Slots /\ mpc' = mpc
    BY <1>3, SlotFacts DEF RoundInv, FinishLast, FinishSwap
  <2>3. RR!Return(cpu)
    BY <2>1, <2>2 DEF RR!Return
  <2> QED
    BY <2>2, <2>3 DEF RR!RRNext
<1>4. CASE RunSwitch
  BY <1>4, RoundSwitch DEF RR!RRNext
<1>5. CASE RunCallback
  BY <1>5, RoundWake DEF RR!RRNext
<1>6. CASE Kernel
  BY <1>6, RoundAnswer DEF RR!RRNext
<1>7. CASE FreeExecutor
  BY <1>7, RoundEnd DEF RR!RRNext
<1>8. CASE \/ AsyncExecFull \/ AsyncOpRefused \/ Ended \/ UNCHANGED vars
           \/ RunStart \/ RunBreak \/ RunSubmit \/ RunFails \/ RunReap \/ RunAdvance
  BY <1>8, RoundQuiet
<1> QED
  BY <1>1, <1>2, <1>3, <1>4, <1>5, <1>6, <1>7, <1>8 DEF Next, Yield, Run

(* The index arithmetic of the scan, the swapping of returned frames, the  *)
(* contexts, tokens and rings together implement RoundRobin: rounds in     *)
(* which nobody ready is skipped and nobody runs twice, and an answer for  *)
(* each coroutine that awaits an operation, delivered to it alone.         *)
THEOREM ExecutorIsRoundRobin == Spec => RunsInRounds
  BY RoundInit, RoundNext, RoundAlways, PTL DEF Spec, RunsInRounds, RR!RRSpec
=============================================================================

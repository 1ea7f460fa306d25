---------------------------- MODULE SleepProofs ----------------------------
(***************************************************************************)
(* Who sleeps, who wakes and when run() may block: proofs about Executor   *)
(* that need both its scheduling (ExecutorProofs) and what its I/O context *)
(* promises (IOContextProofs), for every number of frames and tokens.     *)
(***************************************************************************)
EXTENDS ExecutorProofs

(* What the steps of process() and of the kernel do to the requests that   *)
(* are still to be called back.                                            *)

LEMMA PendingRequest ==
  ASSUME HoldInv, NEW ty \in RequestType, NEW d \in Data, Request(ty, d)
  PROVE  /\ Pending' = Pending \cup {[tok |-> avail[tail - 1], op |-> ty, who |-> d]}
         /\ ~Closed'
  BY RequestAsks DEF Pending

(* No two completions, and no completion and an unanswered request, are    *)
(* about the same request.                                                 *)
LEMMA PendingCallback ==
  ASSUME HoldInv, ProcessCallback
  PROVE  /\ Reaped.req \in Pending
         /\ Pending' = Pending \ {Reaped.req}
         /\ Names(token, Reaped.req)
         /\ UNCHANGED <<Reaped, Closed>>
<1>1. /\ Reaped \in Answered /\ Answered' = Answered \ {Reaped}
      /\ UNCHANGED <<Asked, Closed>>
  BY CallbackCalls
<1>2. TypeInv /\ Distinct /\ Described /\ pc = "callback" /\ UNCHANGED <<cq, done>>
  BY DEF HoldInv, ProcessCallback
<1>3. done + 1 \in UnhandledPlaces /\ Reaped = cq[done + 1] /\ Reaped' = Reaped
  BY <1>2, PlaceTypes DEF TypeInv, BatchProgress, UnhandledPlaces, Reaped
<1>4. ASSUME NEW c \in Answered, c # Reaped PROVE c.req # Reaped.req
  <2>1. PICK i \in UnhandledPlaces : c = cq[i]
    BY <1>2, AnsweredFacts
  <2>2. i # done + 1 /\ i \in CqPlaces /\ done + 1 \in CqPlaces
    BY <1>2, <1>3, <1>4, <2>1, AnsweredFacts
  <2>3. cq[i].req.tok # cq[done + 1].req.tok
    BY <1>2, <2>2 DEF Distinct
  <2> QED
    BY <1>3, <2>1, <2>3
<1>5. ASSUME NEW e \in Asked PROVE e # Reaped.req
  <2>1. \/ \E i \in SqPlaces : e = sq[i]
        \/ e \in inflight
    BY AskedIs
  <2>2. done + 1 \in CqPlaces
    BY <1>2, <1>3, AnsweredFacts
  <2> QED
    BY <1>2, <1>3, <2>1, <2>2 DEF Distinct
<1>6. Pending' = Pending \ {Reaped.req}
  <2>1. Pending' = Asked \cup {c.req : c \in Answered \ {Reaped}}
    BY <1>1 DEF Pending
  <2>2. Pending = Asked \cup {c.req : c \in Answered}
    BY DEF Pending
  <2> QED
    BY <1>4, <1>5, <2>1, <2>2
<1>7. Reaped.req \in Pending
  BY <1>1 DEF Pending
<1>8. Names(token, Reaped.req)
  BY <1>2, <1>3 DEF Described
<1> QED
  BY <1>1, <1>3, <1>6, <1>7, <1>8

LEMMA PendingKept ==
  ASSUME HoldInv,
         \/ UNCHANGED ioVars
         \/ \E batch \in BatchSizes : ProcessSubmit(batch)
         \/ ProcessPeek \/ ProcessWait \/ ProcessWaitFails
         \/ ProcessRelease \/ ProcessAdvance \/ KernelComplete
  PROVE  UNCHANGED <<Pending, Closed>>
<1>1. ASSUME UNCHANGED <<Asked, Answered, Closed>> PROVE UNCHANGED <<Pending, Closed>>
  BY <1>1 DEF Pending
<1>2. CASE UNCHANGED ioVars
  BY <1>1, <1>2, StillKeeps DEF ioVars
<1>3. ASSUME NEW batch \in BatchSizes, ProcessSubmit(batch)
      PROVE  UNCHANGED <<Pending, Closed>>
  BY <1>1, <1>3, SubmitKeeps
<1>4. CASE ProcessPeek
  <2>1. done' = done
    BY <1>4, PlaceTypes DEF ProcessPeek, HoldInv, TypeInv, BatchProgress
  <2> QED
    BY <1>1, <1>4, <2>1, StillKeeps DEF ProcessPeek
<1>5. CASE ProcessWait
  BY <1>1, <1>5, StillKeeps DEF ProcessWait
<1>6. CASE ProcessWaitFails
  BY <1>1, <1>6, StillKeeps DEF ProcessWaitFails
<1>7. CASE ProcessRelease
  BY <1>1, <1>7, ReleaseReturns
<1>8. CASE ProcessAdvance
  BY <1>1, <1>8, AdvanceKeeps
<1>9. CASE KernelComplete
  <2>1. PICK e \in inflight, r \in Results :
          /\ inflight' = inflight \ {e}
          /\ cq' = Append(cq, [req |-> e, res |-> r])
          /\ UNCHANGED <<tail, avail, token, sq, pc, limit, count, done>>
    BY <1>9 DEF KernelComplete
  <2> DEFINE c == [req |-> e, res |-> r]
  <2>2. /\ e \in Asked /\ Asked' = Asked \ {e}
        /\ Answered' = Answered \cup {c} /\ Closed' = Closed
    BY <2>1, CompleteAnswers
  <2>3. c.req = e
    OBVIOUS
  <2> HIDE DEF c
  <2>4. /\ Pending = Asked \cup {x.req : x \in Answered}
        /\ Pending' = (Asked \ {e}) \cup {x.req : x \in Answered \cup {c}}
    BY <2>2 DEF Pending
  <2> QED
    BY <2>2, <2>3, <2>4
<1> QED
  BY <1>2, <1>3, <1>4, <1>5, <1>6, <1>7, <1>8, <1>9

LEMMA PendingFree ==
  ASSUME HoldInv, FreeIOContext
  PROVE  Pending' = {} /\ Closed'
  BY FreeCloses DEF Pending

-----------------------------------------------------------------------------
(* Sleepers and requests pair off.                                         *)

Owned == \A e \in Pending : e.who \in Live /\ ~isReady[e.who]
OnePerFrame == \A e, f \in Pending : e.who = f.who => e = f
Awaited == ~Closed => \A f \in Live : ~isReady[f] => \E e \in Pending : e.who = f
RunningReady == cpu # Main => isReady[cpu]

Sleep == Owned /\ OnePerFrame /\ Awaited /\ RunningReady

SleepInv == HoldInv /\ Sched /\ Sleep

LEMMA SleepInit == Init => Sleep
<1> SUFFICES ASSUME Init PROVE Sleep
  OBVIOUS
<1>1. Pending = {}
  <2>1. CS!CSInit
    BY ServiceInit DEF Init
  <2> QED
    BY <2>1 DEF CS!CSInit, Pending
<1>2. Live = {} /\ cpu = Main
  BY DEF Init, Live
<1> QED
  BY <1>1, <1>2 DEF Sleep, Owned, OnePerFrame, Awaited, RunningReady

(* Steps that neither suspend nor wake anybody, nor make a request.        *)
LEMMA SleepKept ==
  ASSUME Sleep, UNCHANGED <<Pending, Closed, Live, isReady>>, cpu' # Main => isReady[cpu']
  PROVE  Sleep'
  BY DEF Sleep, Owned, OnePerFrame, Awaited, RunningReady, Main

LEMMA SleepAsyncExec ==
  ASSUME SleepInv, AsyncExec
  PROVE  Sleep'
<1> DEFINE f == frames[size]
<1>1. /\ isReady' = [isReady EXCEPT ![f] = TRUE] /\ UNCHANGED <<ioVars, cpu>>
      /\ isReady \in [Frames -> BOOLEAN]
  BY DEF AsyncExec, SleepInv, Sched, ExTypes
<1>2. f \in Frames /\ f \notin Live /\ Live' = Live \cup {f}
  BY SchedAsyncExec DEF SleepInv, ExInv, HoldInv
<1> HIDE DEF f
<1>3. Pending' = Pending /\ Closed' = Closed
  BY <1>1, PendingKept DEF SleepInv
<1>4. isReady'[f] /\ \A g \in Live : isReady'[g] = isReady[g]
  BY <1>1, <1>2, LiveFacts DEF SleepInv
<1>5. cpu # Main => cpu \in Live
  BY LiveFacts DEF SleepInv
<1> QED
  BY <1>1, <1>2, <1>3, <1>4, <1>5
     DEF SleepInv, Sleep, Owned, OnePerFrame, Awaited, RunningReady, Main

LEMMA SleepAsyncOp ==
  ASSUME SleepInv, NEW ty \in Ops, AsyncOp(ty)
  PROVE  Sleep'
<1> DEFINE e == [tok |-> avail[tail - 1], op |-> ty, who |-> cpu]
<1>1. /\ cpu # Main /\ frames[current] = cpu /\ cpu \in Live /\ cpu \in Frames
      /\ Request(ty, cpu)
      /\ isReady' = [isReady EXCEPT ![cpu] = FALSE]
      /\ UNCHANGED <<frames, size>>
      /\ isReady \in [Frames -> BOOLEAN] /\ Live \subseteq Frames
  BY LiveFacts DEF AsyncOp, SleepInv, Sched, Position, ExTypes
<1>2. Pending' = Pending \cup {e} /\ ~Closed'
  BY <1>1, PendingRequest, ExConstants DEF SleepInv
<1>3. Live' = Live
  BY <1>1 DEF Live
<1>4. isReady'[cpu']
  BY SchedAsyncOp DEF SleepInv, ExInv, HoldInv
<1>5. e.who = cpu
  OBVIOUS
<1> HIDE DEF e
<1>6. ~isReady'[cpu] /\ (\A g \in Live : g # cpu => isReady'[g] = isReady[g]) /\ isReady[cpu]
  BY <1>1 DEF SleepInv, Sleep, RunningReady
<1>7. \A x \in Pending : x.who # cpu /\ x.who \in Live /\ ~isReady[x.who]
  BY <1>6 DEF SleepInv, Sleep, Owned
<1>8. Owned' /\ OnePerFrame' /\ RunningReady'
  BY <1>1, <1>2, <1>3, <1>4, <1>5, <1>6, <1>7
     DEF SleepInv, Sleep, Owned, OnePerFrame, RunningReady
<1>9. Awaited'
  <2>1. ~Closed
    BY <1>1 DEF Request, CallerRuns, Closed
  <2> QED
    BY <1>2, <1>3, <1>5, <1>6, <2>1 DEF SleepInv, Sleep, Awaited
<1> QED
  BY <1>8, <1>9 DEF Sleep

LEMMA SleepFinish ==
  ASSUME SleepInv, FinishLast \/ FinishSwap
  PROVE  Sleep'
<1>1. cpu # Main /\ UNCHANGED <<ioVars, isReady>>
  BY DEF FinishLast, FinishSwap
<1>2. Live' = Live \ {cpu} /\ (cpu' # Main => isReady[cpu'])
  BY SchedFinishLast, SchedFinishSwap, SwapFacts DEF SleepInv, ExInv, HoldInv
<1>3. Pending' = Pending /\ Closed' = Closed
  BY <1>1, PendingKept DEF SleepInv
<1> QED
  BY <1>1, <1>2, <1>3 DEF SleepInv, Sleep, Owned, OnePerFrame, Awaited, RunningReady, Main

(* A callback wakes the frame whose request was answered, and that one     *)
(* only.                                                                   *)
LEMMA CallbackWakes ==
  ASSUME SleepInv, RunCallback
  PROVE  /\ Reaped.req.who \in Live /\ ~isReady[Reaped.req.who]
         /\ isReady' = [isReady EXCEPT ![Reaped.req.who] = TRUE]
         /\ result' = [result EXCEPT ![Reaped.req.who] =
                         IF Reaped.req.op = "WAIT" THEN result[Reaped.req.who] ELSE Reaped.res]
         /\ Reaped.req \in Pending /\ Pending' = Pending \ {Reaped.req}
         /\ UNCHANGED <<Reaped, Closed, Live, cpu>>
<1>1. ProcessCallback /\ UNCHANGED <<frames, size, cpu>>
  BY DEF RunCallback
<1>2. /\ Reaped.req \in Pending /\ Pending' = Pending \ {Reaped.req}
      /\ Names(token, Reaped.req) /\ UNCHANGED <<Reaped, Closed>>
  BY <1>1, PendingCallback DEF SleepInv
<1>3. token[Reaped.req.tok].type = Reaped.req.op /\ token[Reaped.req.tok].data = Reaped.req.who
  BY <1>2 DEF Names
<1>4. Live' = Live
  BY <1>1 DEF Live
<1>5. Reaped.req.who \in Live /\ ~isReady[Reaped.req.who]
  BY <1>2 DEF SleepInv, Sleep, Owned
<1>6. /\ isReady' = [isReady EXCEPT ![Reaped.req.who] = TRUE]
      /\ result' = [result EXCEPT ![Reaped.req.who] =
                      IF Reaped.req.op = "WAIT" THEN result[Reaped.req.who] ELSE Reaped.res]
  BY <1>3 DEF RunCallback
<1> QED
  BY <1>1, <1>2, <1>4, <1>5, <1>6

LEMMA SleepCallback ==
  ASSUME SleepInv, RunCallback
  PROVE  Sleep'
<1> DEFINE w == Reaped.req.who
<1>1. /\ w \in Live /\ isReady' = [isReady EXCEPT ![w] = TRUE]
      /\ Reaped.req \in Pending /\ Pending' = Pending \ {Reaped.req}
      /\ UNCHANGED <<Closed, Live, cpu>>
  BY CallbackWakes
<1>2. isReady \in [Frames -> BOOLEAN] /\ Live \subseteq Frames /\ (cpu # Main => cpu \in Live)
  BY LiveFacts DEF SleepInv, Sched, ExTypes
<1>3. \A e \in Pending : e.who = w => e = Reaped.req
  BY <1>1 DEF SleepInv, Sleep, OnePerFrame
<1> HIDE DEF w
<1>4. isReady'[w] /\ \A g \in Live : g # w => isReady'[g] = isReady[g]
  BY <1>1, <1>2
<1>5. Owned'
  BY <1>1, <1>3, <1>4 DEF SleepInv, Sleep, Owned
<1>6. Awaited'
  <2> SUFFICES ASSUME ~Closed, NEW f \in Live, ~isReady'[f]
               PROVE  \E e \in Pending' : e.who = f
    BY <1>1 DEF Awaited
  <2>1. f # w /\ ~isReady[f]
    BY <1>4
  <2>2. PICK e \in Pending : e.who = f
    BY <2>1 DEF SleepInv, Sleep, Awaited
  <2>3. e # Reaped.req
    BY <2>1, <2>2 DEF w
  <2> QED
    BY <1>1, <2>2, <2>3
<1>7. OnePerFrame' /\ RunningReady'
  BY <1>1, <1>2, <1>4 DEF SleepInv, Sleep, OnePerFrame, RunningReady, Main
<1> QED
  BY <1>5, <1>6, <1>7 DEF Sleep

LEMMA SleepFree ==
  ASSUME SleepInv, FreeExecutor
  PROVE  Sleep'
<1>1. FreeIOContext /\ UNCHANGED <<isReady, cpu>> /\ mpc = "returned"
  BY DEF FreeExecutor, SleepInv, Sched, FramesPermuted
<1>2. cpu = Main
  BY <1>1 DEF SleepInv, Sched, Phase
<1> QED
  BY <1>1, <1>2, PendingFree DEF SleepInv, Sleep, Owned, OnePerFrame, Awaited, RunningReady, Main

LEMMA SleepNext == SleepInv /\ [Next]_vars => Sleep'
<1> SUFFICES ASSUME SleepInv, [Next]_vars PROVE Sleep'
  OBVIOUS
<1>1. ASSUME UNCHANGED <<frames, size, isReady, cpu, Pending, Closed>> PROVE Sleep'
  <2>1. Live' = Live
    BY <1>1 DEF Live
  <2> QED
    BY <1>1, <2>1, SleepKept DEF SleepInv, Sleep, RunningReady
<1>2. CASE AsyncExec
  BY <1>2, SleepAsyncExec
<1>3. CASE Yield
  BY <1>3, SleepAsyncOp, SleepFinish DEF Yield
<1>4. CASE AsyncExecFull \/ AsyncOpRefused \/ Ended \/ UNCHANGED vars
  <2>1. UNCHANGED ioVars /\ UNCHANGED <<frames, size, isReady, cpu>>
    BY <1>4 DEF AsyncExecFull, AsyncOpRefused, RequestRefused, Ended, vars, exVars
  <2> QED
    BY <1>1, <2>1, PendingKept DEF SleepInv
<1>5. CASE RunStart \/ RunBreak
  <2>1. UNCHANGED ioVars /\ UNCHANGED <<frames, size, isReady, cpu>>
    BY <1>5 DEF RunStart, RunBreak
  <2> QED
    BY <1>1, <2>1, PendingKept DEF SleepInv
<1>6. CASE RunSwitch
  <2>1. UNCHANGED ioVars /\ UNCHANGED <<frames, size, isReady>>
    BY <1>6 DEF RunSwitch
  <2>2. cpu' # Main => isReady[cpu']
    BY <1>6, SchedRunSwitch DEF SleepInv, ExInv, HoldInv
  <2>3. Live' = Live
    BY <2>1 DEF Live
  <2> QED
    BY <2>1, <2>2, <2>3, PendingKept, SleepKept DEF SleepInv
<1>7. CASE RunSubmit
  <2>1. ProcessSubmit(BatchSize) /\ UNCHANGED <<frames, size, isReady, cpu>>
    BY <1>7 DEF RunSubmit
  <2> QED
    BY <1>1, <2>1, PendingKept, ExConstants DEF SleepInv
<1>8. CASE RunFails
  <2>1. UNCHANGED ioVars \/ ProcessWaitFails
    BY <1>8 DEF RunFails, ProcessSubmitFails
  <2>2. UNCHANGED <<frames, size, isReady, cpu>>
    BY <1>8 DEF RunFails
  <2> QED
    BY <1>1, <2>1, <2>2, PendingKept DEF SleepInv
<1>9. CASE RunReap
  <2>1. ProcessPeek \/ ProcessWait \/ ProcessRelease
    BY <1>9 DEF RunReap
  <2>2. UNCHANGED <<frames, size, isReady, cpu>>
    BY <1>9 DEF RunReap, exVars
  <2> QED
    BY <1>1, <2>1, <2>2, PendingKept DEF SleepInv
<1>10. CASE RunCallback
  BY <1>10, SleepCallback
<1>11. CASE RunAdvance
  BY <1>1, <1>11, PendingKept DEF SleepInv, RunAdvance
<1>12. CASE Kernel
  <2>1. KernelComplete /\ UNCHANGED <<frames, size, isReady, cpu>>
    BY <1>12 DEF Kernel, exVars
  <2> QED
    BY <1>1, <2>1, PendingKept DEF SleepInv
<1>13. CASE FreeExecutor
  BY <1>13, SleepFree
<1> QED
  BY <1>2, <1>3, <1>4, <1>5, <1>6, <1>7, <1>8, <1>9, <1>10, <1>11, <1>12, <1>13
     DEF Next, Run

LEMMA SleepAlways == Spec => []SleepInv
<1>1. Spec => [](HoldInv /\ Sched)
  <2>1. ExInv => Sched
    BY DEF ExInv
  <2> QED
    BY <2>1, UsesIOContext, HoldAlways, ExAlways, PTL
<1>2. HoldInv /\ Sched /\ Sleep <=> SleepInv
  BY DEF SleepInv
<1> QED
  BY <1>1, <1>2, SleepInit, SleepNext, PTL DEF Spec

(* A live frame that is not ready has exactly one pending request; every   *)
(* other frame has none.                                                   *)
THEOREM SleepersAwaitTheirOwn == Spec => []SleepsOnOwnRequest
<1>1. SleepInv => SleepsOnOwnRequest
  <2> SUFFICES ASSUME SleepInv, ~Closed, NEW f \in Frames
               PROVE  Cardinality(RequestsOf(f)) = IF f \in Live /\ ~isReady[f] THEN 1 ELSE 0
    BY DEF SleepsOnOwnRequest, Closed, RequestsOf
  <2>1. Owned /\ OnePerFrame /\ Awaited
    BY DEF SleepInv, Sleep
  <2>2. CASE f \in Live /\ ~isReady[f]
    <3>1. PICK e \in Pending : e.who = f
      BY <2>1, <2>2 DEF Awaited
    <3>2. RequestsOf(f) = {e}
      BY <2>1, <3>1 DEF OnePerFrame, RequestsOf
    <3> QED
      BY <2>2, <3>2, FS_Singleton
  <2>3. CASE ~(f \in Live /\ ~isReady[f])
    <3>1. RequestsOf(f) = {}
      BY <2>1, <2>3 DEF Owned, RequestsOf
    <3> QED
      BY <2>3, <3>1, FS_EmptySet
  <2> QED
    BY <2>2, <2>3
<1> QED
  BY <1>1, SleepAlways, PTL

(* A coroutine is woken, and its result written, only by the completion of *)
(* the request it sleeps on, with the kernel's answer to it.               *)
THEOREM WokenOnlyByOwn == Spec => WokenByOwnCompletion
<1> DEFINE Woken(f) == (isReady'[f] # isReady[f] /\ isReady'[f]) \/ result'[f] # result[f]
           ByOwn(f) == /\ pc = "callback" /\ Reaped.req.who = f /\ ~isReady[f]
                       /\ Reaped.req.op # "WAIT" => result'[f] = Reaped.res
<1>1. ASSUME SleepInv, [Next]_vars PROVE [\A f \in Live : Woken(f) => ByOwn(f)]_vars
  <2> SUFFICES ASSUME NEW f \in Live, Woken(f) PROVE ByOwn(f)
    OBVIOUS
  <2>1. /\ isReady \in [Frames -> BOOLEAN] /\ result \in [Frames -> Int]
        /\ Live \subseteq Frames
    BY <1>1, LiveFacts DEF SleepInv, Sched, ExTypes
  <2>2. CASE UNCHANGED <<isReady, result>>
    BY <2>2
  <2>3. CASE AsyncExec
    <3>1. frames[size] # f
      BY <1>1, <2>3, SchedAsyncExec DEF SleepInv, ExInv, HoldInv
    <3>2. isReady'[f] = isReady[f] /\ result' = result
      BY <2>1, <2>3, <3>1 DEF AsyncExec
    <3> QED
      BY <3>2
  <2>4. ASSUME NEW ty \in Ops, AsyncOp(ty) PROVE ByOwn(f)
    <3>1. (isReady'[f] => isReady[f]) /\ result' = result
      BY <2>1, <2>4 DEF AsyncOp
    <3> QED
      BY <2>1, <3>1
  <2>5. CASE RunCallback
    <3> DEFINE w == Reaped.req.who
    <3>1. /\ w \in Live /\ ~isReady[w]
          /\ isReady' = [isReady EXCEPT ![w] = TRUE]
          /\ result' = [result EXCEPT ![w] =
                          IF Reaped.req.op = "WAIT" THEN result[w] ELSE Reaped.res]
      BY <1>1, <2>5, CallbackWakes
    <3>2. pc = "callback"
      BY <2>5 DEF RunCallback, ProcessCallback
    <3> HIDE DEF w
    <3>3. f = w
      BY <2>1, <3>1
    <3>4. Reaped.req.op # "WAIT" => result'[f] = Reaped.res
      BY <2>1, <3>1, <3>3
    <3> QED
      BY <3>1, <3>2, <3>3, <3>4 DEF w
  <2>6. CASE Next /\ ~AsyncExec /\ ~RunCallback /\ ~\E ty \in Ops : AsyncOp(ty)
    <3>1. UNCHANGED <<isReady, result>>
      BY <2>6 DEF Next, Yield, Run, AsyncExecFull, AsyncOpRefused, FinishLast, FinishSwap,
           RunStart, RunSwitch, RunBreak, RunSubmit, RunFails, RunReap, RunAdvance,
           Kernel, FreeExecutor, Ended, vars, exVars
    <3> QED
      BY <2>2, <3>1
  <2>7. CASE UNCHANGED vars
    BY <2>2, <2>7 DEF vars, exVars
  <2> QED
    BY <1>1, <2>3, <2>4, <2>5, <2>6, <2>7
<1>2. SleepInv /\ [Next]_vars => [\A f \in Live : Woken(f) => ByOwn(f)]_vars
  BY <1>1
<1> QED
  BY <1>2, SleepAlways, PTL DEF Spec, WokenByOwnCompletion

-----------------------------------------------------------------------------
(* Enough tokens.  The requests pending have owners of their own, none of  *)
(* them the main frame or one that is ready; so with as many tokens as     *)
(* frames there are always two tokens more than requests pending while     *)
(* anybody is ready, and slot 0 of the stack never comes to be written.    *)

LEMMA OwnersBound ==
  ASSUME SleepInv, NEW x \in Live, isReady[x],
         NEW T \in SUBSET Tokens, \A t \in T : \E e \in Pending : e.tok = t
  PROVE  Cardinality(T) \in Nat /\ Cardinality(T) <= FrameCapacity - 2
<1> DEFINE req(t) == CHOOSE e \in Pending : e.tok = t
           F == Frames \ {Main, x}
           owner == [t \in T |-> req(t).who]
<1>1. \A t \in T : req(t) \in Pending /\ req(t).tok = t
  OBVIOUS
<1>2. Owned /\ OnePerFrame /\ Live \subseteq Frames /\ Main \notin Live
  BY LiveFacts DEF SleepInv, Sleep
<1> HIDE DEF req
<1>3. owner \in [T -> F]
  BY <1>1, <1>2 DEF Owned
<1>4. \A s, t \in T : owner[s] = owner[t] => s = t
  BY <1>1, <1>2 DEF OnePerFrame
<1>5. IsFiniteSet(F) /\ Cardinality(F) = FrameCapacity - 2
  <2>1. IsFiniteSet(Frames) /\ Cardinality(Frames) = FrameCapacity
    <3>1. 0 \in Int /\ FrameCapacity - 1 \in Int /\ FrameCapacity \in Nat \ {0, 1}
      BY ExConstants
    <3>2. /\ IsFiniteSet(0 .. FrameCapacity - 1)
          /\ Cardinality(0 .. FrameCapacity - 1) =
               IF 0 > FrameCapacity - 1 THEN 0 ELSE FrameCapacity - 1 - 0 + 1
      BY <3>1, FS_Interval
    <3> QED
      BY <3>1, <3>2 DEF Frames
  <2>2. /\ IsFiniteSet(Frames \ {Main})
        /\ Cardinality(Frames \ {Main}) =
             IF Main \in Frames THEN Cardinality(Frames) - 1 ELSE Cardinality(Frames)
    BY <2>1, FS_RemoveElement
  <2>3. /\ IsFiniteSet((Frames \ {Main}) \ {x})
        /\ Cardinality((Frames \ {Main}) \ {x}) =
             IF x \in Frames \ {Main} THEN Cardinality(Frames \ {Main}) - 1
                                      ELSE Cardinality(Frames \ {Main})
    BY <2>2, FS_RemoveElement
  <2>4. F = (Frames \ {Main}) \ {x} /\ x \in Frames \ {Main}
    BY <1>2
  <2> QED
    BY <2>1, <2>2, <2>3, <2>4, ExConstants
<1> HIDE DEF F, owner
<1>6. owner \in Injection(T, F)
  BY <1>3, <1>4 DEF Injection, IsInjective
<1>7. IsFiniteSet(T) /\ Cardinality(T) <= Cardinality(F)
  BY <1>5, <1>6, FS_Injection
<1> QED
  BY <1>5, <1>7, FS_CardinalityType

(* The owner of the request whose callback is being made is ready.         *)
CalledIsReady == pc = "release" => Reaped.req.who \in Live /\ isReady[Reaped.req.who]
Bottom == FrameCapacity <= Capacity => avail[0] = BaseToken /\ pc # "aborted"

Enough == CalledIsReady /\ Bottom

(* Somebody ready and one token at most unaccounted for: not all are out.  *)
LEMMA NeverDry ==
  ASSUME SleepInv, FrameCapacity <= Capacity, NEW x \in Live, isReady[x],
         NEW r \in Tokens,
         \A t \in Tokens \ {r} : (\E i \in FreePlaces : avail[i] = t)
                                \/ \E e \in Pending : e.tok = t
  PROVE  tail > 0
<1>1. tail \in 0 .. Capacity /\ Capacity \in Nat \ {0}
  BY PlaceTypes DEF SleepInv, HoldInv
<1> SUFFICES ASSUME tail = 0 PROVE FALSE
  BY <1>1
<1>2. FreePlaces = {}
  BY DEF FreePlaces
<1>3. Tokens \ {r} \in SUBSET Tokens /\ \A t \in Tokens \ {r} : \E e \in Pending : e.tok = t
  BY <1>2
<1>4. Cardinality(Tokens \ {r}) <= FrameCapacity - 2
  BY <1>3, OwnersBound
<1>5. Cardinality(Tokens \ {r}) = Capacity - 1
  <2>1. Cardinality(Tokens \ {r}) =
          IF r \in Tokens THEN Cardinality(Tokens) - 1 ELSE Cardinality(Tokens)
    BY CardTokens, FS_RemoveElement
  <2> QED
    BY <2>1, CardTokens
<1> QED
  BY <1>1, <1>4, <1>5, ExConstants

(* Every token is in the bag or with a pending request, except that of the *)
(* callback being made.                                                    *)
LEMMA TokensPlaced ==
  ASSUME HoldInv, ~Closed, NEW t \in Tokens
  PROVE  \/ \E i \in FreePlaces : avail[i] = t
         \/ \E e \in Pending : e.tok = t
         \/ pc = "release" /\ t = Reaped.req.tok
<1>1. Held(t) /\ TypeInv
  BY DEF HoldInv, Conserved, Closed
<1>2. ASSUME NEW i \in SqPlaces, sq[i].tok = t PROVE \E e \in Pending : e.tok = t
  BY <1>2, AskedIs DEF Pending
<1>3. ASSUME NEW e \in inflight, e.tok = t PROVE \E f \in Pending : f.tok = t
  BY <1>3, AskedIs DEF Pending
<1>4. ASSUME NEW i \in UnhandledPlaces, cq[i].req.tok = t
      PROVE  (\E e \in Pending : e.tok = t) \/ (pc = "release" /\ t = Reaped.req.tok)
  <2>1. CASE i \in AnsweredPlaces
    <3>1. cq[i] \in Answered
      BY <1>1, <2>1, AnsweredFacts
    <3> QED
      BY <1>4, <3>1 DEF Pending
  <2>2. CASE i \notin AnsweredPlaces
    <3>1. pc = "release" /\ i = done + 1
      <4>1. pc # "release" => UnhandledPlaces = AnsweredPlaces
        BY <1>1, AnsweredFacts DEF AnsweredPlaces, UnhandledPlaces
      <4> QED
        BY <1>1, <2>2, <4>1, AnsweredFacts
    <3> QED
      BY <1>4, <3>1 DEF Reaped
  <2> QED
    BY <2>1, <2>2
<1> QED
  BY <1>1, <1>2, <1>3, <1>4 DEF Held

LEMMA RunningHasToken ==
  ASSUME SleepInv, FrameCapacity <= Capacity, cpu # Main
  PROVE  tail > 0
<1>1. cpu \in Live /\ isReady[cpu] /\ pc = "idle"
  BY LiveFacts DEF SleepInv, Sleep, RunningReady, Sched, Phase
<1>2. 0 \in Tokens
  BY CapacityAssumption DEF Tokens
<1> QED
  BY <1>1, <1>2, TokensPlaced, NeverDry DEF SleepInv, Closed

LEMMA EnoughNext == SleepInv /\ Enough /\ [Next]_vars => Enough'
<1> SUFFICES ASSUME SleepInv, Enough, [Next]_vars PROVE Enough'
  OBVIOUS
<1>0. [IONext]_ioVars /\ TypeInv /\ Phase
  BY IOStep DEF SleepInv, HoldInv, Sched
<1>1. CalledIsReady'
  <2> SUFFICES ASSUME pc' = "release"
               PROVE  Reaped'.req.who \in Live' /\ isReady'[Reaped'.req.who]
    BY DEF CalledIsReady
  <2>1. CASE pc = "release"
    <3>1. mpc \notin {"setup", "loop", "swapped", "returned"} /\ cpu = Main
      BY <1>0, <2>1 DEF Phase
    <3>2. UNCHANGED <<frames, size, isReady>> /\ (KernelComplete \/ UNCHANGED <<cq, done>>)
      BY <2>1, <3>1
         DEF Next, Yield, Run, AsyncExec, UserCode, AsyncExecFull, AsyncOp, AsyncOpRefused,
             FinishLast, FinishSwap, RunStart, RunSwitch, RunBreak, RunSubmit, RunFails,
             RunReap, ProcessPeek, ProcessWait, ProcessRelease, RunCallback, ProcessCallback,
             RunAdvance, ProcessAdvance, Advance, ProcessWaitFails, Kernel, FreeExecutor,
             Ended, vars, exVars, ioVars
    <3>3. Reaped' = Reaped
      <4>1. CASE UNCHANGED <<cq, done>>
        BY <4>1 DEF Reaped
      <4>2. CASE KernelComplete
        <5>1. PICK e \in inflight, r \in Results :
                cq' = Append(cq, [req |-> e, res |-> r]) /\ done' = done
          BY <4>2 DEF KernelComplete
        <5>2. [req |-> e, res |-> r] \in Completion /\ cq \in Seq(Completion)
          BY <1>0, PlaceTypes DEF Completion, TypeInv, IOTypeOK
        <5>3. done + 1 \in 1 .. Len(cq)
          BY <1>0, <2>1, AnsweredFacts DEF CqPlaces
        <5>4. cq'[done + 1] = cq[done + 1]
          BY <5>1, <5>2, <5>3, AppendProperties
        <5> QED
          BY <5>1, <5>4 DEF Reaped
      <4> QED
        BY <3>2, <4>1, <4>2
    <3>4. Live' = Live
      BY <3>2 DEF Live
    <3> QED
      BY <2>1, <3>2, <3>3, <3>4 DEF Enough, CalledIsReady
  <2>2. CASE pc # "release"
    <3>1. RunCallback
      BY <2>2
         DEF Next, Yield, Run, AsyncExec, AsyncExecFull, AsyncOp, Request, AsyncOpRefused,
             RequestRefused, FinishLast, FinishSwap, RunStart, RunSwitch, RunBreak, RunSubmit,
             ProcessSubmit, RunFails, ProcessSubmitFails, ProcessWaitFails, RunReap,
             ProcessPeek, ProcessWait, ProcessRelease, RunAdvance, ProcessAdvance, Advance,
             Kernel, KernelComplete, FreeExecutor, FreeIOContext, Ended, vars, exVars, ioVars
    <3>2. /\ Reaped.req.who \in Live /\ isReady' = [isReady EXCEPT ![Reaped.req.who] = TRUE]
          /\ UNCHANGED <<Reaped, Live>>
      BY <3>1, CallbackWakes
    <3>3. isReady \in [Frames -> BOOLEAN] /\ Live \subseteq Frames
      BY LiveFacts DEF SleepInv, Sched, ExTypes
    <3> QED
      BY <3>2, <3>3
  <2> QED
    BY <2>1, <2>2
<1>2. Bottom'
  <2> SUFFICES ASSUME FrameCapacity <= Capacity
               PROVE  avail'[0] = BaseToken /\ pc' # "aborted"
    BY DEF Bottom
  <2>1. avail[0] = BaseToken /\ pc # "aborted"
    BY DEF Enough, Bottom
  <2>2. CASE ProcessRelease
    <3>1. pc = "release" /\ pc' # "aborted" /\ ReleaseToken(Reaped.req.tok)
      BY <2>2 DEF ProcessRelease
    <3>2. Reaped.req.who \in Live /\ isReady[Reaped.req.who]
      BY <3>1 DEF Enough, CalledIsReady
    <3>3. Reaped.req.tok \in Tokens
      BY <1>0, <3>1, AnsweredFacts, PlaceTypes DEF Reaped
    <3>4. tail > 0
      BY <3>1, <3>2, <3>3, TokensPlaced, NeverDry DEF SleepInv, Closed
    <3>5. avail \in [Tokens -> Tokens] /\ tail \in 0 .. Capacity
      BY <1>0 DEF TypeInv, IOTypeOK
    <3>6. avail'[0] = avail[0]
      <4> DEFINE t == Reaped.req.tok
      <4> HIDE DEF t
      <4>1. ReleaseToken(t) /\ 0 \in Tokens
        BY <3>1, CapacityAssumption DEF Tokens, t
      <4>2. CASE tail = Capacity
        BY <4>1, <4>2 DEF ReleaseToken
      <4>3. CASE tail # Capacity
        BY <3>4, <3>5, <4>1, <4>3 DEF ReleaseToken
      <4> QED
        BY <4>2, <4>3
    <3> QED
      BY <2>1, <3>1, <3>6
  <2>3. CASE ~ProcessRelease
    <3>1. avail' = avail /\ (pc' = "aborted" => pc = "aborted" \/ avail[0] # BaseToken)
      BY <1>0, <2>3
         DEF IONext, Request, RequestRefused, ProcessSubmit, ProcessSubmitFails, ProcessPeek,
             ProcessWait, ProcessWaitFails, ProcessCallback, ProcessAdvance, Advance,
             KernelComplete, FreeIOContext, ioVars
    <3> QED
      BY <2>1, <3>1
  <2> QED
    BY <2>2, <2>3
<1> QED
  BY <1>1, <1>2 DEF Enough

(* With as many tokens as frames, as every program of the repository has,  *)
(* no operation is ever refused, and the pointer free_io_context frees the *)
(* tokens by is the one they were allocated at.                            *)
THEOREM TokensAlwaysSuffice == Spec => []TokensSuffice
<1>1. Init => Enough
  <2>1. Init => 0 \in Tokens
    BY CapacityAssumption DEF Tokens
  <2> QED
    BY <2>1 DEF Init, IOInit, Enough, CalledIsReady, Bottom, BaseToken
<1>2. SleepInv /\ Enough => TokensSuffice
  BY RunningHasToken DEF TokensSuffice, Enough, Bottom
<1> QED
  BY <1>1, <1>2, EnoughNext, SleepAlways, PTL DEF Spec

-----------------------------------------------------------------------------
(* When run() blocks.  The scan visits the live places in order, so that   *)
(* when it comes to the main frame nobody it passed was ready.             *)

(* The place the scan starts from: after the last coroutine returned the   *)
(* index is one past the live places, which comes to the same as place 0.  *)
From(n) == IF current = n THEN 0 ELSE current

LEMMA ModRound ==
  ASSUME NEW n \in Nat \ {0}, NEW a \in 0 .. n - 1
  PROVE  a % n = a /\ (n + a) % n = a
<1>1. a % n = a
  OBVIOUS
<1>2. (n + a) % n = a
  OBVIOUS
<1> QED
  BY <1>1, <1>2

LEMMA ScanOrder ==
  ASSUME NEW n \in Nat \ {0}, current \in 0 .. n,
         NEW fr, NEW rd, fr[0] = Main, rd[Main]
  PROVE  /\ NextReady(fr, n, rd) \in {0} \cup (From(n) + 1 .. n - 1)
         /\ \A i \in From(n) + 1 .. n - 1 :
              NextReady(fr, n, rd) = 0 \/ i < NextReady(fr, n, rd) => ~rd[fr[i]]
<1> DEFINE K == {k \in 1 .. n : rd[fr[(current + k) % n]]}
           m == Min(K)
           s == From(n)
<1>1. s \in 0 .. n - 1
  BY DEF From
<1>2. ASSUME NEW k \in 1 .. n - s PROVE (current + k) % n = IF k = n - s THEN 0 ELSE s + k
  <2>1. CASE current = n /\ k = n
    BY <2>1, ModFacts DEF From
  <2>2. CASE current = n /\ k # n
    <3>1. k \in 0 .. n - 1 /\ s = 0
      BY <1>2, <2>2 DEF From
    <3> QED
      BY <2>2, <3>1, ModRound
  <2>3. CASE current # n /\ k = n - current
    <3>1. current + k = n /\ s = current
      BY <2>3 DEF From
    <3> QED
      BY <2>3, <3>1, ModFacts
  <2>4. CASE current # n /\ k # n - current
    <3>1. current + k \in 0 .. n - 1 /\ s = current
      BY <1>2, <2>4 DEF From
    <3> QED
      BY <2>4, <3>1, ModRound
  <2> QED
    BY <2>1, <2>2, <2>3, <2>4
<1> HIDE DEF s
<1>3. n - s \in K
  <2>1. n - s \in 1 .. n /\ n - s \in 1 .. n - s
    BY <1>1
  <2> QED
    BY <1>2, <2>1
<1>4. K \in SUBSET Nat /\ K # {}
  BY <1>3
<1>5. m \in K /\ \A k \in K : m <= k
  BY <1>4, MinFacts
<1>6. NextReady(fr, n, rd) = (current + m) % n
  BY DEF NextReady
<1>7. m \in 1 .. n - s
  BY <1>1, <1>3, <1>5
<1>8. NextReady(fr, n, rd) = IF m = n - s THEN 0 ELSE s + m
  BY <1>2, <1>6, <1>7
<1>9. ASSUME NEW i \in s + 1 .. n - 1, m = n - s \/ i < s + m PROVE ~rd[fr[i]]
  <2>1. i - s \in 1 .. n - s /\ i - s # n - s /\ s + (i - s) = i /\ ~(m <= i - s)
    BY <1>1, <1>7, <1>9
  <2>2. (current + (i - s)) % n = i
    BY <1>2, <2>1
  <2>3. i - s \notin K
    BY <1>5, <2>1
  <2>4. i - s \in 1 .. n
    BY <1>1, <2>1
  <2> QED
    BY <2>2, <2>3, <2>4
<1> HIDE DEF m
<1> QED
  BY <1>1, <1>7, <1>8, <1>9 DEF s

Behind == cpu # Main => \A i \in 1 .. current - 1 : ~isReady[frames[i]]
AllAsleep == cpu = Main /\ mpc \in {"swapped", "process", "freed"} /\ pc \in {"idle", "peek", "wait"}
               => \A f \in Live : ~isReady[f]
KernelOwes == pc \in {"peek", "wait"} => inflight # {} \/ cq # << >>

Order == Behind /\ AllAsleep /\ KernelOwes

(* A scan over the n live places of a frame array that ends at the main    *)
(* frame, or passes them up to the place it ends at.                       *)
LEMMA ScanPasses ==
  ASSUME NEW n \in Nat \ {0}, current \in 0 .. n, NEW fr, NEW rd, fr[0] = Main, rd[Main],
         \A i \in 1 .. From(n) : ~rd[fr[i]],
         NEW j, j = NextReady(fr, n, rd)
  PROVE  /\ \A i \in 1 .. j - 1 : ~rd[fr[i]]
         /\ j = 0 => \A i \in 1 .. n - 1 : ~rd[fr[i]]
         /\ j \in 0 .. n - 1
<1>1. /\ j \in {0} \cup (From(n) + 1 .. n - 1)
      /\ \A i \in From(n) + 1 .. n - 1 : j = 0 \/ i < j => ~rd[fr[i]]
  BY ScanOrder
<1>2. From(n) \in 0 .. n - 1
  BY DEF From
<1>3. \A i \in 1 .. n - 1 : i \in 1 .. From(n) \/ i \in From(n) + 1 .. n - 1
  BY <1>2
<1>4. j = 0 \/ j \in 1 .. n - 1
  BY <1>1, <1>2
<1>5. \A i \in 1 .. j - 1 : i \in 1 .. n - 1 /\ i < j
  BY <1>4
<1> QED
  BY <1>1, <1>3, <1>4, <1>5

LEMMA OrderAsyncOp ==
  ASSUME SleepInv, Order, NEW ty \in Ops, AsyncOp(ty)
  PROVE  Order'
<1>1. /\ cpu # Main /\ frames[current] = cpu /\ current \in 1 .. size - 1
      /\ size \in Nat \ {0} /\ frames \in [Frames -> Frames] /\ frames[0] = Main
      /\ 1 .. size - 1 \subseteq Frames
      /\ isReady \in [Frames -> BOOLEAN] /\ isReady[Main]
      /\ isReady' = [isReady EXCEPT ![cpu] = FALSE]
      /\ current' = NextReady(frames, size, isReady')
      /\ UNCHANGED <<frames, size, mpc>> /\ pc' = pc /\ pc = "idle"
  <2>1. Request(ty, frames[current])
    BY DEF AsyncOp
  <2>2. pc' = pc
    BY <2>1 DEF Request
  <2> QED
    BY <2>2, LiveFacts DEF AsyncOp, SleepInv, Sched, Position, ExTypes, MainContext, Phase
<1>2. Sched'
  BY SchedAsyncOp DEF SleepInv, ExInv, HoldInv
<1>3. From(size) = current /\ current \in 0 .. size
  BY <1>1 DEF From
<1>4. \A i \in 1 .. current : ~isReady'[frames[i]]
  <2> SUFFICES ASSUME NEW i \in 1 .. current PROVE ~isReady'[frames[i]]
    OBVIOUS
  <2>1. frames[i] \in Frames /\ (i = current \/ i \in 1 .. current - 1)
    BY <1>1
  <2> QED
    BY <1>1, <2>1 DEF Order, Behind
<1>5. isReady'[Main]
  BY <1>1, ExConstants
<1>6. /\ \A i \in 1 .. current' - 1 : ~isReady'[frames[i]]
      /\ current' = 0 => \A i \in 1 .. size - 1 : ~isReady'[frames[i]]
      /\ current' \in 0 .. size - 1
  BY <1>1, <1>3, <1>4, <1>5, ScanPasses
<1>7. Behind'
  BY <1>1, <1>6 DEF Behind
<1>8. AllAsleep'
  <2> SUFFICES ASSUME cpu' = Main PROVE \A f \in Live' : ~isReady'[f]
    BY DEF AllAsleep
  <2>1. current' = 0
    BY <1>1, <1>2, <1>6 DEF Sched, Position, Main
  <2> QED
    BY <1>1, <1>6, <2>1 DEF Live
<1> QED
  BY <1>1, <1>7, <1>8 DEF Order, KernelOwes

LEMMA OrderFinishLast ==
  ASSUME SleepInv, Order, FinishLast
  PROVE  Order'
<1>1. /\ cpu # Main /\ current = size - 1 /\ size' = size - 1 /\ size \in Nat
      /\ UNCHANGED <<ioVars, frames, isReady>> /\ pc = "idle"
  BY LiveFacts DEF FinishLast, SleepInv, Sched, Phase
<1>2. cpu' = Main
  BY SchedFinishLast DEF SleepInv, ExInv, HoldInv
<1>3. \A f \in Live' : ~isReady[f]
  BY <1>1 DEF Order, Behind, Live
<1> QED
  BY <1>1, <1>2, <1>3 DEF Order, Behind, AllAsleep, KernelOwes, ioVars, Main

LEMMA OrderFinishSwap ==
  ASSUME SleepInv, Order, FinishSwap
  PROVE  Order'
<1>1. /\ cpu # Main /\ UNCHANGED <<ioVars, isReady, mpc>> /\ pc = "idle"
      /\ frames' = SwapWithLast(frames) /\ current' = NextAfterSwap(frames', size')
      /\ isReady[Main] /\ frames \in [Frames -> Frames] /\ FrameCapacity \in Nat
      /\ size \in 1 .. FrameCapacity
  BY LiveFacts DEF FinishSwap, SleepInv, Sched, Phase, MainContext
<1>2. /\ Sched'
      /\ frames' \in [Frames -> Frames] /\ frames'[0] = Main
      /\ size' = size - 1 /\ size' \in Nat \ {0} /\ current \in 1 .. size' - 1
  BY SchedFinishSwap, SwapFacts DEF SleepInv, ExInv, HoldInv, FramesPermuted
<1>3. \A i \in 1 .. current - 1 : ~isReady[frames'[i]]
  <2> SUFFICES ASSUME NEW i \in 1 .. current - 1 PROVE ~isReady[frames'[i]]
    OBVIOUS
  <2>1. i \in Frames /\ i # current /\ i # size - 1
    <3>1. size \in 1 .. FrameCapacity /\ FrameCapacity \in Nat /\ current \in 1 .. size - 2
      BY <1>1, <1>2
    <3> QED
      BY <3>1 DEF Frames
  <2>2. frames'[i] = frames[i]
    BY <1>1, <2>1 DEF SwapWithLast
  <2> QED
    BY <1>1, <2>2 DEF Order, Behind
<1>4. /\ \A i \in 1 .. current' - 1 : ~isReady[frames'[i]]
      /\ current' = 0 => \A i \in 1 .. size' - 1 : ~isReady[frames'[i]]
      /\ current' \in 0 .. size' - 1
  <2>1. CASE isReady[frames'[current]]
    <3>1. current' = current
      BY <1>1, <2>1 DEF NextAfterSwap
    <3> QED
      BY <1>2, <1>3, <3>1
  <2>2. CASE ~isReady[frames'[current]]
    <3>1. current' = NextReady(frames', size', isReady)
      BY <1>1, <2>2 DEF NextAfterSwap
    <3>2. From(size') = current /\ current \in 0 .. size'
      BY <1>2 DEF From
    <3>3. \A i \in 1 .. current : i = current \/ i \in 1 .. current - 1
      BY <1>2
    <3>4. \A i \in 1 .. From(size') : ~isReady[frames'[i]]
      BY <1>3, <2>2, <3>2, <3>3
    <3> DEFINE fr == frames'
               n == size'
               j == current'
    <3>5. /\ n \in Nat \ {0} /\ current \in 0 .. n /\ fr[0] = Main
          /\ j = NextReady(fr, n, isReady)
          /\ \A i \in 1 .. From(n) : ~isReady[fr[i]]
      BY <1>2, <3>1, <3>2, <3>4
    <3> HIDE DEF fr, n, j
    <3>6. /\ \A i \in 1 .. j - 1 : ~isReady[fr[i]]
          /\ j = 0 => \A i \in 1 .. n - 1 : ~isReady[fr[i]]
          /\ j \in 0 .. n - 1
      BY <1>1, <3>5, ScanPasses
    <3> QED
      BY <3>6 DEF fr, n, j
  <2> QED
    BY <2>1, <2>2
<1>5. Behind'
  BY <1>1, <1>4 DEF Behind
<1>6. AllAsleep'
  <2> SUFFICES ASSUME cpu' = Main PROVE \A f \in Live' : ~isReady'[f]
    BY DEF AllAsleep
  <2>1. current' = 0
    BY <1>2, <1>4 DEF Sched, Position, Main
  <2> QED
    BY <1>1, <1>4, <2>1 DEF Live
<1> QED
  BY <1>1, <1>5, <1>6 DEF Order, KernelOwes, ioVars

LEMMA OrderRunSwitch ==
  ASSUME SleepInv, Order, RunSwitch
  PROVE  Order'
<1>1. /\ current' = NextReady(frames, size, isReady)
      /\ UNCHANGED <<ioVars, frames, size, isReady>> /\ pc = "idle"
      /\ current = 0 \/ current = size
      /\ size \in Nat \ {0} /\ frames[0] = Main /\ isReady[Main]
  BY LiveFacts DEF RunSwitch, SleepInv, Sched, Position, Phase, MainContext
<1>2. Sched'
  BY SchedRunSwitch DEF SleepInv, ExInv, HoldInv
<1>3. From(size) = 0 /\ current \in 0 .. size
  BY <1>1 DEF From
<1>4. \A i \in 1 .. From(size) : ~isReady[frames[i]]
  BY <1>3
<1>5. /\ \A i \in 1 .. current' - 1 : ~isReady[frames[i]]
      /\ current' = 0 => \A i \in 1 .. size - 1 : ~isReady[frames[i]]
      /\ current' \in 0 .. size - 1
  BY <1>1, <1>3, <1>4, ScanPasses
<1>6. Behind'
  BY <1>1, <1>5 DEF Behind
<1>7. AllAsleep'
  <2> SUFFICES ASSUME cpu' = Main PROVE \A f \in Live' : ~isReady'[f]
    BY DEF AllAsleep
  <2>1. current' = 0
    BY <1>1, <1>2, <1>5 DEF Sched, Position, Main
  <2> QED
    BY <1>1, <1>5, <2>1 DEF Live
<1> QED
  BY <1>1, <1>6, <1>7 DEF Order, KernelOwes, ioVars

(* When run() calls process() somebody sleeps, so a request is on its way: *)
(* submitting leaves something with the kernel, if nothing is answered.    *)
LEMMA OrderRunSubmit ==
  ASSUME SleepInv, Order, RunSubmit
  PROVE  Order'
<1>1. /\ cpu = Main /\ mpc = "swapped" /\ size > 1 /\ ProcessSubmit(BatchSize)
      /\ UNCHANGED <<frames, current, size, isReady, cpu>>
      /\ pc = "idle" /\ pc' = "peek"
  BY DEF RunSubmit, ProcessSubmit
<1>2. \A f \in Live : ~isReady[f]
  BY <1>1 DEF Order, AllAsleep
<1>3. Pending # {}
  <2>1. 1 \in 1 .. size - 1 /\ frames[1] \in Live
    BY <1>1, LiveFacts DEF SleepInv
  <2> QED
    BY <1>1, <1>2, <2>1 DEF SleepInv, Sleep, Awaited, Closed
<1>4. inflight' # {} \/ cq' # << >>
  <2> SUFFICES ASSUME cq = << >> PROVE inflight' # {}
    BY <1>1 DEF ProcessSubmit
  <2>1. PICK k \in SubmitCounts : inflight' = inflight \cup {sq[i] : i \in 1 .. k}
    BY <1>1 DEF ProcessSubmit
  <2>2. CASE sq # << >>
    <3>1. Len(sq) \in Nat
      BY PlaceTypes DEF SleepInv, HoldInv
    <3>2. 1 \in 1 .. k
      BY <2>2, <3>1 DEF SubmitCounts
    <3> QED
      BY <2>1, <3>2
  <2>3. CASE sq = << >>
    <3>1. SqPlaces = {} /\ CqPlaces = {}
      BY <2>3, EmptySeq DEF SqPlaces, CqPlaces
    <3>2. Answered = {}
      BY <3>1, AnsweredFacts DEF SleepInv, HoldInv
    <3>3. inflight # {}
      BY <1>3, <3>1, <3>2, AskedIs DEF Pending
    <3> QED
      BY <2>1, <3>3
  <2> QED
    BY <2>2, <2>3
<1>5. Live' = Live
  BY <1>1 DEF Live
<1> QED
  BY <1>1, <1>2, <1>4, <1>5 DEF Order, Behind, AllAsleep, KernelOwes, Main

LEMMA OrderNext == SleepInv /\ Order /\ [Next]_vars => Order'
<1> SUFFICES ASSUME SleepInv, Order, [Next]_vars PROVE Order'
  OBVIOUS
<1> USE DEF Order
<1>0. Phase
  BY DEF SleepInv, Sched
<1>1. ASSUME UNCHANGED <<frames, current, size, isReady, cpu>>,
             \/ UNCHANGED <<mpc, pc>>
             \/ mpc' \notin {"swapped", "process", "freed"}
             \/ pc = "peek" /\ pc' = "wait" /\ mpc' = mpc
             \/ pc' \notin {"idle", "peek", "wait"},
             KernelOwes'
      PROVE  Order'
  BY <1>1 DEF Behind, AllAsleep, Live, Main
<1>2. CASE AsyncExec
  <2> DEFINE f == frames[size]
  <2>1. /\ isReady' = [isReady EXCEPT ![f] = TRUE]
        /\ UNCHANGED <<ioVars, frames, current, cpu, mpc>>
        /\ cpu # Main \/ mpc = "setup"
        /\ isReady \in [Frames -> BOOLEAN]
    BY <1>2 DEF AsyncExec, UserCode, SleepInv, Sched, ExTypes
  <2>2. f \notin Live
    BY <1>2, SchedAsyncExec DEF SleepInv, ExInv, HoldInv
  <2> HIDE DEF f
  <2>3. ASSUME cpu # Main, NEW i \in 1 .. current - 1 PROVE ~isReady'[frames[i]]
    <3>1. i \in 1 .. size - 1
      BY <2>3, LiveFacts DEF SleepInv, Sched, Position
    <3>2. frames[i] \in Frames /\ frames[i] # f
      BY <2>2, <3>1, LiveFacts DEF SleepInv
    <3>3. ~isReady[frames[i]]
      BY <2>3 DEF Behind
    <3> QED
      BY <2>1, <3>2, <3>3
  <2>4. Behind'
    BY <2>1, <2>3 DEF Behind, Main
  <2> QED
    BY <2>1, <2>4 DEF AllAsleep, KernelOwes, ioVars, Main
<1>3. CASE Yield
  BY <1>3, OrderAsyncOp, OrderFinishLast, OrderFinishSwap DEF Yield
<1>4. CASE AsyncExecFull \/ AsyncOpRefused \/ Ended \/ UNCHANGED vars
  <2>1. UNCHANGED ioVars /\ UNCHANGED <<frames, current, size, isReady, cpu, mpc>>
    BY <1>4 DEF AsyncExecFull, AsyncOpRefused, RequestRefused, Ended, vars, exVars
  <2> QED
    BY <1>1, <2>1 DEF KernelOwes, ioVars
<1>5. CASE RunStart \/ RunBreak
  BY <1>1, <1>5 DEF RunStart, RunBreak, KernelOwes, ioVars
<1>6. CASE RunSwitch
  BY <1>6, OrderRunSwitch
<1>7. CASE RunSubmit
  BY <1>7, OrderRunSubmit
<1>8. CASE RunFails
  BY <1>1, <1>8 DEF RunFails, ProcessSubmitFails, ProcessWaitFails, KernelOwes, ioVars
<1>9. CASE RunReap
  <2>1. UNCHANGED <<frames, current, size, isReady, cpu, mpc>>
    BY <1>9 DEF RunReap, exVars
  <2>2. UNCHANGED <<inflight, cq>>
    BY <1>9 DEF RunReap, ProcessPeek, ProcessWait, ProcessRelease
  <2>3. (pc = "peek" /\ pc' = "wait") \/ pc' \notin {"idle", "peek", "wait"}
    BY <1>9 DEF RunReap, ProcessPeek, ProcessWait, ProcessRelease
  <2> QED
    BY <1>1, <2>1, <2>2, <2>3 DEF KernelOwes
<1>10. CASE RunCallback
  <2>1. pc = "callback" /\ pc' = "release" /\ cpu' = cpu
    BY <1>10 DEF RunCallback, ProcessCallback
  <2>2. cpu = Main
    BY <1>0, <2>1 DEF Phase
  <2> QED
    BY <2>1, <2>2 DEF Behind, AllAsleep, KernelOwes, Main
<1>11. CASE RunAdvance
  BY <1>1, <1>11 DEF RunAdvance, ProcessAdvance, Advance, KernelOwes
<1>12. CASE Kernel
  <2>1. PICK e \in inflight, r \in Results :
          cq' = Append(cq, [req |-> e, res |-> r]) /\ pc' = pc
    BY <1>12 DEF Kernel, KernelComplete
  <2>2. UNCHANGED <<frames, current, size, isReady, cpu, mpc>>
    BY <1>12 DEF Kernel, exVars
  <2>3. cq' # << >>
    <3>1. [req |-> e, res |-> r] \in Completion /\ cq \in Seq(Completion) /\ Len(cq) \in Nat
      BY PlaceTypes DEF SleepInv, HoldInv, TypeInv, IOTypeOK, Completion
    <3>2. Len(cq') = Len(cq) + 1
      BY <2>1, <3>1, AppendProperties
    <3> QED
      BY <3>1, <3>2, EmptySeq
  <2> QED
    BY <1>1, <2>1, <2>2, <2>3 DEF KernelOwes
<1>13. CASE FreeExecutor
  <2>1. /\ FreeIOContext /\ mpc' = "freed"
        /\ UNCHANGED <<frames, current, size, isReady, cpu>>
    BY <1>13 DEF FreeExecutor, SleepInv, Sched, FramesPermuted
  <2>2. pc' \in {"freed", "aborted"}
    BY <2>1 DEF FreeIOContext
  <2> QED
    BY <1>1, <2>1, <2>2 DEF KernelOwes
<1> QED
  BY <1>2, <1>3, <1>4, <1>5, <1>6, <1>7, <1>8, <1>9, <1>10, <1>11, <1>12, <1>13
     DEF Next, Run

(* run() waits in the kernel only when every coroutine sleeps and the      *)
(* kernel has something to answer: no ready coroutine is held up by the    *)
(* wait, and the wait is not for nothing.                                  *)
THEOREM BlocksWithReason == Spec => []BlocksOnlyWithReason
<1>1. Init => Order
  BY DEF Init, IOInit, Order, Behind, AllAsleep, KernelOwes
<1>2. SleepInv /\ Order => BlocksOnlyWithReason
  <2> SUFFICES ASSUME SleepInv, Order, pc = "wait"
               PROVE  (\A f \in Live : ~isReady[f]) /\ (inflight # {} \/ cq # << >>)
    BY DEF BlocksOnlyWithReason
  <2>1. cpu = Main /\ mpc \notin {"setup", "loop", "swapped", "returned"}
    BY DEF SleepInv, Sched, Phase
  <2>2. mpc = "process" \/ mpc = "freed"
    BY <2>1 DEF SleepInv, Sched, ExTypes
  <2> QED
    BY <2>1, <2>2 DEF Order, AllAsleep, KernelOwes
<1> QED
  BY <1>1, <1>2, OrderNext, SleepAlways, PTL DEF Spec
=============================================================================

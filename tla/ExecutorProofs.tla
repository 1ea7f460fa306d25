--------------------------- MODULE ExecutorProofs ---------------------------
(***************************************************************************)
(* Proofs about Executor, for every number of frames and tokens.           *)
(*                                                                         *)
(* The argument is one inductive invariant, ExInv: where the index is      *)
(* relative to the processor, what each frame's context is, and in which   *)
(* phase run() is.  That every step of the executor is a step of the I/O   *)
(* context, or leaves it alone, then brings over all that IOContextProofs  *)
(* proves.                                                                 *)
(***************************************************************************)
EXTENDS Executor, IOContextProofs, WellFoundedInduction

(* A set of naturals that is not empty has a least element, and Min is it. *)
LEMMA MinFacts ==
  ASSUME NEW S \in SUBSET Nat, S # {}
  PROVE  Min(S) \in S /\ \A x \in S : Min(S) <= x
<1> DEFINE R == {ss \in Nat \X Nat : ss[1] < ss[2]}
<1>1. IsWellFoundedOn(R, Nat)
  BY NatLessThanWellFounded DEF OpToRel
<1> HIDE DEF R
<1>2. PICK x \in S : \A y \in S : ~ (<<y, x>> \in R)
  BY <1>1, WFMin
<1>3. \A y \in S : x <= y
  <2> SUFFICES ASSUME NEW y \in S PROVE x <= y
    OBVIOUS
  <2>1. <<y, x>> \notin R
    BY <1>2
  <2> QED
    BY <2>1 DEF R
<1> QED
  BY <1>3 DEF Min

LEMMA ModFacts ==
  ASSUME NEW n \in Nat \ {0}
  PROVE  /\ n % n = 0
         /\ (n + n) % n = 0
         /\ \A a \in Nat : a % n \in 0 .. n - 1
<1>1. n % n = 0
  OBVIOUS
<1>2. (n + n) % n = 0
  OBVIOUS
<1>3. \A a \in Nat : a % n \in 0 .. n - 1
  OBVIOUS
<1> QED
  BY <1>1, <1>2, <1>3

(* The scan always ends, at the main frame if nowhere before, on a live    *)
(* frame that is ready.                                                    *)
LEMMA NextReadyFacts ==
  ASSUME NEW n \in Nat \ {0}, current \in 0 .. n,
         NEW fr, NEW rd, fr[0] = Main, rd[Main]
  PROVE  /\ NextReady(fr, n, rd) \in 0 .. n - 1
         /\ rd[fr[NextReady(fr, n, rd)]]
<1> DEFINE K == {k \in 1 .. n : rd[fr[(current + k) % n]]}
           m == Min(K)
<1>1. \E k \in 1 .. n : (current + k) % n = 0
  <2>1. CASE current = n
    <3>1. n \in 1 .. n /\ current + n = n + n
      BY <2>1
    <3>2. (current + n) % n = 0
      BY <3>1, ModFacts
    <3> QED
      BY <3>1, <3>2
  <2>2. CASE current # n
    <3>1. n - current \in 1 .. n /\ current + (n - current) = n
      BY <2>2
    <3>2. (current + (n - current)) % n = 0
      BY <3>1, ModFacts
    <3> QED
      BY <3>1, <3>2
  <2> QED
    BY <2>1, <2>2
<1>2. K # {} /\ K \in SUBSET Nat
  <2>1. PICK k \in 1 .. n : (current + k) % n = 0
    BY <1>1
  <2>2. rd[fr[(current + k) % n]]
    BY <2>1
  <2>3. k \in K
    BY <2>2
  <2>4. \A j \in K : j \in Nat
    OBVIOUS
  <2> QED
    BY <2>3, <2>4
<1>3. m \in K
  BY <1>2, MinFacts
<1>4. m \in 1 .. n /\ rd[fr[(current + m) % n]]
  BY <1>3
<1>5. NextReady(fr, n, rd) = (current + m) % n
  BY DEF NextReady
<1> HIDE DEF m
<1>6. current + m \in Nat
  BY <1>4
<1>7. (current + m) % n \in 0 .. n - 1
  BY <1>6, ModFacts
<1> QED
  BY <1>4, <1>5, <1>7

-----------------------------------------------------------------------------
ExTypes ==
  /\ frames \in [Frames -> Frames]
  /\ current \in Frames
  /\ size \in 1 .. FrameCapacity
  /\ isReady \in [Frames -> BOOLEAN]
  /\ result \in [Frames -> Int]
  /\ exe \in [Frames -> Context]
  /\ cpu \in Frames
  /\ mpc \in {"setup", "loop", "swapped", "process", "returned", "freed"}

(* While main runs the index is at the main frame or, after the last       *)
(* coroutine returned, just past the live ones.                            *)
Position ==
  /\ cpu = Main =>
       current = 0 \/ (current = size /\ mpc # "setup" /\ exe[Main].at = "run")
  /\ cpu # Main => current \in 1 .. size - 1 /\ frames[current] = cpu

MainContext ==
  /\ isReady[Main]
  /\ exe[Main].stack = Main
  /\ exe[Main].at \in {"init", "run"}

Phase ==
  /\ mpc \in {"setup", "loop", "swapped", "returned"} => pc = "idle"
  /\ cpu # Main => mpc = "swapped"

Sched ==
  /\ ExTypes
  /\ FramesPermuted
  /\ Position
  /\ MainContext
  /\ ContextsIntact
  /\ Phase

ExInv == TypeInv /\ Sched

LEMMA ExConstants ==
  /\ FrameCapacity \in Nat \ {0, 1} /\ BatchSize \in BatchSizes /\ Ops \subseteq RequestType
  /\ Data = Frames /\ Results \subseteq Int /\ Main \in Frames
  BY ExecutorAssumption DEF Frames, Main

LEMMA ExInit == Init => ExInv
<1> SUFFICES ASSUME Init PROVE ExInv
  OBVIOUS
<1>1. TypeInv
  BY TypeInit DEF Init
<1>2. [stack |-> Main, at |-> "init"] \in Context
  BY ExConstants DEF Context, Points
<1>3. ExTypes
  BY <1>2, ExConstants DEF Init, ExTypes, Frames
<1>4. FramesPermuted /\ MainContext
  BY ExConstants DEF Init, FramesPermuted, MainContext, Frames, Main
<1>5. Live = {}
  BY DEF Init, Live
<1> QED
  BY <1>1, <1>3, <1>4, <1>5
     DEF Init, IOInit, ExInv, Sched, Position, ContextsIntact, Phase

(* Every step of the executor is one of its I/O context, or none.          *)
LEMMA IOStep ==
  ASSUME Sched, [Next]_vars
  PROVE  [IONext]_ioVars
<1> USE DEF IONext
<1>1. CASE AsyncExec
  BY <1>1 DEF AsyncExec
<1>2. CASE AsyncExecFull \/ UNCHANGED vars \/ Ended
  BY <1>2 DEF AsyncExecFull, vars, Ended
<1>3. CASE AsyncOpRefused
  BY <1>3 DEF AsyncOpRefused
<1>4. ASSUME NEW ty \in Ops, AsyncOp(ty) PROVE [IONext]_ioVars
  <2>1. Request(ty, frames[current])
    BY <1>4 DEF AsyncOp
  <2>2. ty \in RequestType /\ frames[current] \in Data
    BY ExConstants DEF Sched, ExTypes
  <2> QED
    BY <2>1, <2>2
<1>5. CASE FinishLast \/ FinishSwap
  BY <1>5 DEF FinishLast, FinishSwap
<1>6. CASE RunStart \/ RunSwitch \/ RunBreak
  BY <1>6 DEF RunStart, RunSwitch, RunBreak
<1>7. CASE RunSubmit
  BY <1>7, ExConstants DEF RunSubmit
<1>8. CASE RunFails
  BY <1>8 DEF RunFails
<1>9. CASE RunReap \/ RunCallback \/ RunAdvance
  BY <1>9 DEF RunReap, RunCallback, RunAdvance
<1>10. CASE Kernel
  BY <1>10 DEF Kernel
<1>11. CASE FreeExecutor
  BY <1>11 DEF FreeExecutor, Sched, FramesPermuted
<1> QED
  BY <1>1, <1>2, <1>3, <1>4, <1>5, <1>6, <1>7, <1>8, <1>9, <1>10, <1>11
     DEF Next, Yield, Run

-----------------------------------------------------------------------------
(* Scheduling, action by action.                                           *)

LEMMA LiveFacts ==
  ASSUME Sched
  PROVE  /\ FrameCapacity \in Nat \ {0, 1} /\ size \in 1 .. FrameCapacity
         /\ frames \in [Frames -> Frames] /\ frames[0] = Main
         /\ \A i, j \in Frames : frames[i] = frames[j] => i = j
         /\ 1 .. size - 1 \subseteq Frames
         /\ \A i \in 1 .. size - 1 : frames[i] \in Live /\ frames[i] # Main
         /\ Live \subseteq Frames /\ Main \notin Live
         /\ cpu # Main => cpu \in Live
<1>1. /\ frames \in [Frames -> Frames] /\ frames[0] = Main
      /\ \A i, j \in Frames : frames[i] = frames[j] => i = j
      /\ size \in 1 .. FrameCapacity /\ FrameCapacity \in Nat \ {0, 1}
  BY ExConstants DEF Sched, ExTypes, FramesPermuted
<1>2. 1 .. size - 1 \subseteq Frames /\ 0 \in Frames
  BY <1>1 DEF Frames
<1>3. \A i \in 1 .. size - 1 : frames[i] \in Live /\ frames[i] # Main
  BY <1>1, <1>2 DEF Live
<1>4. Live \subseteq Frames /\ Main \notin Live
  BY <1>1, <1>2, <1>3 DEF Live
<1>5. cpu # Main => cpu \in Live
  BY <1>3 DEF Sched, Position
<1> QED
  BY <1>1, <1>2, <1>3, <1>4, <1>5

LEMMA SchedAsyncExec ==
  ASSUME ExInv, AsyncExec
  PROVE  /\ Sched'
         /\ frames[size] \in Frames /\ frames[size] \notin Live
         /\ Live' = Live \cup {frames[size]}
<1> DEFINE f == frames[size]
           c == [stack |-> f, at |-> "entry"]
<1>1. Sched /\ ExTypes /\ Position /\ MainContext /\ ContextsIntact /\ Phase
  BY DEF ExInv, Sched
<1>2. /\ size < FrameCapacity /\ size' = size + 1
      /\ exe' = [exe EXCEPT ![f] = c] /\ isReady' = [isReady EXCEPT ![f] = TRUE]
      /\ UNCHANGED <<ioVars, frames, current, result, cpu, mpc>>
      /\ cpu # Main \/ mpc = "setup"
  BY DEF AsyncExec, UserCode
<1>3. /\ size \in Frames /\ f \in Frames /\ f # Main /\ f \notin Live
      /\ f # cpu /\ c \in Context
  <2>1. size \in Frames
    BY <1>1, <1>2, LiveFacts DEF Frames
  <2>2. f \in Frames /\ f # Main
    BY <1>1, <2>1, LiveFacts, ExConstants DEF Frames
  <2>3. f \notin Live
    BY <1>1, <2>1, LiveFacts DEF Live
  <2>4. c \in Context
    BY <2>2 DEF Context, Points
  <2> QED
    BY <1>1, <2>1, <2>2, <2>3, <2>4, LiveFacts
<1>4. Live' = Live \cup {f}
  <2>1. 1 .. size' - 1 = (1 .. size - 1) \cup {size}
    BY <1>1, <1>2, LiveFacts
  <2> QED
    BY <1>2, <2>1 DEF Live
<1> HIDE DEF f, c
<1>5. /\ exe \in [Frames -> Context] /\ isReady \in [Frames -> BOOLEAN]
      /\ size' \in 1 .. FrameCapacity
  BY <1>1, <1>2, LiveFacts DEF ExTypes
<1>6. ExTypes'
  BY <1>1, <1>2, <1>3, <1>5 DEF ExTypes, Frames, Context, Points
<1>7. exe'[f] = c /\ (\A g \in Frames : g # f => exe'[g] = exe[g] /\ isReady'[g] = isReady[g])
  BY <1>2, <1>3, <1>5
<1>8. MainContext' /\ exe'[Main] = exe[Main]
  BY <1>1, <1>3, <1>7, ExConstants DEF MainContext, Main
<1>9. Position'
  BY <1>1, <1>2, <1>8, LiveFacts DEF Position, Main
<1>10. ContextsIntact'
  <2>1. c.stack = f /\ c.at = "entry"
    BY DEF c
  <2> QED
    BY <1>1, <1>2, <1>3, <1>4, <1>7, <1>8, <2>1, LiveFacts DEF ContextsIntact, Main
<1>11. FramesPermuted' /\ Phase'
  BY <1>1, <1>2 DEF Sched, FramesPermuted, Phase, ioVars, Frames, Main
<1> QED
  BY <1>3, <1>4, <1>6, <1>8, <1>9, <1>10, <1>11 DEF Sched, f

(* The switch from a frame to another one that is live and off the         *)
(* processor, or to the main frame.                                        *)
LEMMA SwitchFacts ==
  ASSUME Sched, NEW from \in Frames, NEW at \in Points, NEW to \in Frames,
         Switch(from, at, to), to \in Live => to # cpu, to # Main => to \in Live
  PROVE  /\ exe' \in [Frames -> Context]
         /\ exe'[from] = [stack |-> cpu, at |-> at]
         /\ \A g \in Frames : g # from => exe'[g] = exe[g]
         /\ cpu' = to
<1>1. exe \in [Frames -> Context] /\ cpu \in Frames
  BY DEF Sched, ExTypes
<1>2. [stack |-> cpu, at |-> at] \in Context
  BY <1>1 DEF Context
<1>3. exe' = [exe EXCEPT ![from] = [stack |-> cpu, at |-> at]]
  BY DEF Switch
<1>4. cpu' = to
  <2>1. CASE to = Main
    BY <2>1 DEF Switch, Resume, Sched, MainContext
  <2>2. CASE to # Main
    BY <2>2 DEF Switch, Resume, Sched, ContextsIntact
  <2> QED
    BY <2>1, <2>2
<1> QED
  BY <1>1, <1>2, <1>3, <1>4

LEMMA SchedAsyncOp ==
  ASSUME ExInv, NEW ty \in Ops, AsyncOp(ty)
  PROVE  /\ Sched'
         /\ cpu' # Main => cpu' \in Live /\ isReady[cpu'] /\ exe[cpu'].at # "finished"
         /\ isReady'[cpu']
<1> DEFINE frame == frames[current]
           next == frames[current']
<1>1. Sched /\ ExTypes /\ Position /\ MainContext /\ ContextsIntact /\ Phase
  BY DEF ExInv, Sched
<1>2. /\ cpu # Main /\ Request(ty, frame)
      /\ isReady' = [isReady EXCEPT ![frame] = FALSE]
      /\ current' = NextReady(frames, size, isReady')
      /\ Switch(frame, "suspended", next)
      /\ UNCHANGED <<frames, size, result, mpc>>
  BY DEF AsyncOp
<1>3. /\ current \in 1 .. size - 1 /\ frame = cpu /\ frame \in Frames /\ frame # Main
      /\ isReady \in [Frames -> BOOLEAN] /\ isReady[Main]
  BY <1>1, <1>2, LiveFacts DEF Position, ExTypes, MainContext
<1>4. /\ isReady' \in [Frames -> BOOLEAN] /\ isReady'[Main] /\ ~ isReady'[frame]
      /\ \A g \in Frames : g # frame => isReady'[g] = isReady[g]
  BY <1>2, <1>3, ExConstants
<1>5. current' \in 0 .. size - 1 /\ isReady'[next]
  <2>1. size \in Nat \ {0} /\ current \in 0 .. size
    BY <1>1, <1>3, LiveFacts
  <2> QED
    BY <1>1, <1>2, <1>4, <2>1, LiveFacts, NextReadyFacts
<1>6. /\ next \in Frames /\ next # frame /\ current' \in Frames
      /\ next # Main => next \in Live /\ current' \in 1 .. size - 1
      /\ next = Main => current' = 0
  <2>1. next # frame
    BY <1>4, <1>5
  <2>2. current' \in Frames
    BY <1>1, <1>5, LiveFacts DEF Frames
  <2>3. current' = 0 \/ current' \in 1 .. size - 1
    BY <1>1, <1>5, LiveFacts
  <2> QED
    BY <1>1, <2>1, <2>2, <2>3, LiveFacts
<1> HIDE DEF frame, next
<1>7. /\ exe' \in [Frames -> Context]
      /\ exe'[frame] = [stack |-> cpu, at |-> "suspended"]
      /\ \A g \in Frames : g # frame => exe'[g] = exe[g]
      /\ cpu' = next
  BY <1>1, <1>2, <1>3, <1>6, SwitchFacts DEF Points
<1>8. Live' = Live
  BY <1>2 DEF Live
<1>9. ExTypes'
  BY <1>1, <1>2, <1>4, <1>6, <1>7 DEF ExTypes, Frames, Context, Points
<1>10. MainContext' /\ exe'[Main] = exe[Main]
  BY <1>1, <1>3, <1>4, <1>7, ExConstants DEF MainContext, Main
<1>11. exe[Main].at = "run" /\ mpc = "swapped" /\ pc = "idle"
  BY <1>1, <1>2 DEF ContextsIntact, Phase
<1>12. Position'
  <2>1. frames'[current'] = next
    BY <1>2 DEF next
  <2> QED
    BY <1>2, <1>6, <1>7, <1>10, <1>11, <2>1 DEF Position, Main
<1>13. ContextsIntact'
  <2>1. exe'[frame].stack = frame /\ exe'[frame].at = "suspended"
    BY <1>3, <1>7
  <2>2. ASSUME NEW g \in Live, g # next
        PROVE  exe'[g].stack = g /\ exe'[g].at \in {"entry", "suspended"}
    <3>1. CASE g = frame
      BY <2>1, <3>1
    <3>2. CASE g # frame
      BY <1>1, <1>3, <1>7, <2>2, <3>2, LiveFacts DEF ContextsIntact
    <3> QED
      BY <3>1, <3>2
  <2>3. exe'[Main] = [stack |-> Main, at |-> "run"]
    BY <1>1, <1>2, <1>10 DEF ContextsIntact
  <2> QED
    BY <1>7, <1>8, <2>2, <2>3 DEF ContextsIntact, Main
<1>14. FramesPermuted' /\ Phase'
  BY <1>1, <1>2, <1>11 DEF Sched, FramesPermuted, Phase, Request, Frames, Main
<1>15. cpu' # Main => cpu' \in Live /\ isReady[cpu'] /\ exe[cpu'].at # "finished"
  <2> SUFFICES ASSUME next # Main
               PROVE  next \in Live /\ isReady[next] /\ exe[next].at # "finished"
    BY <1>7
  <2>1. next \in Live /\ next # cpu /\ isReady[next]
    BY <1>3, <1>4, <1>5, <1>6
  <2> QED
    BY <1>1, <2>1 DEF ContextsIntact
<1> QED
  BY <1>5, <1>7, <1>9, <1>10, <1>12, <1>13, <1>14, <1>15 DEF Sched

LEMMA SchedFinishLast ==
  ASSUME ExInv, FinishLast
  PROVE  Sched' /\ cpu' = Main /\ Live' = Live \ {cpu}
<1>1. Sched /\ ExTypes /\ Position /\ MainContext /\ ContextsIntact /\ Phase
  BY DEF ExInv, Sched
<1>2. /\ cpu # Main /\ current = size - 1 /\ size' = size - 1 /\ Resume(Main)
      /\ UNCHANGED <<ioVars, frames, current, isReady, result, exe, mpc>>
  BY DEF FinishLast
<1>3. exe[Main] = [stack |-> Main, at |-> "run"] /\ mpc = "swapped" /\ current \in 1 .. size - 1
  BY <1>1, <1>2 DEF ContextsIntact, Phase, Position
<1>4. cpu' = Main
  BY <1>2, <1>3 DEF Resume
<1>5. size \in 1 .. FrameCapacity /\ FrameCapacity \in Nat /\ frames[current] = cpu
  BY <1>1, <1>2, LiveFacts DEF Position
<1>6. ExTypes'
  <2>1. size' \in 1 .. FrameCapacity
    BY <1>2, <1>3, <1>5
  <2>2. cpu' \in Frames
    BY <1>4, ExConstants
  <2> QED
    BY <1>1, <1>2, <2>1, <2>2 DEF ExTypes, Frames, Context, Points
<1>7. Live' = Live \ {cpu}
  <2>1. 1 .. size - 1 = (1 .. size' - 1) \cup {current} /\ current \notin 1 .. size' - 1
    BY <1>2, <1>3, <1>5
  <2>2. \A i \in 1 .. size' - 1 : frames[i] # frames[current]
    BY <1>1, <1>3, <2>1, LiveFacts
  <2> QED
    BY <1>2, <1>5, <2>1, <2>2 DEF Live
<1>8. Position' /\ MainContext' /\ Phase' /\ FramesPermuted'
  BY <1>1, <1>2, <1>3, <1>4, <1>5
     DEF Position, MainContext, Phase, FramesPermuted, Sched, ioVars, Main, Frames
<1>9. ContextsIntact'
  BY <1>1, <1>2, <1>4, <1>7 DEF ContextsIntact, Main
<1> QED
  BY <1>4, <1>6, <1>7, <1>8, <1>9 DEF Sched

(* Swapping two live places keeps the array a permutation, and the frame   *)
(* that returned is the one that is no longer live.                        *)
LEMMA SwapFacts ==
  ASSUME ExInv, FinishSwap
  PROVE  /\ frames' \in [Frames -> Frames] /\ FramesPermuted'
         /\ Live' = Live \ {cpu}
         /\ size' = size - 1 /\ size' \in Nat \ {0} /\ current \in 1 .. size' - 1
         /\ frames[current] = cpu
<1>1. Sched /\ Position
  BY DEF ExInv, Sched
<1>2. /\ cpu # Main /\ current # size - 1 /\ size' = size - 1
      /\ frames' = [frames EXCEPT ![size - 1] = frames[current], ![current] = frames[size - 1]]
  BY DEF FinishSwap, SwapWithLast
<1>3. /\ current \in 1 .. size - 1 /\ frames[current] = cpu
      /\ size \in 1 .. FrameCapacity /\ FrameCapacity \in Nat
      /\ frames \in [Frames -> Frames] /\ frames[0] = Main
      /\ \A i, j \in Frames : frames[i] = frames[j] => i = j
  BY <1>1, <1>2, LiveFacts DEF Position
<1>4. /\ current \in 1 .. size - 2 /\ size - 1 \in 2 .. FrameCapacity - 1
      /\ current \in Frames /\ size - 1 \in Frames /\ 0 \in Frames
  BY <1>2, <1>3 DEF Frames
<1>5. /\ frames' \in [Frames -> Frames]
      /\ frames'[size - 1] = frames[current] /\ frames'[current] = frames[size - 1]
      /\ \A i \in Frames : i # current /\ i # size - 1 => frames'[i] = frames[i]
  BY <1>2, <1>3, <1>4
<1>6. \A i, j \in Frames : frames'[i] = frames'[j] => i = j
  BY <1>3, <1>4, <1>5
<1>7. FramesPermuted'
  BY <1>3, <1>4, <1>5, <1>6 DEF FramesPermuted, Frames, Main
<1>8. Live' = Live \ {cpu}
  <2>1. Live' = {frames'[i] : i \in 1 .. size - 2} /\ Live = {frames[i] : i \in 1 .. size - 1}
    <3>1. size' - 1 = size - 2
      BY <1>2, <1>3
    <3> QED
      BY <3>1 DEF Live
  <2>2. 1 .. size - 2 \subseteq Frames /\ 1 .. size - 1 \subseteq Frames
    BY <1>3 DEF Frames
  <2>3. ASSUME NEW i \in 1 .. size - 2 PROVE frames'[i] \in Live \ {cpu}
    <3>1. CASE i = current
      <4>1. frames'[i] = frames[size - 1] /\ size - 1 \in 1 .. size - 1
        BY <3>1, <1>4, <1>5
      <4>2. frames[size - 1] # frames[current]
        BY <1>2, <1>3, <1>4
      <4> QED
        BY <4>1, <4>2, <1>3, <2>1
    <3>2. CASE i # current
      <4>1. i \in 1 .. size - 1 /\ i # size - 1 /\ i \in Frames
        BY <1>3, <2>2
      <4>2. frames'[i] = frames[i] /\ frames[i] # frames[current]
        BY <3>2, <4>1, <1>3, <1>4, <1>5
      <4> QED
        BY <4>1, <4>2, <1>3, <2>1
    <3> QED
      BY <3>1, <3>2
  <2>4. ASSUME NEW i \in 1 .. size - 1, frames[i] # cpu PROVE frames[i] \in Live'
    <3>1. CASE i = size - 1
      BY <3>1, <1>4, <1>5, <2>1
    <3>2. CASE i # size - 1
      <4>1. i \in 1 .. size - 2 /\ i \in Frames /\ i # current
        BY <3>2, <2>4, <1>3, <2>2
      <4> QED
        BY <3>2, <4>1, <1>5, <2>1
    <3> QED
      BY <3>1, <3>2
  <2> QED
    BY <2>1, <2>3, <2>4
<1> QED
  BY <1>2, <1>3, <1>4, <1>5, <1>7, <1>8

LEMMA SchedFinishSwap ==
  ASSUME ExInv, FinishSwap
  PROVE  /\ Sched'
         /\ cpu' # Main => cpu' \in Live /\ isReady[cpu'] /\ exe[cpu'].at # "finished"
<1> DEFINE next == frames'[current']
<1>1. Sched /\ ExTypes /\ Position /\ MainContext /\ ContextsIntact /\ Phase
  BY DEF ExInv, Sched
<1>2. /\ cpu # Main /\ current' = NextAfterSwap(frames', size')
      /\ IF next = Main THEN Resume(Main) /\ UNCHANGED exe
         ELSE Switch(frames[current], "finished", next)
      /\ UNCHANGED <<ioVars, isReady, result, mpc>>
  BY DEF FinishSwap
<1>3. /\ frames' \in [Frames -> Frames] /\ FramesPermuted'
      /\ Live' = Live \ {cpu}
      /\ size' = size - 1 /\ size' \in Nat \ {0} /\ current \in 1 .. size' - 1
      /\ frames[current] = cpu
      /\ size \in 1 .. FrameCapacity /\ FrameCapacity \in Nat
      /\ cpu \in Live /\ Live \subseteq Frames /\ Main \notin Live
  BY <1>1, <1>2, SwapFacts, LiveFacts
<1>4. frames'[0] = Main /\ \A i, j \in Frames : frames'[i] = frames'[j] => i = j
  BY <1>3 DEF FramesPermuted, Frames, Main
<1>5. isReady[next] /\ current' \in 0 .. size' - 1
  <2>1. CASE isReady[frames'[current]]
    <3>1. current' = current
      BY <1>2, <2>1 DEF NextAfterSwap
    <3> QED
      BY <1>3, <2>1, <3>1
  <2>2. CASE ~ isReady[frames'[current]]
    <3>1. current' = NextReady(frames', size', isReady)
      BY <1>2, <2>2 DEF NextAfterSwap
    <3>2. current \in 0 .. size' /\ isReady[Main]
      BY <1>1, <1>3 DEF MainContext
    <3> QED
      BY <1>3, <1>4, <3>1, <3>2, NextReadyFacts
  <2> QED
    BY <2>1, <2>2
<1>6. /\ current' \in Frames /\ next \in Frames
      /\ next # Main => next \in Live' /\ current' \in 1 .. size' - 1
      /\ next = Main => current' = 0
  <2>1. current' \in Frames /\ 0 \in Frames
    BY <1>3, <1>5 DEF Frames
  <2>2. current' # 0 => current' \in 1 .. size' - 1
    BY <1>3, <1>5
  <2>3. current' # 0 => next \in Live'
    BY <2>2 DEF Live
  <2> QED
    BY <1>3, <1>4, <2>1, <2>2, <2>3
<1> HIDE DEF next
<1>7. /\ cpu' = next /\ exe' \in [Frames -> Context]
      /\ \A g \in Frames : g # cpu => exe'[g] = exe[g]
  <2>1. CASE next = Main
    <3>1. exe[Main].at = "run" /\ exe[Main].stack = Main
      BY <1>1, <1>2 DEF ContextsIntact
    <3> QED
      BY <1>1, <1>2, <2>1, <3>1 DEF Resume, ExTypes
  <2>2. CASE next # Main
    <3>1. Switch(cpu, "finished", next) /\ next \in Live /\ next # cpu /\ cpu \in Frames
      BY <1>2, <1>3, <1>6, <2>2
    <3> QED
      BY <1>1, <1>6, <3>1, SwitchFacts DEF Points
  <2> QED
    BY <2>1, <2>2
<1>8. ExTypes'
  <2>1. size' \in 1 .. FrameCapacity
    BY <1>3
  <2> QED
    BY <1>1, <1>2, <1>3, <1>6, <1>7, <2>1 DEF ExTypes, Frames, Context, Points
<1>9. exe'[Main] = exe[Main] /\ mpc = "swapped" /\ exe[Main] = [stack |-> Main, at |-> "run"]
  BY <1>1, <1>2, <1>7, ExConstants DEF ContextsIntact, Phase
<1>10. MainContext' /\ Phase'
  BY <1>1, <1>2, <1>9 DEF MainContext, Phase, ioVars, Main
<1>11. Position'
  <2>1. frames'[current'] = next
    BY DEF next
  <2> QED
    BY <1>2, <1>6, <1>7, <1>9, <2>1 DEF Position, Main
<1>12. ContextsIntact'
  <2>1. \A g \in Live' : exe'[g].stack = g /\ exe'[g].at \in {"entry", "suspended"}
    BY <1>1, <1>3, <1>7 DEF ContextsIntact
  <2> QED
    BY <1>9, <2>1 DEF ContextsIntact, Main
<1>13. cpu' # Main => cpu' \in Live /\ isReady[cpu'] /\ exe[cpu'].at # "finished"
  BY <1>1, <1>3, <1>5, <1>6, <1>7 DEF ContextsIntact
<1> QED
  BY <1>3, <1>8, <1>10, <1>11, <1>12, <1>13 DEF Sched

LEMMA SchedRunSwitch ==
  ASSUME ExInv, RunSwitch
  PROVE  /\ Sched'
         /\ cpu' # Main => cpu' \in Live /\ isReady[cpu'] /\ exe[cpu'].at # "finished"
<1> DEFINE frame == frames[current]
           next == frames[current']
<1>1. Sched /\ ExTypes /\ Position /\ MainContext /\ ContextsIntact /\ Phase
  BY DEF ExInv, Sched
<1>2. /\ cpu = Main /\ mpc = "loop" /\ current' = NextReady(frames, size, isReady)
      /\ IF next = frame THEN UNCHANGED <<exe, cpu>> ELSE Switch(frame, "run", next)
      /\ mpc' = "swapped"
      /\ UNCHANGED <<ioVars, frames, size, isReady, result>>
  BY DEF RunSwitch
<1>3. /\ current = 0 \/ (current = size /\ exe[Main].at = "run")
      /\ current \in Frames /\ frame \in Frames
      /\ size \in 1 .. FrameCapacity /\ FrameCapacity \in Nat
  BY <1>1, <1>2, LiveFacts DEF Position, ExTypes
<1>4. current' \in 0 .. size - 1 /\ isReady[next]
  <2>1. size \in Nat \ {0} /\ current \in 0 .. size
    BY <1>3
  <2> QED
    BY <1>1, <1>2, <2>1, LiveFacts, NextReadyFacts DEF MainContext
<1>5. /\ current' \in Frames /\ next \in Frames
      /\ next # Main => next \in Live /\ current' \in 1 .. size - 1
      /\ next = Main => current' = 0
      /\ frame \notin Live
      /\ current = 0 <=> frame = Main
  <2>1. current' \in Frames /\ 0 \in Frames
    BY <1>3, <1>4 DEF Frames
  <2>2. current' # 0 => current' \in 1 .. size - 1
    BY <1>3, <1>4
  <2>3. \A i \in 1 .. size - 1 : i \in Frames /\ i # current
    BY <1>3, <1>1, LiveFacts
  <2>4. frame \notin Live
    BY <1>1, <1>3, <2>3, LiveFacts DEF Live
  <2> QED
    BY <1>1, <1>3, <2>1, <2>2, <2>4, LiveFacts
<1>6. next = frame => next = Main /\ current = 0
  BY <1>5
<1> HIDE DEF frame, next
<1>7. /\ cpu' = next /\ exe' \in [Frames -> Context]
      /\ \A g \in Frames : g # frame => exe'[g] = exe[g]
      /\ next # frame => exe'[frame] = [stack |-> Main, at |-> "run"]
      /\ next = frame => exe'[frame] = exe[frame]
  <2>1. CASE next = frame
    BY <1>1, <1>2, <1>6, <2>1 DEF ExTypes
  <2>2. CASE next # frame
    <3>1. Switch(frame, "run", next) /\ (next \in Live => next # cpu)
      BY <1>1, <1>2, <2>2, LiveFacts
    <3> QED
      BY <1>1, <1>2, <1>3, <1>5, <2>2, <3>1, SwitchFacts DEF Points
  <2> QED
    BY <2>1, <2>2
<1>8. /\ exe'[Main] = [stack |-> Main, at |-> "run"] \/ (next = Main /\ exe'[Main] = exe[Main])
      /\ exe'[Main].stack = Main /\ exe'[Main].at \in {"init", "run"}
  <2>1. exe[Main] \in Context
    BY <1>1, ExConstants DEF ExTypes
  <2>2. CASE frame = Main
    BY <1>1, <1>7, <2>2 DEF MainContext
  <2>3. CASE frame # Main
    <3>1. exe[Main].at = "run" /\ exe[Main].stack = Main
      BY <1>1, <1>3, <1>5, <2>3 DEF MainContext
    <3>2. exe[Main] = [stack |-> Main, at |-> "run"]
      BY <2>1, <3>1 DEF Context
    <3> QED
      BY <1>7, <2>3, <3>2, ExConstants
  <2> QED
    BY <2>2, <2>3
<1>9. Live' = Live
  BY <1>2 DEF Live
<1>10. ExTypes'
  BY <1>1, <1>2, <1>5, <1>7 DEF ExTypes, Frames, Context, Points
<1>11. MainContext' /\ Phase' /\ FramesPermuted'
  BY <1>1, <1>2, <1>8 DEF MainContext, Phase, FramesPermuted, Sched, ioVars, Main, Frames
<1>12. Position'
  <2>1. frames'[current'] = next
    BY <1>2 DEF next
  <2> QED
    BY <1>2, <1>5, <1>7, <2>1 DEF Position, Main
<1>13. ContextsIntact'
  <2>1. \A g \in Live : exe'[g] = exe[g] /\ g # cpu
    BY <1>1, <1>2, <1>5, <1>7, LiveFacts
  <2>2. \A g \in Live' : exe'[g].stack = g /\ exe'[g].at \in {"entry", "suspended"}
    BY <1>1, <1>9, <2>1 DEF ContextsIntact
  <2>3. cpu' # Main => exe'[Main] = [stack |-> Main, at |-> "run"]
    BY <1>7, <1>8
  <2> QED
    BY <2>2, <2>3 DEF ContextsIntact, Main
<1>14. cpu' # Main => cpu' \in Live /\ isReady[cpu'] /\ exe[cpu'].at # "finished"
  <2> SUFFICES ASSUME next # Main
               PROVE  next \in Live /\ isReady[next] /\ exe[next].at # "finished"
    BY <1>7
  <2>1. next \in Live /\ isReady[next] /\ next # cpu
    BY <1>2, <1>4, <1>5
  <2> QED
    BY <1>1, <2>1 DEF ContextsIntact
<1> QED
  BY <1>10, <1>11, <1>12, <1>13, <1>14 DEF Sched

(* Steps that leave the frames, their contexts and the processor alone.    *)
LEMMA SchedKept ==
  ASSUME Sched, UNCHANGED <<frames, current, size, exe, cpu>>,
         isReady' \in [Frames -> BOOLEAN], isReady'[Main], result' \in [Frames -> Int],
         mpc' \in {"setup", "loop", "swapped", "process", "returned", "freed"},
         mpc' = "setup" => mpc = "setup", Phase'
  PROVE  Sched'
<1>1. ExTypes /\ Position /\ MainContext /\ ContextsIntact /\ FramesPermuted
  BY DEF Sched
<1>2. ExTypes'
  BY <1>1 DEF ExTypes, Frames, Context, Points
<1>3. Position' /\ MainContext' /\ FramesPermuted'
  BY <1>1 DEF Position, MainContext, FramesPermuted, Main, Frames
<1>4. ContextsIntact'
  BY <1>1 DEF ContextsIntact, Live, Main
<1> QED
  BY <1>2, <1>3, <1>4 DEF Sched

LEMMA SchedRunCallback ==
  ASSUME ExInv, RunCallback
  PROVE  Sched'
<1> DEFINE called == token[Reaped.req.tok]
           d == called.data
           r == Reaped.res
<1>1. Sched /\ ExTypes /\ MainContext /\ Phase /\ TypeInv
  BY DEF ExInv, Sched
<1>2. /\ pc = "callback" /\ pc' = "release"
      /\ result' = [result EXCEPT ![d] = IF called.type = "WAIT" THEN result[d] ELSE r]
      /\ isReady' = [isReady EXCEPT ![d] = TRUE]
      /\ UNCHANGED <<frames, current, size, exe, cpu, mpc>>
  BY DEF RunCallback, ProcessCallback
<1>3. r \in Int
  <2>1. /\ cq \in Seq(Completion) /\ count \in 0 .. Len(cq) /\ done \in 0 .. count
        /\ done < count
    BY <1>1, <1>2 DEF TypeInv, IOTypeOK, BatchProgress
  <2>2. cq[done + 1] \in Completion
    <3>1. Len(cq) \in Nat
      BY <2>1, LenProperties
    <3>2. done + 1 \in 1 .. Len(cq)
      BY <2>1, <3>1
    <3> QED
      BY <2>1, <3>2, ElementOfSeq
  <2> QED
    BY <2>2, ExConstants DEF Reaped, Completion
<1> HIDE DEF called, d, r
<1>4. isReady \in [Frames -> BOOLEAN] /\ isReady[Main] /\ result \in [Frames -> Int]
  BY <1>1 DEF ExTypes, MainContext
<1>5. isReady' \in [Frames -> BOOLEAN] /\ isReady'[Main]
  BY <1>2, <1>4, ExConstants
<1>6. result' \in [Frames -> Int]
  <2>1. CASE called.type = "WAIT"
    BY <1>2, <1>4, <2>1
  <2>2. CASE called.type # "WAIT"
    BY <1>2, <1>3, <1>4, <2>2
  <2> QED
    BY <2>1, <2>2
<1>7. Phase'
  BY <1>1, <1>2 DEF Phase, Main
<1>8. mpc' \in {"setup", "loop", "swapped", "process", "returned", "freed"}
  BY <1>1, <1>2 DEF ExTypes
<1> QED
  BY <1>1, <1>2, <1>5, <1>6, <1>7, <1>8, SchedKept

(* The invariant is inductive, and every switch of the processor away from *)
(* the main context goes to a coroutine that can run.                      *)
LEMMA SchedNext ==
  ASSUME ExInv, [Next]_vars
  PROVE  /\ Sched'
         /\ cpu' # cpu /\ cpu' # Main =>
              cpu' \in Live /\ isReady[cpu'] /\ exe[cpu'].at # "finished"
<1> DEFINE Goal == /\ Sched'
                   /\ cpu' # cpu /\ cpu' # Main =>
                        cpu' \in Live /\ isReady[cpu'] /\ exe[cpu'].at # "finished"
           Quiet == UNCHANGED <<frames, current, size, isReady, result, exe, cpu>>
           Places == {"setup", "loop", "swapped", "process", "returned", "freed"}
<1>1. Sched /\ Phase /\ mpc \in Places
  BY DEF ExInv, Sched, ExTypes
<1>2. ASSUME Quiet, mpc' \in Places, mpc' = "setup" => mpc = "setup", Phase'
      PROVE  Goal
  <2>1. isReady' \in [Frames -> BOOLEAN] /\ isReady'[Main] /\ result' \in [Frames -> Int]
    BY <1>1, <1>2 DEF Sched, ExTypes, MainContext
  <2> QED
    BY <1>1, <1>2, <2>1, SchedKept
<1>3. CASE UNCHANGED vars \/ AsyncExecFull \/ Ended \/ AsyncOpRefused
  <2>1. Quiet /\ mpc' = mpc /\ pc' = pc
    BY <1>3 DEF vars, exVars, ioVars, AsyncExecFull, Ended, AsyncOpRefused, RequestRefused
  <2> QED
    BY <1>1, <1>2, <2>1 DEF Phase, Main
<1>4. CASE AsyncExec
  <2>1. cpu' = cpu
    BY <1>4 DEF AsyncExec
  <2> QED
    BY <1>4, <2>1, SchedAsyncExec
<1>5. CASE Yield
  BY <1>5, SchedAsyncOp, SchedFinishLast, SchedFinishSwap DEF Yield
<1>6. CASE RunStart \/ RunBreak
  <2>1. /\ Quiet /\ mpc' \in Places \ {"setup"} /\ pc' = pc /\ cpu = Main
        /\ mpc \in {"setup", "swapped"}
    BY <1>6 DEF RunStart, RunBreak, ioVars
  <2>2. Phase'
    BY <1>1, <2>1 DEF Phase, Main
  <2> QED
    BY <1>2, <2>1, <2>2
<1>7. CASE RunSwitch
  BY <1>7, SchedRunSwitch
<1>8. CASE RunSubmit
  <2>1. Quiet /\ mpc' = "process" /\ cpu = Main
    BY <1>8 DEF RunSubmit
  <2>2. Phase'
    BY <2>1 DEF Phase, Main
  <2> QED
    BY <1>2, <2>1, <2>2
<1>9. CASE RunFails
  <2>1. Quiet /\ mpc' = "returned" /\ cpu = Main /\ pc' = "idle"
    BY <1>1, <1>9
       DEF RunFails, ProcessSubmitFails, ProcessWaitFails, Phase, ioVars
  <2>2. Phase'
    BY <2>1 DEF Phase, Main
  <2> QED
    BY <1>2, <2>1, <2>2
<1>10. CASE RunReap
  <2>1. Quiet /\ mpc' = mpc /\ pc # "idle"
    BY <1>10 DEF RunReap, ProcessPeek, ProcessWait, ProcessRelease, exVars
  <2>2. Phase'
    BY <1>1, <2>1 DEF Phase, Main
  <2> QED
    BY <1>1, <1>2, <2>1, <2>2
<1>11. CASE RunCallback
  <2>1. cpu' = cpu
    BY <1>11 DEF RunCallback
  <2> QED
    BY <1>11, <2>1, SchedRunCallback
<1>12. CASE RunAdvance
  <2>1. Quiet /\ mpc' = "loop" /\ pc = "advance" /\ pc' = "idle"
    BY <1>12 DEF RunAdvance, ProcessAdvance, Advance
  <2>2. cpu = Main
    BY <1>1, <2>1 DEF Phase
  <2>3. Phase'
    BY <2>1, <2>2 DEF Phase, Main
  <2> QED
    BY <1>2, <2>1, <2>3
<1>13. CASE Kernel
  <2>1. Quiet /\ mpc' = mpc /\ pc' = pc
    BY <1>13 DEF Kernel, KernelComplete, exVars
  <2> QED
    BY <1>1, <1>2, <2>1 DEF Phase, Main
<1>14. CASE FreeExecutor
  <2>1. Quiet /\ mpc' = "freed" /\ mpc = "returned"
    BY <1>14 DEF FreeExecutor
  <2>2. Phase'
    BY <1>1, <2>1 DEF Phase, Main
  <2> QED
    BY <1>2, <2>1, <2>2
<1> QED
  BY <1>3, <1>4, <1>5, <1>6, <1>7, <1>8, <1>9, <1>10, <1>11, <1>12, <1>13, <1>14
     DEF Next, Run

LEMMA ExNext == ExInv /\ [Next]_vars => ExInv'
<1> SUFFICES ASSUME ExInv, [Next]_vars PROVE ExInv'
  OBVIOUS
<1>1. [IONext]_ioVars
  BY IOStep DEF ExInv
<1> QED
  BY <1>1, SchedNext, TypeNext DEF ExInv

LEMMA ExAlways == Spec => []ExInv
  BY ExInit, ExNext, PTL DEF Spec

-----------------------------------------------------------------------------
(* Results *)

(* The executor uses its I/O context only through its operations (each     *)
(* step of src/Executor.c is one of src/IOContext.c or leaves its state    *)
(* alone), so all that is proved of the I/O context alone holds in it.     *)
THEOREM UsesIOContext == Spec => IOSpec
<1>1. Init => IOInit
  BY DEF Init
<1>2. ExInv /\ [Next]_vars => [IONext]_ioVars
  BY IOStep DEF ExInv
<1> QED
  BY <1>1, <1>2, ExAlways, PTL DEF Spec, IOSpec

(* The variables of the executor keep their types, the index of the        *)
(* current frame and the number of live frames their bounds.               *)
THEOREM ExecutorTypeCorrect == Spec => []TypeOK
<1>1. ExInv => TypeOK
  BY DEF ExInv, TypeInv, Sched, ExTypes, TypeOK
<1> QED
  BY <1>1, ExAlways, PTL

(* Returning coroutines permute the frame array and nothing else, and the  *)
(* main frame never leaves index 0, whatever the number of frames.         *)
THEOREM FramesStayPermuted == Spec => []FramesPermuted
<1>1. ExInv => FramesPermuted
  BY DEF ExInv, Sched
<1> QED
  BY <1>1, ExAlways, PTL

(* async_* always find the frame of the coroutine that called them in      *)
(* frames[current].                                                        *)
THEOREM CurrentIsCaller == Spec => []CurrentIsRunning
<1>1. ExInv => CurrentIsRunning
  <2> SUFFICES ASSUME ExInv, cpu # Main
               PROVE  current < size /\ frames[current] = cpu
    BY DEF CurrentIsRunning
  <2> QED
    BY LiveFacts DEF ExInv, Sched, Position
<1> QED
  BY <1>1, ExAlways, PTL

(* No stored context that is still to be resumed is ever overwritten, in   *)
(* one run of run().                                                       *)
THEOREM ContextsStayIntact == Spec => []ContextsIntact
<1>1. ExInv => ContextsIntact
  BY DEF ExInv, Sched
<1> QED
  BY <1>1, ExAlways, PTL

(* setcontext and swapcontext resume main or a live coroutine that is      *)
(* ready and has not returned: never a free frame, nor one that sleeps.    *)
THEOREM SwitchesToRunnable == Spec => ResumesOnlyRunnable
<1>1. ExInv /\ [Next]_vars =>
        [cpu' # cpu /\ cpu' # Main =>
           cpu' \in Live /\ isReady[cpu'] /\ exe[cpu'].at # "finished"]_vars
  BY SchedNext
<1> QED
  BY <1>1, ExAlways, PTL DEF Spec, ResumesOnlyRunnable

(* In the whole executor no two pending requests share a token struct, and *)
(* there is a submission entry for every free token.                       *)
THEOREM ExecutorTokensNotShared == Spec => []NoTokenSharing
  BY UsesIOContext, TokensNotShared, PTL
=============================================================================

----------------------------- MODULE Executor -----------------------------
(***************************************************************************)
(* The cooperative executor of Cring (src/Executor.c, lib/Executor.h) over *)
(* its I/O context: coroutines on their own stacks, an array of frame      *)
(* pointers whose prefix is live, round-robin switching with swapcontext,  *)
(* and run(), which drives process() from the main context.                *)
(*                                                                         *)
(* A frame is named by its place in frame_mem, which is also the stack its *)
(* coroutine runs on; frames[] permutes them.  Frame 0 is the main frame:  *)
(* as a stack it stands for the thread that called run().  An execution    *)
(* context is the stack it belongs to and the point it resumes at.         *)
(*                                                                         *)
(* The coroutines' own code is arbitrary: whatever runs may spawn, issue   *)
(* an operation, or return.  Everything between two swapcontext calls is   *)
(* one step, which only the kernel's completions could interleave with,    *)
(* and they touch nothing but the completion ring.                         *)
(***************************************************************************)
EXTENDS IOContext, FiniteSetsExt

CONSTANTS
  FrameCapacity,   (* executor->capacity                                   *)
  BatchSize,       (* BATCH_SIZE                                           *)
  Ops              (* the operations the coroutines use                    *)

ASSUME ExecutorAssumption ==
  /\ FrameCapacity \in Nat \ {0, 1}    \* align32pow2(count + 1), count > 0
  /\ BatchSize \in BatchSizes \ {0}     \* what run() passes to process()
  /\ Ops \subseteq RequestType
  /\ Data = 0 .. FrameCapacity - 1     \* callbacks get the frame
  /\ Results \subseteq Int             \* Frame.result is an integer
  /\ Null \notin RequestType /\ Null \notin Results

VARIABLES
  frames,    (* executor->frames: index to frame                           *)
  current,   (* executor->current                                          *)
  size,      (* executor->size                                             *)
  isReady,   (* Frame.is_ready                                             *)
  result,    (* Frame.result                                               *)
  exe,       (* Frame.exe: the context stored in the frame                 *)
  cpu,       (* the stack the processor is on                              *)
  mpc        (* where the main context is, or will be when it resumes      *)

exVars == <<frames, current, size, isReady, result, exe, cpu, mpc>>
vars == <<ioVars, exVars>>

-----------------------------------------------------------------------------
Frames == 0 .. FrameCapacity - 1
Main == 0

(* "init": getcontext in init_executor; "entry": makecontext, about to     *)
(* call execute(); "suspended" and "finished": after the swapcontext of    *)
(* suspend_current_frame and of manage_async_finish; "run": after the      *)
(* swapcontext of run().                                                   *)
Points == {"init", "entry", "suspended", "finished", "run"}
Context == [stack : Frames, at : Points]

Live == {frames[i] : i \in 1 .. size - 1}

Init ==
  /\ IOInit
  /\ frames = [i \in Frames |-> i]
  /\ current = 0
  /\ size = 1
  /\ isReady = [f \in Frames |-> f = Main]
  /\ result = [f \in Frames |-> 0]
  /\ exe = [f \in Frames |-> [stack |-> Main, at |-> "init"]]
  /\ cpu = Main
  /\ mpc = "setup"

-----------------------------------------------------------------------------
(* Scheduling helpers *)

SlipTestsBeforeMoving(fr, n, rd) ==
  (current + Min({k \in 0 .. n : rd[fr[(current + k) % n]]})) % n

SlipWrapsAtCapacity(fr, n, rd) ==
  (current + Min({k \in 1 .. FrameCapacity :
                    rd[fr[(current + k) % FrameCapacity]]})) % FrameCapacity

(* move_to_next_ready_frame: the index its loop stops at, scanning a frame *)
(* array fr of n live entries with readiness rd.                           *)
NextReady(fr, n, rd) ==
  (current + Min({k \in 1 .. n : rd[fr[(current + k) % n]]})) % n

(* setcontext on a frame: the processor goes to the stack stored there;    *)
(* one that had finished returns from execute() through uc_link, the main  *)
(* frame.                                                                  *)
Resume(f) ==
  cpu' = IF exe[f].at = "finished" THEN exe[Main].stack ELSE exe[f].stack

(* swapcontext(&from->exe, &to->exe)                                       *)
Switch(from, at, to) ==
  /\ exe' = [exe EXCEPT ![from] = [stack |-> cpu, at |-> at]]
  /\ Resume(to)

-----------------------------------------------------------------------------
(* Calls the running code makes *)

UserCode == cpu # Main \/ mpc = "setup"

(* async_exec; the new frame is the first beyond the live ones.            *)
AsyncExec ==
  /\ UserCode
  /\ size < FrameCapacity
  /\ LET frame == frames[size]
     IN  /\ exe' = [exe EXCEPT ![frame] = [stack |-> frame, at |-> "entry"]]
         /\ isReady' = [isReady EXCEPT ![frame] = TRUE]
  /\ size' = size + 1
  /\ UNCHANGED <<ioVars, frames, current, result, cpu, mpc>>

(* At capacity async_exec returns -1 and the caller goes on.               *)
AsyncExecFull ==
  /\ UserCode
  /\ size >= FrameCapacity
  /\ UNCHANGED vars

SlipCurrentNotMoved(ty) ==
  /\ cpu # Main
  /\ LET frame == frames[current]
     IN  /\ Request(ty, frame)
         /\ isReady' = [isReady EXCEPT ![frame] = FALSE]
         /\ Switch(frame, "suspended", frames[NextReady(frames, size, isReady')])
  /\ UNCHANGED <<frames, current, size, result, mpc>>

SlipSavesAfterMoving(ty) ==
  /\ cpu # Main
  /\ LET frame == frames[current]
     IN  /\ Request(ty, frame)
         /\ isReady' = [isReady EXCEPT ![frame] = FALSE]
         /\ current' = NextReady(frames, size, isReady')
         /\ Switch(frames[current'], "suspended", frames[current'])
  /\ UNCHANGED <<frames, size, result, mpc>>

(* async_wait, async_accept, async_read, async_write: request, mark the    *)
(* current frame not ready and switch to the next that is.                 *)
AsyncOp(ty) ==
  /\ cpu # Main
  /\ LET frame == frames[current]
     IN  /\ Request(ty, frame)
         /\ isReady' = [isReady EXCEPT ![frame] = FALSE]
         /\ current' = NextReady(frames, size, isReady')
         /\ Switch(frame, "suspended", frames[current'])
  /\ UNCHANGED <<frames, size, result, mpc>>

SlipSuspendsAnyway ==
  /\ cpu # Main
  /\ RequestRefused
  /\ isReady' = [isReady EXCEPT ![frames[current]] = FALSE]
  /\ current' = NextReady(frames, size, isReady')
  /\ Switch(frames[current], "suspended", frames[current'])
  /\ UNCHANGED <<frames, size, result, mpc>>

SlipYieldsReady ==
  /\ cpu # Main
  /\ RequestRefused
  /\ current' = NextReady(frames, size, isReady)
  /\ Switch(frames[current], "suspended", frames[current'])
  /\ UNCHANGED <<frames, size, isReady, result, mpc>>

(* The request is refused: the operation returns -1 without suspending.    *)
AsyncOpRefused ==
  /\ cpu # Main
  /\ RequestRefused
  /\ UNCHANGED exVars

-----------------------------------------------------------------------------
(* The function returns: execute() calls manage_async_finish().            *)

(* It was the last live frame: nothing is swapped, execute() returns, and  *)
(* uc_link resumes the main frame.                                         *)
FinishLast ==
  /\ cpu # Main
  /\ current = size - 1
  /\ size' = size - 1
  /\ Resume(Main)
  /\ UNCHANGED <<ioVars, frames, current, isReady, result, exe, mpc>>

SlipCopiesLast(fr) == [fr EXCEPT ![current] = fr[size - 1]]
SwapWithLast(fr) ==
  [fr EXCEPT ![size - 1] = fr[current], ![current] = fr[size - 1]]

SlipAlwaysScansOn(fr, n) == NextReady(fr, n, isReady)
NextAfterSwap(fr, n) ==
  IF isReady[fr[current]] THEN current ELSE NextReady(fr, n, isReady)

(* Otherwise it trades places with the last live frame, which runs next if *)
(* it is ready; if not the scan goes on from there, and falls through to   *)
(* uc_link when it comes to the main frame.                                *)
FinishSwap ==
  /\ cpu # Main
  /\ current # size - 1
  /\ frames' = SwapWithLast(frames)
  /\ size' = size - 1
  /\ current' = NextAfterSwap(frames', size')
  /\ LET next == frames'[current']
     IN  IF next = Main
         THEN Resume(Main) /\ UNCHANGED exe
         ELSE Switch(frames[current], "finished", next)
  /\ UNCHANGED <<ioVars, isReady, result, mpc>>

-----------------------------------------------------------------------------
(* run() *)

RunStart ==
  /\ cpu = Main
  /\ mpc = "setup"
  /\ mpc' = "loop"
  /\ UNCHANGED <<ioVars, frames, current, size, isReady, result, exe, cpu>>

(* One turn's switch to the next ready frame.  The context is stored in    *)
(* frames[current], whichever frame that is.                               *)
RunSwitch ==
  /\ cpu = Main
  /\ mpc = "loop"
  /\ LET frame == frames[current]
         next == frames[current']
     IN  /\ current' = NextReady(frames, size, isReady)
         /\ IF next = frame
            THEN UNCHANGED <<exe, cpu>>
            ELSE Switch(frame, "run", next)
  /\ mpc' = "swapped"
  /\ UNCHANGED <<ioVars, frames, size, isReady, result>>

RunBreak ==
  /\ cpu = Main
  /\ mpc = "swapped"
  /\ size <= 1
  /\ mpc' = "returned"
  /\ UNCHANGED <<ioVars, frames, current, size, isReady, result, exe, cpu>>

RunSubmit ==
  /\ cpu = Main
  /\ mpc = "swapped"
  /\ size > 1
  /\ ProcessSubmit(BatchSize)
  /\ mpc' = "process"
  /\ UNCHANGED <<frames, current, size, isReady, result, exe, cpu>>

(* process() returned an error: run() logs it and returns.                 *)
RunFails ==
  /\ cpu = Main
  /\ \/ mpc = "swapped" /\ size > 1 /\ ProcessSubmitFails
     \/ mpc = "process" /\ ProcessWaitFails
  /\ mpc' = "returned"
  /\ UNCHANGED <<frames, current, size, isReady, result, exe, cpu>>

RunReap ==
  /\ ProcessPeek \/ ProcessWait \/ ProcessRelease
  /\ UNCHANGED exVars

SlipNotWoken ==
  /\ ProcessCallback
  /\ result' = [result EXCEPT ![token[Reaped.req.tok].data] = Reaped.res]
  /\ UNCHANGED <<frames, current, size, isReady, exe, cpu, mpc>>

SlipCallsFirstOfBatch ==
  /\ ProcessCallback
  /\ LET called == token[cq[1].req.tok]
     IN  /\ result' = [result EXCEPT ![called.data] =
                         IF called.type = "WAIT" THEN @ ELSE Reaped.res]
         /\ isReady' = [isReady EXCEPT ![called.data] = TRUE]
  /\ UNCHANGED <<frames, current, size, exe, cpu, mpc>>

SlipCallsLastOfBatch ==
  /\ ProcessCallback
  /\ LET called == token[cq[count].req.tok]
     IN  /\ result' = [result EXCEPT ![called.data] =
                         IF called.type = "WAIT" THEN @ ELSE Reaped.res]
         /\ isReady' = [isReady EXCEPT ![called.data] = TRUE]
  /\ UNCHANGED <<frames, current, size, exe, cpu, mpc>>

(* read_fn, write_fn and accept_fn store the result; wait_fn does not.     *)
RunCallback ==
  /\ ProcessCallback
  /\ LET called == token[Reaped.req.tok]
     IN  /\ result' = [result EXCEPT ![called.data] =
                         IF called.type = "WAIT" THEN @ ELSE Reaped.res]
         /\ isReady' = [isReady EXCEPT ![called.data] = TRUE]
  /\ UNCHANGED <<frames, current, size, exe, cpu, mpc>>

RunAdvance ==
  /\ ProcessAdvance
  /\ mpc' = "loop"
  /\ UNCHANGED <<frames, current, size, isReady, result, exe, cpu>>

Run ==
  \/ RunStart \/ RunSwitch \/ RunBreak \/ RunSubmit \/ RunFails
  \/ RunReap \/ RunCallback \/ RunAdvance

-----------------------------------------------------------------------------
Kernel == KernelComplete /\ UNCHANGED exVars

(* free_executor after run(): the stacks and the frames are freed by the   *)
(* pointers found in frames[0], which must be those calloc returned; then  *)
(* the I/O context.                                                        *)
FreeExecutor ==
  /\ mpc = "returned"
  /\ IF frames[0] = Main THEN FreeIOContext
     ELSE pc' = "aborted" /\ UNCHANGED <<tail, avail, token, sq, inflight, cq,
                                         limit, count, done>>
  /\ mpc' = "freed"
  /\ UNCHANGED <<frames, current, size, isReady, result, exe, cpu>>

(* The program ends after free_executor.                                   *)
Ended == mpc = "freed" /\ UNCHANGED vars

Yield == (\E ty \in Ops : AsyncOp(ty)) \/ FinishLast \/ FinishSwap

Next ==
  \/ AsyncExec \/ AsyncExecFull \/ AsyncOpRefused
  \/ Yield
  \/ Run
  \/ Kernel
  \/ FreeExecutor \/ Ended

Spec == Init /\ [][Next]_vars

(* The scheduling the code does is fair only if the coroutines cooperate:  *)
(* the processor keeps executing the main context; a coroutine that runs   *)
(* eventually suspends or returns; and coroutines that could await keep    *)
(* doing so, rather than only spawn a successor and return, one after the  *)
(* other, which would keep the processor from run() for good.  Nothing is  *)
(* assumed of the kernel.                                                  *)
Fairness ==
  /\ WF_vars(Run)
  /\ WF_vars(Yield)
  /\ SF_vars(\E ty \in Ops : AsyncOp(ty))

FairSpec == Spec /\ Fairness

-----------------------------------------------------------------------------
(* Properties *)

TypeOK ==
  /\ IOTypeOK
  /\ frames \in [Frames -> Frames]
  /\ current \in Frames
  /\ size \in 1 .. FrameCapacity
  /\ isReady \in [Frames -> BOOLEAN]
  /\ result \in [Frames -> Int]
  /\ exe \in [Frames -> Context]
  /\ cpu \in Frames
  /\ mpc \in {"setup", "loop", "swapped", "process", "returned", "freed"}

(* Swapping frames on every return never duplicates or loses one, and the  *)
(* main frame stays at index 0, where uc_link, the scan and free_executor  *)
(* look for it.                                                            *)
FramesPermuted ==
  /\ frames[0] = Main
  /\ \A i, j \in Frames : frames[i] = frames[j] => i = j

(* async_* find their caller by executor->current: while a coroutine runs, *)
(* that is its own frame, however frames were swapped since it started.    *)
CurrentIsRunning == cpu # Main => current < size /\ frames[current] = cpu

(* A live frame is not ready exactly while one request of its own is       *)
(* pending; a frame that is ready or not in use has none.  So no coroutine *)
(* sleeps forever for want of a completion, and no late completion hits    *)
(* the next coroutine that reuses a frame.                                 *)
SleepsOnOwnRequest ==
  pc \notin {"freed", "aborted"} =>
    \A f \in Frames :
      Cardinality({e \in Pending : e.who = f}) =
        IF f \in Live /\ ~isReady[f] THEN 1 ELSE 0

(* run() blocks for a completion only when nothing can run and the kernel  *)
(* has something to complete: the loop cannot hang on an empty ring.       *)
BlocksOnlyWithReason ==
  pc = "wait" => /\ \A f \in Live : ~isReady[f]
                 /\ inflight # {} \/ cq # << >>

(* Every live frame that is off the processor holds its own coroutine's    *)
(* context, fresh or suspended, and the main frame holds run()'s: nothing  *)
(* overwrites a context that is still to be resumed, although run() may    *)
(* store its own in a frame that is not the main one.                      *)
ContextsIntact ==
  /\ \A f \in Live : f # cpu =>
       exe[f].stack = f /\ exe[f].at \in {"entry", "suspended"}
  /\ cpu # Main => exe[Main] = [stack |-> Main, at |-> "run"]

(* A frame is woken and its result written only by the completion of the   *)
(* request it is suspended on, with the value the kernel answered to it.   *)
WokenByOwnCompletion ==
  [][\A f \in Live :
       (isReady'[f] # isReady[f] /\ isReady'[f]) \/ result'[f] # result[f] =>
         /\ pc = "callback" /\ Reaped.req.who = f /\ ~isReady[f]
         /\ Reaped.req.op # "WAIT" => result'[f] = Reaped.res]_vars

(* The processor only ever goes to the main context or to a live, ready    *)
(* coroutine that has not returned.                                        *)
ResumesOnlyRunnable ==
  [][cpu' # cpu /\ cpu' # Main =>
       cpu' \in Live /\ isReady[cpu'] /\ exe[cpu'].at # "finished"]_vars

(* With at least as many tokens as frames (every program of the repository *)
(* asks for more) no request is ever refused, and freeing the executor     *)
(* gives the allocator its own pointers.                                   *)
TokensSuffice ==
  FrameCapacity <= Capacity =>
    /\ cpu # Main => tail > 0
    /\ pc # "aborted"

(* What a user of the executor may rely on: RoundRobin, with a coroutine   *)
(* for each frame but the main one.                                        *)
Slots == Frames \ {Main}

RequestsOf(f) == {e \in Pending : e.who = f}
AnswersTo(f) == {c \in Answered : c.req.who = f}

OpOf(requests) == IF requests = {} THEN Null ELSE (CHOOSE e \in requests : TRUE).op
ResOf(answers) == IF answers = {} THEN Null ELSE (CHOOSE c \in answers : TRUE).res

SlotStatus ==
  [f \in Slots |-> IF f \notin Live THEN "free"
                   ELSE IF f = cpu THEN "running"
                   ELSE IF isReady[f] THEN "ready" ELSE "waiting"]
SlotsInTurn ==
  IF cpu = Main THEN {}
  ELSE {f \in {frames[i] : i \in current + 1 .. size - 1} : isReady[f]}
SlotAwaits == [f \in Slots |-> OpOf(RequestsOf(f))]
SlotAnswer == [f \in Slots |-> ResOf(AnswersTo(f))]
SlotOutcome == [f \in Slots |-> result[f]]

RR == INSTANCE RoundRobin WITH
        Operations <- Ops,
        Answers <- Results,
        None <- Null,
        status <- SlotStatus,
        turn <- SlotsInTurn,
        awaits <- SlotAwaits,
        answer <- SlotAnswer,
        outcome <- SlotOutcome,
        over <- mpc = "freed"

(* The index arithmetic of the scan and the swapping of returned frames    *)
(* amount to rounds: nobody ready is skipped, nobody runs twice before the *)
(* main context has been back to process(); and tokens, rings and batches  *)
(* amount to an operation being answered to the coroutine that awaits it.  *)
RunsInRounds == RR!RRSpec

(* lib/Executor.h:476-477 of run(): the loop continues until there is only *)
(* one remaining frame.                                                    *)
RunEndsEmpty == mpc = "returned" => size <= 1

(* A completion the kernel has posted reaches its coroutine, which gets    *)
(* the processor, unless process() fails and run() returns first.          *)
CompletionResumes ==
  \A f \in Frames :
    (\E i \in 1 .. Len(cq) : cq[i].req.who = f)
      ~> (cpu = f \/ mpc \in {"returned", "freed"})

(* A ready coroutine, spawned or woken, gets the processor.                *)
ReadyRuns == \A f \in Frames \ {Main} : (f \in Live /\ isReady[f]) ~> cpu = f
=============================================================================

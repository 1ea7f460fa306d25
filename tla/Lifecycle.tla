----------------------------- MODULE Lifecycle -----------------------------
(***************************************************************************)
(* What an executor owns, from init_executor to free_executor              *)
(* (src/Executor.c) and, inside them, init_io_context and free_io_context  *)
(* (src/IOContext.c): five blocks of memory and an io_uring.  Any          *)
(* allocation may fail, the kernel may refuse the ring, and the sizes a    *)
(* caller asks for may not survive align32pow2.                            *)
(*                                                                         *)
(* Everything is sequential; what makes it hard is the number of ways to   *)
(* stop half-way, and what the caller can do then.  A caller gives a       *)
(* failed executor up, or frees it.                                        *)
(*                                                                         *)
(* The state after an invalid memory access is "undefined" and final.      *)
(***************************************************************************)
EXTENDS Align32

CONSTANTS
  SizeWidth,     (* bits of size_t                                         *)
  MaxEntries     (* the largest ring the kernel makes                      *)

ASSUME SizesAssumption == SizeWidth \in Nat /\ Width <= SizeWidth /\ MaxEntries \subseteq Bits

(* The values of a size_t, and what adding 1 to one makes of it.           *)
Sizes == SUBSET (0 .. SizeWidth - 1)
PlusOne(n) == Succ(n, SizeWidth)

VARIABLES
  count, capacity,   (* what the caller asked for                          *)
  pc,                (* what comes next                                    *)
  blocks,            (* allocated and not freed                            *)
  ring,              (* "none", "made", or "exited" without being made     *)
  exe                (* the fields of struct Executor that matter          *)

vars == <<count, capacity, pc, blocks, ring, exe>>

-----------------------------------------------------------------------------
TokenBlocks == {"available_tokens", "tokens"}
FrameBlocks == {"frames", "stack_mem", "frame_mem"}

(* A pointer is NULL, points to the block of its name, or to where it was, *)
(* or was never written at all.                                            *)
Pointer == {"null", "block", "dangling", "junk"}

(* available_tokens[i] and frames[i] hold pointers once they are linked.   *)
Struct == [available_tokens : Pointer, frames : Pointer, linked : BOOLEAN,
           capacity : SUBSET Bits, iocCapacity : SUBSET Bits]

Zero == [available_tokens |-> "null", frames |-> "null", linked |-> FALSE,
         capacity |-> {}, iocCapacity |-> {}]

Junk == [Zero EXCEPT !.available_tokens = "junk", !.frames = "junk"]

Init ==
  /\ count \in Sizes
  /\ capacity \in Sizes
  /\ pc = "init"
  /\ blocks = {}
  /\ ring = "none"
  /\ exe = Junk

-----------------------------------------------------------------------------
(* init_executor *)

(* count is tested before the struct is cleared, capacity after it, by     *)
(* init_io_context.                                                        *)
InitExecutor ==
  /\ pc = "init"
  /\ exe' = IF count = {} THEN exe ELSE Zero
  /\ pc' = IF count = {} \/ capacity = {} THEN "failed" ELSE "tokens"
  /\ UNCHANGED <<count, capacity, blocks, ring>>

SlipKeepsTheOther ==
  /\ pc = "tokens"
  /\ \E got \in SUBSET TokenBlocks :
       /\ blocks' = blocks \cup got
       /\ exe' = [exe EXCEPT !.iocCapacity = align32pow2(PlusOne(capacity)),
                             !.available_tokens = "block"]
       /\ pc' = IF got = TokenBlocks THEN "queue" ELSE "failed"
  /\ UNCHANGED <<count, capacity, ring>>

(* Both arrays of init_io_context, or neither: what was got is given back, *)
(* but the field still holds the pointer.                                  *)
AllocateTokens ==
  /\ pc = "tokens"
  /\ \E got \in SUBSET TokenBlocks :
       LET ok == got = TokenBlocks
       IN  /\ blocks' = IF ok THEN blocks \cup got ELSE blocks
           /\ exe' = [exe EXCEPT
                !.iocCapacity = align32pow2(PlusOne(capacity)),
                !.available_tokens = IF ok THEN "block"
                                     ELSE IF "available_tokens" \in got THEN "dangling"
                                     ELSE "null"]
           /\ pc' = IF ok THEN "queue" ELSE "failed"
  /\ UNCHANGED <<count, capacity, ring>>

(* The kernel takes 1 to MaxEntries entries.                               *)
QueueInit ==
  /\ pc = "queue"
  /\ exe.iocCapacity # {} /\ ~Less(MaxEntries, exe.iocCapacity)
  /\ ring' = "made"
  /\ pc' = "frames"
  /\ UNCHANGED <<count, capacity, blocks, exe>>

(* free_io_context: queue_exit on whatever the ring is, then the tokens    *)
(* through the first entry of the other array, then that.  An array of no  *)
(* entries has no first one to read: what lies there is NULL, and the      *)
(* tokens stay, or anything, and free() is given that.                     *)
FreeIOContext ==
  /\ ring' = IF ring = "made" THEN "none" ELSE "exited"
  /\ blocks' = blocks \ (IF exe.iocCapacity = {} THEN {"available_tokens"} ELSE TokenBlocks)

(* The kernel refuses: too many entries or none, or no memory for them.    *)
QueueInitFails ==
  /\ pc = "queue"
  /\ \/ /\ FreeIOContext
        /\ exe' = [exe EXCEPT !.available_tokens = "null", !.iocCapacity = {}]
        /\ pc' = "failed"
     \/ exe.iocCapacity = {} /\ pc' = "undefined" /\ UNCHANGED <<blocks, ring, exe>>
  /\ UNCHANGED <<count, capacity>>

(* The three blocks of init_executor.  If one fails the other two are      *)
(* given back, except for the array of frames; the I/O context stays.      *)
AllocateFrames ==
  /\ pc = "frames"
  /\ \E got \in SUBSET FrameBlocks :
       LET ok == got = FrameBlocks
       IN  /\ blocks' = blocks \cup (IF ok THEN got ELSE got \cap {"frames"})
           /\ exe' = [exe EXCEPT
                !.capacity = align32pow2(PlusOne(count)),
                !.frames = IF "frames" \in got THEN "block" ELSE "null"]
           /\ pc' = IF ok THEN "link" ELSE "failed"
  /\ UNCHANGED <<count, capacity, ring>>

(* The frames are linked and frames[0], if there is one, made ready.       *)
LinkFrames ==
  /\ pc = "link"
  /\ exe' = [exe EXCEPT !.linked = exe.capacity # {}]
  /\ pc' = IF exe.capacity # {} THEN "ready" ELSE "undefined"
  /\ UNCHANGED <<count, capacity, blocks, ring>>

-----------------------------------------------------------------------------
(* free_executor *)

SlipFreesFramesOnly ==
  /\ pc = "ready"
  /\ blocks' = blocks \ {"stack_mem", "frame_mem"}
  /\ pc' = "free_io_context"
  /\ UNCHANGED <<count, capacity, ring, exe>>

(* The stacks and the frames by the pointers in frames[0], then frames.    *)
FreeExecutor ==
  /\ pc = "ready"
  /\ blocks' = blocks \ FrameBlocks
  /\ pc' = "free_io_context"
  /\ UNCHANGED <<count, capacity, ring, exe>>

FreeExecutorEnds ==
  /\ pc = "free_io_context"
  /\ FreeIOContext
  /\ exe' = Zero
  /\ pc' = "freed"
  /\ UNCHANGED <<count, capacity>>

(* No frames: only the struct is cleared.                                  *)
FreeUninitialized ==
  /\ pc = "failed"
  /\ exe.frames = "null"
  /\ exe' = Zero
  /\ pc' = "freed"
  /\ UNCHANGED <<count, capacity, blocks, ring>>

(* frames, or the NULL in frames[0], is dereferenced.                      *)
FreeHalfMade ==
  /\ pc = "failed"
  /\ exe.frames = "junk" \/ (exe.frames = "block" /\ ~exe.linked)
  /\ pc' = "undefined"
  /\ UNCHANGED <<count, capacity, blocks, ring, exe>>

Ended == pc \in {"freed", "failed", "undefined"} /\ UNCHANGED vars

Next ==
  \/ InitExecutor \/ AllocateTokens \/ QueueInit \/ QueueInitFails
  \/ AllocateFrames \/ LinkFrames
  \/ FreeExecutor \/ FreeExecutorEnds \/ FreeUninitialized \/ FreeHalfMade
  \/ Ended

Spec == Init /\ [][Next]_vars

-----------------------------------------------------------------------------
(* Properties *)

LifecycleTypeOK ==
  /\ count \in Sizes /\ capacity \in Sizes
  /\ pc \in {"init", "tokens", "queue", "frames", "link", "ready", "failed",
             "free_io_context", "freed", "undefined"}
  /\ blocks \subseteq TokenBlocks \cup FrameBlocks
  /\ ring \in {"none", "made", "exited"}
  /\ exe \in Struct

(* An executor that was made has the least power of two of frames that     *)
(* holds main and `count' coroutines, and of tokens likewise - as long as  *)
(* less than half of the unsigned range is asked for.  From there on it    *)
(* has no more than were asked for, and nobody is told.                    *)
LeastPowerAbove(n, got) == \E k \in n : (\A j \in n : j <= k) /\ got = {k + 1}

RoundsUp ==
  pc = "ready" =>
    \A asked \in {<<count, exe.capacity>>, <<capacity, exe.iocCapacity>>} :
      IF asked[1] \subseteq 0 .. Width - 2
      THEN LeastPowerAbove(asked[1], asked[2])
      ELSE ~Less(asked[1], asked[2])

(* What a failed init_executor leaves to a caller who gives up: nothing    *)
(* if it failed before the ring, except that the ring's own failure        *)
(* "exits" a ring nobody made, and loses the tokens of an array of no      *)
(* entries; after the ring was made all of the I/O context, and perhaps    *)
(* the array of frames.  Never a ring without its tokens, or the reverse.  *)
LeftBehindOnFailure ==
  pc = "failed" =>
    \/ ring = "none" /\ blocks = {}
    \/ ring = "exited" /\ blocks \subseteq {"tokens"}
         /\ (blocks # {} => LET x == Cut(PlusOne(capacity)) IN x = {} \/ Less({Width - 1}, x))
    \/ ring = "made" /\ blocks \ {"frames"} = TokenBlocks

(* lib/Executor.h:462-464, of free_executor: it "ensures proper cleanup to *)
(* prevent memory leaks".  So it does for an executor that was made: every *)
(* block, the ring, and no pointer kept.                                   *)
FreeReturnsEverything ==
  [][pc' = "freed" /\ exe.linked => blocks' = {} /\ ring' = "none" /\ exe' = Zero]_vars
=============================================================================

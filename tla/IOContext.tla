----------------------------- MODULE IOContext -----------------------------
(***************************************************************************)
(* The I/O context of Cring (src/IOContext.c and lib/IOContext.h): a bag   *)
(* of tokens kept as a stack of pointers, the io_uring that carries        *)
(* requests to the kernel and completions back, and process(), which       *)
(* submits, reaps a batch and calls back.                                  *)
(*                                                                         *)
(* A request is prepared in user memory (sq), consumed by the kernel       *)
(* (inflight) and answered in the completion queue (cq).  The kernel runs  *)
(* concurrently with everything else: KernelComplete interleaves with      *)
(* every step of process().                                                *)
(*                                                                         *)
(* Abstracted: file descriptors, buffers and timespecs (a submission names *)
(* the operation and its requester instead), the callback pointer (each    *)
(* request type has its own callback, so `type' stands for it), logging.   *)
(*                                                                         *)
(* Definitions that begin with "Slip" are wrong variants of the definition *)
(* after them, each a slip the code could have made.  Nothing uses them:   *)
(* they are put in place of the right one to see a property fail.          *)
(***************************************************************************)
EXTENDS Integers, Sequences, FiniteSets

CONSTANTS
  Capacity,    (* ioc->capacity: tokens, and entries of the submission ring *)
  MaxBatch,    (* MAX_BATCH_SIZE                                           *)
  BatchSizes,  (* the values callers pass as `batch' to process()          *)
  Data,        (* the values callers pass as `void *data'                  *)
  Results,     (* the values of cqe->res                                   *)
  Null         (* memory calloc'ed and never written                       *)

ASSUME CapacityAssumption == Capacity \in Nat \ {0}
ASSUME BatchAssumption == MaxBatch \in Nat \ {0} /\ BatchSizes \subseteq Nat

VARIABLES
  tail,      (* ioc->tail: number of available tokens                      *)
  avail,     (* ioc->available_tokens: entries at or above tail are stale  *)
  token,     (* the Token structs, by their index in the `tokens' array    *)
  sq,        (* prepared submissions the kernel has not consumed           *)
  inflight,  (* submissions the kernel works on                            *)
  cq,        (* completion ring, from its head to its tail                 *)
  pc,        (* where process() is; "idle" when it does not run            *)
  limit,     (* process(): batch after clamping                            *)
  count,     (* process(): completions in this batch                       *)
  done       (* process(): completions of this batch already handled       *)

ioVars == <<tail, avail, token, sq, inflight, cq, pc, limit, count, done>>

-----------------------------------------------------------------------------
(* Data types *)

RequestType == {"ACCEPT", "READ", "WRITE", "WAIT"}
Tokens == 0 .. Capacity - 1
BaseToken == 0                \* the pointer calloc returned for the array

TokenStruct == [type : RequestType \cup {Null}, data : Data \cup {Null}]

(* An sqe: user_data is the token; the operation and the memory it works   *)
(* on belong to the requester, whatever the token says later.              *)
Submission == [tok : Tokens, op : RequestType, who : Data]
Completion == [req : Submission, res : Results]

SlipRingSizedBeforeAligning == Capacity - 1
(* io_uring_queue_init_params sizes the rings from the power of two it is  *)
(* given: as many sqes as tokens, twice as many cqes.                      *)
SqEntries == Capacity
CqEntries == 2 * Capacity

IOInit ==
  /\ tail = Capacity
  /\ avail = [i \in Tokens |-> i]
  /\ token = [t \in Tokens |-> [type |-> Null, data |-> Null]]
  /\ sq = << >>
  /\ inflight = {}
  /\ cq = << >>
  /\ pc = "idle"
  /\ limit = 0
  /\ count = 0
  /\ done = 0

-----------------------------------------------------------------------------
(* request_wait, request_accept, request_read, request_write *)

(* Caller's code runs outside process() and inside the callbacks it makes. *)
CallerRuns == pc \in {"idle", "release"}

SlipTypeNotSet(ty, d) ==
  /\ CallerRuns
  /\ tail # 0
  /\ Len(sq) < SqEntries
  /\ LET t == avail[tail - 1]
     IN  /\ token' = [token EXCEPT ![t].data = d]
         /\ sq' = Append(sq, [tok |-> t, op |-> ty, who |-> d])
  /\ tail' = tail - 1
  /\ UNCHANGED <<avail, inflight, cq, pc, limit, count, done>>

Request(ty, d) ==
  /\ CallerRuns
  /\ tail # 0
  /\ Len(sq) < SqEntries
  /\ LET t == avail[tail - 1]
     IN  /\ token' = [token EXCEPT ![t] = [type |-> ty, data |-> d]]
         /\ sq' = Append(sq, [tok |-> t, op |-> ty, who |-> d])
  /\ tail' = tail - 1
  /\ UNCHANGED <<avail, inflight, cq, pc, limit, count, done>>

(* No token, or no sqe (then the token goes back where it was): the caller *)
(* gets -1 and nothing has changed.                                        *)
RequestRefused ==
  /\ CallerRuns
  /\ tail = 0 \/ Len(sq) >= SqEntries
  /\ UNCHANGED ioVars

-----------------------------------------------------------------------------
(* process(): submit, peek or wait, then call back and release one         *)
(* completion at a time, then advance the ring past the batch.             *)

(* io_uring_submit consumes everything, or stops early at a submission the *)
(* kernel rejects or has no memory for; what is left stays prepared.       *)
SubmitCounts == IF sq = << >> THEN {0} ELSE 1 .. Len(sq)

SlipUnclamped(batch) == batch
Clamp(batch) == IF batch > MaxBatch THEN MaxBatch ELSE batch

ProcessSubmit(batch) ==
  /\ pc = "idle"
  /\ batch # 0
  /\ \E k \in SubmitCounts :
       /\ inflight' = inflight \cup {sq[i] : i \in 1 .. k}
       /\ sq' = SubSeq(sq, k + 1, Len(sq))
  /\ limit' = Clamp(batch)
  /\ pc' = "peek"
  /\ UNCHANGED <<tail, avail, token, cq, count, done>>

(* io_uring_submit returns an error (EAGAIN, EBUSY, EINTR): process()      *)
(* returns it at once.                                                     *)
ProcessSubmitFails ==
  /\ pc = "idle"
  /\ sq # << >>
  /\ UNCHANGED ioVars

SlipCountsWholeBatch ==
  /\ pc = "peek"
  /\ done' = 0
  /\ count' = limit
  /\ pc' = IF cq = << >> THEN "wait" ELSE "callback"
  /\ UNCHANGED <<tail, avail, token, sq, inflight, cq, limit>>

ProcessPeek ==
  /\ pc = "peek"
  /\ done' = 0
  /\ count' = IF Len(cq) < limit THEN Len(cq) ELSE limit
  /\ pc' = IF cq = << >> THEN "wait" ELSE "callback"
  /\ UNCHANGED <<tail, avail, token, sq, inflight, cq, limit>>

(* io_uring_wait_cqe blocks until the completion ring has an entry; only   *)
(* the first is taken, whatever has arrived meanwhile.                     *)
ProcessWait ==
  /\ pc = "wait"
  /\ cq # << >>
  /\ count' = 1
  /\ pc' = "callback"
  /\ UNCHANGED <<tail, avail, token, sq, inflight, cq, limit, done>>

(* The wait is interrupted (EINTR): process() returns the error.           *)
ProcessWaitFails ==
  /\ pc = "wait"
  /\ cq = << >>
  /\ pc' = "idle"
  /\ UNCHANGED <<tail, avail, token, sq, inflight, cq, limit, count, done>>

Reaped == cq[done + 1]             \* cqes[i]

(* ((..._cb)token->cb)(cqe->res, token->data): what the callback does is   *)
(* up to the caller.                                                       *)
ProcessCallback ==
  /\ pc = "callback"
  /\ pc' = "release"
  /\ UNCHANGED <<tail, avail, token, sq, inflight, cq, limit, count, done>>

SlipFullTooEarly(t) ==
  IF tail >= Capacity - 1
  THEN UNCHANGED <<avail, tail>>
  ELSE /\ avail' = [avail EXCEPT ![tail] = t]
       /\ tail' = tail + 1

ReleaseToken(t) ==
  IF tail = Capacity
  THEN UNCHANGED <<avail, tail>>
  ELSE /\ avail' = [avail EXCEPT ![tail] = t]
       /\ tail' = tail + 1

ProcessRelease ==
  /\ pc = "release"
  /\ ReleaseToken(Reaped.req.tok)
  /\ done' = done + 1
  /\ pc' = IF done + 1 < count THEN "callback" ELSE "advance"
  /\ UNCHANGED <<token, sq, inflight, cq, limit, count>>

Advance(n) ==
  /\ pc = "advance"
  /\ cq' = SubSeq(cq, n + 1, Len(cq))
  /\ count' = 0
  /\ done' = 0
  /\ pc' = "idle"
  /\ UNCHANGED <<tail, avail, token, sq, inflight, limit>>

SlipAdvancesOneLess == Advance(count - 1)
SlipAdvancesPastLateOnes == Advance(Len(cq))
ProcessAdvance == Advance(count)

-----------------------------------------------------------------------------
(* The kernel answers in any order, at any time.                           *)
KernelComplete ==
  \E e \in inflight, r \in Results :
    /\ inflight' = inflight \ {e}
    /\ cq' = Append(cq, [req |-> e, res |-> r])
    /\ UNCHANGED <<tail, avail, token, sq, pc, limit, count, done>>

(* free_io_context: the ring goes, then free(available_tokens[0]) must be  *)
(* given the pointer calloc returned; the allocator aborts on any other.   *)
FreeIOContext ==
  /\ pc = "idle"
  /\ pc' = IF avail[0] = BaseToken THEN "freed" ELSE "aborted"
  /\ tail' = 0
  /\ sq' = << >>
  /\ inflight' = {}
  /\ cq' = << >>
  /\ UNCHANGED <<avail, token, limit, count, done>>

IONext ==
  \/ \E ty \in RequestType, d \in Data : Request(ty, d)
  \/ RequestRefused
  \/ \E batch \in BatchSizes : ProcessSubmit(batch)
  \/ ProcessSubmitFails
  \/ ProcessPeek
  \/ ProcessWait
  \/ ProcessWaitFails
  \/ ProcessCallback
  \/ ProcessRelease
  \/ ProcessAdvance
  \/ KernelComplete
  \/ FreeIOContext

IOSpec == IOInit /\ [][IONext]_ioVars

-----------------------------------------------------------------------------
(* Properties *)

IOTypeOK ==
  /\ tail \in 0 .. Capacity
  /\ avail \in [Tokens -> Tokens]
  /\ token \in [Tokens -> TokenStruct]
  /\ sq \in Seq(Submission)
  /\ inflight \in SUBSET Submission
  /\ cq \in Seq(Completion)
  /\ pc \in {"idle", "peek", "wait", "callback", "release", "advance",
             "freed", "aborted"}
  /\ limit \in 0 .. MaxBatch
  /\ count \in 0 .. Len(cq)
  /\ done \in 0 .. count

FreeTokens == {avail[i] : i \in 0 .. tail - 1}
SqTokens == {sq[i].tok : i \in 1 .. Len(sq)}
InflightTokens == {e.tok : e \in inflight}
CqTokens == {cq[i].req.tok : i \in done + 1 .. Len(cq)}

(* Each token is held once: no two places of the free stack, of the        *)
(* submission ring, of the kernel's work and of the unhandled completions  *)
(* hold the same token.  Otherwise two requests share one Token struct and *)
(* the second overwrites the callback data of the first.                   *)
NoTokenSharing ==
  /\ \A i, j \in 0 .. tail - 1 : avail[i] = avail[j] => i = j
  /\ \A i, j \in 1 .. Len(sq) : sq[i].tok = sq[j].tok => i = j
  /\ \A e, f \in inflight : e.tok = f.tok => e = f
  /\ \A i, j \in done + 1 .. Len(cq) : cq[i].req.tok = cq[j].req.tok => i = j
  /\ FreeTokens \cap (SqTokens \cup InflightTokens \cup CqTokens) = {}
  /\ SqTokens \cap (InflightTokens \cup CqTokens) = {}
  /\ InflightTokens \cap CqTokens = {}

(* No token is ever lost: every token is available or belongs to a request *)
(* whose callback has not returned, through refused requests, partial      *)
(* submissions and failed process() calls alike.                           *)
NoTokenLeak ==
  pc \notin {"freed", "aborted"} =>
    FreeTokens \cup SqTokens \cup InflightTokens \cup CqTokens = Tokens

Unhandled == {cq[i].req : i \in done + 1 .. Len(cq)}
Outstanding == {sq[i] : i \in 1 .. Len(sq)} \cup inflight \cup Unhandled

(* Whatever happened since, the token a completion will carry still names  *)
(* the operation the kernel performed and the requester it performed it    *)
(* for, so process() calls the right callback with the right data.         *)
TokenDescribesRequest ==
  \A e \in Outstanding : token[e.tok] = [type |-> e.op, data |-> e.who]

(* A free token guarantees a free sqe, so the release path of request_* is *)
(* never needed; and the completion ring has room for every answer the     *)
(* kernel owes, so no completion is dropped or deferred.                   *)
RingsNeverOverflow ==
  /\ tail > 0 => Len(sq) < SqEntries
  /\ Len(cq) + Cardinality(inflight) <= CqEntries

(* free_io_context never hands the allocator anything but the pointer the  *)
(* token array was allocated at (lib/IOContext.h:91: it releases the token *)
(* arrays).                                                                *)
FreesTokenArray == pc # "aborted"

(* The requests whose callback has not been made yet.                      *)
CalledBack == IF pc = "release" THEN done + 1 ELSE done
Answered == {cq[i] : i \in CalledBack + 1 .. Len(cq)}
Asked == {sq[i] : i \in 1 .. Len(sq)} \cup inflight
Pending == Asked \cup {c.req : c \in Answered}

(* What a caller may rely on: CompletionService, with the tokens as        *)
(* tickets.  The callback's arguments are those process() finds: the type  *)
(* and the data in the Token struct that the completion points to.         *)
Callback ==
  IF pc # "release" THEN {}
  ELSE LET called == token[Reaped.req.tok]
       IN  {[tok |-> Reaped.req.tok, type |-> called.type, data |-> called.data,
             res |-> Reaped.res]}

CS == INSTANCE CompletionService WITH
        Tickets <- Tokens,
        Types <- RequestType,
        Requesters <- Data,
        Responses <- Results,
        asked <- Asked,
        answered <- Answered,
        calling <- Callback,
        closed <- pc \in {"freed", "aborted"}

(* Batches, early release of tokens and their reuse by requests that       *)
(* callbacks make amount to that: no request is called back twice, or for  *)
(* another, or with another's answer.                                      *)
IsCompletionService == CS!CSSpec
=============================================================================

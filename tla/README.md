# Verification of Cring

TLA+ models of [Cring](../src/README.md), a small asynchronous executor in C:
stackful coroutines switched with `swapcontext`, on top of `io_uring`; of the
servers written with it; and of the search panel that Doxygen put into its
reference manual.  TLC checks the models on small instances; the TLA+ proof
system proves what matters most for every number of frames and tokens.  Paths
below are relative to the root of the repository.

## The system

| component | code | state | operations |
|---|---|---|---|
| I/O context | `src/IOContext.c`, `lib/IOContext.h` | the `Token` structs, a stack of pointers to the free ones, the io_uring | `init_io_context`, `request_wait/accept/read/write`, `process`, `free_io_context` |
| Executor | `src/Executor.c`, `lib/Executor.h` | the array of frame pointers with its live prefix (`size`) and index (`current`); in each frame a saved context, `is_ready`, `result` | `init_executor`, `async_exec`, `async_wait/accept/read/write`, return of a coroutine (`manage_async_finish`), `run`, `free_executor` |
| Alignment helpers | `lib/Common.h` | none | `align32pow2` (`align64pow2` has no caller) |
| Echo server | `examples/echo/echo-server.c` | a descriptor in the server's frame, one in each handler's | accept and spawn; read, write back, close |
| Ping-pong benchmark server | `benchmarks/pingpong-server.c` | the same | the same, with a loop in the handler |
| Chat server | `examples/chat/chat-server.c` | sessions and message queues on the heap, the room's list of participants | join, broadcast, deliver, leave |
| Search panel of the reference manual (generated by Doxygen) | `docs/html/search/search.js`, wired up in `docs/html/menu.js` | field, section filter, two timers, three windows, the rows of the results frame | event handlers |
| Clients, utilities, tests, build files, the rest of the manual | `examples/`, `benchmarks/`, `tests/`, `docs/html` | - | see "Not modelled" |

How they interact.  Everything but the kernel is one thread.  A coroutine
calls `async_*`, which takes a token, prepares a submission that carries the
token, clears `is_ready` of the frame `frames[current]`, moves `current` to
the next ready frame and swaps contexts.  When the scan comes round to the
main frame `run()` goes on: `process()` submits what was prepared, peeks at or
waits for completions, and for each calls the callback of its token, which
stores the result in the frame and sets `is_ready`; then the token is given
back, and after the batch the ring is advanced.  The kernel works on requests
and posts completions while all this runs.  A coroutine that returns trades
places with the last live frame; one that finds nothing else ready returns
through `uc_link`, the main frame's saved context.  The servers know nothing of
this but that an operation suspends them and returns its result.  The search
panel shares nothing with the C code; it is part of what the repository ships.

### What is hard

* The kernel posts completions between any two steps of `process()`, in any
  order; submissions may be taken partly or not at all.
* Tokens are given back before the ring is advanced past the completion that
  carried them, so they can be used again while a batch is being handled.
* Frames are found by an index, not by name, while returning coroutines
  permute the array under it.  `run()` saves its own context in
  `frames[current]`, which is a free frame after the last coroutine returned.
* A late, lost or misdirected completion would wake the coroutine that has
  since taken over the frame.
* Tokens can run out: the operation then returns at once without suspending.
* Fairness: readiness, swaps and spawns in the middle of a round must not
  make the scan skip a frame.
* Integer width: the sizes a caller passes are cut to 32 bits and rounded up.
* Initialisation allocates five blocks and a ring and may stop after any.
* A handler reads its descriptor through a pointer into the server's frame.
* Two coroutines of the chat server share a session, and each may free it.
* The search panel's timers run on through every other event, and one of them
  can be forgotten while it runs.

### What makes each part correct

* I/O context: no token is lost or held twice; the token of a request
  describes that request until its callback; the rings have room; each request
  is called back once with its own answer; what is freed is what was allocated.
* Executor: a coroutine sleeps exactly while one request of its own is
  pending; only its own completion wakes it, with its result; no context that
  will be resumed is overwritten; only runnable coroutines are resumed; every
  ready coroutine runs once a round; `run()` blocks only when nothing can run;
  a completion reaches its coroutine.
* Set-up and tear-down: what was made is given back; sizes are the least power
  of two that is large enough.
* Echo and ping-pong: each connection has one handler, works while it is open,
  and is not lost but where the code loses it.
* Chat: all participants see one conversation; nothing is used after it was
  freed.
* Search panel: its parts agree with each other; the results shown are those
  for what the field holds.

## Modules

| module | models | built on |
|---|---|---|
| `CompletionService` | abstract: what the I/O context promises its callers | - |
| `IOContext` | tokens, rings, `process()` step by step, the kernel, `free_io_context` | implements `CompletionService` |
| `RoundRobin` | abstract: what the executor promises its coroutines | - |
| `Executor` | frames, contexts, scheduling, `run()`, callbacks, `free_executor` after `run()` | extends `IOContext`, implements `RoundRobin` |
| `ExecutorReuse` | a second `run()` on the same executor | extends `Executor` |
| `Align32` | `align32pow2` with its width | - |
| `Lifecycle` | `init_executor` and `free_executor`, with `init_io_context` and `free_io_context` inside, when allocations and the ring fail | extends `Align32` |
| `EchoServer` | the echo server and the ping-pong server | extends `RoundRobin` |
| `ChatServer` | the chat server | extends `RoundRobin` |
| `DocSearch` | the manual's search panel | - |
| `IOContextProofs`, `ExecutorProofs`, `SleepProofs`, `RoundsProofs`, `LifecycleProofs`, `EchoProofs`, `ChatProofs`, `DocSearchProofs` | theorems | extend the above |
| `MC*` | values of the constants for TLC | extend the above |

Definitions named `Slip...` are wrong variants of the definition that follows
them: a dropped reset, a wrong index, an advance by the wrong count.  Nothing
uses them.  Each property has one that breaks it when put in place of the
right definition; `PROJECT.json` pairs them.

### IOContext and the code

`avail` and `tail` are `available_tokens` and `tail`; entries at or above
`tail` keep their stale values, as the array does.  A token is its index in
the array that `calloc` returned.  `sq`, `inflight` and `cq` are a request's
three places: prepared in user memory, with the kernel, answered.  A
submission records, beside its token, the operation and the requester: the
memory the kernel works on belongs to them whatever happens to the token.
That is what `TokenDescribesRequest` compares.

| action | code |
|---|---|
| `Request`, `RequestRefused` | the four `request_*` functions; they differ only in how they prepare the entry |
| `ProcessSubmit`, `ProcessSubmitFails` | clamp of `batch`, `io_uring_submit` |
| `ProcessPeek`, `ProcessWait`, `ProcessWaitFails` | `io_uring_peek_batch_cqe`, `io_uring_wait_cqe` when the peek found nothing |
| `ProcessCallback`, `ProcessRelease`, `ProcessAdvance` | the loop over the batch and `io_uring_cq_advance` |
| `KernelComplete` | the kernel: external, any outstanding request, any result, at any time |
| `FreeIOContext` | `free_io_context`; "aborted" stands for `free()` of a pointer `calloc` did not return |

`process()` is in six steps so that completions can be posted between any two
of them.  `Request` is also enabled between a callback and the release of its
token: nothing in `lib/IOContext.h` forbids a callback to issue a request.
The branch of `request_*` that gives a token back for want of a submission
entry is in the model as part of `RequestRefused` (it restores what it took);
`RingsHaveRoom` proves it is never reached.

`IOContext!CS` is the refinement mapping to `CompletionService`: `Asked` are
the requests in the submission ring or with the kernel, `Answered` the
completions whose callback has not been made, `Callback` the one being made,
with the arguments the code passes.

### Executor and the code

A frame is named by its place in `frame_mem`, which is also its stack.
`exe[f]` is the context saved in frame f: the stack it belongs to and the
point it resumes at.  `cpu` is the stack the processor is on.  What runs
between two `swapcontext` calls is one step, because only the kernel could
come between and it touches nothing but the completion ring.  Coroutines are
arbitrary: whatever runs may spawn, operate or return.

| action | code |
|---|---|
| `AsyncExec`, `AsyncExecFull` | `async_exec` |
| `AsyncOp(ty)`, `AsyncOpRefused` | `async_wait`, `async_accept`, `async_read`, `async_write` and `suspend_current_frame` |
| `FinishLast`, `FinishSwap` | `execute` and `manage_async_finish`: nothing to swap with, or a swap and a switch |
| `RunStart`, `RunSwitch`, `RunBreak` | the turn of `run()` |
| `RunSubmit`, `RunReap`, `RunCallback`, `RunAdvance`, `RunFails` | `process()` called from `run()`, with the callbacks `read_fn`, `write_fn`, `wait_fn`, `accept_fn` |
| `FreeExecutor` | `free_executor` after `run()` |

`NextReady` is the scan of `move_to_next_ready_frame` as the first offset whose
frame is ready; it always ends because the main frame is always ready, which
`ExecutorProofs` proves.  `Resume` includes what happens to a context that had
finished: it falls off `execute()` into `uc_link`.

### RoundRobin

The executor without frames, indices, contexts and tokens: slots that are free,
ready, running or waiting; the set `turn` of those the current round still owes
the processor; for each slot the operation it awaits, the kernel's answer, and
the last answer delivered (`outcome`, which a wait leaves as it was).
`Executor!RR` is the mapping: a slot for each frame but main's, its status from
liveness, `cpu` and `isReady`, `turn` the ready frames above `current`,
`awaits` and `answer` from the I/O context's pending requests and unhandled
completions, `outcome` from `Frame.result`.

The servers extend this module, not `Executor`: their steps are its actions
with the program's variables beside them.  That the executor does keep what
`RoundRobin` says is checked by the runs `executor` and `executor_dry`, and
proved (`ExecutorIsRoundRobin`).  A refused operation is not part of it:
`TokensAlwaysSuffice` proves there is none when there are at least as many
tokens as frames, which every program of the repository provides for.

### Align32 and Lifecycle

A machine word is the set of the places of its one bits, which is what
`align32pow2` works on: `x | x >> s` is a union, adding or subtracting 1 flips
the bits the carry or the borrow reaches, and what leaves the word is dropped.
`Width` is that of `uint32_t`, `SizeWidth` that of `size_t`, in which `count +
1` is computed before it is cut.

`blocks` is what is allocated, `ring` what became of the io_uring, `exe` the
fields of `struct Executor` on which the next step depends.  `InitExecutor`,
`AllocateTokens`, `QueueInit`, `QueueInitFails`, `AllocateFrames` and
`LinkFrames` are the parts of `init_executor` between which something can
fail; `FreeExecutor`, `FreeExecutorEnds`, `FreeUninitialized` and
`FreeHalfMade` what `free_executor` does to whatever it is given.
"undefined" is the state after an invalid access, and final.

What the model shows of the code, besides what holds: `init_executor` that
fails after `init_io_context` succeeded leaves the I/O context, its ring and
perhaps the array of frames allocated, and the caller has no way to release
them, because `free_executor` of such a struct either only clears its fields (no
frames: the I/O context is lost) or follows a pointer that was never linked;
`free_io_context` calls `io_uring_queue_exit` on a ring that was never made;
where a size wraps round to 0 an array of no entries is linked or read.
`LeftBehindOnFailure` says exactly what stays; nothing in the documentation
promises otherwise, so it is a property and not a finding.

### EchoServer

`upc` is where a coroutine is in its function, `fd` its local, `data` the frame
whose `fd` its argument points to, `open` the process's connections, `lost`
those nothing will close any more: dropped because `async_exec` failed, or left
by an echo handler that met an error.  `program` chooses between the two
programs.  C leaves undefined what the pointer into the previous iteration of
the server's loop reads; the model takes what compilers make of it, the same
stack slot.

### ChatServer

`heap`, `room` and `messages` are the sessions allocated, the room's linked
list and each session's queue, all as sequences of names and numbers; `session`
and `writing` are the coroutines' locals.  `log`, `joined` and `delivered` are
there for the properties.  `UsesFreedSession` is the first access to a freed
session, after which the model stops, as nothing can be said of the program.
An accept that failed makes a session like any other, as in the code.  Slots
are alike, and so are the addresses `malloc` returns: the server is put into
`FirstSlot`, and sessions are taken in some fixed order.

### DocSearch

`box` is the field with the panel's flags, `keyTimeout`, `orphans` and
`hideTimeout` the timers, `page` and `loading` what the results frame was told
to show and whether it does yet, `rows` and `expanded` what is visible in it.
One action per event handler of `SearchBox` and per key of `SearchResults`
(`Walk`, `Toggle`, `EscapeFrame`), with every call it makes.  `orphans` are
timers that still run after a direct search cleared `keyTimeout`; `MaxOrphans`
bounds them.  `Trimmed` is a text without the blanks it begins with: pages are
looked up by it, and the box remembers it as the last one searched for.
`Squeezed` is a text without any blanks, which is only compared: the change
handler compares it with the text remembered, and choosing a section asks
whether anything is left of it.  `putOff` records which of the two, text or
section, a search that did not take place would have brought up to date; a
search that does clears it.  `RowsAssumption`: the rows that begin with a word
are consecutive in a page; the generator sorts them, and it was verified for
every prefix of every entry of the shipped index.

`NoStaleResults` states exceptions, and each is something the code does:

* `searchIndex` may reach the number of sections (Down once more on the last),
  and `Search` then throws a TypeError after it cleared `keyTimeout`.  Nothing
  is said of what is shown while such a section is chosen but that it is what
  the box remembers (`RemembersWhatIsShown`); once another is chosen the results
  must be right again.
* The change handler strips all blanks (`search.js:222`), the search only the
  leading ones (`:335`).  With results for "io" shown, typing "i o" starts no
  search, although the search for "i o" finds other rows or none.
* With Shift, Down or Enter leave the field for the selection window: a timer
  that runs, or a change not yet handled, is not followed by a search
  (`"text"`).  Shift after the text was handled puts nothing off.  A section
  chosen while the field is empty or not in use leaves the results of the old
  one (`"section"`).
* The key timer outlives the deactivation of the panel and searches for the
  label; when the field is used again it is cleared of the label.

`OnSelectItem` also searches without stopping a running key timer, which
nothing can stop then (`orphans`); the properties hold in spite of it.
`PanelConsistent` says among others that choosing a section searches
(`searchActive`) exactly from a box that looks active.  Nothing documents the
contrary of any of this.

## Runs

| run | what it shows |
|---|---|
| `io_context` | the invariants of the I/O context alone under an arbitrary caller, requests inside callbacks included, and that it implements `CompletionService` |
| `executor` | three coroutines beside main, as many tokens as frames: scheduling, contexts, wake-ups, and the refinement of `RoundRobin` |
| `executor_dry` | two tokens for three coroutines, failing results, waits mixed with reads: sleepers and the refinement under refusals |
| `executor_live` | a posted completion resumes its coroutine unless `run()` fails; a ready coroutine runs |
| `lifecycle` | every size of 5 bits, cut to an unsigned of 4, with every allocation and the ring failing or not |
| `echo` | both servers: each handler has its own open connection, connections are accounted for, an accepted one is served |
| `chat` | two full sessions side by side, and a third: everybody in the room gets the same conversation, and the room holds exactly the living sessions |
| `docsearch` | the panel under any order of keys, clicks, timers and page loads: consistent, no stale results but in the named cases, what it remembers is what it shows, Up undoes Down |
| `token_free`, `executor_errors`, `executor_reuse`, `chat_session` | the disagreements below |

Bounds.  In `io_context` two tokens, two interchangeable requesters, and
batches of 1 and 3 with `MAX_BATCH_SIZE` 2: `Capacity` 2 lets tokens come back
in another order, a batch be split by the clamp and a token be reused within a
batch; sharing or losing a token needs no more than two.  Three coroutines are
what it takes to have one that runs, one that sleeps and one that is swapped in
from the end; with two the scan after a swap has nothing to skip.
`FrameCapacity` is a power of two in the code; `executor_live` and
`executor_errors` use 3 to keep the instance small, which makes no difference:
nothing computes with it but the test in `async_exec`.  `BATCH_SIZE` 2 stands
for 1024 so that a batch can be smaller than what has arrived.

`lifecycle` scales the unsigned to 4 bits and `size_t` to 5: every way to
overflow is among their values, before and after the cut, and `MaxEntries` 4
makes the kernel refuse the larger rings, as it refuses more than 32768
entries.  `echo` has three coroutines, so that a second connection finds a
frame and a third does not, and two descriptors, so that one is given out again
while the other is in use.  `chat` has six coroutines and three sessions: the
server, two full sessions with a reader and a writer each, and the sixth, which
`start` of the second still holds while it spawns the second writer, and in
which a third session can join afterwards, without finding frames for its own
two.  One message arrives, and each join and leave adds another, so that both
writers deliver the same one (the third's joining, say) in whatever order.  Only
invariants are checked and all slots but `FirstSlot` are interchangeable, so
symmetry is sound; sessions are not among the symmetric sets, as they are taken
in a fixed order.  `View` identifies states that differ only in results no
coroutine will look at before they are overwritten: no step and no invariant
depends on them.  `chat_session` needs one session.  `docsearch` has the words
"io", "i o", " i o" and " " (the first three the same when squeezed, all
different as typed, the third with a blank to trim, the last nothing but a
blank), the empty text and the label, two sections, three rows of which two
have children, and at most one forgotten timer (`MaxOrphans`; a second one
would do what the first does).
No other bound is imposed: all state spaces are finite as they are.

Deadlock is checked except in `io_context` and `token_free`, where the model
really stops after `free_io_context`; `Ended` is a program after its end.

Fairness (`Executor!FairSpec`).  `WF(Run)`: the thread keeps executing the main
context; in "wait" the action is not enabled until a completion is there.
`WF(Yield)`: a coroutine that has the processor suspends or returns at some
point, without which no cooperative scheduler does anything.  `SF(AsyncOp)`: a
coroutine that could await again and again eventually does.  Without it, a
coroutine that spawns a successor and returns, whose successor does the same,
keeps the processor from `run()` for good; the code allows that, so the
properties hold only for programs that do not.  Nothing is assumed of the
kernel: `CompletionResumes` starts when a completion was posted, and
`ProcessWaitFails` may happen at any time, so the property allows `run()` to
return first.

Fairness (`EchoServer!FairSpec`) is what `executor_live` checks of the
executor, restated for `RoundRobin`'s actions: the coroutine that has the
processor goes on, a round starts when one can, and each answer that was given
is delivered at some time (strong, since delivery is only enabled between
rounds).  The programs meet the condition above: their coroutines suspend
again and again and do not only spawn.  Nothing is assumed of the kernel or the
clients: `AcceptedIsServed` starts when a connection was accepted.

## Where the code and its documentation disagree

* `token_free`: `free_io_context` frees `available_tokens[0]`, which is the
  array of tokens only if token 0 lies at the bottom of the stack.  The stack
  gives out token 0 last.  Once all are out, whichever comes back first goes to
  the bottom; if that is another one, as it is when answers come first in,
  first out, `free` gets a pointer into the middle of the array.  `TokensAlwaysSuffice` proves that this does not happen
  when there are at least as many tokens as frames, which every program in the
  repository provides for (`init_executor(.., 40, 1000)`: 64 frames, 1024
  tokens).
* `executor_errors`: the documentation of `run()` says the loop continues until
  one frame remains; it also ends on any error of `process()`, an interrupted
  wait for one, with coroutines suspended.
* `executor_reuse`: the last coroutine to return leaves `current == size`.  If
  the program spawns again and calls `run()` again, `run()` saves its context
  over that of the new coroutine, which is never entered.
* `chat_session`: when the reader (or the writer) of a session meets an error,
  `stop` frees the session; the other of the two still holds its pointer and
  uses it when it wakes up.  Both loop `while (session)` and `stop` ends with
  `session = NULL`, which clears its own parameter only.

## Proofs

`IOContextProofs`, from the named assumptions on the constants (at least one
token, a batch limit of at least one, batch sizes are naturals):

* `TypeCorrect`: the types, with `BatchProgress`, are inductive by themselves.
* `HoldInv` is the invariant behind the rest.  `NoTokenSharing` is not
  inductive: when a token is released it is still in the completion ring, among
  the handled entries of the batch, and nothing in `NoTokenSharing` says that
  a handled token is not with the kernel, whence it could be completed a second
  time.  `Distinct` says it: what is requested during a batch goes no further
  than the submission ring, so what the kernel has in hand differs from all that
  is in the completion ring.  The proof states all this by places (the indices
  of the stack and of the rings) rather than by sets of tokens, so that a step
  is a change of places.
* `RoomToRelease` uses a count: if a token is outside the stack, the stack is
  not full, so `release_token` never drops one.
* `RingsHaveRoom` is the pigeonhole principle over the same places.

Also there, `ContextIsService`: the refinement `IOSpec =>
IsCompletionService`.  One lemma per operation says what it does to the
requests asked for, answered and called back; `TakenTokens` shows from
`HoldInv` that a token in the bag names no outstanding request, which is what
lets a token be a ticket.

`ExecutorProofs`, from `ExecutorAssumption` in addition:

* `MinFacts` and `NextReadyFacts`: the scan ends on a live, ready frame.
* `ExInv` is `TypeInv` and `Sched`: types, the permutation, the position of
  `current` (at the caller's frame; at the main frame or just past the live
  ones while main runs), the main frame's context, `ContextsIntact`, and the
  phase of `run()`.  `ContextsIntact` alone is not inductive: it needs to know
  which frame `run()` stores its context in, hence `Position`; and that what a
  switch resumes is live, hence the permutation.  One lemma per action that
  moves the processor, one (`SchedKept`) for the others.
* `UsesIOContext`: each step of the executor is a step of the I/O context or
  leaves it alone, so `Spec => IOSpec` and every theorem about the I/O context
  holds in the executor (`ExecutorTokensNotShared` is the example).
* `SwitchesToRunnable` is the action property `ResumesOnlyRunnable`.

`SleepProofs`, from both:

* `Sleep` pairs sleepers and requests: every pending request belongs to a live
  frame that is not ready (`Owned`), no two to the same (`OnePerFrame`), every
  sleeper has one (`Awaited`), and what runs is ready (`RunningReady`, without
  which the coroutine that makes a request could have one already).  With
  `HoldInv` and `Sched` it is inductive; `SleepsOnOwnRequest` and
  `WokenByOwnCompletion` follow.
* `Enough` is the counting argument of `TokensAlwaysSuffice`: requests map into
  the frames one to one, the main frame has none, so with a token for each
  frame the bag never runs dry and its bottom stays as it was.
* `Order` adds where the sleepers are: behind the running frame no frame is
  ready (`Behind`), when main goes to `process()` all are asleep
  (`AllAsleep`), and then the kernel owes a completion (`KernelOwes`).
  `ScanOrder` is the arithmetic of the scan: it takes the first ready frame
  above `current`, or wraps round to main.  `BlocksWithReason` follows.

`RoundsProofs`: `ExecutorIsRoundRobin`, the refinement `Spec => RunsInRounds`.
`ScanTurn` says that what the scan takes is the lowest of the frames still in
turn and that those above it are the rest; `HandOverBy` that this is a
`HandOver`.  `OneRequest`, `OneAnswer` and `AskedUnanswered` show that a slot
has at most one request and one answer, so that `awaits` and `answer` are
functions.  One lemma per action, one (`RoundQuiet`) for all that stutter.

`LifecycleProofs`, from `WidthAssumption` (1 to 32 bits, as five shifts do not
reach further) and `SizesAssumption`:

* What `align32pow2` computes.  `PredOfSucc`: decrementing undoes incrementing,
  also where it wraps round; `CutOfPlusOne`: `count + 1` may be cut before or
  after; `OrShiftDoubles` and `SmearFills`: each step doubles the ones below
  the highest bit; `IncrementOnes`: the carry runs through all of them.  So
  what is got is the bit above the highest of `count`, unless the word has none
  (`SmallSizes`, `LargeSizes`), and nothing only for 0 and for more than half
  of the range (`NothingIsGot`).  `LeastPlace` and `HighestBit` stand in for
  induction over the bits.
* `LifeInv`: which blocks and which ring there are at each point between two
  steps (`Stages`), what the sizes are by then (`Counted`), and that the frames
  are linked only while the executor is whole (`Linked`), without which
  `FreeReturnsEverything` would have to be shown of structs half made.

`EchoProofs`, from `EchoAssumption`: `HandlersKeepToThemselves` and
`NothingElseIsLost`.  The property about handlers is not inductive, as it says
nothing about the pointer into the server's frame; `ArgumentIntact` says that a
handler that has not read it is in the current round, while the server either
still runs, or sleeps and so cannot be woken before the round is over
(`Rounds`).  `Connections` says for each descriptor where it is, which is what
the kernel's giving it out again must respect.
`EchoKeepsToRoundRobin`, and `ChatKeepsToRoundRobin` of the chat server (from
`OperationsAssumption`): their specifications imply `RRSpec`, so that the
programs ask of the executor only what `ExecutorIsRoundRobin` gives.

`ChatProofs`, from `ChatAssumption`: `RoomIsTheLiving`.  `Parts` says what the
coroutines that share a session do in it: who starts it is alone until it has
joined, and only it spawns the reader and the writer, one of each.
`AppendKeeps` and `WithoutKeeps` are about the list.  No scheduling is needed,
only that a free frame is nobody's.

`OneConversation` rests on it.  `Seen` is what a session has had, has in its
writer's buffer and has queued, in that order; `Told` says that it ascends and
is what the session is owed.  That alone is not inductive: a session that joins
(again) is owed nothing, so its queue and its deliveries must be empty while it
is out of the room (`Silent`), and the buffer must be one coroutine's, which is
where `Parts` is needed.  `Sends` says what `sendto_room` appends, `Broadcasts`
that everyone's `Seen` grows by the new number, which is above all the others;
`TalkWrites` that taking from the queue, writing and delivering only move a
message along `Seen`.  `SameWriters` covers every step that does neither.

`DocSearchProofs`, from `BoundsAssumption`, `TextsAssumption` and
`RowsAssumption`, with the invariant `DocInv`:

* `PanelIsConsistent` is nearly inductive; each handler is a lemma about what
  it does to the box, since `Search`, `CloseResultsWindow`, the timers and the
  focus all go through the same few operations (`ActivateKeeps`, `FocusedKeeps`,
  `SearchGives`, `Selects`, `Closes`).
* `ResultsAreFresh` and `ShownIsRemembered` need `Shown`.  The box remembers
  the word of the page, without which a search that is skipped, because its word
  is the last one, could leave other results; and the text is right
  (`TextShown`) also while the section chosen throws, except where the next
  choice will search for it anyway (`Waits`): not for a text that is blank but
  not empty, for which no choice would.  `TextKept` says that a text stays right
  when the focus moves, as the box then keeps it, clears it of the label, or is
  reset.  `TextsAssumption` has of the texts what this needs: squeezing twice or
  after trimming is squeezing, and the label has no blanks to lose.
* `WalkingIsReversible` needs that the rows shown are consecutive (`Frame`,
  `Convex`): then the loops of `NavNext` and `NavPrev` find the very neighbours
  or nothing (`RowAfter`, `RowBefore`), `DownFrom` and `UpFrom` say where each
  entry leads, and `Walks` that the two are inverse.

Only model-checked: the liveness properties (fairness and ENABLED are out of
the proof system's reach), and of course what the runs that expect a violation
show.  Every other property the runs check is the subject of a theorem.

## Not modelled

* File descriptors, buffers and timespecs in the executor's models: whose they
  are is in the submission, their contents are not.  In the servers a message
  is a number, or only the fact that it was read and written in full.
* `async_*` called by the program itself before `run()`, with no coroutine to
  call it; no program of the repository does it.
* What the kernel does to the memory of requests it still has when
  `free_executor` gives the stacks back before the ring (`Executor.c:68-72`),
  which takes an end of `run()` by an error: `executor_errors` shows that end.
* Stack overflow (8 KiB a coroutine), signals, several executors on several
  threads (the benchmark server has one for each, which share the listening
  socket and nothing else).
* The logging macros; argument checks for NULL, which return before any effect.
* `malloc` failing in the chat server: `push` and `join` return 0, which
  nobody looks at, and `chat_server` writes through the NULL session;
  `strncpy` cutting a message at a zero byte.
* A session whose `async_exec` failed (`chat-server.c:216-222`) stays allocated
  for good.  Nothing points to it, and it is not in `heap`.
* The clients: the echo client is one coroutine without a loop, the benchmark
  client one that counts.  The servers' models let the kernel answer whatever
  any client could bring about.  The utilities are straight-line socket calls
  before the executor starts; the tests were read as statements of what is
  expected.
* Of the manual: `jquery.js` is a library; `dynsections.js` and the rest of
  `menu.js` show and hide elements without timers or shared state;
  `menudata.js`, `searchdata.js` and the index are data.  Of `search.js`, the
  geometry of the windows and the pages' markup.

-------------------------- MODULE ExecutorReuse --------------------------
(***************************************************************************)
(* Calling run() again on an executor whose first run() has returned:      *)
(* spawning more coroutines and running them, without a new                *)
(* init_executor.  Nothing in lib/Executor.h forbids it; no program of the *)
(* repository does it.                                                     *)
(*                                                                         *)
(* The contexts the first run() stored belong to a function activation     *)
(* that is gone.  Resuming one is undefined; of the outcomes a build can   *)
(* produce this module takes the mildest, where the second activation sits *)
(* at the same stack address and the resumed context continues in it.      *)
(***************************************************************************)
EXTENDS Executor

(* Back in the program, which may spawn and call run() once more.          *)
RunAgain ==
  /\ mpc = "returned"
  /\ mpc' = "setup"
  /\ UNCHANGED <<ioVars, frames, current, size, isReady, result, exe, cpu>>

ReuseNext == Next \/ RunAgain

ReuseSpec == Init /\ [][ReuseNext]_vars

(* lib/Executor.h:421-423 of async_exec: it creates a new frame, associates *)
(* the function and data with it and sets it as ready: until the coroutine *)
(* has run, its frame holds the context that will enter it.                *)
SpawnedKeepsItsContext ==
  \A f \in Live : f # cpu => exe[f].stack = f
=============================================================================

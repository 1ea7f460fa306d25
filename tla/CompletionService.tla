------------------------- MODULE CompletionService -------------------------
(***************************************************************************)
(* What the I/O context promises its callers, without tokens, rings and    *)
(* batches: each request it accepts is answered by the kernel and then     *)
(* called back once, as the type and for the requester it was made with    *)
(* and with the kernel's answer, and callbacks are made one at a time.     *)
(* A request keeps its ticket until its callback has returned; there is a  *)
(* fixed number of them.                                                   *)
(***************************************************************************)
CONSTANTS
  Tickets,       (* how many requests can be outstanding                   *)
  Types,         (* the kinds of request                                   *)
  Requesters,    (* the values of `void *data'                             *)
  Responses      (* what the kernel can answer                             *)

VARIABLES
  asked,         (* requests the kernel has not answered                   *)
  answered,      (* those it has, each with its answer                     *)
  calling,       (* the callback being made, if any: ticket and arguments  *)
  closed         (* the service is over                                    *)

csVars == <<asked, answered, calling, closed>>

CSInit ==
  /\ asked = {}
  /\ answered = {}
  /\ calling = {}
  /\ closed = FALSE

Taken ==
  {e.tok : e \in asked} \cup {c.req.tok : c \in answered}
    \cup {b.tok : b \in calling}

(* Also from within a callback.                                            *)
Ask(t, ty, who) ==
  /\ ~closed
  /\ t \notin Taken
  /\ asked' = asked \cup {[tok |-> t, op |-> ty, who |-> who]}
  /\ UNCHANGED <<answered, calling, closed>>

Respond(e, r) ==
  /\ e \in asked
  /\ asked' = asked \ {e}
  /\ answered' = answered \cup {[req |-> e, res |-> r]}
  /\ UNCHANGED <<calling, closed>>

Call(c) ==
  /\ calling = {}
  /\ c \in answered
  /\ answered' = answered \ {c}
  /\ calling' = {[tok |-> c.req.tok, type |-> c.req.op, data |-> c.req.who, res |-> c.res]}
  /\ UNCHANGED <<asked, closed>>

CallReturns ==
  /\ calling # {}
  /\ calling' = {}
  /\ UNCHANGED <<asked, answered, closed>>

(* What is outstanding is given up.                                        *)
CloseService ==
  /\ calling = {}
  /\ asked' = {}
  /\ answered' = {}
  /\ closed' = TRUE
  /\ UNCHANGED calling

CSNext ==
  \/ \E t \in Tickets, ty \in Types, who \in Requesters : Ask(t, ty, who)
  \/ \E e \in asked, r \in Responses : Respond(e, r)
  \/ \E c \in answered : Call(c)
  \/ CallReturns
  \/ CloseService

CSSpec == CSInit /\ [][CSNext]_csVars
=============================================================================

-------------------------- MODULE IOContextProofs --------------------------
(***************************************************************************)
(* Proofs about IOContext, for every capacity, batch size, number of       *)
(* requesters and set of results: its invariants, and that it implements   *)
(* CompletionService.                                                      *)
(***************************************************************************)
EXTENDS IOContext, SequenceTheorems, FiniteSetTheorems, TLAPS

(* What SubSeq(s, k + 1, Len(s)), dropping a prefix, does to a sequence.   *)
LEMMA DropFacts ==
  ASSUME NEW S, NEW s \in Seq(S), NEW k \in 0 .. Len(s)
  PROVE  /\ SubSeq(s, k + 1, Len(s)) \in Seq(S)
         /\ Len(SubSeq(s, k + 1, Len(s))) = Len(s) - k
         /\ \A i \in 1 .. Len(s) - k : SubSeq(s, k + 1, Len(s))[i] = s[i + k]
<1>1. /\ Len(s) \in Nat
      /\ \A i \in 1 .. Len(s) : s[i] \in S
  BY LenProperties, ElementOfSeq
<1>2. \A i \in k + 1 .. Len(s) : s[i] \in S
  BY <1>1
<1>3. /\ SubSeq(s, k + 1, Len(s)) \in Seq(S)
      /\ Len(SubSeq(s, k + 1, Len(s))) = IF k + 1 <= Len(s) THEN Len(s) - (k + 1) + 1 ELSE 0
      /\ \A i \in 1 .. Len(s) - (k + 1) + 1 : SubSeq(s, k + 1, Len(s))[i] = s[k + 1 + i - 1]
  BY <1>1, <1>2, SubSeqProperties
<1>4. \A i \in 1 .. Len(s) - k : k + 1 + i - 1 = i + k
  BY <1>1
<1> QED
  BY <1>1, <1>3, <1>4

-----------------------------------------------------------------------------
(* Type correctness, together with the progress of a batch.                *)

(* Where in a batch process() is: it peeks with room for one completion at *)
(* least, nothing is counted between batches, a callback is made for a     *)
(* completion not yet handled, and the ring is advanced when all are.      *)
BatchProgress ==
  /\ pc = "peek" => limit > 0
  /\ pc \in {"idle", "peek", "wait", "freed", "aborted"} => count = 0
  /\ pc \in {"callback", "release"} => done < count
  /\ pc = "advance" => done = count

TypeInv == IOTypeOK /\ BatchProgress

LEMMA TypeInit == IOInit => TypeInv
<1> SUFFICES ASSUME IOInit PROVE TypeInv
  OBVIOUS
<1>1. << >> \in Seq(Submission) /\ << >> \in Seq(Completion) /\ Len(<< >>) = 0
  BY EmptySeq
<1>2. avail \in [Tokens -> Tokens]
  BY DEF IOInit, Tokens
<1>3. token \in [Tokens -> TokenStruct]
  BY DEF IOInit, TokenStruct
<1> QED
  BY <1>1, <1>2, <1>3, CapacityAssumption, BatchAssumption
     DEF IOInit, TypeInv, IOTypeOK, BatchProgress

LEMMA TypeNext == TypeInv /\ [IONext]_ioVars => TypeInv'
<1> SUFFICES ASSUME TypeInv, [IONext]_ioVars PROVE TypeInv'
  OBVIOUS
<1> USE DEF TypeInv, BatchProgress
<1>0. /\ tail \in 0 .. Capacity
      /\ avail \in [Tokens -> Tokens]
      /\ token \in [Tokens -> TokenStruct]
      /\ sq \in Seq(Submission) /\ inflight \in SUBSET Submission
      /\ cq \in Seq(Completion) /\ Len(cq) \in Nat /\ Len(sq) \in Nat
      /\ limit \in 0 .. MaxBatch /\ count \in 0 .. Len(cq) /\ done \in 0 .. count
      /\ Capacity \in Nat \ {0} /\ MaxBatch \in Nat \ {0} /\ BatchSizes \subseteq Nat
  BY CapacityAssumption, BatchAssumption, LenProperties DEF IOTypeOK
<1>1. ASSUME NEW ty \in RequestType, NEW d \in Data, Request(ty, d) PROVE TypeInv'
  <2> DEFINE t == avail[tail - 1]
             e == [tok |-> t, op |-> ty, who |-> d]
  <2>1. t \in Tokens
    BY <1>0, <1>1 DEF Request, Tokens
  <2>2. e \in Submission
    BY <2>1 DEF Submission
  <2>3. Append(sq, e) \in Seq(Submission)
    BY <1>0, <2>2, AppendProperties
  <2>4. [type |-> ty, data |-> d] \in TokenStruct
    BY DEF TokenStruct
  <2> QED
    BY <1>0, <1>1, <2>1, <2>3, <2>4 DEF Request, CallerRuns, IOTypeOK
<1>2. ASSUME NEW batch \in BatchSizes, ProcessSubmit(batch) PROVE TypeInv'
  <2>1. PICK k \in SubmitCounts :
          /\ inflight' = inflight \cup {sq[i] : i \in 1 .. k}
          /\ sq' = SubSeq(sq, k + 1, Len(sq))
    BY <1>2 DEF ProcessSubmit
  <2>2. k \in 0 .. Len(sq)
    BY <1>0, EmptySeq DEF SubmitCounts
  <2>3. \A i \in 1 .. k : sq[i] \in Submission
    BY <1>0, <2>2, ElementOfSeq
  <2>4. sq' \in Seq(Submission)
    BY <1>0, <2>1, <2>2, DropFacts
  <2>5. Clamp(batch) \in 1 .. MaxBatch
    BY <1>0, <1>2 DEF Clamp, ProcessSubmit
  <2>6. inflight' \in SUBSET Submission
    BY <1>0, <2>1, <2>3
  <2>7. /\ limit' = Clamp(batch) /\ pc' = "peek"
        /\ UNCHANGED <<tail, avail, token, cq, count, done>> /\ count = 0
    BY <1>2 DEF ProcessSubmit
  <2>8. IOTypeOK'
    BY <1>0, <2>4, <2>5, <2>6, <2>7 DEF IOTypeOK
  <2> QED
    BY <1>0, <2>5, <2>7, <2>8
<1>3. CASE ProcessPeek
  <2>1. cq # << >> => Len(cq) > 0
    BY <1>0, EmptySeq
  <2>2. cq = << >> => Len(cq) = 0
    BY EmptySeq
  <2>3. count' \in 0 .. Len(cq)
    BY <1>0, <1>3 DEF ProcessPeek
  <2> QED
    BY <1>0, <1>3, <2>1, <2>2, <2>3 DEF ProcessPeek, IOTypeOK
<1>4. CASE ProcessWait
  BY <1>0, <1>4, EmptySeq DEF ProcessWait, IOTypeOK
<1>5. CASE ProcessWaitFails
  BY <1>0, <1>5 DEF ProcessWaitFails, IOTypeOK
<1>6. CASE ProcessCallback
  BY <1>0, <1>6 DEF ProcessCallback, IOTypeOK
<1>7. CASE ProcessRelease
  <2>1. Reaped.req.tok \in Tokens
    <3>1. cq[done + 1] \in Completion
      BY <1>0, <1>7, ElementOfSeq DEF ProcessRelease
    <3> QED
      BY <3>1 DEF Reaped, Completion, Submission
  <2>2. tail' \in 0 .. Capacity /\ avail' \in [Tokens -> Tokens]
    <3> DEFINE t == Reaped.req.tok
    <3> HIDE DEF t
    <3>1. ReleaseToken(t) /\ t \in Tokens
      BY <1>7, <2>1 DEF ProcessRelease, t
    <3>2. CASE tail = Capacity
      BY <1>0, <3>1, <3>2 DEF ReleaseToken
    <3>3. CASE tail # Capacity
      BY <1>0, <3>1, <3>3 DEF ReleaseToken
    <3> QED
      BY <3>2, <3>3
  <2> QED
    BY <1>0, <1>7, <2>2 DEF ProcessRelease, IOTypeOK
<1>8. CASE ProcessAdvance
  <2>1. cq' \in Seq(Completion) /\ Len(cq') = Len(cq) - count
    BY <1>0, <1>8, DropFacts DEF ProcessAdvance, Advance
  <2> QED
    BY <1>0, <1>8, <2>1 DEF ProcessAdvance, Advance, IOTypeOK
<1>9. CASE KernelComplete
  <2>1. PICK e \in inflight, r \in Results :
          /\ inflight' = inflight \ {e}
          /\ cq' = Append(cq, [req |-> e, res |-> r])
          /\ UNCHANGED <<tail, avail, token, sq, pc, limit, count, done>>
    BY <1>9 DEF KernelComplete
  <2>2. [req |-> e, res |-> r] \in Completion
    BY <1>0 DEF Completion
  <2>3. cq' \in Seq(Completion) /\ Len(cq') = Len(cq) + 1
    BY <1>0, <2>1, <2>2, AppendProperties
  <2> QED
    BY <1>0, <2>1, <2>3 DEF IOTypeOK
<1>10. CASE FreeIOContext
  <2>1. << >> \in Seq(Submission) /\ << >> \in Seq(Completion) /\ Len(<< >>) = 0
    BY EmptySeq
  <2> QED
    BY <1>0, <1>10, <2>1 DEF FreeIOContext, IOTypeOK
<1>11. CASE UNCHANGED ioVars
  BY <1>11 DEF ioVars, IOTypeOK
<1> QED
  BY <1>1, <1>2, <1>3, <1>4, <1>5, <1>6, <1>7, <1>8, <1>9, <1>10, <1>11
     DEF IONext, RequestRefused, ProcessSubmitFails

(* Every variable keeps its type, whatever the caller and the kernel do;   *)
(* in particular process() never counts more completions than the ring     *)
(* holds, nor more than it has room for.                                   *)
THEOREM TypeCorrect == IOSpec => []IOTypeOK
<1>1. TypeInv => IOTypeOK
  BY DEF TypeInv
<1> QED
  BY <1>1, TypeInit, TypeNext, PTL DEF IOSpec

-----------------------------------------------------------------------------
(* Who holds which token.  The properties speak of sets of tokens; the     *)
(* proofs go by the places that hold them.                                 *)

FreePlaces == 0 .. tail - 1
SqPlaces == 1 .. Len(sq)
CqPlaces == 1 .. Len(cq)
UnhandledPlaces == done + 1 .. Len(cq)

Distinct ==
  /\ \A i, j \in FreePlaces : avail[i] = avail[j] => i = j
  /\ \A i, j \in SqPlaces : sq[i].tok = sq[j].tok => i = j
  /\ \A e, f \in inflight : e.tok = f.tok => e = f
  /\ \A i, j \in CqPlaces : cq[i].req.tok = cq[j].req.tok => i = j
  /\ \A i \in FreePlaces, j \in SqPlaces : avail[i] # sq[j].tok
  /\ \A i \in FreePlaces, e \in inflight : avail[i] # e.tok
  /\ \A i \in FreePlaces, j \in UnhandledPlaces : avail[i] # cq[j].req.tok
  /\ \A i \in SqPlaces, e \in inflight : sq[i].tok # e.tok
  /\ \A i \in SqPlaces, j \in UnhandledPlaces : sq[i].tok # cq[j].req.tok
  /\ \A i \in CqPlaces, e \in inflight : cq[i].req.tok # e.tok

Held(t) ==
  \/ \E i \in FreePlaces : avail[i] = t
  \/ \E i \in SqPlaces : sq[i].tok = t
  \/ \E e \in inflight : e.tok = t
  \/ \E i \in UnhandledPlaces : cq[i].req.tok = t

Conserved == pc \notin {"freed", "aborted"} => \A t \in Tokens : Held(t)

Names(tk, e) == tk[e.tok] = [type |-> e.op, data |-> e.who]

Described ==
  /\ \A i \in SqPlaces : Names(token, sq[i])
  /\ \A e \in inflight : Names(token, e)
  /\ \A i \in UnhandledPlaces : Names(token, cq[i].req)

HoldInv == TypeInv /\ Distinct /\ Conserved /\ Described

LEMMA PlaceTypes ==
  ASSUME TypeInv
  PROVE  /\ tail \in 0 .. Capacity /\ Len(sq) \in Nat /\ Len(cq) \in Nat
         /\ count \in 0 .. Len(cq) /\ done \in 0 .. count
         /\ \A i \in FreePlaces : avail[i] \in Tokens
         /\ \A i \in SqPlaces : sq[i] \in Submission
         /\ \A e \in inflight : e \in Submission
         /\ \A i \in CqPlaces : cq[i] \in Completion
         /\ \A e \in Submission : e.tok \in Tokens
         /\ \A c \in Completion : c.req \in Submission
         /\ Capacity \in Nat \ {0}
<1>1. /\ tail \in 0 .. Capacity /\ avail \in [Tokens -> Tokens]
      /\ sq \in Seq(Submission) /\ inflight \in SUBSET Submission
      /\ cq \in Seq(Completion)
      /\ count \in 0 .. Len(cq) /\ done \in 0 .. count
      /\ Capacity \in Nat \ {0}
  BY CapacityAssumption DEF TypeInv, IOTypeOK
<1>2. /\ Len(sq) \in Nat /\ Len(cq) \in Nat
      /\ \A i \in SqPlaces : sq[i] \in Submission
      /\ \A i \in CqPlaces : cq[i] \in Completion
  BY <1>1, LenProperties, ElementOfSeq DEF SqPlaces, CqPlaces
<1>3. \A i \in FreePlaces : avail[i] \in Tokens
  BY <1>1 DEF FreePlaces, Tokens
<1>4. /\ \A e \in Submission : e.tok \in Tokens
      /\ \A c \in Completion : c.req \in Submission
  BY DEF Submission, Completion
<1> QED
  BY <1>1, <1>2, <1>3, <1>4

(* Where tokens go, action by action.                                      *)

LEMMA HoldInit == IOInit => HoldInv
<1> SUFFICES ASSUME IOInit PROVE HoldInv
  OBVIOUS
<1>1. TypeInv /\ Len(sq) = 0 /\ Len(cq) = 0 /\ inflight = {} /\ tail = Capacity /\ done = 0
  BY TypeInit, EmptySeq DEF IOInit
<1>2. SqPlaces = {} /\ CqPlaces = {} /\ UnhandledPlaces = {} /\ FreePlaces = Tokens
  BY <1>1 DEF SqPlaces, CqPlaces, UnhandledPlaces, FreePlaces, Tokens
<1>3. \A i \in Tokens : avail[i] = i
  BY DEF IOInit
<1>4. Distinct
  BY <1>1, <1>2, <1>3 DEF Distinct
<1>5. \A t \in Tokens : Held(t)
  BY <1>2, <1>3 DEF Held
<1>6. Described
  BY <1>1, <1>2 DEF Described
<1> QED
  BY <1>1, <1>4, <1>5, <1>6 DEF HoldInv, Conserved

(* A request takes the top of the free stack into the submission ring, and *)
(* nothing else refers to the Token struct it overwrites.                  *)
LEMMA HoldRequest ==
  ASSUME HoldInv, NEW ty \in RequestType, NEW d \in Data, Request(ty, d)
  PROVE  Distinct' /\ Conserved' /\ Described'
<1> DEFINE t == avail[tail - 1]
           e == [tok |-> t, op |-> ty, who |-> d]
           n == Len(sq)
<1>1. /\ tail # 0 /\ tail' = tail - 1
      /\ token' = [token EXCEPT ![t] = [type |-> ty, data |-> d]]
      /\ sq' = Append(sq, e)
      /\ UNCHANGED <<avail, inflight, cq, pc, limit, count, done>>
      /\ pc \notin {"freed", "aborted"}
  BY DEF Request, CallerRuns
<1>2. TypeInv /\ Distinct /\ Conserved /\ Described
  BY DEF HoldInv
<1>3. /\ tail \in 1 .. Capacity /\ tail - 1 \in FreePlaces /\ n \in Nat
      /\ t \in Tokens /\ e \in Submission
      /\ sq \in Seq(Submission) /\ token \in [Tokens -> TokenStruct]
  BY <1>1, <1>2, PlaceTypes DEF TypeInv, IOTypeOK, FreePlaces, Submission
<1>4. /\ Len(sq') = n + 1
      /\ \A i \in 1 .. n : sq'[i] = sq[i]
      /\ sq'[n + 1] = e
  BY <1>1, <1>3, AppendProperties
<1>5. /\ SqPlaces' = SqPlaces \cup {n + 1} /\ n + 1 \notin SqPlaces
      /\ FreePlaces = FreePlaces' \cup {tail - 1} /\ tail - 1 \notin FreePlaces'
      /\ CqPlaces' = CqPlaces /\ UnhandledPlaces' = UnhandledPlaces
      /\ UnhandledPlaces \subseteq CqPlaces
  BY <1>1, <1>2, <1>3, <1>4, PlaceTypes
     DEF SqPlaces, FreePlaces, CqPlaces, UnhandledPlaces
<1>6. \A i \in SqPlaces : sq'[i] = sq[i]
  BY <1>4 DEF SqPlaces
<1>7. e.tok = t /\ e.op = ty /\ e.who = d
  OBVIOUS
<1> HIDE DEF e, n
<1>8. Distinct'
  <2>1. \A i \in FreePlaces' : avail'[i] = avail[i] /\ avail[i] # t /\ i \in FreePlaces
    BY <1>1, <1>2, <1>3, <1>5 DEF Distinct
  <2>2. \A i \in SqPlaces : sq[i].tok # t
    BY <1>2, <1>3 DEF Distinct
  <2>3. \A f \in inflight : f.tok # t
    BY <1>2, <1>3 DEF Distinct
  <2>4. \A i \in UnhandledPlaces : cq[i].req.tok # t
    BY <1>2, <1>3 DEF Distinct
  <2> HIDE DEF t
  <2>5. \A i, j \in SqPlaces' : sq'[i].tok = sq'[j].tok => i = j
    BY <1>2, <1>4, <1>5, <1>6, <1>7, <2>2 DEF Distinct
  <2>6. \A i \in FreePlaces', j \in SqPlaces' : avail'[i] # sq'[j].tok
    BY <1>2, <1>4, <1>5, <1>6, <1>7, <2>1 DEF Distinct
  <2>7. \A i \in SqPlaces', f \in inflight : sq'[i].tok # f.tok
    BY <1>2, <1>4, <1>5, <1>6, <1>7, <2>3 DEF Distinct
  <2>8. \A i \in SqPlaces', j \in UnhandledPlaces : sq'[i].tok # cq[j].req.tok
    BY <1>2, <1>4, <1>5, <1>6, <1>7, <2>4 DEF Distinct
  <2>9. /\ \A i, j \in FreePlaces' : avail'[i] = avail'[j] => i = j
        /\ \A i \in FreePlaces', f \in inflight : avail'[i] # f.tok
        /\ \A i \in FreePlaces', j \in UnhandledPlaces : avail'[i] # cq[j].req.tok
    BY <1>2, <2>1 DEF Distinct
  <2> QED
    BY <1>1, <1>2, <1>5, <2>5, <2>6, <2>7, <2>8, <2>9 DEF Distinct
<1>9. Conserved'
  <2> SUFFICES ASSUME NEW u \in Tokens PROVE Held(u)'
    BY DEF Conserved, Tokens
  <2>1. Held(u)
    BY <1>1, <1>2 DEF Conserved
  <2> QED
    BY <2>1, <1>1, <1>4, <1>5, <1>6, <1>7 DEF Held
<1>10. Described'
  <2>1. ASSUME NEW f \in Submission, Names(token, f), f.tok # t PROVE Names(token', f)
    BY <2>1, <1>1, <1>3, PlaceTypes, <1>2 DEF Names
  <2>2. Names(token', e)
    BY <1>1, <1>3, <1>7 DEF Names
  <2>3. ASSUME NEW i \in SqPlaces PROVE Names(token', sq[i])
    <3>1. sq[i] \in Submission /\ Names(token, sq[i]) /\ sq[i].tok # t
      BY <1>2, <1>3, PlaceTypes DEF Distinct, Described
    <3> QED
      BY <2>1, <3>1
  <2>4. ASSUME NEW f \in inflight PROVE Names(token', f)
    <3>1. f \in Submission /\ Names(token, f) /\ f.tok # t
      BY <1>2, <1>3, PlaceTypes DEF Distinct, Described
    <3> QED
      BY <2>1, <3>1
  <2>5. ASSUME NEW i \in UnhandledPlaces PROVE Names(token', cq[i].req)
    <3>1. cq[i].req \in Submission /\ Names(token, cq[i].req) /\ cq[i].req.tok # t
      BY <1>2, <1>3, <1>5, PlaceTypes DEF Distinct, Described
    <3> QED
      BY <2>1, <3>1
  <2>6. \A i \in SqPlaces' : Names(token', sq'[i])
    BY <1>4, <1>5, <1>6, <2>2, <2>3
  <2> QED
    BY <1>1, <1>5, <2>4, <2>5, <2>6 DEF Described
<1> QED
  BY <1>8, <1>9, <1>10
(* Submitting moves a prefix of the ring to the kernel.                    *)
LEMMA HoldSubmit ==
  ASSUME HoldInv, NEW batch \in BatchSizes, ProcessSubmit(batch)
  PROVE  Distinct' /\ Conserved' /\ Described'
<1>1. PICK k \in SubmitCounts :
        /\ inflight' = inflight \cup {sq[i] : i \in 1 .. k}
        /\ sq' = SubSeq(sq, k + 1, Len(sq))
  BY DEF ProcessSubmit
<1>2. /\ UNCHANGED <<tail, avail, token, cq, count, done>>
      /\ pc = "idle" /\ pc' = "peek"
      /\ TypeInv /\ Distinct /\ Conserved /\ Described
      /\ count = 0 /\ done = 0
  BY PlaceTypes DEF ProcessSubmit, HoldInv, TypeInv, BatchProgress
<1>3. Len(sq) \in Nat /\ k \in 0 .. Len(sq) /\ sq \in Seq(Submission)
  BY <1>2, EmptySeq DEF TypeInv, IOTypeOK, SubmitCounts
<1>4. /\ Len(sq') = Len(sq) - k
      /\ \A i \in 1 .. Len(sq) - k : sq'[i] = sq[i + k]
  BY <1>1, <1>3, DropFacts
<1>5. /\ FreePlaces' = FreePlaces /\ CqPlaces' = CqPlaces
      /\ UnhandledPlaces' = UnhandledPlaces /\ UnhandledPlaces = CqPlaces
      /\ \A i \in SqPlaces' : i + k \in SqPlaces /\ i + k \notin 1 .. k /\ sq'[i] = sq[i + k] /\ i \in Int
      /\ 1 .. k \subseteq SqPlaces
      /\ \A i \in SqPlaces \ (1 .. k) : i - k \in SqPlaces' /\ sq'[i - k] = sq[i]
  BY <1>2, <1>3, <1>4 DEF FreePlaces, CqPlaces, UnhandledPlaces, SqPlaces
<1>6. \A e \in inflight' : e \in inflight \/ \E i \in 1 .. k : i \in SqPlaces /\ e = sq[i]
  BY <1>1, <1>5
<1>7. Distinct'
  <2>1. \A i, j \in SqPlaces' : sq'[i].tok = sq'[j].tok => i = j
    <3> SUFFICES ASSUME NEW i \in SqPlaces', NEW j \in SqPlaces', sq'[i].tok = sq'[j].tok
                 PROVE  i = j
      OBVIOUS
    <3>1. i + k = j + k
      BY <1>2, <1>5 DEF Distinct
    <3> QED
      BY <3>1, <1>3, <1>5
  <2>2. \A e, f \in inflight' : e.tok = f.tok => e = f
    BY <1>2, <1>6 DEF Distinct
  <2>3. \A i \in FreePlaces, j \in SqPlaces' : avail[i] # sq'[j].tok
    BY <1>2, <1>5 DEF Distinct
  <2>4. \A i \in FreePlaces, e \in inflight' : avail[i] # e.tok
    BY <1>2, <1>6 DEF Distinct
  <2>5. \A i \in SqPlaces', e \in inflight' : sq'[i].tok # e.tok
    BY <1>2, <1>5, <1>6 DEF Distinct
  <2>6. \A i \in SqPlaces', j \in UnhandledPlaces : sq'[i].tok # cq[j].req.tok
    BY <1>2, <1>5 DEF Distinct
  <2>7. \A i \in CqPlaces, e \in inflight' : cq[i].req.tok # e.tok
    BY <1>2, <1>5, <1>6 DEF Distinct
  <2> QED
    BY <1>2, <1>5, <2>1, <2>2, <2>3, <2>4, <2>5, <2>6, <2>7 DEF Distinct
<1>8. Conserved'
  <2> SUFFICES ASSUME NEW t \in Tokens PROVE Held(t)'
    BY DEF Conserved, Tokens
  <2>1. Held(t)
    BY <1>2 DEF Conserved
  <2>2. ASSUME NEW i \in SqPlaces, sq[i].tok = t PROVE Held(t)'
    <3>1. CASE i \in 1 .. k
      BY <3>1, <2>2, <1>1 DEF Held
    <3>2. CASE i \notin 1 .. k
      BY <3>2, <2>2, <1>5 DEF Held
    <3> QED
      BY <3>1, <3>2
  <2>3. inflight \subseteq inflight'
    BY <1>1
  <2> QED
    BY <1>2, <1>5, <2>1, <2>2, <2>3 DEF Held
<1>9. Described'
  <2>1. \A i \in SqPlaces' : Names(token', sq'[i])
    BY <1>2, <1>5 DEF Described, Names
  <2>2. \A e \in inflight' : Names(token', e)
    BY <1>2, <1>6 DEF Described, Names
  <2> QED
    BY <1>2, <1>5, <2>1, <2>2 DEF Described, Names
<1> QED
  BY <1>7, <1>8, <1>9

(* The kernel's answer moves a token to the completion ring.               *)
LEMMA HoldComplete ==
  ASSUME HoldInv, KernelComplete
  PROVE  Distinct' /\ Conserved' /\ Described'
<1>1. PICK e \in inflight, r \in Results :
        /\ inflight' = inflight \ {e}
        /\ cq' = Append(cq, [req |-> e, res |-> r])
        /\ UNCHANGED <<tail, avail, token, sq, pc, limit, count, done>>
  BY DEF KernelComplete
<1>2. TypeInv /\ Distinct /\ Conserved /\ Described
  BY DEF HoldInv
<1> DEFINE n == Len(cq)
<1>3. /\ n \in Nat /\ done \in 0 .. n
      /\ Len(cq') = n + 1
      /\ \A i \in 1 .. n : cq'[i] = cq[i]
      /\ cq'[n + 1].req = e
  <2>1. [req |-> e, res |-> r] \in Completion
    BY <1>2, PlaceTypes DEF Completion
  <2>2. cq \in Seq(Completion)
    BY <1>2 DEF TypeInv, IOTypeOK
  <2> QED
    BY <1>1, <1>2, <2>1, <2>2, PlaceTypes, AppendProperties
<1>4. /\ FreePlaces' = FreePlaces /\ SqPlaces' = SqPlaces
      /\ CqPlaces' = CqPlaces \cup {n + 1} /\ n + 1 \notin CqPlaces
      /\ UnhandledPlaces' = UnhandledPlaces \cup {n + 1}
      /\ UnhandledPlaces \subseteq CqPlaces
      /\ \A i \in CqPlaces : cq'[i] = cq[i]
  BY <1>1, <1>3 DEF FreePlaces, SqPlaces, CqPlaces, UnhandledPlaces
<1> HIDE DEF n
<1>5. Distinct'
  <2>1. \A i, j \in CqPlaces' : cq'[i].req.tok = cq'[j].req.tok => i = j
    <3>1. \A i \in CqPlaces : cq'[i].req.tok # e.tok
      BY <1>2, <1>4 DEF Distinct
    <3> QED
      BY <3>1, <1>2, <1>3, <1>4 DEF Distinct
  <2>2. \A i \in FreePlaces, j \in UnhandledPlaces' : avail[i] # cq'[j].req.tok
    <3>1. \A i \in FreePlaces : avail[i] # e.tok
      BY <1>2 DEF Distinct
    <3>2. \A i \in FreePlaces, j \in UnhandledPlaces : avail[i] # cq'[j].req.tok
      BY <1>2, <1>4 DEF Distinct
    <3> QED
      BY <3>1, <3>2, <1>3, <1>4
  <2>3. \A i \in SqPlaces, j \in UnhandledPlaces' : sq[i].tok # cq'[j].req.tok
    <3>1. \A i \in SqPlaces : sq[i].tok # e.tok
      BY <1>2 DEF Distinct
    <3>2. \A i \in SqPlaces, j \in UnhandledPlaces : sq[i].tok # cq'[j].req.tok
      BY <1>2, <1>4 DEF Distinct
    <3> QED
      BY <3>1, <3>2, <1>3, <1>4
  <2>4. \A i \in CqPlaces', f \in inflight' : cq'[i].req.tok # f.tok
    <3>1. \A f \in inflight' : f \in inflight /\ e.tok # f.tok
      BY <1>1, <1>2 DEF Distinct
    <3>2. \A i \in CqPlaces, f \in inflight' : cq'[i].req.tok # f.tok
      BY <3>1, <1>2, <1>4 DEF Distinct
    <3> QED
      BY <3>1, <3>2, <1>3, <1>4
  <2>5. /\ \A i, j \in FreePlaces : avail[i] = avail[j] => i = j
        /\ \A i, j \in SqPlaces : sq[i].tok = sq[j].tok => i = j
        /\ \A f, g \in inflight' : f.tok = g.tok => f = g
        /\ \A i \in FreePlaces, j \in SqPlaces : avail[i] # sq[j].tok
        /\ \A i \in FreePlaces, f \in inflight' : avail[i] # f.tok
        /\ \A i \in SqPlaces, f \in inflight' : sq[i].tok # f.tok
    BY <1>1, <1>2 DEF Distinct
  <2>6. avail' = avail /\ sq' = sq
    BY <1>1
  <2> QED
    BY <1>4, <2>1, <2>2, <2>3, <2>4, <2>5, <2>6 DEF Distinct
<1>6. Conserved'
  <2> SUFFICES ASSUME NEW t \in Tokens, pc \notin {"freed", "aborted"} PROVE Held(t)'
    BY <1>1 DEF Conserved, Tokens
  <2>1. Held(t)
    BY <1>2 DEF Conserved
  <2> QED
    BY <1>1, <1>3, <1>4, <2>1 DEF Held
<1>7. Described'
  <2>1. Names(token, e) /\ \A i \in UnhandledPlaces : Names(token, cq'[i].req)
    BY <1>2, <1>4 DEF Described
  <2>2. \A i \in UnhandledPlaces' : Names(token, cq'[i].req)
    BY <2>1, <1>3, <1>4
  <2> QED
    BY <1>1, <1>2, <1>4, <2>2 DEF Described, Names
<1> QED
  BY <1>5, <1>6, <1>7
LEMMA CardTokens == IsFiniteSet(Tokens) /\ Cardinality(Tokens) = Capacity
<1>1. 0 \in Int /\ Capacity - 1 \in Int /\ Capacity \in Nat \ {0}
  BY CapacityAssumption
<1>2. /\ IsFiniteSet(0 .. Capacity - 1)
      /\ Cardinality(0 .. Capacity - 1) =
           IF 0 > Capacity - 1 THEN 0 ELSE Capacity - 1 - 0 + 1
  BY <1>1, FS_Interval
<1> QED
  BY <1>1, <1>2 DEF Tokens

(* Tokens are Capacity many, so a token that is out leaves room for it in  *)
(* the bag: release_token never drops one (pigeonhole).                    *)
LEMMA RoomToRelease ==
  ASSUME TypeInv, Distinct, NEW t \in Tokens, \A i \in FreePlaces : avail[i] # t
  PROVE  tail # Capacity
<1> SUFFICES ASSUME tail = Capacity PROVE FALSE
  OBVIOUS
<1>1. avail \in [Tokens -> Tokens] /\ Capacity \in Nat \ {0}
  BY CapacityAssumption DEF TypeInv, IOTypeOK
<1>2. FreePlaces = Tokens
  BY DEF FreePlaces, Tokens
<1>3. IsFiniteSet(Tokens) /\ Cardinality(Tokens) = Capacity
  BY CardTokens
<1>4. IsFiniteSet(Tokens \ {t}) /\ Cardinality(Tokens \ {t}) = Capacity - 1
  BY <1>3, FS_RemoveElement
<1>5. avail \in [Tokens -> Tokens \ {t}]
  BY <1>1, <1>2
<1>6. Cardinality(Tokens \ {t}) < Cardinality(Tokens)
  BY <1>1, <1>3, <1>4
<1>7. \E i, j \in Tokens : i # j /\ avail[i] = avail[j]
  BY <1>3, <1>4, <1>5, <1>6, FS_PigeonHole
<1> QED
  BY <1>2, <1>7 DEF Distinct

(* After its callback a token goes from the completion to the bag.         *)
LEMMA HoldRelease ==
  ASSUME HoldInv, ProcessRelease
  PROVE  Distinct' /\ Conserved' /\ Described'
<1> DEFINE t == cq[done + 1].req.tok
<1>1. /\ pc = "release" /\ done' = done + 1 /\ ReleaseToken(t)
      /\ UNCHANGED <<token, sq, inflight, cq, limit, count>>
  BY DEF ProcessRelease, Reaped
<1>2. TypeInv /\ Distinct /\ Conserved /\ Described /\ done < count
  BY <1>1 DEF HoldInv, TypeInv, BatchProgress
<1>3. /\ done + 1 \in UnhandledPlaces /\ done + 1 \in CqPlaces
      /\ UnhandledPlaces = UnhandledPlaces' \cup {done + 1}
      /\ done + 1 \notin UnhandledPlaces'
      /\ UnhandledPlaces \subseteq CqPlaces
      /\ SqPlaces' = SqPlaces /\ CqPlaces' = CqPlaces
  BY <1>1, <1>2, PlaceTypes DEF UnhandledPlaces, CqPlaces, SqPlaces
<1>4. t \in Tokens
  BY <1>2, <1>3, PlaceTypes
<1>5. \A i \in FreePlaces : avail[i] # t
  BY <1>2, <1>3 DEF Distinct
<1>6. tail # Capacity
  BY <1>2, <1>4, <1>5, RoomToRelease
<1>7. tail' = tail + 1 /\ avail' = [avail EXCEPT ![tail] = t]
  BY <1>1, <1>6 DEF ReleaseToken
<1>8. /\ FreePlaces' = FreePlaces \cup {tail} /\ tail \notin FreePlaces
      /\ avail'[tail] = t
      /\ \A i \in FreePlaces : avail'[i] = avail[i]
  <2>1. tail \in 0 .. Capacity - 1 /\ avail \in [Tokens -> Tokens]
    BY <1>2, <1>6, PlaceTypes DEF TypeInv, IOTypeOK
  <2> HIDE DEF t
  <2> QED
    BY <1>7, <2>1 DEF FreePlaces, Tokens
<1>9. /\ \A i \in SqPlaces : sq[i].tok # t
      /\ \A e \in inflight : e.tok # t
      /\ \A i \in UnhandledPlaces' : cq[i].req.tok # t
  BY <1>2, <1>3 DEF Distinct
<1>10. avail[tail] = avail[tail] /\ (done + 1) \in {done + 1} /\ cq[done + 1].req.tok = t
  OBVIOUS
<1> HIDE DEF t
<1>11. Distinct'
  <2>1. \A i, j \in FreePlaces' : avail'[i] = avail'[j] => i = j
    BY <1>2, <1>5, <1>8 DEF Distinct
  <2>2. \A i \in FreePlaces', j \in SqPlaces : avail'[i] # sq[j].tok
    BY <1>2, <1>8, <1>9 DEF Distinct
  <2>3. \A i \in FreePlaces', e \in inflight : avail'[i] # e.tok
    BY <1>2, <1>8, <1>9 DEF Distinct
  <2>4. \A i \in FreePlaces', j \in UnhandledPlaces' : avail'[i] # cq[j].req.tok
    BY <1>2, <1>3, <1>8, <1>9 DEF Distinct
  <2>5. /\ \A i, j \in SqPlaces : sq[i].tok = sq[j].tok => i = j
        /\ \A e, f \in inflight : e.tok = f.tok => e = f
        /\ \A i, j \in CqPlaces : cq[i].req.tok = cq[j].req.tok => i = j
        /\ \A i \in SqPlaces, e \in inflight : sq[i].tok # e.tok
        /\ \A i \in SqPlaces, j \in UnhandledPlaces' : sq[i].tok # cq[j].req.tok
        /\ \A i \in CqPlaces, e \in inflight : cq[i].req.tok # e.tok
    BY <1>2, <1>3 DEF Distinct
  <2>6. sq' = sq /\ inflight' = inflight /\ cq' = cq
    BY <1>1
  <2> QED
    BY <1>3, <2>1, <2>2, <2>3, <2>4, <2>5, <2>6 DEF Distinct
<1>12. Conserved'
  <2> SUFFICES ASSUME NEW u \in Tokens PROVE Held(u)'
    BY DEF Conserved, Tokens
  <2>1. Held(u)
    BY <1>1, <1>2 DEF Conserved
  <2> QED
    BY <1>1, <1>3, <1>8, <1>10, <2>1 DEF Held
<1>13. Described'
  BY <1>1, <1>2, <1>3 DEF Described
<1> QED
  BY <1>11, <1>12, <1>13

(* The ring is advanced past completions that are all handled.             *)
LEMMA HoldAdvance ==
  ASSUME HoldInv, ProcessAdvance
  PROVE  Distinct' /\ Conserved' /\ Described'
<1>1. /\ pc = "advance" /\ done' = 0
      /\ cq' = SubSeq(cq, count + 1, Len(cq))
      /\ UNCHANGED <<tail, avail, token, sq, inflight>>
  BY DEF ProcessAdvance, Advance
<1>2. /\ TypeInv /\ Distinct /\ Conserved /\ Described
      /\ done = count /\ count \in 0 .. Len(cq) /\ Len(cq) \in Nat
      /\ cq \in Seq(Completion)
  BY <1>1, PlaceTypes DEF HoldInv, TypeInv, BatchProgress, IOTypeOK
<1>3. /\ Len(cq') = Len(cq) - count
      /\ \A i \in 1 .. Len(cq) - count : cq'[i] = cq[i + count]
  BY <1>1, <1>2, DropFacts
<1>4. /\ FreePlaces' = FreePlaces /\ SqPlaces' = SqPlaces
      /\ CqPlaces' = UnhandledPlaces' /\ UnhandledPlaces \subseteq CqPlaces
      /\ \A i \in CqPlaces' : i \in Int /\ i + count \in UnhandledPlaces /\ cq'[i] = cq[i + count]
      /\ \A i \in UnhandledPlaces : i - count \in CqPlaces' /\ cq'[i - count] = cq[i]
  BY <1>1, <1>2, <1>3 DEF FreePlaces, SqPlaces, CqPlaces, UnhandledPlaces
<1>5. Distinct'
  <2>1. \A i, j \in CqPlaces' : cq'[i].req.tok = cq'[j].req.tok => i = j
    <3> SUFFICES ASSUME NEW i \in CqPlaces', NEW j \in CqPlaces',
                        cq'[i].req.tok = cq'[j].req.tok
                 PROVE  i = j
      OBVIOUS
    <3>1. i + count = j + count
      BY <1>2, <1>4 DEF Distinct
    <3> QED
      BY <3>1, <1>2, <1>4
  <2>2. /\ \A i \in FreePlaces, j \in UnhandledPlaces' : avail[i] # cq'[j].req.tok
        /\ \A i \in SqPlaces, j \in UnhandledPlaces' : sq[i].tok # cq'[j].req.tok
        /\ \A i \in CqPlaces', e \in inflight : cq'[i].req.tok # e.tok
    BY <1>2, <1>4 DEF Distinct
  <2>3. /\ \A i, j \in FreePlaces : avail[i] = avail[j] => i = j
        /\ \A i, j \in SqPlaces : sq[i].tok = sq[j].tok => i = j
        /\ \A e, f \in inflight : e.tok = f.tok => e = f
        /\ \A i \in FreePlaces, j \in SqPlaces : avail[i] # sq[j].tok
        /\ \A i \in FreePlaces, e \in inflight : avail[i] # e.tok
        /\ \A i \in SqPlaces, e \in inflight : sq[i].tok # e.tok
    BY <1>2 DEF Distinct
  <2>4. avail' = avail /\ sq' = sq /\ inflight' = inflight
    BY <1>1
  <2> QED
    BY <1>4, <2>1, <2>2, <2>3, <2>4 DEF Distinct
<1>6. Conserved'
  <2> SUFFICES ASSUME NEW t \in Tokens PROVE Held(t)'
    BY DEF Conserved, Tokens
  <2>1. Held(t)
    BY <1>1, <1>2 DEF Conserved
  <2>2. ASSUME NEW i \in UnhandledPlaces, cq[i].req.tok = t
        PROVE  \E j \in UnhandledPlaces' : cq'[j].req.tok = t
    <3>1. i - count \in UnhandledPlaces' /\ cq'[i - count].req.tok = t
      BY <1>4, <2>2
    <3> QED
      BY <3>1
  <2>3. avail' = avail /\ sq' = sq /\ inflight' = inflight
    BY <1>1
  <2> QED
    BY <1>4, <2>1, <2>2, <2>3 DEF Held
<1>7. Described'
  <2>1. \A i \in UnhandledPlaces' : Names(token, cq'[i].req)
    BY <1>2, <1>4 DEF Described
  <2>2. token' = token /\ sq' = sq /\ inflight' = inflight
    BY <1>1
  <2>3. /\ \A i \in SqPlaces : Names(token, sq[i])
        /\ \A e \in inflight : Names(token, e)
    BY <1>2 DEF Described
  <2> QED
    BY <1>4, <2>1, <2>2, <2>3 DEF Described
<1> QED
  BY <1>5, <1>6, <1>7

LEMMA HoldFree ==
  ASSUME HoldInv, FreeIOContext
  PROVE  Distinct' /\ Conserved' /\ Described'
<1>1. /\ tail' = 0 /\ sq' = << >> /\ inflight' = {} /\ cq' = << >>
      /\ done' = done /\ done = 0 /\ pc' \in {"freed", "aborted"}
  BY PlaceTypes DEF FreeIOContext, HoldInv, TypeInv, BatchProgress
<1>2. FreePlaces' = {} /\ SqPlaces' = {} /\ CqPlaces' = {} /\ UnhandledPlaces' = {}
  BY <1>1, EmptySeq DEF FreePlaces, SqPlaces, CqPlaces, UnhandledPlaces
<1> QED
  BY <1>1, <1>2 DEF Distinct, Conserved, Described

(* The steps of process() that move no token.                              *)
LEMMA HoldStill ==
  ASSUME HoldInv, UNCHANGED <<tail, avail, token, sq, inflight, cq, done>>,
         pc \in {"freed", "aborted"} => pc' \in {"freed", "aborted"}
  PROVE  Distinct' /\ Conserved' /\ Described'
<1>1. Distinct /\ Conserved /\ Described
  BY DEF HoldInv
<1>2. /\ FreePlaces' = FreePlaces /\ SqPlaces' = SqPlaces
      /\ CqPlaces' = CqPlaces /\ UnhandledPlaces' = UnhandledPlaces
  BY DEF FreePlaces, SqPlaces, CqPlaces, UnhandledPlaces
<1>3. Distinct'
  BY <1>1, <1>2 DEF Distinct
<1>4. Conserved'
  <2> SUFFICES ASSUME NEW t \in Tokens, pc' \notin {"freed", "aborted"} PROVE Held(t)'
    BY DEF Conserved, Tokens
  <2>1. Held(t)
    BY <1>1 DEF Conserved
  <2> QED
    BY <1>2, <2>1 DEF Held
<1>5. Described'
  BY <1>1, <1>2 DEF Described, Names
<1> QED
  BY <1>3, <1>4, <1>5
-----------------------------------------------------------------------------
LEMMA HoldNext == HoldInv /\ [IONext]_ioVars => HoldInv'
<1> SUFFICES ASSUME HoldInv, [IONext]_ioVars PROVE HoldInv'
  OBVIOUS
<1>0. TypeInv /\ TypeInv'
  BY TypeNext DEF HoldInv
<1> SUFFICES Distinct' /\ Conserved' /\ Described'
  BY <1>0 DEF HoldInv
<1>1. ASSUME NEW ty \in RequestType, NEW d \in Data, Request(ty, d)
      PROVE  Distinct' /\ Conserved' /\ Described'
  BY <1>1, HoldRequest
<1>2. ASSUME NEW batch \in BatchSizes, ProcessSubmit(batch)
      PROVE  Distinct' /\ Conserved' /\ Described'
  BY <1>2, HoldSubmit
<1>3. CASE ProcessPeek
  <2>1. done = 0
    BY <1>0, <1>3, PlaceTypes DEF ProcessPeek, TypeInv, BatchProgress
  <2> QED
    BY <1>3, <2>1, HoldStill DEF ProcessPeek
<1>4. CASE ProcessWait
  BY <1>4, HoldStill DEF ProcessWait
<1>5. CASE ProcessWaitFails
  BY <1>5, HoldStill DEF ProcessWaitFails
<1>6. CASE ProcessCallback
  BY <1>6, HoldStill DEF ProcessCallback
<1>7. CASE ProcessRelease
  BY <1>7, HoldRelease
<1>8. CASE ProcessAdvance
  BY <1>8, HoldAdvance
<1>9. CASE KernelComplete
  BY <1>9, HoldComplete
<1>10. CASE FreeIOContext
  BY <1>10, HoldFree
<1>11. CASE UNCHANGED ioVars
  BY <1>11, HoldStill DEF ioVars
<1> QED
  BY <1>1, <1>2, <1>3, <1>4, <1>5, <1>6, <1>7, <1>8, <1>9, <1>10, <1>11
     DEF IONext, RequestRefused, ProcessSubmitFails

(* The places and the sets of tokens say the same.                         *)
LEMMA HoldImplies ==
  HoldInv => NoTokenSharing /\ NoTokenLeak /\ TokenDescribesRequest
<1> SUFFICES ASSUME HoldInv
             PROVE  NoTokenSharing /\ NoTokenLeak /\ TokenDescribesRequest
  OBVIOUS
<1> USE DEF FreePlaces, SqPlaces, CqPlaces, UnhandledPlaces
<1>1. TypeInv /\ Distinct /\ Conserved /\ Described
  BY DEF HoldInv
<1>2. UnhandledPlaces \subseteq CqPlaces
  BY <1>1, PlaceTypes
<1>3. NoTokenSharing
  <2>1. /\ \A i, j \in 0 .. tail - 1 : avail[i] = avail[j] => i = j
        /\ \A i, j \in 1 .. Len(sq) : sq[i].tok = sq[j].tok => i = j
        /\ \A e, f \in inflight : e.tok = f.tok => e = f
        /\ \A i, j \in done + 1 .. Len(cq) : cq[i].req.tok = cq[j].req.tok => i = j
    BY <1>1, <1>2 DEF Distinct
  <2>2. FreeTokens \cap (SqTokens \cup InflightTokens \cup CqTokens) = {}
    BY <1>1 DEF Distinct, FreeTokens, SqTokens, InflightTokens, CqTokens
  <2>3. SqTokens \cap (InflightTokens \cup CqTokens) = {}
    BY <1>1 DEF Distinct, SqTokens, InflightTokens, CqTokens
  <2>4. InflightTokens \cap CqTokens = {}
    BY <1>1, <1>2 DEF Distinct, InflightTokens, CqTokens
  <2> QED
    BY <2>1, <2>2, <2>3, <2>4 DEF NoTokenSharing
<1>4. NoTokenLeak
  <2> SUFFICES ASSUME pc \notin {"freed", "aborted"}
               PROVE  FreeTokens \cup SqTokens \cup InflightTokens \cup CqTokens = Tokens
    BY DEF NoTokenLeak
  <2>1. FreeTokens \cup SqTokens \cup InflightTokens \cup CqTokens \subseteq Tokens
    BY <1>1, <1>2, PlaceTypes DEF FreeTokens, SqTokens, InflightTokens, CqTokens
  <2>2. ASSUME NEW t \in Tokens
        PROVE  t \in FreeTokens \cup SqTokens \cup InflightTokens \cup CqTokens
    BY <1>1 DEF Conserved, Held, FreeTokens, SqTokens, InflightTokens, CqTokens
  <2> QED
    BY <2>1, <2>2
<1>5. TokenDescribesRequest
  BY <1>1 DEF Described, Names, TokenDescribesRequest, Outstanding, Unhandled
<1> QED
  BY <1>3, <1>4, <1>5

LEMMA HoldAlways == IOSpec => []HoldInv
  BY HoldInit, HoldNext, PTL DEF IOSpec

(* No token is ever in two places, for any number of tokens, requesters    *)
(* and requests, whether issued between calls of process() or from inside  *)
(* a callback.                                                             *)
THEOREM TokensNotShared == IOSpec => []NoTokenSharing
  BY HoldAlways, HoldImplies, PTL

(* Until the context is freed every token is available or with a request   *)
(* that is still to be called back: refusals, partial submissions and      *)
(* errors of process() lose none.                                          *)
THEOREM TokensNotLeaked == IOSpec => []NoTokenLeak
  BY HoldAlways, HoldImplies, PTL

(* process() calls back the requester of the operation that completed,     *)
(* with the type it asked for.                                             *)
THEOREM TokensDescribe == IOSpec => []TokenDescribesRequest
  BY HoldAlways, HoldImplies, PTL

-----------------------------------------------------------------------------
(* Room in the rings, from the tokens in them being distinct.              *)

LEMMA Card1N ==
  ASSUME NEW n \in Nat
  PROVE  Cardinality(1 .. n) = n
<1>1. 1 \in Int /\ n \in Int
  OBVIOUS
<1>2. Cardinality(1 .. n) = IF 1 > n THEN 0 ELSE n - 1 + 1
  BY <1>1, FS_Interval
<1> QED
  BY <1>2

LEMMA DistinctTokensBound ==
  ASSUME NEW T \in SUBSET Tokens, NEW S, NEW f \in [S -> T],
         \A x, y \in S : f[x] = f[y] => x = y
  PROVE  IsFiniteSet(S) /\ Cardinality(S) <= Cardinality(T) /\ Cardinality(T) <= Capacity
<1>1. IsFiniteSet(Tokens) /\ Cardinality(Tokens) = Capacity
  BY CardTokens
<1>2. IsFiniteSet(T) /\ Cardinality(T) <= Capacity
  BY <1>1, FS_Subset
<1>3. f \in Injection(S, T)
  BY DEF Injection, IsInjective
<1> QED
  BY <1>2, <1>3, FS_Injection

LEMMA RoomInRings == HoldInv => RingsNeverOverflow
<1> SUFFICES ASSUME HoldInv PROVE RingsNeverOverflow
  OBVIOUS
<1>1. TypeInv /\ Distinct
  BY DEF HoldInv
<1>2. /\ tail \in 0 .. Capacity /\ Len(sq) \in Nat /\ Len(cq) \in Nat
      /\ Capacity \in Nat \ {0}
  BY <1>1, PlaceTypes
<1>3. ASSUME tail > 0 PROVE Len(sq) < SqEntries
  <2> DEFINE t == avail[tail - 1]
             T == Tokens \ {t}
             f == [i \in SqPlaces |-> sq[i].tok]
  <2>1. tail - 1 \in FreePlaces
    BY <1>2, <1>3 DEF FreePlaces
  <2>2. t \in Tokens
    BY <2>1, <1>1, PlaceTypes
  <2>3. \A i \in SqPlaces : sq[i].tok \in T
    BY <2>1, <1>1, PlaceTypes DEF Distinct
  <2>4. f \in [SqPlaces -> T] /\ \A i, j \in SqPlaces : f[i] = f[j] => i = j
    BY <2>3, <1>1 DEF Distinct
  <2>5. Cardinality(T) = Capacity - 1
    <3>1. Cardinality(Tokens \ {t}) =
            IF t \in Tokens THEN Cardinality(Tokens) - 1 ELSE Cardinality(Tokens)
      BY CardTokens, FS_RemoveElement
    <3> QED
      BY <2>2, <3>1, CardTokens
  <2> HIDE DEF f, T
  <2>6. T \in SUBSET Tokens
    BY DEF T
  <2>7. Cardinality(SqPlaces) <= Cardinality(T)
    BY <2>4, <2>6, DistinctTokensBound
  <2>8. Cardinality(SqPlaces) = Len(sq)
    BY <1>2, Card1N DEF SqPlaces
  <2> QED
    BY <1>2, <2>5, <2>7, <2>8 DEF SqEntries
<1>4. Len(cq) <= Capacity
  <2> DEFINE f == [i \in CqPlaces |-> cq[i].req.tok]
  <2>1. f \in [CqPlaces -> Tokens] /\ \A i, j \in CqPlaces : f[i] = f[j] => i = j
    BY <1>1, PlaceTypes DEF Distinct
  <2> HIDE DEF f
  <2>2. Cardinality(CqPlaces) <= Cardinality(Tokens) /\ Cardinality(Tokens) <= Capacity
    BY <2>1, DistinctTokensBound
  <2>3. Cardinality(CqPlaces) = Len(cq)
    BY <1>2, Card1N DEF CqPlaces
  <2>4. Cardinality(Tokens) = Capacity
    BY CardTokens
  <2> QED
    BY <1>2, <2>2, <2>3, <2>4
<1>5. Cardinality(inflight) \in Nat /\ Cardinality(inflight) <= Capacity
  <2> DEFINE f == [e \in inflight |-> e.tok]
  <2>1. f \in [inflight -> Tokens] /\ \A x, y \in inflight : f[x] = f[y] => x = y
    BY <1>1, PlaceTypes DEF Distinct
  <2> HIDE DEF f
  <2>2. /\ IsFiniteSet(inflight)
        /\ Cardinality(inflight) <= Cardinality(Tokens)
    BY <2>1, DistinctTokensBound
  <2>3. Cardinality(Tokens) = Capacity
    BY CardTokens
  <2> QED
    BY <1>2, <2>2, <2>3, FS_CardinalityType
<1> QED
  BY <1>2, <1>3, <1>4, <1>5 DEF RingsNeverOverflow, CqEntries

(* Whenever a token is free so is a submission entry: the branch of        *)
(* request_* that gives a token back is never taken; and the kernel always *)
(* finds room to post a completion.                                        *)
THEOREM RingsHaveRoom == IOSpec => []RingsNeverOverflow
  BY HoldAlways, RoomInRings, PTL

-----------------------------------------------------------------------------
(* The I/O context is the service that CompletionService describes: what   *)
(* each step does to the requests that are asked for, answered and called  *)
(* back, and from that the refinement.                                     *)

AnsweredPlaces == CalledBack + 1 .. Len(cq)

LEMMA AnsweredFacts ==
  ASSUME TypeInv
  PROVE  /\ CalledBack \in {done, done + 1} /\ CalledBack \in 0 .. Len(cq)
         /\ AnsweredPlaces \subseteq UnhandledPlaces
         /\ UnhandledPlaces \subseteq CqPlaces
         /\ Answered = {cq[i] : i \in AnsweredPlaces}
         /\ pc # "release" => CalledBack = done
         /\ pc = "release" => /\ CalledBack = done + 1
                              /\ done + 1 \in UnhandledPlaces
                              /\ UnhandledPlaces = AnsweredPlaces \cup {done + 1}
                              /\ done + 1 \notin AnsweredPlaces
<1>1. /\ Len(cq) \in Nat /\ count \in 0 .. Len(cq) /\ done \in 0 .. count
      /\ pc = "release" => done < count
  BY PlaceTypes DEF TypeInv, BatchProgress
<1>2. /\ CalledBack \in {done, done + 1} /\ CalledBack \in 0 .. Len(cq)
      /\ pc = "release" => CalledBack = done + 1
      /\ pc # "release" => CalledBack = done
  BY <1>1 DEF CalledBack
<1>3. Answered = {cq[i] : i \in AnsweredPlaces}
  BY DEF Answered, AnsweredPlaces
<1> QED
  BY <1>1, <1>2, <1>3 DEF AnsweredPlaces, UnhandledPlaces, CqPlaces

(* What is asked for and answered, by the places that hold it.             *)
LEMMA AskedIs == Asked = {sq[i] : i \in SqPlaces} \cup inflight
  BY DEF Asked, SqPlaces

(* The tickets taken are those of the submission ring, of the kernel's     *)
(* work and of the completions not handled; none of them is in the bag.    *)
LEMMA TakenTokens ==
  ASSUME HoldInv, NEW t \in CS!Taken
  PROVE  /\ t \in Tokens
         /\ \A i \in FreePlaces : avail[i] # t
<1>1. TypeInv /\ Distinct
  BY DEF HoldInv
<1>2. CASE \E e \in Asked : t = e.tok
  <2>1. PICK e \in Asked : t = e.tok
    BY <1>2
  <2>2. \/ \E i \in SqPlaces : e = sq[i]
        \/ e \in inflight
    BY AskedIs
  <2> QED
    BY <1>1, <2>1, <2>2, PlaceTypes DEF Distinct
<1>3. CASE \E c \in Answered : t = c.req.tok
  <2>1. PICK i \in UnhandledPlaces : t = cq[i].req.tok
    BY <1>1, <1>3, AnsweredFacts
  <2>2. i \in CqPlaces
    BY <1>1, AnsweredFacts
  <2> QED
    BY <1>1, <2>1, <2>2, PlaceTypes DEF Distinct
<1>4. CASE \E b \in Callback : t = b.tok
  <2>1. pc = "release" /\ t = cq[done + 1].req.tok
    BY <1>4 DEF Callback, Reaped
  <2>2. done + 1 \in UnhandledPlaces /\ done + 1 \in CqPlaces
    BY <1>1, <2>1, AnsweredFacts
  <2> QED
    BY <1>1, <2>1, <2>2, PlaceTypes DEF Distinct
<1> QED
  BY <1>2, <1>3, <1>4 DEF CS!Taken

-----------------------------------------------------------------------------
(* Action by action *)

Closed == pc \in {"freed", "aborted"}

LEMMA AnsweredKept ==
  ASSUME UNCHANGED <<cq, CalledBack>>
  PROVE  Answered' = Answered
  BY DEF Answered

(* A request is asked for under a ticket that was free.                    *)
LEMMA RequestAsks ==
  ASSUME HoldInv, NEW ty \in RequestType, NEW d \in Data, Request(ty, d)
  PROVE  /\ Asked' = Asked \cup {[tok |-> avail[tail - 1], op |-> ty, who |-> d]}
         /\ Answered' = Answered /\ Callback' = Callback
         /\ ~Closed /\ ~Closed'
         /\ avail[tail - 1] \in Tokens \ CS!Taken
<1> DEFINE t == avail[tail - 1]
           e == [tok |-> t, op |-> ty, who |-> d]
           n == Len(sq)
<1>1. /\ tail # 0
      /\ token' = [token EXCEPT ![t] = [type |-> ty, data |-> d]]
      /\ sq' = Append(sq, e)
      /\ UNCHANGED <<inflight, cq, pc, done>>
      /\ pc \notin {"freed", "aborted"}
  BY DEF Request, CallerRuns
<1>2. TypeInv /\ Distinct
  BY DEF HoldInv
<1>3. /\ tail - 1 \in FreePlaces /\ n \in Nat
      /\ t \in Tokens /\ e \in Submission /\ sq \in Seq(Submission)
      /\ token \in [Tokens -> TokenStruct]
  BY <1>1, <1>2, PlaceTypes DEF TypeInv, IOTypeOK, FreePlaces, Submission
<1>4. t \notin CS!Taken
  BY <1>3, TakenTokens
<1>5. Asked' = Asked \cup {e}
  <2>1. /\ Len(sq') = n + 1
        /\ \A i \in 1 .. n : sq'[i] = sq[i]
        /\ sq'[n + 1] = e
    BY <1>1, <1>3, AppendProperties
  <2>2. SqPlaces' = SqPlaces \cup {n + 1} /\ \A i \in SqPlaces : sq'[i] = sq[i]
    BY <1>3, <2>1 DEF SqPlaces
  <2> HIDE DEF e, n
  <2>3. Asked' = {sq'[i] : i \in SqPlaces'} \cup inflight'
    BY DEF Asked, SqPlaces
  <2> QED
    BY <1>1, <2>1, <2>2, <2>3, AskedIs
<1>6. Answered' = Answered
  BY <1>1 DEF Answered, CalledBack
<1>7. Callback' = Callback
  <2>1. CASE pc # "release"
    BY <1>1, <2>1 DEF Callback
  <2>2. CASE pc = "release"
    <3> DEFINE u == cq[done + 1].req.tok
    <3>1. Reaped' = Reaped /\ u = Reaped.req.tok
      BY <1>1 DEF Reaped
    <3>2. done + 1 \in UnhandledPlaces /\ done + 1 \in CqPlaces
      BY <1>2, <2>2, AnsweredFacts
    <3>3. u \in Tokens /\ u # t
      BY <1>2, <1>3, <3>2, PlaceTypes DEF Distinct
    <3>4. token'[u] = token[u]
      BY <1>1, <1>3, <3>3
    <3> QED
      BY <1>1, <2>2, <3>1, <3>4 DEF Callback
  <2> QED
    BY <2>1, <2>2
<1> QED
  BY <1>1, <1>3, <1>4, <1>5, <1>6, <1>7 DEF Closed

(* Submitting moves requests from the ring to the kernel: still asked for. *)
LEMMA SubmitKeeps ==
  ASSUME HoldInv, NEW batch \in BatchSizes, ProcessSubmit(batch)
  PROVE  UNCHANGED <<Asked, Answered, Callback, Closed>>
<1>1. PICK k \in SubmitCounts :
        /\ inflight' = inflight \cup {sq[i] : i \in 1 .. k}
        /\ sq' = SubSeq(sq, k + 1, Len(sq))
  BY DEF ProcessSubmit
<1>2. UNCHANGED <<cq, done>> /\ pc = "idle" /\ pc' = "peek" /\ TypeInv
  BY DEF ProcessSubmit, HoldInv
<1>3. Len(sq) \in Nat /\ k \in 0 .. Len(sq) /\ sq \in Seq(Submission)
  BY <1>2, PlaceTypes, EmptySeq DEF TypeInv, IOTypeOK, SubmitCounts
<1>4. /\ Len(sq') = Len(sq) - k
      /\ \A i \in 1 .. Len(sq) - k : sq'[i] = sq[i + k]
  BY <1>1, <1>3, DropFacts
<1>5. /\ 1 .. k \subseteq SqPlaces
      /\ \A i \in SqPlaces' : i + k \in SqPlaces /\ sq'[i] = sq[i + k]
      /\ \A i \in SqPlaces \ (1 .. k) : i - k \in SqPlaces' /\ sq'[i - k] = sq[i]
  BY <1>3, <1>4 DEF SqPlaces
<1>6. Asked' = Asked
  <2>1. Asked' = {sq'[i] : i \in SqPlaces'} \cup inflight'
    BY DEF Asked, SqPlaces
  <2>2. ASSUME NEW e \in Asked' PROVE e \in Asked
    BY <1>1, <1>5, <2>1, <2>2, AskedIs
  <2>3. ASSUME NEW e \in Asked PROVE e \in Asked'
    <3>1. CASE e \in inflight
      BY <1>1, <2>1, <3>1
    <3>2. ASSUME NEW i \in SqPlaces, e = sq[i] PROVE e \in Asked'
      <4>1. CASE i \in 1 .. k
        BY <1>1, <2>1, <3>2, <4>1
      <4>2. CASE i \notin 1 .. k
        BY <1>5, <2>1, <3>2, <4>2
      <4> QED
        BY <4>1, <4>2
    <3> QED
      BY <3>1, <3>2, AskedIs
  <2> QED
    BY <2>2, <2>3
<1>7. Answered' = Answered /\ Callback' = Callback
  BY <1>2 DEF Answered, CalledBack, Callback
<1> QED
  BY <1>2, <1>6, <1>7 DEF Closed

(* The kernel's answer.                                                    *)
LEMMA CompleteAnswers ==
  ASSUME HoldInv, NEW e \in inflight, NEW r \in Results,
         inflight' = inflight \ {e},
         cq' = Append(cq, [req |-> e, res |-> r]),
         UNCHANGED <<tail, avail, token, sq, pc, limit, count, done>>
  PROVE  /\ e \in Asked /\ Asked' = Asked \ {e}
         /\ Answered' = Answered \cup {[req |-> e, res |-> r]}
         /\ UNCHANGED <<Callback, Closed>>
<1> DEFINE n == Len(cq)
           c == [req |-> e, res |-> r]
<1>1. TypeInv /\ Distinct
  BY DEF HoldInv
<1>2. /\ n \in Nat /\ Len(cq') = n + 1
      /\ \A i \in 1 .. n : cq'[i] = cq[i]
      /\ cq'[n + 1] = c
  <2>1. c \in Completion /\ cq \in Seq(Completion)
    BY <1>1, PlaceTypes DEF Completion, TypeInv, IOTypeOK
  <2> QED
    BY <1>1, <2>1, PlaceTypes, AppendProperties
<1>3. e \in Asked /\ Asked' = Asked \ {e}
  <2>1. Asked' = {sq[i] : i \in SqPlaces} \cup inflight'
    BY DEF Asked, SqPlaces
  <2>2. \A i \in SqPlaces : sq[i] # e
    BY <1>1 DEF Distinct
  <2> QED
    BY <2>1, <2>2, AskedIs
<1>4. Answered' = Answered \cup {c}
  <2>1. CalledBack' = CalledBack /\ CalledBack \in 0 .. n
    BY <1>1, AnsweredFacts DEF CalledBack
  <2>2. Answered' = {cq'[i] : i \in CalledBack + 1 .. n + 1}
    BY <1>2, <2>1 DEF Answered
  <2> DEFINE K == CalledBack + 1 .. n
  <2>3. /\ CalledBack + 1 .. n + 1 = K \cup {n + 1}
        /\ \A i \in K : cq'[i] = cq[i]
    BY <1>2, <2>1
  <2>4. Answered = {cq[i] : i \in K}
    BY DEF Answered
  <2> HIDE DEF c, n, K
  <2>5. Answered' = {cq'[i] : i \in K \cup {n + 1}}
    BY <2>2, <2>3
  <2>6. cq'[n + 1] = c /\ \A i \in K : cq'[i] = cq[i]
    BY <1>2, <2>3
  <2>7. \A x : x \in Answered' <=> \E i \in K \cup {n + 1} : x = cq'[i]
    BY <2>5
  <2>8. \A x : x \in Answered' <=> x \in Answered \/ x = c
    <3>1. \A x : x \in Answered <=> \E i \in K : x = cq[i]
      BY <2>4
    <3>2. \A x : x \in Answered' <=> (\E i \in K : x = cq'[i]) \/ x = cq'[n + 1]
      BY <2>7
    <3>3. \A x : (\E i \in K : x = cq'[i]) <=> \E i \in K : x = cq[i]
      BY <2>6
    <3> QED
      BY <2>6, <3>1, <3>2, <3>3
  <2> QED
    BY <2>8
<1>5. Callback' = Callback
  <2>1. CASE pc # "release"
    BY <2>1 DEF Callback
  <2>2. CASE pc = "release"
    <3>1. done + 1 \in 1 .. n
      BY <1>1, <2>2, AnsweredFacts DEF CqPlaces
    <3>2. Reaped' = Reaped
      BY <1>2, <3>1 DEF Reaped
    <3> QED
      BY <2>2, <3>2 DEF Callback
  <2> QED
    BY <2>1, <2>2
<1> QED
  BY <1>3, <1>4, <1>5 DEF Closed

(* A callback is made for one answer, with the arguments it was asked for. *)
LEMMA CallbackCalls ==
  ASSUME HoldInv, ProcessCallback
  PROVE  /\ Callback = {}
         /\ Reaped \in Answered /\ Answered' = Answered \ {Reaped}
         /\ Callback' = {[tok |-> Reaped.req.tok, type |-> Reaped.req.op,
                          data |-> Reaped.req.who, res |-> Reaped.res]}
         /\ UNCHANGED <<Asked, Closed>>
<1>1. /\ pc = "callback" /\ pc' = "release"
      /\ UNCHANGED <<token, sq, inflight, cq, done>>
      /\ TypeInv /\ Distinct /\ Described
  BY DEF ProcessCallback, HoldInv
<1>2. /\ Len(cq) \in Nat /\ done \in Nat /\ done < Len(cq)
      /\ CalledBack = done /\ CalledBack' = done + 1
      /\ done + 1 \in UnhandledPlaces
  BY <1>1, PlaceTypes DEF TypeInv, BatchProgress, CalledBack, UnhandledPlaces
<1>3. Reaped = cq[done + 1] /\ Reaped' = Reaped
  BY <1>1 DEF Reaped
<1>4. Reaped \in Answered /\ Answered' = Answered \ {Reaped}
  <2>1. /\ Answered = {cq[i] : i \in done + 1 .. Len(cq)}
        /\ Answered' = {cq[i] : i \in done + 2 .. Len(cq)}
    BY <1>1, <1>2 DEF Answered
  <2>2. /\ done + 1 .. Len(cq) = (done + 2 .. Len(cq)) \cup {done + 1}
        /\ done + 1 .. Len(cq) \subseteq CqPlaces
        /\ done + 1 \notin done + 2 .. Len(cq)
    BY <1>2 DEF CqPlaces
  <2>3. \A i \in done + 2 .. Len(cq) : cq[i] # cq[done + 1]
    BY <1>1, <2>2 DEF Distinct
  <2> QED
    BY <1>3, <2>1, <2>2, <2>3
<1>5. token[Reaped.req.tok] = [type |-> Reaped.req.op, data |-> Reaped.req.who]
  BY <1>1, <1>2, <1>3 DEF Described, Names
<1>6. Callback' = {[tok |-> Reaped.req.tok, type |-> Reaped.req.op,
                    data |-> Reaped.req.who, res |-> Reaped.res]}
  <2>1. token'[Reaped.req.tok].type = Reaped.req.op
        /\ token'[Reaped.req.tok].data = Reaped.req.who
    BY <1>1, <1>5
  <2> QED
    BY <1>1, <1>3, <2>1 DEF Callback
<1>7. Callback = {} /\ Asked' = Asked /\ Closed' = Closed
  BY <1>1 DEF Callback, Asked, Closed
<1> QED
  BY <1>4, <1>6, <1>7

(* Returning from a callback gives its ticket back and nothing else.       *)
LEMMA ReleaseReturns ==
  ASSUME HoldInv, ProcessRelease
  PROVE  /\ Callback # {} /\ Callback' = {}
         /\ UNCHANGED <<Asked, Answered, Closed>>
<1>1. /\ pc = "release" /\ pc' \in {"callback", "advance"} /\ done' = done + 1
      /\ UNCHANGED <<sq, inflight, cq>>
  BY DEF ProcessRelease
<1> QED
  BY <1>1 DEF Callback, Answered, CalledBack, Asked, Closed

LEMMA AdvanceKeeps ==
  ASSUME HoldInv, ProcessAdvance
  PROVE  UNCHANGED <<Asked, Answered, Callback, Closed>>
<1>1. /\ pc = "advance" /\ pc' = "idle" /\ done' = 0
      /\ cq' = SubSeq(cq, count + 1, Len(cq))
      /\ UNCHANGED <<sq, inflight>>
  BY DEF ProcessAdvance, Advance
<1>2. /\ TypeInv /\ done = count /\ count \in 0 .. Len(cq) /\ Len(cq) \in Nat
      /\ cq \in Seq(Completion)
  BY <1>1, PlaceTypes DEF HoldInv, TypeInv, BatchProgress, IOTypeOK
<1>3. /\ Len(cq') = Len(cq) - count
      /\ \A i \in 1 .. Len(cq) - count : cq'[i] = cq[i + count]
  BY <1>1, <1>2, DropFacts
<1>4. Answered' = Answered
  <2>1. /\ Answered = {cq[i] : i \in count + 1 .. Len(cq)}
        /\ Answered' = {cq'[i] : i \in 1 .. Len(cq) - count}
    <3>1. CalledBack = count /\ CalledBack' = 0 /\ 0 + 1 = 1
      BY <1>1, <1>2 DEF CalledBack
    <3>2. Answered' = {cq'[i] : i \in CalledBack' + 1 .. Len(cq')}
      BY DEF Answered
    <3>3. Answered = {cq[i] : i \in CalledBack + 1 .. Len(cq)}
      BY DEF Answered
    <3> QED
      BY <1>3, <3>1, <3>2, <3>3, Zenon
  <2>2. /\ \A i \in 1 .. Len(cq) - count :
             i + count \in count + 1 .. Len(cq) /\ cq'[i] = cq[i + count]
        /\ \A i \in count + 1 .. Len(cq) :
             i - count \in 1 .. Len(cq) - count /\ cq'[i - count] = cq[i]
    BY <1>2, <1>3
  <2> QED
    BY <2>1, <2>2
<1> QED
  BY <1>1, <1>4 DEF Callback, Asked, Closed

(* Freeing gives up what is outstanding.                                   *)
LEMMA FreeCloses ==
  ASSUME HoldInv, FreeIOContext
  PROVE  /\ Callback = {} /\ Callback' = {}
         /\ Asked' = {} /\ Answered' = {} /\ Closed'
<1>1. /\ pc = "idle" /\ pc' \in {"freed", "aborted"}
      /\ sq' = << >> /\ inflight' = {} /\ cq' = << >> /\ done' = done /\ done = 0
  BY PlaceTypes DEF FreeIOContext, HoldInv, TypeInv, BatchProgress
<1>2. Len(sq') = 0 /\ Len(cq') = 0
  BY <1>1, EmptySeq
<1> QED
  BY <1>1, <1>2 DEF Callback, Asked, Answered, CalledBack, Closed

LEMMA StillKeeps ==
  ASSUME UNCHANGED <<token, sq, inflight, cq, done>>,
         \/ pc' = pc
         \/ /\ pc \notin {"release", "freed", "aborted"}
            /\ pc' \notin {"release", "freed", "aborted"}
  PROVE  UNCHANGED <<Asked, Answered, Callback, Closed>>
<1>1. Reaped' = Reaped
  BY DEF Reaped
<1>2. UNCHANGED <<Asked, CalledBack, Closed>>
  BY DEF Asked, CalledBack, Closed
<1>3. Answered' = Answered
  BY <1>2 DEF Answered
<1>4. Callback' = Callback
  BY <1>1 DEF Callback
<1> QED
  BY <1>2, <1>3, <1>4

-----------------------------------------------------------------------------
LEMMA ServiceInit == IOInit => CS!CSInit
<1> SUFFICES ASSUME IOInit PROVE CS!CSInit
  OBVIOUS
<1>1. Len(sq) = 0 /\ Len(cq) = 0 /\ inflight = {} /\ pc = "idle" /\ done = 0
  BY EmptySeq DEF IOInit
<1> QED
  BY <1>1 DEF CS!CSInit, Asked, Answered, CalledBack, Callback

LEMMA ServiceNext == HoldInv /\ [IONext]_ioVars => [CS!CSNext]_(CS!csVars)
<1> SUFFICES ASSUME HoldInv, [IONext]_ioVars PROVE [CS!CSNext]_(CS!csVars)
  OBVIOUS
<1>0. ASSUME UNCHANGED <<Asked, Answered, Callback, Closed>> PROVE UNCHANGED CS!csVars
  BY <1>0 DEF CS!csVars, Closed
<1>1. ASSUME NEW ty \in RequestType, NEW d \in Data, Request(ty, d) PROVE CS!CSNext
  <2>1. CS!Ask(avail[tail - 1], ty, d)
    BY <1>1, RequestAsks DEF CS!Ask, Closed
  <2>2. avail[tail - 1] \in Tokens
    BY <1>1, RequestAsks
  <2> QED
    BY <2>1, <2>2 DEF CS!CSNext
<1>2. ASSUME NEW batch \in BatchSizes, ProcessSubmit(batch) PROVE UNCHANGED CS!csVars
  BY <1>0, <1>2, SubmitKeeps
<1>3. CASE ProcessPeek
  <2>1. done' = done
    BY <1>3, PlaceTypes DEF ProcessPeek, HoldInv, TypeInv, BatchProgress
  <2> QED
    BY <1>0, <1>3, <2>1, StillKeeps DEF ProcessPeek
<1>4. CASE ProcessWait
  BY <1>0, <1>4, StillKeeps DEF ProcessWait
<1>5. CASE ProcessWaitFails
  BY <1>0, <1>5, StillKeeps DEF ProcessWaitFails
<1>6. CASE ProcessCallback
  <2>1. CS!Call(Reaped) /\ Reaped \in Answered
    BY <1>6, CallbackCalls DEF CS!Call, Closed
  <2> QED
    BY <2>1 DEF CS!CSNext
<1>7. CASE ProcessRelease
  <2>1. CS!CallReturns
    BY <1>7, ReleaseReturns DEF CS!CallReturns, Closed
  <2> QED
    BY <2>1 DEF CS!CSNext
<1>8. CASE ProcessAdvance
  BY <1>0, <1>8, AdvanceKeeps
<1>9. CASE KernelComplete
  <2>1. PICK e \in inflight, r \in Results :
          /\ inflight' = inflight \ {e}
          /\ cq' = Append(cq, [req |-> e, res |-> r])
          /\ UNCHANGED <<tail, avail, token, sq, pc, limit, count, done>>
    BY <1>9 DEF KernelComplete
  <2>2. CS!Respond(e, r) /\ e \in Asked
    BY <2>1, CompleteAnswers DEF CS!Respond, Closed
  <2> QED
    BY <2>2 DEF CS!CSNext
<1>10. CASE FreeIOContext
  <2>1. CS!CloseService
    BY <1>10, FreeCloses DEF CS!CloseService, Closed
  <2> QED
    BY <2>1 DEF CS!CSNext
<1>11. CASE UNCHANGED ioVars
  BY <1>0, <1>11, StillKeeps DEF ioVars
<1> QED
  BY <1>1, <1>2, <1>3, <1>4, <1>5, <1>6, <1>7, <1>8, <1>9, <1>10, <1>11
     DEF IONext, RequestRefused, ProcessSubmitFails

(* Tokens that go back to the bag before their batch is over, requests     *)
(* made from inside callbacks, partial submissions and answers in any      *)
(* order amount to a service that calls each request back once, as it was  *)
(* made and with its own answer.                                           *)
THEOREM ContextIsService == IOSpec => IsCompletionService
<1>1. IOSpec => [][CS!CSNext]_(CS!csVars)
  BY HoldAlways, ServiceNext, PTL DEF IOSpec
<1> QED
  BY <1>1, ServiceInit DEF IOSpec, IsCompletionService, CS!CSSpec
=============================================================================

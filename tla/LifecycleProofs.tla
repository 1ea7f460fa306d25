-------------------------- MODULE LifecycleProofs --------------------------
(***************************************************************************)
(* Setting an executor up and tearing it down, for every width of the      *)
(* words, every size a caller asks for and every failure on the way: what  *)
(* align32pow2 computes, and what is allocated at each point.              *)
(***************************************************************************)
EXTENDS Lifecycle, WellFoundedInduction, TLAPS

-----------------------------------------------------------------------------
(* Words *)

LEMMA LeastPlace ==
  ASSUME NEW S \in SUBSET Nat, S # {}
  PROVE  \E i \in S : \A j \in S : i <= j
<1> DEFINE R == {ss \in Nat \X Nat : ss[1] < ss[2]}
<1>1. IsWellFoundedOn(R, Nat)
  BY NatLessThanWellFounded DEF OpToRel
<1> HIDE DEF R
<1>2. PICK i \in S : \A j \in S : ~ (<<j, i>> \in R)
  BY <1>1, WFMin
<1>3. \A j \in S : i <= j
  <2> SUFFICES ASSUME NEW j \in S PROVE i <= j
    OBVIOUS
  <2>1. <<j, i>> \notin R
    BY <1>2
  <2> QED
    BY <2>1 DEF R
<1> QED
  BY <1>3

(* A word that is not zero has a highest bit: the least bound of its bits  *)
(* is one of them.                                                         *)
LEMMA HighestBit ==
  ASSUME NEW x \in SUBSET Nat, x # {}, NEW n \in Nat, \A i \in x : i <= n
  PROVE  \E k \in x : \A i \in x : i <= k
<1> DEFINE S == {b \in Nat : \A i \in x : i <= b}
<1>1. S \in SUBSET Nat /\ n \in S
  OBVIOUS
<1>2. PICK k \in S : \A b \in S : k <= b
  BY <1>1, LeastPlace
<1>3. k \in x
  <2> SUFFICES ASSUME k \notin x PROVE FALSE
    OBVIOUS
  <2>1. k \in Nat /\ \A i \in x : i < k
    BY <1>2
  <2>2. PICK e \in x : TRUE
    OBVIOUS
  <2>3. k - 1 \in S
    BY <2>1, <2>2
  <2> QED
    BY <1>2, <2>1, <2>3
<1> QED
  BY <1>2, <1>3

LEMMA WordTypes ==
  /\ Width \in Nat \ {0} /\ Width <= 32 /\ SizeWidth \in Nat /\ Width <= SizeWidth
  /\ \A x, w : Succ(x, w) \subseteq 0 .. w - 1 /\ Pred(x, w) \subseteq 0 .. w - 1
  /\ \A x : align32pow2(x) \subseteq Bits
<1>1. Width \in Nat \ {0} /\ Width <= 32 /\ SizeWidth \in Nat /\ Width <= SizeWidth
  BY WidthAssumption, SizesAssumption
<1>2. \A x, w : Succ(x, w) \subseteq 0 .. w - 1 /\ Pred(x, w) \subseteq 0 .. w - 1
  BY DEF Succ, Pred
<1>3. \A x : align32pow2(x) \subseteq Bits
  BY <1>2 DEF align32pow2, Increment, Bits
<1> QED
  BY <1>1, <1>2, <1>3

(* The carry reaches a bit in the one case the borrow does: subtracting 1  *)
(* undoes adding 1, overflow or not.                                       *)
LEMMA PredOfSucc ==
  ASSUME NEW w \in Nat, NEW x \in SUBSET (0 .. w - 1)
  PROVE  Pred(Succ(x, w), w) = x
<1> DEFINE y == Succ(x, w)
<1>1. \A i \in 0 .. w - 1 : i \in y <=> (i \in x <=> \E j \in 0 .. i - 1 : j \notin x)
  BY DEF Succ
<1> HIDE DEF y
<1>2. ASSUME NEW i \in 0 .. w - 1
      PROVE  (\E j \in 0 .. i - 1 : j \in y) <=> (\E j \in 0 .. i - 1 : j \notin x)
  <2>1. ASSUME \A j \in 0 .. i - 1 : j \in x, NEW j \in 0 .. i - 1
        PROVE  j \notin y
    <3>1. j \in 0 .. w - 1 /\ \A l \in 0 .. j - 1 : l \in 0 .. i - 1
      OBVIOUS
    <3> QED
      BY <1>1, <2>1, <3>1
  <2>2. ASSUME NEW l \in 0 .. i - 1, l \notin x
        PROVE  \E j \in 0 .. i - 1 : j \in y
    <3> DEFINE S == (0 .. i - 1) \ x
    <3>1. S \in SUBSET Nat /\ l \in S
      BY <2>2
    <3>2. PICK j \in S : \A m \in S : j <= m
      BY <3>1, LeastPlace
    <3>3. j \in 0 .. w - 1 /\ j \in 0 .. i - 1 /\ j \notin x
      BY <3>2
    <3>4. ASSUME NEW m \in 0 .. j - 1 PROVE m \in x
      BY <3>2, <3>3, <3>4
    <3>5. j \in y
      BY <1>1, <3>3, <3>4
    <3> QED
      BY <3>3, <3>5
  <2> QED
    BY <2>1, <2>2
<1>3. \A i \in 0 .. w - 1 : i \in Pred(y, w) <=> (i \in y <=> \E j \in 0 .. i - 1 : j \in y)
  BY DEF Pred
<1>4. \A i \in 0 .. w - 1 : i \in Pred(y, w) <=> i \in x
  BY <1>1, <1>2, <1>3
<1>5. Pred(y, w) \subseteq 0 .. w - 1
  BY DEF Pred
<1> QED
  BY <1>4, <1>5 DEF y

(* Adding 1 to a size_t and cutting it is adding 1 to what is cut.         *)
LEMMA CutOfPlusOne ==
  ASSUME NEW n \in Sizes
  PROVE  Cut(PlusOne(n)) = Increment(Cut(n))
<1>1. Bits \subseteq 0 .. SizeWidth - 1
  BY WordTypes DEF Bits
<1>2. \A i \in Bits : 0 .. i - 1 \subseteq Bits
  BY WordTypes DEF Bits
<1>3. \A i \in Bits : (\E j \in 0 .. i - 1 : j \notin n) <=> (\E j \in 0 .. i - 1 : j \notin Cut(n))
  BY <1>2 DEF Cut
<1>4. \A i \in Bits : i \in n <=> i \in Cut(n)
  BY DEF Cut
<1>5. \A i \in Bits : i \in PlusOne(n) <=> i \in Increment(Cut(n))
  BY <1>1, <1>3, <1>4 DEF PlusOne, Increment, Succ, Bits
<1>6. Increment(Cut(n)) \subseteq Bits
  BY DEF Increment, Succ, Bits
<1> QED
  BY <1>5, <1>6 DEF Cut

(* n ones from bit k downwards, and none above it.                         *)
Ones(x, k, n) == x \subseteq 0 .. k /\ \A i \in 0 .. k : k < i + n => i \in x

LEMMA OrShiftDoubles ==
  ASSUME NEW x, NEW k \in Bits, NEW n \in Nat, Ones(x, k, n)
  PROVE  Ones(OrShift(x, n), k, n + n)
<1>1. \A i \in 0 .. k : i \in Bits
  BY WordTypes DEF Bits
<1>2. x \subseteq 0 .. k /\ \A i \in 0 .. k : k < i + n => i \in x
  BY DEF Ones
<1>3. ASSUME NEW i \in 0 .. k, k < i + (n + n)
      PROVE  i \in OrShift(x, n)
  <2>1. CASE k < i + n
    BY <1>2, <2>1 DEF OrShift
  <2>2. CASE ~(k < i + n)
    <3>1. i + n \in 0 .. k /\ k < (i + n) + n
      BY <1>3, <2>2 DEF Bits
    <3> QED
      BY <1>1, <1>2, <3>1 DEF OrShift
  <2> QED
    BY <2>1, <2>2
<1>4. ASSUME NEW i \in OrShift(x, n)
      PROVE  i \in 0 .. k
  <2>1. CASE i \in x
    BY <1>2, <2>1
  <2>2. CASE i \in Bits /\ i + n \in x
    <3>1. i \in Nat /\ i + n \in 0 .. k
      BY <1>2, <2>2, WordTypes DEF Bits
    <3> QED
      BY <3>1 DEF Bits
  <2> QED
    BY <1>4, <2>1, <2>2 DEF OrShift
<1> QED
  BY <1>3, <1>4 DEF Ones

(* Five shifts are enough for 32 bits: everything below the highest bit is *)
(* one.                                                                    *)
LEMMA SmearFills ==
  ASSUME NEW x \in SUBSET Bits, NEW k \in x, \A i \in x : i <= k
  PROVE  Smear(x) = 0 .. k
<1>1. k \in Bits /\ k \in Nat /\ k < 32
  BY WordTypes DEF Bits
<1>2. Ones(x, k, 1)
  BY <1>1, WordTypes DEF Ones, Bits
<1>3. Ones(OrShift(x, 1), k, 2)
  BY <1>1, <1>2, OrShiftDoubles, 1 + 1 = 2
<1>4. Ones(OrShift(OrShift(x, 1), 2), k, 4)
  BY <1>1, <1>3, OrShiftDoubles, 2 + 2 = 4
<1>5. Ones(OrShift(OrShift(OrShift(x, 1), 2), 4), k, 8)
  BY <1>1, <1>4, OrShiftDoubles, 4 + 4 = 8
<1>6. Ones(OrShift(OrShift(OrShift(OrShift(x, 1), 2), 4), 8), k, 16)
  BY <1>1, <1>5, OrShiftDoubles, 8 + 8 = 16
<1>7. Ones(Smear(x), k, 32)
  BY <1>1, <1>6, OrShiftDoubles, 16 + 16 = 32 DEF Smear
<1>8. Smear(x) \subseteq 0 .. k /\ \A i \in 0 .. k : i \in Smear(x)
  BY <1>1, <1>7 DEF Ones
<1> QED
  BY <1>8

LEMMA IncrementOnes ==
  ASSUME NEW k \in Bits
  PROVE  Increment(0 .. k) = {k + 1} \cap Bits
<1>1. k \in Nat /\ Width \in Nat
  BY WordTypes DEF Bits
<1>2. \A i \in Bits : (\E j \in 0 .. i - 1 : j \notin 0 .. k) <=> ~(i <= k + 1)
  <2> SUFFICES ASSUME NEW i \in Bits
               PROVE  (\E j \in 0 .. i - 1 : j \notin 0 .. k) <=> ~(i <= k + 1)
    OBVIOUS
  <2>1. i \in Nat
    BY DEF Bits
  <2>2. ASSUME ~(i <= k + 1) PROVE \E j \in 0 .. i - 1 : j \notin 0 .. k
    <3>1. k + 1 \in 0 .. i - 1
      BY <1>1, <2>1, <2>2
    <3> QED
      BY <1>1, <3>1
  <2> QED
    BY <1>1, <2>1, <2>2
<1>3. \A i \in Bits : i \in 0 .. k <=> i <= k
  BY <1>1 DEF Bits
<1>4. \A i \in Bits : (i \in 0 .. k <=> \E j \in 0 .. i - 1 : j \notin 0 .. k) <=> i = k + 1
  BY <1>1, <1>2, <1>3 DEF Bits
<1> QED
  BY <1>4 DEF Increment, Succ, Bits

(* What align32pow2 computes: the bit above the highest of x - 1, if there *)
(* is room for it.                                                         *)
LEMMA AlignGives ==
  ASSUME NEW y, NEW k \in Decrement(Cut(y)), \A i \in Decrement(Cut(y)) : i <= k
  PROVE  align32pow2(y) = {k + 1} \cap Bits
<1> DEFINE v == Decrement(Cut(y))
<1>1. v \in SUBSET Bits /\ k \in Bits
  BY DEF Decrement, Pred, Bits
<1>2. Smear(v) = 0 .. k
  BY <1>1, SmearFills
<1> QED
  BY <1>1, <1>2, IncrementOnes DEF align32pow2

(* What an executor gets that asks for n more than the main frame.         *)
Sized(n) == align32pow2(PlusOne(n))

LEMMA DecrementedAgain ==
  ASSUME NEW n \in Sizes
  PROVE  Decrement(Cut(PlusOne(n))) = Cut(n)
<1>1. Cut(n) \in SUBSET (0 .. Width - 1)
  BY DEF Cut, Bits
<1> QED
  BY <1>1, CutOfPlusOne, PredOfSucc, WordTypes DEF Decrement, Increment

(* Less than half of the range: the bit above the highest one of n.        *)
LEMMA SmallSizes ==
  ASSUME NEW n \in Sizes, n # {}, n \subseteq 0 .. Width - 2
  PROVE  LeastPowerAbove(n, Sized(n))
<1>1. Width - 1 \in Nat /\ n \in SUBSET Nat /\ \A i \in n : i <= Width - 1
  BY WordTypes DEF Sizes
<1>2. PICK k \in n : \A i \in n : i <= k
  BY <1>1, HighestBit
<1>3. Cut(n) = n
  <2>1. 0 .. Width - 2 \subseteq Bits
    BY WordTypes DEF Bits
  <2> QED
    BY <2>1 DEF Cut
<1>4. Sized(n) = {k + 1} \cap Bits
  BY <1>2, <1>3, DecrementedAgain, AlignGives DEF Sized
<1>5. k + 1 \in Bits
  BY <1>2, WordTypes DEF Bits
<1> QED
  BY <1>2, <1>4, <1>5 DEF LeastPowerAbove

(* Otherwise no more than n: a bit of n is above all that is got, or       *)
(* nothing is got.                                                         *)
LEMMA LargeSizes ==
  ASSUME NEW n \in Sizes, ~(n \subseteq 0 .. Width - 2)
  PROVE  ~Less(n, Sized(n))
<1>1. n \in SUBSET Nat /\ Sized(n) \subseteq Bits
  BY WordTypes DEF Sizes, Sized
<1>2. PICK h \in n : h \notin 0 .. Width - 2
  OBVIOUS
<1>3. CASE h \notin Bits
  <2>1. h \in n \ Sized(n) /\ \A i \in Bits : ~(h < i)
    BY <1>1, <1>2, <1>3, WordTypes DEF Bits
  <2> QED
    BY <1>1, <2>1 DEF Less
<1>4. CASE h \in Bits
  <2>1. h = Width - 1
    BY <1>2, <1>4, WordTypes DEF Bits
  <2>2. h \in Cut(n) /\ \A i \in Cut(n) : i <= h
    BY <1>4, <2>1, WordTypes DEF Cut, Bits
  <2>3. Sized(n) = {h + 1} \cap Bits
    BY <2>2, DecrementedAgain, AlignGives DEF Sized
  <2>4. h + 1 \notin Bits
    BY <2>1, WordTypes DEF Bits
  <2> QED
    BY <2>3, <2>4 DEF Less
<1> QED
  BY <1>3, <1>4

(* Nothing is got when the size has wrapped round to 0 or is more than     *)
(* half of the range: then x - 1 has the highest bit of a word.            *)
LEMMA NothingIsGot ==
  ASSUME NEW y, align32pow2(y) = {}
  PROVE  Cut(y) = {} \/ Less({Width - 1}, Cut(y))
<1> DEFINE top == Width - 1
           x == Cut(y)
           v == Decrement(x)
<1>1. top \in Bits /\ \A i \in Bits : i \in Nat /\ i <= top
  BY WordTypes DEF Bits
<1>2. v \subseteq Bits
  BY DEF Decrement, Pred, Bits
<1>3. SUFFICES ASSUME x # {} PROVE Less({top}, x)
  OBVIOUS
<1>4. x \subseteq Bits /\ x \in SUBSET Nat
  BY <1>1 DEF Cut
<1> HIDE DEF x
<1>5. \A i \in Bits : i \in v <=> (i \in x <=> \E j \in 0 .. i - 1 : j \in x)
  BY DEF Decrement, Pred, Bits
<1> HIDE DEF v
<1>6. top \in v
  <2>1. CASE v = {}
    (* Only 1 - 1 is 0, and smearing and adding gives 1. *)
    <3>1. Smear(v) = {}
      BY <2>1 DEF Smear, OrShift
    <3>2. 0 \in Bits /\ \A j \in 0 .. 0 - 1 : FALSE
      BY WordTypes DEF Bits
    <3>3. 0 \in Increment(Smear(v))
      BY <3>1, <3>2 DEF Increment, Succ, Bits
    <3> QED
      BY <3>3 DEF align32pow2, v, x
  <2>2. CASE v # {}
    <3>1. PICK k \in v : \A i \in v : i <= k
      BY <1>1, <1>2, <2>2, HighestBit
    <3>2. {k + 1} \cap Bits = {}
      BY <3>1, AlignGives DEF v, x
    <3> QED
      BY <1>1, <1>2, <3>1, <3>2, WordTypes DEF Bits
  <2> QED
    BY <2>1, <2>2
<1>7. top \in x => \E j \in x : j < top
  BY <1>1, <1>5, <1>6
<1>8. top \in x
  <2> SUFFICES ASSUME top \notin x PROVE FALSE
    OBVIOUS
  <2>1. PICK i \in x : TRUE
    BY <1>3
  <2>2. i \in Nat /\ i <= top /\ i # top /\ top \in Nat
    BY <1>1, <1>4, <2>1
  <2>3. i \in 0 .. top - 1
    BY <2>2
  <2> QED
    BY <1>1, <1>5, <1>6, <2>1, <2>3
<1>9. PICK j \in x : j < top
  BY <1>7, <1>8
<1>10. j \in x \ {top} /\ \A i \in {top} \ x : i < j
  BY <1>1, <1>4, <1>8, <1>9
<1> QED
  BY <1>10 DEF Less

-----------------------------------------------------------------------------
(* The program *)

(* What is allocated at each point between two steps, whether the ring is  *)
(* there, and what the sizes are by then.                                  *)
Stages ==
  /\ pc \in {"init", "tokens"} => blocks = {}
  /\ pc \in {"queue", "frames", "free_io_context"} => blocks = TokenBlocks
  /\ pc \in {"link", "ready"} => blocks = TokenBlocks \cup FrameBlocks
  /\ pc \in {"init", "tokens", "queue"} => ring = "none"
  /\ pc \in {"frames", "link", "ready", "free_io_context"} =>
       ring = "made" /\ exe.iocCapacity # {}

Counted ==
  /\ pc \in {"tokens", "queue", "frames", "link", "ready"} => count # {} /\ capacity # {}
  /\ pc \in {"queue", "frames", "link", "ready"} => exe.iocCapacity = Sized(capacity)
  /\ pc \in {"link", "ready"} => exe.capacity = Sized(count)

(* The frames are linked from the last step of init_executor to the last   *)
(* of free_executor.                                                       *)
Linked == exe.linked <=> pc \in {"ready", "free_io_context"}

LifeInv == LifecycleTypeOK /\ Stages /\ Counted /\ Linked /\ LeftBehindOnFailure

LEMMA Blocks ==
  /\ TokenBlocks = {"available_tokens", "tokens"}
  /\ TokenBlocks \cap FrameBlocks = {}
  /\ "frames" \notin TokenBlocks
BY DEF TokenBlocks, FrameBlocks

LEMMA LifeInit == Init => LifeInv
<1> SUFFICES ASSUME Init
             PROVE  LifeInv
  OBVIOUS
<1>1. Junk \in Struct /\ Junk.linked = FALSE
  BY DEF Junk, Zero, Struct, Pointer
<1>2. LifecycleTypeOK
  BY <1>1 DEF Init, LifecycleTypeOK
<1> QED
  BY <1>1, <1>2 DEF Init, LifeInv, Stages, Counted, Linked, LeftBehindOnFailure

LEMMA InitNext == ASSUME LifeInv, InitExecutor PROVE LifeInv'
<1>1. Zero \in Struct /\ Zero.linked = FALSE
  BY DEF Zero, Struct, Pointer
<1>2. pc = "init" /\ UNCHANGED <<count, capacity, blocks, ring>> /\ pc' \in {"failed", "tokens"}
  BY DEF InitExecutor
<1>3. exe' \in {exe, Zero} /\ (pc' = "tokens" => count # {} /\ capacity # {})
  BY DEF InitExecutor
<1>4. LifecycleTypeOK'
  BY <1>1, <1>2, <1>3 DEF LifeInv, LifecycleTypeOK
<1> QED
  BY <1>1, <1>2, <1>3, <1>4
     DEF LifeInv, Stages, Counted, Linked, LeftBehindOnFailure

LEMMA TokensNext == ASSUME LifeInv, AllocateTokens PROVE LifeInv'
<1>1. PICK got \in SUBSET TokenBlocks :
        /\ blocks' = IF got = TokenBlocks THEN blocks \cup got ELSE blocks
        /\ exe' = [exe EXCEPT !.iocCapacity = Sized(capacity),
                     !.available_tokens = IF got = TokenBlocks THEN "block"
                                          ELSE IF "available_tokens" \in got THEN "dangling"
                                          ELSE "null"]
        /\ pc' = IF got = TokenBlocks THEN "queue" ELSE "failed"
  BY DEF AllocateTokens, Sized
<1>2. pc = "tokens" /\ UNCHANGED <<count, capacity, ring>>
  BY DEF AllocateTokens
<1>3. exe \in Struct /\ Sized(capacity) \in SUBSET Bits
  BY WordTypes DEF LifeInv, LifecycleTypeOK, Sized
<1>4. /\ exe' \in Struct
      /\ exe'.iocCapacity = Sized(capacity) /\ exe'.linked = exe.linked
  BY <1>1, <1>3 DEF Struct, Pointer
<1>5. blocks' = IF got = TokenBlocks THEN TokenBlocks ELSE {}
  BY <1>1, <1>2 DEF LifeInv, Stages
<1>6. LifecycleTypeOK'
  BY <1>1, <1>2, <1>4, <1>5 DEF LifeInv, LifecycleTypeOK
<1> QED
  BY <1>1, <1>2, <1>4, <1>5, <1>6
     DEF LifeInv, Stages, Counted, Linked, LeftBehindOnFailure

LEMMA QueueNext == ASSUME LifeInv, QueueInit PROVE LifeInv'
BY DEF LifeInv, LifecycleTypeOK, Stages, Counted, Linked, LeftBehindOnFailure, QueueInit

(* The ring that was never made is exited; the tokens are given back, or   *)
(* lost with an array of no entries.                                       *)
LEMMA QueueFailsNext == ASSUME LifeInv, QueueInitFails PROVE LifeInv'
<1>1. pc = "queue" /\ UNCHANGED <<count, capacity>>
  BY DEF QueueInitFails
<1>2. /\ blocks = TokenBlocks /\ ring = "none" /\ exe.linked = FALSE /\ exe \in Struct
      /\ exe.iocCapacity = Sized(capacity)
  BY <1>1 DEF LifeInv, LifecycleTypeOK, Stages, Counted, Linked, Struct
<1>3. CASE pc' = "undefined" /\ UNCHANGED <<blocks, ring, exe>>
  BY <1>1, <1>2, <1>3 DEF LifeInv, LifecycleTypeOK, Stages, Counted, Linked, LeftBehindOnFailure
<1>4. CASE /\ FreeIOContext
           /\ exe' = [exe EXCEPT !.available_tokens = "null", !.iocCapacity = {}]
           /\ pc' = "failed"
  <2>1. exe' \in Struct /\ exe'.linked = FALSE
    BY <1>2, <1>4 DEF Struct, Pointer
  <2>2. /\ ring' = "exited" /\ blocks' \subseteq {"tokens"}
        /\ blocks' # {} => Sized(capacity) = {}
    BY <1>2, <1>4, Blocks DEF FreeIOContext
  <2>3. LifecycleTypeOK'
    BY <1>1, <1>4, <2>1, <2>2, Blocks DEF LifeInv, LifecycleTypeOK
  <2>4. LeftBehindOnFailure'
    BY <1>1, <2>2, NothingIsGot DEF LeftBehindOnFailure, Sized
  <2> QED
    BY <1>4, <2>1, <2>3, <2>4 DEF LifeInv, Stages, Counted, Linked
<1> QED
  BY <1>3, <1>4 DEF QueueInitFails

LEMMA FramesNext == ASSUME LifeInv, AllocateFrames PROVE LifeInv'
<1>1. PICK got \in SUBSET FrameBlocks :
        /\ blocks' = blocks \cup (IF got = FrameBlocks THEN got ELSE got \cap {"frames"})
        /\ exe' = [exe EXCEPT !.capacity = Sized(count),
                     !.frames = IF "frames" \in got THEN "block" ELSE "null"]
        /\ pc' = IF got = FrameBlocks THEN "link" ELSE "failed"
  BY DEF AllocateFrames, Sized
<1>2. pc = "frames" /\ UNCHANGED <<count, capacity, ring>>
  BY DEF AllocateFrames
<1>3. exe \in Struct /\ Sized(count) \in SUBSET Bits
  BY WordTypes DEF LifeInv, LifecycleTypeOK, Sized
<1>4. /\ exe' \in Struct /\ exe'.capacity = Sized(count)
      /\ exe'.iocCapacity = exe.iocCapacity /\ exe'.linked = exe.linked
  BY <1>1, <1>3 DEF Struct, Pointer
<1>5. /\ blocks = TokenBlocks /\ ring = "made" /\ exe.linked = FALSE
      /\ blocks' \subseteq TokenBlocks \cup FrameBlocks
      /\ pc' = "link" => blocks' = TokenBlocks \cup FrameBlocks
      /\ pc' = "failed" => blocks' \ {"frames"} = TokenBlocks
  <2>1. blocks = TokenBlocks /\ ring = "made" /\ exe.linked = FALSE
    BY <1>2, <1>3 DEF LifeInv, Stages, Linked, Struct
  <2> QED
    BY <1>1, <2>1, Blocks
<1>6. LifecycleTypeOK'
  BY <1>1, <1>2, <1>4, <1>5 DEF LifeInv, LifecycleTypeOK
<1> QED
  BY <1>1, <1>2, <1>4, <1>5, <1>6
     DEF LifeInv, Stages, Counted, Linked, LeftBehindOnFailure

LEMMA LinkNext == ASSUME LifeInv, LinkFrames PROVE LifeInv'
<1>1. pc = "link" /\ UNCHANGED <<count, capacity, blocks, ring>> /\ exe \in Struct
  BY DEF LinkFrames, LifeInv, LifecycleTypeOK
<1>2. /\ exe' \in Struct /\ exe'.linked = (exe.capacity # {})
      /\ exe'.capacity = exe.capacity /\ exe'.iocCapacity = exe.iocCapacity
  BY <1>1 DEF LinkFrames, Struct
<1>3. pc' = IF exe.capacity # {} THEN "ready" ELSE "undefined"
  BY DEF LinkFrames
<1>4. LifecycleTypeOK'
  BY <1>1, <1>2, <1>3 DEF LifeInv, LifecycleTypeOK
<1> QED
  BY <1>1, <1>2, <1>3, <1>4 DEF LifeInv, Stages, Counted, Linked, LeftBehindOnFailure

(* free_executor *)
LEMMA FreeNext ==
  ASSUME LifeInv, FreeExecutor \/ FreeExecutorEnds \/ FreeUninitialized \/ FreeHalfMade
  PROVE  LifeInv'
<1>1. Zero \in Struct /\ Zero.linked = FALSE
  BY DEF Zero, Struct, Pointer
<1>2. CASE FreeExecutor
  <2>1. blocks' = TokenBlocks
    BY <1>2, Blocks DEF FreeExecutor, LifeInv, Stages
  <2> QED
    BY <1>2, <2>1 DEF FreeExecutor, LifeInv, LifecycleTypeOK, Stages, Counted, Linked,
                      LeftBehindOnFailure
<1>3. CASE FreeExecutorEnds
  BY <1>1, <1>3 DEF FreeExecutorEnds, FreeIOContext, LifeInv, LifecycleTypeOK, Stages, Counted,
                    Linked, LeftBehindOnFailure
<1>4. CASE FreeUninitialized
  BY <1>1, <1>4 DEF FreeUninitialized, LifeInv, LifecycleTypeOK, Stages, Counted, Linked,
                    LeftBehindOnFailure
<1>5. CASE FreeHalfMade
  BY <1>5 DEF FreeHalfMade, LifeInv, LifecycleTypeOK, Stages, Counted, Linked,
              LeftBehindOnFailure
<1> QED
  BY <1>2, <1>3, <1>4, <1>5

LEMMA LifeNext == LifeInv /\ [Next]_vars => LifeInv'
<1> SUFFICES ASSUME LifeInv, [Next]_vars
             PROVE  LifeInv'
  OBVIOUS
<1>1. CASE UNCHANGED vars
  BY <1>1 DEF vars, LifeInv, LifecycleTypeOK, Stages, Counted, Linked, LeftBehindOnFailure
<1>2. CASE Next
  BY <1>1, <1>2, InitNext, TokensNext, QueueNext, QueueFailsNext, FramesNext, LinkNext, FreeNext
     DEF Next, Ended
<1> QED
  BY <1>1, <1>2

LEMMA LifeAlways == Spec => []LifeInv
BY LifeInit, LifeNext, PTL DEF Spec

(* Types; in particular that a size never outgrows its field.              *)
THEOREM LifecycleTypes == Spec => []LifecycleTypeOK
<1>1. LifeInv => LifecycleTypeOK
  BY DEF LifeInv
<1> QED
  BY <1>1, LifeAlways, PTL

(* An executor that was made has room for main and the coroutines asked    *)
(* for, and the least that has, or no more than was asked for: align32pow2 *)
(* for every width and argument.                                           *)
THEOREM SizesRoundUp == Spec => []RoundsUp
<1>1. ASSUME LifeInv, pc = "ready",
             NEW asked \in {<<count, exe.capacity>>, <<capacity, exe.iocCapacity>>}
      PROVE  IF asked[1] \subseteq 0 .. Width - 2
             THEN LeastPowerAbove(asked[1], asked[2])
             ELSE ~Less(asked[1], asked[2])
  <2>1. /\ count \in Sizes /\ count # {} /\ exe.capacity = Sized(count)
        /\ capacity \in Sizes /\ capacity # {} /\ exe.iocCapacity = Sized(capacity)
    BY <1>1 DEF LifeInv, LifecycleTypeOK, Counted
  <2>2. asked[1] \in Sizes /\ asked[1] # {} /\ asked[2] = Sized(asked[1])
    BY <2>1
  <2> QED
    BY <2>2, SmallSizes, LargeSizes
<1>2. LifeInv => RoundsUp
  BY <1>1 DEF RoundsUp
<1> QED
  BY <1>2, LifeAlways, PTL

(* What a failed init_executor leaves, whatever fails and whatever sizes.  *)
THEOREM FailureLeaves == Spec => []LeftBehindOnFailure
<1>1. LifeInv => LeftBehindOnFailure
  BY DEF LifeInv
<1> QED
  BY <1>1, LifeAlways, PTL

(* free_executor gives back all that init_executor made.                   *)
THEOREM FreeingReturns == Spec => FreeReturnsEverything
<1>1. ASSUME LifeInv, [Next]_vars, ~UNCHANGED vars, pc' = "freed", exe.linked
      PROVE  blocks' = {} /\ ring' = "none" /\ exe' = Zero
  <2>1. pc \in {"ready", "free_io_context"}
    BY <1>1 DEF LifeInv, Linked
  <2>2. FreeExecutorEnds
    BY <1>1, <2>1 DEF Next, InitExecutor, AllocateTokens, QueueInit, QueueInitFails,
         AllocateFrames, LinkFrames, FreeExecutor, FreeUninitialized, FreeHalfMade, Ended
  <2>3. pc = "free_io_context" /\ blocks = TokenBlocks /\ ring = "made" /\ exe.iocCapacity # {}
    BY <1>1, <2>2 DEF FreeExecutorEnds, LifeInv, Stages
  <2> QED
    BY <2>2, <2>3 DEF FreeExecutorEnds, FreeIOContext
<1>2. LifeInv /\ [Next]_vars =>
        [pc' = "freed" /\ exe.linked => blocks' = {} /\ ring' = "none" /\ exe' = Zero]_vars
  BY <1>1
<1> QED
  BY <1>2, LifeAlways, PTL DEF Spec, FreeReturnsEverything
=============================================================================

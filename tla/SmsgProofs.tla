----------------------------- MODULE SmsgProofs -----------------------------
(***************************************************************************)
(* Proofs about smsg.c: the ring of messages (SmsgRing), and the life of a *)
(* channel (SmsgChannel).  Neither uses the other.                         *)
(***************************************************************************)
EXTENDS SmsgRing, SmsgChannel, SequenceTheorems, TLAPS

-----------------------------------------------------------------------------
(* The ring: it never overflows, for every ring size, every pointer width  *)
(* and every set of threads that call smsg_send.  smsg_senddie, which does *)
(* not take txpinlock, is left out (DieSenders = {}): with it two writers  *)
(* meet in one slot.  With a size that divides the range of the pointers   *)
(* the ring implements the bounded queue SmsgFifo.                         *)

\* The occupancy test, the write and the move of the pointer are one critical
\* section of txpinlock.
Critical ==
  \A t \in Threads :
    pc[t] \in {"check", "write", "bump"} => txpinlock = t

\* Room found by the test is still there when the pointer moves: the peer only
\* makes more of it.
Room ==
  \A t \in Threads :
    pc[t] \in {"write", "bump"} => Used(wrptr, rdptr) < Size

\* The drain loop handles a message only if there is one.
RxHasMsg == rxPc \in {"read", "bump"} => wrptr # rdptr

\* The history has one entry for each message in the ring.
RingAccounted == Len(accepted) = Used(wrptr, rdptr)

\* A thread inside the call has a message.
CallHasMsg == \A t \in Threads : pc[t] # "idle" => msg[t] \in Messages

RingInv ==
  /\ RingTypeOK /\ Critical /\ Room /\ RxHasMsg /\ RingAccounted /\ CallHasMsg
  /\ NoOverflow

\* Moving the write pointer adds one to the occupancy, across the wrap.
LEMMA IncWrite ==
  ASSUME NEW w \in Ptr, NEW r \in Ptr, Used(w, r) < Size
  PROVE  Inc(w) \in Ptr /\ Used(Inc(w), r) = Used(w, r) + 1 /\ Inc(w) # r
  BY RingAssumption DEF Ptr, Used, Inc

\* Moving the read pointer takes one from the occupancy, across the wrap.
LEMMA IncRead ==
  ASSUME NEW w \in Ptr, NEW r \in Ptr, w # r
  PROVE  Inc(r) \in Ptr /\ Used(w, Inc(r)) = Used(w, r) - 1
  BY RingAssumption DEF Ptr, Used, Inc

\* Occupancies are naturals, and zero exactly for equal pointers.
LEMMA UsedNat ==
  ASSUME NEW w \in Ptr, NEW r \in Ptr
  PROVE  Used(w, r) \in Nat /\ (Used(w, r) = 0 <=> w = r)
  BY RingAssumption DEF Ptr, Used

\* A pointer modulo the ring size is a slot.
LEMMA SlotOf ==
  ASSUME NEW p \in Ptr
  PROVE  p % Size \in Slots
  BY RingAssumption DEF Ptr, Slots

\* A nonempty history stays a history when its oldest entry is taken.
LEMMA TailAccepted ==
  ASSUME NEW q \in Seq(Messages), Len(q) # 0
  PROVE  Tail(q) \in Seq(Messages) /\ Len(Tail(q)) = Len(q) - 1
  OBVIOUS

\* An accepted message makes the history one longer.
LEMMA AppendAccepted ==
  ASSUME NEW q \in Seq(Messages), NEW m \in Messages
  PROVE  Append(q, m) \in Seq(Messages) /\ Len(Append(q, m)) = Len(q) + 1
  OBVIOUS

\* The inductive step.
LEMMA RingStep ==
  ASSUME RingInv, [RingNext]_allRingVars, DieSenders = {}
  PROVE  RingInv'
<1> USE RingAssumption DEF RingInv, RingTypeOK, Critical, Room, RxHasMsg, RingAccounted,
        CallHasMsg, NoOverflow, Threads, Messages, NoMsg,
        ringVars, txVars, rxVars, allRingVars, rxSide, txSide, Goto, Unlock
<1>0. Used(wrptr, rdptr) \in Nat /\ (Used(wrptr, rdptr) = 0 <=> wrptr = rdptr)
  BY UsedNat
<1>1. ASSUME NEW t \in Threads, Call(t) PROVE RingInv'
  BY <1>1 DEF Call
<1>2. ASSUME NEW t \in Threads, Lock(t) PROVE RingInv'
  BY <1>2 DEF Lock
<1>3. ASSUME NEW t \in Threads, Check(t) PROVE RingInv'
  <2>1. CASE Used(wrptr, rdptr) >= Size
    BY <1>3, <2>1 DEF Check
  <2>2. CASE ~(Used(wrptr, rdptr) >= Size)
    BY <1>0, <1>3, <2>2 DEF Check
  <2> QED
    BY <2>1, <2>2
<1>4. ASSUME NEW t \in Threads, Write(t) PROVE RingInv'
  <2>1. ring' \in [Slots -> Messages \union {NoMsg}]
    BY <1>4, SlotOf DEF Write
  <2> QED
    BY <1>4, <2>1 DEF Write
<1>5. ASSUME NEW t \in Threads, Bump(t) PROVE RingInv'
  <2>1. txpinlock = t /\ Used(wrptr, rdptr) < Size /\ msg[t] \in Messages
    BY <1>5 DEF Bump
  <2>2. /\ wrptr' \in Ptr /\ wrptr' # rdptr'
        /\ Used(wrptr', rdptr') = Used(wrptr, rdptr) + 1
    BY <1>5, <2>1, IncWrite DEF Bump
  <2>3. accepted' \in Seq(Messages) /\ Len(accepted') = Len(accepted) + 1
    BY <1>5, <2>1, AppendAccepted DEF Bump
  <2>4. \A u \in Threads : pc'[u] \notin {"check", "write", "bump"}
    BY <1>5, <2>1 DEF Bump
  <2>5. RingTypeOK'
    BY <1>5, <2>2, <2>3 DEF Bump
  <2> QED
    BY <1>0, <1>5, <2>1, <2>2, <2>3, <2>4, <2>5 DEF Bump
<1>6. ASSUME NEW t \in Threads, Trigger(t) PROVE RingInv'
  <2>1. irq' \in BOOLEAN
    BY <1>6, Zenon DEF Trigger
  <2> QED
    BY <1>6, <2>1 DEF Trigger
<1>7. CASE RxIrq
  <2>1. irq' \in BOOLEAN
    BY <1>7, Zenon DEF RxIrq
  <2> QED
    BY <1>7, <2>1 DEF RxIrq
<1>8. CASE RxTest
  BY <1>8 DEF RxTest
<1>9. CASE RxRead
  <2>1. ring[rdptr % Size] \in Messages \union {NoMsg}
    BY SlotOf
  <2> QED
    BY <1>9, <2>1 DEF RxRead
<1>10. CASE RxBump
  <2>1. rdptr' \in Ptr /\ Used(wrptr', rdptr') = Used(wrptr, rdptr) - 1
    BY <1>10, IncRead DEF RxBump
  <2>2. accepted' \in Seq(Messages) /\ Len(accepted') = Len(accepted) - 1
    BY <1>0, <1>10, TailAccepted DEF RxBump
  <2>3. RingTypeOK'
    BY <1>10, <2>1, <2>2 DEF RxBump
  <2> QED
    BY <1>0, <1>10, <2>1, <2>2, <2>3 DEF RxBump
<1>11. CASE UNCHANGED allRingVars
  BY <1>11
<1> QED
  BY <1>1, <1>2, <1>3, <1>4, <1>5, <1>6, <1>7, <1>8, <1>9, <1>10, <1>11
  DEF RingNext, SmsgSend, Rx

\* It holds at the start.
LEMMA InitInv == RingInit => RingInv
<1> SUFFICES ASSUME RingInit PROVE RingInv
  OBVIOUS
<1>1. irq \in BOOLEAN
  BY Zenon DEF RingInit
<1> QED
  BY <1>1, RingAssumption
  DEF RingInit, RingInv, RingTypeOK, Critical, Room, RxHasMsg, RingAccounted, CallHasMsg,
      NoOverflow, Used, Ptr, Slots, Messages, NoMsg

\* The inductive invariant of the ring without smsg_senddie.
THEOREM RingInvariant ==
  ASSUME DieSenders = {}
  PROVE  RingSpec => []RingInv
<1>1. RingInit => RingInv
  BY InitInv
<1>2. RingInv /\ [RingNext]_allRingVars => RingInv'
  BY RingStep
<1> QED
  BY <1>1, <1>2, PTL DEF RingSpec

\* The pointers, the slots and the threads stay in their types.
THEOREM RingTypeCorrect ==
  ASSUME DieSenders = {}
  PROVE  RingSpec => []RingTypeOK
<1>1. RingInv => RingTypeOK
  BY DEF RingInv
<1> QED
  BY <1>1, RingInvariant, PTL

\* No interleaving of senders and the draining peer overfills the ring, for
\* every size and across every wrap of the u32 pointers.
THEOREM RingNeverOverflows ==
  ASSUME DieSenders = {}
  PROVE  RingSpec => []NoOverflow
<1>1. RingInv => NoOverflow
  BY DEF RingInv
<1> QED
  BY <1>1, RingInvariant, PTL

\* What the run ring_fifo checks of the ring: its types, and that no interleaving
\* overfills it.
THEOREM RingIsSafe ==
  ASSUME DieSenders = {}
  PROVE  RingSpec => []RingSafe
<1>1. RingTypeOK /\ NoOverflow => RingSafe
  BY DEF RingSafe
<1> QED
  BY <1>1, RingTypeCorrect, RingNeverOverflows, PTL

-----------------------------------------------------------------------------
(* Slots.  The pointers run free modulo W and a slot is a pointer modulo the *)
(* ring size: as the size divides W, neighbours in the ring stay neighbours *)
(* when a pointer wraps.                                                    *)

\* A quotient and a remainder below the divisor are determined.
LEMMA DivUnique ==
  ASSUME NEW s \in Nat \ {0}, NEW p \in Int, NEW q \in Int,
         NEW a \in 0 .. s - 1, NEW b \in 0 .. s - 1, p * s + a = q * s + b
  PROVE  p = q /\ a = b
<1>1. ASSUME NEW x \in Int, NEW y \in Int,
             NEW c \in 0 .. s - 1, NEW d \in 0 .. s - 1, x * s + c = y * s + d
      PROVE  ~(x > y)
  <2> SUFFICES ASSUME x >= y + 1 PROVE FALSE
    OBVIOUS
  <2>1. x * s >= (y + 1) * s
    OBVIOUS
  <2>2. (y + 1) * s = y * s + s
    OBVIOUS
  <2>3. x * s \in Int /\ y * s \in Int
    OBVIOUS
  <2> QED
    BY <1>1, <2>1, <2>2, <2>3
<1>2. ~(p > q) /\ ~(q > p)
  BY <1>1
<1>3. p = q
  BY <1>2
<1> QED
  BY <1>3

\* Every integer is a multiple of the divisor and its remainder.
LEMMA ModIs ==
  ASSUME NEW s \in Nat \ {0}, NEW a \in Int
  PROVE  \E q \in Int : a = q * s + (a % s) /\ a % s \in 0 .. s - 1
<1>1. a = (a \div s) * s + (a % s) /\ a \div s \in Int /\ a % s \in 0 .. s - 1
  OBVIOUS
<1> QED
  BY <1>1

\* The remainder of a multiple plus something smaller than the divisor.
LEMMA ModOf ==
  ASSUME NEW s \in Nat \ {0}, NEW q \in Int, NEW b \in 0 .. s - 1
  PROVE  (q * s + b) % s = b
<1> DEFINE n == q * s + b
<1>1. n \in Int /\ n = q * s + b
  OBVIOUS
<1> HIDE DEF n
<1>2. PICK p \in Int : n = p * s + (n % s) /\ n % s \in 0 .. s - 1
  BY <1>1, ModIs
<1> DEFINE r == n % s
<1>3. r \in 0 .. s - 1 /\ p * s + r = q * s + b
  BY <1>1, <1>2
<1> HIDE DEF r
<1>4. r = b
  BY <1>3, DivUnique
<1> QED
  BY <1>4 DEF n, r

\* Taking a multiple of the divisor away keeps the remainder.
LEMMA ModShift ==
  ASSUME NEW s \in Nat \ {0}, NEW k \in Int, NEW a \in Int
  PROVE  (a - k * s) % s = a % s
<1>1. PICK q \in Int : a = q * s + (a % s) /\ a % s \in 0 .. s - 1
  BY ModIs
<1>2. q - k \in Int /\ a - k * s = (q - k) * s + (a % s)
  BY <1>1
<1> QED
  BY <1>1, <1>2, ModOf

\* Numbers less than the divisor apart have different remainders.
LEMMA ModDiffers ==
  ASSUME NEW s \in Nat \ {0}, NEW a \in Int, NEW d \in 1 .. s - 1
  PROVE  (a + d) % s # a % s
<1> SUFFICES ASSUME (a + d) % s = a % s PROVE FALSE
  OBVIOUS
<1>1. PICK q \in Int : a = q * s + (a % s) /\ a % s \in 0 .. s - 1
  BY ModIs
<1>2. PICK p \in Int : a + d = p * s + ((a + d) % s)
  <2>1. a + d \in Int
    OBVIOUS
  <2> QED
    BY <2>1, ModIs
<1>3. q * s + d = p * s + 0
  <2>1. q * s \in Int /\ p * s \in Int
    OBVIOUS
  <2> QED
    BY <1>1, <1>2, <2>1
<1> QED
  BY <1>3, DivUnique

\* "the ring size, a power of two": it divides the range of the u32 pointers.
Divides == \E k \in Nat : W = k * Size

\* The position of the i-th message counted from the read pointer.
Pos(r, i) == (r + i - 1) % W

\* Positions wrap like the pointers do.
LEMMA PosIs ==
  ASSUME NEW r \in Ptr, NEW i \in 1 .. W
  PROVE  /\ Pos(r, i) = IF r + i - 1 < W THEN r + i - 1 ELSE r + i - 1 - W
         /\ Pos(r, i) \in Ptr
<1>1. W \in Nat \ {0}
  BY RingAssumption
<1>2. CASE r + i - 1 < W
  BY <1>1, <1>2 DEF Pos, Ptr
<1>3. CASE ~(r + i - 1 < W)
  <2> DEFINE b == r + i - 1 - W
  <2>1. b \in 0 .. W - 1 /\ r + i - 1 = 1 * W + b
    BY <1>1, <1>3 DEF Ptr
  <2> HIDE DEF b
  <2>2. (1 * W + b) % W = b
    BY <1>1, <2>1, ModOf
  <2> QED
    BY <1>1, <1>3, <2>1, <2>2 DEF Pos, Ptr, b
<1> QED
  BY <1>2, <1>3

\* The message just behind those in the ring is at the write pointer, and the
\* second oldest one is the oldest for the next read pointer.
LEMMA PosEnds ==
  ASSUME NEW w \in Ptr, NEW r \in Ptr
  PROVE  /\ Pos(r, Used(w, r) + 1) = w
         /\ Pos(r, 1) = r
         /\ \A i \in 1 .. W - 1 : Pos(Inc(r), i) = Pos(r, i + 1)
<1>1. W \in Nat \ {0} /\ Inc(r) \in Ptr
  BY RingAssumption DEF Ptr, Inc
<1>2. Used(w, r) + 1 \in 1 .. W
  BY <1>1 DEF Used, Ptr
<1>3. Pos(r, Used(w, r) + 1) = w
  BY <1>1, <1>2, PosIs DEF Used, Ptr
<1>4. Pos(r, 1) = r
  BY <1>1, PosIs DEF Ptr
<1>5. ASSUME NEW i \in 1 .. W - 1 PROVE Pos(Inc(r), i) = Pos(r, i + 1)
  <2>1. i \in 1 .. W /\ i + 1 \in 1 .. W
    BY <1>1
  <2> QED
    BY <1>1, <2>1, PosIs DEF Inc, Ptr
<1> QED
  BY <1>3, <1>4, <1>5

\* With room in the ring the slot at the write pointer holds none of the messages
\* in the ring.
LEMMA SlotFree ==
  ASSUME Divides, NEW w \in Ptr, NEW r \in Ptr, Used(w, r) < Size,
         NEW i \in 1 .. Used(w, r)
  PROVE  Pos(r, i) % Size # w % Size
<1>1. W \in Nat \ {0} /\ Size \in Nat \ {0} /\ Size < W
  BY RingAssumption
<1>2. Used(w, r) \in Nat /\ i \in 1 .. W
  BY <1>1 DEF Used, Ptr
<1> DEFINE p == Pos(r, i)
           d == Used(w, r) - i + 1
<1>3. p \in Ptr /\ p = IF r + i - 1 < W THEN r + i - 1 ELSE r + i - 1 - W
  BY <1>2, PosIs
<1> HIDE DEF p
<1>4. p \in Int /\ d \in 1 .. Size - 1 /\ p + d \in Int
  BY <1>1, <1>2, <1>3 DEF Ptr
<1>5. w = p + d \/ w = p + d - W
  BY <1>1, <1>2, <1>3 DEF Used, Ptr
<1> HIDE DEF d
<1>6. (p + d) % Size # p % Size
  BY <1>1, <1>4, ModDiffers
<1>7. PICK k \in Nat : W = k * Size
  BY DEF Divides
<1> DEFINE n == p + d
<1>8. n \in Int /\ k \in Int /\ n - W = n - k * Size
  BY <1>4, <1>7
<1> HIDE DEF n
<1>9. (n - W) % Size = n % Size
  BY <1>1, <1>8, ModShift
<1>10. w % Size = n % Size
  <2>1. w = n \/ w = n - W
    BY <1>1, <1>4, <1>5 DEF n
  <2> QED
    BY <1>9, <2>1
<1> QED
  BY <1>6, <1>10 DEF n, p

-----------------------------------------------------------------------------
(* The ring implements the queue.                                           *)

\* A message that was written stays in its slot until the pointer has moved, and
\* one that was read until the read pointer has.
Kept ==
  /\ \A t \in Threads : pc[t] = "bump" => ring[wrptr % Size] = msg[t]
  /\ rxPc = "bump" => rxMsg = ring[rdptr % Size]

\* Every step keeps it: only the holder of txpinlock writes, and never a slot that
\* the peer has still to read.
LEMMA KeptStep ==
  ASSUME RingInv, Kept, [RingNext]_allRingVars, DieSenders = {}, Divides
  PROVE  Kept'
<1> USE DEF RingInv, RingTypeOK, Critical, Room, RxHasMsg, Kept, Threads, ringVars, txVars,
        rxVars, allRingVars, rxSide, txSide, Goto, Unlock
<1>1. ASSUME NEW t \in Threads, Write(t) PROVE Kept'
  <2>1. txpinlock = t /\ Used(wrptr, rdptr) < Size
    BY <1>1 DEF Write
  <2>2. wrptr % Size \in Slots
    BY SlotOf
  <2>3. \A s \in Threads : pc'[s] = "bump" => s = t
    BY <1>1, <2>1 DEF Write
  <2>4. rxPc = "bump" => rdptr % Size # wrptr % Size
    <3> SUFFICES ASSUME wrptr # rdptr PROVE rdptr % Size # wrptr % Size
      OBVIOUS
    <3>1. 1 \in 1 .. Used(wrptr, rdptr)
      BY UsedNat
    <3>2. Pos(rdptr, 1) = rdptr
      BY PosEnds
    <3> QED
      BY <2>1, <3>1, <3>2, SlotFree
  <2> QED
    BY <1>1, <2>2, <2>3, <2>4 DEF Write
<1>2. ASSUME NEW t \in Threads, Bump(t) PROVE Kept'
  <2>1. txpinlock = t
    BY <1>2 DEF Bump
  <2>2. \A s \in Threads : pc'[s] # "bump"
    BY <1>2, <2>1 DEF Bump
  <2> QED
    BY <1>2, <2>2 DEF Bump
<1>3. ASSUME NEW t \in Threads, Call(t) PROVE Kept'
  BY <1>3 DEF Call
<1>4. ASSUME NEW t \in Threads, Lock(t) PROVE Kept'
  BY <1>4 DEF Lock
<1>5. ASSUME NEW t \in Threads, Check(t) PROVE Kept'
  BY <1>5 DEF Check
<1>6. ASSUME NEW t \in Threads, Trigger(t) PROVE Kept'
  BY <1>6 DEF Trigger
<1>7. CASE RxIrq \/ RxTest
  BY <1>7 DEF RxIrq, RxTest
<1>8. CASE RxRead
  BY <1>8 DEF RxRead
<1>9. CASE RxBump
  BY <1>9 DEF RxBump
<1>10. CASE UNCHANGED allRingVars
  BY <1>10
<1> QED
  BY <1>1, <1>2, <1>3, <1>4, <1>5, <1>6, <1>7, <1>8, <1>9, <1>10 DEF RingNext, SmsgSend, Rx

\* The content of the ring is a sequence as long as the occupancy.
ContentOK ==
  /\ Content \in Seq(Messages \union {NoMsg})
  /\ Len(Content) = Used(wrptr, rdptr)
  /\ \A i \in 1 .. Used(wrptr, rdptr) : Content[i] = ring[Pos(rdptr, i) % Size]

\* The types imply it.
LEMMA ContentIs == RingTypeOK => ContentOK
<1> SUFFICES ASSUME RingTypeOK PROVE ContentOK
  OBVIOUS
<1>1. Used(wrptr, rdptr) \in 0 .. W - 1 /\ W \in Nat
  BY RingAssumption DEF RingTypeOK, Used, Ptr
<1>2. ASSUME NEW i \in 1 .. Used(wrptr, rdptr)
      PROVE  ring[Pos(rdptr, i) % Size] \in Messages \union {NoMsg}
  <2>1. Pos(rdptr, i) \in Ptr
    BY <1>1, PosIs DEF RingTypeOK
  <2> QED
    BY <2>1, SlotOf DEF RingTypeOK
<1>3. Content \in [1 .. Used(wrptr, rdptr) -> Messages \union {NoMsg}]
  BY <1>2 DEF Content, Pos
<1>4. Content \in Seq(Messages \union {NoMsg}) /\ Len(Content) = Used(wrptr, rdptr)
  BY <1>1, <1>3, IsASeq, LenProperties
<1> QED
  BY <1>4 DEF Content, Pos, ContentOK

\* Storing a message appends it to the content, and taking the oldest leaves the
\* rest: the other steps do not touch the slots between the pointers.
LEMMA StepFifo ==
  ASSUME RingInv, Kept, [RingNext]_allRingVars, DieSenders = {}, Divides
  PROVE  [Fifo!Next]_<<Content, handled>>
<1> USE DEF RingInv, ringVars, txVars, rxVars, allRingVars, rxSide, txSide
<1>0. /\ W \in Nat \ {0} /\ Size \in Nat \ {0} /\ Size < W
      /\ wrptr \in Ptr /\ rdptr \in Ptr /\ Used(wrptr, rdptr) \in Nat
  BY RingAssumption, UsedNat DEF RingTypeOK
<1>1. ContentOK
  BY ContentIs
<1>2. ContentOK'
  <2>1. RingTypeOK'
    BY RingStep
  <2> QED
    BY <2>1, ContentIs, PTL
<1> USE DEF ContentOK
<1>3. ASSUME UNCHANGED <<wrptr, rdptr, ring, handled>>
      PROVE  UNCHANGED <<Content, handled>>
  BY <1>3 DEF Content
<1>4. ASSUME NEW t \in Threads, Write(t) PROVE  UNCHANGED <<Content, handled>>
  <2>1. /\ Used(wrptr, rdptr) < Size /\ UNCHANGED <<wrptr, rdptr, handled>>
        /\ ring' = [ring EXCEPT ![wrptr % Size] = msg[t]]
    BY <1>4 DEF Write, Room
  <2>2. \A i \in 1 .. Used(wrptr, rdptr) :
          ring'[Pos(rdptr, i) % Size] = ring[Pos(rdptr, i) % Size]
    BY <1>0, <2>1, SlotFree DEF RingTypeOK
  <2>3. Content' = Content
    BY <1>1, <1>2, <2>1, <2>2, SeqEqual
  <2> QED
    BY <2>1, <2>3
<1>5. ASSUME NEW t \in Threads, Bump(t) PROVE Fifo!Accept(msg[t]) /\ msg[t] \in Messages
  <2>1. /\ Used(wrptr, rdptr) < Size /\ msg[t] \in Messages
        /\ wrptr' = Inc(wrptr) /\ UNCHANGED <<rdptr, ring, handled>>
        /\ ring[wrptr % Size] = msg[t]
    BY <1>5 DEF Bump, Room, CallHasMsg, Kept
  <2>2. Used(wrptr', rdptr') = Used(wrptr, rdptr) + 1
    BY <1>0, <2>1, IncWrite
  <2>3. Pos(rdptr, Used(wrptr, rdptr) + 1) = wrptr
    BY <1>0, PosEnds
  <2>4. Content' = Append(Content, msg[t])
    <3> DEFINE q == Append(Content, msg[t])
    <3>1. /\ q \in Seq(Messages \union {NoMsg}) /\ Len(q) = Used(wrptr, rdptr) + 1
          /\ q[Used(wrptr, rdptr) + 1] = msg[t]
          /\ \A i \in 1 .. Used(wrptr, rdptr) : q[i] = Content[i]
      BY <1>0, <1>1, <2>1
    <3> HIDE DEF q
    <3>2. \A i \in 1 .. Used(wrptr, rdptr) + 1 : Content'[i] = q[i]
      BY <1>0, <1>1, <1>2, <2>1, <2>2, <2>3, <3>1
    <3> QED
      BY <1>2, <2>2, <3>1, <3>2, SeqEqual DEF q
  <2> QED
    BY <1>1, <2>1, <2>4 DEF Fifo!Accept
<1>6. CASE RxBump
  <2>1. /\ wrptr # rdptr /\ rdptr' = Inc(rdptr) /\ UNCHANGED <<wrptr, ring>>
        /\ handled' = ring[rdptr % Size]
    BY <1>6 DEF RxBump, RxHasMsg, Kept
  <2>2. Used(wrptr', rdptr') = Used(wrptr, rdptr) - 1 /\ Used(wrptr, rdptr) > 0
    BY <1>0, <2>1, IncRead, UsedNat
  <2>3. /\ Pos(rdptr, 1) = rdptr
        /\ \A i \in 1 .. W - 1 : Pos(Inc(rdptr), i) = Pos(rdptr, i + 1)
    BY <1>0, PosEnds
  <2>4. Content # <<>> /\ Head(Content) = handled'
    BY <1>1, <2>1, <2>2, <2>3
  <2>5. Content' = Tail(Content)
    <3> DEFINE q == Tail(Content)
    <3>1. /\ q \in Seq(Messages \union {NoMsg}) /\ Len(q) = Used(wrptr, rdptr) - 1
          /\ \A i \in 1 .. Used(wrptr, rdptr) - 1 : q[i] = Content[i + 1]
      BY <1>0, <1>1, <2>2, <2>4
    <3> HIDE DEF q
    <3>2. Used(wrptr, rdptr) - 1 <= W - 1
      BY <1>0 DEF NoOverflow
    <3>3. ASSUME NEW i \in 1 .. Used(wrptr, rdptr) - 1 PROVE Content'[i] = q[i]
      <4>1. /\ i \in 1 .. W - 1 /\ i + 1 \in 1 .. Used(wrptr, rdptr)
            /\ i \in 1 .. Used(wrptr', rdptr')
        BY <1>0, <2>2, <3>2
      <4> QED
        BY <1>1, <1>2, <2>1, <2>3, <3>1, <4>1
    <3> QED
      BY <1>2, <2>2, <3>1, <3>3, SeqEqual DEF q
  <2> QED
    BY <2>4, <2>5 DEF Fifo!Next, Fifo!Handle
<1>7. ASSUME NEW t \in Threads, Call(t) \/ Lock(t) \/ Check(t) \/ Trigger(t)
      PROVE  UNCHANGED <<wrptr, rdptr, ring, handled>>
  BY <1>7 DEF Call, Lock, Check, Trigger
<1>8. CASE RxIrq \/ RxTest \/ RxRead \/ UNCHANGED allRingVars
  BY <1>3, <1>8 DEF RxIrq, RxTest, RxRead
<1> QED
  BY <1>3, <1>4, <1>5, <1>6, <1>7, <1>8 DEF RingNext, SmsgSend, Rx, Fifo!Next

\* The ring of smsg_send and the draining peer implements the bounded queue its
\* users rely on: accepted messages are handled in order and once, for every
\* number of senders, every size and every pointer width that the size divides.
THEOREM RingIsFifo ==
  ASSUME DieSenders = {}, Divides
  PROVE  RingSpec => FifoSpec
<1>1. RingInit => RingInv /\ Kept /\ Fifo!Init
  <2> SUFFICES ASSUME RingInit PROVE RingInv /\ Kept /\ Fifo!Init
    OBVIOUS
  <2>1. RingInv
    BY InitInv
  <2>2. Kept
    BY DEF RingInit, Kept
  <2>3. Content = <<>>
    <3>1. Content \in Seq(Messages \union {NoMsg}) /\ Len(Content) = 0
      BY <2>1, ContentIs DEF ContentOK, RingInv, RingInit, Used
    <3> QED
      BY <3>1
  <2> QED
    BY <2>1, <2>2, <2>3 DEF Fifo!Init, RingInit
<1>2. RingInv /\ Kept /\ [RingNext]_allRingVars
        => RingInv' /\ Kept' /\ [Fifo!Next]_<<Content, handled>>
  BY RingStep, KeptStep, StepFifo
<1> QED
  BY <1>1, <1>2, PTL DEF RingSpec, FifoSpec, Fifo!Spec

-----------------------------------------------------------------------------
(* The channel, for every number of senders, opens and messages and every  *)
(* cache size.  First part: if smsg_ch_open never starts while the irq     *)
(* handler works on the channel (~EarlyPeer), the busy count is exact and  *)
(* its holders are safe, however closes, opens and sends overlap.  Second  *)
(* part: if also no close overlaps an open or a send, the closing thread   *)
(* and the senders are safe too and no channel leaks.  Last: without a     *)
(* close during an open, every open that succeeds uses up an OPEN of the   *)
(* peer.                                                                   *)

OpenHolds == {"publish", "send", "check", "host", "r_enter", "done", "put",
              "f_state", "f_null", "f_put"}
OpenHoldsNot == {"none", "run", "ack", "ack_load", "ack_use", "exit", "f_spin"}

\* Where the service thread is says whether smsg_ch_open holds its count.
SvcHolds ==
  /\ svcPc \in OpenHolds => inOpen = TRUE
  /\ svcPc \in OpenHoldsNot => inOpen = FALSE
  /\ svcPc = "r_exit" => svcMsg # "NONE"

\* The published channel is allocated; the threads about to free a channel
\* have withdrawn it, and no open can publish behind the closing thread.
Published ==
  /\ channels # NULL => channels \in live
  /\ svcPc \in {"f_put", "f_spin"} => channels = NULL
  /\ clsPc \in {"c_test", "c_spin2"} => inOpen = FALSE
  /\ clsPc = "c_spin2" => channels = NULL

\* The irq handler works on the head of the ring.
IrqHasMsg == irqPc # "idle" => rxring # <<>>

CountInv == TypeOK /\ SvcHolds /\ Published /\ IrqHasMsg /\ BusyCount /\ HoldersSafe

-----------------------------------------------------------------------------
(* Facts about sequences of messages.                                       *)

\* The oldest message of a nonempty queue is a message.
LEMMA HeadIn ==
  ASSUME NEW q \in Seq(Msg), q # <<>>
  PROVE  Head(q) \in Msg
  OBVIOUS

\* Taking the oldest message leaves a shorter queue.
LEMMA TailIn ==
  ASSUME NEW q \in Seq(Msg), q # <<>>
  PROVE  /\ Tail(q) \in Seq(Msg)
         /\ Len(q) \in Nat /\ Len(Tail(q)) \in Nat /\ Len(Tail(q)) <= Len(q)
  OBVIOUS

\* A message put at the end makes the queue one longer.
LEMMA AppendIn ==
  ASSUME NEW q \in Seq(Msg), NEW m \in Msg
  PROVE  /\ Append(q, m) \in Seq(Msg)
         /\ Len(q) \in Nat /\ Len(Append(q, m)) = Len(q) + 1
  OBVIOUS

-----------------------------------------------------------------------------
(* The exact count, for every interleaving of opens, closes and sends.      *)

\* Every step keeps the types; an incoming message never exceeds the cache.
LEMMA TypeStep ==
  ASSUME CountInv, [Next]_vars
  PROVE  TypeOK'
<1> USE ChannelAssumption DEF CountInv, TypeOK, chanVars, irqVars, svcVars, clsVars, sndVars, peerVars, histVars,
        vars, notSvc, notCls,
        IrqPc, RecvPc, OpenPc, SvcPc, ClsPc, ChanState, Msg, Obj,
        NULL
<1>1. CASE PeerOpen
  BY <1>1 DEF PeerOpen, PeerPut
<1>2. CASE PeerData
  BY <1>2 DEF PeerData, PeerPut
<1>3. CASE PeerClose
  <2>1. peer' \in BOOLEAN
    BY <1>3, Zenon DEF PeerClose
  <2> QED
    BY <1>3, <2>1 DEF PeerClose, PeerPut
<1>4. CASE PeerBad
  BY <1>4 DEF PeerBad, PeerPut
<1>5. CASE IrqBegin
  BY <1>5 DEF IrqBegin
<1>6. CASE IrqInvalid
  BY <1>6 DEF IrqInvalid
<1>7. CASE IrqLoad
  BY <1>7 DEF IrqLoad
<1>8. CASE IrqNoChannel
  BY <1>8 DEF IrqNoChannel
<1>9. CASE IrqSetState
  BY <1>9 DEF IrqSetState
<1>10. CASE IrqCache
  <2>1. irqCh \in Obj /\ rxring # <<>>
    BY <1>10 DEF IrqCache, HoldersSafe, IrqHasMsg
  <2>2. Head(rxring) \in Msg
    BY <2>1, HeadIn
  <2>3. caches' \in [Obj -> Seq(Msg)] /\ \A o \in Obj : Len(caches'[o]) <= CacheNR
    <3>1. CASE Len(caches[irqCh]) >= CacheNR
      BY <1>10, <3>1 DEF IrqCache
    <3>2. CASE ~(Len(caches[irqCh]) >= CacheNR)
      <4>1. caches' = [caches EXCEPT ![irqCh] = Append(caches[irqCh], Head(rxring))]
        BY <1>10, <3>2 DEF IrqCache
      <4>2. /\ Append(caches[irqCh], Head(rxring)) \in Seq(Msg)
            /\ Len(Append(caches[irqCh], Head(rxring))) = Len(caches[irqCh]) + 1
            /\ Len(caches[irqCh]) \in Nat
        BY <2>1, <2>2, AppendIn
      <4> QED
        BY <2>1, <3>2, <4>1, <4>2
    <3> QED
      BY <3>1, <3>2
  <2> QED
    BY <1>10, <2>3 DEF IrqCache
<1>11. CASE IrqEnd
  <2>1. Tail(rxring) \in Seq(Msg)
    BY <1>11, TailIn DEF IrqEnd, IrqHasMsg
  <2> QED
    BY <1>11, <2>1 DEF IrqEnd
<1>12. CASE OpenNoMem
  BY <1>12 DEF OpenNoMem
<1>13. CASE OpenBegin
  BY <1>13 DEF OpenBegin
<1>14. CASE OpenPublish
  BY <1>14 DEF OpenPublish
<1>15. CASE OpenSend
  <2>1. openSent' \in BOOLEAN
    BY <1>15, Zenon DEF OpenSend
  <2> QED
    BY <1>15, <2>1 DEF OpenSend
<1>16. CASE OpenCheck
  BY <1>16 DEF OpenCheck
<1>17. CASE OpenHost
  BY <1>17 DEF OpenHost
<1>18. CASE OpenDone
  BY <1>18 DEF OpenDone
<1>19. CASE OpenPut
  <2>1. inOpen' \in BOOLEAN
    BY <1>19, Zenon DEF OpenPut
  <2> QED
    BY <1>19, <2>1 DEF OpenPut
<1>20. CASE FailState
  BY <1>20 DEF FailState
<1>21. CASE FailNull
  BY <1>21 DEF FailNull
<1>22. CASE FailPut
  <2>1. inOpen' \in BOOLEAN
    BY <1>22, Zenon DEF FailPut
  <2> QED
    BY <1>22, <2>1 DEF FailPut
<1>23. CASE FailFree
  BY <1>23 DEF FailFree
<1>24. CASE RecvEnter
  BY <1>24 DEF RecvEnter
<1>25. CASE RecvLoad
  BY <1>25 DEF RecvLoad
<1>26. CASE RecvWait
  BY <1>26 DEF RecvWait
<1>27. CASE RecvCheck
  BY <1>27 DEF RecvCheck
<1>28. CASE RecvRead
  <2>1. recvCh \in Obj
    BY <1>28 DEF RecvRead, HoldersSafe
  <2>2. CASE caches[recvCh] # <<>>
    <3>1. /\ Head(caches[recvCh]) \in Msg
          /\ Tail(caches[recvCh]) \in Seq(Msg)
          /\ Len(Tail(caches[recvCh])) <= Len(caches[recvCh])
          /\ Len(caches[recvCh]) \in Nat /\ Len(Tail(caches[recvCh])) \in Nat
      BY <2>1, <2>2, HeadIn, TailIn
    <3>2. /\ caches' = [caches EXCEPT ![recvCh] = Tail(caches[recvCh])]
          /\ svcMsg' = Head(caches[recvCh])
      BY <1>28, <2>2 DEF RecvRead
    <3>3. caches' \in [Obj -> Seq(Msg)] /\ \A o \in Obj : Len(caches'[o]) <= CacheNR
      BY <2>1, <3>1, <3>2
    <3> QED
      BY <1>28, <3>1, <3>2, <3>3 DEF RecvRead
  <2>3. CASE caches[recvCh] = <<>>
    BY <1>28, <2>3 DEF RecvRead
  <2> QED
    BY <2>2, <2>3
<1>29. CASE RecvExit
  <2>1. RecvNext \in SvcPc
    BY DEF RecvNext
  <2> QED
    BY <1>29, <2>1 DEF RecvExit
<1>30. CASE AckBegin
  BY <1>30 DEF AckBegin, Closing
<1>31. CASE AckLoad
  BY <1>31 DEF AckLoad
<1>32. CASE AckUse
  BY <1>32 DEF AckUse
<1>33. CASE SvcStop
  BY <1>33 DEF SvcStop
<1>34. CASE CloseBegin
  BY <1>34 DEF CloseBegin, Opening
<1>35. CASE CloseSend
  BY <1>35 DEF CloseSend
<1>36. CASE CloseMark
  BY <1>36 DEF CloseMark
<1>37. CASE CloseWake
  BY <1>37 DEF CloseWake
<1>38. CASE CloseSpin
  BY <1>38 DEF CloseSpin
<1>39. CASE CloseTest
  BY <1>39 DEF CloseTest
<1>40. CASE CloseFree
  BY <1>40 DEF CloseFree
<1>41. CASE CloseUnused
  BY <1>41 DEF CloseUnused
<1>42. CASE CloseStopped
  BY <1>42 DEF CloseStopped
<1>43. CASE Send
  <2>1. PICK s \in Senders : SendBegin(s) \/ SendLoad(s) \/ SendEnd(s)
    BY <1>43 DEF Send
  <2>2. CASE SendBegin(s)
    BY <2>2 DEF SendBegin, notSnd
  <2>3. CASE SendLoad(s)
    BY <2>3 DEF SendLoad, notSnd
  <2>4. CASE SendEnd(s)
    BY <2>4 DEF SendEnd, notSnd
  <2> QED
    BY <2>1, <2>2, <2>3, <2>4
<1>44. CASE UNCHANGED vars
  BY <1>44
<1> QED
  BY <1>1, <1>2, <1>3, <1>4, <1>5, <1>6, <1>7, <1>8, <1>9, <1>10,
     <1>11, <1>12, <1>13, <1>14, <1>15, <1>16, <1>17, <1>18, <1>19, <1>20,
     <1>21, <1>22, <1>23, <1>24, <1>25, <1>26, <1>27, <1>28, <1>29, <1>30,
     <1>31, <1>32, <1>33, <1>34, <1>35, <1>36, <1>37, <1>38, <1>39, <1>40,
     <1>41, <1>42, <1>43, <1>44
  DEF Next, Peer, Irq, Svc, Open, Fail, Recv, Ack, Close

\* Every step keeps the count exact and the channel withdrawn before it is
\* freed; the count of an irq handler is lost only by an early open.
LEMMA CountStep ==
  ASSUME CountInv, [Next]_vars, ~EarlyPeer
  PROVE  (SvcHolds /\ Published /\ IrqHasMsg /\ BusyCount)'
<1> USE ChannelAssumption DEF CountInv, TypeOK, SvcHolds, Published, IrqHasMsg,
        BusyCount, HoldersSafe, One, OpenHolds, OpenHoldsNot,
        chanVars, irqVars, svcVars, clsVars, sndVars, peerVars, histVars,
        vars, notSvc, notCls,
        IrqPc, RecvPc, OpenPc, SvcPc, ClsPc, ChanState, Msg, Obj,
        NULL
<1>1. CASE PeerOpen
  BY <1>1 DEF PeerOpen, PeerPut
<1>2. CASE PeerData
  BY <1>2 DEF PeerData, PeerPut
<1>3. CASE PeerClose
  <2>1. PeerPut("CLOSE")
    BY <1>3, Zenon DEF PeerClose
  <2>2. IrqHasMsg'
    <3>1. rxring' = Append(rxring, "CLOSE") /\ rxring \in Seq(Msg) /\ "CLOSE" \in Msg
      BY <2>1 DEF PeerPut
    <3>2. rxring' # <<>>
      BY ONLY <3>1, AppendIn
    <3> QED
      BY <3>2
  <2>3. (SvcHolds /\ Published)'
    BY <2>1 DEF PeerPut
  <2>4. BusyCount'
    BY <2>1 DEF PeerPut
  <2> QED
    BY <2>2, <2>3, <2>4
<1>4. CASE PeerBad
  BY <1>4 DEF PeerBad, PeerPut
<1>5. CASE IrqBegin
  BY <1>5 DEF IrqBegin
<1>6. CASE IrqInvalid
  BY <1>6 DEF IrqInvalid
<1>7. CASE IrqLoad
  BY <1>7 DEF IrqLoad
<1>8. CASE IrqNoChannel
  BY <1>8 DEF IrqNoChannel
<1>9. CASE IrqSetState
  BY <1>9 DEF IrqSetState
<1>10. CASE IrqCache
  BY <1>10 DEF IrqCache
<1>11. CASE IrqEnd
  BY <1>11 DEF IrqEnd
<1>12. CASE OpenNoMem
  BY <1>12 DEF OpenNoMem
<1>13. CASE OpenBegin
  BY <1>13 DEF OpenBegin
<1>14. CASE OpenPublish
  BY <1>14 DEF OpenPublish
<1>15. CASE OpenSend
  BY <1>15 DEF OpenSend
<1>16. CASE OpenCheck
  BY <1>16 DEF OpenCheck
<1>17. CASE OpenHost
  BY <1>17 DEF OpenHost
<1>18. CASE OpenDone
  BY <1>18 DEF OpenDone
<1>19. CASE OpenPut
  BY <1>19 DEF OpenPut
<1>20. CASE FailState
  BY <1>20 DEF FailState
<1>21. CASE FailNull
  BY <1>21 DEF FailNull
<1>22. CASE FailPut
  BY <1>22 DEF FailPut
<1>23. CASE FailFree
  BY <1>23 DEF FailFree
<1>24. CASE RecvEnter
  BY <1>24 DEF RecvEnter
<1>25. CASE RecvLoad
  BY <1>25 DEF RecvLoad
<1>26. CASE RecvWait
  BY <1>26 DEF RecvWait
<1>27. CASE RecvCheck
  BY <1>27 DEF RecvCheck
<1>28. CASE RecvRead
  BY <1>28 DEF RecvRead
<1>29. CASE RecvExit
  BY <1>29 DEF RecvExit, RecvNext
<1>30. CASE AckBegin
  BY <1>30 DEF AckBegin, Closing
<1>31. CASE AckLoad
  BY <1>31 DEF AckLoad
<1>32. CASE AckUse
  BY <1>32 DEF AckUse
<1>33. CASE SvcStop
  BY <1>33 DEF SvcStop
<1>34. CASE CloseBegin
  BY <1>34 DEF CloseBegin, Opening
<1>35. CASE CloseSend
  BY <1>35 DEF CloseSend
<1>36. CASE CloseMark
  BY <1>36 DEF CloseMark
<1>37. CASE CloseWake
  BY <1>37 DEF CloseWake
<1>38. CASE CloseSpin
  BY <1>38 DEF CloseSpin
<1>39. CASE CloseTest
  BY <1>39 DEF CloseTest
<1>40. CASE CloseFree
  BY <1>40 DEF CloseFree
<1>41. CASE CloseUnused
  BY <1>41 DEF CloseUnused
<1>42. CASE CloseStopped
  BY <1>42 DEF CloseStopped
<1>43. CASE Send
  <2>1. PICK s \in Senders : SendBegin(s) \/ SendLoad(s) \/ SendEnd(s)
    BY <1>43 DEF Send
  <2>2. CASE SendBegin(s)
    BY <2>2 DEF SendBegin, notSnd
  <2>3. CASE SendLoad(s)
    BY <2>3 DEF SendLoad, notSnd
  <2>4. CASE SendEnd(s)
    BY <2>4 DEF SendEnd, notSnd
  <2> QED
    BY <2>1, <2>2, <2>3, <2>4
<1>44. CASE UNCHANGED vars
  BY <1>44
<1> QED
  BY <1>1, <1>2, <1>3, <1>4, <1>5, <1>6, <1>7, <1>8, <1>9, <1>10,
     <1>11, <1>12, <1>13, <1>14, <1>15, <1>16, <1>17, <1>18, <1>19, <1>20,
     <1>21, <1>22, <1>23, <1>24, <1>25, <1>26, <1>27, <1>28, <1>29, <1>30,
     <1>31, <1>32, <1>33, <1>34, <1>35, <1>36, <1>37, <1>38, <1>39, <1>40,
     <1>41, <1>42, <1>43, <1>44
  DEF Next, Peer, Irq, Svc, Open, Fail, Recv, Ack, Close

\* Every step keeps the holders of a count on allocated channels.
LEMMA HoldersStep ==
  ASSUME CountInv, [Next]_vars, ~EarlyPeer
  PROVE  HoldersSafe'
<1> USE ChannelAssumption DEF CountInv, TypeOK, SvcHolds, Published, IrqHasMsg,
        BusyCount, HoldersSafe, One, OpenHolds, OpenHoldsNot,
        chanVars, irqVars, svcVars, clsVars, sndVars, peerVars, histVars,
        vars, notSvc, notCls,
        IrqPc, RecvPc, OpenPc, SvcPc, ClsPc, ChanState, Msg, Obj,
        NULL
<1>1. CASE PeerOpen
  BY <1>1 DEF PeerOpen, PeerPut
<1>2. CASE PeerData
  BY <1>2 DEF PeerData, PeerPut
<1>3. CASE PeerClose
  <2>1. PeerPut("CLOSE")
    BY <1>3, Zenon DEF PeerClose
  <2> QED
    BY <2>1 DEF PeerPut
<1>4. CASE PeerBad
  BY <1>4 DEF PeerBad, PeerPut
<1>5. CASE IrqBegin
  BY <1>5 DEF IrqBegin
<1>6. CASE IrqInvalid
  BY <1>6 DEF IrqInvalid
<1>7. CASE IrqLoad
  BY <1>7 DEF IrqLoad
<1>8. CASE IrqNoChannel
  BY <1>8 DEF IrqNoChannel
<1>9. CASE IrqSetState
  BY <1>9 DEF IrqSetState
<1>10. CASE IrqCache
  BY <1>10 DEF IrqCache
<1>11. CASE IrqEnd
  BY <1>11 DEF IrqEnd
<1>12. CASE OpenNoMem
  BY <1>12 DEF OpenNoMem
<1>13. CASE OpenBegin
  BY <1>13 DEF OpenBegin
<1>14. CASE OpenPublish
  BY <1>14 DEF OpenPublish
<1>15. CASE OpenSend
  BY <1>15 DEF OpenSend
<1>16. CASE OpenCheck
  BY <1>16 DEF OpenCheck
<1>17. CASE OpenHost
  BY <1>17 DEF OpenHost
<1>18. CASE OpenDone
  BY <1>18 DEF OpenDone
<1>19. CASE OpenPut
  BY <1>19 DEF OpenPut
<1>20. CASE FailState
  BY <1>20 DEF FailState
<1>21. CASE FailNull
  BY <1>21 DEF FailNull
<1>22. CASE FailPut
  BY <1>22 DEF FailPut
<1>23. CASE FailFree
  BY <1>23 DEF FailFree
<1>24. CASE RecvEnter
  BY <1>24 DEF RecvEnter
<1>25. CASE RecvLoad
  BY <1>25 DEF RecvLoad
<1>26. CASE RecvWait
  BY <1>26 DEF RecvWait
<1>27. CASE RecvCheck
  BY <1>27 DEF RecvCheck
<1>28. CASE RecvRead
  BY <1>28 DEF RecvRead
<1>29. CASE RecvExit
  BY <1>29 DEF RecvExit, RecvNext
<1>30. CASE AckBegin
  BY <1>30 DEF AckBegin, Closing
<1>31. CASE AckLoad
  BY <1>31 DEF AckLoad
<1>32. CASE AckUse
  BY <1>32 DEF AckUse
<1>33. CASE SvcStop
  BY <1>33 DEF SvcStop
<1>34. CASE CloseBegin
  BY <1>34 DEF CloseBegin, Opening
<1>35. CASE CloseSend
  BY <1>35 DEF CloseSend
<1>36. CASE CloseMark
  BY <1>36 DEF CloseMark
<1>37. CASE CloseWake
  BY <1>37 DEF CloseWake
<1>38. CASE CloseSpin
  BY <1>38 DEF CloseSpin
<1>39. CASE CloseTest
  BY <1>39 DEF CloseTest
<1>40. CASE CloseFree
  BY <1>40 DEF CloseFree
<1>41. CASE CloseUnused
  BY <1>41 DEF CloseUnused
<1>42. CASE CloseStopped
  BY <1>42 DEF CloseStopped
<1>43. CASE Send
  <2>1. PICK s \in Senders : SendBegin(s) \/ SendLoad(s) \/ SendEnd(s)
    BY <1>43 DEF Send
  <2>2. CASE SendBegin(s)
    BY <2>2 DEF SendBegin, notSnd
  <2>3. CASE SendLoad(s)
    BY <2>3 DEF SendLoad, notSnd
  <2>4. CASE SendEnd(s)
    BY <2>4 DEF SendEnd, notSnd
  <2> QED
    BY <2>1, <2>2, <2>3, <2>4
<1>44. CASE UNCHANGED vars
  BY <1>44
<1> QED
  BY <1>1, <1>2, <1>3, <1>4, <1>5, <1>6, <1>7, <1>8, <1>9, <1>10,
     <1>11, <1>12, <1>13, <1>14, <1>15, <1>16, <1>17, <1>18, <1>19, <1>20,
     <1>21, <1>22, <1>23, <1>24, <1>25, <1>26, <1>27, <1>28, <1>29, <1>30,
     <1>31, <1>32, <1>33, <1>34, <1>35, <1>36, <1>37, <1>38, <1>39, <1>40,
     <1>41, <1>42, <1>43, <1>44
  DEF Next, Peer, Irq, Svc, Open, Fail, Recv, Ack, Close

\* The inductive invariant holds of every behaviour without an early open.
THEOREM CountInvariant ==
  ASSUME ~EarlyPeer
  PROVE  Spec => []CountInv
<1>1. Init => CountInv
  <2> SUFFICES ASSUME Init PROVE CountInv
    OBVIOUS
  <2>1. inOpen \in BOOLEAN /\ peer \in BOOLEAN /\ openSent \in BOOLEAN
    BY Zenon DEF Init
  <2> QED
    BY <2>1, ChannelAssumption
    DEF Init, CountInv, TypeOK, SvcHolds, Published, IrqHasMsg, BusyCount,
        HoldersSafe, One, OpenHolds, OpenHoldsNot, IrqPc, RecvPc, OpenPc,
        SvcPc, ClsPc, ChanState, Msg, Obj, NULL
<1>2. CountInv /\ [Next]_vars => CountInv'
  BY TypeStep, CountStep, HoldersStep DEF CountInv
<1> QED
  BY <1>1, <1>2, PTL DEF Spec

\* The state of the channel and its threads stays in its types, and no cache
\* ever holds more than SMSG_CACHE_NR messages.
THEOREM TypeCorrect ==
  ASSUME ~EarlyPeer
  PROVE  Spec => []TypeOK
<1>1. CountInv => TypeOK
  BY DEF CountInv
<1> QED
  BY <1>1, CountInvariant, PTL

\* busy[] counts its holders exactly, whatever overlaps (other than an open
\* that starts while the irq handler is at work).
THEOREM BusyIsExact ==
  ASSUME ~EarlyPeer
  PROVE  Spec => []BusyCount
<1>1. CountInv => BusyCount
  BY DEF CountInv
<1> QED
  BY <1>1, CountInvariant, PTL

\* The irq handler, smsg_recv and smsg_ch_open never use a freed channel.
THEOREM HoldersNeverUseFreed ==
  ASSUME ~EarlyPeer
  PROVE  Spec => []HoldersSafe
<1>1. CountInv => HoldersSafe
  BY DEF CountInv
<1> QED
  BY <1>1, CountInvariant, PTL

-----------------------------------------------------------------------------
(* Orderly use: no close overlaps an open or a send.                        *)

Orderly == ~EarlyPeer /\ ~CloseInOpen /\ ~SendInClose

Served == {"run", "ack", "ack_load", "ack_use"} \union RecvPc

\* Who owns the channel: the opening thread, nobody, or the closing thread.
Owner ==
  /\ clsPc # "idle" => inOpen = FALSE /\ svcPc \notin OpenPc
  /\ inOpen = TRUE /\ svcPc \notin {"publish", "f_put"} => channels = svcCh
  /\ svcPc \in {"none", "publish", "exit"} => channels = NULL
  /\ clsPc \in {"c_send", "c_mark", "c_wake", "c_spin", "c_test"} =>
       channels # NULL /\ clsCh = channels
  /\ clsPc = "c_spin2" => clsCh \in live
  /\ clsPc \in {"c_unused", "stop"} => channels = NULL

\* The channel is OPENED only while the service thread serves it and the
\* closing thread has not marked it FREE.
OpenedIsServed ==
  /\ states = "OPENED" => /\ channels # NULL
                          /\ svcPc = "put" \/ (inOpen = FALSE /\ svcPc \in Served)
  /\ clsPc \in {"c_wake", "c_spin", "c_test", "c_spin2", "c_unused", "stop"} =>
       states # "OPENED"

\* A send in progress works on the published, served channel.
SendsServed ==
  /\ \A s \in Senders :
       sndPc[s] # "idle" =>
         /\ clsPc = "idle" /\ channels # NULL
         /\ svcPc = "put" \/ (inOpen = FALSE /\ svcPc \in Served)
         /\ sndPc[s] = "use" => sndCh[s] = channels
  /\ svcPc \in {"ack_load", "ack_use"} => clsPc = "idle" /\ channels # NULL
  /\ svcPc = "ack_use" => recvCh = channels

OrderInv == CountInv /\ Owner /\ OpenedIsServed /\ SendsServed /\ NoLeak

\* The channel changes hands in order: open, nobody, close.
LEMMA OwnerStep ==
  ASSUME OrderInv, [Next]_vars, Orderly
  PROVE  Owner'
<1> USE ChannelAssumption DEF CountInv, TypeOK, SvcHolds, Published, BusyCount,
        HoldersSafe, One, OpenHolds, OpenHoldsNot, Orderly, Served, Owner,
        OpenedIsServed, SendsServed, NoLeak, OrderInv,
        chanVars, irqVars, svcVars, clsVars, sndVars, peerVars, histVars,
        vars, notSvc, notCls,
        IrqPc, RecvPc, OpenPc, SvcPc, ClsPc, ChanState, Msg, Obj,
        NULL
<1>1. CASE PeerOpen
  BY <1>1 DEF PeerOpen, PeerPut
<1>2. CASE PeerData
  BY <1>2 DEF PeerData, PeerPut
<1>3. CASE PeerClose
  <2>1. PeerPut("CLOSE")
    BY <1>3, Zenon DEF PeerClose
  <2> QED
    BY <2>1 DEF PeerPut
<1>4. CASE PeerBad
  BY <1>4 DEF PeerBad, PeerPut
<1>5. CASE IrqBegin
  BY <1>5 DEF IrqBegin
<1>6. CASE IrqInvalid
  BY <1>6 DEF IrqInvalid
<1>7. CASE IrqLoad
  BY <1>7 DEF IrqLoad
<1>8. CASE IrqNoChannel
  BY <1>8 DEF IrqNoChannel
<1>9. CASE IrqSetState
  BY <1>9 DEF IrqSetState
<1>10. CASE IrqCache
  BY <1>10 DEF IrqCache
<1>11. CASE IrqEnd
  BY <1>11 DEF IrqEnd
<1>12. CASE OpenNoMem
  BY <1>12 DEF OpenNoMem
<1>13. CASE OpenBegin
  BY <1>13 DEF OpenBegin
<1>14. CASE OpenPublish
  BY <1>14 DEF OpenPublish
<1>15. CASE OpenSend
  BY <1>15 DEF OpenSend
<1>16. CASE OpenCheck
  BY <1>16 DEF OpenCheck
<1>17. CASE OpenHost
  BY <1>17 DEF OpenHost
<1>18. CASE OpenDone
  BY <1>18 DEF OpenDone
<1>19. CASE OpenPut
  BY <1>19 DEF OpenPut
<1>20. CASE FailState
  BY <1>20 DEF FailState
<1>21. CASE FailNull
  BY <1>21 DEF FailNull
<1>22. CASE FailPut
  BY <1>22 DEF FailPut
<1>23. CASE FailFree
  BY <1>23 DEF FailFree
<1>24. CASE RecvEnter
  BY <1>24 DEF RecvEnter
<1>25. CASE RecvLoad
  BY <1>25 DEF RecvLoad
<1>26. CASE RecvWait
  BY <1>26 DEF RecvWait
<1>27. CASE RecvCheck
  BY <1>27 DEF RecvCheck
<1>28. CASE RecvRead
  BY <1>28 DEF RecvRead
<1>29. CASE RecvExit
  BY <1>29 DEF RecvExit, RecvNext
<1>30. CASE AckBegin
  BY <1>30 DEF AckBegin, Closing
<1>31. CASE AckLoad
  BY <1>31 DEF AckLoad
<1>32. CASE AckUse
  BY <1>32 DEF AckUse
<1>33. CASE SvcStop
  BY <1>33 DEF SvcStop
<1>34. CASE CloseBegin
  BY <1>34 DEF CloseBegin, Opening
<1>35. CASE CloseSend
  BY <1>35 DEF CloseSend
<1>36. CASE CloseMark
  BY <1>36 DEF CloseMark
<1>37. CASE CloseWake
  BY <1>37 DEF CloseWake
<1>38. CASE CloseSpin
  BY <1>38 DEF CloseSpin
<1>39. CASE CloseTest
  BY <1>39 DEF CloseTest
<1>40. CASE CloseFree
  BY <1>40 DEF CloseFree
<1>41. CASE CloseUnused
  BY <1>41 DEF CloseUnused
<1>42. CASE CloseStopped
  BY <1>42 DEF CloseStopped
<1>43. CASE Send
  <2>1. PICK s \in Senders : SendBegin(s) \/ SendLoad(s) \/ SendEnd(s)
    BY <1>43 DEF Send
  <2>2. CASE SendBegin(s)
    BY <2>2 DEF SendBegin, notSnd, Closing
  <2>3. CASE SendLoad(s)
    BY <2>3 DEF SendLoad, notSnd
  <2>4. CASE SendEnd(s)
    BY <2>4 DEF SendEnd, notSnd
  <2> QED
    BY <2>1, <2>2, <2>3, <2>4
<1>44. CASE UNCHANGED vars
  BY <1>44
<1> QED
  BY <1>1, <1>2, <1>3, <1>4, <1>5, <1>6, <1>7, <1>8, <1>9, <1>10,
     <1>11, <1>12, <1>13, <1>14, <1>15, <1>16, <1>17, <1>18, <1>19, <1>20,
     <1>21, <1>22, <1>23, <1>24, <1>25, <1>26, <1>27, <1>28, <1>29, <1>30,
     <1>31, <1>32, <1>33, <1>34, <1>35, <1>36, <1>37, <1>38, <1>39, <1>40,
     <1>41, <1>42, <1>43, <1>44
  DEF Next, Peer, Irq, Svc, Open, Fail, Recv, Ack, Close

\* A channel is OPENED only while it is served.
LEMMA OpenedStep ==
  ASSUME OrderInv, [Next]_vars, Orderly
  PROVE  OpenedIsServed'
<1> USE ChannelAssumption DEF CountInv, TypeOK, SvcHolds, Published, BusyCount,
        HoldersSafe, One, OpenHolds, OpenHoldsNot, Orderly, Served, Owner,
        OpenedIsServed, SendsServed, NoLeak, OrderInv,
        chanVars, irqVars, svcVars, clsVars, sndVars, peerVars, histVars,
        vars, notSvc, notCls,
        IrqPc, RecvPc, OpenPc, SvcPc, ClsPc, ChanState, Msg, Obj,
        NULL
<1>1. CASE PeerOpen
  BY <1>1 DEF PeerOpen, PeerPut
<1>2. CASE PeerData
  BY <1>2 DEF PeerData, PeerPut
<1>3. CASE PeerClose
  <2>1. PeerPut("CLOSE")
    BY <1>3, Zenon DEF PeerClose
  <2> QED
    BY <2>1 DEF PeerPut
<1>4. CASE PeerBad
  BY <1>4 DEF PeerBad, PeerPut
<1>5. CASE IrqBegin
  BY <1>5 DEF IrqBegin
<1>6. CASE IrqInvalid
  BY <1>6 DEF IrqInvalid
<1>7. CASE IrqLoad
  BY <1>7 DEF IrqLoad
<1>8. CASE IrqNoChannel
  BY <1>8 DEF IrqNoChannel
<1>9. CASE IrqSetState
  BY <1>9 DEF IrqSetState
<1>10. CASE IrqCache
  BY <1>10 DEF IrqCache
<1>11. CASE IrqEnd
  BY <1>11 DEF IrqEnd
<1>12. CASE OpenNoMem
  BY <1>12 DEF OpenNoMem
<1>13. CASE OpenBegin
  BY <1>13 DEF OpenBegin
<1>14. CASE OpenPublish
  BY <1>14 DEF OpenPublish
<1>15. CASE OpenSend
  BY <1>15 DEF OpenSend
<1>16. CASE OpenCheck
  BY <1>16 DEF OpenCheck
<1>17. CASE OpenHost
  BY <1>17 DEF OpenHost
<1>18. CASE OpenDone
  BY <1>18 DEF OpenDone
<1>19. CASE OpenPut
  BY <1>19 DEF OpenPut
<1>20. CASE FailState
  BY <1>20 DEF FailState
<1>21. CASE FailNull
  BY <1>21 DEF FailNull
<1>22. CASE FailPut
  BY <1>22 DEF FailPut
<1>23. CASE FailFree
  BY <1>23 DEF FailFree
<1>24. CASE RecvEnter
  BY <1>24 DEF RecvEnter
<1>25. CASE RecvLoad
  BY <1>25 DEF RecvLoad
<1>26. CASE RecvWait
  BY <1>26 DEF RecvWait
<1>27. CASE RecvCheck
  BY <1>27 DEF RecvCheck
<1>28. CASE RecvRead
  BY <1>28 DEF RecvRead
<1>29. CASE RecvExit
  BY <1>29 DEF RecvExit, RecvNext
<1>30. CASE AckBegin
  BY <1>30 DEF AckBegin, Closing
<1>31. CASE AckLoad
  BY <1>31 DEF AckLoad
<1>32. CASE AckUse
  BY <1>32 DEF AckUse
<1>33. CASE SvcStop
  BY <1>33 DEF SvcStop
<1>34. CASE CloseBegin
  BY <1>34 DEF CloseBegin, Opening
<1>35. CASE CloseSend
  BY <1>35 DEF CloseSend
<1>36. CASE CloseMark
  BY <1>36 DEF CloseMark
<1>37. CASE CloseWake
  BY <1>37 DEF CloseWake
<1>38. CASE CloseSpin
  BY <1>38 DEF CloseSpin
<1>39. CASE CloseTest
  BY <1>39 DEF CloseTest
<1>40. CASE CloseFree
  BY <1>40 DEF CloseFree
<1>41. CASE CloseUnused
  BY <1>41 DEF CloseUnused
<1>42. CASE CloseStopped
  BY <1>42 DEF CloseStopped
<1>43. CASE Send
  <2>1. PICK s \in Senders : SendBegin(s) \/ SendLoad(s) \/ SendEnd(s)
    BY <1>43 DEF Send
  <2>2. CASE SendBegin(s)
    BY <2>2 DEF SendBegin, notSnd, Closing
  <2>3. CASE SendLoad(s)
    BY <2>3 DEF SendLoad, notSnd
  <2>4. CASE SendEnd(s)
    BY <2>4 DEF SendEnd, notSnd
  <2> QED
    BY <2>1, <2>2, <2>3, <2>4
<1>44. CASE UNCHANGED vars
  BY <1>44
<1> QED
  BY <1>1, <1>2, <1>3, <1>4, <1>5, <1>6, <1>7, <1>8, <1>9, <1>10,
     <1>11, <1>12, <1>13, <1>14, <1>15, <1>16, <1>17, <1>18, <1>19, <1>20,
     <1>21, <1>22, <1>23, <1>24, <1>25, <1>26, <1>27, <1>28, <1>29, <1>30,
     <1>31, <1>32, <1>33, <1>34, <1>35, <1>36, <1>37, <1>38, <1>39, <1>40,
     <1>41, <1>42, <1>43, <1>44
  DEF Next, Peer, Irq, Svc, Open, Fail, Recv, Ack, Close

\* No step takes the channel away under a send.
LEMMA SendsStep ==
  ASSUME OrderInv, [Next]_vars, Orderly
  PROVE  SendsServed'
<1> USE ChannelAssumption DEF CountInv, TypeOK, SvcHolds, Published, BusyCount,
        HoldersSafe, One, OpenHolds, OpenHoldsNot, Orderly, Served, Owner,
        OpenedIsServed, SendsServed, NoLeak, OrderInv,
        chanVars, irqVars, svcVars, clsVars, sndVars, peerVars, histVars,
        vars, notSvc, notCls,
        IrqPc, RecvPc, OpenPc, SvcPc, ClsPc, ChanState, Msg, Obj,
        NULL
<1>1. CASE PeerOpen
  BY <1>1 DEF PeerOpen, PeerPut
<1>2. CASE PeerData
  BY <1>2 DEF PeerData, PeerPut
<1>3. CASE PeerClose
  <2>1. PeerPut("CLOSE")
    BY <1>3, Zenon DEF PeerClose
  <2> QED
    BY <2>1 DEF PeerPut
<1>4. CASE PeerBad
  BY <1>4 DEF PeerBad, PeerPut
<1>5. CASE IrqBegin
  BY <1>5 DEF IrqBegin
<1>6. CASE IrqInvalid
  BY <1>6 DEF IrqInvalid
<1>7. CASE IrqLoad
  BY <1>7 DEF IrqLoad
<1>8. CASE IrqNoChannel
  BY <1>8 DEF IrqNoChannel
<1>9. CASE IrqSetState
  BY <1>9 DEF IrqSetState
<1>10. CASE IrqCache
  BY <1>10 DEF IrqCache
<1>11. CASE IrqEnd
  BY <1>11 DEF IrqEnd
<1>12. CASE OpenNoMem
  BY <1>12 DEF OpenNoMem
<1>13. CASE OpenBegin
  BY <1>13 DEF OpenBegin
<1>14. CASE OpenPublish
  BY <1>14 DEF OpenPublish
<1>15. CASE OpenSend
  BY <1>15 DEF OpenSend
<1>16. CASE OpenCheck
  BY <1>16 DEF OpenCheck
<1>17. CASE OpenHost
  BY <1>17 DEF OpenHost
<1>18. CASE OpenDone
  BY <1>18 DEF OpenDone
<1>19. CASE OpenPut
  BY <1>19 DEF OpenPut
<1>20. CASE FailState
  BY <1>20 DEF FailState
<1>21. CASE FailNull
  BY <1>21 DEF FailNull
<1>22. CASE FailPut
  BY <1>22 DEF FailPut
<1>23. CASE FailFree
  BY <1>23 DEF FailFree
<1>24. CASE RecvEnter
  BY <1>24 DEF RecvEnter
<1>25. CASE RecvLoad
  BY <1>25 DEF RecvLoad
<1>26. CASE RecvWait
  BY <1>26 DEF RecvWait
<1>27. CASE RecvCheck
  BY <1>27 DEF RecvCheck
<1>28. CASE RecvRead
  BY <1>28 DEF RecvRead
<1>29. CASE RecvExit
  BY <1>29 DEF RecvExit, RecvNext
<1>30. CASE AckBegin
  BY <1>30 DEF AckBegin, Closing
<1>31. CASE AckLoad
  BY <1>31 DEF AckLoad
<1>32. CASE AckUse
  BY <1>32 DEF AckUse
<1>33. CASE SvcStop
  BY <1>33 DEF SvcStop
<1>34. CASE CloseBegin
  BY <1>34 DEF CloseBegin, Opening
<1>35. CASE CloseSend
  BY <1>35 DEF CloseSend
<1>36. CASE CloseMark
  BY <1>36 DEF CloseMark
<1>37. CASE CloseWake
  BY <1>37 DEF CloseWake
<1>38. CASE CloseSpin
  BY <1>38 DEF CloseSpin
<1>39. CASE CloseTest
  BY <1>39 DEF CloseTest
<1>40. CASE CloseFree
  BY <1>40 DEF CloseFree
<1>41. CASE CloseUnused
  BY <1>41 DEF CloseUnused
<1>42. CASE CloseStopped
  BY <1>42 DEF CloseStopped
<1>43. CASE Send
  <2>1. PICK s \in Senders : SendBegin(s) \/ SendLoad(s) \/ SendEnd(s)
    BY <1>43 DEF Send
  <2>2. CASE SendBegin(s)
    BY <2>2 DEF SendBegin, notSnd, Closing
  <2>3. CASE SendLoad(s)
    BY <2>3 DEF SendLoad, notSnd
  <2>4. CASE SendEnd(s)
    BY <2>4 DEF SendEnd, notSnd
  <2> QED
    BY <2>1, <2>2, <2>3, <2>4
<1>44. CASE UNCHANGED vars
  BY <1>44
<1> QED
  BY <1>1, <1>2, <1>3, <1>4, <1>5, <1>6, <1>7, <1>8, <1>9, <1>10,
     <1>11, <1>12, <1>13, <1>14, <1>15, <1>16, <1>17, <1>18, <1>19, <1>20,
     <1>21, <1>22, <1>23, <1>24, <1>25, <1>26, <1>27, <1>28, <1>29, <1>30,
     <1>31, <1>32, <1>33, <1>34, <1>35, <1>36, <1>37, <1>38, <1>39, <1>40,
     <1>41, <1>42, <1>43, <1>44
  DEF Next, Peer, Irq, Svc, Open, Fail, Recv, Ack, Close

\* Every step accounts for every allocated channel.
LEMMA LeakStep ==
  ASSUME OrderInv, [Next]_vars, Orderly
  PROVE  NoLeak'
<1> USE ChannelAssumption DEF CountInv, TypeOK, SvcHolds, Published, BusyCount,
        HoldersSafe, One, OpenHolds, OpenHoldsNot, Orderly, Served, Owner,
        OpenedIsServed, SendsServed, NoLeak, OrderInv,
        chanVars, irqVars, svcVars, clsVars, sndVars, peerVars, histVars,
        vars, notSvc, notCls,
        IrqPc, RecvPc, OpenPc, SvcPc, ClsPc, ChanState, Msg, Obj,
        NULL
<1>1. CASE PeerOpen
  BY <1>1 DEF PeerOpen, PeerPut
<1>2. CASE PeerData
  BY <1>2 DEF PeerData, PeerPut
<1>3. CASE PeerClose
  <2>1. PeerPut("CLOSE")
    BY <1>3, Zenon DEF PeerClose
  <2> QED
    BY <2>1 DEF PeerPut
<1>4. CASE PeerBad
  BY <1>4 DEF PeerBad, PeerPut
<1>5. CASE IrqBegin
  BY <1>5 DEF IrqBegin
<1>6. CASE IrqInvalid
  BY <1>6 DEF IrqInvalid
<1>7. CASE IrqLoad
  BY <1>7 DEF IrqLoad
<1>8. CASE IrqNoChannel
  BY <1>8 DEF IrqNoChannel
<1>9. CASE IrqSetState
  BY <1>9 DEF IrqSetState
<1>10. CASE IrqCache
  BY <1>10 DEF IrqCache
<1>11. CASE IrqEnd
  BY <1>11 DEF IrqEnd
<1>12. CASE OpenNoMem
  BY <1>12 DEF OpenNoMem
<1>13. CASE OpenBegin
  BY <1>13 DEF OpenBegin
<1>14. CASE OpenPublish
  BY <1>14 DEF OpenPublish
<1>15. CASE OpenSend
  BY <1>15 DEF OpenSend
<1>16. CASE OpenCheck
  BY <1>16 DEF OpenCheck
<1>17. CASE OpenHost
  BY <1>17 DEF OpenHost
<1>18. CASE OpenDone
  BY <1>18 DEF OpenDone
<1>19. CASE OpenPut
  BY <1>19 DEF OpenPut
<1>20. CASE FailState
  BY <1>20 DEF FailState
<1>21. CASE FailNull
  BY <1>21 DEF FailNull
<1>22. CASE FailPut
  BY <1>22 DEF FailPut
<1>23. CASE FailFree
  BY <1>23 DEF FailFree
<1>24. CASE RecvEnter
  BY <1>24 DEF RecvEnter
<1>25. CASE RecvLoad
  BY <1>25 DEF RecvLoad
<1>26. CASE RecvWait
  BY <1>26 DEF RecvWait
<1>27. CASE RecvCheck
  BY <1>27 DEF RecvCheck
<1>28. CASE RecvRead
  BY <1>28 DEF RecvRead
<1>29. CASE RecvExit
  BY <1>29 DEF RecvExit, RecvNext
<1>30. CASE AckBegin
  BY <1>30 DEF AckBegin, Closing
<1>31. CASE AckLoad
  BY <1>31 DEF AckLoad
<1>32. CASE AckUse
  BY <1>32 DEF AckUse
<1>33. CASE SvcStop
  BY <1>33 DEF SvcStop
<1>34. CASE CloseBegin
  BY <1>34 DEF CloseBegin, Opening
<1>35. CASE CloseSend
  BY <1>35 DEF CloseSend
<1>36. CASE CloseMark
  BY <1>36 DEF CloseMark
<1>37. CASE CloseWake
  BY <1>37 DEF CloseWake
<1>38. CASE CloseSpin
  BY <1>38 DEF CloseSpin
<1>39. CASE CloseTest
  BY <1>39 DEF CloseTest
<1>40. CASE CloseFree
  BY <1>40 DEF CloseFree
<1>41. CASE CloseUnused
  BY <1>41 DEF CloseUnused
<1>42. CASE CloseStopped
  BY <1>42 DEF CloseStopped
<1>43. CASE Send
  <2>1. PICK s \in Senders : SendBegin(s) \/ SendLoad(s) \/ SendEnd(s)
    BY <1>43 DEF Send
  <2>2. CASE SendBegin(s)
    BY <2>2 DEF SendBegin, notSnd, Closing
  <2>3. CASE SendLoad(s)
    BY <2>3 DEF SendLoad, notSnd
  <2>4. CASE SendEnd(s)
    BY <2>4 DEF SendEnd, notSnd
  <2> QED
    BY <2>1, <2>2, <2>3, <2>4
<1>44. CASE UNCHANGED vars
  BY <1>44
<1> QED
  BY <1>1, <1>2, <1>3, <1>4, <1>5, <1>6, <1>7, <1>8, <1>9, <1>10,
     <1>11, <1>12, <1>13, <1>14, <1>15, <1>16, <1>17, <1>18, <1>19, <1>20,
     <1>21, <1>22, <1>23, <1>24, <1>25, <1>26, <1>27, <1>28, <1>29, <1>30,
     <1>31, <1>32, <1>33, <1>34, <1>35, <1>36, <1>37, <1>38, <1>39, <1>40,
     <1>41, <1>42, <1>43, <1>44
  DEF Next, Peer, Irq, Svc, Open, Fail, Recv, Ack, Close

\* The inductive invariant of the orderly channel.
THEOREM OrderInvariant ==
  ASSUME Orderly
  PROVE  Spec => []OrderInv
<1>1. Init => Owner /\ OpenedIsServed /\ SendsServed /\ NoLeak
  <2> SUFFICES ASSUME Init PROVE Owner /\ OpenedIsServed /\ SendsServed /\ NoLeak
    OBVIOUS
  <2> QED
    BY DEF Init, Owner, OpenedIsServed, SendsServed, NoLeak, OpenPc, NULL
<1>2. OrderInv /\ [Next]_vars =>
        (Owner /\ OpenedIsServed /\ SendsServed /\ NoLeak)'
  BY OwnerStep, OpenedStep, SendsStep, LeakStep
<1>3. Spec => []CountInv
  BY CountInvariant DEF Orderly
<1> QED
  BY <1>1, <1>2, <1>3, PTL DEF Spec, OrderInv

\* smsg_ch_close never touches, or frees again, a freed channel.
THEOREM CloserNeverUsesFreed ==
  ASSUME Orderly
  PROVE  Spec => []CloserSafe
<1>1. OrderInv => CloserSafe
  BY DEF OrderInv, CountInv, Owner, Published, CloserSafe
<1> QED
  BY <1>1, OrderInvariant, PTL

\* smsg_send, which takes no count, never touches a freed channel.
THEOREM SendersNeverUseFreed ==
  ASSUME Orderly
  PROVE  Spec => []SendersSafe
<1>1. OrderInv => SendersSafe
  BY DEF OrderInv, CountInv, SendsServed, Published, SendersSafe
<1> QED
  BY <1>1, OrderInvariant, PTL

\* No struct smsg_channel leaks across any number of opens and closes.
THEOREM ChannelsNeverLeak ==
  ASSUME Orderly
  PROVE  Spec => []NoLeak
<1>1. OrderInv => NoLeak
  BY DEF OrderInv
<1> QED
  BY <1>1, OrderInvariant, PTL

\* In orderly use nobody uses a freed channel: neither the holders of a count,
\* nor smsg_ch_close, nor smsg_send.
THEOREM NobodyUsesFreed ==
  ASSUME Orderly
  PROVE  Spec => []ChannelSafe
<1>1. TypeOK /\ HoldersSafe /\ CloserSafe /\ SendersSafe => ChannelSafe
  BY DEF ChannelSafe
<1>2. ~EarlyPeer
  BY DEF Orderly
<1>3. Spec => []TypeOK
  BY <1>2, TypeCorrect
<1>4. Spec => []HoldersSafe
  BY <1>2, HoldersNeverUseFreed
<1>5. Spec => []CloserSafe
  BY CloserNeverUsesFreed
<1>6. Spec => []SendersSafe
  BY SendersNeverUseFreed
<1> QED
  BY <1>1, <1>3, <1>4, <1>5, <1>6, PTL

-----------------------------------------------------------------------------
(* The handshake: who opens the channel uses up one OPEN of the peer.       *)

HasOpen(q) == \E i \in DOMAIN q : q[i] = "OPEN"

\* No close runs during an open, and FREE is the state of a close that runs.
NoCloseInOpen ==
  /\ inOpen => clsPc = "idle"
  /\ states = "FREE" => clsPc \in {"c_wake", "c_spin", "c_test", "c_spin2", "c_unused"}

\* A new channel is a new object, with an empty cache.
NewIsEmpty ==
  /\ \A o \in live : o <= opens
  /\ \A o \in Obj : o > opens => caches[o] = <<>>

\* smsg_ch_open reads the channel that it published, and never an empty cache.
OpenReads ==
  /\ inOpen /\ svcPc \notin {"publish", "f_put"} => channels = svcCh
  /\ inOpen /\ svcPc \in {"r_wait", "r_check", "r_read"} => recvCh = svcCh
  /\ inOpen /\ svcPc \in {"r_check", "r_read"} => caches[svcCh] # <<>>

\* The OPEN that the running smsg_ch_open has, or will find in its cache, and the one
\* that is recorded in states[] and not taken over yet.
Credit ==
  /\ inOpen
  /\ \/ svcPc \in {"done", "put"}
     \/ svcPc = "r_exit" /\ svcMsg = "OPEN"
     \/ HasOpen(caches[svcCh])
Recorded == states = "CLIENT_OPENED" /\ svcPc # "done"
Accounted == openDone + One(Credit) + One(Recorded) <= openGot

HandInv == NoCloseInOpen /\ NewIsEmpty /\ OpenReads /\ Accounted

\* Messages come to an OPEN only by being one, and taking one brings none.
LEMMA OpensOf ==
  ASSUME NEW q \in Seq(Msg), NEW m \in Msg
  PROVE  /\ HasOpen(Append(q, m)) => HasOpen(q) \/ m = "OPEN"
         /\ q # <<>> /\ HasOpen(Tail(q)) => HasOpen(q)
         /\ q # <<>> /\ Head(q) = "OPEN" => HasOpen(q)
         /\ ~HasOpen(<<>>)
<1>1. Len(q) \in Nat /\ DOMAIN q = 1 .. Len(q)
  OBVIOUS
<1>2. HasOpen(Append(q, m)) => HasOpen(q) \/ m = "OPEN"
  <2> DEFINE r == Append(q, m)
  <2>1. DOMAIN r = 1 .. Len(q) + 1 /\ r[Len(q) + 1] = m /\ \A i \in 1 .. Len(q) : r[i] = q[i]
    OBVIOUS
  <2> HIDE DEF r
  <2>2. HasOpen(r) => HasOpen(q) \/ m = "OPEN"
    BY <1>1, <2>1 DEF HasOpen
  <2> QED
    BY <2>2 DEF r
<1>3. q # <<>> /\ HasOpen(Tail(q)) => HasOpen(q)
  <2> SUFFICES ASSUME q # <<>> PROVE HasOpen(Tail(q)) => HasOpen(q)
    OBVIOUS
  <2> DEFINE r == Tail(q)
  <2>1. DOMAIN r = 1 .. Len(q) - 1 /\ \A i \in 1 .. Len(q) - 1 : r[i] = q[i + 1]
    BY <1>1
  <2> HIDE DEF r
  <2>2. HasOpen(r) => HasOpen(q)
    BY <1>1, <2>1 DEF HasOpen
  <2> QED
    BY <2>2 DEF r
<1>4. q # <<>> /\ Head(q) = "OPEN" => HasOpen(q)
  <2> SUFFICES ASSUME q # <<>>, Head(q) = "OPEN" PROVE HasOpen(q)
    OBVIOUS
  <2>1. 1 \in DOMAIN q /\ q[1] = "OPEN"
    BY <1>1
  <2> QED
    BY <2>1 DEF HasOpen
<1>5. ~HasOpen(<<>>)
  BY DEF HasOpen
<1> QED
  BY <1>2, <1>3, <1>4, <1>5

\* Every step keeps closes out of opens, and the cache of the open its own.
LEMMA HandStep ==
  ASSUME CountInv, HandInv, [Next]_vars, ~CloseInOpen
  PROVE  (NoCloseInOpen /\ NewIsEmpty /\ OpenReads)'
<1> USE ChannelAssumption DEF CountInv, TypeOK, SvcHolds, Published, HoldersSafe,
        HandInv, NoCloseInOpen, NewIsEmpty, OpenReads, OpenHolds, OpenHoldsNot,
        chanVars, irqVars, svcVars, clsVars, sndVars, peerVars, histVars,
        vars, notSvc, notCls, notSnd, IrqPc, RecvPc, OpenPc, SvcPc, ClsPc, ChanState,
        Msg, Obj, NULL
<1>1. CASE PeerOpen \/ PeerData \/ PeerClose \/ PeerBad
  <2>1. UNCHANGED <<chanVars, irqVars, svcVars, clsVars, sndVars, histVars>>
    BY <1>1 DEF PeerOpen, PeerData, PeerClose, PeerBad, PeerPut
  <2> QED
    BY <2>1
<1>2. CASE IrqBegin \/ IrqInvalid \/ IrqLoad \/ IrqNoChannel \/ IrqEnd
  <2>1. UNCHANGED <<channels, states, live, caches, svcVars, clsVars, opens>>
    BY <1>2 DEF IrqBegin, IrqInvalid, IrqLoad, IrqNoChannel, IrqEnd
  <2> QED
    BY <2>1
<1>3. CASE IrqSetState
  BY <1>3 DEF IrqSetState
<1>4. CASE IrqCache
  <2>1. irqCh \in live /\ irqCh \in Obj /\ irqCh <= opens
    BY <1>4 DEF IrqCache
  <2>2. \A o \in Obj : /\ caches[o] # <<>> => caches'[o] # <<>>
                       /\ o # irqCh => caches'[o] = caches[o]
    <3>1. caches[irqCh] \in Seq(Msg) /\ Head(rxring) \in Msg
      BY <1>4, <2>1, HeadIn DEF IrqCache, IrqHasMsg
    <3>2. Append(caches[irqCh], Head(rxring)) # <<>>
      <4> DEFINE r == Append(caches[irqCh], Head(rxring))
      <4>1. Len(r) = Len(caches[irqCh]) + 1 /\ Len(caches[irqCh]) \in Nat
        BY <3>1, AppendIn
      <4> HIDE DEF r
      <4>2. r # <<>>
        BY <4>1
      <4> QED
        BY <4>2 DEF r
    <3> QED
      BY <1>4, <2>1, <3>2 DEF IrqCache
  <2>3. UNCHANGED <<channels, states, live, svcVars, clsVars, opens>>
    BY <1>4 DEF IrqCache
  <2> QED
    BY <2>1, <2>2, <2>3
<1>5. CASE OpenNoMem
  BY <1>5 DEF OpenNoMem
<1>6. CASE OpenBegin
  BY <1>6 DEF OpenBegin
<1>7. CASE OpenPublish \/ OpenSend \/ OpenCheck \/ OpenHost \/ OpenDone
  BY <1>7 DEF OpenPublish, OpenSend, OpenCheck, OpenHost, OpenDone
<1>8. CASE OpenPut
  BY <1>8 DEF OpenPut
<1>9. CASE FailState \/ FailNull \/ FailPut \/ FailFree
  <2>1. CASE FailState
    BY <2>1 DEF FailState
  <2>2. CASE FailNull
    BY <2>2 DEF FailNull
  <2>3. CASE FailPut
    BY <2>3 DEF FailPut
  <2>4. CASE FailFree
    BY <2>4 DEF FailFree
  <2> QED
    BY <1>9, <2>1, <2>2, <2>3, <2>4
<1>10. CASE RecvEnter \/ RecvLoad \/ RecvWait \/ RecvCheck
  <2>1. CASE RecvEnter
    BY <2>1 DEF RecvEnter
  <2>2. CASE RecvLoad
    BY <2>2 DEF RecvLoad
  <2>3. CASE RecvWait
    BY <2>3 DEF RecvWait
  <2>4. CASE RecvCheck
    BY <2>4 DEF RecvCheck
  <2> QED
    BY <1>10, <2>1, <2>2, <2>3, <2>4
<1>11. CASE RecvRead
  <2>1. recvCh \in live /\ recvCh \in Obj /\ recvCh <= opens
    BY <1>11 DEF RecvRead
  <2>2. \A o \in Obj : o # recvCh => caches'[o] = caches[o]
    BY <1>11, <2>1 DEF RecvRead
  <2>3. UNCHANGED <<channels, states, live, svcCh, inOpen, recvCh, clsVars, opens>>
        /\ svcPc' = "r_exit" /\ svcPc = "r_read"
    BY <1>11 DEF RecvRead
  <2>4. NewIsEmpty'
    <3>1. \A o \in live' : o <= opens'
      BY <2>3
    <3>2. \A o \in Obj : o > opens => o # recvCh
      BY <2>1
    <3>3. \A o \in Obj : o > opens' => caches'[o] = <<>>
      BY <2>2, <2>3, <3>2
    <3> QED
      BY <3>1, <3>3
  <2>5. NoCloseInOpen' /\ OpenReads'
    BY <2>3
  <2> QED
    BY <2>4, <2>5
<1>12. CASE RecvExit
  BY <1>12 DEF RecvExit, RecvNext
<1>13. CASE AckBegin \/ AckLoad \/ AckUse \/ SvcStop
  <2>1. CASE AckBegin
    BY <2>1 DEF AckBegin
  <2>2. CASE AckLoad
    BY <2>2 DEF AckLoad
  <2>3. CASE AckUse
    BY <2>3 DEF AckUse
  <2>4. CASE SvcStop
    BY <2>4 DEF SvcStop
  <2> QED
    BY <1>13, <2>1, <2>2, <2>3, <2>4
<1>14. CASE CloseBegin
  BY <1>14 DEF CloseBegin, Opening
<1>15. CASE Close
  <2>1. clsPc # "idle" /\ ~inOpen /\ UNCHANGED <<inOpen, caches, opens>> /\ live' \subseteq live
    BY <1>15 DEF Close, CloseSend, CloseMark, CloseWake, CloseSpin, CloseTest, CloseFree,
                 CloseUnused, CloseStopped
  <2>2. NoCloseInOpen'
    BY <1>15, <2>1 DEF Close, CloseSend, CloseMark, CloseWake, CloseSpin, CloseTest, CloseFree,
                       CloseUnused, CloseStopped
  <2> QED
    BY <2>1, <2>2
<1>16. CASE Send
  <2>1. UNCHANGED <<chanVars, irqVars, svcVars, clsVars, peerVars, histVars>>
    BY <1>16 DEF Send, SendBegin, SendLoad, SendEnd
  <2> QED
    BY <2>1
<1>17. CASE UNCHANGED vars
  BY <1>17
<1> QED
  BY <1>1, <1>2, <1>3, <1>4, <1>5, <1>6, <1>7, <1>8, <1>9, <1>10, <1>11, <1>12, <1>13,
     <1>14, <1>15, <1>16, <1>17
  DEF Next, Peer, Irq, Svc, Open, Fail, Recv, Ack

\* Every step keeps the account of the OPENs.
LEMMA AccountStep ==
  ASSUME CountInv, HandInv, [Next]_vars
  PROVE  Accounted'
<1> USE DEF chanVars, irqVars, svcVars, clsVars, sndVars, peerVars, histVars,
        vars, notSvc, notCls, notSnd
<1>0. /\ openDone \in Nat /\ openGot \in Nat /\ inOpen \in BOOLEAN
      /\ openDone + One(Credit) + One(Recorded) <= openGot
      /\ One(Credit) \in {0, 1} /\ One(Recorded) \in {0, 1}
      /\ Credit <=> One(Credit) = 1
      /\ Recorded <=> One(Recorded) = 1
  BY DEF CountInv, TypeOK, HandInv, Accounted, One
<1>1. ASSUME Credit' => Credit, Recorded' => Recorded,
             openDone' = openDone, openGot' = openGot \/ openGot' = openGot + 1
      PROVE  Accounted'
  BY <1>0, <1>1 DEF Accounted, One
<1>2. ASSUME Credit' => Credit, openDone' = openDone, openGot' = openGot + 1
      PROVE  Accounted'
  BY <1>0, <1>2 DEF Accounted, One
<1>3. ASSUME Recorded' => Recorded, openDone' = openDone, openGot' = openGot + 1
      PROVE  Accounted'
  BY <1>0, <1>3 DEF Accounted, One
<1>4. ASSUME UNCHANGED <<states, caches, svcPc, svcCh, svcMsg, inOpen, openDone, openGot>>
      PROVE  Accounted'
  BY <1>0, <1>1, <1>4 DEF Credit, Recorded, HasOpen
<1>5. CASE PeerOpen \/ PeerData \/ PeerClose \/ PeerBad
  BY <1>4, <1>5 DEF PeerOpen, PeerData, PeerClose, PeerBad, PeerPut
<1>6. CASE IrqBegin \/ IrqInvalid \/ IrqLoad \/ IrqNoChannel \/ IrqEnd
  BY <1>4, <1>6 DEF IrqBegin, IrqInvalid, IrqLoad, IrqNoChannel, IrqEnd
<1>7. CASE IrqSetState
  <2>1. Credit' => Credit
    BY <1>7 DEF IrqSetState, Credit, HasOpen
  <2> QED
    BY <1>2, <1>7, <2>1 DEF IrqSetState
<1>8. CASE IrqCache
  <2>1. UNCHANGED <<states, svcPc, svcCh, svcMsg, inOpen, openDone>>
    BY <1>8 DEF IrqCache
  <2>2. Recorded' => Recorded
    BY <2>1 DEF Recorded
  <2>3. CASE UNCHANGED <<caches, openGot>>
    BY <1>4, <2>1, <2>3
  <2>4. CASE ~UNCHANGED <<caches, openGot>>
    <3>1. /\ irqCh \in Obj /\ caches[irqCh] \in Seq(Msg) /\ Head(rxring) \in Msg
      BY <1>8, HeadIn DEF IrqCache, CountInv, TypeOK, HoldersSafe, IrqHasMsg
    <3>2. /\ caches' = [caches EXCEPT ![irqCh] = Append(caches[irqCh], Head(rxring))]
          /\ openGot' = IF Head(rxring) = "OPEN" THEN openGot + 1 ELSE openGot
      BY <1>8, <2>4 DEF IrqCache
    <3>3. CASE Head(rxring) = "OPEN"
      BY <1>3, <2>1, <2>2, <3>2, <3>3
    <3>4. CASE Head(rxring) # "OPEN"
      <4>1. HasOpen(Append(caches[irqCh], Head(rxring))) => HasOpen(caches[irqCh])
        BY <3>1, <3>4, OpensOf
      <4>2. inOpen => svcCh \in Obj
        BY DEF CountInv, HoldersSafe, TypeOK
      <4>3. caches \in [Obj -> Seq(Msg)]
        BY DEF CountInv, TypeOK
      <4>4. inOpen /\ HasOpen(caches'[svcCh]) => HasOpen(caches[svcCh])
        BY <3>1, <3>2, <4>1, <4>2, <4>3
      <4>5. Credit' => Credit
        BY <2>1, <4>4 DEF Credit
      <4> QED
        BY <1>1, <2>1, <2>2, <3>2, <3>4, <4>5
    <3> QED
      BY <3>3, <3>4
  <2> QED
    BY <2>3, <2>4
<1>9. CASE OpenNoMem
  <2>1. ~inOpen /\ inOpen' = inOpen
    BY <1>9 DEF OpenNoMem, CountInv, SvcHolds, OpenHoldsNot
  <2>2. Recorded' => Recorded
    BY <1>9 DEF OpenNoMem, Recorded
  <2> QED
    BY <1>1, <1>9, <2>1, <2>2 DEF OpenNoMem, Credit
<1>10. CASE OpenBegin
  <2>1. caches[opens + 1] = <<>> /\ svcCh' = opens + 1 /\ caches' = caches /\ svcPc' = "publish"
    BY <1>10, ChannelAssumption DEF OpenBegin, HandInv, NewIsEmpty, CountInv, TypeOK, Obj
  <2>2. ~Credit'
    BY <2>1 DEF Credit, HasOpen
  <2>3. Recorded' => Recorded
    BY <1>10 DEF OpenBegin, Recorded
  <2> QED
    BY <1>1, <1>10, <2>2, <2>3 DEF OpenBegin
<1>11. CASE OpenPublish \/ OpenSend
  <2>1. (Credit' => Credit) /\ (Recorded' => Recorded)
    BY <1>11 DEF OpenPublish, OpenSend, Credit, Recorded, HasOpen
  <2> QED
    BY <1>1, <1>11, <2>1 DEF OpenPublish, OpenSend
<1>12. CASE OpenCheck
  <2>1. CASE states = "CLIENT_OPENED"
    <3>1. Recorded /\ ~Recorded'
      BY <1>12, <2>1 DEF OpenCheck, Recorded
    <3> QED
      BY <1>0, <1>12, <3>1 DEF OpenCheck, Accounted, One
  <2>2. CASE states # "CLIENT_OPENED"
    <3>1. (Credit' => Credit) /\ ~Recorded'
      BY <1>12, <2>2 DEF OpenCheck, Credit, Recorded, HasOpen
    <3> QED
      BY <1>1, <1>12, <3>1 DEF OpenCheck
  <2> QED
    BY <2>1, <2>2
<1>13. CASE OpenHost \/ OpenDone \/ FailState
  <2>1. (Credit' => Credit) /\ ~Recorded'
    BY <1>13 DEF OpenHost, OpenDone, FailState, Credit, Recorded, HasOpen
  <2> QED
    BY <1>1, <1>13, <2>1 DEF OpenHost, OpenDone, FailState
<1>14. CASE OpenPut
  <2>1. inOpen /\ svcPc = "put" /\ inOpen' = FALSE
    BY <1>14 DEF OpenPut, CountInv, SvcHolds, OpenHolds
  <2>2. Credit /\ ~Credit' /\ (Recorded' => Recorded)
    BY <1>14, <2>1 DEF OpenPut, Credit, Recorded
  <2> QED
    BY <1>0, <1>14, <2>2 DEF OpenPut, Accounted, One
<1>15. CASE FailNull \/ FailPut \/ FailFree
  <2>1. (Credit' => Credit) /\ (Recorded' => Recorded)
    BY <1>15 DEF FailNull, FailPut, FailFree, Credit, Recorded, HasOpen
  <2> QED
    BY <1>1, <1>15, <2>1 DEF FailNull, FailPut, FailFree
<1>16. CASE RecvEnter \/ RecvLoad \/ RecvWait \/ RecvCheck
  <2>1. (Credit' => Credit) /\ (Recorded' => Recorded)
    BY <1>16 DEF RecvEnter, RecvLoad, RecvWait, RecvCheck, Credit, Recorded, HasOpen
  <2> QED
    BY <1>1, <1>16, <2>1 DEF RecvEnter, RecvLoad, RecvWait, RecvCheck
<1>17. CASE RecvRead
  <2>1. Recorded' => Recorded
    BY <1>17 DEF RecvRead, Recorded
  <2>2. CASE ~inOpen
    BY <1>1, <1>17, <2>1, <2>2 DEF RecvRead, Credit
  <2>3. CASE inOpen
    <3>1. /\ recvCh = svcCh /\ svcCh \in Obj /\ caches[svcCh] # <<>>
          /\ caches[svcCh] \in Seq(Msg) /\ caches \in [Obj -> Seq(Msg)]
      BY <1>17, <2>3 DEF RecvRead, HandInv, OpenReads, CountInv, HoldersSafe, TypeOK
    <3>2. /\ svcMsg' = Head(caches[svcCh])
          /\ caches' = [caches EXCEPT ![svcCh] = Tail(caches[svcCh])]
          /\ svcPc' = "r_exit" /\ svcCh' = svcCh /\ inOpen' = inOpen
      BY <1>17, <3>1 DEF RecvRead
    <3>3. /\ HasOpen(Tail(caches[svcCh])) => HasOpen(caches[svcCh])
          /\ Head(caches[svcCh]) = "OPEN" => HasOpen(caches[svcCh])
      BY <3>1, OpensOf, HeadIn
    <3>4. caches'[svcCh'] = Tail(caches[svcCh])
      BY <3>1, <3>2
    <3>5. Credit' => Credit
      BY <2>3, <3>2, <3>3, <3>4 DEF Credit
    <3> QED
      BY <1>1, <1>17, <2>1, <3>5 DEF RecvRead
  <2> QED
    BY <2>2, <2>3
<1>18. CASE RecvExit
  <2>1. svcPc' = "done" => inOpen /\ svcMsg = "OPEN"
    BY <1>18 DEF RecvExit, RecvNext
  <2>2. svcPc' # "put" /\ svcPc' # "r_exit" /\ svcPc = "r_exit"
    BY <1>18 DEF RecvExit, RecvNext
  <2>3. (Credit' => Credit) /\ (Recorded' => Recorded)
    BY <1>18, <2>1, <2>2 DEF RecvExit, Credit, Recorded, HasOpen
  <2> QED
    BY <1>1, <1>18, <2>3 DEF RecvExit
<1>19. CASE AckBegin \/ AckLoad \/ AckUse \/ SvcStop
  <2>1. ~inOpen /\ inOpen' = inOpen
    BY <1>19 DEF AckBegin, AckLoad, AckUse, SvcStop, CountInv, SvcHolds, OpenHoldsNot
  <2>2. Recorded' => Recorded
    BY <1>19 DEF AckBegin, AckLoad, AckUse, SvcStop, Recorded
  <2> QED
    BY <1>1, <1>19, <2>1, <2>2 DEF AckBegin, AckLoad, AckUse, SvcStop, Credit
<1>20. CASE CloseBegin \/ CloseSend \/ CloseWake \/ CloseSpin \/ CloseTest \/ CloseFree
  BY <1>4, <1>20 DEF CloseBegin, CloseSend, CloseWake, CloseSpin, CloseTest, CloseFree
<1>21. CASE CloseMark \/ CloseUnused
  <2>1. (Credit' => Credit) /\ ~Recorded'
    BY <1>21 DEF CloseMark, CloseUnused, Credit, Recorded, HasOpen
  <2> QED
    BY <1>1, <1>21, <2>1 DEF CloseMark, CloseUnused
<1>22. CASE CloseStopped
  <2>1. (Credit' => Credit) /\ (Recorded' => Recorded)
    BY <1>22 DEF CloseStopped, Credit, Recorded, HasOpen
  <2> QED
    BY <1>1, <1>22, <2>1 DEF CloseStopped
<1>23. CASE Send
  BY <1>4, <1>23 DEF Send, SendBegin, SendLoad, SendEnd
<1>24. CASE UNCHANGED vars
  BY <1>4, <1>24
<1> QED
  BY <1>5, <1>6, <1>7, <1>8, <1>9, <1>10, <1>11, <1>12, <1>13, <1>14, <1>15, <1>16, <1>17,
     <1>18, <1>19, <1>20, <1>21, <1>22, <1>23, <1>24
  DEF Next, Peer, Irq, Svc, Open, Fail, Recv, Ack, Close

\* smsg_ch_open succeeds no more often than OPENs of the peer were received: each
\* one is used up by one open, if no close overlaps an open.
THEOREM OpensAreAnswered ==
  ASSUME ~EarlyPeer, ~CloseInOpen
  PROVE  Spec => []OpenHandshake
<1>1. Init => HandInv
  BY DEF Init, HandInv, NoCloseInOpen, NewIsEmpty, OpenReads, Accounted, Credit, Recorded, One
<1>2. CountInv /\ HandInv /\ [Next]_vars => HandInv'
  BY HandStep, AccountStep DEF HandInv
<1>3. Spec => []CountInv
  BY CountInvariant
<1>4. CountInv /\ HandInv => OpenHandshake
  BY DEF CountInv, TypeOK, HandInv, Accounted, OpenHandshake, One
<1> QED
  BY <1>1, <1>2, <1>3, <1>4, PTL DEF Spec
=============================================================================

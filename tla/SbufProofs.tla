----------------------------- MODULE SbufProofs -----------------------------
(***************************************************************************)
(* Proofs about Sbuf for any number of threads at either end, any ring     *)
(* size that divides the range of the u32 pointers, any length of a call   *)
(* and any number of crashes, closes and removals of the client:           *)
(*   - the ring is neither overrun nor damaged (PipeIsIntact);             *)
(*   - it implements the pipe of BytePipe (PipeIsImplemented);             *)
(*   - at an end with local memory no wake-up is lost (NoLocalWakeLost);   *)
(*   - when the client never starts again before the host's thread has     *)
(*     handled what its earlier life sent, nobody sleeps on in a call      *)
(*     while the device is gone (RemovalReleases) and, unless the device   *)
(*     is removed, the host reads no byte of an earlier life (PipeIsSafe). *)
(* Left out are interrupted mutex waits (Signals) and an OPEN or CLOSE     *)
(* handled in the middle of a read (SkipInRead).                           *)
(***************************************************************************)
EXTENDS Sbuf, SequenceTheorems, TLAPS

-----------------------------------------------------------------------------
(* Remainders.                                                              *)

\* A quotient and a remainder below the divisor are determined.
LEMMA DivUnique ==
  ASSUME NEW s \in Nat \ {0}, NEW p \in Int, NEW q \in Int,
         NEW a \in 0 .. s - 1, NEW b \in 0 .. s - 1, p * s + a = q * s + b
  PROVE  p = q /\ a = b
<1>1. ASSUME NEW x \in Int, NEW y \in Int,
             NEW c \in 0 .. s - 1, NEW d \in 0 .. s - 1, x * s + c = y * s + d
      PROVE  ~(x > y)
  <2> SUFFICES ASSUME x >= y + 1 PROVE FALSE
    OBVIOUS
  <2>1. x * s >= (y + 1) * s
    OBVIOUS
  <2>2. (y + 1) * s = y * s + s
    OBVIOUS
  <2>3. x * s \in Int /\ y * s \in Int
    OBVIOUS
  <2> QED
    BY <1>1, <2>1, <2>2, <2>3
<1>2. ~(p > q) /\ ~(q > p)
  BY <1>1
<1>3. p = q
  BY <1>2
<1> QED
  BY <1>3

\* Every integer is a multiple of the divisor and its remainder.
LEMMA ModIs ==
  ASSUME NEW s \in Nat \ {0}, NEW a \in Int
  PROVE  \E q \in Int : a = q * s + (a % s) /\ a % s \in 0 .. s - 1
<1>1. a = (a \div s) * s + (a % s) /\ a \div s \in Int /\ a % s \in 0 .. s - 1
  OBVIOUS
<1> QED
  BY <1>1

\* Numbers a multiple of the divisor apart have the same remainder.
LEMMA ModSame ==
  ASSUME NEW s \in Nat \ {0}, NEW m \in Int, NEW a \in Int, NEW b \in Int,
         a = m * s + b
  PROVE  a % s = b % s
<1>1. PICK p \in Int : a = p * s + (a % s) /\ a % s \in 0 .. s - 1
  BY ModIs
<1>2. PICK q \in Int : b = q * s + (b % s) /\ b % s \in 0 .. s - 1
  BY ModIs
<1> DEFINE x == a % s
           y == b % s
<1>3. x \in 0 .. s - 1 /\ y \in 0 .. s - 1 /\ a = p * s + x /\ b = q * s + y
  BY <1>1, <1>2
<1> HIDE DEF x, y
<1>4. m + q \in Int /\ (m + q) * s = m * s + q * s
  OBVIOUS
<1>5. p * s + x = (m + q) * s + y
  <2>1. m * s \in Int /\ q * s \in Int /\ p * s \in Int
    OBVIOUS
  <2> QED
    BY <1>3, <1>4, <2>1
<1> DEFINE n == m + q
<1>6. n \in Int /\ p * s + x = n * s + y
  BY <1>4, <1>5
<1> HIDE DEF n
<1>7. x = y
  <2>1. x \in 0 .. s - 1 /\ y \in 0 .. s - 1
    BY <1>3
  <2>2. p \in Int /\ n \in Int /\ p * s + x = n * s + y
    BY <1>6
  <2> QED
    BY ONLY s \in Nat \ {0}, <2>1, <2>2, DivUnique
<1> QED
  BY <1>7 DEF x, y

\* Numbers less than the divisor apart have different remainders.
LEMMA ModDiffers ==
  ASSUME NEW s \in Nat \ {0}, NEW a \in Int, NEW d \in 1 .. s - 1
  PROVE  (a + d) % s # a % s
<1> SUFFICES ASSUME (a + d) % s = a % s PROVE FALSE
  OBVIOUS
<1>1. PICK q \in Int : a = q * s + (a % s) /\ a % s \in 0 .. s - 1
  BY ModIs
<1>2. PICK p \in Int : a + d = p * s + ((a + d) % s)
  <2>1. a + d \in Int
    OBVIOUS
  <2> QED
    BY <2>1, ModIs
<1>3. q * s + d = p * s + 0
  <2>1. q * s \in Int /\ p * s \in Int
    OBVIOUS
  <2> QED
    BY <1>1, <1>2, <2>1
<1> QED
  BY <1>3, DivUnique

-----------------------------------------------------------------------------
(* Pointers and slots.                                                      *)

\* The ring size, a power of two, divides the range of the u32 pointers.
Divides == \E k \in Nat : W = k * Size

Ptr == 0..(W - 1)

\* The slot of the i-th byte from pointer p on.
At(p, i) == (Slot(p) + i - 1) % Size

\* A slot is an index of the ring.
LEMMA AtIn ==
  ASSUME NEW p \in Ptr, NEW i \in Nat \ {0}
  PROVE  At(p, i) \in 0..(Size - 1) /\ Slot(p) \in 0..(Size - 1)
<1>1. Size \in Nat \ {0} /\ p \in Int
  BY SbufAssumption DEF Ptr
<1>2. Slot(p) \in 0..(Size - 1)
  BY <1>1, ModIs DEF Slot
<1>3. Slot(p) + i - 1 \in Int
  BY <1>1, <1>2
<1> QED
  BY <1>1, <1>2, <1>3, ModIs DEF At

\* The slots of Size bytes in a row are different.
LEMMA AtDiffers ==
  ASSUME NEW p \in Ptr, NEW i \in 1..Size, NEW j \in 1..Size, i # j
  PROVE  At(p, i) # At(p, j)
<1>1. Size \in Nat \ {0}
  BY SbufAssumption
<1> DEFINE s == Slot(p)
<1>2. s \in Int
  BY <1>1, AtIn
<1> HIDE DEF s
<1>3. ASSUME NEW x \in 1..Size, NEW y \in 1..Size, x < y
      PROVE  (s + y - 1) % Size # (s + x - 1) % Size
  <2>1. y - x \in 1..(Size - 1) /\ s + x - 1 \in Int
    BY <1>1, <1>2, <1>3
  <2>2. ((s + x - 1) + (y - x)) % Size # (s + x - 1) % Size
    BY <1>1, <2>1, ModDiffers
  <2>3. (s + x - 1) + (y - x) = s + y - 1
    BY <1>1, <1>2
  <2> QED
    BY <2>2, <2>3
<1>4. (s + i - 1) % Size # (s + j - 1) % Size
  BY <1>1, <1>3
<1> QED
  BY <1>4 DEF At, s

\* Moving a pointer by n bytes moves the slots by n, across the wrap.
LEMMA AtAdd ==
  ASSUME Divides, NEW p \in Ptr, NEW n \in 0..Size, NEW i \in Nat \ {0}
  PROVE  Add(p, n) \in Ptr /\ At(Add(p, n), i) = At(p, n + i)
<1>1. Size \in Nat \ {0} /\ W \in Nat /\ W > Size
  BY SbufAssumption
<1>2. Add(p, n) \in Ptr
  BY <1>1 DEF Add, Ptr
<1>3. PICK k \in Nat : W = k * Size
  BY DEF Divides
<1>4. PICK c \in {0, 1} : Add(p, n) = p + n - c * W
  <2>1. Add(p, n) = p + n - 0 * W \/ Add(p, n) = p + n - 1 * W
    BY <1>1 DEF Add, Ptr
  <2> QED
    BY <2>1
<1> DEFINE a == Slot(p)
           b == Slot(Add(p, n))
<1>5. PICK q \in Int : p = q * Size + a /\ a \in 0..(Size - 1)
  <2>1. p \in Int
    BY DEF Ptr
  <2>2. \E q \in Int : p = q * Size + (p % Size) /\ p % Size \in 0..(Size - 1)
    BY <1>1, <2>1, ModIs
  <2> QED
    BY <2>2 DEF Slot
<1>6. PICK r \in Int : Add(p, n) = r * Size + b /\ b \in 0..(Size - 1)
  <2> DEFINE d == Add(p, n)
  <2>1. d \in Int
    BY <1>2 DEF Ptr
  <2> HIDE DEF d
  <2>2. \E r \in Int : d = r * Size + (d % Size) /\ d % Size \in 0..(Size - 1)
    BY <1>1, <2>1, ModIs
  <2> QED
    BY <2>2 DEF Slot, d
<1> HIDE DEF a, b
<1> DEFINE m == q - c * k - r
<1>7. m \in Int /\ m * Size = q * Size - c * k * Size - r * Size
  BY <1>1, <1>3, <1>4
<1>8. c * W = c * k * Size
  BY <1>1, <1>3, <1>4
<1> HIDE DEF m
<1>9. b + i - 1 = m * Size + (a + (n + i) - 1)
  <2>1. q * Size \in Int /\ r * Size \in Int /\ c * k * Size \in Int
    BY <1>1, <1>3, <1>4
  <2> QED
    BY <1>1, <1>4, <1>5, <1>6, <1>7, <1>8, <2>1
<1>10. (b + i - 1) % Size = (a + (n + i) - 1) % Size
  <2> DEFINE x == b + i - 1
             y == a + (n + i) - 1
  <2>1. x \in Int /\ y \in Int /\ x = m * Size + y
    BY <1>1, <1>5, <1>6, <1>9
  <2> HIDE DEF x, y
  <2>2. x % Size = y % Size
    BY <1>1, <1>7, <2>1, ModSame
  <2> QED
    BY <2>2 DEF x, y
<1> QED
  BY <1>2, <1>10 DEF At, a, b

\* The write pointer is the read pointer and what lies between them.
LEMMA UsedIs ==
  ASSUME wt \in Ptr, rd \in Ptr
  PROVE  /\ Used \in Nat /\ Used < W /\ (Used = 0 <=> wt = rd)
         /\ Used <= Size => wt = Add(rd, Used)
  BY SbufAssumption DEF Ptr, Used, Add

\* Writing n bytes adds n to what lies between the pointers, reading n takes n away.
LEMMA UsedMoves ==
  ASSUME wt \in Ptr, rd \in Ptr, NEW n \in Nat
  PROVE  /\ wt' = Add(wt, n) /\ rd' = rd /\ Used + n <= Size => Used' = Used + n
         /\ wt' = wt /\ rd' = Add(rd, n) /\ n <= Used /\ Used <= Size => Used' = Used - n
         /\ wt' = wt /\ rd' = wt => Used' = 0
<1> USE SbufAssumption DEF Ptr, Used, Add
<1>1. wt' = Add(wt, n) /\ rd' = rd /\ Used + n <= Size => Used' = Used + n
  OBVIOUS
<1>2. wt' = wt /\ rd' = Add(rd, n) /\ n <= Used /\ Used <= Size => Used' = Used - n
  OBVIOUS
<1>3. wt' = wt /\ rd' = wt => Used' = 0
  OBVIOUS
<1> QED
  BY <1>1, <1>2, <1>3

\* The slots behind the write pointer are those behind the bytes in the ring.
LEMMA AtWrite ==
  ASSUME Divides, wt \in Ptr, rd \in Ptr, Used <= Size, NEW i \in Nat \ {0}
  PROVE  At(wt, i) = At(rd, Used + i)
<1>1. Used \in 0..Size /\ wt = Add(rd, Used)
  BY UsedIs, SbufAssumption
<1> QED
  BY <1>1, AtAdd

-----------------------------------------------------------------------------
(* The invariant.                                                           *)

\* Who is inside a call past its mutex holds the mutex of its end.
Held ==
  \A t \in Threads : pc[t] \notin {"out", "lock"} => lock[EndOf(t)] = t

\* The bytes that are written and neither read nor skipped lie in order between
\* the pointers.
Ring ==
  /\ Len(sent) = Used /\ Used <= Size
  /\ \A i \in 1..Used : buf[At(rd, i)] = sent[i]

\* What a writer copied lies behind the write pointer and there is room for it.
Writing ==
  \A t \in Writers : pc[t] = "bump" =>
    /\ chunk[t] # <<>> /\ Used + Len(chunk[t]) <= Size
    /\ \A i \in 1..Len(chunk[t]) : buf[At(wt, i)] = chunk[t][i]

\* What a reader copied is what comes next in the ring.
Reading ==
  \A t \in Readers : pc[t] = "bump" =>
    /\ chunk[t] # <<>> /\ Len(chunk[t]) <= Used
    /\ \A i \in 1..Len(chunk[t]) : chunk[t][i] = sent[i]

PipeInv == TypeOK /\ Held /\ Ring /\ Writing /\ Reading

\* The ring and a call in the middle of a copy are as before.
Still ==
  /\ UNCHANGED <<wt, rd, buf, sent>>
  /\ \A t \in Threads : pc'[t] = "bump" => pc[t] = "bump" /\ chunk'[t] = chunk[t]

\* A step that leaves the ring and the copies alone keeps what holds of them.
LEMMA StillKeeps ==
  ASSUME Ring, Writing, Reading, Still
  PROVE  Ring' /\ Writing' /\ Reading'
<1>1. Used' = Used
  BY DEF Still, Used
<1>2. Ring'
  BY <1>1 DEF Still, Ring, At, Slot
<1>3. Writing'
  BY <1>1 DEF Still, Writing, At, Slot, Threads
<1>4. Reading'
  BY <1>1 DEF Still, Reading, Threads
<1> QED
  BY <1>2, <1>3, <1>4

\* Two threads of one end are not inside their calls at once.
LEMMA OneInside ==
  ASSUME Held, NEW t \in Threads, NEW u \in Threads, EndOf(t) = EndOf(u),
         pc[t] \notin {"out", "lock"}, pc[u] \notin {"out", "lock"}
  PROVE  t = u
BY DEF Held

-----------------------------------------------------------------------------
(* What a step does to the mutexes.                                         *)

\* Who goes on inside its call keeps its mutex.
LEMMA HeldStay ==
  ASSUME TypeOK, Held, lock' = lock,
         \A t \in Threads : pc'[t] \notin {"out", "lock"} => pc[t] \notin {"out", "lock"}
  PROVE  Held'
BY DEF Held, EndOf

\* Who leaves gives up its mutex and nobody else's.
LEMMA HeldLeave ==
  ASSUME TypeOK, Held, NEW t \in Threads, pc[t] \notin {"out", "lock"}, Leave(t)
  PROVE  Held'
<1> SUFFICES ASSUME NEW u \in Threads, pc'[u] \notin {"out", "lock"}
             PROVE  lock'[EndOf(u)] = u
  BY DEF Held, EndOf
<1>1. u # t /\ pc[u] \notin {"out", "lock"}
  BY DEF TypeOK, Leave, Goto
<1>2. EndOf(u) # EndOf(t)
  BY <1>1, OneInside
<1>3. lock[EndOf(u)] = u /\ EndOf(u) \in Ends /\ EndOf(t) \in Ends
  BY <1>1 DEF Held, EndOf, Ends
<1> QED
  BY <1>2, <1>3 DEF Leave, TypeOK

\* A step of the program keeps the mutexes with their holders.
LEMMA HeldStep ==
  ASSUME ~Signals, TypeOK, Held, Next
  PROVE  Held'
<1>1. ASSUME NEW t \in Threads, Call(t) PROVE Held'
  <2>1. lock' = lock /\ \A u \in Threads : pc'[u] = pc[u] \/ pc'[u] = "lock"
    BY <1>1 DEF Call, Goto, TypeOK
  <2> QED
    BY <2>1, HeldStay
<1>2. ASSUME NEW t \in Threads, Lock(t) PROVE Held'
  <2>1. CASE lock[EndOf(t)] = NoOne
    <3>1. lock' = [lock EXCEPT ![EndOf(t)] = t] /\ pc' = [pc EXCEPT ![t] = "test"]
      BY <1>2, <2>1 DEF Lock, Goto
    <3>2. EndOf(t) \in Ends
      BY DEF EndOf, Ends
    <3>3. \A u \in Threads : u # NoOne
      BY SbufAssumption
    <3> SUFFICES ASSUME NEW u \in Threads, pc'[u] \notin {"out", "lock"}
                 PROVE  lock'[EndOf(u)] = u
      BY DEF Held, EndOf
    <3>4. CASE u = t
      BY <3>1, <3>2, <3>4 DEF TypeOK
    <3>5. CASE u # t
      <4>1. lock[EndOf(u)] = u
        BY <3>1, <3>5 DEF TypeOK, Held
      <4> QED
        BY <2>1, <3>1, <3>3, <4>1 DEF TypeOK
    <3> QED
      BY <3>4, <3>5
  <2>2. CASE lock[EndOf(t)] # NoOne
    <3>1. lock' = lock /\ pc' = [pc EXCEPT ![t] = "out"]
      BY <1>2, <2>2 DEF Lock, Goto
    <3> QED
      BY <3>1, HeldStay DEF TypeOK
  <2> QED
    BY <2>1, <2>2
<1>3. ASSUME NEW t \in Threads, Test(t) \/ Fault(t) PROVE Held'
  <2>1. lock' = lock /\ \A u \in Threads : u # t => pc'[u] = pc[u]
    BY <1>3 DEF Test, Fault, Stay, Goto, TypeOK
  <2>2. pc[t] \notin {"out", "lock"}
    BY <1>3 DEF Test, Fault
  <2> QED
    BY <2>1, <2>2, HeldStay
<1>4. ASSUME NEW t \in Threads, SetMask(t) \/ Wait(t) \/ Abort(t) \/ Done(t) PROVE Held'
  <2>1. pc[t] \notin {"out", "lock"}
    BY <1>4 DEF SetMask, Wait, Abort, Done
  <2>2. Leave(t) \/ \E l \in {"enter", "wait", "asleep"} : Stay(t, l)
    BY <1>4 DEF SetMask, Wait, Abort, Done
  <2>3. CASE Leave(t)
    BY <2>1, <2>3, HeldLeave
  <2>4. CASE \E l \in {"enter", "wait", "asleep"} : Stay(t, l)
    <3>1. lock' = lock /\ \A u \in Threads : u # t => pc'[u] = pc[u]
      BY <2>4 DEF Stay, Goto, TypeOK
    <3> QED
      BY <2>1, <3>1, HeldStay
  <2> QED
    BY <2>2, <2>3, <2>4
<1>5. ASSUME NEW t \in Threads, Copy(t) PROVE Held'
  <2>1. pc[t] \notin {"out", "lock"} /\ lock' = lock
    BY <1>5 DEF Copy, WriteLoop, WriteBump, WriteNotify, ReadLoop, ReadBump, ReadNotify
  <2>2. \A u \in Threads : u # t => pc'[u] = pc[u]
    BY <1>5 DEF Copy, WriteLoop, WriteBump, WriteNotify, ReadLoop, ReadBump, ReadNotify,
                CopyIn, Goto, TypeOK
  <2> QED
    BY <2>1, <2>2, HeldStay
<1>6. CASE Thread
  <2>1. lock' = lock
    BY <1>6 DEF Thread, OnEvent, OnOpen, OnCmd, OnClose, ClientRecv
  <2>2. \A u \in Threads : pc'[u] # pc[u] => pc[u] = "asleep"
    BY <1>6 DEF Thread, OnEvent, OnOpen, OnCmd, OnClose, ClientRecv, threadVars, Woken
  <2> QED
    BY <2>1, <2>2, HeldStay
<1>7. ASSUME NEW way \in Ways, ClientStop(way) PROVE Held'
  <2> SUFFICES ASSUME NEW u \in Threads, pc'[u] \notin {"out", "lock"}
               PROVE  lock'[EndOf(u)] = u
    BY DEF Held, EndOf
  <2>1. EndOf(u) # Client /\ pc[u] \notin {"out", "lock"}
    BY <1>7 DEF ClientStop, ClientThread, Woken
  <2>2. EndOf(u) \in Ends /\ lock' = [lock EXCEPT ![Client] = NoOne]
    BY <1>7 DEF ClientStop, EndOf, Ends
  <2> QED
    BY <2>1, <2>2 DEF Held, TypeOK
<1>8. CASE ClientStart
  BY <1>8, HeldStay DEF ClientStart, threadVars
<1> QED
  BY <1>1, <1>2, <1>3, <1>4, <1>5, <1>6, <1>7, <1>8 DEF Next, Step

-----------------------------------------------------------------------------
(* What a step does to the ring.                                            *)

\* A thread that is in the middle of a copy is the only one of its end.
LEMMA OneCopies ==
  ASSUME Held, NEW t \in Threads, NEW u \in Threads, EndOf(t) = EndOf(u),
         pc[t] \in {"enter", "loop", "bump", "notify"},
         pc[u] \in {"enter", "loop", "bump", "notify"}
  PROVE  t = u
BY OneInside

\* Every thread is of one end, and its end tells which.
LEMMA EndIs ==
  ASSUME NEW t \in Threads
  PROVE  /\ EndOf(t) \in Ends
         /\ EndOf(t) = "w" <=> t \in Writers
         /\ EndOf(t) = "r" <=> t \in Readers
BY SbufAssumption DEF EndOf, Ends, Threads

\* What CopyIn puts into the ring: the next n bytes behind the write pointer.
LEMMA CopyInIs ==
  ASSUME Divides, TypeOK, Ring, NEW t \in Threads, NEW n \in 1..Size, Used + n <= Size,
         CopyIn(t, n)
  PROVE  /\ chunk' = [chunk EXCEPT ![t] = [i \in 1..n |-> issued + i]]
         /\ \A i \in 1..n : issued + i \in Bytes /\ buf'[At(wt, i)] = issued + i
         /\ \A i \in 1..Used : buf'[At(rd, i)] = buf[At(rd, i)]
         /\ buf' \in [0..(Size - 1) -> Bytes]
<1> DEFINE into(s) == {issued + i : i \in {j \in 1..n : (Slot(wt) + j - 1) % Size = s}}
<1>1. /\ wt \in Ptr /\ rd \in Ptr /\ issued \in Nat /\ MaxBytes \in Nat
      /\ Size \in Nat \ {0} /\ buf \in [0..(Size - 1) -> Bytes]
      /\ Used \in Nat /\ Used <= Size
  BY SbufAssumption, UsedIs DEF TypeOK, Ptr, Bytes, Ring
<1>2. /\ issued + n <= MaxBytes
      /\ buf' = [s \in DOMAIN buf |-> IF into(s) = {} THEN buf[s]
                                      ELSE CHOOSE b \in into(s) : TRUE]
      /\ chunk' = [chunk EXCEPT ![t] = [i \in 1..n |-> issued + i]]
  BY DEF CopyIn
<1>3. \A s : into(s) \subseteq Bytes
  BY <1>1, <1>2 DEF Bytes
<1>4. \A s, i : i \in 1..n /\ At(wt, i) = s => issued + i \in into(s)
  BY DEF At
<1>5. \A s, b : b \in into(s) => \E i \in 1..n : At(wt, i) = s /\ b = issued + i
  BY DEF At
<1> HIDE DEF into
<1>6. buf' \in [0..(Size - 1) -> Bytes]
  BY <1>1, <1>2, <1>3
<1>7. ASSUME NEW i \in 1..n PROVE issued + i \in Bytes /\ buf'[At(wt, i)] = issued + i
  <2>1. i \in 1..Size /\ i \in Nat \ {0}
    BY <1>1
  <2>2. At(wt, i) \in 0..(Size - 1)
    BY <1>1, <2>1, AtIn
  <2>3. issued + i \in into(At(wt, i))
    BY <1>4
  <2>4. \A b \in into(At(wt, i)) : b = issued + i
    <3> SUFFICES ASSUME NEW b \in into(At(wt, i)) PROVE b = issued + i
      OBVIOUS
    <3>1. PICK j \in 1..n : At(wt, j) = At(wt, i) /\ b = issued + j
      BY <1>5
    <3>2. j \in 1..Size
      BY <1>1
    <3>3. j = i
      BY <1>1, <2>1, <3>1, <3>2, AtDiffers
    <3> QED
      BY <3>1, <3>3
  <2>5. buf'[At(wt, i)] = CHOOSE b \in into(At(wt, i)) : TRUE
    BY <1>1, <1>2, <2>2, <2>3
  <2> QED
    BY <1>3, <2>3, <2>4, <2>5
<1>8. ASSUME NEW i \in 1..Used PROVE buf'[At(rd, i)] = buf[At(rd, i)]
  <2>1. i \in 1..Size /\ i \in Nat \ {0}
    BY <1>1
  <2>2. At(rd, i) \in 0..(Size - 1)
    BY <1>1, <2>1, AtIn
  <2>3. into(At(rd, i)) = {}
    <3> SUFFICES ASSUME NEW b \in into(At(rd, i)) PROVE FALSE
      OBVIOUS
    <3>1. PICK j \in 1..n : At(wt, j) = At(rd, i)
      BY <1>5
    <3>2. At(wt, j) = At(rd, Used + j)
      BY <1>1, AtWrite
    <3>3. Used + j \in 1..Size /\ Used + j # i
      BY <1>1
    <3> QED
      BY <1>1, <2>1, <3>1, <3>2, <3>3, AtDiffers
  <2> QED
    BY <1>1, <1>2, <2>2, <2>3
<1> QED
  BY <1>2, <1>6, <1>7, <1>8

\* One turn of sbuf_write's loop.
LEMMA WriteLoopKeeps ==
  ASSUME Divides, PipeInv, NEW t \in Writers, WriteLoop(t)
  PROVE  Ring' /\ Writing' /\ Reading'
<1>1. pc[t] \in {"enter", "loop"} /\ UNCHANGED <<wt, rd, sent>>
  BY DEF WriteLoop
<1>2. t \in Threads
  BY DEF Threads
<1>3. CASE left[t] > 0 /\ ~Blocked("w") /\ state["w"] = "ready"
  <2> DEFINE n == Least(Size - Used, left[t])
  <2>1. CopyIn(t, n)
    BY <1>3 DEF WriteLoop
  <2>2. Used \in Nat /\ Size \in Nat /\ n \in 1..Size /\ Used + n <= Size
    <3>1. Used \in Nat /\ Used < Size /\ left[t] \in Nat /\ left[t] > 0 /\ Size \in Nat
      BY <1>2, <1>3, UsedIs, SbufAssumption DEF PipeInv, TypeOK, Blocked, Ptr
    <3> QED
      BY <3>1 DEF Least
  <2> HIDE DEF n
  <2>3. /\ chunk' = [chunk EXCEPT ![t] = [i \in 1..n |-> issued + i]]
        /\ \A i \in 1..n : buf'[At(wt, i)] = issued + i
        /\ \A i \in 1..Used : buf'[At(rd, i)] = buf[At(rd, i)]
    BY <1>2, <2>1, <2>2, CopyInIs DEF PipeInv
  <2>4. Used' = Used /\ pc' = [pc EXCEPT ![t] = "bump"]
    BY <1>1, <2>1 DEF Used, CopyIn, Goto
  <2>5. Ring'
    BY <1>1, <2>3, <2>4 DEF PipeInv, Ring, At, Slot
  <2>6. Writing'
    <3> SUFFICES ASSUME NEW u \in Writers, pc'[u] = "bump"
                 PROVE  /\ chunk'[u] # <<>> /\ Used' + Len(chunk'[u]) <= Size
                        /\ \A i \in 1..Len(chunk'[u]) : buf'[At(wt, i)] = chunk'[u][i]
      BY <1>1 DEF Writing, At, Slot
    <3>1. u = t
      BY <1>1, <1>2, <2>4, OneCopies, EndIs DEF PipeInv, TypeOK, Threads
    <3>2. chunk'[u] = [i \in 1..n |-> issued + i]
      BY <1>2, <2>3, <3>1 DEF PipeInv, TypeOK
    <3>3. Len(chunk'[u]) = n /\ chunk'[u] # <<>>
      BY <2>2, <3>2
    <3> QED
      BY <2>2, <2>3, <2>4, <3>2, <3>3
  <2>7. Reading'
    BY <1>1, <1>2, <2>3, <2>4, SbufAssumption DEF PipeInv, TypeOK, Reading, Threads
  <2> QED
    BY <2>5, <2>6, <2>7
<1>4. CASE ~(left[t] > 0 /\ ~Blocked("w") /\ state["w"] = "ready")
  <2>1. pc' = [pc EXCEPT ![t] = "done"] /\ UNCHANGED <<buf, chunk>>
    BY <1>4 DEF WriteLoop, Goto
  <2>2. Still
    BY <1>1, <2>1 DEF Still, PipeInv, TypeOK
  <2> QED
    BY <2>2, StillKeeps DEF PipeInv
<1> QED
  BY <1>3, <1>4

\* The write pointer moves over what was copied.
LEMMA WriteBumpKeeps ==
  ASSUME Divides, PipeInv, NEW t \in Writers, WriteBump(t)
  PROVE  Ring' /\ Writing' /\ Reading'
<1> DEFINE c == chunk[t]
           n == Len(chunk[t])
<1>1. /\ pc[t] = "bump" /\ pc' = [pc EXCEPT ![t] = "notify"]
      /\ wt' = Add(wt, n) /\ sent' = sent \o c /\ UNCHANGED <<rd, buf, chunk>>
  BY DEF WriteBump, Goto
<1>2. t \in Threads
  BY DEF Threads
<1>3. /\ Used \in Nat /\ Size \in Nat /\ n \in Nat \ {0} /\ Used + n <= Size
      /\ Len(sent) = Used /\ wt \in Ptr /\ rd \in Ptr
      /\ sent \in Seq(Bytes) /\ c \in Seq(Bytes)
      /\ \A i \in 1..n : buf[At(wt, i)] = c[i]
      /\ \A i \in 1..Used : buf[At(rd, i)] = sent[i]
  BY <1>1, <1>2, UsedIs, SbufAssumption DEF PipeInv, TypeOK, Writing, Ring, Ptr
<1> HIDE DEF n, c
<1>4. Used' = Used + n
  BY <1>1, <1>3, UsedMoves
<1>5. Len(sent') = Used + n /\ \A i \in 1..(Used + n) :
         sent'[i] = IF i <= Used THEN sent[i] ELSE c[i - Used]
  BY <1>1, <1>3 DEF c, n
<1>6. Ring'
  <2>1. ASSUME NEW i \in 1..(Used + n) PROVE buf[At(rd, i)] = sent'[i]
    <3>1. CASE i <= Used
      BY <1>3, <1>5, <3>1
    <3>2. CASE i > Used
      <4> DEFINE j == i - Used
      <4>1. j \in 1..n /\ j \in Nat \ {0} /\ i = Used + j
        BY <1>3, <3>2
      <4> HIDE DEF j
      <4>2. At(wt, j) = At(rd, i)
        BY <1>3, <4>1, AtWrite
      <4>3. sent'[i] = c[j]
        BY <1>3, <1>5, <3>2, <4>1
      <4> QED
        BY <1>3, <4>1, <4>2, <4>3
    <3> QED
      BY <1>3, <3>1, <3>2
  <2> QED
    BY <1>1, <1>3, <1>4, <1>5, <2>1 DEF Ring, At, Slot
<1>7. Writing'
  <2> SUFFICES ASSUME NEW u \in Writers, pc'[u] = "bump" PROVE FALSE
    BY DEF Writing
  <2>1. u \in Threads /\ u # t /\ pc[u] = "bump"
    BY <1>1, <1>2 DEF PipeInv, TypeOK, Threads
  <2> QED
    BY <1>1, <1>2, <2>1, OneCopies, EndIs DEF PipeInv
<1>8. Reading'
  <2> SUFFICES ASSUME NEW u \in Readers, pc'[u] = "bump"
               PROVE  /\ chunk[u] # <<>> /\ Len(chunk[u]) <= Used + n
                      /\ \A i \in 1..Len(chunk[u]) : chunk[u][i] = sent'[i]
    BY <1>1, <1>4 DEF Reading
  <2>1. u \in Threads /\ u # t /\ pc[u] = "bump"
    BY <1>1, <1>2 DEF PipeInv, TypeOK, Threads
  <2>2. chunk[u] # <<>> /\ Len(chunk[u]) <= Used /\ Len(chunk[u]) \in Nat
    BY <2>1 DEF PipeInv, TypeOK, Reading
  <2>3. \A i \in 1..Len(chunk[u]) : chunk[u][i] = sent[i]
    BY <2>1 DEF PipeInv, Reading
  <2>4. ASSUME NEW i \in 1..Len(chunk[u]) PROVE chunk[u][i] = sent'[i]
    <3>1. i \in 1..(Used + n) /\ i <= Used
      BY <1>3, <2>2
    <3>2. sent'[i] = sent[i]
      BY <1>5, <3>1
    <3> QED
      BY <2>3, <3>2
  <2> QED
    BY <1>3, <2>2, <2>4
<1> QED
  BY <1>6, <1>7, <1>8
\* One turn of sbuf_read's loop.
LEMMA ReadLoopKeeps ==
  ASSUME PipeInv, NEW t \in Readers, ReadLoop(t)
  PROVE  Ring' /\ Writing' /\ Reading'
<1>1. pc[t] \in {"enter", "loop"} /\ UNCHANGED <<wt, rd, buf, sent>>
  BY DEF ReadLoop, ring, hist
<1>2. t \in Threads
  BY DEF Threads
<1>3. CASE left[t] > 0 /\ ~Blocked("r") /\ state["r"] = "ready"
  <2> DEFINE n == Least(Used, left[t])
  <2>1. /\ chunk' = [chunk EXCEPT ![t] = [i \in 1..n |-> buf[(Slot(rd) + i - 1) % Size]]]
        /\ pc' = [pc EXCEPT ![t] = "bump"]
    BY <1>3 DEF ReadLoop, Goto
  <2>2. Used \in Nat /\ n \in 1..Used
    <3>1. Used \in Nat /\ Used > 0 /\ left[t] \in Nat /\ left[t] > 0
      BY <1>2, <1>3, UsedIs DEF PipeInv, TypeOK, Blocked, Ptr
    <3> QED
      BY <3>1 DEF Least
  <2> HIDE DEF n
  <2>3. Used' = Used
    BY <1>1 DEF Used
  <2>4. Ring'
    BY <1>1, <2>3 DEF PipeInv, Ring, At, Slot
  <2>5. Writing'
    BY <1>1, <1>2, <2>1, <2>3, SbufAssumption
    DEF PipeInv, TypeOK, Writing, Threads, At, Slot
  <2>6. Reading'
    <3> SUFFICES ASSUME NEW u \in Readers, pc'[u] = "bump"
                 PROVE  /\ chunk'[u] # <<>> /\ Len(chunk'[u]) <= Used
                        /\ \A i \in 1..Len(chunk'[u]) : chunk'[u][i] = sent[i]
      BY <1>1, <2>3 DEF Reading
    <3>1. u = t
      BY <1>1, <1>2, <2>1, OneCopies, EndIs DEF PipeInv, TypeOK, Threads
    <3>2. chunk'[u] = [i \in 1..n |-> buf[At(rd, i)]]
      BY <1>2, <2>1, <3>1 DEF PipeInv, TypeOK, At
    <3>3. Len(chunk'[u]) = n /\ chunk'[u] # <<>>
      BY <2>2, <3>2
    <3>4. \A i \in 1..n : chunk'[u][i] = sent[i]
      BY <2>2, <3>2 DEF PipeInv, Ring
    <3> QED
      BY <2>2, <3>3, <3>4
  <2> QED
    BY <2>4, <2>5, <2>6
<1>4. CASE ~(left[t] > 0 /\ ~Blocked("r") /\ state["r"] = "ready")
  <2>1. pc' = [pc EXCEPT ![t] = "done"] /\ chunk' = chunk
    BY <1>4 DEF ReadLoop, Goto
  <2>2. Still
    BY <1>1, <2>1 DEF Still, PipeInv, TypeOK
  <2> QED
    BY <2>2, StillKeeps DEF PipeInv
<1> QED
  BY <1>3, <1>4

\* The read pointer moves over what was taken.
LEMMA ReadBumpKeeps ==
  ASSUME Divides, PipeInv, NEW t \in Readers, ReadBump(t)
  PROVE  Ring' /\ Writing' /\ Reading'
<1> DEFINE n == Len(chunk[t])
<1>1. /\ pc[t] = "bump" /\ pc' = [pc EXCEPT ![t] = "notify"]
      /\ rd' = Add(rd, n) /\ sent' = SubSeq(sent, n + 1, Len(sent))
      /\ UNCHANGED <<wt, buf, chunk>>
  BY DEF ReadBump, Goto
<1>2. t \in Threads
  BY DEF Threads
<1>3. /\ Used \in Nat /\ Size \in Nat /\ n \in Nat \ {0} /\ n <= Used /\ Used <= Size
      /\ Len(sent) = Used /\ wt \in Ptr /\ rd \in Ptr /\ sent \in Seq(Bytes)
      /\ \A i \in 1..Used : buf[At(rd, i)] = sent[i]
  BY <1>1, <1>2, UsedIs, SbufAssumption DEF PipeInv, TypeOK, Reading, Ring, Ptr
<1> HIDE DEF n
<1>4. Used' = Used - n
  BY <1>1, <1>3, UsedMoves
<1>5. Len(sent') = Used - n /\ \A i \in 1..(Used - n) : sent'[i] = sent[n + i]
  BY <1>1, <1>3
<1>6. Ring'
  <2>1. ASSUME NEW i \in 1..(Used - n) PROVE buf[At(Add(rd, n), i)] = sent'[i]
    <3>1. i \in Nat \ {0} /\ n + i \in 1..Used /\ n \in 0..Size
      BY <1>3
    <3>2. At(Add(rd, n), i) = At(rd, n + i)
      BY <1>3, <3>1, AtAdd
    <3> QED
      BY <1>3, <1>5, <3>1, <3>2
  <2>2. \A i : At(rd, i)' = At(Add(rd, n), i)
    BY <1>1 DEF At, Slot
  <2>3. Len(sent') = Used' /\ Used' <= Size
    BY <1>3, <1>4, <1>5
  <2>4. \A i \in 1..(Used - n) : buf'[At(rd, i)'] = sent'[i]
    BY <1>1, <2>1, <2>2
  <2> QED
    BY <1>4, <2>3, <2>4 DEF Ring
<1>7. Writing'
  <2> SUFFICES ASSUME NEW u \in Writers, pc'[u] = "bump"
               PROVE  /\ chunk[u] # <<>> /\ Used - n + Len(chunk[u]) <= Size
                      /\ \A i \in 1..Len(chunk[u]) : buf[At(wt, i)] = chunk[u][i]
    BY <1>1, <1>4 DEF Writing, At, Slot
  <2>1. u \in Threads /\ pc[u] = "bump"
    BY <1>1, <1>2 DEF PipeInv, TypeOK, Threads
  <2>2. chunk[u] # <<>> /\ Used + Len(chunk[u]) <= Size /\ Len(chunk[u]) \in Nat
    BY <2>1 DEF PipeInv, TypeOK, Writing
  <2>3. \A i \in 1..Len(chunk[u]) : buf[At(wt, i)] = chunk[u][i]
    BY <2>1 DEF PipeInv, Writing
  <2> QED
    BY <1>3, <2>2, <2>3
<1>8. Reading'
  <2> SUFFICES ASSUME NEW u \in Readers, pc'[u] = "bump" PROVE FALSE
    BY DEF Reading
  <2>1. u \in Threads /\ u # t /\ pc[u] = "bump"
    BY <1>1, <1>2 DEF PipeInv, TypeOK, Threads
  <2> QED
    BY <1>1, <1>2, <2>1, OneCopies, EndIs DEF PipeInv
<1> QED
  BY <1>6, <1>7, <1>8

\* sbuf_skip_old_data while no read is copying.
LEMMA SkipKeeps ==
  ASSUME PipeInv, CopiesDone, NEW e \in Ends, SkipOldData(e),
         UNCHANGED <<wt, buf, pc, chunk>>
  PROVE  Ring' /\ Writing' /\ Reading'
<1>1. CASE e = "r"
  <2>1. rd' = wt /\ sent' = <<>>
    BY <1>1 DEF SkipOldData
  <2>2. /\ Used' = 0 /\ Used \in Nat /\ Size \in Nat /\ Used <= Size
    BY <2>1, UsedIs, UsedMoves, SbufAssumption DEF PipeInv, TypeOK, Ptr, Ring
  <2>3. Ring'
    BY <2>1, <2>2 DEF Ring
  <2>4. Writing'
    <3> SUFFICES ASSUME NEW u \in Writers, pc[u] = "bump"
                 PROVE  /\ chunk[u] # <<>> /\ 0 + Len(chunk[u]) <= Size
                        /\ \A i \in 1..Len(chunk[u]) : buf[At(wt, i)] = chunk[u][i]
      BY <2>2 DEF Writing, At, Slot
    <3>1. u \in Threads /\ Len(chunk[u]) \in Nat
      BY DEF PipeInv, TypeOK, Threads
    <3>2. chunk[u] # <<>> /\ Used + Len(chunk[u]) <= Size
      BY DEF PipeInv, Writing
    <3>3. \A i \in 1..Len(chunk[u]) : buf[At(wt, i)] = chunk[u][i]
      BY DEF PipeInv, Writing
    <3> QED
      BY <2>2, <3>1, <3>2, <3>3
  <2>5. Reading'
    BY DEF CopiesDone, Reading
  <2> QED
    BY <2>3, <2>4, <2>5
<1>2. CASE e # "r"
  <2>1. Still
    BY <1>2 DEF SkipOldData, Still
  <2> QED
    BY <2>1, StillKeeps DEF PipeInv
<1> QED
  BY <1>1, <1>2

\* A step of the program keeps the ring in order.
LEMMA RingStep ==
  ASSUME ~SkipInRead, Divides, PipeInv, Next
  PROVE  Ring' /\ Writing' /\ Reading'
<1>1. ASSUME NEW t \in Threads, Call(t) \/ Lock(t) \/ Test(t) \/ SetMask(t) \/ Wait(t)
                                \/ Abort(t) \/ Fault(t) \/ Done(t)
      PROVE  Still
  <2>1. UNCHANGED <<wt, rd, buf, sent, chunk>>
    BY <1>1 DEF Call, Lock, Test, SetMask, Wait, Abort, Fault, Done, ring, hist
  <2>2. \E l \in {"lock", "out", "test", "none", "some", "enter", "wait", "asleep", "done"} :
           pc' = [pc EXCEPT ![t] = l]
    BY <1>1 DEF Call, Lock, Test, SetMask, Wait, Abort, Fault, Done, Stay, Leave, Goto
  <2> QED
    BY <2>1, <2>2 DEF Still, PipeInv, TypeOK
<1>2. ASSUME NEW t \in Threads, Copy(t) PROVE Ring' /\ Writing' /\ Reading'
  <2>1. ASSUME t \in Writers, WriteNotify(t) PROVE Still
    <3>1. /\ pc' = [pc EXCEPT ![t] = "loop"] /\ chunk' = [chunk EXCEPT ![t] = <<>>]
          /\ UNCHANGED <<wt, rd, buf, sent>>
      BY <2>1 DEF WriteNotify, Goto, ring, hist
    <3> QED
      BY <3>1 DEF Still, PipeInv, TypeOK
  <2>2. ASSUME t \in Readers, ReadNotify(t) PROVE Still
    <3>1. /\ pc' = [pc EXCEPT ![t] = "loop"] /\ chunk' = [chunk EXCEPT ![t] = <<>>]
          /\ UNCHANGED <<wt, rd, buf, sent>>
      BY <2>2 DEF ReadNotify, Goto, ring, hist
    <3> QED
      BY <3>1 DEF Still, PipeInv, TypeOK
  <2> QED
    BY <1>2, <2>1, <2>2, StillKeeps, WriteLoopKeeps, WriteBumpKeeps, ReadLoopKeeps,
       ReadBumpKeeps DEF Copy, PipeInv
<1>3. ASSUME NEW e \in Ends, OnEvent(e) PROVE Still
  BY <1>3 DEF OnEvent, Woken, Still, ring, hist, PipeInv, TypeOK
<1>4. ASSUME OnCmd \/ ClientRecv \/ ClientStart PROVE Still
  BY <1>4 DEF OnCmd, ClientRecv, ClientStart, Still, ring, hist, threadVars
<1>5. ASSUME OnOpen PROVE Ring' /\ Writing' /\ Reading'
  <2>1. CopiesDone /\ UNCHANGED <<wt, buf, pc, chunk>> /\ Host \in Ends
    BY <1>5, SbufAssumption DEF OnOpen, threadVars
  <2>2. CASE state[Host] = "ready"
    BY <1>5, <2>1, <2>2, SkipKeeps DEF OnOpen
  <2>3. CASE state[Host] # "ready"
    <3>1. Still
      BY <1>5, <2>1, <2>3 DEF OnOpen, Still
    <3> QED
      BY <3>1, StillKeeps DEF PipeInv
  <2> QED
    BY <2>2, <2>3
<1>6. ASSUME NEW e \in Ends, OnClose(e) PROVE Ring' /\ Writing' /\ Reading'
  <2>1. CopiesDone /\ UNCHANGED <<wt, buf, pc, chunk>> /\ SkipOldData(e)
    BY <1>6 DEF OnClose, threadVars
  <2> QED
    BY <2>1, SkipKeeps
<1>7. ASSUME NEW way \in Ways, ClientStop(way) PROVE Still
  <2>1. UNCHANGED <<wt, rd, buf, sent>>
    BY <1>7 DEF ClientStop, ring
  <2>2. ASSUME NEW u \in Threads, pc'[u] = "bump"
        PROVE  pc[u] = "bump" /\ chunk'[u] = chunk[u]
    BY <1>7, <2>2 DEF ClientStop, Woken
  <2> QED
    BY <2>1, <2>2 DEF Still
<1> QED
  BY <1>1, <1>2, <1>3, <1>4, <1>5, <1>6, <1>7, StillKeeps
  DEF Next, Step, Thread, PipeInv
-----------------------------------------------------------------------------
(* Types.                                                                   *)

Messages == {"OPEN", "CLOSE", "CMD", "DONE", "RDPTR", "WRPTR"}
Places == {"out", "lock", "test", "none", "some", "wait", "asleep", "enter", "loop", "bump",
           "notify", "done"}

\* Leaving, or going on inside, keeps the types of a thread's variables.
LEMMA ThreadTypes ==
  ASSUME TypeOK, NEW t \in Threads,
         Leave(t) \/ \E l \in Places : Stay(t, l)
  PROVE  /\ pc' \in [Threads -> Places] /\ lock' \in [Ends -> Threads \union {NoOne}]
         /\ left' \in [Threads -> 0..MaxLen] /\ nonblock' \in [Threads -> BOOLEAN]
<1>1. pc \in [Threads -> Places]
  BY DEF TypeOK, Places
<1>2. CASE Leave(t)
  <2>1. pc' \in [Threads -> Places]
    BY <1>1, <1>2 DEF Leave, Goto, Places
  <2>2. lock' \in [Ends -> Threads \union {NoOne}]
    BY <1>2, EndIs DEF Leave, TypeOK
  <2>3. left' \in [Threads -> 0..MaxLen]
    BY <1>2, SbufAssumption DEF Leave, TypeOK
  <2>4. nonblock' \in [Threads -> BOOLEAN]
    BY <1>2 DEF Leave, TypeOK
  <2> QED
    BY <2>1, <2>2, <2>3, <2>4
<1>3. CASE \E l \in Places : Stay(t, l)
  <2>1. pc' \in [Threads -> Places]
    BY <1>1, <1>3 DEF Stay, Goto
  <2> QED
    BY <1>3, <2>1 DEF Stay, TypeOK
<1> QED
  BY <1>2, <1>3

\* What handlers and notifications do to the queues keeps them queues of messages.
LEMMA Queues ==
  ASSUME TypeOK, NEW e \in Ends, NEW f \in Ends, NEW m \in Messages
  PROVE  /\ Sent(e, m) \in [Ends -> Seq(Messages)]
         /\ inbox[e] # <<>> => /\ Taken(e) \in [Ends -> Seq(Messages)]
                               /\ Reply(e, m) \in [Ends -> Seq(Messages)]
                               /\ [Taken(e) EXCEPT ![f] = Append(@, m)]
                                    \in [Ends -> Seq(Messages)]
<1>1. inbox \in [Ends -> Seq(Messages)]
  BY DEF TypeOK, Messages
<1>2. Sent(e, m) \in [Ends -> Seq(Messages)]
  BY <1>1 DEF Sent
<1>3. ASSUME inbox[e] # <<>> PROVE Taken(e) \in [Ends -> Seq(Messages)]
  BY <1>1, <1>3 DEF Taken
<1>4. Other(e) \in Ends
  BY DEF Other, Ends
<1>5. ASSUME inbox[e] # <<>> PROVE Reply(e, m) \in [Ends -> Seq(Messages)]
  <2> DEFINE q == Taken(e)
  <2>1. q \in [Ends -> Seq(Messages)]
    BY <1>3, <1>5
  <2> HIDE DEF q
  <2>2. [q EXCEPT ![Other(e)] = Append(@, m)] \in [Ends -> Seq(Messages)]
    BY <1>4, <2>1
  <2> QED
    BY <2>1, <2>2 DEF Reply, q
<1>6. ASSUME inbox[e] # <<>>
      PROVE  [Taken(e) EXCEPT ![f] = Append(@, m)] \in [Ends -> Seq(Messages)]
  <2> DEFINE q == Taken(e)
  <2>1. q \in [Ends -> Seq(Messages)]
    BY <1>3, <1>6
  <2> HIDE DEF q
  <2>2. [q EXCEPT ![f] = Append(@, m)] \in [Ends -> Seq(Messages)]
    BY <2>1
  <2> QED
    BY <2>2 DEF q
<1> QED
  BY <1>2, <1>3, <1>5, <1>6

\* A step of the program keeps the types.
LEMMA TypeStep ==
  ASSUME Divides, PipeInv, Next
  PROVE  TypeOK'
<1> USE SbufAssumption DEF PipeInv
<1>1. \A t \in Threads : EndOf(t) \in Ends
  BY DEF EndOf, Ends
<1>2. Host \in Ends /\ Client \in Ends
  BY DEF Client, Other, Ends
<1>3. ASSUME NEW t \in Threads, Call(t) PROVE TypeOK'
  BY <1>3 DEF Call, Goto, TypeOK, ring, hist, peerVars
<1>4. ASSUME NEW t \in Threads, Lock(t) PROVE TypeOK'
  <2>1. UNCHANGED <<wt, rd, buf, state, mask, inbox, client, stops, chunk, issued, sent, stale>>
    BY <1>4 DEF Lock, ring, hist, peerVars
  <2>2. /\ pc' \in [Threads -> Places]
        /\ lock' \in [Ends -> Threads \union {NoOne}]
        /\ left' \in [Threads -> 0..MaxLen] /\ nonblock' \in [Threads -> BOOLEAN]
    <3>1. CASE lock[EndOf(t)] = NoOne
      <4>1. /\ lock' = [lock EXCEPT ![EndOf(t)] = t] /\ pc' = [pc EXCEPT ![t] = "test"]
            /\ UNCHANGED <<left, nonblock>>
        BY <1>4, <3>1 DEF Lock, Goto
      <4> QED
        BY <1>1, <4>1 DEF TypeOK, Places
    <3>2. CASE lock[EndOf(t)] # NoOne
      <4>1. lock' = lock
        BY <1>4, <3>2, <1>1 DEF Lock, TypeOK
      <4>2. pc' \in [Threads -> Places]
        <5>1. pc' = [pc EXCEPT ![t] = "out"] \/ pc' = [pc EXCEPT ![t] = "test"]
          BY <1>4 DEF Lock, Goto
        <5> QED
          BY <5>1 DEF TypeOK, Places
      <4>3. left' \in [Threads -> 0..MaxLen]
        BY <1>4 DEF Lock, TypeOK
      <4>4. nonblock' \in [Threads -> BOOLEAN]
        BY <1>4 DEF Lock, TypeOK
      <4> QED
        BY <4>1, <4>2, <4>3, <4>4 DEF TypeOK
    <3> QED
      BY <3>1, <3>2
  <2> QED
    BY <2>1, <2>2 DEF TypeOK, Places
<1>5. ASSUME NEW t \in Threads, Test(t) \/ SetMask(t) \/ Wait(t) \/ Abort(t) \/ Fault(t)
                                \/ Done(t)
      PROVE  TypeOK'
  <2>1. UNCHANGED <<wt, rd, buf, state, inbox, client, stops, chunk, issued, sent, stale>>
    BY <1>5 DEF Test, SetMask, Wait, Abort, Fault, Done, ring, hist, peerVars
  <2>2. mask' \in [Ends -> BOOLEAN]
    <3>1. mask' = mask \/ \E b \in BOOLEAN : mask' = [mask EXCEPT ![EndOf(t)] = b]
      BY <1>5 DEF Test, SetMask, Wait, Abort, Fault, Done
    <3> QED
      BY <1>1, <3>1 DEF TypeOK
  <2>3. Leave(t) \/ \E l \in {"none", "some", "enter", "wait", "asleep", "done"} : Stay(t, l)
    BY <1>5 DEF Test, SetMask, Wait, Abort, Fault, Done
  <2>4. /\ pc' \in [Threads -> Places]
        /\ lock' \in [Ends -> Threads \union {NoOne}]
        /\ left' \in [Threads -> 0..MaxLen] /\ nonblock' \in [Threads -> BOOLEAN]
    BY <2>3, ThreadTypes DEF Places
  <2> QED
    BY <2>1, <2>2, <2>4 DEF TypeOK, Places
<1>6. ASSUME NEW t \in Writers, WriteLoop(t) PROVE TypeOK'
  <2>1. t \in Threads
    BY DEF Threads
  <2>2. CASE left[t] > 0 /\ ~Blocked("w") /\ state["w"] = "ready"
    <3> DEFINE n == Least(Size - Used, left[t])
    <3>1. CopyIn(t, n)
      BY <1>6, <2>2 DEF WriteLoop
    <3>2. n \in 1..Size /\ n <= left[t] /\ Used + n <= Size /\ left[t] \in 0..MaxLen
      <4>1. Used \in Nat /\ Used < Size /\ left[t] \in 0..MaxLen /\ left[t] > 0
        BY <2>1, <2>2, UsedIs DEF TypeOK, Blocked, Ptr
      <4> QED
        BY <4>1 DEF Least
    <3> HIDE DEF n
    <3>3. /\ chunk' = [chunk EXCEPT ![t] = [i \in 1..n |-> issued + i]]
          /\ \A i \in 1..n : issued + i \in Bytes
          /\ buf' \in [0..(Size - 1) -> Bytes]
      BY <2>1, <3>1, <3>2, CopyInIs
    <3>4. chunk' \in [Threads -> Seq(Bytes)]
      <4>1. [i \in 1..n |-> issued + i] \in Seq(Bytes)
        BY <3>2, <3>3
      <4> QED
        BY <3>3, <4>1 DEF TypeOK
    <3>5. left' = [left EXCEPT ![t] = left[t] - n] /\ left[t] - n \in 0..MaxLen
      BY <3>1, <3>2 DEF CopyIn
    <3>6. issued' \in Bytes
      BY <3>1, <3>2 DEF CopyIn, Bytes, TypeOK
    <3>7. pc' = [pc EXCEPT ![t] = "bump"]
      BY <3>1 DEF CopyIn, Goto
    <3>8. UNCHANGED <<wt, rd, state, mask, lock, inbox, client, stops, nonblock, sent, stale>>
      BY <1>6 DEF WriteLoop, peerVars
    <3> QED
      BY <3>3, <3>4, <3>5, <3>6, <3>7, <3>8 DEF TypeOK
  <2>3. CASE ~(left[t] > 0 /\ ~Blocked("w") /\ state["w"] = "ready")
    BY <1>6, <2>1, <2>3 DEF WriteLoop, Goto, TypeOK, peerVars
  <2> QED
    BY <2>2, <2>3
<1>7. ASSUME NEW t \in Readers, ReadLoop(t) PROVE TypeOK'
  <2>1. t \in Threads
    BY DEF Threads
  <2>2. CASE left[t] > 0 /\ ~Blocked("r") /\ state["r"] = "ready"
    <3> DEFINE n == Least(Used, left[t])
               c == [i \in 1..n |-> buf[(Slot(rd) + i - 1) % Size]]
    <3>1. /\ chunk' = [chunk EXCEPT ![t] = c] /\ pc' = [pc EXCEPT ![t] = "bump"]
          /\ left' = [left EXCEPT ![t] = left[t] - n]
      BY <1>7, <2>2 DEF ReadLoop, Goto
    <3>2. n \in Nat /\ n <= left[t] /\ left[t] \in 0..MaxLen
      <4>1. Used \in Nat /\ left[t] \in 0..MaxLen
        BY <2>1, UsedIs DEF TypeOK, Ptr
      <4> QED
        BY <4>1 DEF Least
    <3> HIDE DEF n
    <3>3. \A i \in 1..n : buf[(Slot(rd) + i - 1) % Size] \in Bytes
      <4> SUFFICES ASSUME NEW i \in 1..n PROVE buf[At(rd, i)] \in Bytes
        BY DEF At
      <4>1. At(rd, i) \in 0..(Size - 1)
        BY AtIn DEF TypeOK, Ptr
      <4> QED
        BY <4>1 DEF TypeOK
    <3>4. c \in Seq(Bytes)
      BY <3>2, <3>3
    <3> HIDE DEF c
    <3>5. left[t] - n \in 0..MaxLen
      BY <3>2
    <3>6. UNCHANGED <<wt, rd, buf, state, mask, lock, inbox, client, stops, nonblock,
                      issued, sent, stale>>
      BY <1>7 DEF ReadLoop, ring, hist, peerVars
    <3> QED
      BY <3>1, <3>4, <3>5, <3>6 DEF TypeOK
  <2>3. CASE ~(left[t] > 0 /\ ~Blocked("r") /\ state["r"] = "ready")
    BY <1>7, <2>1, <2>3 DEF ReadLoop, Goto, TypeOK, ring, hist, peerVars
  <2> QED
    BY <2>2, <2>3
<1>8. ASSUME NEW t \in Threads,
             (t \in Writers /\ WriteBump(t)) \/ (t \in Readers /\ ReadBump(t))
      PROVE  TypeOK'
  <2>1. /\ pc[t] = "bump" /\ pc' = [pc EXCEPT ![t] = "notify"]
        /\ UNCHANGED <<buf, state, mask, lock, inbox, client, stops, nonblock, left, chunk,
                       issued, stale>>
    BY <1>8 DEF WriteBump, ReadBump, Goto, peerVars
  <2>2. chunk[t] \in Seq(Bytes) /\ sent \in Seq(Bytes) /\ Len(chunk[t]) \in 0..Size
    <3>1. chunk[t] \in Seq(Bytes) /\ sent \in Seq(Bytes) /\ Used \in Nat /\ Used <= Size
      BY UsedIs DEF TypeOK, Ptr, Ring
    <3>2. Len(chunk[t]) <= Used \/ Used + Len(chunk[t]) <= Size
      BY <1>8, <2>1 DEF Reading, Writing
    <3> QED
      BY <3>1, <3>2
  <2>3. sent' \in Seq(Bytes)
    <3>1. sent \o chunk[t] \in Seq(Bytes)
      BY <2>2
    <3>2. SubSeq(sent, Len(chunk[t]) + 1, Len(sent)) \in Seq(Bytes)
      BY <2>2
    <3> QED
      BY <1>8, <3>1, <3>2 DEF WriteBump, ReadBump
  <2>4. wt' \in Ptr /\ rd' \in Ptr
    <3> DEFINE n == Len(chunk[t])
    <3>1. n \in 0..Size /\ wt \in Ptr /\ rd \in Ptr
      BY <2>2 DEF TypeOK, Ptr
    <3>2. wt' \in {wt, Add(wt, n)} /\ rd' \in {rd, Add(rd, n)}
      BY <1>8 DEF WriteBump, ReadBump
    <3> HIDE DEF n
    <3>3. Add(wt, n) \in Ptr /\ Add(rd, n) \in Ptr
      BY <3>1 DEF Add, Ptr
    <3> QED
      BY <3>1, <3>2, <3>3
  <2> QED
    BY <2>1, <2>3, <2>4 DEF TypeOK, Ptr
<1>9. ASSUME NEW t \in Threads, WriteNotify(t) \/ ReadNotify(t) PROVE TypeOK'
  <2>1. /\ pc' = [pc EXCEPT ![t] = "loop"] /\ chunk' = [chunk EXCEPT ![t] = <<>>]
        /\ UNCHANGED <<wt, rd, buf, state, mask, lock, client, stops, nonblock, left,
                       issued, sent, stale>>
    BY <1>9 DEF WriteNotify, ReadNotify, Goto, ring, hist, peerVars
  <2>2. inbox' \in [Ends -> Seq(Messages)]
    <3>1. inbox' \in {inbox, Sent("r", "WRPTR"), Sent("w", "RDPTR")}
      BY <1>9 DEF WriteNotify, ReadNotify
    <3>2. "w" \in Ends /\ "r" \in Ends /\ "WRPTR" \in Messages /\ "RDPTR" \in Messages
      BY DEF Ends, Messages
    <3>3. inbox \in [Ends -> Seq(Messages)]
      BY DEF TypeOK, Messages
    <3>4. Sent("r", "WRPTR") \in [Ends -> Seq(Messages)]
      BY <3>2, Queues
    <3>5. Sent("w", "RDPTR") \in [Ends -> Seq(Messages)]
      BY <3>2, Queues
    <3> QED
      BY <3>1, <3>3, <3>4, <3>5
  <2>3. chunk' \in [Threads -> Seq(Bytes)]
    BY <2>1 DEF TypeOK
  <2>4. inbox' \in [Ends -> Seq({"OPEN", "CLOSE", "CMD", "DONE", "RDPTR", "WRPTR"})]
    BY <2>2 DEF Messages
  <2> QED
    BY <2>1, <2>3, <2>4 DEF TypeOK
<1>10. ASSUME NEW e \in Ends, OnEvent(e) PROVE TypeOK'
  <2>1. inbox' \in [Ends -> Seq(Messages)]
    BY <1>10, Queues DEF OnEvent, Head1, Messages
  <2>2. pc' \in [Threads -> Places]
    BY <1>10 DEF OnEvent, Woken, TypeOK, Places
  <2> QED
    BY <1>10, <2>1, <2>2 DEF OnEvent, TypeOK, Messages, Places, ring, hist, peerVars
<1>11. ASSUME NEW e \in Ends, OnClose(e) \/ (e = Host /\ (OnOpen \/ OnCmd)) PROVE TypeOK'
  <2>1. inbox' \in [Ends -> Seq(Messages)]
    <3>1. inbox[e] # <<>>
      BY <1>11 DEF OnClose, OnOpen, OnCmd, Head1
    <3>2. inbox' \in {Taken(e), Reply(e, "CLOSE"), Reply(e, "OPEN"), Reply(e, "DONE")}
      BY <1>11 DEF OnClose, OnOpen, OnCmd
    <3>3. "CLOSE" \in Messages /\ "OPEN" \in Messages /\ "DONE" \in Messages
      BY DEF Messages
    <3>4. \A m \in Messages : Taken(e) \in [Ends -> Seq(Messages)]
                             /\ Reply(e, m) \in [Ends -> Seq(Messages)]
      BY <3>1, Queues
    <3> QED
      BY <3>2, <3>3, <3>4
  <2>2. \E s \in {"idle", "ready"} : state' = [state EXCEPT ![e] = s]
    BY <1>11 DEF OnClose, OnOpen, OnCmd
  <2>3. rd' \in 0..(W - 1) /\ sent' \in Seq(Bytes) /\ mask' \in [Ends -> BOOLEAN]
    <3>1. SkipOldData(e) \/ UNCHANGED <<rd, sent, mask>>
      BY <1>11 DEF OnClose, OnOpen, OnCmd, ring, hist
    <3>2. ASSUME SkipOldData(e)
          PROVE  /\ mask' = [mask EXCEPT ![e] = (e = "w")]
                 /\ rd' \in {rd, wt} /\ sent' \in {sent, <<>>}
      BY <3>2 DEF SkipOldData
    <3>3. mask' \in [Ends -> BOOLEAN]
      BY <3>1, <3>2 DEF TypeOK
    <3>4. rd' \in {rd, wt} /\ sent' \in {sent, <<>>}
      BY <3>1, <3>2
    <3>5. <<>> \in Seq(Bytes)
      OBVIOUS
    <3> QED
      BY <3>3, <3>4, <3>5 DEF TypeOK
  <2>4. UNCHANGED <<wt, buf, lock, client, stops, pc, nonblock, left, chunk, issued, stale>>
    BY <1>11 DEF OnClose, OnOpen, OnCmd, ring, hist, peerVars, threadVars
  <2> QED
    <3>1. state' \in [Ends -> {"idle", "ready"}]
      BY <2>2 DEF TypeOK
    <3> QED
      BY <2>1, <2>3, <2>4, <3>1 DEF TypeOK, Messages
<1>12. ASSUME ClientRecv PROVE TypeOK'
  <2>1. inbox' \in [Ends -> Seq(Messages)]
    <3>1. inbox[Client] # <<>>
      BY <1>12 DEF ClientRecv
    <3>2. inbox' \in {Taken(Client), [Taken(Client) EXCEPT ![Host] = Append(@, "CMD")]}
      BY <1>12 DEF ClientRecv
    <3>3. "CMD" \in Messages
      BY DEF Messages
    <3>4. /\ Taken(Client) \in [Ends -> Seq(Messages)]
          /\ [Taken(Client) EXCEPT ![Host] = Append(@, "CMD")] \in [Ends -> Seq(Messages)]
      BY <1>2, <3>1, <3>3, Queues
    <3> QED
      BY <3>2, <3>4
  <2>2. /\ client' \in {"off", "gone", "opening", "init", "up"}
        /\ state' \in [Ends -> {"idle", "ready"}] /\ mask' \in [Ends -> BOOLEAN]
    BY <1>12 DEF ClientRecv, TypeOK
  <2>3. UNCHANGED <<wt, rd, buf, lock, stops, pc, nonblock, left, chunk, issued, sent, stale>>
    BY <1>12 DEF ClientRecv, ring, hist, threadVars
  <2> QED
    BY <2>1, <2>2, <2>3 DEF TypeOK, Messages
<1>13. ASSUME NEW way \in Ways, ClientStop(way) PROVE TypeOK'
  <2>1. inbox' \in [Ends -> Seq(Messages)]
    <3>1. inbox \in [Ends -> Seq(Messages)] /\ "CLOSE" \in Messages
      BY DEF TypeOK, Messages
    <3>2. inbox' = [e \in Ends |-> IF e = Client THEN <<>>
                                  ELSE IF way = "close" THEN Append(inbox[e], "CLOSE")
                                  ELSE inbox[e]]
      <4>1. \A e \in Ends : e = Client \/ e = Host
        BY DEF Client, Other, Ends
      <4>2. Client # Host
        BY DEF Client, Other, Ends
      <4> QED
        BY <1>2, <1>13, <3>1, <4>1, <4>2 DEF ClientStop
    <3>3. \A e \in Ends : Append(inbox[e], "CLOSE") \in Seq(Messages)
      BY <3>1
    <3> QED
      BY <3>1, <3>2, <3>3
  <2>2. pc' \in [Threads -> Places]
    BY <1>13 DEF ClientStop, Woken, TypeOK, Places
  <2>3. /\ left' \in [Threads -> 0..MaxLen] /\ nonblock' \in [Threads -> BOOLEAN]
        /\ chunk' \in [Threads -> Seq(Bytes)]
    BY <1>13 DEF ClientStop, TypeOK
  <2>4. /\ state' \in [Ends -> {"idle", "ready"}] /\ lock' \in [Ends -> Threads \union {NoOne}]
        /\ client' \in {"off", "gone", "opening", "init", "up"}
        /\ stops' \in 0..MaxStops /\ stale' \in Bytes
    <3>1. state' = [e \in Ends |-> IF e = Client \/ way = "remove" THEN "idle" ELSE state[e]]
      BY <1>13 DEF ClientStop
    <3>2. /\ lock' = [lock EXCEPT ![Client] = NoOne] /\ client' \in {"off", "gone"}
          /\ stops' = stops + 1 /\ stops < MaxStops /\ stale' \in {stale, issued}
      BY <1>13 DEF ClientStop
    <3>3. state' \in [Ends -> {"idle", "ready"}]
      BY <3>1 DEF TypeOK
    <3>4. lock' \in [Ends -> Threads \union {NoOne}]
      BY <3>2, <1>2 DEF TypeOK
    <3>5. stops' \in 0..MaxStops
      BY <3>2 DEF TypeOK
    <3>6. stale' \in Bytes
      BY <3>2 DEF TypeOK
    <3> QED
      BY <3>2, <3>3, <3>4, <3>5, <3>6
  <2>5. UNCHANGED <<wt, rd, buf, mask, issued, sent>>
    BY <1>13 DEF ClientStop, ring
  <2> HIDE DEF PipeInv
  <2> QED
    BY <2>1, <2>2, <2>3, <2>4, <2>5 DEF TypeOK, Messages, Places, PipeInv
<1>14. ASSUME ClientStart PROVE TypeOK'
  <2>1. inbox' \in [Ends -> Seq(Messages)]
    BY <1>2, <1>14 DEF ClientStart, TypeOK, Messages
  <2> QED
    BY <1>14, <2>1 DEF ClientStart, TypeOK, Messages, ring, hist, threadVars
<1>15. ASSUME NEW t \in Threads, Copy(t) PROVE TypeOK'
  <2>1. CASE t \in Writers
    <3>1. WriteLoop(t) \/ WriteBump(t) \/ WriteNotify(t)
      BY <1>15, <2>1 DEF Copy
    <3>2. WriteLoop(t) => TypeOK'
      BY <1>6, <2>1
    <3>3. WriteBump(t) => TypeOK'
      BY <1>8, <2>1
    <3>4. WriteNotify(t) => TypeOK'
      BY <1>9
    <3> QED
      BY <3>1, <3>2, <3>3, <3>4
  <2>2. CASE t \in Readers
    <3>1. ReadLoop(t) \/ ReadBump(t) \/ ReadNotify(t)
      BY <1>15, <2>2 DEF Copy
    <3> QED
      BY <1>7, <1>8, <1>9, <2>2, <3>1
  <2> QED
    BY <2>1, <2>2 DEF Threads
<1>16. ASSUME Thread PROVE TypeOK'
  <2>1. ASSUME OnOpen \/ OnCmd PROVE TypeOK'
    BY <1>2, <1>11, <2>1
  <2>2. ASSUME NEW e \in Ends, OnClose(e) PROVE TypeOK'
    <3>1. OnClose(e) \/ (e = Host /\ (OnOpen \/ OnCmd))
      BY <2>2
    <3> QED
      BY ONLY <1>11, <3>1, e \in Ends
  <2> QED
    BY <1>10, <1>12, <1>16, <2>1, <2>2 DEF Thread
<1> QED
  BY <1>3, <1>4, <1>5, <1>13, <1>14, <1>15, <1>16 DEF Next, Step
-----------------------------------------------------------------------------
(* The ring is intact.                                                      *)

\* The initial state satisfies the invariant, and every step keeps it.
LEMMA PipeInductive ==
  ASSUME ~Signals, ~SkipInRead, Divides
  PROVE  /\ Init => PipeInv
         /\ PipeInv /\ [Next]_vars => PipeInv'
<1>1. ASSUME Init PROVE PipeInv
  <2>1. /\ wt = 0 /\ rd = 0 /\ buf = [i \in 0..(Size - 1) |-> 0] /\ sent = <<>>
        /\ pc = [t \in Threads |-> "out"]
    BY <1>1 DEF Init
  <2>2. TypeOK
    <3>1. "CMD" \in Messages
      BY DEF Messages
    <3>2. inbox \in [Ends -> Seq(Messages)]
      BY <1>1, <3>1 DEF Init
    <3>3. /\ state \in [Ends -> {"idle", "ready"}] /\ mask \in [Ends -> BOOLEAN]
          /\ lock \in [Ends -> Threads \union {NoOne}]
          /\ nonblock \in [Threads -> BOOLEAN] /\ left \in [Threads -> 0..MaxLen]
          /\ chunk \in [Threads -> Seq(Bytes)]
      BY <1>1, SbufAssumption DEF Init
    <3>4. /\ wt \in 0..(W - 1) /\ rd \in 0..(W - 1) /\ 0 \in Bytes
          /\ buf \in [0..(Size - 1) -> Bytes]
      BY <2>1, SbufAssumption DEF Bytes
    <3>5. client = "init" /\ stops \in 0..MaxStops /\ issued = 0 /\ stale = 0
      BY <1>1, SbufAssumption DEF Init
    <3> QED
      BY <2>1, <3>2, <3>3, <3>4, <3>5 DEF TypeOK, Messages
  <2>3. Used = 0 /\ Size \in Nat
    BY <2>1, SbufAssumption DEF Used
  <2>4. Held /\ Ring /\ Writing /\ Reading
    BY <2>1, <2>3 DEF Held, Ring, Writing, Reading, Threads
  <2> QED
    BY <2>2, <2>4 DEF PipeInv
<1>2. ASSUME PipeInv, [Next]_vars PROVE PipeInv'
  <2>1. CASE Next
    BY <1>2, <2>1, TypeStep, HeldStep, RingStep DEF PipeInv
  <2>2. CASE UNCHANGED vars
    <3>1. TypeOK'
      BY <1>2, <2>2 DEF PipeInv, TypeOK, vars, ring, hist, peerVars, threadVars
    <3>2. Held'
      BY <1>2, <2>2 DEF PipeInv, Held, EndOf, vars, threadVars
    <3>3. Still
      BY <2>2 DEF Still, vars, ring, hist, threadVars
    <3>4. Ring' /\ Writing' /\ Reading'
      BY <1>2, <3>3, StillKeeps DEF PipeInv
    <3> QED
      BY <3>1, <3>2, <3>4 DEF PipeInv
  <2> QED
    BY <1>2, <2>1, <2>2
<1> QED
  BY <1>1, <1>2

\* The invariant holds of every state of the program.
THEOREM PipeInvariant ==
  ASSUME ~Signals, ~SkipInRead, Divides
  PROVE  Spec => []PipeInv
BY PipeInductive, PTL DEF Spec

\* What lies between the pointers is what was written and neither read nor skipped.
LEMMA ContentIs ==
  ASSUME PipeInv
  PROVE  ContentIntact
<1>1. Used \in Nat /\ sent \in Seq(Bytes) /\ Len(sent) = Used
  BY UsedIs DEF PipeInv, TypeOK, Ptr, Ring
<1>2. \A i \in 1..Used : buf[(Slot(rd) + i - 1) % Size] = sent[i]
  BY DEF PipeInv, Ring, At
<1> DEFINE c == [i \in 1..Used |-> buf[(Slot(rd) + i - 1) % Size]]
           n == Used
<1>3. DOMAIN c = 1..n /\ \A i \in 1..n : c[i] = sent[i]
  BY <1>2
<1> HIDE DEF n
<1>4. sent = [i \in 1..n |-> sent[i]]
  BY <1>1 DEF n
<1>5. c = [i \in 1..n |-> sent[i]]
  BY <1>3 DEF n
<1> QED
  BY <1>4, <1>5 DEF Content, ContentIntact

\* The write pointer never gets more than the size of the ring ahead of the read
\* pointer, across every wrap, and no byte between them is lost, overwritten or
\* out of order, with any number of writers, readers, crashes, closes and removals.
THEOREM PipeIsIntact ==
  ASSUME ~Signals, ~SkipInRead, Divides
  PROVE  Spec => [](TypeOK /\ NoOverrun /\ ContentIntact)
<1>1. PipeInv => TypeOK /\ NoOverrun /\ ContentIntact
  BY ContentIs DEF PipeInv, Ring, NoOverrun, ContentIntact
<1> QED
  BY <1>1, PipeInvariant, PTL

-----------------------------------------------------------------------------
(* The ring implements the pipe.                                            *)

\* What a reader has taken out and not yet reported.
LEMMA DeliveredIs ==
  ASSUME Held, NEW t \in Readers, pc[t] = "notify"
  PROVE  Delivered = chunk[t]
<1> DEFINE R == {u \in Readers : pc[u] = "notify"}
<1>1. \A u \in R : u = t
  BY OneCopies, EndIs DEF Threads
<1>2. t \in R
  OBVIOUS
<1> QED
  BY <1>1, <1>2 DEF Delivered

\* A step that moves no reader into or out of the report delivers nothing new.
LEMMA SameDelivered ==
  ASSUME \A t \in Readers : /\ pc'[t] = "notify" <=> pc[t] = "notify"
                            /\ pc[t] = "notify" => chunk'[t] = chunk[t]
  PROVE  Delivered' = Delivered
<1> DEFINE R == {u \in Readers : pc[u] = "notify"}
           S == {u \in Readers : pc'[u] = "notify"}
<1>1. S = R
  OBVIOUS
<1>2. CASE R = {}
  BY <1>1, <1>2 DEF Delivered
<1>3. CASE R # {}
  <2> DEFINE c == CHOOSE t \in R : TRUE
  <2>1. c \in R
    BY <1>3
  <2>2. chunk'[c] = chunk[c]
    BY <2>1
  <2>3. Delivered = chunk[c]
    BY <1>3 DEF Delivered
  <2>4. Delivered' = chunk'[CHOOSE t \in S : TRUE]
    BY <1>1, <1>3 DEF Delivered
  <2> HIDE DEF R, S
  <2> QED
    BY <1>1, <2>2, <2>3, <2>4
<1> QED
  BY <1>2, <1>3

\* Every step is one of the pipe, or changes nothing of it.
LEMMA PipeStep ==
  ASSUME ~SkipInRead, Divides, PipeInv, PipeInv', Next
  PROVE  [Pipe!Next]_<<Content, Delivered>>
<1>1. Content = sent /\ Content' = sent'
  <2>1. ContentIntact
    BY ContentIs
  <2>2. ContentIntact'
    BY ContentIs, PTL
  <2> QED
    BY <2>1, <2>2 DEF ContentIntact
<1>2. ASSUME sent' = sent,
             \A t \in Readers : /\ pc'[t] = "notify" <=> pc[t] = "notify"
                                /\ pc[t] = "notify" => chunk'[t] = chunk[t]
      PROVE  UNCHANGED <<Content, Delivered>>
  BY <1>1, <1>2, SameDelivered
<1>3. ASSUME NEW t \in Threads, Call(t) \/ Lock(t) \/ Test(t) \/ SetMask(t) \/ Wait(t)
                                \/ Abort(t) \/ Fault(t) \/ Done(t)
      PROVE  UNCHANGED <<Content, Delivered>>
  <2>1. UNCHANGED <<sent, chunk>>
    BY <1>3 DEF Call, Lock, Test, SetMask, Wait, Abort, Fault, Done, hist
  <2>2. \E l \in {"lock", "out", "test", "none", "some", "enter", "wait", "asleep", "done"} :
           pc' = [pc EXCEPT ![t] = l]
    BY <1>3 DEF Call, Lock, Test, SetMask, Wait, Abort, Fault, Done, Stay, Leave, Goto
  <2>3. pc[t] # "notify"
    BY <1>3 DEF Call, Lock, Test, SetMask, Wait, Abort, Fault, Done
  <2>4. \A u \in Readers : pc'[u] = "notify" <=> pc[u] = "notify"
    BY <2>2, <2>3 DEF PipeInv, TypeOK, Threads
  <2> QED
    BY <1>2, <2>1, <2>4
<1>4. ASSUME NEW t \in Writers, WriteLoop(t) \/ WriteNotify(t)
      PROVE  UNCHANGED <<Content, Delivered>>
  <2>1. sent' = sent /\ t \notin Readers /\ t \in Threads
    BY <1>4, SbufAssumption DEF WriteLoop, WriteNotify, hist, Threads
  <2>2. \A u \in Readers : pc'[u] = pc[u] /\ chunk'[u] = chunk[u]
    BY <1>4, <2>1 DEF WriteLoop, WriteNotify, CopyIn, Goto, PipeInv, TypeOK, Threads
  <2> QED
    BY <1>2, <2>1, <2>2
<1>5. ASSUME NEW t \in Writers, WriteBump(t) PROVE Pipe!Put
  <2> DEFINE c == chunk[t]
  <2>1. sent' = sent \o c /\ t \notin Readers /\ t \in Threads /\ pc[t] = "bump"
    BY <1>5, SbufAssumption DEF WriteBump, Threads
  <2>2. c \in Seq(Bytes) /\ c # <<>> /\ sent \in Seq(Bytes)
    BY <2>1 DEF PipeInv, TypeOK, Writing
  <2>3. Delivered' = Delivered
    <3>1. \A u \in Readers : pc'[u] = pc[u] /\ chunk'[u] = chunk[u]
      BY <1>5, <2>1 DEF WriteBump, Goto, PipeInv, TypeOK, Threads
    <3> QED
      BY <3>1, SameDelivered
  <2>4. Len(sent') <= Size
    BY DEF PipeInv, Ring
  <2> HIDE DEF c
  <2>5. Len(sent') > Len(sent)
    BY <2>1, <2>2
  <2>6. SubSeq(sent', 1, Len(sent)) = sent
    BY <2>1, <2>2
  <2> QED
    BY <1>1, <2>3, <2>4, <2>5, <2>6 DEF Pipe!Put
<1>6. ASSUME NEW t \in Readers, ReadLoop(t) PROVE UNCHANGED <<Content, Delivered>>
  <2>1. sent' = sent /\ t \in Threads /\ pc[t] # "notify"
    BY <1>6 DEF ReadLoop, hist, Threads
  <2>2. \A u \in Readers : /\ pc'[u] = "notify" <=> pc[u] = "notify"
                           /\ pc[u] = "notify" => chunk'[u] = chunk[u]
    BY <1>6, <2>1 DEF ReadLoop, Goto, PipeInv, TypeOK, Threads
  <2> QED
    BY <1>2, <2>1, <2>2
<1>7. ASSUME NEW t \in Readers, ReadBump(t) PROVE Pipe!Get
  <2> DEFINE k == Len(chunk[t])
  <2>1. /\ pc[t] = "bump" /\ pc' = [pc EXCEPT ![t] = "notify"] /\ chunk' = chunk
        /\ sent' = SubSeq(sent, k + 1, Len(sent)) /\ t \in Threads
    BY <1>7 DEF ReadBump, Goto, Threads
  <2>2. Delivered = <<>>
    <3>1. \A u \in Readers : pc[u] # "notify"
      BY <2>1, OneCopies, EndIs DEF PipeInv, Threads
    <3> QED
      BY <3>1 DEF Delivered
  <2>3. Delivered' = chunk[t]
    <3>1. pc'[t] = "notify"
      BY <2>1 DEF PipeInv, TypeOK
    <3>2. \A u \in Readers : pc'[u] = "notify" => u = t
      BY <2>1, OneCopies, EndIs DEF PipeInv, TypeOK, Threads
    <3>3. {u \in Readers : pc'[u] = "notify"} = {t}
      BY <3>1, <3>2
    <3> QED
      BY <2>1, <3>3 DEF Delivered
  <2>4. /\ sent \in Seq(Bytes) /\ chunk[t] \in Seq(Bytes) /\ k \in 1..Len(sent)
        /\ \A i \in 1..k : chunk[t][i] = sent[i]
    BY <2>1 DEF PipeInv, TypeOK, Reading, Ring
  <2>5. chunk[t] = SubSeq(sent, 1, k)
    <3> DEFINE c == chunk[t]
    <3>1. c \in Seq(Bytes) /\ Len(c) = k /\ SubSeq(sent, 1, k) \in Seq(Bytes)
          /\ Len(SubSeq(sent, 1, k)) = k
      BY <2>4
    <3>2. \A i \in 1..k : c[i] = SubSeq(sent, 1, k)[i]
      BY <2>4
    <3> HIDE DEF c, k
    <3> QED
      BY <3>1, <3>2, SeqEqual DEF c
  <2> HIDE DEF k
  <2> QED
    BY <1>1, <2>1, <2>2, <2>3, <2>4, <2>5 DEF Pipe!Get
<1>8. ASSUME NEW t \in Readers, ReadNotify(t) PROVE Pipe!HandOver
  <2>1. /\ pc[t] = "notify" /\ pc' = [pc EXCEPT ![t] = "loop"] /\ sent' = sent
        /\ t \in Threads
    BY <1>8 DEF ReadNotify, Goto, hist, Threads
  <2>2. \A u \in Readers : pc'[u] # "notify"
    BY <2>1, OneCopies, EndIs DEF PipeInv, TypeOK, Threads
  <2>3. Delivered' = <<>>
    BY <2>2 DEF Delivered
  <2> QED
    BY <1>1, <2>1, <2>3 DEF Pipe!HandOver
<1>9. ASSUME NEW e \in Ends, OnEvent(e) PROVE UNCHANGED <<Content, Delivered>>
  <2>1. UNCHANGED <<sent, chunk>> /\ pc' = Woken({e})
    BY <1>9 DEF OnEvent, hist
  <2>2. \A u \in Readers : pc'[u] = "notify" <=> pc[u] = "notify"
    BY <2>1 DEF Woken, Threads
  <2> QED
    BY <1>2, <2>1, <2>2
<1>10. ASSUME OnCmd \/ ClientRecv \/ ClientStart PROVE UNCHANGED <<Content, Delivered>>
  <2>1. UNCHANGED <<sent, chunk, pc>>
    BY <1>10 DEF OnCmd, ClientRecv, ClientStart, hist, threadVars
  <2> QED
    BY <1>2, <2>1
<1>11. ASSUME OnOpen \/ \E e \in Ends : OnClose(e) PROVE [Pipe!Next]_<<Content, Delivered>>
  <2>1. UNCHANGED <<chunk, pc>> /\ sent' \in {sent, <<>>}
    BY <1>11 DEF OnOpen, OnClose, SkipOldData, threadVars
  <2>2. Delivered' = Delivered
    BY <2>1, SameDelivered
  <2> QED
    BY <1>1, <2>1, <2>2 DEF Pipe!Next, Pipe!Flush
<1>12. ASSUME NEW way \in Ways, ClientStop(way) PROVE [Pipe!Next]_<<Content, Delivered>>
  <2>1. sent' = sent
    BY <1>12 DEF ClientStop
  <2>2. CASE Client = "r"
    <3>1. \A u \in Readers : pc'[u] = "out"
      BY <1>12, <2>2, EndIs DEF ClientStop, ClientThread, Threads
    <3>2. Delivered' = <<>>
      BY <3>1 DEF Delivered
    <3> QED
      BY <1>1, <2>1, <3>2 DEF Pipe!Next, Pipe!HandOver
  <2>3. CASE Client # "r"
    <3>1. \A u \in Readers : ~ClientThread(u)
      BY <2>3, EndIs DEF ClientThread, Threads
    <3>2. \A u \in Readers : (pc'[u] = "notify" <=> pc[u] = "notify") /\ chunk'[u] = chunk[u]
      BY <1>12, <3>1 DEF ClientStop, Woken, Threads
    <3> QED
      BY <1>2, <2>1, <3>2
  <2> QED
    BY <2>2, <2>3
<1>13. ASSUME NEW t \in Threads, Copy(t) PROVE [Pipe!Next]_<<Content, Delivered>>
  <2>1. CASE t \in Writers /\ (WriteLoop(t) \/ WriteBump(t) \/ WriteNotify(t))
    BY <1>4, <1>5, <2>1 DEF Pipe!Next
  <2>2. CASE t \in Readers /\ (ReadLoop(t) \/ ReadBump(t) \/ ReadNotify(t))
    BY <1>6, <1>7, <1>8, <2>2 DEF Pipe!Next
  <2> QED
    BY <1>13, <2>1, <2>2 DEF Copy
<1>14. ASSUME Thread PROVE [Pipe!Next]_<<Content, Delivered>>
  BY <1>9, <1>10, <1>11, <1>14 DEF Thread
<1> QED
  BY <1>3, <1>10, <1>12, <1>13, <1>14 DEF Next, Step

\* Concurrent sbuf_write calls append whole chunks to a pipe of Size bytes, each
\* sbuf_read takes the oldest bytes out of it in order, and only a restart of the
\* client empties it.
THEOREM PipeIsImplemented ==
  ASSUME ~Signals, ~SkipInRead, Divides
  PROVE  Spec => PipeSpec
<1>1. Init => Pipe!Init
  <2> SUFFICES ASSUME Init PROVE Content = <<>> /\ Delivered = <<>>
    BY DEF Pipe!Init
  <2>1. sent = <<>> /\ \A t \in Readers : pc[t] = "out"
    BY DEF Init, Threads
  <2>2. Content = sent
    BY PipeInductive, ContentIs DEF ContentIntact
  <2>3. Delivered = <<>>
    BY <2>1 DEF Delivered
  <2> QED
    BY <2>1, <2>2, <2>3
<1>2. PipeInv /\ PipeInv' /\ [Next]_vars => [Pipe!Next]_<<Content, Delivered>>
  <2> SUFFICES ASSUME PipeInv, PipeInv', [Next]_vars
               PROVE  [Pipe!Next]_<<Content, Delivered>>
    OBVIOUS
  <2>1. CASE Next
    BY <2>1, PipeStep
  <2>2. CASE UNCHANGED vars
    <3>1. UNCHANGED Content
      BY <2>2 DEF Content, Used, Slot, vars, ring
    <3>2. UNCHANGED Delivered
      BY <2>2, SameDelivered DEF vars, threadVars
    <3> QED
      BY <3>1, <3>2
  <2> QED
    BY <2>1, <2>2
<1> QED
  BY <1>1, <1>2, PipeInvariant, PTL DEF Spec, PipeSpec, Pipe!Spec
-----------------------------------------------------------------------------
(* The lives of the client, when it never starts again before the host's    *)
(* thread has handled what the earlier life sent (~SlowHost).               *)

\* Message m is in the queue q; it is there at most once.
In(q, m) == \E i \in 1..Len(q) : q[i] = m
Once(q, m) == \A i, j \in 1..Len(q) : q[i] = m /\ q[j] = m => i = j

ToHost(m) == In(inbox[Host], m)
ToClient(m) == In(inbox[Client], m)

\* How far the client's start is, and what is under way between the ends then.
Opening ==
  client = "opening" =>
    /\ ~ToHost("CMD") /\ ~ToClient("DONE") /\ Once(inbox[Host], "OPEN")
    /\ IF ToHost("OPEN") THEN ~ToClient("OPEN") ELSE state[Host] = "idle"
Starting ==
  client = "init" =>
    /\ ~ToHost("OPEN") /\ Once(inbox[Host], "CMD")
    /\ IF ToHost("CMD") THEN ~ToClient("DONE") /\ state[Host] = "idle"
                        ELSE state[Host] = "ready"
Up == client = "up" => ~ToHost("OPEN") /\ ~ToHost("CMD") /\ state[Host] = "ready"
NotThere ==
  /\ Away => inbox[Client] = <<>>
  /\ ~Away => ~ToHost("CLOSE") /\ ~ToClient("CLOSE")
Talk == Opening /\ Starting /\ Up /\ NotThere

\* Only a client that is up makes calls.
Calls ==
  /\ state[Client] = "ready" => client = "up"
  /\ \A t \in Threads : ClientThread(t) /\ client # "up" => pc[t] = "out"

\* While the device is gone, the sbuf is not made idle once more under a sleeper.
Removed ==
  client = "gone" =>
    /\ ~ToHost("CLOSE") /\ (ToHost("OPEN") => state[Host] = "idle" /\ ~ToHost("CMD"))
    /\ state[Host] = "idle" => \A t \in Threads : ~ClientThread(t) => pc[t] # "asleep"

LifeInv == Talk /\ Calls /\ Removed

\* The ring holds nothing while the host is idle, and nothing of an earlier life
\* once the host has handled the OPEN of this one.
Fresh ==
  /\ stale <= issued
  /\ state[Host] = "idle" => sent = <<>>
  /\ ~Away /\ ~ToHost("OPEN") => \A i \in 1..Len(sent) : sent[i] > stale
  /\ \A t \in Writers : pc[t] = "bump" => \A i \in 1..Len(chunk[t]) : chunk[t][i] > stale
\* What is in a queue after its first message is taken.
LEMMA QueueTail ==
  ASSUME NEW q \in Seq(Messages), q # <<>>
  PROVE  /\ In(q, Head(q))
         /\ \A m : In(Tail(q), m) => In(q, m)
         /\ \A m : In(q, m) /\ m # Head(q) => In(Tail(q), m)
         /\ \A m : Once(q, m) => Once(Tail(q), m) /\ (m = Head(q) => ~In(Tail(q), m))
<1> DEFINE s == Tail(q)
<1>1. /\ Len(q) \in Nat \ {0} /\ Len(s) = Len(q) - 1 /\ Head(q) = q[1]
      /\ \A i \in 1..Len(s) : i + 1 \in 1..Len(q) /\ s[i] = q[i + 1]
  OBVIOUS
<1> HIDE DEF s
<1>2. \A i \in 2..Len(q) : i - 1 \in 1..Len(s) /\ s[i - 1] = q[i]
  BY <1>1
<1>3. In(q, Head(q))
  BY <1>1 DEF In
<1>4. \A m : In(s, m) => In(q, m)
  BY <1>1 DEF In
<1>5. \A m : In(q, m) /\ m # Head(q) => In(s, m)
  BY <1>1, <1>2 DEF In
<1>6. ASSUME NEW m, Once(q, m)
      PROVE  Once(s, m) /\ (m = Head(q) => ~In(s, m))
  <2>1. Once(s, m)
    BY <1>1, <1>6 DEF Once
  <2>2. ASSUME m = Head(q), NEW i \in 1..Len(s), s[i] = m PROVE FALSE
    <3>1. q[i + 1] = m /\ q[1] = m /\ 1 \in 1..Len(q) /\ i + 1 # 1
      BY <1>1, <2>2
    <3> QED
      BY <1>1, <1>6, <3>1 DEF Once
  <2> QED
    BY <2>1, <2>2 DEF In
<1> QED
  BY <1>3, <1>4, <1>5, <1>6 DEF s

\* What is in a queue after a message is appended.
LEMMA QueueAppend ==
  ASSUME NEW q \in Seq(Messages), NEW x \in Messages
  PROVE  /\ \A m : In(Append(q, x), m) <=> (In(q, m) \/ m = x)
         /\ \A m : Once(q, m) /\ (m # x \/ ~In(q, m)) => Once(Append(q, x), m)
<1> DEFINE s == Append(q, x)
<1>1. /\ Len(q) \in Nat /\ Len(s) = Len(q) + 1 /\ s[Len(q) + 1] = x
      /\ \A i \in 1..Len(q) : s[i] = q[i]
  OBVIOUS
<1> HIDE DEF s
<1>2. \A i \in 1..Len(s) : i \in 1..Len(q) \/ i = Len(q) + 1
  BY <1>1
<1>3. \A m : In(s, m) => In(q, m) \/ m = x
  BY <1>1, <1>2 DEF In
<1>4. \A m : In(q, m) \/ m = x => In(s, m)
  <2>1. \A i \in 1..Len(q) : i \in 1..Len(s)
    BY <1>1
  <2>2. Len(q) + 1 \in 1..Len(s)
    BY <1>1
  <2> QED
    BY <1>1, <2>1, <2>2 DEF In
<1>5. ASSUME NEW m, Once(q, m), m # x \/ ~In(q, m) PROVE Once(s, m)
  <2> SUFFICES ASSUME NEW i \in 1..Len(s), NEW j \in 1..Len(s), s[i] = m, s[j] = m
               PROVE  i = j
    BY DEF Once
  <2>1. CASE m # x
    BY <1>1, <1>2, <1>5, <2>1 DEF Once
  <2>2. CASE ~In(q, m)
    <3>1. i = Len(q) + 1 /\ j = Len(q) + 1
      BY <1>1, <1>2, <2>2 DEF In
    <3> QED
      BY <3>1
  <2> QED
    BY <1>5, <2>1, <2>2
<1> QED
  BY <1>3, <1>4, <1>5 DEF s

\* The empty queue.
LEMMA QueueEmpty == \A m : ~In(<<>>, m) /\ Once(<<>>, m)
BY DEF In, Once

\* The two ends, and what they find in their queues.
LEMMA TwoEnds ==
  /\ Host \in Ends /\ Client \in Ends /\ Client # Host
  /\ Other(Host) = Client /\ Other(Client) = Host
  /\ \A e \in Ends : e = Host \/ e = Client
  /\ TypeOK => inbox \in [Ends -> Seq(Messages)]
BY SbufAssumption DEF Ends, Client, Other, TypeOK, Messages

\* What taking a message and answering it does to the two queues.
LEMMA ReplyIs ==
  ASSUME TypeOK, NEW e \in Ends, NEW m \in Messages
  PROVE  /\ Taken(e)[e] = Tail(inbox[e])
         /\ Taken(e)[Other(e)] = inbox[Other(e)]
         /\ Reply(e, m)[e] = Tail(inbox[e])
         /\ Reply(e, m)[Other(e)] = IF e = Host /\ Away THEN inbox[Other(e)]
                                    ELSE Append(inbox[Other(e)], m)
         /\ Sent(e, m)[e] = IF e = Client /\ Away THEN inbox[e] ELSE Append(inbox[e], m)
         /\ Sent(e, m)[Other(e)] = inbox[Other(e)]
<1>1. inbox \in [Ends -> Seq(Messages)] /\ Other(e) \in Ends /\ Other(e) # e
  BY TwoEnds DEF Other, Ends
<1>2. Taken(e)[e] = Tail(inbox[e]) /\ Taken(e)[Other(e)] = inbox[Other(e)]
      /\ DOMAIN Taken(e) = Ends
  BY <1>1 DEF Taken
<1>3. /\ Reply(e, m)[e] = Tail(inbox[e])
      /\ Reply(e, m)[Other(e)] = IF e = Host /\ Away THEN inbox[Other(e)]
                                 ELSE Append(inbox[Other(e)], m)
  BY <1>1, <1>2 DEF Reply
<1>4. /\ Sent(e, m)[e] = IF e = Client /\ Away THEN inbox[e] ELSE Append(inbox[e], m)
      /\ Sent(e, m)[Other(e)] = inbox[Other(e)]
  BY <1>1 DEF Sent
<1> QED
  BY <1>2, <1>3, <1>4

Turns == {"OPEN", "CLOSE", "CMD", "DONE"}

\* A step that neither moves the lives of the ends on nor adds or takes a message
\* about them.
Calm ==
  /\ UNCHANGED <<client, state>>
  /\ \A e \in Ends, m \in Turns : /\ In(inbox'[e], m) <=> In(inbox[e], m)
                                  /\ Once(inbox[e], m) => Once(inbox'[e], m)
  /\ inbox[Client] = <<>> /\ Away => inbox'[Client] = <<>>

\* Such a step keeps what is known of the lives.
LEMMA CalmKeeps ==
  ASSUME Talk, Calm
  PROVE  Talk'
BY TwoEnds DEF Talk, Opening, Starting, Up, NotThere, Calm, ToHost, ToClient, Away, Turns

\* An event is sent or handled calmly.
LEMMA EventCalm ==
  ASSUME TypeOK, NEW e \in Ends, UNCHANGED <<client, state>>,
         \/ inbox' = inbox
         \/ inbox' = Sent(e, "WRPTR") \/ inbox' = Sent(e, "RDPTR")
         \/ inbox[e] # <<>> /\ Head(inbox[e]) \notin Turns /\ inbox' = Taken(e)
  PROVE  Calm
<1>1. CASE inbox' = inbox
  BY <1>1 DEF Calm
<1>2. ASSUME NEW x \in {"WRPTR", "RDPTR"}, inbox' = Sent(e, x) PROVE Calm
  <2>1. x \in Messages /\ x \notin Turns
    BY DEF Messages, Turns
  <2>2. /\ inbox'[e] = IF e = Client /\ Away THEN inbox[e] ELSE Append(inbox[e], x)
        /\ inbox'[Other(e)] = inbox[Other(e)]
    BY <1>2, <2>1, ReplyIs
  <2>3. /\ inbox[e] \in Seq(Messages) /\ \A f \in Ends : f = e \/ f = Other(e)
    BY TwoEnds DEF Ends, Other
  <2>4. \A m \in Turns : /\ In(inbox'[e], m) <=> In(inbox[e], m)
                         /\ Once(inbox[e], m) => Once(inbox'[e], m)
    BY <2>1, <2>2, <2>3, QueueAppend
  <2>5. inbox[Client] = <<>> /\ Away => inbox'[Client] = <<>>
    BY <2>2, <2>3, TwoEnds
  <2> QED
    BY <2>2, <2>3, <2>4, <2>5 DEF Calm
<1>3. CASE inbox[e] # <<>> /\ Head(inbox[e]) \notin Turns /\ inbox' = Taken(e)
  <2>1. /\ inbox'[e] = Tail(inbox[e]) /\ inbox'[Other(e)] = inbox[Other(e)]
    BY <1>3, ReplyIs DEF Messages
  <2>2. /\ inbox[e] \in Seq(Messages) /\ \A f \in Ends : f = e \/ f = Other(e)
    BY TwoEnds DEF Ends, Other
  <2>3. \A m \in Turns : /\ In(inbox'[e], m) <=> In(inbox[e], m)
                         /\ Once(inbox[e], m) => Once(inbox'[e], m)
    BY <1>3, <2>1, <2>2, QueueTail
  <2>4. inbox[Client] = <<>> /\ Away => inbox'[Client] = <<>>
    BY <1>3, <2>1, <2>2, TwoEnds
  <2> QED
    BY <2>1, <2>2, <2>3, <2>4 DEF Calm
<1> QED
  BY <1>1, <1>2, <1>3
\* A calm step in which only callers of an end that is ready begin a call or fall
\* asleep keeps the lives.
LEMMA CallersKeep ==
  ASSUME TypeOK, LifeInv, Calm,
         \A t \in Threads :
            /\ pc'[t] # "out" => pc[t] # "out" \/ state[EndOf(t)] = "ready"
            /\ pc'[t] = "asleep" => pc[t] = "asleep" \/ state[EndOf(t)] = "ready"
  PROVE  LifeInv'
<1>1. Talk'
  BY CalmKeeps DEF LifeInv
<1>2. Calls'
  BY DEF LifeInv, Calls, Calm, ClientThread
<1>3. Removed'
  <2>1. \A t \in Threads : ~ClientThread(t) => EndOf(t) = Host
    BY EndIs, TwoEnds DEF ClientThread
  <2> QED
    BY <2>1, TwoEnds DEF LifeInv, Removed, Calm, ToHost, Turns, ClientThread
<1> QED
  BY <1>1, <1>2, <1>3 DEF LifeInv

\* A step of the program keeps what is known of the lives.
LEMMA LifeStep ==
  ASSUME ~SlowHost, TypeOK, LifeInv, Next
  PROVE  LifeInv'
<1> DEFINE H == inbox[Host]
           C == inbox[Client]
<1>1. H \in Seq(Messages) /\ C \in Seq(Messages)
  BY TwoEnds
<1>2. ASSUME NEW t \in Threads, Call(t) \/ Step(t) \/ Abort(t) \/ Fault(t) PROVE LifeInv'
  <2>1. CASE Call(t)
    <3>1. Calm
      BY <2>1, TwoEnds, EventCalm DEF Call, peerVars
    <3> QED
      BY <2>1, <3>1, CallersKeep DEF Call, Goto, TypeOK
  <2>2. CASE Lock(t) \/ Test(t) \/ SetMask(t) \/ Wait(t) \/ Done(t) \/ Abort(t) \/ Fault(t)
    <3>1. inbox' = inbox /\ UNCHANGED <<client, state>> /\ pc[t] # "out"
      BY <2>2 DEF Lock, Test, SetMask, Wait, Done, Abort, Fault, peerVars
    <3>2. Calm
      BY <3>1, TwoEnds, EventCalm
    <3>3. \E l \in Places : pc' = [pc EXCEPT ![t] = l]
                            /\ (l = "asleep" => state[EndOf(t)] = "ready")
      <4>1. EndOf(t) \in Ends
        BY EndIs
      <4> QED
        BY <2>2, <4>1 DEF Lock, Test, SetMask, Wait, Done, Abort, Fault, Goto, Stay, Leave,
                          Places, TypeOK
    <3> QED
      BY <3>1, <3>2, <3>3, CallersKeep DEF TypeOK
  <2>3. CASE Copy(t)
    <3>1. /\ UNCHANGED <<client, state>> /\ pc[t] # "out"
          /\ inbox' = inbox \/ inbox' = Sent("r", "WRPTR") \/ inbox' = Sent("w", "RDPTR")
      BY <2>3 DEF Copy, WriteLoop, WriteBump, WriteNotify, ReadLoop, ReadBump, ReadNotify,
                  peerVars
    <3>2. Calm
      BY <3>1, EventCalm DEF Ends
    <3>3. \E l \in {"bump", "done", "notify", "loop"} : pc' = [pc EXCEPT ![t] = l]
      BY <2>3 DEF Copy, WriteLoop, WriteBump, WriteNotify, ReadLoop, ReadBump, ReadNotify,
                  CopyIn, Goto
    <3> QED
      BY <3>1, <3>2, <3>3, CallersKeep DEF TypeOK
  <2> QED
    BY <1>2, <2>1, <2>2, <2>3 DEF Step
<1>3. ASSUME NEW e \in Ends, OnEvent(e) PROVE LifeInv'
  <2>1. /\ UNCHANGED <<client, state>> /\ inbox' = Taken(e) /\ inbox[e] # <<>>
        /\ Head(inbox[e]) \notin Turns /\ pc' = Woken({e})
    BY <1>3 DEF OnEvent, Head1, peerVars, Turns
  <2>2. Calm
    BY <2>1, EventCalm
  <2> QED
    BY <2>1, <2>2, CallersKeep DEF Woken
<1>4. ASSUME OnOpen PROVE LifeInv'
  <2>1. /\ H # <<>> /\ Head(H) = "OPEN" /\ client' = client /\ pc' = pc
        /\ state' = [state EXCEPT ![Host] = "idle"] /\ inbox' = Reply(Host, "OPEN")
    BY <1>4 DEF OnOpen, Head1, peerVars, threadVars
  <2>2. /\ inbox'[Host] = Tail(H)
        /\ inbox'[Client] = IF Away THEN C ELSE Append(C, "OPEN")
    BY <2>1, ReplyIs, TwoEnds DEF Messages
  <2>3. state'[Host] = "idle" /\ state'[Client] = state[Client]
    BY <2>1, TwoEnds DEF TypeOK
  <2>4. ToHost("OPEN") /\ client \notin {"init", "up"}
    BY <1>1, <2>1, QueueTail DEF ToHost, LifeInv, Talk, Starting, Up
  <2>5. \A m : In(Tail(H), m) => ToHost(m)
    BY <1>1, <2>1, QueueTail DEF ToHost
  <2>6. Once(H, "OPEN") => ~In(Tail(H), "OPEN") /\ Once(Tail(H), "OPEN")
    BY <1>1, <2>1, QueueTail
  <2>7. \A m : In(Append(C, "OPEN"), m) <=> (ToClient(m) \/ m = "OPEN")
    BY <1>1, QueueAppend DEF ToClient, Messages
  <2>8. Talk'
    BY <2>1, <2>2, <2>3, <2>4, <2>5, <2>6, <2>7
    DEF LifeInv, Talk, Opening, Starting, Up, NotThere, ToHost, ToClient, Away
  <2>9. Calls'
    BY <2>1, <2>3 DEF LifeInv, Calls, ClientThread
  <2>10. Removed'
    <3>1. client = "gone" => state[Host] = "idle"
      BY <2>4 DEF LifeInv, Removed
    <3> QED
      BY <2>1, <2>2, <2>3, <2>5, <3>1 DEF LifeInv, Removed, ToHost, ClientThread
  <2> QED
    BY <2>8, <2>9, <2>10 DEF LifeInv
<1>5. ASSUME OnCmd PROVE LifeInv'
  <2>1. /\ H # <<>> /\ Head(H) = "CMD" /\ client' = client /\ pc' = pc
        /\ state' = [state EXCEPT ![Host] = "ready"]
        /\ inbox' = IF state[Host] = "idle" THEN Reply(Host, "DONE") ELSE Taken(Host)
    BY <1>5 DEF OnCmd, Head1, peerVars, threadVars
  <2>2. /\ inbox'[Host] = Tail(H)
        /\ inbox'[Client] = IF Away \/ state[Host] # "idle" THEN C ELSE Append(C, "DONE")
    <3>1. /\ Taken(Host)[Host] = Tail(H) /\ Taken(Host)[Client] = C
          /\ Reply(Host, "DONE")[Host] = Tail(H)
          /\ Reply(Host, "DONE")[Client] = IF Away THEN C ELSE Append(C, "DONE")
      BY ReplyIs, TwoEnds DEF Messages
    <3> QED
      BY <2>1, <3>1
  <2>3. state'[Host] = "ready" /\ state'[Client] = state[Client]
    BY <2>1, TwoEnds DEF TypeOK
  <2>4. ToHost("CMD") /\ client \notin {"opening", "up"}
    BY <1>1, <2>1, QueueTail DEF ToHost, LifeInv, Talk, Opening, Up
  <2>5. \A m : In(Tail(H), m) => ToHost(m)
    BY <1>1, <2>1, QueueTail DEF ToHost
  <2>6. Once(H, "CMD") => ~In(Tail(H), "CMD") /\ Once(Tail(H), "CMD")
    BY <1>1, <2>1, QueueTail
  <2>7. \A m : In(Append(C, "DONE"), m) <=> (ToClient(m) \/ m = "DONE")
    BY <1>1, QueueAppend DEF ToClient, Messages
  <2>8. Talk'
    BY <2>1, <2>2, <2>3, <2>4, <2>5, <2>6, <2>7
    DEF LifeInv, Talk, Opening, Starting, Up, NotThere, ToHost, ToClient, Away
  <2>9. Calls'
    BY <2>1, <2>3 DEF LifeInv, Calls, ClientThread
  <2>10. Removed'
    BY <2>1, <2>2, <2>3, <2>4, <2>5 DEF LifeInv, Removed, ToHost, ClientThread
  <2> QED
    BY <2>8, <2>9, <2>10 DEF LifeInv
<1>6. ASSUME NEW e \in Ends, OnClose(e) PROVE LifeInv'
  <2>1. inbox[e] # <<>> /\ Head(inbox[e]) = "CLOSE"
    BY <1>6 DEF OnClose, Head1
  <2>2. In(inbox[e], "CLOSE")
    BY <2>1, TwoEnds, QueueTail
  <2>3. e = Host /\ Away /\ ToHost("CLOSE")
    BY <1>6, <2>2, TwoEnds DEF LifeInv, Talk, NotThere, ToHost, ToClient, OnClose, EventAt, Away
  <2>4. /\ client' = client /\ pc' = pc
        /\ state' = [state EXCEPT ![Host] = "idle"] /\ inbox' = Taken(Host)
    BY <1>6, <2>3 DEF OnClose, peerVars, threadVars, Reply
  <2>5. inbox'[Host] = Tail(H) /\ inbox'[Client] = C
    BY <2>4, ReplyIs, TwoEnds DEF Messages
  <2>6. state'[Client] = state[Client]
    BY <2>4, TwoEnds DEF TypeOK
  <2>7. client # "gone"
    BY <2>3 DEF LifeInv, Removed
  <2>8. Talk'
    BY <2>3, <2>4, <2>5 DEF LifeInv, Talk, Opening, Starting, Up, NotThere, Away
  <2>9. Calls'
    BY <2>4, <2>6 DEF LifeInv, Calls, ClientThread
  <2>10. Removed'
    BY <2>4, <2>7 DEF Removed
  <2> QED
    BY <2>8, <2>9, <2>10 DEF LifeInv
<1>7. ASSUME ClientRecv PROVE LifeInv'
  <2>1. ~Away /\ C # <<>> /\ pc' = pc
    BY <1>7 DEF ClientRecv, threadVars
  <2>2. \A m : In(Tail(C), m) => ToClient(m)
    BY <1>1, <2>1, QueueTail DEF ToClient
  <2>3. \A m : ToClient(m) /\ m # Head(C) => In(Tail(C), m)
    BY <1>1, <2>1, QueueTail DEF ToClient
  <2>4. ToClient(Head(C))
    BY <1>1, <2>1, QueueTail DEF ToClient
  <2>5. CASE client = "opening" /\ Head1(Client, "OPEN")
    <3>1. /\ client' = "init" /\ state' = state
          /\ inbox' = [Taken(Client) EXCEPT ![Host] = Append(@, "CMD")]
      BY <1>7, <2>5 DEF ClientRecv
    <3>2. inbox'[Client] = Tail(C) /\ inbox'[Host] = Append(H, "CMD")
      <4>1. /\ Taken(Client)[Client] = Tail(C) /\ Taken(Client)[Host] = H
            /\ DOMAIN Taken(Client) = Ends
        BY ReplyIs, TwoEnds DEF Messages, Taken
      <4> QED
        BY <3>1, <4>1, TwoEnds
    <3>3. /\ \A m : In(Append(H, "CMD"), m) <=> (ToHost(m) \/ m = "CMD")
          /\ ~ToHost("CMD") /\ Once(H, "CMD") => Once(Append(H, "CMD"), "CMD")
      BY <1>1, QueueAppend DEF ToHost, Messages
    <3>4. ~ToHost("OPEN") /\ ~ToHost("CMD") /\ ~ToClient("DONE") /\ state[Host] = "idle"
      BY <2>4, <2>5 DEF LifeInv, Talk, Opening, Head1
    <3>5. Once(H, "CMD")
      BY <3>4 DEF Once, ToHost, In
    <3>6. Talk'
      BY <2>1, <2>2, <3>1, <3>2, <3>3, <3>4, <3>5
      DEF LifeInv, Talk, Opening, Starting, Up, NotThere, ToHost, ToClient, Away
    <3>7. Calls' /\ Removed'
      BY <2>1, <2>5, <3>1 DEF LifeInv, Calls, Removed, ClientThread
    <3> QED
      BY <3>6, <3>7 DEF LifeInv
  <2>6. CASE client = "init" /\ Head1(Client, "DONE")
    <3>1. /\ client' = "up" /\ state' = [state EXCEPT ![Client] = "ready"]
          /\ inbox' = Taken(Client)
      BY <1>7, <2>6 DEF ClientRecv
    <3>2. inbox'[Client] = Tail(C) /\ inbox'[Host] = H /\ state'[Host] = state[Host]
      BY <3>1, ReplyIs, TwoEnds DEF Messages, TypeOK
    <3>3. ~ToHost("OPEN") /\ ~ToHost("CMD") /\ state[Host] = "ready"
      BY <2>4, <2>6 DEF LifeInv, Talk, Starting, Head1
    <3>4. Talk'
      BY <2>1, <2>2, <3>1, <3>2, <3>3
      DEF LifeInv, Talk, Opening, Starting, Up, NotThere, ToHost, ToClient, Away
    <3>5. Calls' /\ Removed'
      BY <3>1 DEF Calls, Removed
    <3> QED
      BY <3>4, <3>5 DEF LifeInv
  <2>7. CASE ~(client = "opening" /\ Head1(Client, "OPEN"))
             /\ ~(client = "init" /\ Head1(Client, "DONE"))
    <3>1. UNCHANGED <<client, state>> /\ inbox' = Taken(Client)
      BY <1>7, <2>7 DEF ClientRecv
    <3>2. inbox'[Client] = Tail(C) /\ inbox'[Host] = H
      BY <3>1, ReplyIs, TwoEnds DEF Messages
    <3>3. Talk'
      BY <2>1, <2>2, <3>1, <3>2
      DEF LifeInv, Talk, Opening, Starting, Up, NotThere, ToHost, ToClient, Away
    <3>4. Calls' /\ Removed'
      BY <2>1, <3>1, <3>2 DEF LifeInv, Calls, Removed, ClientThread, Away
    <3> QED
      BY <3>3, <3>4 DEF LifeInv
  <2> QED
    BY <2>5, <2>6, <2>7
<1>8. ASSUME NEW way \in Ways, ClientStop(way) PROVE LifeInv'
  <2>1. /\ ~Away /\ client' = IF way = "remove" THEN "gone" ELSE "off"
        /\ inbox'[Client] = <<>>
        /\ inbox'[Host] = IF way = "close" THEN Append(H, "CLOSE") ELSE H
    BY <1>8, TwoEnds DEF ClientStop
  <2>2. /\ state'[Client] = "idle"
        /\ way = "remove" => state'[Host] = "idle"
    BY <1>8, TwoEnds DEF ClientStop
  <2>3. \A t \in Threads : ClientThread(t) => pc'[t] = "out"
    BY <1>8 DEF ClientStop
  <2>4. Talk'
    BY <2>1 DEF Talk, Opening, Starting, Up, NotThere, Away
  <2>5. Calls'
    BY <2>1, <2>2, <2>3 DEF Calls, ClientThread
  <2>6. Removed'
    <3> SUFFICES ASSUME way = "remove" PROVE Removed'
      BY <2>1 DEF Removed
    <3>1. \A t \in Threads : ~ClientThread(t) => pc'[t] # "asleep"
      <4>1. \A t \in Threads : ~ClientThread(t) => EndOf(t) = Host
        BY EndIs, TwoEnds DEF ClientThread
      <4> QED
        BY <1>8, <4>1 DEF ClientStop, Woken
    <3>2. ~ToHost("CLOSE") /\ (ToHost("OPEN") => ~ToHost("CMD"))
      BY <2>1 DEF LifeInv, Talk, NotThere, Opening, Starting, Up, Away, TypeOK
    <3> QED
      BY <2>1, <2>2, <3>1, <3>2 DEF Removed, ToHost, ClientThread
  <2> QED
    BY <2>4, <2>5, <2>6 DEF LifeInv
<1>9. ASSUME ClientStart PROVE LifeInv'
  <2>1. /\ Away /\ H = <<>> /\ client' = "opening" /\ UNCHANGED <<state, pc>>
        /\ inbox' = [inbox EXCEPT ![Host] = Append(@, "OPEN")]
    BY <1>9 DEF ClientStart, threadVars
  <2>2. inbox'[Host] = Append(<<>>, "OPEN") /\ inbox'[Client] = C /\ C = <<>>
    BY <2>1, TwoEnds DEF LifeInv, Talk, NotThere
  <2>3. /\ \A m : In(inbox'[Host], m) <=> m = "OPEN"
        /\ Once(inbox'[Host], "OPEN") /\ \A m : ~In(inbox'[Client], m)
    <3>1. <<>> \in Seq(Messages) /\ "OPEN" \in Messages
      BY DEF Messages
    <3> DEFINE q == <<>>
    <3>2. q \in Seq(Messages) /\ \A m : ~In(q, m) /\ Once(q, m)
      BY <3>1, QueueEmpty
    <3> HIDE DEF q
    <3>3. /\ \A m : In(Append(q, "OPEN"), m) <=> (In(q, m) \/ m = "OPEN")
          /\ \A m : Once(q, m) /\ (m # "OPEN" \/ ~In(q, m)) => Once(Append(q, "OPEN"), m)
      BY <3>1, <3>2, QueueAppend
    <3>4. inbox'[Host] = Append(q, "OPEN") /\ inbox'[Client] = q
      BY <2>2 DEF q
    <3> QED
      BY <3>2, <3>3, <3>4
  <2>4. Talk'
    BY <2>1, <2>3
    DEF LifeInv, Talk, Opening, Starting, Up, NotThere, ToHost, ToClient, Away
  <2>5. Calls' /\ Removed'
    BY <2>1 DEF LifeInv, Calls, Removed, ClientThread, Away
  <2> QED
    BY <2>4, <2>5 DEF LifeInv
<1> QED
  BY <1>2, <1>3, <1>4, <1>5, <1>6, <1>7, <1>8, <1>9 DEF Next, Thread
\* The initial state is one of a client that is starting.
LEMMA LifeInit ==
  ASSUME Init
  PROVE  LifeInv
<1>1. /\ inbox[Host] = <<"CMD">> /\ inbox[Client] = <<>> /\ client = "init"
      /\ state[Host] = "idle" /\ state[Client] = "idle" /\ \A t \in Threads : pc[t] = "out"
  BY TwoEnds DEF Init
<1>2. \A m : ToHost(m) <=> m = "CMD"
  BY <1>1 DEF ToHost, In
<1>3. \A m : ~ToClient(m)
  BY <1>1 DEF ToClient, In
<1>4. Once(inbox[Host], "CMD")
  BY <1>1 DEF Once
<1> QED
  BY <1>1, <1>2, <1>3, <1>4
  DEF LifeInv, Talk, Opening, Starting, Up, NotThere, Calls, Removed, Away

\* What is known of the lives holds of every state of the program.
THEOREM LifeInvariant ==
  ASSUME ~Signals, ~SkipInRead, ~SlowHost, Divides
  PROVE  Spec => []LifeInv
<1>1. Init => LifeInv
  BY LifeInit
<1>2. PipeInv /\ LifeInv /\ [Next]_vars => LifeInv'
  <2> SUFFICES ASSUME PipeInv, LifeInv, [Next]_vars PROVE LifeInv'
    OBVIOUS
  <2>1. CASE Next
    BY <2>1, LifeStep DEF PipeInv
  <2>2. CASE UNCHANGED vars
    <3>1. UNCHANGED <<inbox, client, state, pc>>
      BY <2>2 DEF vars, peerVars, threadVars
    <3>2. Calm
      BY <3>1 DEF Calm
    <3> QED
      BY <3>1, <3>2, CallersKeep DEF PipeInv
  <2> QED
    BY <2>1, <2>2
<1> QED
  BY <1>1, <1>2, PipeInvariant, PTL DEF Spec

\* While the device is gone, nobody sleeps in a call on the sbuf that sbuf_down made
\* idle, however often the client stopped and came back before.
THEOREM RemovalReleases ==
  ASSUME ~Signals, ~SkipInRead, ~SlowHost, Divides
  PROVE  Spec => []DownReleases
<1>1. LifeInv => DownReleases
  <2> SUFFICES ASSUME LifeInv, client = "gone", NEW t \in Threads, state[EndOf(t)] = "idle"
               PROVE  pc[t] # "asleep"
    BY DEF DownReleases
  <2>1. CASE ClientThread(t)
    BY <2>1 DEF LifeInv, Calls
  <2>2. CASE ~ClientThread(t)
    <3>1. EndOf(t) = Host
      BY <2>2, EndIs, TwoEnds DEF ClientThread
    <3> QED
      BY <2>2, <3>1 DEF LifeInv, Removed
  <2> QED
    BY <2>1, <2>2
<1> QED
  BY <1>1, LifeInvariant, PTL

-----------------------------------------------------------------------------
(* What the host reads is of this life of the client.                       *)

\* A step that takes nothing from and adds nothing to the ring, the copies and the
\* messages about lives keeps what the ring holds fresh.
LEMMA CalmFresh ==
  ASSUME Fresh, TypeOK, Calm, UNCHANGED <<sent, stale, issued>>,
         \A t \in Writers : pc'[t] = "bump" => pc[t] = "bump" /\ chunk'[t] = chunk[t]
  PROVE  Fresh'
<1>1. UNCHANGED <<client, state>> /\ (ToHost("OPEN")' <=> ToHost("OPEN"))
  BY TwoEnds DEF Calm, ToHost, Turns
<1> QED
  BY <1>1 DEF Fresh, Away

\* A step of the program keeps what the ring holds fresh, unless the device of the
\* client is removed.
LEMMA FreshStep ==
  ASSUME ~SkipInRead, Host = "r", "remove" \notin Ways, Divides,
         PipeInv, LifeInv, Fresh, client # "gone", Next
  PROVE  Fresh' /\ client' # "gone"
<1>0. /\ Client = "w" /\ TypeOK /\ issued \in Nat /\ stale \in Nat /\ sent \in Seq(Bytes)
      /\ \A t \in Writers : t \in Threads /\ ClientThread(t) /\ t \notin Readers
  BY EndIs DEF Client, Other, PipeInv, TypeOK, Bytes, ClientThread, Threads
<1>1. ASSUME NEW t \in Threads, Call(t) \/ Lock(t) \/ Test(t) \/ SetMask(t) \/ Wait(t)
                                \/ Abort(t) \/ Fault(t) \/ Done(t)
      PROVE  Fresh' /\ client' = client
  <2>1. UNCHANGED <<sent, stale, issued, chunk, inbox, client, state>>
    BY <1>1 DEF Call, Lock, Test, SetMask, Wait, Abort, Fault, Done, hist, peerVars
  <2>2. \E l \in {"lock", "out", "test", "none", "some", "enter", "wait", "asleep", "done"} :
           pc' = [pc EXCEPT ![t] = l]
    BY <1>1 DEF Call, Lock, Test, SetMask, Wait, Abort, Fault, Done, Stay, Leave, Goto
  <2>3. Calm
    BY <2>1 DEF Calm
  <2>4. \A u \in Writers : pc'[u] = "bump" => pc[u] = "bump"
    BY <1>0, <2>2 DEF TypeOK
  <2> QED
    BY <1>0, <2>1, <2>3, <2>4, CalmFresh
<1>2. ASSUME NEW t \in Writers, WriteLoop(t) PROVE Fresh' /\ client' = client
  <2>1. UNCHANGED <<sent, stale, inbox, client, state>> /\ pc[t] # "out"
    BY <1>2 DEF WriteLoop, peerVars
  <2>2. CASE left[t] > 0 /\ ~Blocked("w") /\ state["w"] = "ready"
    <3> DEFINE n == Least(Size - Used, left[t])
    <3>1. CopyIn(t, n) /\ n \in Nat
      <4>1. Used \in Nat /\ Used < Size /\ left[t] \in Nat /\ Size \in Nat
        BY <1>0, <2>2, UsedIs, SbufAssumption DEF TypeOK, Blocked, Ptr
      <4> QED
        BY <1>2, <2>2, <4>1 DEF WriteLoop, Least
    <3> HIDE DEF n
    <3>2. /\ issued' = issued + n /\ pc' = [pc EXCEPT ![t] = "bump"]
          /\ chunk' = [chunk EXCEPT ![t] = [i \in 1..n |-> issued + i]]
      BY <3>1 DEF CopyIn, Goto
    <3>3. chunk'[t] = [i \in 1..n |-> issued + i]
      BY <1>0, <3>2 DEF TypeOK
    <3>4. Len(chunk'[t]) = n /\ \A i \in 1..n : chunk'[t][i] > stale
      BY <1>0, <3>1, <3>3 DEF Fresh
    <3>5. \A u \in Writers : u # t => pc'[u] = pc[u] /\ chunk'[u] = chunk[u]
      BY <1>0, <3>2 DEF TypeOK
    <3>6. stale <= issued'
      BY <1>0, <3>1, <3>2 DEF Fresh
    <3>7. \A u \in Writers : pc'[u] = "bump" =>
             \A i \in 1..Len(chunk'[u]) : chunk'[u][i] > stale
      BY <3>4, <3>5 DEF Fresh
    <3> QED
      BY <2>1, <3>6, <3>7 DEF Fresh, Away, ToHost
  <2>3. CASE ~(left[t] > 0 /\ ~Blocked("w") /\ state["w"] = "ready")
    <3>1. pc' = [pc EXCEPT ![t] = "done"] /\ UNCHANGED <<issued, chunk>>
      BY <1>2, <2>3 DEF WriteLoop, Goto
    <3>2. Calm
      BY <2>1 DEF Calm
    <3> QED
      BY <1>0, <2>1, <3>1, <3>2, CalmFresh DEF TypeOK
  <2> QED
    BY <2>2, <2>3
<1>3. ASSUME NEW t \in Writers, WriteBump(t) PROVE Fresh' /\ client' = client
  <2> DEFINE c == chunk[t]
  <2>1. /\ UNCHANGED <<stale, issued, inbox, client, state, chunk>> /\ pc[t] = "bump"
        /\ sent' = sent \o c /\ pc' = [pc EXCEPT ![t] = "notify"]
    BY <1>3 DEF WriteBump, Goto, peerVars
  <2>2. client = "up" /\ state[Host] = "ready" /\ ~ToHost("OPEN")
    BY <1>0, <2>1 DEF LifeInv, Talk, Calls, Up
  <2>3. c \in Seq(Bytes) /\ \A i \in 1..Len(c) : c[i] > stale
    BY <1>0, <2>1 DEF TypeOK, Fresh
  <2>4. \A i \in 1..Len(sent) : sent[i] > stale
    BY <2>2 DEF Fresh, Away
  <2> HIDE DEF c
  <2>5. \A i \in 1..Len(sent') : sent'[i] > stale
    <3>1. Len(sent') = Len(sent) + Len(c)
      BY <1>0, <2>1, <2>3
    <3>2. \A i \in 1..Len(sent') : sent'[i] = IF i <= Len(sent) THEN sent[i]
                                             ELSE c[i - Len(sent)]
      BY <1>0, <2>1, <2>3
    <3> SUFFICES ASSUME NEW i \in 1..Len(sent') PROVE sent'[i] > stale
      OBVIOUS
    <3>3. CASE i <= Len(sent)
      BY <1>0, <2>4, <3>1, <3>2, <3>3
    <3>4. CASE i > Len(sent)
      <4>1. i - Len(sent) \in 1..Len(c)
        BY <1>0, <2>3, <3>1, <3>4
      <4>2. sent'[i] = c[i - Len(sent)]
        BY <1>0, <3>2, <3>4
      <4> QED
        BY <2>3, <4>1, <4>2
    <3> QED
      BY <1>0, <3>1, <3>3, <3>4
  <2>6. \A u \in Writers : pc'[u] = "bump" => pc[u] = "bump"
    BY <1>0, <2>1 DEF TypeOK
  <2> QED
    BY <2>1, <2>2, <2>5, <2>6 DEF Fresh
<1>4. ASSUME NEW t \in Readers, ReadBump(t) PROVE Fresh' /\ client' = client
  <2> DEFINE n == Len(chunk[t])
  <2>1. /\ UNCHANGED <<stale, issued, inbox, client, state, chunk>> /\ pc[t] = "bump"
        /\ sent' = SubSeq(sent, n + 1, Len(sent)) /\ pc' = [pc EXCEPT ![t] = "notify"]
        /\ t \in Threads
    BY <1>4 DEF ReadBump, Goto, peerVars, Threads
  <2>2. n \in 1..Len(sent)
    BY <2>1 DEF PipeInv, TypeOK, Reading, Ring
  <2> HIDE DEF n
  <2>3. /\ Len(sent') = Len(sent) - n
        /\ \A i \in 1..(Len(sent) - n) : sent'[i] = sent[n + i] /\ n + i \in 1..Len(sent)
    BY <1>0, <2>1, <2>2
  <2>4. sent # <<>>
    BY <1>0, <2>2
  <2>5. \A u \in Writers : pc'[u] = "bump" => pc[u] = "bump"
    BY <1>0, <2>1 DEF TypeOK
  <2>6. ~Away /\ ~ToHost("OPEN") => \A i \in 1..Len(sent') : sent'[i] > stale
    BY <2>3 DEF Fresh
  <2>7. state[Host] # "idle"
    BY <2>4 DEF Fresh
  <2> QED
    BY <2>1, <2>5, <2>6, <2>7 DEF Fresh, Away, ToHost
<1>5. ASSUME NEW t \in Threads, (t \in Writers /\ WriteNotify(t))
                                \/ (t \in Readers /\ (ReadLoop(t) \/ ReadNotify(t)))
      PROVE  Fresh' /\ client' = client
  <2>1. /\ UNCHANGED <<sent, stale, issued, client, state>>
        /\ inbox' = inbox \/ inbox' = Sent("r", "WRPTR") \/ inbox' = Sent("w", "RDPTR")
    BY <1>5 DEF WriteNotify, ReadLoop, ReadNotify, hist, peerVars
  <2>2. Calm
    BY <1>0, <2>1, EventCalm DEF Ends
  <2>3. \A u \in Threads : u # t => pc'[u] = pc[u] /\ chunk'[u] = chunk[u]
    BY <1>0, <1>5 DEF WriteNotify, ReadLoop, ReadNotify, Goto, TypeOK
  <2>4. t \in Writers => pc'[t] # "bump"
    BY <1>0, <1>5 DEF WriteNotify, Goto, TypeOK
  <2> QED
    BY <1>0, <2>1, <2>2, <2>3, <2>4, CalmFresh
<1>6. ASSUME NEW e \in Ends, OnEvent(e) PROVE Fresh' /\ client' = client
  <2>1. /\ UNCHANGED <<client, state, sent, stale, issued, chunk>> /\ inbox' = Taken(e)
        /\ inbox[e] # <<>> /\ Head(inbox[e]) \notin Turns /\ pc' = Woken({e})
    BY <1>6 DEF OnEvent, Head1, peerVars, hist, Turns
  <2>2. Calm
    BY <1>0, <2>1, EventCalm
  <2>3. \A u \in Writers : pc'[u] = "bump" => pc[u] = "bump"
    BY <1>0, <2>1 DEF Woken
  <2> QED
    BY <1>0, <2>1, <2>2, <2>3, CalmFresh
<1>7. ASSUME OnOpen PROVE Fresh' /\ client' = client
  <2>1. /\ UNCHANGED <<client, stale, issued, chunk, pc>> /\ state'[Host] = "idle"
        /\ IF state[Host] = "ready" THEN sent' = <<>> ELSE sent' = sent
    BY <1>0, <1>7, TwoEnds DEF OnOpen, SkipOldData, peerVars, threadVars, TypeOK
  <2>2. sent' = <<>>
    BY <1>0, <2>1, TwoEnds DEF Fresh, TypeOK
  <2> QED
    BY <2>1, <2>2 DEF Fresh
<1>8. ASSUME OnCmd PROVE Fresh' /\ client' = client
  <2>1. /\ UNCHANGED <<client, sent, stale, issued, chunk, pc>> /\ state'[Host] = "ready"
        /\ inbox[Host] # <<>> /\ Head(inbox[Host]) = "CMD"
        /\ inbox' = Reply(Host, "DONE") \/ inbox' = Taken(Host)
    BY <1>0, <1>8, TwoEnds DEF OnCmd, Head1, peerVars, threadVars, hist, TypeOK
  <2>2. inbox'[Host] = Tail(inbox[Host])
    BY <1>0, <2>1, ReplyIs, TwoEnds DEF Messages
  <2>3. ToHost("OPEN") => ToHost("OPEN")'
    BY <1>0, <2>1, <2>2, TwoEnds, QueueTail DEF ToHost
  <2> QED
    BY <2>1, <2>3 DEF Fresh, Away
<1>9. ASSUME NEW e \in Ends, OnClose(e) PROVE Fresh' /\ client' = client
  <2>1. inbox[e] # <<>> /\ Head(inbox[e]) = "CLOSE"
    BY <1>9 DEF OnClose, Head1
  <2>2. In(inbox[e], "CLOSE")
    BY <1>0, <2>1, TwoEnds, QueueTail
  <2>3. e = Host
    BY <1>9, <2>2, TwoEnds
    DEF LifeInv, Talk, NotThere, ToHost, ToClient, OnClose, EventAt, Away
  <2>4. /\ UNCHANGED <<client, stale, issued, chunk, pc>> /\ sent' = <<>>
    BY <1>9, <2>3 DEF OnClose, SkipOldData, peerVars, threadVars
  <2> QED
    BY <2>4 DEF Fresh
<1>10. ASSUME ClientRecv PROVE Fresh' /\ client' # "gone"
  <2>1. /\ UNCHANGED <<sent, stale, issued, chunk, pc>> /\ ~Away /\ inbox[Client] # <<>>
        /\ client' \in {client, "init", "up"}
    BY <1>10 DEF ClientRecv, threadVars, hist
  <2>2. state'[Host] = state[Host]
    BY <1>0, <1>10, TwoEnds DEF ClientRecv, TypeOK
  <2>3. inbox'[Host] = inbox[Host] \/ inbox'[Host] = Append(inbox[Host], "CMD")
    <3>1. /\ Taken(Client)[Host] = inbox[Host] /\ DOMAIN Taken(Client) = Ends
      BY <1>0, ReplyIs, TwoEnds DEF Messages, Taken
    <3> QED
      BY <1>10, <3>1, TwoEnds DEF ClientRecv
  <2>4. ToHost("OPEN") => ToHost("OPEN")'
    <3>1. inbox[Host] \in Seq(Messages) /\ "CMD" \in Messages
      BY <1>0, TwoEnds DEF Messages
    <3>2. In(inbox[Host], "OPEN") => In(Append(inbox[Host], "CMD"), "OPEN")
      BY <3>1, QueueAppend
    <3> QED
      BY <2>3, <3>2 DEF ToHost
  <2> QED
    BY <2>1, <2>2, <2>4 DEF Fresh, Away
<1>11. ASSUME NEW way \in Ways, ClientStop(way) PROVE Fresh' /\ client' # "gone"
  <2>1. /\ way # "remove" /\ client' = "off" /\ UNCHANGED <<sent, issued>>
        /\ stale' = issued /\ state'[Host] = state[Host]
    BY <1>11, TwoEnds DEF ClientStop
  <2>2. \A u \in Writers : pc'[u] = "out"
    BY <1>0, <1>11 DEF ClientStop
  <2> QED
    BY <1>0, <2>1, <2>2 DEF Fresh, Away
<1>12. ASSUME ClientStart PROVE Fresh' /\ client' # "gone"
  <2>1. /\ UNCHANGED <<sent, stale, issued, chunk, pc, state>> /\ client' = "opening"
        /\ inbox' = [inbox EXCEPT ![Host] = Append(@, "OPEN")]
    BY <1>12 DEF ClientStart, threadVars, hist
  <2>2. inbox'[Host] = Append(inbox[Host], "OPEN")
    BY <1>0, <2>1, TwoEnds
  <2>3. ToHost("OPEN")'
    BY <1>0, <2>2, TwoEnds, QueueAppend DEF ToHost, Messages
  <2> QED
    BY <2>1, <2>3 DEF Fresh
<1>13. ASSUME NEW t \in Threads, Copy(t) PROVE Fresh' /\ client' = client
  BY <1>2, <1>3, <1>4, <1>5, <1>13 DEF Copy
<1> QED
  BY <1>1, <1>6, <1>7, <1>8, <1>9, <1>10, <1>11, <1>12, <1>13 DEF Next, Step, Thread

\* Whatever the threads of both ends do and however often the client crashes or
\* closes and comes back, the ring is neither overrun nor damaged and the host is
\* given no byte of an earlier life of the client.
THEOREM PipeIsSafe ==
  ASSUME ~Signals, ~SkipInRead, ~SlowHost, "remove" \notin Ways, Divides
  PROVE  Spec => []PipeSafe
<1> DEFINE Stays == client # "gone"
<1>1. CASE Host = "r"
  <2>1. Init => Fresh /\ Stays
    <3> SUFFICES ASSUME Init PROVE Fresh /\ Stays
      OBVIOUS
    <3>1. /\ stale = 0 /\ issued = 0 /\ sent = <<>> /\ client = "init"
          /\ \A t \in Threads : pc[t] = "out"
      BY DEF Init
    <3> QED
      BY <3>1 DEF Fresh, Threads
  <2>2. PipeInv /\ LifeInv /\ Fresh /\ Stays /\ [Next]_vars => Fresh' /\ Stays'
    <3> SUFFICES ASSUME PipeInv, LifeInv, Fresh, Stays, [Next]_vars
                 PROVE  Fresh' /\ Stays'
      OBVIOUS
    <3>1. CASE Next
      BY <1>1, <3>1, FreshStep
    <3>2. CASE UNCHANGED vars
      BY <3>2 DEF Fresh, ToHost, Away, vars, peerVars, threadVars, hist
    <3> QED
      BY <3>1, <3>2
  <2>3. PipeInv /\ LifeInv /\ Fresh => PipeSafe
    <3> SUFFICES ASSUME PipeInv, LifeInv, Fresh PROVE PipeSafe
      OBVIOUS
    <3>1. TypeOK /\ NoOverrun /\ ContentIntact
      BY ContentIs DEF PipeInv, Ring, NoOverrun
    <3>2. client = "up" => \A i \in 1..Len(sent) : sent[i] > stale
      BY DEF Fresh, LifeInv, Talk, Up, Away
    <3>3. DOMAIN sent = 1..Len(sent)
      BY <3>1 DEF TypeOK
    <3> QED
      BY <3>1, <3>2, <3>3 DEF PipeSafe, FreshData
  <2>4. Spec => []PipeInv
    BY PipeInvariant
  <2>5. Spec => []LifeInv
    BY LifeInvariant
  <2> HIDE DEF Stays
  <2> QED
    BY <2>1, <2>2, <2>3, <2>4, <2>5, PTL DEF Spec
<1>2. CASE Host # "r"
  <2>1. TypeOK /\ NoOverrun /\ ContentIntact => PipeSafe
    BY <1>2 DEF PipeSafe, FreshData
  <2> QED
    BY <2>1, PipeIsIntact, PTL
<1> QED
  BY <1>1, <1>2
-----------------------------------------------------------------------------
(* No wake-up is lost at an end with local memory while the client has not   *)
(* gone.                                                                    *)

\* An event is on its way to end e.
Told(e) == In(inbox[e], "RDPTR") \/ In(inbox[e], "WRPTR")

\* Thread t has moved its pointer over the edge of which the other end is told.
Edge(t) == IF EndOf(t) = "w" THEN Used = Len(chunk[t]) ELSE Used = Size - Len(chunk[t])

\* Who sleeps at end e although it could go on is told, or will be.
Sure(e) ==
  \A t \in Threads : EndOf(t) = e /\ pc[t] = "asleep" /\ ~Blocked(e) =>
    \/ Told(e)
    \/ \E u \in Threads : EndOf(u) = Other(e) /\ pc[u] = "notify" /\ Edge(u)

\* Before its first stop the client is not away and nobody speaks of its lives.
FirstLife ==
  /\ ~Away /\ Calls
  /\ \A e \in Ends : ~In(inbox[e], "OPEN") /\ ~In(inbox[e], "CLOSE")

WakeInv == stops = 0 => FirstLife /\ \A e \in LocalEnds : Sure(e)

\* A step that moves no pointer, takes no event away and lets nobody sleep beside its
\* bytes or leave its notification keeps the sleepers of an end sure.
LEMMA SureKeeps ==
  ASSUME NEW e \in Ends, Sure(e), UNCHANGED <<wt, rd>>, Told(e) => Told(e)',
         \A t \in Threads :
           /\ pc'[t] = "asleep" => pc[t] = "asleep" \/ (EndOf(t) = e => Blocked(e))
           /\ pc[t] = "notify" => pc'[t] = "notify" /\ chunk'[t] = chunk[t]
  PROVE  Sure(e)'
<1>1. Used' = Used /\ Blocked(e)' = Blocked(e)
  BY DEF Used, Blocked
<1>2. ASSUME NEW t \in Threads, EndOf(t) = e, pc'[t] = "asleep", ~Blocked(e)'
      PROVE  \/ Told(e)'
             \/ \E u \in Threads : EndOf(u) = Other(e) /\ pc'[u] = "notify" /\ Edge(u)'
  <2>1. pc[t] = "asleep" /\ ~Blocked(e)
    BY <1>1, <1>2
  <2>2. CASE Told(e)
    BY <2>2
  <2>3. ASSUME NEW u \in Threads, EndOf(u) = Other(e), pc[u] = "notify", Edge(u)
        PROVE  pc'[u] = "notify" /\ Edge(u)'
    <3>1. pc'[u] = "notify" /\ chunk'[u] = chunk[u]
      BY <2>3
    <3> QED
      BY <1>1, <2>3, <3>1 DEF Edge, EndOf
  <2> QED
    BY <1>2, <2>1, <2>2, <2>3 DEF Sure
<1> QED
  BY <1>2 DEF Sure, EndOf, Other

\* A calm step in which only callers of an end that is ready begin a call keeps the
\* first life.
LEMMA FirstKeeps ==
  ASSUME FirstLife, Calm,
         \A t \in Threads : pc'[t] # "out" => pc[t] # "out" \/ state[EndOf(t)] = "ready"
  PROVE  FirstLife'
<1>1. Calls'
  BY DEF FirstLife, Calls, Calm, ClientThread
<1>2. ~Away'
  BY DEF FirstLife, Away, Calm
<1>3. \A e \in Ends : ~In(inbox'[e], "OPEN") /\ ~In(inbox'[e], "CLOSE")
  BY DEF FirstLife, Calm, Turns
<1> QED
  BY <1>1, <1>2, <1>3 DEF FirstLife

\* Who is told of the pointer that t has moved sleeps at the other end, and t alone is
\* past its mutex at its own.
LEMMA BumpSure ==
  ASSUME Divides, PipeInv, NEW e \in Ends, Sure(e), NEW t \in Threads,
         \/ t \in Writers /\ WriteBump(t)
         \/ t \in Readers /\ ReadBump(t)
  PROVE  Sure(e)'
<1> DEFINE n == Len(chunk[t])
<1>1. /\ pc[t] = "bump" /\ pc' = [pc EXCEPT ![t] = "notify"] /\ inbox' = inbox
      /\ chunk' = chunk
  BY DEF WriteBump, ReadBump, Goto
<1>2. /\ Used \in Nat /\ Size \in Nat /\ n \in Nat \ {0} /\ Used <= Size
      /\ wt \in Ptr /\ rd \in Ptr /\ (Used = 0 <=> wt = rd)
  BY <1>1, UsedIs, SbufAssumption DEF PipeInv, TypeOK, Ring, Writing, Reading, Ptr, Threads
<1>3. pc'[t] = "notify" /\ \A u \in Threads : u # t => pc'[u] = pc[u]
  BY <1>1 DEF PipeInv, TypeOK
<1>4. \A u \in Threads : EndOf(u) = EndOf(t) /\ u # t => pc[u] \in {"out", "lock"}
  BY <1>1, OneInside DEF PipeInv
<1> SUFFICES ASSUME NEW u \in Threads, EndOf(u) = e, pc'[u] = "asleep"
             PROVE  \/ Told(e)'
                    \/ \E v \in Threads : EndOf(v) = Other(e) /\ pc'[v] = "notify" /\ Edge(v)'
  BY DEF Sure, EndOf, Other
<1>5. pc[u] = "asleep" /\ u # t /\ EndOf(u) # EndOf(t)
  BY <1>3, <1>4
<1>6. EndOf(t) = Other(e)
  BY <1>5, EndIs DEF Other, Ends
<1>7. CASE Blocked(e)
  <2>1. CASE t \in Writers /\ WriteBump(t)
    <3>1. EndOf(t) = "w" /\ e = "r"
      BY <1>6, <2>1, EndIs DEF Other, Ends
    <3>2. Used = 0 /\ Used + n <= Size /\ wt' = Add(wt, n) /\ rd' = rd
      BY <1>1, <1>2, <1>7, <2>1, <3>1 DEF Blocked, WriteBump, PipeInv, Writing
    <3>3. Used' = n
      BY <1>2, <3>2, UsedMoves
    <3>4. Edge(t)'
      BY <1>1, <3>1, <3>3 DEF Edge, EndOf
    <3> QED
      BY <1>3, <1>6, <3>4
  <2>2. CASE t \in Readers /\ ReadBump(t)
    <3>1. EndOf(t) = "r" /\ e = "w"
      BY <1>6, <2>2, EndIs DEF Other, Ends
    <3>2. Used = Size /\ n <= Used /\ wt' = wt /\ rd' = Add(rd, n)
      BY <1>1, <1>2, <1>7, <2>2, <3>1 DEF Blocked, ReadBump, PipeInv, Reading
    <3>3. Used' = Size - n
      BY <1>2, <3>2, UsedMoves
    <3>4. Edge(t)'
      BY <1>1, <3>1, <3>3, EndIs DEF Edge, EndOf
    <3> QED
      BY <1>3, <1>6, <3>4
  <2> QED
    BY <2>1, <2>2
<1>8. CASE ~Blocked(e)
  <2>1. \A v \in Threads : EndOf(v) = Other(e) => pc[v] # "notify"
    BY <1>1, <1>4, <1>6
  <2>2. Told(e)
    BY <1>5, <1>8, <2>1 DEF Sure
  <2> QED
    BY <1>1, <2>2 DEF Told
<1> QED
  BY <1>7, <1>8

\* The event of an edge is sent.
LEMMA NotifySure ==
  ASSUME PipeInv, FirstLife, NEW e \in Ends, Sure(e), NEW t \in Threads,
         \/ t \in Writers /\ WriteNotify(t)
         \/ t \in Readers /\ ReadNotify(t)
  PROVE  Sure(e)'
<1>1. /\ pc[t] = "notify" /\ pc' = [pc EXCEPT ![t] = "loop"] /\ UNCHANGED <<wt, rd>>
      /\ chunk' = [chunk EXCEPT ![t] = <<>>]
  BY DEF WriteNotify, ReadNotify, Goto, ring
<1>2. PICK x \in {"RDPTR", "WRPTR"} :
        /\ inbox' = inbox \/ inbox' = Sent(Other(EndOf(t)), x)
        /\ Edge(t) => inbox' = Sent(Other(EndOf(t)), x)
  BY EndIs DEF WriteNotify, ReadNotify, Edge, Other
<1>3. /\ Sent(Other(EndOf(t)), x)[Other(EndOf(t))] = Append(inbox[Other(EndOf(t))], x)
      /\ Sent(Other(EndOf(t)), x)[EndOf(t)] = inbox[EndOf(t)]
      /\ inbox[Other(EndOf(t))] \in Seq(Messages) /\ x \in Messages
  <2>1. /\ EndOf(t) \in Ends /\ Other(EndOf(t)) \in Ends
        /\ Other(Other(EndOf(t))) = EndOf(t)
    BY EndIs DEF Other, Ends
  <2>2. x \in Messages
    BY DEF Messages
  <2> QED
    BY <2>1, <2>2, ReplyIs, TwoEnds DEF PipeInv, FirstLife
<1>4. \A m : In(Append(inbox[Other(EndOf(t))], x), m) <=> (In(inbox[Other(EndOf(t))], m) \/ m = x)
  BY <1>3, QueueAppend
<1>5. \A f \in Ends : f = EndOf(t) \/ f = Other(EndOf(t))
  BY EndIs DEF Other, Ends
<1>6. Told(e) => Told(e)'
  BY <1>2, <1>3, <1>4, <1>5 DEF Told
<1>7. Used' = Used /\ Blocked(e)' = Blocked(e)
  BY <1>1 DEF Used, Blocked
<1> SUFFICES ASSUME NEW u \in Threads, EndOf(u) = e, pc'[u] = "asleep", ~Blocked(e)'
             PROVE  \/ Told(e)'
                    \/ \E v \in Threads : EndOf(v) = Other(e) /\ pc'[v] = "notify" /\ Edge(v)'
  BY DEF Sure, EndOf, Other
<1>8. pc[u] = "asleep" /\ ~Blocked(e)
  BY <1>1, <1>7 DEF PipeInv, TypeOK
<1>9. CASE Told(e)
  BY <1>6, <1>9
<1>10. ASSUME NEW v \in Threads, EndOf(v) = Other(e), pc[v] = "notify", Edge(v)
       PROVE  Told(e)' \/ (pc'[v] = "notify" /\ Edge(v)')
  <2>1. CASE v = t
    <3>1. e = Other(EndOf(t))
      BY <1>10, <2>1 DEF Other, Ends
    <3>2. inbox' = Sent(e, x)
      BY <1>2, <1>10, <2>1, <3>1
    <3>3. In(inbox'[e], x)
      BY <1>3, <1>4, <3>1, <3>2
    <3> QED
      BY <3>3 DEF Told
  <2>2. CASE v # t
    <3>1. pc'[v] = "notify" /\ chunk'[v] = chunk[v]
      BY <1>1, <1>10, <2>2 DEF PipeInv, TypeOK
    <3> QED
      BY <1>7, <1>10, <3>1 DEF Edge, EndOf
  <2> QED
    BY <2>1, <2>2
<1> QED
  BY <1>8, <1>9, <1>10 DEF Sure

\* A step of the program keeps the sleepers of the ends with local memory sure until
\* the client goes.
LEMMA WakeStep ==
  ASSUME Divides, PipeInv, WakeInv, Next
  PROVE  WakeInv'
<1> SUFFICES ASSUME stops' = 0 PROVE FirstLife' /\ \A e \in LocalEnds : Sure(e)'
  BY DEF WakeInv
<1>1. ASSUME NEW way \in Ways, ClientStop(way) PROVE FALSE
  BY <1>1 DEF ClientStop, PipeInv, TypeOK
<1>2. stops = 0 /\ ~ClientStart
  <2>1. UNCHANGED stops
    BY <1>1 DEF Next, Step, Copy, Thread, Call, Lock, Test, SetMask, Wait, Abort, Fault, Done,
                WriteLoop, WriteBump, WriteNotify, ReadLoop, ReadBump, ReadNotify, OnEvent,
                OnOpen, OnClose, OnCmd, ClientRecv, ClientStart, peerVars
  <2> QED
    BY <2>1 DEF WakeInv, FirstLife, ClientStart
<1>3. FirstLife /\ TypeOK /\ \A e \in LocalEnds : e \in Ends /\ Sure(e)
  BY <1>2, SbufAssumption DEF WakeInv, PipeInv
<1> DEFINE H == inbox[Host]
           C == inbox[Client]
<1>4. H \in Seq(Messages) /\ C \in Seq(Messages)
  BY <1>3, TwoEnds
<1>5. ASSUME NEW t \in Threads, Call(t) \/ Lock(t) \/ Test(t) \/ SetMask(t) \/ Wait(t)
                                \/ Abort(t) \/ Fault(t) \/ Done(t)
      PROVE  FirstLife' /\ \A e \in LocalEnds : Sure(e)'
  <2>1. UNCHANGED <<wt, rd, inbox, client, state, chunk>>
    BY <1>5 DEF Call, Lock, Test, SetMask, Wait, Abort, Fault, Done, ring, peerVars
  <2>2. \E l \in Places : /\ pc' = [pc EXCEPT ![t] = l]
                          /\ l = "asleep" => (EndOf(t) \in LocalEnds => Blocked(EndOf(t)))
    BY <1>5 DEF Call, Lock, Test, SetMask, Wait, Abort, Fault, Done, Stay, Leave, Goto,
                Places, HasData
  <2>3. pc[t] # "notify" /\ (pc[t] # "out" \/ state[EndOf(t)] = "ready")
    BY <1>5 DEF Call, Lock, Test, SetMask, Wait, Abort, Fault, Done
  <2>4. Calm
    BY <1>3, <2>1, TwoEnds, EventCalm
  <2>5. FirstLife'
    BY <1>3, <2>2, <2>3, <2>4, FirstKeeps DEF TypeOK
  <2>6. ASSUME NEW e \in LocalEnds PROVE Sure(e)'
    <3>1. \A u \in Threads :
            /\ pc'[u] = "asleep" => pc[u] = "asleep" \/ (EndOf(u) = e => Blocked(e))
            /\ pc[u] = "notify" => pc'[u] = "notify" /\ chunk'[u] = chunk[u]
      BY <1>3, <2>1, <2>2, <2>3 DEF TypeOK
    <3> QED
      BY <1>3, <2>1, <3>1, SureKeeps DEF Told
  <2> QED
    BY <2>5, <2>6
<1>6. ASSUME NEW t \in Threads, Copy(t)
      PROVE  FirstLife' /\ \A e \in LocalEnds : Sure(e)'
  <2>1. /\ UNCHANGED <<client, state>> /\ pc[t] # "out"
        /\ inbox' = inbox \/ inbox' = Sent("r", "WRPTR") \/ inbox' = Sent("w", "RDPTR")
    BY <1>6 DEF Copy, WriteLoop, WriteBump, WriteNotify, ReadLoop, ReadBump, ReadNotify,
                peerVars
  <2>2. \E l \in {"bump", "done", "notify", "loop"} : pc' = [pc EXCEPT ![t] = l]
    BY <1>6 DEF Copy, WriteLoop, WriteBump, WriteNotify, ReadLoop, ReadBump, ReadNotify,
                CopyIn, Goto
  <2>3. Calm
    BY <1>3, <2>1, EventCalm DEF Ends
  <2>4. FirstLife'
    BY <1>3, <2>1, <2>2, <2>3, FirstKeeps DEF TypeOK
  <2>5. ASSUME NEW e \in LocalEnds PROVE Sure(e)'
    <3>1. CASE (t \in Writers /\ WriteLoop(t)) \/ (t \in Readers /\ ReadLoop(t))
      <4>1. UNCHANGED <<wt, rd, inbox>> /\ pc[t] # "notify"
        BY <3>1 DEF WriteLoop, ReadLoop, ring
      <4>2. \A u \in Threads : u # t => chunk'[u] = chunk[u]
        BY <1>3, <3>1 DEF WriteLoop, ReadLoop, CopyIn, TypeOK
      <4>3. \A u \in Threads :
              /\ pc'[u] = "asleep" => pc[u] = "asleep"
              /\ pc[u] = "notify" => pc'[u] = "notify" /\ chunk'[u] = chunk[u]
        BY <1>3, <2>2, <4>1, <4>2 DEF TypeOK
      <4> QED
        BY <1>3, <4>1, <4>3, SureKeeps DEF Told
    <3>2. CASE (t \in Writers /\ WriteBump(t)) \/ (t \in Readers /\ ReadBump(t))
      BY <1>3, <3>2, BumpSure
    <3>3. CASE (t \in Writers /\ WriteNotify(t)) \/ (t \in Readers /\ ReadNotify(t))
      BY <1>3, <3>3, NotifySure
    <3> QED
      BY <1>6, <3>1, <3>2, <3>3 DEF Copy
  <2> QED
    BY <2>4, <2>5
<1>7. ASSUME NEW f \in Ends, OnEvent(f)
      PROVE  FirstLife' /\ \A e \in LocalEnds : Sure(e)'
  <2>1. /\ UNCHANGED <<wt, rd, client, state, chunk>> /\ inbox' = Taken(f)
        /\ inbox[f] # <<>> /\ Head(inbox[f]) \notin Turns /\ pc' = Woken({f})
    BY <1>7 DEF OnEvent, Head1, peerVars, ring, Turns
  <2>2. FirstLife'
    BY <1>3, <2>1, EventCalm, FirstKeeps DEF Woken
  <2>3. ASSUME NEW e \in LocalEnds PROVE Sure(e)'
    <3>1. CASE e = f
      BY <2>1, <3>1 DEF Sure, Woken, EndOf
    <3>2. CASE e # f
      <4>1. inbox'[e] = inbox[e]
        BY <1>3, <2>1, <3>2, ReplyIs, TwoEnds DEF Messages
      <4> QED
        BY <1>3, <2>1, <4>1, SureKeeps DEF Told, Woken
    <3> QED
      BY <3>1, <3>2
  <2> QED
    BY <2>2, <2>3
<1>8. ~OnOpen /\ \A f \in Ends : ~OnClose(f)
  BY <1>3, TwoEnds, QueueTail DEF OnOpen, OnClose, Head1, FirstLife
<1>9. ASSUME OnCmd PROVE FirstLife' /\ \A e \in LocalEnds : Sure(e)'
  <2>1. /\ H # <<>> /\ Head(H) = "CMD" /\ UNCHANGED <<wt, rd, client, pc, chunk>>
        /\ state' = [state EXCEPT ![Host] = "ready"]
        /\ inbox' = IF state[Host] = "idle" THEN Reply(Host, "DONE") ELSE Taken(Host)
    BY <1>9 DEF OnCmd, Head1, peerVars, threadVars, ring
  <2>2. inbox'[Host] = Tail(H) /\ inbox'[Client] \in {C, Append(C, "DONE")}
    <3>1. /\ Taken(Host)[Host] = Tail(H) /\ Taken(Host)[Client] = C
          /\ Reply(Host, "DONE")[Host] = Tail(H)
          /\ Reply(Host, "DONE")[Client] = IF Away THEN C ELSE Append(C, "DONE")
      BY <1>3, ReplyIs, TwoEnds DEF Messages
    <3> QED
      BY <2>1, <3>1
  <2>3. state'[Client] = state[Client]
    BY <1>3, <2>1, TwoEnds DEF TypeOK
  <2>4. /\ \A m : In(Tail(H), m) => In(H, m)
        /\ \A m : In(H, m) /\ m # "CMD" => In(Tail(H), m)
        /\ \A m : In(Append(C, "DONE"), m) <=> (In(C, m) \/ m = "DONE")
    BY <1>4, <2>1, QueueTail, QueueAppend DEF Messages
  <2>5. FirstLife'
    BY <1>3, <2>1, <2>2, <2>3, <2>4, TwoEnds DEF FirstLife, Calls, ClientThread, Away
  <2>6. ASSUME NEW e \in LocalEnds PROVE Sure(e)'
    <3>1. Told(e) => Told(e)'
      BY <1>3, <2>2, <2>4, TwoEnds DEF Told
    <3> QED
      BY <1>3, <2>1, <3>1, SureKeeps
  <2> QED
    BY <2>5, <2>6
<1>10. ASSUME ClientRecv PROVE FirstLife' /\ \A e \in LocalEnds : Sure(e)'
  <2>1. /\ ~Away /\ C # <<>> /\ UNCHANGED <<wt, rd, pc, chunk>>
        /\ client = "up" => Head(C) \in {"OPEN", "DONE"}
    BY <1>10 DEF ClientRecv, threadVars, ring
  <2>2. /\ \A m : In(Tail(C), m) => In(C, m)
        /\ \A m : In(C, m) /\ m # Head(C) => In(Tail(C), m)
        /\ In(C, Head(C)) /\ ~In(C, "OPEN")
    BY <1>3, <1>4, <2>1, QueueTail, TwoEnds DEF FirstLife
  <2>3. inbox' = Taken(Client) /\ client' \in {client, "up"}
        /\ \/ UNCHANGED <<client, state>>
           \/ client' = "up"
    BY <1>10, <2>2 DEF ClientRecv, Head1
  <2>4. inbox'[Client] = Tail(C) /\ inbox'[Host] = H
    BY <1>3, <2>3, ReplyIs, TwoEnds DEF Messages
  <2>5. FirstLife'
    BY <1>3, <2>1, <2>2, <2>3, <2>4, TwoEnds DEF FirstLife, Calls, ClientThread, Away
  <2>6. ASSUME NEW e \in LocalEnds PROVE Sure(e)'
    <3>1. CASE e = Client /\ client # "up"
      <4>1. \A u \in Threads : EndOf(u) = e => pc'[u] = "out"
        BY <1>3, <2>1, <3>1 DEF FirstLife, Calls, ClientThread
      <4> QED
        BY <4>1 DEF Sure, EndOf
    <3>2. CASE ~(e = Client /\ client # "up")
      <4>1. Told(e) => Told(e)'
        BY <1>3, <2>1, <2>2, <2>4, <3>2, TwoEnds DEF Told
      <4> QED
        BY <1>3, <2>1, <4>1, SureKeeps
    <3> QED
      BY <3>1, <3>2
  <2> QED
    BY <2>5, <2>6
<1> QED
  BY <1>1, <1>2, <1>5, <1>6, <1>7, <1>8, <1>9, <1>10 DEF Next, Step, Thread

\* At an end with local memory (the host of this build) no caller of sbuf_write or
\* sbuf_read sleeps on beside room or bytes: as long as the client has not gone, the
\* event that wakes it is on its way or about to be sent.
THEOREM NoLocalWakeLost ==
  ASSUME ~Signals, ~SkipInRead, Divides
  PROVE  Spec => []LocalSleepersWoken
<1>1. Init => WakeInv
  <2> SUFFICES ASSUME Init PROVE WakeInv
    OBVIOUS
  <2>1. /\ client = "init" /\ state[Client] = "idle" /\ \A t \in Threads : pc[t] = "out"
        /\ inbox[Host] = <<"CMD">> /\ inbox[Client] = <<>>
    BY TwoEnds DEF Init
  <2>2. \A e \in Ends : ~In(inbox[e], "OPEN") /\ ~In(inbox[e], "CLOSE")
    BY <2>1, TwoEnds DEF In
  <2> QED
    BY <2>1, <2>2 DEF WakeInv, FirstLife, Calls, Away, Sure
<1>2. PipeInv /\ WakeInv /\ [Next]_vars => WakeInv'
  <2> SUFFICES ASSUME PipeInv, WakeInv, UNCHANGED vars PROVE WakeInv'
    BY WakeStep
  <2>1. UNCHANGED <<wt, rd, inbox, client, state, pc, chunk, stops>>
    BY DEF vars, ring, peerVars, threadVars
  <2>2. \A e \in LocalEnds : Sure(e) => Sure(e)'
    BY <2>1, SbufAssumption, SureKeeps DEF Told
  <2> QED
    BY <2>1, <2>2 DEF WakeInv, FirstLife, Calls, ClientThread, Away
<1>3. PipeInv /\ WakeInv => LocalSleepersWoken
  <2> SUFFICES ASSUME PipeInv, WakeInv, stops = 0, NEW e \in LocalEnds,
                      NEW t \in Threads, EndOf(t) = e, pc[t] = "asleep", ~Blocked(e)
               PROVE  WakeComing(e)
    BY DEF LocalSleepersWoken, NoWakeLost
  <2>1. inbox[e] \in Seq(Messages)
    BY SbufAssumption, TwoEnds DEF PipeInv
  <2>2. Told(e) => WakeComing(e)
    BY <2>1 DEF Told, In, WakeComing
  <2> QED
    BY <2>2 DEF WakeInv, Sure, WakeComing
<1> QED
  BY <1>1, <1>2, <1>3, PipeInvariant, PTL DEF Spec
=============================================================================

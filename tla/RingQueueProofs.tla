---------------------------- MODULE RingQueueProofs ----------------------------
(***************************************************************************)
(* Proofs about RingQueue for any finite sets of producers and consumers,  *)
(* any capacity and any width of the positions: the slots are conserved,   *)
(* and the semaphores never count more of them than there are.  When the   *)
(* positions wrap at a multiple of the capacity, the ring implements the   *)
(* bounded FIFO and a fetched slot is nobody else's while its consumer     *)
(* holds _vMutex.                                                          *)
(***************************************************************************)
EXTENDS RingQueue, FiniteSetTheorems, SequenceTheorems, TLAPS

\* The threads between their P and their V.
Holding == At(Threads, {"lock", "access", "unlock", "post"})

\* What a producer brings is never garbage.
ItemInv == \A p \in Producers : item[p] \in Item \cup {NoItem}

\* The types apart from the upper bounds of the semaphores, which follow from the tokens.
ShapeOK == /\ slot \in [0 .. Cap - 1 -> Item \cup {NoItem}]
           /\ wPos \in 0 .. PosMod - 1 /\ rPos \in 0 .. PosMod - 1
           /\ write \in Nat /\ read \in Nat
           /\ pMutex \in SUBSET Producers /\ vMutex \in SUBSET Consumers
           /\ pc \in [Threads -> {"idle", "claim", "lock", "access", "unlock", "post", "got"}]
           /\ item \in [Threads -> Item \cup {NoItem, Garbage}]
           /\ ref \in [Consumers -> 0 .. Cap - 1]

\* The inductive invariant.
IInv == ShapeOK /\ ItemInv /\ TokensConserved

-------------------------------------------------------------------------------
\* The threads between P and V are finitely many.
LEMMA HoldingFinite == IsFiniteSet(Holding) /\ Cardinality(Holding) \in Nat
<1>1. IsFiniteSet(Threads)
  BY RingQueueAssumption, FS_Union DEF Threads
<1>2. Holding \in SUBSET Threads
  BY DEF Holding, At
<1> QED
  BY <1>1, <1>2, FS_Subset, FS_CardinalityType

\* A position denotes a slot, and the next one is a position again.
LEMMA Positions ==
  ASSUME NEW pos \in 0 .. PosMod - 1
  PROVE  Index(pos) \in 0 .. Cap - 1 /\ Advance(pos) \in 0 .. PosMod - 1
<1>1. PosMod \in Nat \ {0} /\ Cap \in Nat \ {0} /\ pos \in Nat /\ pos + 1 \in Nat
  BY RingQueueAssumption
<1>2. \A a \in Nat, b \in Nat \ {0} : a % b \in 0 .. b - 1
  BY SMTT(20)
<1> QED
  BY <1>1, <1>2 DEF Index, Advance

\* The invariant in terms of the threads between P and V.
LEMMA Tokens == /\ TokensConserved <=> write + read + Cardinality(Holding) = Cap
                /\ TokensConserved' <=> write' + read' + Cardinality(Holding') = Cap
  BY DEF TokensConserved, Holding, At

\* The slots are conserved by a step that takes a semaphore and begins to hold a slot, ...
LEMMA Claimed ==
  ASSUME IInv, NEW t \in Threads, Goto(t, "claim", "lock"), write' + read' = write + read - 1,
         write' \in Nat, read' \in Nat
  PROVE  TokensConserved'
<1>1. t \notin Holding /\ Holding' = Holding \cup {t}
  BY DEF Goto, Holding, At, IInv, ShapeOK
<1>2. Cardinality(Holding') = Cardinality(Holding) + 1
  BY <1>1, HoldingFinite, FS_AddElement
<1>3. write + read + Cardinality(Holding) = Cap /\ write \in Nat /\ read \in Nat /\ Cap \in Nat
  BY Tokens, RingQueueAssumption DEF IInv, ShapeOK
<1>4. write' + read' + Cardinality(Holding') = Cap
  <2> DEFINE w == write'
             r == read'
  <2>1. w \in Nat /\ r \in Nat /\ w + r = write + read - 1
    OBVIOUS
  <2> HIDE DEF w, r
  <2>2. w + r + Cardinality(Holding') = Cap
    BY <1>2, <1>3, <2>1, HoldingFinite
  <2> QED
    BY <2>2 DEF w, r
<1> QED
  BY <1>4, Tokens

\* ... by one that posts a semaphore and no longer holds one, ...
LEMMA Posted ==
  ASSUME IInv, NEW t \in Threads, NEW to \in {"idle", "got"}, Goto(t, "post", to),
         write' + read' = write + read + 1, write' \in Nat, read' \in Nat
  PROVE  TokensConserved'
<1>1. t \in Holding /\ Holding' = Holding \ {t}
  BY DEF Goto, Holding, At, IInv, ShapeOK
<1>2. Cardinality(Holding') = Cardinality(Holding) - 1
  BY <1>1, HoldingFinite, FS_RemoveElement
<1>3. write + read + Cardinality(Holding) = Cap /\ write \in Nat /\ read \in Nat /\ Cap \in Nat
  BY Tokens, RingQueueAssumption DEF IInv, ShapeOK
<1>4. write' + read' + Cardinality(Holding') = Cap
  <2> DEFINE w == write'
             r == read'
  <2>1. w \in Nat /\ r \in Nat /\ w + r = write + read + 1
    OBVIOUS
  <2> HIDE DEF w, r
  <2>2. w + r + Cardinality(Holding') = Cap
    BY <1>2, <1>3, <2>1, HoldingFinite
  <2> QED
    BY <2>2 DEF w, r
<1> QED
  BY <1>4, Tokens

\* ... and by one that leaves the semaphores and the threads between P and V alone.
LEMMA Kept ==
  ASSUME IInv, UNCHANGED semaphores, Holding' = Holding
  PROVE  TokensConserved'
  BY Tokens DEF IInv, semaphores

-------------------------------------------------------------------------------
\* The inductive invariant holds before the threads have run.
LEMMA InitIInv == Init => IInv
<1> SUFFICES ASSUME Init PROVE IInv
  OBVIOUS
<1>1. Holding = {}
  BY DEF Init, Holding, At
<1>2. TokensConserved
  BY <1>1, Tokens, FS_EmptySet, RingQueueAssumption DEF Init
<1> QED
  BY <1>2, RingQueueAssumption DEF Init, IInv, ShapeOK, ItemInv, Threads

\* A step of a producer preserves it.
LEMMA ProducerIInv == ASSUME IInv, NEW p \in Producers, ProducerStep(p) PROVE IInv'
<1> USE RingQueueAssumption DEF IInv, ShapeOK, ItemInv, Goto, ring, semaphores, mutexes
<1>0. p \in Threads /\ p \notin Consumers
  BY DEF Threads
<1>1. ASSUME NEW d \in Item, CallPush(p, d) PROVE IInv'
  <2>1. Holding' = Holding
    BY <1>0, <1>1 DEF CallPush, Holding, At
  <2> QED
    BY <1>0, <1>1, <2>1, Kept DEF CallPush
<1>2. CASE ClaimFree(p)
  <2>0. /\ Goto(p, "claim", "lock") /\ write' \in Nat /\ read' \in Nat
        /\ write' + read' = write + read - 1
    BY <1>0, <1>2 DEF ClaimFree
  <2>1. TokensConserved'
    BY <1>0, <2>0, Claimed
  <2> QED
    BY <1>0, <1>2, <2>1 DEF ClaimFree
<1>3. CASE LockP(p)
  <2>1. Holding' = Holding
    BY <1>0, <1>3 DEF LockP, Holding, At
  <2> QED
    BY <1>0, <1>3, <2>1, Kept DEF LockP
<1>4. CASE Store(p)
  <2>1. Holding' = Holding
    BY <1>0, <1>4 DEF Store, Holding, At
  <2>2. Index(wPos) \in 0 .. Cap - 1 /\ Advance(wPos) \in 0 .. PosMod - 1
    BY Positions
  <2> QED
    BY <1>0, <1>4, <2>1, <2>2, Kept DEF Store
<1>5. CASE UnlockP(p)
  <2>1. Holding' = Holding
    BY <1>0, <1>5 DEF UnlockP, Holding, At
  <2> QED
    BY <1>0, <1>5, <2>1, Kept DEF UnlockP
<1>6. CASE PostFilled(p)
  <2>0. /\ Goto(p, "post", "idle") /\ write' \in Nat /\ read' \in Nat
        /\ write' + read' = write + read + 1
    BY <1>0, <1>6 DEF PostFilled
  <2>1. TokensConserved'
    BY <1>0, <2>0, Posted
  <2> QED
    BY <1>0, <1>6, <2>1 DEF PostFilled
<1> QED
  BY <1>1, <1>2, <1>3, <1>4, <1>5, <1>6 DEF ProducerStep

\* So does a step of a consumer.
LEMMA ConsumerIInv == ASSUME IInv, NEW c \in Consumers, ConsumerStep(c) PROVE IInv'
<1> USE RingQueueAssumption DEF IInv, ShapeOK, ItemInv, Goto, ring, semaphores, mutexes
<1>0. c \in Threads /\ c \notin Producers /\ Producers \subseteq Threads
  BY DEF Threads
<1>1. CASE CallPop(c)
  <2>1. Holding' = Holding
    BY <1>0, <1>1 DEF CallPop, Holding, At
  <2> QED
    BY <1>0, <1>1, <2>1, Kept DEF CallPop
<1>2. CASE ClaimFilled(c)
  <2>0. /\ Goto(c, "claim", "lock") /\ write' \in Nat /\ read' \in Nat
        /\ write' + read' = write + read - 1
    BY <1>0, <1>2 DEF ClaimFilled
  <2>1. TokensConserved'
    BY <1>0, <2>0, Claimed
  <2> QED
    BY <1>0, <1>2, <2>1 DEF ClaimFilled
<1>3. CASE LockV(c)
  <2>1. Holding' = Holding
    BY <1>0, <1>3 DEF LockV, Holding, At
  <2> QED
    BY <1>0, <1>3, <2>1, Kept DEF LockV
<1>4. CASE Fetch(c)
  <2>1. Holding' = Holding
    BY <1>0, <1>4 DEF Fetch, Holding, At
  <2>2. Index(rPos) \in 0 .. Cap - 1 /\ Advance(rPos) \in 0 .. PosMod - 1
    BY Positions
  <2> QED
    BY <1>0, <1>4, <2>1, <2>2, Kept DEF Fetch
<1>5. CASE UnlockV(c)
  <2>1. Holding' = Holding
    BY <1>0, <1>5 DEF UnlockV, Holding, At
  <2> QED
    BY <1>0, <1>5, <2>1, Kept DEF UnlockV
<1>6. CASE PostFree(c)
  <2>0. /\ Goto(c, "post", "got") /\ write' \in Nat /\ read' \in Nat
        /\ write' + read' = write + read + 1
    BY <1>0, <1>6 DEF PostFree
  <2>1. TokensConserved'
    BY <1>0, <2>0, Posted
  <2> QED
    BY <1>0, <1>6, <2>1 DEF PostFree
<1>7. CASE Execute(c)
  <2>1. Holding' = Holding
    BY <1>0, <1>7 DEF Execute, Holding, At
  <2> QED
    BY <1>0, <1>7, <2>1, Kept DEF Execute
<1> QED
  BY <1>1, <1>2, <1>3, <1>4, <1>5, <1>6, <1>7 DEF ConsumerStep

\* The inductive invariant holds in every execution.
\* Every step preserves it.
LEMMA StepIInv == IInv /\ [Next]_vars => IInv'
<1>1. IInv /\ UNCHANGED vars => IInv'
  BY DEF vars, ring, semaphores, mutexes, IInv, ShapeOK, ItemInv, TokensConserved, At, Threads
<1> QED
  BY <1>1, ProducerIInv, ConsumerIInv DEF Next

\* So it always holds.
LEMMA AlwaysIInv == Spec => []IInv
  BY InitIInv, StepIInv, PTL DEF Spec

\* For any numbers of threads and slots: each slot is counted by one semaphore or held by
\* one thread between its P and its V (ring_queue.hpp:63-68, :73-78).
THEOREM SlotsConserved == Spec => []TokensConserved
<1>1. IInv => TokensConserved
  BY DEF IInv
<1> QED
  BY <1>1, AlwaysIInv, PTL

\* For any numbers of threads and slots: no semaphore ever exceeds the capacity, and the
\* positions always denote a slot, also where a size_t wraps (ring_queue.hpp:58-78).
THEOREM TypeCorrect == Spec => []TypeOK
<1>1. IInv => TypeOK
  BY Tokens, HoldingFinite, RingQueueAssumption DEF IInv, ShapeOK, TypeOK
<1> QED
  BY <1>1, AlwaysIInv, PTL

\* Both together, what the run checks of the ring for two threads a side and two slots.
THEOREM Safety == Spec => []Safe
  BY SlotsConserved, TypeCorrect, PTL DEF Safe

-------------------------------------------------------------------------------
(***************************************************************************)
(* What is between the positions.  From here on the number of positions is *)
(* a multiple of the capacity: else the slots jump when a position wraps.  *)
(***************************************************************************)
Multiple == PosMod % Cap = 0

\* How far position w is ahead of position r.
Dist(w, r) == (w + PosMod - r) % PosMod

\* A smaller factor gives a product that is smaller by at least Cap.
LEMMA Mono == ASSUME NEW a \in Int, NEW b \in Int, a < b
              PROVE  a * Cap + Cap <= b * Cap
<1> USE RingQueueAssumption
<1>1. (a + 1) * Cap <= b * Cap
  BY SMTT(20)
<1>2. (a + 1) * Cap = a * Cap + Cap
  BY SMTT(20)
<1> QED
  BY <1>1, <1>2

\* Division with remainder.
LEMMA Division == ASSUME NEW x \in Nat
                  PROVE  /\ x % Cap \in 0 .. Cap - 1 /\ x \div Cap \in Nat
                         /\ (x \div Cap) * Cap \in Nat
                         /\ x = (x \div Cap) * Cap + (x % Cap)
  BY RingQueueAssumption, SMTT(20)

\* Numbers that are different but less than Cap apart denote different slots.
LEMMA Apart == ASSUME NEW x \in Nat, NEW y \in Nat, x < y, y - x < Cap
               PROVE  x % Cap # y % Cap
<1> DEFINE a == x \div Cap
           b == y \div Cap
<1>1. a \in Nat /\ a * Cap \in Nat /\ x = a * Cap + (x % Cap) /\ x % Cap \in 0 .. Cap - 1
  BY Division
<1>2. b \in Nat /\ b * Cap \in Nat /\ y = b * Cap + (y % Cap) /\ y % Cap \in 0 .. Cap - 1
  BY Division
<1> HIDE DEF a, b
<1>3. SUFFICES ASSUME x % Cap = y % Cap PROVE FALSE
  OBVIOUS
<1>4. y - x = b * Cap - a * Cap
  BY <1>1, <1>2, <1>3
<1>5. a < b \/ a = b \/ b < a
  BY <1>1, <1>2
<1>6. CASE a < b
  BY <1>1, <1>2, <1>4, <1>6, Mono, RingQueueAssumption
<1>7. CASE a = b
  BY <1>4, <1>7, <1>1
<1>8. CASE b < a
  BY <1>1, <1>2, <1>4, <1>8, Mono, RingQueueAssumption
<1> QED
  BY <1>5, <1>6, <1>7, <1>8

\* A position that wraps loses PosMod once.
LEMMA Wraps == ASSUME NEW x \in 0 .. 2 * PosMod - 1
               PROVE  x % PosMod = IF x < PosMod THEN x ELSE x - PosMod
<1>1. PosMod \in Nat \ {0} /\ x \in Nat /\ x < 2 * PosMod
  BY RingQueueAssumption
<1>2. \A m \in Nat \ {0} : \A y \in Nat : y < m => y % m = y
  BY SMTT(20)
<1>3. \A m \in Nat \ {0} : \A y \in Nat : y < 2 * m /\ m <= y => y % m = y - m
  BY SMTT(20)
<1>4. CASE x < PosMod
  <2>1. x % PosMod = x
    BY <1>1, <1>2, <1>4, Zenon
  <2> QED
    BY <2>1, <1>4
<1>5. CASE ~ x < PosMod
  <2>1. PosMod <= x
    BY <1>1, <1>5
  <2>2. x % PosMod = x - PosMod
    BY <1>1, <1>3, <2>1, Zenon
  <2> QED
    BY <2>2, <1>5
<1> QED
  BY <1>4, <1>5

\* It denotes the same slot all the same.
LEMMA SameSlot == ASSUME Multiple, NEW x \in 0 .. PosMod - 1
                  PROVE  (x + PosMod) % Cap = x % Cap
<1> DEFINE k == PosMod \div Cap
           a == x \div Cap
           b == (x + PosMod) \div Cap
           s == (x + PosMod) % Cap
           r == x % Cap
<1> USE RingQueueAssumption
<1>0. x \in Nat /\ x + PosMod \in Nat /\ PosMod \in Nat
  OBVIOUS
<1>1. k \in Nat /\ k * Cap \in Nat /\ PosMod = k * Cap
  BY <1>0, Division DEF Multiple
<1>2. a \in Nat /\ a * Cap \in Nat /\ x = a * Cap + r /\ r \in 0 .. Cap - 1
  BY <1>0, Division
<1>3. b \in Nat /\ b * Cap \in Nat /\ x + PosMod = b * Cap + s /\ s \in 0 .. Cap - 1
  BY <1>0, Division
<1> HIDE DEF k, a, b, s, r
<1>4. (a + k) * Cap = a * Cap + k * Cap /\ a + k \in Nat
  BY <1>1, <1>2, SMTT(20)
<1>5. (a + k) * Cap + r = b * Cap + s /\ (a + k) * Cap \in Nat
  BY <1>1, <1>2, <1>3, <1>4
<1>6. ~ a + k < b
  BY <1>2, <1>3, <1>4, <1>5, Mono
<1>7. ~ b < a + k
  BY <1>2, <1>3, <1>4, <1>5, Mono
<1>8. a + k = b
  BY <1>3, <1>4, <1>6, <1>7
<1>9. s = r
  BY <1>2, <1>3, <1>5, <1>8
<1> QED
  BY <1>9 DEF s, r

\* Positions less than Cap apart denote different slots, across the wrap too.
LEMMA SlotsDiffer ==
  ASSUME Multiple, NEW w \in 0 .. PosMod - 1, NEW r \in 0 .. PosMod - 1, Dist(w, r) \in 1 .. Cap - 1
  PROVE  Index(w) # Index(r)
<1> USE RingQueueAssumption
<1>1. w + PosMod - r \in 0 .. 2 * PosMod - 1
  OBVIOUS
<1>2. Dist(w, r) = IF w + PosMod - r < PosMod THEN w + PosMod - r ELSE w - r
  <2>1. (w + PosMod - r) % PosMod = IF w + PosMod - r < PosMod THEN w + PosMod - r ELSE w + PosMod - r - PosMod
    BY <1>1, Wraps
  <2>2. w + PosMod - r - PosMod = w - r
    OBVIOUS
  <2> QED
    BY <2>1, <2>2, Zenon DEF Dist
<1>3. CASE r <= w
  <2>1. r < w /\ w - r < Cap /\ r \in Nat /\ w \in Nat
    BY <1>2, <1>3
  <2> QED
    BY <2>1, Apart DEF Index
<1>4. CASE w < r
  <2>1. r < w + PosMod /\ w + PosMod - r < Cap /\ r \in Nat /\ w + PosMod \in Nat
    BY <1>2, <1>4
  <2> DEFINE v == w + PosMod
  <2>2. v \in Nat /\ r < v /\ v - r < Cap
    BY <2>1
  <2> HIDE DEF v
  <2>3. r % Cap # v % Cap
    BY <2>1, <2>2, Apart
  <2> QED
    BY <2>3, SameSlot DEF v, Index
<1> QED
  BY <1>3, <1>4

\* The i-th position from r on, seen from w, when w is n ahead.
LEMMA Positioned ==
  ASSUME NEW w \in 0 .. PosMod - 1, NEW r \in 0 .. PosMod - 1, NEW i \in 1 .. Dist(w, r)
  PROVE  /\ (r + i - 1) % PosMod \in 0 .. PosMod - 1
         /\ Dist(w, (r + i - 1) % PosMod) = Dist(w, r) - i + 1
<1> USE RingQueueAssumption
<1> DEFINE x == (r + i - 1) % PosMod
<1>1. w + PosMod - r \in 0 .. 2 * PosMod - 1
  OBVIOUS
<1>2. Dist(w, r) = IF w + PosMod - r < PosMod THEN w + PosMod - r ELSE w - r
  BY <1>1, Wraps DEF Dist
<1>3. r + i - 1 \in 0 .. 2 * PosMod - 1
  BY <1>2
<1>4. x = IF r + i - 1 < PosMod THEN r + i - 1 ELSE r + i - 1 - PosMod
  <2> DEFINE y == r + i - 1
  <2>1. y \in 0 .. 2 * PosMod - 1
    BY <1>3
  <2> HIDE DEF y
  <2>2. y % PosMod = IF y < PosMod THEN y ELSE y - PosMod
    BY <2>1, Wraps
  <2> QED
    BY <2>2 DEF y
<1>5. x \in 0 .. PosMod - 1 /\ w + PosMod - x \in 0 .. 2 * PosMod - 1
  BY <1>3, <1>4
<1> HIDE DEF x
<1>6. Dist(w, x) = IF w + PosMod - x < PosMod THEN w + PosMod - x ELSE w - x
  BY <1>5, Wraps DEF Dist
<1>7. Dist(w, x) = Dist(w, r) - i + 1
  BY <1>2, <1>4, <1>5, <1>6
<1> QED
  BY <1>5, <1>7 DEF x

\* How the distance changes when a position advances, and what is behind a position.
LEMMA Distances ==
  ASSUME NEW w \in 0 .. PosMod - 1, NEW r \in 0 .. PosMod - 1
  PROVE  /\ Dist(w, r) \in 0 .. PosMod - 1
         /\ Dist(w, r) + 1 < PosMod => Dist(Advance(w), r) = Dist(w, r) + 1
         /\ Dist(w, r) > 0 => Dist(w, Advance(r)) = Dist(w, r) - 1
         /\ (r + PosMod - 1) % PosMod \in 0 .. PosMod - 1
         /\ Dist(w, r) + 1 < PosMod => Dist(w, (r + PosMod - 1) % PosMod) = Dist(w, r) + 1
         /\ (Advance(r) + PosMod - 1) % PosMod = r
<1> USE RingQueueAssumption
<1> DEFINE p == (r + PosMod - 1) % PosMod
<1>0. PosMod \in Nat \ {0, 1}
  OBVIOUS
<1>1. \A y \in 0 .. PosMod - 1, z \in 0 .. PosMod - 1 :
        Dist(y, z) = IF y < z THEN y + PosMod - z ELSE y - z
  <2> TAKE y \in 0 .. PosMod - 1, z \in 0 .. PosMod - 1
  <2>1. y + PosMod - z \in 0 .. 2 * PosMod - 1
    OBVIOUS
  <2> QED
    BY <2>1, Wraps DEF Dist
<1>2. \A y \in 0 .. PosMod - 1 : Advance(y) = IF y + 1 < PosMod THEN y + 1 ELSE 0
  <2> TAKE y \in 0 .. PosMod - 1
  <2>1. y + 1 \in 0 .. 2 * PosMod - 1 /\ y + 1 <= PosMod
    BY <1>0
  <2> QED
    BY <2>1, Wraps DEF Advance
<1>3. Advance(w) \in 0 .. PosMod - 1 /\ Advance(r) \in 0 .. PosMod - 1
  BY <1>0, <1>2
<1>4. p = IF r = 0 THEN PosMod - 1 ELSE r - 1
  <2>1. r + PosMod - 1 \in 0 .. 2 * PosMod - 1
    BY <1>0
  <2> QED
    BY <2>1, Wraps
<1>5. p \in 0 .. PosMod - 1
  BY <1>0, <1>4
<1>6. (Advance(r) + PosMod - 1) % PosMod = r
  <2>1. Advance(r) + PosMod - 1 \in 0 .. 2 * PosMod - 1
    BY <1>0, <1>3
  <2> QED
    BY <1>0, <1>2, <2>1, Wraps
<1> HIDE DEF p
<1>7. Dist(w, r) = (IF w < r THEN w + PosMod - r ELSE w - r)
  BY <1>1
<1>8. Dist(w, r) + 1 < PosMod => Dist(Advance(w), r) = Dist(w, r) + 1
  BY <1>0, <1>1, <1>2, <1>3, <1>7
<1>9. Dist(w, r) > 0 => Dist(w, Advance(r)) = Dist(w, r) - 1
  BY <1>0, <1>1, <1>2, <1>3, <1>7
<1>10. Dist(w, r) + 1 < PosMod => Dist(w, p) = Dist(w, r) + 1
  BY <1>0, <1>1, <1>4, <1>5, <1>7
<1> QED
  BY <1>5, <1>6, <1>7, <1>8, <1>9, <1>10 DEF p

-------------------------------------------------------------------------------
(***************************************************************************)
(* The refinement, and what a consumer has just fetched.                   *)
(***************************************************************************)
\* The threads that move an item in or out of the ring, before and after they do.
Bringing == At(Producers, {"lock", "access"})
Brought == At(Producers, {"unlock", "post"})
Fetching == At(Consumers, {"lock", "access"})
Fetched == At(Consumers, {"unlock", "post"})

\* How many items the positions enclose, and the slot of the j-th of them.
Stored == Dist(wPos, rPos)
Place(j) == (rPos + j - 1) % PosMod

\* The items that are stored are counted by _read, but for those just brought or about to
\* be fetched; what else there is of slots is counted by _write, but for those about to
\* be filled or just fetched.
Balance(stored, wr, rd, bringing, brought, fetching, fetched) ==
  /\ stored = rd + brought + fetching
  /\ stored + wr + bringing + fetched = Cap

CountInv == Balance(Stored, write, read, Cardinality(Bringing), Cardinality(Brought),
                    Cardinality(Fetching), Cardinality(Fetched))

\* _vMutex is held by the consumer that is inside, and by no other.
HolderInv == \A c \in Consumers : pc[c] \in {"access", "unlock"} => vMutex = {c}

\* A consumer that has fetched and not released _vMutex has the slot behind _rPos.
RefInv == \A c \in Consumers : pc[c] = "unlock" =>
            ref[c] = Index((rPos + PosMod - 1) % PosMod) /\ slot[ref[c]] = item[c]

\* What is on its way into the ring, in it, or out of it, are items.
ItemsInv == /\ \A p \in Producers : pc[p] \in {"claim", "lock", "access"} => item[p] \in Item
            /\ \A j \in 1 .. Stored : slot[Index(Place(j))] \in Item
            /\ \A c \in Consumers : pc[c] \in {"unlock", "post", "got"} => item[c] \in Item

\* The inductive invariant for the refinement.
RInv == IInv /\ CountInv /\ HolderInv /\ RefInv /\ ItemsInv

\* How a step of a thread changes the number of threads at some places.
LEMMA AtMoves ==
  ASSUME IInv, NEW S \in {Producers, Consumers}, NEW t \in Threads, NEW from, NEW to,
         Goto(t, from, to), NEW places
  PROVE  /\ Cardinality(At(S, places)) \in Nat
         /\ t \in S /\ from \notin places /\ to \in places
              => Cardinality(At(S, places)') = Cardinality(At(S, places)) + 1
         /\ t \in S /\ from \in places /\ to \notin places
              => Cardinality(At(S, places)') = Cardinality(At(S, places)) - 1
         /\ t \notin S \/ (from \in places <=> to \in places)
              => At(S, places)' = At(S, places)
<1> DEFINE A == At(S, places)
           B == At(S, places)'
<1>1. S \subseteq Threads /\ pc[t] = from /\ pc' = [pc EXCEPT ![t] = to] /\ DOMAIN pc = Threads
  BY DEF Threads, Goto, IInv, ShapeOK
<1>2. IsFiniteSet(A) /\ Cardinality(A) \in Nat
  <2>1. IsFiniteSet(S) /\ A \in SUBSET S
    BY RingQueueAssumption DEF At
  <2> QED
    BY <2>1, FS_Subset, FS_CardinalityType
<1>3. ASSUME t \in S, from \notin places, to \in places PROVE Cardinality(B) = Cardinality(A) + 1
  <2>1. t \notin A /\ B = A \cup {t}
    BY <1>1, <1>3 DEF At
  <2> QED
    BY <1>2, <2>1, FS_AddElement
<1>4. ASSUME t \in S, from \in places, to \notin places PROVE Cardinality(B) = Cardinality(A) - 1
  <2>1. t \in A /\ B = A \ {t}
    BY <1>1, <1>4 DEF At
  <2> QED
    BY <1>2, <2>1, FS_RemoveElement
<1>5. ASSUME t \notin S \/ (from \in places <=> to \in places) PROVE B = A
  BY <1>1, <1>5 DEF At
<1> QED
  BY <1>2, <1>3, <1>4, <1>5

\* The threads at some places are finitely many.
LEMMA Finitely ==
  ASSUME NEW S \in {Producers, Consumers}, NEW places
  PROVE  /\ Cardinality(At(S, places)) \in Nat
         /\ \A t \in S : pc[t] \in places => Cardinality(At(S, places)) > 0
<1> DEFINE A == At(S, places)
<1>1. IsFiniteSet(A) /\ Cardinality(A) \in Nat
  <2>1. IsFiniteSet(S) /\ A \in SUBSET S
    BY RingQueueAssumption DEF At
  <2> QED
    BY <2>1, FS_Subset, FS_CardinalityType
<1>2. ASSUME NEW t \in S, pc[t] \in places PROVE Cardinality(A) > 0
  <2>1. A # {}
    BY <1>2 DEF At
  <2> QED
    BY <1>1, <2>1, FS_EmptySet
<1> QED
  BY <1>1, <1>2

\* Their numbers are numbers.
LEMMA Counted == /\ Cardinality(Bringing) \in Nat /\ Cardinality(Brought) \in Nat
                 /\ Cardinality(Fetching) \in Nat /\ Cardinality(Fetched) \in Nat
  BY Finitely DEF Bringing, Brought, Fetching, Fetched

\* What the counts say when a producer or a consumer is about to move an item.
LEMMA Room ==
  ASSUME IInv, CountInv
  PROVE  /\ Stored \in Nat /\ Stored <= Cap
         /\ \A p \in Producers : pc[p] = "access" => Stored < Cap /\ Stored + 1 < PosMod
         /\ \A c \in Consumers : pc[c] = "access" => Stored > 0
         /\ \A p \in Producers, c \in Consumers : pc[p] = "access" /\ pc[c] = "unlock" => Stored + 1 < Cap
<1> USE RingQueueAssumption
<1>1. Stored \in 0 .. PosMod - 1 /\ write \in Nat /\ read \in Nat
  BY Distances DEF Stored, IInv, ShapeOK
<1>2. \A p \in Producers : pc[p] = "access" => Cardinality(Bringing) > 0
  BY Finitely DEF Bringing
<1>3. \A c \in Consumers : /\ pc[c] = "access" => Cardinality(Fetching) > 0
                           /\ pc[c] = "unlock" => Cardinality(Fetched) > 0
  BY Finitely DEF Fetching, Fetched
<1> QED
  BY <1>1, <1>2, <1>3, Counted DEF CountInv, Balance

\* Each step of a producer preserves the counts.
LEMMA ProducerCount ==
  ASSUME IInv, CountInv, NEW p \in Producers, ProducerStep(p)
  PROVE  CountInv'
<1> USE RingQueueAssumption
<1>0. /\ p \in Threads /\ p \notin Consumers /\ Producers \in {Producers, Consumers}
      /\ Consumers \in {Producers, Consumers}
      /\ wPos \in 0 .. PosMod - 1 /\ rPos \in 0 .. PosMod - 1 /\ write \in Nat /\ read \in Nat
  BY DEF Threads, IInv, ShapeOK
<1>1. ASSUME NEW from, NEW to, Goto(p, from, to)
      PROVE  /\ Cardinality(Bringing) \in Nat /\ Cardinality(Brought) \in Nat
             /\ Fetching' = Fetching /\ Fetched' = Fetched
             /\ from \notin {"lock", "access"} /\ to \in {"lock", "access"}
                  => Cardinality(Bringing') = Cardinality(Bringing) + 1
             /\ from \in {"lock", "access"} /\ to \notin {"lock", "access"}
                  => Cardinality(Bringing') = Cardinality(Bringing) - 1
             /\ (from \in {"lock", "access"} <=> to \in {"lock", "access"}) => Bringing' = Bringing
             /\ from \notin {"unlock", "post"} /\ to \in {"unlock", "post"}
                  => Cardinality(Brought') = Cardinality(Brought) + 1
             /\ from \in {"unlock", "post"} /\ to \notin {"unlock", "post"}
                  => Cardinality(Brought') = Cardinality(Brought) - 1
             /\ (from \in {"unlock", "post"} <=> to \in {"unlock", "post"}) => Brought' = Brought
  BY <1>0, <1>1, AtMoves DEF Bringing, Brought, Fetching, Fetched
<1>2. Cardinality(Fetching) \in Nat /\ Cardinality(Fetched) \in Nat /\ Stored \in Nat
  BY <1>0, Room, Counted
<1>3. ASSUME (\E d \in Item : CallPush(p, d)) \/ LockP(p) \/ UnlockP(p) PROVE CountInv'
  <2>1. Bringing' = Bringing /\ Brought' = Brought /\ Fetching' = Fetching /\ Fetched' = Fetched
    BY <1>1, <1>3 DEF CallPush, LockP, UnlockP
  <2>2. wPos' = wPos /\ rPos' = rPos /\ write' = write /\ read' = read
    BY <1>3 DEF CallPush, LockP, UnlockP, ring, semaphores
  <2>3. Stored' = Stored
    BY <2>2 DEF Stored, Dist
  <2> QED
    BY <2>1, <2>2, <2>3 DEF CountInv
<1>4. ASSUME ClaimFree(p) PROVE CountInv'
  <2>1. /\ Cardinality(Bringing') = Cardinality(Bringing) + 1 /\ Brought' = Brought
        /\ Fetching' = Fetching /\ Fetched' = Fetched
    BY <1>1, <1>4 DEF ClaimFree
  <2>2. wPos' = wPos /\ rPos' = rPos /\ write' = write - 1 /\ read' = read
    BY <1>4 DEF ClaimFree, ring
  <2>3. Stored' = Stored
    BY <2>2 DEF Stored, Dist
  <2>4. Balance(Stored, write - 1, read, Cardinality(Bringing) + 1, Cardinality(Brought),
              Cardinality(Fetching), Cardinality(Fetched))
    BY <1>0, <1>1, <1>2, Counted DEF CountInv, Balance
  <2> QED
    BY <2>1, <2>2, <2>3, <2>4, Zenon DEF CountInv
<1>5. ASSUME Store(p) PROVE CountInv'
  <2>1. /\ Cardinality(Bringing') = Cardinality(Bringing) - 1
        /\ Cardinality(Brought') = Cardinality(Brought) + 1
        /\ Fetching' = Fetching /\ Fetched' = Fetched
    BY <1>1, <1>5 DEF Store
  <2>2. wPos' = Advance(wPos) /\ rPos' = rPos /\ write' = write /\ read' = read
    BY <1>5 DEF Store, semaphores
  <2>3. Stored + 1 < PosMod
    BY <1>5, Room DEF Store, Goto
  <2>4. Stored' = Stored + 1
    BY <1>0, <2>2, <2>3, Distances DEF Stored
  <2>5. Balance(Stored + 1, write, read, Cardinality(Bringing) - 1, Cardinality(Brought) + 1,
              Cardinality(Fetching), Cardinality(Fetched))
    BY <1>0, <1>1, <1>2, Counted DEF CountInv, Balance
  <2> QED
    BY <2>1, <2>2, <2>4, <2>5, Zenon DEF CountInv
<1>6. ASSUME PostFilled(p) PROVE CountInv'
  <2>1. /\ Bringing' = Bringing /\ Cardinality(Brought') = Cardinality(Brought) - 1
        /\ Fetching' = Fetching /\ Fetched' = Fetched
    BY <1>1, <1>6 DEF PostFilled
  <2>2. wPos' = wPos /\ rPos' = rPos /\ write' = write /\ read' = read + 1
    BY <1>6 DEF PostFilled, ring
  <2>3. Stored' = Stored
    BY <2>2 DEF Stored, Dist
  <2>4. Balance(Stored, write, read + 1, Cardinality(Bringing), Cardinality(Brought) - 1,
              Cardinality(Fetching), Cardinality(Fetched))
    BY <1>0, <1>1, <1>2, Counted DEF CountInv, Balance
  <2> QED
    BY <2>1, <2>2, <2>3, <2>4, Zenon DEF CountInv
<1> QED
  BY <1>3, <1>4, <1>5, <1>6 DEF ProducerStep

\* So does each step of a consumer.
LEMMA ConsumerCount ==
  ASSUME IInv, CountInv, NEW c \in Consumers, ConsumerStep(c)
  PROVE  CountInv'
<1> USE RingQueueAssumption
<1>0. /\ c \in Threads /\ c \notin Producers /\ Producers \in {Producers, Consumers}
      /\ Consumers \in {Producers, Consumers}
      /\ wPos \in 0 .. PosMod - 1 /\ rPos \in 0 .. PosMod - 1 /\ write \in Nat /\ read \in Nat
  BY DEF Threads, IInv, ShapeOK
<1>1. ASSUME NEW from, NEW to, Goto(c, from, to)
      PROVE  /\ Cardinality(Fetching) \in Nat /\ Cardinality(Fetched) \in Nat
             /\ Bringing' = Bringing /\ Brought' = Brought
             /\ from \notin {"lock", "access"} /\ to \in {"lock", "access"}
                  => Cardinality(Fetching') = Cardinality(Fetching) + 1
             /\ from \in {"lock", "access"} /\ to \notin {"lock", "access"}
                  => Cardinality(Fetching') = Cardinality(Fetching) - 1
             /\ (from \in {"lock", "access"} <=> to \in {"lock", "access"}) => Fetching' = Fetching
             /\ from \notin {"unlock", "post"} /\ to \in {"unlock", "post"}
                  => Cardinality(Fetched') = Cardinality(Fetched) + 1
             /\ from \in {"unlock", "post"} /\ to \notin {"unlock", "post"}
                  => Cardinality(Fetched') = Cardinality(Fetched) - 1
             /\ (from \in {"unlock", "post"} <=> to \in {"unlock", "post"}) => Fetched' = Fetched
  BY <1>0, <1>1, AtMoves DEF Bringing, Brought, Fetching, Fetched
<1>2. Cardinality(Bringing) \in Nat /\ Cardinality(Brought) \in Nat /\ Stored \in Nat
  BY <1>0, Room, Counted
<1>3. ASSUME CallPop(c) \/ LockV(c) \/ UnlockV(c) \/ Execute(c) PROVE CountInv'
  <2>1. Bringing' = Bringing /\ Brought' = Brought /\ Fetching' = Fetching /\ Fetched' = Fetched
    BY <1>1, <1>3 DEF CallPop, LockV, UnlockV, Execute
  <2>2. wPos' = wPos /\ rPos' = rPos /\ write' = write /\ read' = read
    BY <1>3 DEF CallPop, LockV, UnlockV, Execute, ring, semaphores
  <2>3. Stored' = Stored
    BY <2>2 DEF Stored, Dist
  <2> QED
    BY <2>1, <2>2, <2>3 DEF CountInv
<1>4. ASSUME ClaimFilled(c) PROVE CountInv'
  <2>1. /\ Cardinality(Fetching') = Cardinality(Fetching) + 1 /\ Fetched' = Fetched
        /\ Bringing' = Bringing /\ Brought' = Brought
    BY <1>1, <1>4 DEF ClaimFilled
  <2>2. wPos' = wPos /\ rPos' = rPos /\ write' = write /\ read' = read - 1
    BY <1>4 DEF ClaimFilled, ring
  <2>3. Stored' = Stored
    BY <2>2 DEF Stored, Dist
  <2>4. Balance(Stored, write, read - 1, Cardinality(Bringing), Cardinality(Brought),
              Cardinality(Fetching) + 1, Cardinality(Fetched))
    BY <1>0, <1>1, <1>2, Counted DEF CountInv, Balance
  <2> QED
    BY <2>1, <2>2, <2>3, <2>4, Zenon DEF CountInv
<1>5. ASSUME Fetch(c) PROVE CountInv'
  <2>1. /\ Cardinality(Fetching') = Cardinality(Fetching) - 1
        /\ Cardinality(Fetched') = Cardinality(Fetched) + 1
        /\ Bringing' = Bringing /\ Brought' = Brought
    BY <1>1, <1>5 DEF Fetch
  <2>2. rPos' = Advance(rPos) /\ wPos' = wPos /\ write' = write /\ read' = read
    BY <1>5 DEF Fetch, semaphores
  <2>3. Stored > 0
    BY <1>5, Room DEF Fetch, Goto
  <2>4. Stored' = Stored - 1
    BY <1>0, <2>2, <2>3, Distances DEF Stored
  <2>5. Balance(Stored - 1, write, read, Cardinality(Bringing), Cardinality(Brought),
              Cardinality(Fetching) - 1, Cardinality(Fetched) + 1)
    BY <1>0, <1>1, <1>2, Counted DEF CountInv, Balance
  <2> QED
    BY <2>1, <2>2, <2>4, <2>5, Zenon DEF CountInv
<1>6. ASSUME PostFree(c) PROVE CountInv'
  <2>1. /\ Fetching' = Fetching /\ Cardinality(Fetched') = Cardinality(Fetched) - 1
        /\ Bringing' = Bringing /\ Brought' = Brought
    BY <1>1, <1>6 DEF PostFree
  <2>2. wPos' = wPos /\ rPos' = rPos /\ write' = write + 1 /\ read' = read
    BY <1>6 DEF PostFree, ring
  <2>3. Stored' = Stored
    BY <2>2 DEF Stored, Dist
  <2>4. Balance(Stored, write + 1, read, Cardinality(Bringing), Cardinality(Brought),
              Cardinality(Fetching), Cardinality(Fetched) - 1)
    BY <1>0, <1>1, <1>2, Counted DEF CountInv, Balance
  <2> QED
    BY <2>1, <2>2, <2>3, <2>4, Zenon DEF CountInv
<1> QED
  BY <1>3, <1>4, <1>5, <1>6 DEF ConsumerStep

-------------------------------------------------------------------------------
\* The first and the last of the places, and those after the first.
LEMMA Places ==
  ASSUME NEW w \in 0 .. PosMod - 1, NEW r \in 0 .. PosMod - 1
  PROVE  /\ (r + 1 - 1) % PosMod = r
         /\ (r + (Dist(w, r) + 1) - 1) % PosMod = w
         /\ \A j \in 1 .. PosMod - 1 : (Advance(r) + j - 1) % PosMod = (r + (j + 1) - 1) % PosMod
<1> USE RingQueueAssumption
<1>0. PosMod \in Nat \ {0, 1}
  OBVIOUS
<1>1. (r + 1 - 1) % PosMod = r
  <2>1. r + 1 - 1 = r /\ r \in 0 .. 2 * PosMod - 1
    BY <1>0
  <2> QED
    BY <2>1, Wraps
<1>2. (r + (Dist(w, r) + 1) - 1) % PosMod = w
  <2> DEFINE d == Dist(w, r)
             x == r + (d + 1) - 1
  <2>1. w + PosMod - r \in 0 .. 2 * PosMod - 1
    OBVIOUS
  <2>2. d = IF w < r THEN w + PosMod - r ELSE w - r
    BY <2>1, Wraps DEF Dist
  <2> HIDE DEF d
  <2>3. x = IF w < r THEN w + PosMod ELSE w
    BY <2>2
  <2>4. x \in 0 .. 2 * PosMod - 1
    BY <1>0, <2>3
  <2> HIDE DEF x
  <2>5. x % PosMod = w
    BY <1>0, <2>3, <2>4, Wraps
  <2> QED
    BY <2>5 DEF x, d
<1>3. ASSUME NEW j \in 1 .. PosMod - 1
      PROVE  (Advance(r) + j - 1) % PosMod = (r + (j + 1) - 1) % PosMod
  <2> DEFINE a == Advance(r)
             x == a + j - 1
             y == r + (j + 1) - 1
  <2>1. r + 1 \in 0 .. 2 * PosMod - 1
    BY <1>0
  <2>2. a = IF r + 1 < PosMod THEN r + 1 ELSE 0
    BY <1>0, <2>1, Wraps DEF Advance
  <2> HIDE DEF a
  <2>3. x \in 0 .. 2 * PosMod - 1 /\ y \in 0 .. 2 * PosMod - 1
    BY <1>0, <2>2
  <2>4. x = y \/ (x < PosMod /\ ~ y < PosMod /\ x = y - PosMod)
    BY <1>0, <2>2
  <2> HIDE DEF x, y
  <2>5. x % PosMod = y % PosMod
    BY <1>0, <2>3, <2>4, Wraps
  <2> QED
    BY <2>5 DEF x, y, a
<1> QED
  BY <1>1, <1>2, <1>3

\* Each step preserves who is inside with _vMutex.
LEMMA StepHolder == ASSUME IInv, HolderInv, [Next]_vars PROVE HolderInv'
<1> USE RingQueueAssumption DEF HolderInv, Goto, Threads
<1>0. DOMAIN pc = Threads
  BY DEF IInv, ShapeOK
<1>1. ASSUME NEW p \in Producers, ProducerStep(p) PROVE HolderInv'
  BY <1>0, <1>1 DEF ProducerStep, CallPush, ClaimFree, LockP, Store, UnlockP, PostFilled, mutexes
<1>2. ASSUME NEW c \in Consumers, ConsumerStep(c) PROVE HolderInv'
  BY <1>0, <1>2 DEF ConsumerStep, CallPop, ClaimFilled, LockV, Fetch, UnlockV, PostFree, Execute, mutexes
<1>3. CASE UNCHANGED vars
  BY <1>3 DEF vars
<1> QED
  BY <1>1, <1>2, <1>3 DEF Next

\* The place behind _rPos, which a consumer that holds _vMutex has fetched from, is not
\* the one the next item is stored at.
LEMMA Behind ==
  ASSUME Multiple, IInv, CountInv, NEW p \in Producers, NEW c \in Consumers,
         pc[p] = "access", pc[c] = "unlock"
  PROVE  Index(wPos) # Index((rPos + PosMod - 1) % PosMod)
<1> USE RingQueueAssumption
<1>1. wPos \in 0 .. PosMod - 1 /\ rPos \in 0 .. PosMod - 1
  BY DEF IInv, ShapeOK
<1>2. Stored \in Nat /\ Stored + 1 < PosMod /\ Stored + 1 < Cap
  BY Room
<1>3. /\ (rPos + PosMod - 1) % PosMod \in 0 .. PosMod - 1
      /\ Dist(wPos, (rPos + PosMod - 1) % PosMod) = Stored + 1
  BY <1>1, <1>2, Distances DEF Stored
<1>4. Dist(wPos, (rPos + PosMod - 1) % PosMod) \in 1 .. Cap - 1
  BY <1>2, <1>3
<1> QED
  BY <1>1, <1>3, <1>4, SlotsDiffer

\* What Store does to the places: one more, and the others keep what they have; the slot
\* of a consumer that holds _vMutex keeps it, too.
LEMMA StoreKeeps ==
  ASSUME Multiple, IInv, CountInv, NEW p \in Producers, Store(p)
  PROVE  /\ Stored' = Stored + 1
         /\ \A j \in 1 .. Stored + 1 : Place(j)' = Place(j)
         /\ \A j \in 1 .. Stored : slot'[Index(Place(j))] = slot[Index(Place(j))]
         /\ Place(Stored + 1) = wPos /\ slot'[Index(wPos)] = item[p]
         /\ \A c \in Consumers : pc[c] = "unlock" => Index(wPos) # Index((rPos + PosMod - 1) % PosMod)
<1> USE RingQueueAssumption
<1>0. /\ wPos \in 0 .. PosMod - 1 /\ rPos \in 0 .. PosMod - 1 /\ pc[p] = "access"
      /\ slot \in [0 .. Cap - 1 -> Item \cup {NoItem}] /\ Index(wPos) \in 0 .. Cap - 1
      /\ slot' = [slot EXCEPT ![Index(wPos)] = item[p]]
      /\ wPos' = Advance(wPos) /\ rPos' = rPos
  BY Positions DEF IInv, ShapeOK, Store, Goto
<1>1. Stored < Cap /\ Stored + 1 < PosMod /\ Stored \in Nat
  BY <1>0, Room
<1>2. Stored' = Stored + 1
  BY <1>0, <1>1, Distances DEF Stored
<1>3. ASSUME NEW j \in 1 .. Stored
      PROVE  slot'[Index(Place(j))] = slot[Index(Place(j))]
  <2>1. Place(j) \in 0 .. PosMod - 1 /\ Dist(wPos, Place(j)) = Stored - j + 1
    BY <1>0, Positioned DEF Place, Stored
  <2>2. Dist(wPos, Place(j)) \in 1 .. Cap - 1
    BY <1>1, <2>1
  <2>3. Index(wPos) # Index(Place(j)) /\ Index(Place(j)) \in 0 .. Cap - 1
    BY <1>0, <2>1, <2>2, SlotsDiffer, Positions
  <2> QED
    BY <1>0, <2>3
<1>4. \A j \in 1 .. Stored + 1 : Place(j)' = Place(j)
  BY <1>0 DEF Place
<1>6. Place(Stored + 1) = wPos
  BY <1>0, Places, Zenon DEF Place, Stored
<1>7. slot'[Index(wPos)] = item[p]
  BY <1>0
<1>5. \A c \in Consumers : pc[c] = "unlock" => Index(wPos) # Index((rPos + PosMod - 1) % PosMod)
  BY <1>0, Behind
<1> QED
  BY <1>2, <1>3, <1>4, <1>5, <1>6, <1>7

\* What Fetch does to them: the first place is gone.
LEMMA FetchKeeps ==
  ASSUME IInv, CountInv, NEW c \in Consumers, Fetch(c)
  PROVE  /\ Stored > 0 /\ Stored' = Stored - 1 /\ Place(1) = rPos /\ slot' = slot
         /\ \A j \in 1 .. Stored - 1 : Place(j)' = Place(j + 1)
         /\ (rPos' + PosMod - 1) % PosMod = rPos
<1> USE RingQueueAssumption
<1>0. /\ wPos \in 0 .. PosMod - 1 /\ rPos \in 0 .. PosMod - 1 /\ pc[c] = "access"
      /\ rPos' = Advance(rPos) /\ wPos' = wPos /\ slot' = slot
  BY DEF IInv, ShapeOK, Fetch, Goto
<1>1. Stored > 0 /\ Stored \in 0 .. PosMod - 1
  BY <1>0, Room, Distances DEF Stored
<1>2. Stored' = Stored - 1
  BY <1>0, <1>1, Distances DEF Stored
<1>3. Place(1) = rPos
  BY <1>0, Places DEF Place
<1>4. ASSUME NEW j \in 1 .. Stored - 1 PROVE Place(j)' = Place(j + 1)
  <2>1. j \in 1 .. PosMod - 1
    BY <1>1
  <2> QED
    BY <1>0, <2>1, Places DEF Place
<1>5. (rPos' + PosMod - 1) % PosMod = rPos
  BY <1>0, Distances
<1> QED
  BY <1>0, <1>1, <1>2, <1>3, <1>4, <1>5

\* Each step of a producer preserves what the fetched reference denotes, and the items.
LEMMA ProducerFull ==
  ASSUME Multiple, RInv, NEW p \in Producers, ProducerStep(p)
  PROVE  RefInv' /\ ItemsInv'
<1> USE RingQueueAssumption
<1>0. /\ DOMAIN pc = Threads /\ DOMAIN item = Threads /\ IInv /\ CountInv /\ RefInv /\ ItemsInv
      /\ p \in Threads /\ \A c \in Consumers : c \in Threads /\ c # p
  BY DEF RInv, IInv, ShapeOK, Threads
<1>1. CASE Store(p)
  <2>1. /\ pc' = [pc EXCEPT ![p] = "unlock"] /\ item' = item /\ ref' = ref /\ rPos' = rPos
        /\ pc[p] = "access"
    BY <1>1 DEF Store, Goto
  <2>2. /\ slot' = [slot EXCEPT ![Index(wPos)] = item[p]]
        /\ slot \in [0 .. Cap - 1 -> Item \cup {NoItem}]
        /\ (rPos + PosMod - 1) % PosMod \in 0 .. PosMod - 1
    BY <1>0, <1>1, Distances DEF Store, IInv, ShapeOK
  <2>3. RefInv'
    <3> SUFFICES ASSUME NEW c \in Consumers, pc'[c] = "unlock"
                 PROVE  /\ ref'[c] = Index((rPos' + PosMod - 1) % PosMod)
                        /\ slot'[ref'[c]] = item'[c]
      BY DEF RefInv
    <3>1. pc[c] = "unlock"
      BY <1>0, <2>1
    <3>2. ref[c] = Index((rPos + PosMod - 1) % PosMod) /\ slot[ref[c]] = item[c]
      BY <1>0, <3>1 DEF RefInv
    <3>3. Index(wPos) # ref[c] /\ ref[c] \in 0 .. Cap - 1
      BY <1>0, <2>1, <2>2, <3>1, <3>2, Behind, Positions
    <3> QED
      BY <2>1, <2>2, <3>2, <3>3
  <2>4. Stored' = Stored + 1 /\ Stored \in Nat
    BY <1>0, <1>1, StoreKeeps, Room
  <2>5. ASSUME NEW j \in 1 .. Stored + 1 PROVE slot'[Index(Place(j)')] \in Item
    <3>1. CASE j \in 1 .. Stored
      BY <1>0, <1>1, <3>1, StoreKeeps DEF ItemsInv
    <3>2. CASE j = Stored + 1
      BY <1>0, <1>1, <2>1, <3>2, StoreKeeps DEF ItemsInv
    <3> QED
      BY <2>4, <3>1, <3>2
  <2>6. ItemsInv'
    <3>1. \A j \in 1 .. Stored' : slot'[Index(Place(j)')] \in Item
      BY <2>4, <2>5
    <3>2. /\ \A x \in Producers : pc'[x] \in {"claim", "lock", "access"} => item'[x] \in Item
          /\ \A c \in Consumers : pc'[c] \in {"unlock", "post", "got"} => item'[c] \in Item
      BY <1>0, <2>1 DEF ItemsInv
    <3> QED
      BY <3>1, <3>2 DEF ItemsInv, Index
  <2> QED
    BY <2>3, <2>6
<1>2. CASE \/ \E d \in Item : CallPush(p, d)
           \/ ClaimFree(p) \/ LockP(p) \/ UnlockP(p) \/ PostFilled(p)
  <2>1. slot' = slot /\ wPos' = wPos /\ rPos' = rPos /\ ref' = ref
    BY <1>2 DEF CallPush, ClaimFree, LockP, UnlockP, PostFilled, ring
  <2>2. \A c \in Consumers : pc'[c] = pc[c] /\ item'[c] = item[c]
    BY <1>0, <1>2 DEF CallPush, ClaimFree, LockP, UnlockP, PostFilled, Goto
  <2>3. \A x \in Producers : pc'[x] \in {"claim", "lock", "access"} => item'[x] \in Item
    BY <1>0, <1>2 DEF CallPush, ClaimFree, LockP, UnlockP, PostFilled, Goto, ItemsInv, Threads
  <2>4. RefInv'
    BY <1>0, <2>1, <2>2 DEF RefInv, Index
  <2>5. ItemsInv'
    BY <1>0, <2>1, <2>2, <2>3 DEF ItemsInv, Stored, Place, Dist, Index
  <2> QED
    BY <2>4, <2>5
<1> QED
  BY <1>1, <1>2 DEF ProducerStep

\* So does each step of a consumer.
LEMMA ConsumerFull ==
  ASSUME RInv, NEW c \in Consumers, ConsumerStep(c)
  PROVE  RefInv' /\ ItemsInv'
<1> USE RingQueueAssumption
<1>0. /\ DOMAIN pc = Threads /\ DOMAIN item = Threads /\ DOMAIN ref = Consumers
      /\ IInv /\ CountInv /\ HolderInv /\ RefInv /\ ItemsInv
      /\ c \in Threads /\ Consumers \subseteq Threads /\ \A p \in Producers : p \in Threads /\ p # c
  BY DEF RInv, IInv, ShapeOK, Threads
<1>1. CASE Fetch(c)
  <2>1. /\ pc' = [pc EXCEPT ![c] = "unlock"] /\ pc[c] = "access"
        /\ ref' = [ref EXCEPT ![c] = Index(rPos)]
        /\ item' = [item EXCEPT ![c] = slot[Index(rPos)]]
        /\ slot' = slot
    BY <1>1 DEF Fetch, Goto
  <2>2. \A d \in Consumers : pc'[d] = "unlock" => d = c
    BY <1>0, <2>1 DEF HolderInv
  <2>3. RefInv'
    BY <1>0, <1>1, <2>1, <2>2, FetchKeeps DEF RefInv, Index
  <2>4. Stored' = Stored - 1 /\ Stored \in Nat \ {0} /\ Place(1) = rPos
    BY <1>0, <1>1, FetchKeeps, Room
  <2>5. slot[Index(rPos)] \in Item
    BY <1>0, <2>4 DEF ItemsInv
  <2>6. ASSUME NEW j \in 1 .. Stored' PROVE slot'[Index(Place(j)')] \in Item
    <3>1. j \in 1 .. Stored - 1 /\ j + 1 \in 1 .. Stored
      BY <2>4
    <3>2. Place(j)' = Place(j + 1)
      BY <1>0, <1>1, <3>1, FetchKeeps
    <3> QED
      BY <1>0, <2>1, <3>1, <3>2 DEF ItemsInv
  <2>7. /\ \A p \in Producers : pc'[p] \in {"claim", "lock", "access"} => item'[p] \in Item
        /\ \A d \in Consumers : pc'[d] \in {"unlock", "post", "got"} => item'[d] \in Item
    BY <1>0, <2>1, <2>5 DEF ItemsInv
  <2>8. ItemsInv'
    BY <2>6, <2>7 DEF ItemsInv, Index
  <2> QED
    BY <2>3, <2>8
<1>2. CASE \/ CallPop(c) \/ ClaimFilled(c) \/ LockV(c) \/ UnlockV(c) \/ PostFree(c)
           \/ Execute(c)
  <2>1. slot' = slot /\ wPos' = wPos /\ rPos' = rPos /\ ref' = ref
    BY <1>2 DEF CallPop, ClaimFilled, LockV, UnlockV, PostFree, Execute, ring
  <2>2. \A p \in Producers : pc'[p] = pc[p] /\ item'[p] = item[p]
    BY <1>0, <1>2 DEF CallPop, ClaimFilled, LockV, UnlockV, PostFree, Execute, Goto
  <2>3. \A d \in Consumers : /\ pc'[d] = "unlock" => pc[d] = "unlock" /\ item'[d] = item[d]
                             /\ pc'[d] \in {"unlock", "post", "got"} => item'[d] \in Item
    BY <1>0, <1>2 DEF CallPop, ClaimFilled, LockV, UnlockV, PostFree, Execute, Goto, ItemsInv
  <2>4. RefInv'
    BY <1>0, <2>1, <2>3 DEF RefInv, Index
  <2>5. ItemsInv'
    BY <1>0, <2>1, <2>2, <2>3 DEF ItemsInv, Stored, Place, Dist, Index
  <2> QED
    BY <2>4, <2>5
<1> QED
  BY <1>1, <1>2 DEF ConsumerStep

\* The refinement's invariant is inductive.
LEMMA StepRInv == ASSUME Multiple, RInv, [Next]_vars PROVE RInv'
<1>1. IInv' /\ HolderInv'
  BY StepIInv, StepHolder DEF RInv
<1>2. ASSUME NEW p \in Producers, ProducerStep(p) PROVE RInv'
  BY <1>1, <1>2, ProducerCount, ProducerFull DEF RInv
<1>3. ASSUME NEW c \in Consumers, ConsumerStep(c) PROVE RInv'
  BY <1>1, <1>3, ConsumerCount, ConsumerFull DEF RInv
<1>4. CASE UNCHANGED vars
  <2>1. CountInv'
    BY <1>4 DEF RInv, vars, CountInv, Stored, Dist, Bringing, Brought, Fetching, Fetched, At
  <2>2. RefInv' /\ ItemsInv'
    BY <1>4 DEF RInv, vars, RefInv, ItemsInv, Stored, Dist, Place, Index
  <2> QED
    BY <1>1, <2>1, <2>2 DEF RInv
<1> QED
  BY <1>2, <1>3, <1>4 DEF Next

\* It holds before the threads have run ...
LEMMA InitRInv == Init => RInv
<1> SUFFICES ASSUME Init PROVE RInv
  OBVIOUS
<1> USE RingQueueAssumption
<1>1. Stored = 0
  <2>1. PosMod \in 0 .. 2 * PosMod - 1 /\ 0 + PosMod - 0 = PosMod
    OBVIOUS
  <2>2. PosMod % PosMod = 0
    BY <2>1, Wraps
  <2> QED
    BY <2>1, <2>2 DEF Stored, Dist, Init
<1>2. Bringing = {} /\ Brought = {} /\ Fetching = {} /\ Fetched = {}
  BY DEF Init, Bringing, Brought, Fetching, Fetched, At, Threads
<1>3. CountInv
  BY <1>1, <1>2, FS_EmptySet DEF CountInv, Balance, Init
<1>4. HolderInv /\ RefInv /\ ItemsInv
  BY <1>1 DEF Init, HolderInv, RefInv, ItemsInv, Threads
<1> QED
  BY <1>3, <1>4, InitIInv DEF RInv

\* ... and so always.
LEMMA AlwaysRInv == Multiple => (Spec => []RInv)
<1> SUFFICES ASSUME Multiple PROVE Spec => []RInv
  OBVIOUS
<1>1. RInv /\ [Next]_vars => RInv'
  BY StepRInv
<1> QED
  BY <1>1, InitRInv, PTL DEF Spec

\* While a consumer holds _vMutex the slot it fetched stays as it was and nobody writes
\* it, whatever the numbers of threads, when the positions wrap at a multiple of the
\* capacity (ring_queue.hpp:74-77).
THEOREM FetchedStays == PosMod % Cap = 0 => (Spec => []FetchedSlotStable)
<1> SUFFICES ASSUME Multiple PROVE Spec => []FetchedSlotStable
  BY DEF Multiple
<1>1. RInv => FetchedSlotStable
  <2> SUFFICES ASSUME RInv, NEW c \in Consumers, pc[c] = "unlock"
               PROVE  slot[ref[c]] = item[c] /\ Writers(ref[c]) = {}
    BY DEF FetchedSlotStable, At
  <2>1. ref[c] = Index((rPos + PosMod - 1) % PosMod) /\ slot[ref[c]] = item[c]
    BY DEF RInv, RefInv
  <2>2. \A p \in Producers : pc[p] = "access" => Index(wPos) # ref[c]
    BY <2>1, Behind DEF RInv
  <2> QED
    BY <2>1, <2>2 DEF Writers
<1> QED
  BY <1>1, AlwaysRInv, PTL

-------------------------------------------------------------------------------
\* The refinement mapping of Fifo.
bufBar == [i \in 1 .. Stored |-> slot[Index(Place(i))]]
offerBar == [p \in Producers |-> IF pc[p] \in {"claim", "lock", "access"} THEN item[p] ELSE NoItem]
takenBar == [c \in Consumers |-> IF pc[c] \in {"unlock", "post", "got"} THEN item[c] ELSE NoItem]

\* A function on 1 .. n is a sequence of length n.
LEMMA SequenceIs ==
  ASSUME NEW n \in Nat, NEW f \in [1 .. n -> Item]
  PROVE  f \in Seq(Item) /\ Len(f) = n
<1>1. f \in Seq(Item)
  BY SeqDef
<1>2. Len(f) \in Nat /\ DOMAIN f = 1 .. Len(f) /\ DOMAIN f = 1 .. n
  BY <1>1, LenProperties
<1> QED
  BY <1>1, <1>2

\* A sequence that keeps f and has x after it is f with x appended.
LEMMA AppendIs ==
  ASSUME NEW n \in Nat, NEW f \in [1 .. n -> Item], NEW g \in [1 .. n + 1 -> Item], NEW x \in Item,
         \A i \in 1 .. n : g[i] = f[i], g[n + 1] = x
  PROVE  Len(f) = n /\ g = Append(f, x)
<1>1. f \in Seq(Item) /\ Len(f) = n
  BY SequenceIs
<1>2. n + 1 \in Nat
  OBVIOUS
<1>3. g \in Seq(Item) /\ Len(g) = n + 1
  BY <1>2, SequenceIs
<1>4. Append(f, x) \in Seq(Item) /\ Len(Append(f, x)) = n + 1
  BY <1>1, AppendProperties
<1>5. \A i \in 1 .. n + 1 : g[i] = Append(f, x)[i]
  BY <1>1
<1>6. g = Append(f, x)
  BY <1>3, <1>4, <1>5, SeqEqual
<1> QED
  BY <1>1, <1>6

\* A sequence that has all of f but its first is f without its head.
LEMMA TailIs ==
  ASSUME NEW n \in Nat \ {0}, NEW f \in [1 .. n -> Item], NEW g \in [1 .. n - 1 -> Item],
         \A i \in 1 .. n - 1 : g[i] = f[i + 1]
  PROVE  f # <<>> /\ Head(f) = f[1] /\ g = Tail(f)
<1>1. f \in Seq(Item) /\ Len(f) = n
  BY SequenceIs
<1>2. n - 1 \in Nat
  OBVIOUS
<1>3. g \in Seq(Item) /\ Len(g) = n - 1
  BY <1>2, SequenceIs
<1>4. f # <<>> /\ Head(f) = f[1]
  BY <1>1, EmptySeq
<1>5. Tail(f) \in Seq(Item) /\ Len(Tail(f)) = n - 1 /\ \A i \in 1 .. n - 1 : Tail(f)[i] = f[i + 1]
  BY <1>1, <1>4, HeadTailProperties
<1>6. g = Tail(f)
  BY <1>3, <1>5, SeqEqual
<1> QED
  BY <1>4, <1>6

\* Each step of a producer maps to a step of the FIFO or to none.
LEMMA ProducerFifo ==
  ASSUME Multiple, RInv, RInv', NEW p \in Producers, ProducerStep(p)
  PROVE  Fifo!Next \/ UNCHANGED <<bufBar, offerBar, takenBar>>
<1> USE RingQueueAssumption
<1>0. /\ DOMAIN pc = Threads /\ DOMAIN item = Threads /\ IInv /\ CountInv /\ ItemsInv /\ ItemsInv'
      /\ p \in Threads /\ Producers \subseteq Threads /\ \A c \in Consumers : c \in Threads /\ c # p
  BY DEF RInv, IInv, ShapeOK, Threads
<1>1. takenBar' = takenBar
  BY <1>0 DEF takenBar, ProducerStep, CallPush, ClaimFree, LockP, Store, UnlockP, PostFilled, Goto
<1>2. ASSUME slot' = slot, wPos' = wPos, rPos' = rPos PROVE bufBar' = bufBar
  BY <1>2 DEF bufBar, Stored, Place, Dist, Index
<1>3. ASSUME NEW d \in Item, CallPush(p, d) PROVE Fifo!Offer(p, d)
  <2>1. bufBar' = bufBar
    BY <1>2, <1>3 DEF CallPush, ring
  <2>2. offerBar[p] = NoItem /\ offerBar' = [offerBar EXCEPT ![p] = d]
    BY <1>0, <1>3 DEF CallPush, Goto, offerBar
  <2> QED
    BY <1>1, <2>1, <2>2 DEF Fifo!Offer, bufBar, offerBar, takenBar, Stored, Dist, Place
<1>4. ASSUME Store(p) PROVE Fifo!Put(p)
  <2>1. pc[p] = "access" /\ item[p] \in Item
    BY <1>0, <1>4 DEF Store, Goto, ItemsInv
  <2>2. Stored < Cap /\ Stored \in Nat /\ Stored' = Stored + 1
    BY <1>0, <1>4, <2>1, Room, StoreKeeps
  <2>3. bufBar \in [1 .. Stored -> Item]
    BY <1>0 DEF bufBar, ItemsInv
  <2>4. bufBar' \in [1 .. Stored + 1 -> Item]
    BY <1>0, <2>2 DEF bufBar, ItemsInv
  <2>5. ASSUME NEW i \in 1 .. Stored PROVE bufBar'[i] = bufBar[i]
    <3>1. Place(i)' = Place(i) /\ slot'[Index(Place(i))] = slot[Index(Place(i))] /\ i \in 1 .. Stored + 1
      BY <1>0, <1>4, <2>2, StoreKeeps
    <3> QED
      BY <2>2, <3>1 DEF bufBar, Index
  <2>6. bufBar'[Stored + 1] = item[p]
    <3>1. ASSUME NEW i \in 1 .. Stored + 1, i = Stored + 1 PROVE bufBar'[i] = item[p]
      <4>1. Place(i)' = wPos /\ slot'[Index(wPos)] = item[p]
        BY <1>0, <1>4, <3>1, StoreKeeps
      <4> QED
        BY <2>2, <4>1 DEF bufBar, Index
    <3> QED
      BY <2>2, <3>1
  <2>7. Len(bufBar) = Stored /\ bufBar' = Append(bufBar, item[p])
    BY <2>1, <2>2, <2>3, <2>4, <2>5, <2>6, AppendIs
  <2>8. offerBar[p] = item[p] /\ item[p] # NoItem /\ offerBar' = [offerBar EXCEPT ![p] = NoItem]
    BY <1>0, <1>4, <2>1 DEF offerBar, Store, Goto
  <2> QED
    BY <1>1, <2>2, <2>7, <2>8 DEF Fifo!Put, bufBar, offerBar, takenBar, Stored, Dist, Place
<1>5. ASSUME ClaimFree(p) \/ LockP(p) \/ UnlockP(p) \/ PostFilled(p)
      PROVE  UNCHANGED <<bufBar, offerBar, takenBar>>
  <2>1. bufBar' = bufBar
    BY <1>2, <1>5 DEF ClaimFree, LockP, UnlockP, PostFilled, ring
  <2>2. offerBar' = offerBar
    BY <1>0, <1>5 DEF offerBar, ClaimFree, LockP, UnlockP, PostFilled, Goto
  <2> QED
    BY <1>1, <2>1, <2>2
<1> QED
  BY <1>3, <1>4, <1>5 DEF ProducerStep, Fifo!Next

\* So does each step of a consumer.
LEMMA ConsumerFifo ==
  ASSUME RInv, RInv', NEW c \in Consumers, ConsumerStep(c)
  PROVE  Fifo!Next \/ UNCHANGED <<bufBar, offerBar, takenBar>>
<1> USE RingQueueAssumption
<1>0. /\ DOMAIN pc = Threads /\ DOMAIN item = Threads /\ IInv /\ CountInv /\ ItemsInv /\ ItemsInv'
      /\ c \in Threads /\ Consumers \subseteq Threads /\ \A p \in Producers : p \in Threads /\ p # c
  BY DEF RInv, IInv, ShapeOK, Threads
<1>1. offerBar' = offerBar
  BY <1>0 DEF offerBar, ConsumerStep, CallPop, ClaimFilled, LockV, Fetch, UnlockV, PostFree, Execute, Goto
<1>2. ASSUME slot' = slot, wPos' = wPos, rPos' = rPos PROVE bufBar' = bufBar
  BY <1>2 DEF bufBar, Stored, Place, Dist, Index
<1>3. ASSUME Fetch(c) PROVE Fifo!Take(c)
  <2>1. Stored \in Nat \ {0} /\ Stored' = Stored - 1 /\ Place(1) = rPos /\ slot' = slot
    BY <1>0, <1>3, FetchKeeps, Room
  <2>2. bufBar \in [1 .. Stored -> Item]
    BY <1>0 DEF bufBar, ItemsInv
  <2>3. bufBar' \in [1 .. Stored - 1 -> Item]
    BY <1>0, <2>1 DEF bufBar, ItemsInv
  <2>4. ASSUME NEW i \in 1 .. Stored - 1 PROVE bufBar'[i] = bufBar[i + 1]
    <3>1. Place(i)' = Place(i + 1) /\ i + 1 \in 1 .. Stored
      BY <1>0, <1>3, <2>1, FetchKeeps
    <3> QED
      BY <2>1, <3>1 DEF bufBar, Index
  <2>5. bufBar # <<>> /\ Head(bufBar) = bufBar[1] /\ bufBar' = Tail(bufBar)
    BY <2>1, <2>2, <2>3, <2>4, TailIs
  <2>6. bufBar[1] = slot[Index(rPos)]
    BY <2>1 DEF bufBar
  <2>7. takenBar[c] = NoItem /\ takenBar' = [takenBar EXCEPT ![c] = slot[Index(rPos)]]
    BY <1>0, <1>3 DEF takenBar, Fetch, Goto
  <2> QED
    BY <1>1, <2>5, <2>6, <2>7 DEF Fifo!Take, bufBar, offerBar, takenBar, Stored, Dist, Place
<1>4. ASSUME Execute(c) PROVE Fifo!Finish(c)
  <2>1. bufBar' = bufBar
    BY <1>2, <1>4 DEF Execute, ring
  <2>2. takenBar[c] # NoItem /\ takenBar' = [takenBar EXCEPT ![c] = NoItem]
    BY <1>0, <1>4 DEF takenBar, Execute, Goto, ItemsInv
  <2> QED
    BY <1>1, <2>1, <2>2 DEF Fifo!Finish, bufBar, offerBar, takenBar, Stored, Dist, Place
<1>5. ASSUME CallPop(c) \/ ClaimFilled(c) \/ LockV(c) \/ UnlockV(c) \/ PostFree(c)
      PROVE  UNCHANGED <<bufBar, offerBar, takenBar>>
  <2>1. bufBar' = bufBar
    BY <1>2, <1>5 DEF CallPop, ClaimFilled, LockV, UnlockV, PostFree, ring
  <2>2. takenBar' = takenBar
    BY <1>0, <1>5 DEF takenBar, CallPop, ClaimFilled, LockV, UnlockV, PostFree, Goto
  <2> QED
    BY <1>1, <2>1, <2>2
<1> QED
  BY <1>3, <1>4, <1>5 DEF ConsumerStep, Fifo!Next

\* The ring implements the bounded FIFO for any numbers of threads and slots, across the
\* wrap of its positions, when they wrap at a multiple of the capacity: the semaphores
\* alone keep producers and consumers apart (ring_queue.hpp:58-78).
THEOREM RingRefines == PosMod % Cap = 0 => (Spec => ImplementsFifo)
<1> SUFFICES ASSUME Multiple PROVE Spec => ImplementsFifo
  BY DEF Multiple
<1>1. Init => Fifo!Init
  <2> SUFFICES ASSUME Init PROVE Fifo!Init
    OBVIOUS
  <2>1. PosMod \in 0 .. 2 * PosMod - 1 /\ 0 + PosMod - 0 = PosMod
    BY RingQueueAssumption
  <2>2. (wPos + PosMod - rPos) % PosMod = 0
    BY <2>1, Wraps, RingQueueAssumption DEF Init
  <2> QED
    BY <2>2, RingQueueAssumption DEF Init, Fifo!Init, Threads
<1>2. RInv /\ [Next]_vars => RInv'
  BY StepRInv
<1>3. RInv /\ RInv' /\ [Next]_vars => [Fifo!Next]_(Fifo!fifoVars)
  <2> SUFFICES ASSUME RInv, RInv', [Next]_vars
               PROVE  Fifo!Next \/ UNCHANGED <<bufBar, offerBar, takenBar>>
    BY DEF Fifo!fifoVars, bufBar, offerBar, takenBar, Stored, Dist, Place
  <2>1. CASE UNCHANGED vars
    BY <2>1 DEF vars, bufBar, offerBar, takenBar, Stored, Dist, Place, Index
  <2> QED
    BY <2>1, ProducerFifo, ConsumerFifo DEF Next
<1> QED
  BY <1>1, <1>2, <1>3, InitRInv, PTL DEF Spec, ImplementsFifo, Fifo!Spec

-------------------------------------------------------------------------------
(***************************************************************************)
(* Nobody is stuck: the semaphores and the mutexes never block all threads *)
(* at once.  Only sem_wait and pthread_mutex_lock can block.               *)
(***************************************************************************)
\* Thread t can do its next statement.
CanStep(t) == \/ pc[t] \in {"access", "unlock", "post", "got"}
              \/ pc[t] = "idle" /\ (t \in Producers => Item # {})
              \/ pc[t] = "claim" /\ (IF t \in Producers THEN write > 0 ELSE read > 0)
              \/ pc[t] = "lock" /\ (IF t \in Producers THEN pMutex = {} ELSE vMutex = {})

SomebodyCanStep == \E t \in Threads : CanStep(t)

\* A mutex that is taken has a holder, which is inside.
Inside(t) == pc[t] \in {"access", "unlock"}
HeldInv == /\ pMutex # {} => \E p \in Producers : pMutex = {p} /\ Inside(p)
           /\ vMutex # {} => \E c \in Consumers : vMutex = {c} /\ Inside(c)

\* A producer's step preserves it ...
LEMMA ProducerHeld == ASSUME IInv, HeldInv, NEW p \in Producers, ProducerStep(p) PROVE HeldInv'
<1> USE RingQueueAssumption DEF IInv, ShapeOK, HeldInv, Inside, Goto, Threads, mutexes
<1>1. CASE \E d \in Item : CallPush(p, d)
  BY <1>1 DEF CallPush
<1>2. CASE ClaimFree(p)
  BY <1>2 DEF ClaimFree
<1>3. CASE LockP(p)
  BY <1>3 DEF LockP
<1>4. CASE Store(p)
  BY <1>4 DEF Store
<1>5. CASE UnlockP(p)
  BY <1>5 DEF UnlockP
<1>6. CASE PostFilled(p)
  BY <1>6 DEF PostFilled
<1> QED
  BY <1>1, <1>2, <1>3, <1>4, <1>5, <1>6 DEF ProducerStep

\* ... and so does a consumer's.
LEMMA ConsumerHeld == ASSUME IInv, HeldInv, NEW c \in Consumers, ConsumerStep(c) PROVE HeldInv'
<1> USE RingQueueAssumption DEF IInv, ShapeOK, HeldInv, Inside, Goto, Threads, mutexes
<1>1. CASE CallPop(c) \/ ClaimFilled(c)
  BY <1>1 DEF CallPop, ClaimFilled
<1>2. CASE LockV(c)
  BY <1>2 DEF LockV
<1>3. CASE Fetch(c)
  BY <1>3 DEF Fetch
<1>4. CASE UnlockV(c)
  BY <1>4 DEF UnlockV
<1>5. CASE PostFree(c) \/ Execute(c)
  BY <1>5 DEF PostFree, Execute
<1> QED
  BY <1>1, <1>2, <1>3, <1>4, <1>5 DEF ConsumerStep

\* If everybody waited, no slot would be counted anywhere.
LEMMA SomebodyCan ==
  ASSUME IInv, HeldInv, Producers # {}, Consumers # {}, Item # {}
  PROVE  SomebodyCanStep
<1> SUFFICES ASSUME \A t \in Threads : ~ CanStep(t) PROVE FALSE
  BY DEF SomebodyCanStep
<1>1. \A t \in Threads : pc[t] \in {"claim", "lock"}
  BY DEF IInv, ShapeOK, CanStep
<1>2. pMutex = {} /\ vMutex = {}
  BY <1>1 DEF HeldInv, Inside, Threads
<1>3. \A t \in Threads : pc[t] = "claim"
  BY <1>1, <1>2 DEF CanStep
<1>4. write = 0 /\ read = 0
  BY <1>3, RingQueueAssumption DEF CanStep, Threads, IInv, ShapeOK
<1>5. Holding = {}
  BY <1>3 DEF Holding, At
<1>6. write + read + 0 = Cap
  BY <1>5, Tokens, FS_EmptySet DEF IInv
<1> QED
  BY <1>4, <1>6, RingQueueAssumption

\* Whatever the number of producers and consumers (one of each at least, and a task), the
\* capacity and the schedule: at any time some thread can do its next statement, since a
\* slot nobody holds is counted by a semaphore (ring_queue.hpp:58-78).
THEOREM NeverStuck ==
  Producers # {} /\ Consumers # {} /\ Item # {} => (Spec => []SomebodyCanStep)
<1> SUFFICES ASSUME Producers # {}, Consumers # {}, Item # {}
             PROVE  Spec => []SomebodyCanStep
  OBVIOUS
<1>1. Init => HeldInv
  BY DEF Init, HeldInv
<1>2. IInv /\ HeldInv /\ [Next]_vars => HeldInv'
  <2>1. HeldInv /\ UNCHANGED vars => HeldInv'
    BY DEF vars, HeldInv, Inside
  <2> QED
    BY <2>1, ProducerHeld, ConsumerHeld DEF Next
<1>3. IInv /\ HeldInv => SomebodyCanStep
  BY SomebodyCan
<1> QED
  BY <1>1, <1>2, <1>3, AlwaysIInv, PTL DEF Spec
===============================================================================

------------------------------- MODULE RingQueue -------------------------------
(***************************************************************************)
(* thread_t/ring_queue/ring_queue.hpp with the threads of its test.cc: a   *)
(* ring of _cap slots, a semaphore _write counting free slots, a semaphore *)
(* _read counting filled ones, and one mutex per side.  pop returns a      *)
(* reference to the slot, which the consumer uses after pop has posted     *)
(* _write.                                                                 *)
(***************************************************************************)
EXTENDS Naturals, Sequences, FiniteSets

CONSTANTS Producers, Consumers,   \* the threads of test.cc
          Item,                   \* the equations that are queued
          NoItem,                 \* a default-constructed equation
          Garbage,                \* an equation read while it is being assigned
          Cap,                    \* _cap
          PosMod                  \* the values of a size_t position

Threads == Producers \cup Consumers

ASSUME RingQueueAssumption ==
         /\ IsFiniteSet(Producers) /\ IsFiniteSet(Consumers)
         /\ Producers \cap Consumers = {}
         /\ NoItem \notin Item /\ Garbage \notin Item /\ NoItem # Garbage
         /\ Cap \in Nat \ {0}
         /\ PosMod \in Nat /\ PosMod > Cap

VARIABLES slot,             \* _q
          wPos, rPos,       \* _wPos, _rPos
          write, read,      \* the values of the semaphores
          pMutex, vMutex,   \* the threads that hold each mutex
          pc,               \* where each thread is in push, in pop or in its loop
          item,             \* a producer's argument; what a consumer was given
          ref               \* the slot a consumer's reference denotes

vars == <<slot, wPos, rPos, write, read, pMutex, vMutex, pc, item, ref>>
ring == <<slot, wPos, rPos>>
semaphores == <<write, read>>
mutexes == <<pMutex, vMutex>>

-------------------------------------------------------------------------------
\* _q[_wPos++ % _cap]: a position wraps at the width of size_t.
Index(pos) == pos % Cap
Advance(pos) == (pos + 1) % PosMod

Goto(t, from, to) == /\ pc[t] = from
                     /\ pc' = [pc EXCEPT ![t] = to]

Init == /\ slot = [i \in 0 .. Cap - 1 |-> NoItem]
        /\ wPos = 0 /\ rPos = 0
        /\ write = Cap /\ read = 0
        /\ pMutex = {} /\ vMutex = {}
        /\ pc = [t \in Threads |-> "idle"]
        /\ item = [t \in Threads |-> NoItem]
        /\ ref = [c \in Consumers |-> 0]

CallPush(p, d) == /\ Goto(p, "idle", "claim")
                  /\ item' = [item EXCEPT ![p] = d]
                  /\ UNCHANGED <<ring, semaphores, mutexes, ref>>

\* P(_write)
ClaimFree(p) == /\ write > 0
                /\ Goto(p, "claim", "lock")
                /\ write' = write - 1
                /\ UNCHANGED <<ring, read, mutexes, item, ref>>

LockP(p) == /\ pMutex = {}
            /\ Goto(p, "lock", "access")
            /\ pMutex' = {p}
            /\ UNCHANGED <<ring, semaphores, vMutex, item, ref>>

Store(p) == /\ Goto(p, "access", "unlock")
            /\ slot' = [slot EXCEPT ![Index(wPos)] = item[p]]
            /\ wPos' = Advance(wPos)
            /\ UNCHANGED <<rPos, semaphores, mutexes, item, ref>>

UnlockP(p) == /\ Goto(p, "unlock", "post")
              /\ pMutex' = {}
              /\ UNCHANGED <<ring, semaphores, vMutex, item, ref>>

\* Mutant of PostFilled: push posts the semaphore it waited for.
PostFilledOwnSide(p) == /\ Goto(p, "post", "idle")
                        /\ write' = write + 1
                        /\ UNCHANGED <<ring, read, mutexes, item, ref>>

\* V(_read), and back to the loop
PostFilled(p) == /\ Goto(p, "post", "idle")
                 /\ read' = read + 1
                 /\ UNCHANGED <<ring, write, mutexes, item, ref>>

CallPop(c) == /\ Goto(c, "idle", "claim")
              /\ item' = [item EXCEPT ![c] = NoItem]
              /\ UNCHANGED <<ring, semaphores, mutexes, ref>>

\* P(_read)
ClaimFilled(c) == /\ read > 0
                  /\ Goto(c, "claim", "lock")
                  /\ read' = read - 1
                  /\ UNCHANGED <<ring, write, mutexes, item, ref>>

LockV(c) == /\ vMutex = {}
            /\ Goto(c, "lock", "access")
            /\ vMutex' = {c}
            /\ UNCHANGED <<ring, semaphores, pMutex, item, ref>>

\* Mutant of Fetch: _q[++_rPos % _cap].
FetchPreIncrement(c) == /\ Goto(c, "access", "unlock")
                        /\ ref' = [ref EXCEPT ![c] = Index(Advance(rPos))]
                        /\ item' = [item EXCEPT ![c] = slot[Index(Advance(rPos))]]
                        /\ rPos' = Advance(rPos)
                        /\ UNCHANGED <<slot, wPos, semaphores, mutexes>>

\* The reference is bound to the slot; item[c] remembers what it then held.
Fetch(c) == /\ Goto(c, "access", "unlock")
            /\ ref' = [ref EXCEPT ![c] = Index(rPos)]
            /\ item' = [item EXCEPT ![c] = slot[Index(rPos)]]
            /\ rPos' = Advance(rPos)
            /\ UNCHANGED <<slot, wPos, semaphores, mutexes>>

UnlockV(c) == /\ Goto(c, "unlock", "post")
              /\ vMutex' = {}
              /\ UNCHANGED <<ring, semaphores, pMutex, item, ref>>

\* Mutants of PostFree: pop posts no semaphore; it posts the one it waited for.
PostFreeNever(c) == /\ Goto(c, "post", "got")
                    /\ UNCHANGED <<ring, semaphores, mutexes, item, ref>>

PostFreeOwnSide(c) == /\ Goto(c, "post", "got")
                      /\ read' = read + 1
                      /\ UNCHANGED <<ring, write, mutexes, item, ref>>

\* V(_write), and pop returns
PostFree(c) == /\ Goto(c, "post", "got")
               /\ write' = write + 1
               /\ UNCHANGED <<ring, read, mutexes, item, ref>>

\* The producers that are assigning to slot i.
Writers(i) == {p \in Producers : pc[p] = "access" /\ Index(wPos) = i}

\* The consumer evaluates what its reference denotes now.  A slot that is
\* being assigned to meanwhile may be read half written.
Execute(c) == /\ Goto(c, "got", "idle")
              /\ \E r \in {slot[ref[c]]}
                            \cup (IF Writers(ref[c]) # {} THEN {Garbage} ELSE {}) :
                   item' = [item EXCEPT ![c] = r]
              /\ UNCHANGED <<ring, semaphores, mutexes, ref>>

ProducerStep(p) == \/ \E d \in Item : CallPush(p, d)
                   \/ ClaimFree(p) \/ LockP(p) \/ Store(p) \/ UnlockP(p)
                   \/ PostFilled(p)

ConsumerStep(c) == \/ CallPop(c) \/ ClaimFilled(c) \/ LockV(c) \/ Fetch(c)
                   \/ UnlockV(c) \/ PostFree(c) \/ Execute(c)

Next == \/ \E p \in Producers : ProducerStep(p)
        \/ \E c \in Consumers : ConsumerStep(c)

Spec == Init /\ [][Next]_vars

\* Every thread keeps running.  Who gets a semaphore or a mutex is left open.
FairSpec == /\ Spec
            /\ \A p \in Producers : WF_vars(ProducerStep(p))
            /\ \A c \in Consumers : WF_vars(ConsumerStep(c))

-------------------------------------------------------------------------------
\* Every variable has its type, and the semaphores stay within the capacity.
TypeOK == /\ slot \in [0 .. Cap - 1 -> Item \cup {NoItem}]
          /\ wPos \in 0 .. PosMod - 1 /\ rPos \in 0 .. PosMod - 1
          /\ write \in 0 .. Cap /\ read \in 0 .. Cap
          /\ pMutex \in SUBSET Producers /\ vMutex \in SUBSET Consumers
          /\ pc \in [Threads -> {"idle", "claim", "lock", "access", "unlock",
                                 "post", "got"}]
          /\ item \in [Threads -> Item \cup {NoItem, Garbage}]
          /\ ref \in [Consumers -> 0 .. Cap - 1]

At(S, places) == {t \in S : pc[t] \in places}

\* Each slot is a token: it is counted by one of the semaphores or held by one
\* thread between its P and its V (ring_queue.hpp:63-68, :73-78).
TokensConserved ==
  write + read + Cardinality(At(Threads, {"lock", "access", "unlock", "post"})) = Cap

\* While a consumer holds _vMutex, the slot it has just fetched still has what
\* it fetched and no producer is assigning to it (ring_queue.hpp:74-77).  The
\* guarantee ends with the unlock: another consumer's V(_write) can already
\* let a producer wrap round to this slot.
FetchedSlotStable ==
  \A c \in At(Consumers, {"unlock"}) :
    slot[ref[c]] = item[c] /\ Writers(ref[c]) = {}

\* The safety of the ring: no slot is claimed twice and none is forgotten, so that the
\* semaphores and the positions stay in their ranges (ring_queue.hpp:58-78).
Safe == TypeOK /\ TokensConserved

\* The ring is a bounded FIFO as far as push and pop go: what is stored and not
\* yet fetched, read from _rPos on, is the abstract buffer.
Fifo == INSTANCE BoundedFifo WITH
          buf   <- [i \in 1 .. (wPos + PosMod - rPos) % PosMod |->
                      slot[Index((rPos + i - 1) % PosMod)]],
          offer <- [p \in Producers |-> IF pc[p] \in {"claim", "lock", "access"}
                                          THEN item[p] ELSE NoItem],
          taken <- [c \in Consumers |-> IF pc[c] \in {"unlock", "post", "got"}
                                          THEN item[c] ELSE NoItem]

ImplementsFifo == Fifo!Spec

\* Items keep being fetched: producers and consumers never all block on the
\* semaphores and the mutexes.
FetchesForever == []<><<\E c \in Consumers : Fetch(c)>>_vars
===============================================================================

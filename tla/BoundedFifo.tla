----------------------------- MODULE BoundedFifo -----------------------------
(***************************************************************************)
(* What a producer-consumer queue of thread_t promises to the threads that *)
(* share it: a bounded first-in first-out buffer.  An item is handed over  *)
(* in four steps: a producer offers it, the buffer accepts it when there   *)
(* is room, one consumer takes the oldest item, and that consumer is done  *)
(* with it.  Locks, condition variables, semaphores and positions do not   *)
(* appear here; block_queue and ring_queue implement this specification.   *)
(***************************************************************************)
EXTENDS Naturals, Sequences

CONSTANTS Producers, Consumers,   \* the threads on either side
          Item, NoItem,           \* what is queued, and the absence of it
          Cap                     \* how many items the buffer holds

VARIABLES buf,     \* the items accepted and not yet taken, oldest first
          offer,   \* the item each producer is waiting to hand in
          taken    \* the item each consumer holds

fifoVars == <<buf, offer, taken>>

Init == /\ buf = <<>>
        /\ offer = [p \in Producers |-> NoItem]
        /\ taken = [c \in Consumers |-> NoItem]

Offer(p, d) == /\ offer[p] = NoItem
               /\ offer' = [offer EXCEPT ![p] = d]
               /\ UNCHANGED <<buf, taken>>

Put(p) == /\ offer[p] # NoItem
          /\ Len(buf) < Cap
          /\ buf' = Append(buf, offer[p])
          /\ offer' = [offer EXCEPT ![p] = NoItem]
          /\ UNCHANGED taken

Take(c) == /\ taken[c] = NoItem
           /\ buf # <<>>
           /\ taken' = [taken EXCEPT ![c] = Head(buf)]
           /\ buf' = Tail(buf)
           /\ UNCHANGED offer

Finish(c) == /\ taken[c] # NoItem
             /\ taken' = [taken EXCEPT ![c] = NoItem]
             /\ UNCHANGED <<buf, offer>>

Next == \/ \E p \in Producers : Put(p) \/ \E d \in Item : Offer(p, d)
        \/ \E c \in Consumers : Take(c) \/ Finish(c)

Spec == Init /\ [][Next]_fifoVars
==============================================================================

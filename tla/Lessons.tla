-------------------------------- MODULE Lessons --------------------------------
(* The exercises with a protocol of their own: the ticket sellers of            *)
(* thread_t/mutex_t and thread_class, and the blocked signals of signal_t.      *)
EXTENDS Naturals, FiniteSets

CONSTANTS Sellers,   \* the threads (3)
          Seats,     \* seat at the start (10000)
          Signals,   \* vsige: {2, 3}
          Rounds,    \* seconds between two times the signals are let through (12)
          MaxRaise   \* bound: how often others raise each signal

LessonsAssumption == /\ IsFiniteSet(Sellers) /\ IsFiniteSet(Signals)
                     /\ Seats \in Nat /\ Rounds \in Nat \ {0} /\ MaxRaise \in Nat
ASSUME LessonsAssumption

VARIABLES lesson,    \* "off", "tickets" or "signals"
          seat,
          sold,      \* the number of seats each seller has sold
          at,        \* where each seller is
          mtx,       \* the sellers that hold the mutex
          main,      \* where the process with the signals is
          catches,   \* the signals that have sighandler
          mask,      \* its signal mask
          block, oblock,
          secs,      \* seconds since the signals were let through
          pending,   \* the signals sent to it and not yet delivered
          raised,    \* the number of times each was sent
          caught     \* the number of times the handler ran

ticketVars == <<seat, sold, at, mtx>>
signalVars == <<main, catches, mask, block, oblock, secs, pending, raised, caught>>
lessonVars == <<lesson, ticketVars, signalVars>>

LessonsInit ==
  /\ lesson = "off"
  /\ seat = Seats /\ sold = [s \in Sellers |-> 0] /\ at = [s \in Sellers |-> "test"] /\ mtx = {}
  /\ main = "install" /\ catches = {} /\ mask = {} /\ block = {} /\ oblock = {} /\ secs = 0
  /\ pending = {} /\ raised = [g \in Signals |-> 0] /\ caught = [g \in Signals |-> 0]

LessonsRun == /\ lesson = "off" /\ lesson' \in {"tickets", "signals"}
              /\ UNCHANGED <<ticketVars, signalVars>>

-------------------------------------------------------------------------------
(* func1 *)

Goes(s, from, to) == at[s] = from /\ at' = [at EXCEPT ![s] = to]

\* The loop's test, without the lock.
TestSeat(s) == /\ Goes(s, "test", IF seat > 0 THEN "lock" ELSE "end")
               /\ UNCHANGED <<seat, sold, mtx>>

TakeLock(s) == /\ Goes(s, "lock", "sell") /\ mtx = {} /\ mtx' = {s}
               /\ UNCHANGED <<seat, sold>>

\* Mutants of Sell: the seat is not looked at again; the lock is only released after a sale.
SellUntested(s) == /\ Goes(s, "sell", "unlock")
                   /\ seat' = seat - 1 /\ sold' = [sold EXCEPT ![s] = @ + 1]
                   /\ UNCHANGED mtx

SellKeepsLock(s) == /\ Goes(s, "sell", IF seat > 0 THEN "unlock" ELSE "test")
                    /\ IF seat > 0 THEN seat' = seat - 1 /\ sold' = [sold EXCEPT ![s] = @ + 1]
                                   ELSE UNCHANGED <<seat, sold>>
                    /\ UNCHANGED mtx

\* The seat is sold if there still is one.
Sell(s) == /\ Goes(s, "sell", "unlock")
           /\ IF seat > 0 THEN seat' = seat - 1 /\ sold' = [sold EXCEPT ![s] = @ + 1]
                          ELSE UNCHANGED <<seat, sold>>
           /\ UNCHANGED mtx

\* lock_guard_s goes out of scope.
ReleaseLock(s) == /\ Goes(s, "unlock", "test") /\ mtx' = mtx \ {s}
                  /\ UNCHANGED <<seat, sold>>

SellerStep(s) == /\ lesson = "tickets" /\ UNCHANGED <<lesson, signalVars>>
                 /\ TestSeat(s) \/ TakeLock(s) \/ Sell(s) \/ ReleaseLock(s)

-------------------------------------------------------------------------------
(* signal_t.cc *)

\* Others send a signal: one that is pending is not counted again.
Raise(g) == /\ lesson = "signals" /\ main # "killed" /\ raised[g] < MaxRaise
            /\ raised' = [raised EXCEPT ![g] = @ + 1]
            /\ pending' = pending \cup {g}
            /\ UNCHANGED <<lesson, ticketVars, main, catches, mask, block, oblock, secs, caught>>

\* A pending signal that is not blocked is delivered before the process goes on: to the
\* handler, or it kills.
Deliverable == pending \ mask
DeliverSignal(g) == /\ lesson = "signals" /\ g \in Deliverable /\ main # "killed"
                    /\ pending' = pending \ {g}
                    /\ IF g \in catches THEN caught' = [caught EXCEPT ![g] = @ + 1] /\ UNCHANGED main
                                        ELSE main' = "killed" /\ UNCHANGED caught
                    /\ UNCHANGED <<lesson, ticketVars, catches, mask, block, oblock, secs, raised>>

\* blocksignal: what was the mask is kept in oblock.
BlockSignal == block' = Signals /\ mask' = block' /\ oblock' = mask

\* Mutant of CancelBlock: the two sets change places.
CancelBlockSwapped == mask' = block /\ oblock' = mask /\ UNCHANGED block

\* cancelblock: the mask of before, and the present one is kept in block.
CancelBlock == mask' = oblock /\ block' = mask /\ UNCHANGED oblock

\* Mutant of Install: one signal less than is blocked gets the handler.
InstallButOne == /\ main = "install"
                 /\ \E g \in Signals \ catches : catches' = catches \cup {g}
                 /\ main' = IF Cardinality(Signals \ catches') <= 1 THEN "block" ELSE "install"
                 /\ UNCHANGED <<mask, block, oblock, secs>>

Install == /\ main = "install"
           /\ \E g \in Signals \ catches : catches' = catches \cup {g}
           /\ main' = IF catches' = Signals THEN "block" ELSE "install"
           /\ UNCHANGED <<mask, block, oblock, secs>>

BlockThem == /\ main = "block" /\ main' = "loop"
             /\ BlockSignal /\ UNCHANGED <<catches, secs>>

\* A round: sigpending and a second's sleep; after the last one they are let through.
Round == /\ main = "loop" /\ secs' = secs + 1
         /\ IF secs' >= Rounds THEN CancelBlock /\ main' = "again"
                               ELSE UNCHANGED <<mask, block, oblock, main>>
         /\ UNCHANGED catches

Again == /\ main = "again" /\ main' = "loop"
         /\ BlockSignal /\ secs' = 0 /\ UNCHANGED catches

SignalStep == /\ lesson = "signals" /\ Deliverable = {}
              /\ Install \/ BlockThem \/ Round \/ Again
              /\ UNCHANGED <<lesson, ticketVars, pending, raised, caught>>

LessonsNext == \/ LessonsRun \/ SignalStep
               \/ \E s \in Sellers : SellerStep(s)
               \/ \E g \in Signals : Raise(g) \/ DeliverSignal(g)

\* Threads and the process with the signals run.  Nobody need raise a signal, and a free
\* lock may go to anybody.
LessonsFair == /\ \A s \in Sellers : WF_lessonVars(SellerStep(s))
               /\ WF_lessonVars(SignalStep)
               /\ \A g \in Signals : WF_lessonVars(DeliverSignal(g))

LessonsSpec == LessonsInit /\ [][LessonsNext]_lessonVars /\ LessonsFair

-------------------------------------------------------------------------------
\* Every variable has its type.
LessonsTypeOK ==
  /\ lesson \in {"off", "tickets", "signals"} /\ seat \in 0 .. Seats
  /\ sold \in [Sellers -> 0 .. Seats] /\ mtx \subseteq Sellers
  /\ at \in [Sellers -> {"test", "lock", "sell", "unlock", "end"}]
  /\ main \in {"install", "block", "loop", "again", "killed"} /\ secs \in 0 .. Rounds
  /\ catches \subseteq Signals /\ mask \subseteq Signals /\ block \subseteq Signals
  /\ oblock \subseteq Signals /\ pending \subseteq Signals
  /\ raised \in [Signals -> 0 .. MaxRaise] /\ caught \in [Signals -> 0 .. MaxRaise]

\* All seats are sold, none twice, and every seller goes home, though the loop's test is
\* outside the lock (mutex_t/test.cc:20-30, thread_class/test.cc:16-27).
AllSeatsSold ==
  lesson = "tickets" ~> /\ seat = 0 /\ \A s \in Sellers : at[s] = "end"
                        /\ Cardinality({ q \in Sellers \X (1 .. Seats) : q[2] <= sold[q[1]] }) = Seats

\* Once its handlers are installed, the signals do not kill the process: what comes
\* while they are blocked reaches the handler (signal_t.cc:104-108).
SurvivesItsSignals == [][main' = "killed" => main = "install"]_lessonVars

\* The safety of both lessons: the seats and the mutex, the masks and the handlers.
LessonsSafe == []LessonsTypeOK /\ SurvivesItsSignals

\* A signal that is pending is delivered within the round, the mask being put back in
\* turns with the help of two sets that change their roles (signal_t.cc:122-128).
EverySignalDelivered == \A g \in Signals : g \in pending ~> g \notin pending \/ main = "killed"
===============================================================================

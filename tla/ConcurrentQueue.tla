-------------------------- MODULE ConcurrentQueue --------------------------
(***************************************************************************)
(* The blocking queue of src/include/concurrent_queue.h.  Every method     *)
(* works under the mutex from its first statement to the end of its block, *)
(* so a critical section is one step; what is outside of it, the signal of *)
(* push and the sleep of wait_pop, is a step of its own.  Each thread      *)
(* makes the calls of its script.                                          *)
(***************************************************************************)
EXTENDS Integers, Sequences, FiniteSets

CONSTANTS
  Threads,
  Script    \* the calls of each thread: "push", "wait_pop" or "try_pop"

ConcurrentQueueAssumption ==
  /\ IsFiniteSet(Threads)
  /\ Script \in [Threads -> Seq({"push", "wait_pop", "try_pop"})]

VARIABLES
  queue,   \* queue_
  step,    \* how many calls each thread has completed
  at,      \* where each thread is: "call", "signal", "asleep" or "woken"
  pushed,  \* history: the items in the order of their push
  popped   \* history: the items in the order in which they were taken

vars == <<queue, step, at, pushed, popped>>

Init ==
  /\ queue = <<>>
  /\ step = [t \in Threads |-> 0]
  /\ at = [t \in Threads |-> "call"]
  /\ pushed = <<>>
  /\ popped = <<>>

Calls(t, call) ==
  /\ at[t] = "call"
  /\ step[t] < Len(Script[t])
  /\ Script[t][step[t] + 1] = call

Goto(t, label) == at' = [at EXCEPT ![t] = label]
Return(t)      == step' = [step EXCEPT ![t] = @ + 1]

----------------------------------------------------------------------------
\* Both overloads of push: the item is queued under the mutex ...
Push(t) ==
  /\ Calls(t, "push")
  /\ queue' = Append(queue, Len(pushed))
  /\ pushed' = Append(pushed, Len(pushed))
  /\ Goto(t, "signal")
  /\ UNCHANGED <<step, popped>>

\* Mutation: the signal is given only when the queue was empty.
SignalFirstOnly(t) ==
  /\ at[t] = "signal"
  /\ Return(t)
  /\ LET asleep == {u \in Threads : at[u] = "asleep" /\ Len(queue) = 1}
     IN  \/ asleep = {} /\ Goto(t, "call")
         \/ \E u \in asleep : at' = [at EXCEPT ![t] = "call", ![u] = "woken"]
  /\ UNCHANGED <<queue, pushed, popped>>

\* ... and notify_one is called when the mutex is free again.
Signal(t) ==
  /\ at[t] = "signal"
  /\ Return(t)
  /\ LET asleep == {u \in Threads : at[u] = "asleep"}
     IN  \/ asleep = {} /\ Goto(t, "call")
         \/ \E u \in asleep : at' = [at EXCEPT ![t] = "call", ![u] = "woken"]
  /\ UNCHANGED <<queue, pushed, popped>>

\* front and pop.
Take(t) ==
  /\ queue # <<>>
  /\ queue' = Tail(queue)
  /\ popped' = Append(popped, Head(queue))
  /\ Return(t)
  /\ Goto(t, "call")
  /\ UNCHANGED pushed

\* wait_pop tests its predicate under the mutex, at the call and after every
\* wakeup, and takes the front item or releases the mutex and sleeps.
WaitPop(t) ==
  /\ Calls(t, "wait_pop") \/ at[t] = "woken"
  /\ \/ Take(t)
     \/ /\ queue = <<>>
        /\ Goto(t, "asleep")
        /\ UNCHANGED <<queue, step, pushed, popped>>

TryPop(t) ==
  /\ Calls(t, "try_pop")
  /\ \/ Take(t)
     \/ /\ queue = <<>>
        /\ Return(t)
        /\ UNCHANGED <<queue, at, pushed, popped>>

\* A condition variable may wake without a signal.
WakeSpuriously(t) ==
  /\ at[t] = "asleep"
  /\ Goto(t, "woken")
  /\ UNCHANGED <<queue, step, pushed, popped>>

Step(t) == Push(t) \/ Signal(t) \/ WaitPop(t) \/ TryPop(t)

Next == \E t \in Threads : Step(t) \/ WakeSpuriously(t)

\* Threads are scheduled; nothing makes a spurious wakeup happen.
Fairness == \A t \in Threads : WF_vars(Step(t))

Spec == Init /\ [][Next]_vars /\ Fairness

----------------------------------------------------------------------------
TypeOK ==
  /\ queue \in Seq(Nat) /\ pushed \in Seq(Nat) /\ popped \in Seq(Nat)
  /\ step \in [Threads -> Nat]
  /\ at \in [Threads -> {"call", "signal", "asleep", "woken"}]

\* Items leave in the order of their pushes, whichever threads push and pop:
\* what was taken and what is queued is what was pushed.
FirstInFirstOut == popped \o queue = pushed

\* No thread sleeps over an item that nobody is coming for: while one sleeps,
\* every queued item has a signal still to be given, or a thread that was woken
\* and will look (push signals without the mutex, lines 45 and 55).
NoSleepOverItem ==
  (\E t \in Threads : at[t] = "asleep") =>
    Len(queue) <= Cardinality({t \in Threads : at[t] \in {"signal", "woken"}})

\* What the queue is for: every item is delivered, in order, and none waits in
\* the queue for a thread that sleeps.
ItemsDelivered == FirstInFirstOut /\ NoSleepOverItem

\* Every thread returns from its calls, when there are as many pushes as pops.
EveryoneReturns == \A t \in Threads : <>[](step[t] = Len(Script[t]) /\ at[t] = "call")
=============================================================================

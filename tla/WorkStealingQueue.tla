------------------------- MODULE WorkStealingQueue -------------------------
(***************************************************************************)
(* The per-thread job deque of the job system: class WorkStealingQueue in  *)
(* src/job_system.cpp.  Every thread owns one queue; only the owner pushes *)
(* and pops, at the bottom; any other thread steals, at the top.           *)
(*                                                                         *)
(* One action is one access to shared memory: an operation that touches    *)
(* top_ and bottom_ twice is two actions, and other threads run between    *)
(* them.  Memory is sequentially consistent here; the README says why that *)
(* is what the code gets on its x86 target.                                *)
(***************************************************************************)
EXTENDS Integers, FiniteSets

CONSTANTS
  Threads,    \* the threads; thread t owns queue t
  Owners,     \* the threads whose queue is used; the others only steal
  Jobs,       \* the Job pointers that clients push
  Capacity,   \* kNumberOfJobs, the length of the ring jobs_
  MaxIndex,   \* bound: no pop starts on a queue whose top_ got this far
  Null,       \* nullptr
  Junk        \* what jobs_ holds before its first write: the constructor
              \* initialises top_ and bottom_, not the ring

ASSUME QueueAssumption ==
  /\ Owners \subseteq Threads
  /\ Capacity \in Nat \ {0}
  /\ MaxIndex \in Nat
  /\ Null \notin Jobs
  /\ Junk \notin Jobs
  /\ Null # Junk

VARIABLES
  top,        \* top_ of each queue
  bottom,     \* bottom_ of each queue
  jobs,       \* jobs_ of each queue
  at,         \* the shared access each thread performs next
  victim,     \* the queue a thread is stealing from
  lt,         \* each thread's local variable top
  lb,         \* each thread's local variable bottom, of pop
  job,        \* each thread's local variable job, and the returned pointer
  pushed,     \* history, per queue: the jobs whose slot a push has written
  taken,      \* history: how many pops and steals returned each job
  upset       \* history, per queue: "lost_race" once a pop lost its CAS,
              \* "overrun" once a push overwrote a slot still in the window

queueVars == <<top, bottom, jobs>>
localVars == <<at, victim, lt, lb, job>>
history   == <<pushed, taken, upset>>
vars      == <<queueVars, localVars, history>>

Slots     == 0 .. Capacity - 1
Pointers  == Jobs \union {Null, Junk}
Slot(i)   == i % Capacity          \* index & kMask

Init ==
  /\ top    = [q \in Threads |-> 0]
  /\ bottom = [q \in Threads |-> 0]
  /\ jobs   = [q \in Threads |-> [s \in Slots |-> Junk]]
  /\ at     = [t \in Threads |-> "idle"]
  /\ victim = [t \in Threads |-> t]
  /\ lt     = [t \in Threads |-> 0]
  /\ lb     = [t \in Threads |-> 0]
  /\ job    = [t \in Threads |-> Null]
  /\ pushed = [q \in Threads |-> {}]
  /\ taken  = [j \in Jobs |-> 0]
  /\ upset  = [q \in Threads |-> {}]

Goto(t, l)   == at' = [at EXCEPT ![t] = l]
Return(t, j) == job' = [job EXCEPT ![t] = j]

\* The operation of thread t ends and its locals go out of scope, all but job,
\* the value it returns.
Done(t) ==
  /\ Goto(t, "idle")
  /\ victim' = [victim EXCEPT ![t] = t]
  /\ lt' = [lt EXCEPT ![t] = 0]
  /\ lb' = [lb EXCEPT ![t] = 0]

\* A pop or a steal of thread t hands out pointer j.
Take(j) == taken' = IF j \in Jobs THEN [taken EXCEPT ![j] = @ + 1] ELSE taken

----------------------------------------------------------------------------
(* push, by the owner: write the slot, then publish it.  Nothing compares  *)
(* bottom - top with the capacity first.                                   *)

PushWrite(t, j) ==
  /\ at[t] = "idle"
  /\ jobs' = [jobs EXCEPT ![t][Slot(bottom[t])] = j]
  /\ pushed' = [pushed EXCEPT ![t] = @ \union {j}]
  /\ upset' = IF bottom[t] - top[t] >= Capacity
                THEN [upset EXCEPT ![t] = @ \union {"overrun"}]
                ELSE upset
  /\ Goto(t, "pushStore")
  /\ UNCHANGED <<top, bottom, victim, lt, lb, job, taken>>

PushStore(t) ==
  /\ at[t] = "pushStore"
  /\ bottom' = [bottom EXCEPT ![t] = @ + 1]
  /\ Done(t)
  /\ UNCHANGED <<top, jobs, job, history>>

----------------------------------------------------------------------------
(* pop, by the owner.                                                      *)

\* bottom_.fetch_sub(1) - 1
PopDecrement(t) ==
  /\ at[t] = "idle"
  /\ top[t] < MaxIndex
  /\ bottom' = [bottom EXCEPT ![t] = @ - 1]
  /\ lb' = [lb EXCEPT ![t] = bottom[t] - 1]
  /\ Goto(t, "popTop")
  /\ UNCHANGED <<top, jobs, victim, lt, job, history>>

\* top_.load(), and the slot, which only the owner writes
PopLoadTop(t) ==
  LET b == lb[t]
      j == jobs[t][Slot(b)]
  IN
  /\ at[t] = "popTop"
  /\ \/ /\ top[t] < b                   \* more than one job left: no race
        /\ Return(t, j)
        /\ Take(j)
        /\ Done(t)
     \/ /\ top[t] = b                   \* the last job
        /\ Return(t, j)
        /\ Goto(t, "popCas")
        /\ lt' = [lt EXCEPT ![t] = top[t]]
        /\ UNCHANGED <<taken, victim, lb>>
     \/ /\ top[t] > b                   \* empty
        /\ Return(t, Null)
        /\ Goto(t, "popReset")
        /\ lt' = [lt EXCEPT ![t] = top[t]]
        /\ UNCHANGED <<taken, victim, lb>>
  /\ UNCHANGED <<queueVars, pushed, upset>>

\* Mutation: the last job is taken with a plain store to top_.
PopStoreTop(t) ==
  /\ at[t] = "popCas"
  /\ top' = [top EXCEPT ![t] = lt[t] + 1]
  /\ Take(job[t])
  /\ Goto(t, "popStore")
  /\ UNCHANGED <<bottom, jobs, victim, lt, lb, job, pushed, upset>>

\* top_.compare_exchange_strong(top, top + 1).  A failed exchange loads the
\* actual top_ into the local variable top.
PopCas(t) ==
  /\ at[t] = "popCas"
  /\ \/ /\ top[t] = lt[t]
        /\ top' = [top EXCEPT ![t] = @ + 1]
        /\ Take(job[t])
        /\ UNCHANGED <<lt, job, upset>>
     \/ /\ top[t] # lt[t]
        /\ lt' = [lt EXCEPT ![t] = top[t]]
        /\ Return(t, Null)
        /\ upset' = [upset EXCEPT ![t] = @ \union {"lost_race"}]
        /\ UNCHANGED <<top, taken>>
  /\ Goto(t, "popStore")
  /\ UNCHANGED <<bottom, jobs, victim, lb, pushed>>

\* bottom_.store(top + 1), with whatever the exchange left in top
PopStore(t) ==
  /\ at[t] = "popStore"
  /\ bottom' = [bottom EXCEPT ![t] = lt[t] + 1]
  /\ Done(t)
  /\ UNCHANGED <<top, jobs, job, history>>

\* Mutation: an empty pop returns without restoring bottom_.
PopResetSkipped(t) ==
  /\ at[t] = "popReset"
  /\ Done(t)
  /\ UNCHANGED <<top, bottom, jobs, job, history>>

\* bottom_.store(top)
PopReset(t) ==
  /\ at[t] = "popReset"
  /\ bottom' = [bottom EXCEPT ![t] = lt[t]]
  /\ Done(t)
  /\ UNCHANGED <<top, jobs, job, history>>

----------------------------------------------------------------------------
(* steal, by any thread but the owner.                                     *)

StealLoadTop(t, q) ==
  /\ at[t] = "idle"
  /\ victim' = [victim EXCEPT ![t] = q]
  /\ lt' = [lt EXCEPT ![t] = top[q]]
  /\ Goto(t, "stealBottom")
  /\ UNCHANGED <<queueVars, lb, job, history>>

\* Mutation: an empty queue is not recognised, top <= bottom.
StealLoadBottomOrEqual(t) ==
  LET q == victim[t] IN
  /\ at[t] = "stealBottom"
  /\ \/ /\ lt[t] <= bottom[q]
        /\ Goto(t, "stealRead")
        /\ UNCHANGED <<job, victim, lt, lb>>
     \/ /\ lt[t] > bottom[q]
        /\ Return(t, Null)
        /\ Done(t)
  /\ UNCHANGED <<queueVars, history>>

StealLoadBottom(t) ==
  LET q == victim[t] IN
  /\ at[t] = "stealBottom"
  /\ \/ /\ lt[t] < bottom[q]
        /\ Goto(t, "stealRead")
        /\ UNCHANGED <<job, victim, lt, lb>>
     \/ /\ lt[t] >= bottom[q]
        /\ Return(t, Null)
        /\ Done(t)
  /\ UNCHANGED <<queueVars, history>>

\* Mutation: the thief reads the youngest job instead of the oldest.
StealReadYoungest(t) ==
  /\ at[t] = "stealRead"
  /\ Return(t, jobs[victim[t]][Slot(bottom[victim[t]] - 1)])
  /\ Goto(t, "stealCas")
  /\ UNCHANGED <<queueVars, victim, lt, lb, history>>

StealRead(t) ==
  /\ at[t] = "stealRead"
  /\ Return(t, jobs[victim[t]][Slot(lt[t])])
  /\ Goto(t, "stealCas")
  /\ UNCHANGED <<queueVars, victim, lt, lb, history>>

StealCas(t) ==
  LET q == victim[t] IN
  /\ at[t] = "stealCas"
  /\ \/ /\ top[q] = lt[t]
        /\ top' = [top EXCEPT ![q] = @ + 1]
        /\ Take(job[t])
        /\ UNCHANGED job
     \/ /\ top[q] # lt[t]
        /\ Return(t, Null)
        /\ UNCHANGED <<top, taken>>
  /\ Done(t)
  /\ UNCHANGED <<bottom, jobs, pushed, upset>>

----------------------------------------------------------------------------
\* The rest of an operation already under way on thread t.
Continue(t) ==
  \/ PushStore(t)
  \/ PopLoadTop(t)
  \/ PopCas(t)
  \/ PopStore(t)
  \/ PopReset(t)
  \/ StealLoadBottom(t)
  \/ StealRead(t)
  \/ StealCas(t)

\* The clients: a job is pushed at most once, by an owner, to its queue.
Fresh == Jobs \ UNION {pushed[q] : q \in Owners}

Next ==
  \/ \E t \in Owners, j \in Fresh : PushWrite(t, j)
  \/ \E t \in Owners : PopDecrement(t)
  \/ \E t \in Threads, q \in Owners : t # q /\ StealLoadTop(t, q)
  \/ \E t \in Threads : Continue(t)

Spec == Init /\ [][Next]_vars

----------------------------------------------------------------------------
\* bottom_ is decremented before it is compared with top_.
BottomIndex == Nat \union {-1}

TypeOK ==
  /\ top    \in [Threads -> Nat]
  /\ bottom \in [Threads -> BottomIndex]
  /\ jobs   \in [Threads -> [Slots -> Jobs \union {Junk}]]
  /\ at     \in [Threads -> {"idle", "pushStore", "popTop", "popCas",
                              "popStore", "popReset", "stealBottom",
                              "stealRead", "stealCas"}]
  /\ victim \in [Threads -> Threads]
  /\ lt     \in [Threads -> Nat]
  /\ lb     \in [Threads -> BottomIndex]
  /\ job    \in [Threads -> Pointers]
  /\ pushed \in [Threads -> SUBSET Jobs]
  /\ taken  \in [Jobs -> Nat]
  /\ upset  \in [Threads -> SUBSET {"lost_race", "overrun"}]

\* The indices of queue q that hold a job nobody took: the window
\* [top_, bottom_), and the index that its owner is in the middle of popping
\* or pushing.
Popping(q) == at[q] \in {"popTop", "popCas", "popStore", "popReset"}
Limit(q)   == bottom[q] + (IF Popping(q) \/ at[q] = "pushStore" THEN 1 ELSE 0)
Window(q)  == top[q] .. Limit(q) - 1
JobAt(q, i) == jobs[q][Slot(i)]

\* No job is handed to two threads: as long as no pop of a queue has lost its
\* compare_exchange and no push has overrun the ring, pop and steal (lines
\* 132-165) return each job of that queue at most once, and a job already
\* returned is not left in the window to be returned again.
TakenOnce ==
  \A q \in Threads : upset[q] = {} =>
    \A j \in pushed[q] :
      taken[j] + Cardinality({i \in Window(q) : JobAt(q, i) = j}) <= 1

\* No job is lost: a job whose push has begun is returned by a pop or a steal
\* or is still at an index that one can reach.  Losing the race for the last
\* job does not lose jobs; only writing past a full ring can.
NoJobLost ==
  \A q \in Threads : "overrun" \notin upset[q] =>
    \A j \in pushed[q] :
      taken[j] > 0 \/ \E i \in Window(q) : JobAt(q, i) = j

\* Nothing is read from the ring before it is written: jobs_ is never
\* initialised, and as long as no pop has lost its compare_exchange no thread
\* holds a pointer read from a slot that no push has filled.
NeverReadsJunk ==
  \A t \in Threads :
    job[t] = Junk => \E q \in Threads : upset[q] # {}

\* The queues implement deques: the jobs of a queue are those at the indices
\* of its window, in order.  A push takes effect when it writes the slot, a pop
\* when it finds more than one job or wins its compare_exchange, a steal when
\* it wins its own; each hands out the job at that end of the deque, until the
\* queue is upset.
Contents(q) ==
  [n \in 1 .. Limit(q) - top[q] |-> JobAt(q, top[q] + n - 1)]

Deque == INSTANCE JobDeque WITH
  Queues   <- Threads,
  contents <- [q \in Threads |-> Contents(q)],
  broken   <- [q \in Threads |-> upset[q] # {}]

ImplementsDeque == Deque!Spec

============================================================================

----------------------- MODULE WorkStealingQueueProofs -----------------------
(***************************************************************************)
(* Proofs about WorkStealingQueue for any set of threads, any number of    *)
(* jobs and any ring length.                                               *)
(***************************************************************************)
EXTENDS WorkStealingQueue, FiniteSetTheorems, SequenceTheorems, TLAPS

----------------------------------------------------------------------------
(* The ring.                                                               *)

LEMMA Division ==
  ASSUME NEW i \in Nat, NEW n \in Nat \ {0}
  PROVE  /\ i \div n \in Int
         /\ i % n \in Int
         /\ i % n = i - n * (i \div n)
  OBVIOUS

\* Two indices less than a ring length apart have different slots.
LEMMA DistinctSlots ==
  ASSUME NEW i \in Nat, NEW k \in Nat, i < k, k - i < Capacity
  PROVE  Slot(i) # Slot(k)
  <1> SUFFICES ASSUME i % Capacity = k % Capacity
               PROVE  FALSE
    BY DEF Slot
  <1> DEFINE a == i \div Capacity
             b == k \div Capacity
  <1>1. /\ a \in Int /\ b \in Int /\ Capacity \in Nat \ {0}
        /\ i % Capacity = i - Capacity * a
        /\ k % Capacity = k - Capacity * b
        /\ i % Capacity \in Int /\ k % Capacity \in Int
    BY QueueAssumption, Division
  <1> HIDE DEF a, b
  <1>2. k - i = Capacity * (b - a)
    BY <1>1
  <1>3. CASE b - a <= 0
    <2>1. Capacity * (b - a) <= 0
      BY <1>1, <1>3
    <2> QED
      BY <1>2, <2>1
  <1>4. CASE b - a >= 1
    <2>1. Capacity * (b - a) >= Capacity
      BY <1>1, <1>4
    <2> QED
      BY <1>1, <1>2, <2>1
  <1> QED
    BY <1>1, <1>3, <1>4

LEMMA BottomIndices ==
  /\ BottomIndex \subseteq Int
  /\ \A i \in Int : i \in BottomIndex <=> i >= -1
  BY DEF BottomIndex

LEMMA SlotType == \A i \in Int : Slot(i) \in Slots
  BY QueueAssumption DEF Slot, Slots

----------------------------------------------------------------------------
(* The steps, as a reader of single array cells sees them.                 *)

Places == {"idle", "pushStore", "popTop", "popCas", "popStore", "popReset",
           "stealBottom", "stealRead", "stealCas"}

\* The locals stay well typed, and only thread t's change.
LocalsOf(t) ==
  /\ at'     \in [Threads -> Places]
  /\ victim' \in [Threads -> Threads]
  /\ lt'     \in [Threads -> Nat]
  /\ lb'     \in [Threads -> BottomIndex]
  /\ job'    \in [Threads -> Pointers]
  /\ \A u \in Threads \ {t} :
       /\ at'[u] = at[u]
       /\ victim'[u] = victim[u]
       /\ lt'[u] = lt[u]
       /\ lb'[u] = lb[u]
       /\ job'[u] = job[u]

LEMMA Constants ==
  /\ 0 \in BottomIndex /\ Nat \subseteq BottomIndex /\ Null \in Pointers
  BY DEF BottomIndex, Pointers

----------------------------------------------------------------------------
(* What holds of every queue, upset or not.                                *)

Stealing == {"stealBottom", "stealRead", "stealCas"}

\* bottom_ is -1 only while its owner pops, and the owner knows its value.
BottomNat ==
  \A q \in Threads :
    /\ ~Popping(q) => bottom[q] \in Nat
    /\ at[q] = "popTop" => lb[q] = bottom[q]

\* A thief is at work on the queue of an owner other than itself.
Victims == \A t \in Threads : at[t] \in Stealing => victim[t] \in Owners \ {t}

\* A job is pushed to one queue, an owner's.
OneQueue ==
  /\ \A q1, q2 \in Threads : q1 # q2 => pushed[q1] \intersect pushed[q2] = {}
  /\ \A q \in Threads : q \notin Owners => pushed[q] = {}

\* A slot holds a job pushed to its queue, or nothing yet; so does the pointer
\* that a thread has read and is about to claim.
OwnSlots == \A q \in Threads, s \in Slots : jobs[q][s] \in pushed[q] \union {Junk}
Claimed ==
  \A t \in Threads :
    /\ at[t] = "stealCas" => job[t] \in pushed[victim[t]] \union {Junk}
    /\ at[t] = "popCas" => job[t] \in pushed[t] \union {Junk}

\* Only jobs that were pushed are handed out.
TakenPushed ==
  \A j \in Jobs : (\A q \in Threads : j \notin pushed[q]) => taken[j] = 0

Basics ==
  TypeOK /\ BottomNat /\ Victims /\ OneQueue /\ OwnSlots /\ Claimed /\ TakenPushed


LEMMA TakeType ==
  ASSUME TypeOK, NEW j \in Pointers, Take(j)
  PROVE  /\ taken' \in [Jobs -> Nat]
         /\ \A k \in Jobs : k # j => taken'[k] = taken[k]
         /\ j \in Jobs => taken'[j] = taken[j] + 1
         /\ \A k \in Jobs : taken'[k] >= taken[k]
  BY DEF TypeOK, Take


LEMMA DoneFacts ==
  ASSUME TypeOK, NEW t \in Threads, Done(t), job' \in [Threads -> Pointers],
         \A u \in Threads \ {t} : job'[u] = job[u]
  PROVE  LocalsOf(t) /\ at'[t] = "idle"
  <1>1. /\ at' \in [Threads -> Places] /\ at'[t] = "idle"
        /\ \A u \in Threads \ {t} : at'[u] = at[u]
    BY DEF TypeOK, Done, Goto, Places
  <1>2. /\ victim' \in [Threads -> Threads]
        /\ \A u \in Threads \ {t} : victim'[u] = victim[u]
    BY DEF TypeOK, Done
  <1>3. /\ lt' \in [Threads -> Nat]
        /\ \A u \in Threads \ {t} : lt'[u] = lt[u]
    BY DEF TypeOK, Done
  <1>4. /\ lb' \in [Threads -> BottomIndex]
        /\ \A u \in Threads \ {t} : lb'[u] = lb[u]
    BY Constants DEF TypeOK, Done
  <1> QED
    BY <1>1, <1>2, <1>3, <1>4 DEF LocalsOf

LEMMA GotoFacts ==
  ASSUME TypeOK, NEW t \in Threads, NEW l \in Places, Goto(t, l)
  PROVE  /\ at' \in [Threads -> Places] /\ at'[t] = l
         /\ \A u \in Threads \ {t} : at'[u] = at[u]
  BY DEF TypeOK, Goto, Places

LEMMA ReturnFacts ==
  ASSUME TypeOK, NEW t \in Threads, NEW j \in Pointers, Return(t, j)
  PROVE  /\ job' \in [Threads -> Pointers] /\ job'[t] = j
         /\ \A u \in Threads \ {t} : job'[u] = job[u]
  BY DEF TypeOK, Return

LEMMA PushWriteFacts ==
  ASSUME TypeOK, NEW t \in Threads, NEW j \in Jobs, PushWrite(t, j)
  PROVE  /\ at[t] = "idle" /\ at'[t] = "pushStore"
         /\ LocalsOf(t)
  <1>1. "pushStore" \in Places /\ Goto(t, "pushStore")
    BY DEF Places, PushWrite
  <1> QED
    BY <1>1, GotoFacts DEF PushWrite, LocalsOf, TypeOK

LEMMA PushStoreFacts ==
  ASSUME TypeOK, NEW t \in Threads, PushStore(t)
  PROVE  /\ at[t] = "pushStore" /\ at'[t] = "idle"
         /\ LocalsOf(t)
  <1>1. job' = job /\ Done(t) /\ at[t] = "pushStore"
    BY DEF PushStore
  <1> QED
    BY <1>1, DoneFacts DEF TypeOK

LEMMA PopDecrementFacts ==
  ASSUME TypeOK, NEW t \in Threads, PopDecrement(t), bottom[t] \in Nat
  PROVE  /\ at[t] = "idle" /\ at'[t] = "popTop"
         /\ lb'[t] = bottom[t] - 1
         /\ LocalsOf(t)
  <1>1. "popTop" \in Places /\ Goto(t, "popTop")
    BY DEF Places, PopDecrement
  <1>2. bottom[t] - 1 \in BottomIndex
    BY BottomIndices
  <1>3. /\ lb' \in [Threads -> BottomIndex] /\ lb'[t] = bottom[t] - 1
        /\ \A u \in Threads \ {t} : lb'[u] = lb[u]
    BY <1>2 DEF PopDecrement, TypeOK
  <1> QED
    BY <1>1, <1>3, GotoFacts DEF PopDecrement, LocalsOf, TypeOK

LEMMA PopLoadTopFacts ==
  ASSUME TypeOK, NEW t \in Threads, PopLoadTop(t),
         NEW j \in Pointers, j = jobs[t][Slot(lb[t])]
  PROVE  /\ at[t] = "popTop" /\ LocalsOf(t)
         /\ \/ /\ top[t] < lb[t] /\ at'[t] = "idle" /\ job'[t] = j /\ Take(j)
            \/ /\ top[t] = lb[t] /\ at'[t] = "popCas" /\ job'[t] = j /\ taken' = taken
               /\ lt'[t] = top[t] /\ lb'[t] = lb[t]
            \/ /\ top[t] > lb[t] /\ at'[t] = "popReset" /\ job'[t] = Null /\ taken' = taken
               /\ lt'[t] = top[t] /\ lb'[t] = lb[t]
  <1>0. /\ at[t] = "popTop"
        /\ "popCas" \in Places /\ "popReset" \in Places /\ Null \in Pointers
    BY DEF PopLoadTop, Places, Pointers
  <1>1. CASE top[t] < lb[t] /\ Return(t, j) /\ Take(j) /\ Done(t)
    BY <1>0, <1>1, DoneFacts, ReturnFacts
  <1>2. CASE /\ top[t] = lb[t] /\ Return(t, j) /\ Goto(t, "popCas")
             /\ lt' = [lt EXCEPT ![t] = top[t]]
             /\ UNCHANGED <<taken, victim, lb>>
    <2>1. /\ lt' \in [Threads -> Nat] /\ lt'[t] = top[t]
          /\ \A u \in Threads \ {t} : lt'[u] = lt[u]
      BY <1>2 DEF TypeOK
    <2> QED
      BY <1>0, <1>2, <2>1, GotoFacts, ReturnFacts DEF LocalsOf, TypeOK
  <1>3. CASE /\ top[t] > lb[t] /\ Return(t, Null) /\ Goto(t, "popReset")
             /\ lt' = [lt EXCEPT ![t] = top[t]]
             /\ UNCHANGED <<taken, victim, lb>>
    <2>1. /\ lt' \in [Threads -> Nat] /\ lt'[t] = top[t]
          /\ \A u \in Threads \ {t} : lt'[u] = lt[u]
      BY <1>3 DEF TypeOK
    <2> QED
      BY <1>0, <1>3, <2>1, GotoFacts, ReturnFacts DEF LocalsOf, TypeOK
  <1> QED
    BY <1>1, <1>2, <1>3 DEF PopLoadTop

LEMMA PopCasFacts ==
  ASSUME TypeOK, NEW t \in Threads, PopCas(t)
  PROVE  /\ at[t] = "popCas" /\ at'[t] = "popStore" /\ LocalsOf(t) /\ lb'[t] = lb[t]
         /\ \/ /\ top[t] = lt[t] /\ lt'[t] = lt[t] /\ job'[t] = job[t] /\ Take(job[t])
            \/ /\ top[t] # lt[t] /\ lt'[t] = top[t] /\ job'[t] = Null /\ taken' = taken
  <1>0. /\ at[t] = "popCas" /\ Goto(t, "popStore") /\ lb' = lb /\ victim' = victim
        /\ "popStore" \in Places /\ Null \in Pointers
    BY DEF PopCas, Places, Pointers
  <1>1. CASE top[t] = lt[t] /\ Take(job[t]) /\ UNCHANGED <<lt, job>>
    BY <1>0, <1>1, GotoFacts DEF LocalsOf, TypeOK
  <1>2. CASE /\ top[t] # lt[t] /\ lt' = [lt EXCEPT ![t] = top[t]] /\ Return(t, Null)
             /\ taken' = taken
    <2>1. /\ lt' \in [Threads -> Nat] /\ lt'[t] = top[t]
          /\ \A u \in Threads \ {t} : lt'[u] = lt[u]
      BY <1>2 DEF TypeOK
    <2> QED
      BY <1>0, <1>2, <2>1, GotoFacts, ReturnFacts DEF LocalsOf, TypeOK
  <1> QED
    BY <1>1, <1>2 DEF PopCas

LEMMA PopEndFacts ==
  ASSUME TypeOK, NEW t \in Threads, PopStore(t) \/ PopReset(t)
  PROVE  /\ at[t] \in {"popStore", "popReset"} /\ at'[t] = "idle"
         /\ LocalsOf(t)
  <1>1. job' = job /\ Done(t) /\ at[t] \in {"popStore", "popReset"}
    BY DEF PopStore, PopReset
  <1> QED
    BY <1>1, DoneFacts DEF TypeOK

LEMMA StealLoadTopFacts ==
  ASSUME TypeOK, NEW t \in Threads, NEW q \in Threads, StealLoadTop(t, q)
  PROVE  /\ at[t] = "idle" /\ at'[t] = "stealBottom" /\ LocalsOf(t)
         /\ victim'[t] = q /\ lt'[t] = top[q]
  <1>0. "stealBottom" \in Places /\ Goto(t, "stealBottom") /\ at[t] = "idle"
    BY DEF StealLoadTop, Places
  <1>1. /\ lt' \in [Threads -> Nat] /\ lt'[t] = top[q]
        /\ \A u \in Threads \ {t} : lt'[u] = lt[u]
    BY DEF StealLoadTop, TypeOK
  <1>2. /\ victim' \in [Threads -> Threads] /\ victim'[t] = q
        /\ \A u \in Threads \ {t} : victim'[u] = victim[u]
    BY DEF StealLoadTop, TypeOK
  <1> QED
    BY <1>0, <1>1, <1>2, GotoFacts DEF StealLoadTop, LocalsOf, TypeOK

LEMMA StealLoadBottomFacts ==
  ASSUME TypeOK, NEW t \in Threads, StealLoadBottom(t)
  PROVE  /\ at[t] = "stealBottom" /\ LocalsOf(t)
         /\ \/ /\ lt[t] < bottom[victim[t]] /\ at'[t] = "stealRead"
               /\ victim'[t] = victim[t] /\ lt'[t] = lt[t] /\ job'[t] = job[t]
            \/ at'[t] = "idle" /\ job'[t] = Null
  <1>0. at[t] = "stealBottom" /\ "stealRead" \in Places /\ Null \in Pointers
    BY DEF StealLoadBottom, Places, Pointers
  <1>1. CASE /\ lt[t] < bottom[victim[t]] /\ Goto(t, "stealRead")
             /\ UNCHANGED <<job, victim, lt, lb>>
    BY <1>0, <1>1, GotoFacts DEF LocalsOf, TypeOK
  <1>2. CASE Return(t, Null) /\ Done(t)
    BY <1>0, <1>2, DoneFacts, ReturnFacts
  <1> QED
    BY <1>1, <1>2 DEF StealLoadBottom

LEMMA StealReadFacts ==
  ASSUME TypeOK, NEW t \in Threads, StealRead(t),
         NEW j \in Pointers, j = jobs[victim[t]][Slot(lt[t])]
  PROVE  /\ at[t] = "stealRead" /\ at'[t] = "stealCas" /\ LocalsOf(t)
         /\ victim'[t] = victim[t] /\ lt'[t] = lt[t] /\ job'[t] = j
  <1>0. at[t] = "stealRead" /\ "stealCas" \in Places /\ Goto(t, "stealCas") /\ Return(t, j)
    BY DEF StealRead, Places
  <1> QED
    BY <1>0, GotoFacts, ReturnFacts DEF StealRead, LocalsOf, TypeOK

LEMMA StealCasFacts ==
  ASSUME TypeOK, NEW t \in Threads, StealCas(t)
  PROVE  /\ at[t] = "stealCas" /\ at'[t] = "idle" /\ LocalsOf(t)
         /\ \/ /\ top[victim[t]] = lt[t] /\ job'[t] = job[t] /\ Take(job[t])
               /\ top' = [top EXCEPT ![victim[t]] = @ + 1]
            \/ job'[t] = Null /\ UNCHANGED <<top, taken>>
  <1>0. at[t] = "stealCas" /\ Done(t) /\ Null \in Pointers
    BY DEF StealCas, Pointers
  <1>1. CASE /\ top[victim[t]] = lt[t] /\ job' = job /\ Take(job[t])
             /\ top' = [top EXCEPT ![victim[t]] = @ + 1]
    BY <1>0, <1>1, DoneFacts DEF TypeOK
  <1>2. CASE Return(t, Null) /\ UNCHANGED <<top, taken>>
    BY <1>0, <1>2, DoneFacts, ReturnFacts
  <1> QED
    BY <1>1, <1>2 DEF StealCas

----------------------------------------------------------------------------
(* Basics is an invariant.                                                 *)

\* A step of thread t that pushes nothing.
LEMMA BasicsStep ==
  ASSUME Basics, NEW t \in Threads, LocalsOf(t), UNCHANGED <<jobs, pushed>>,
         top' \in [Threads -> Nat],
         bottom' \in [Threads -> BottomIndex],
         \A q \in Threads \ {t} : bottom'[q] = bottom[q],
         upset' \in [Threads -> SUBSET {"lost_race", "overrun"}],
         taken' \in [Jobs -> Nat],
         \A k \in Jobs : (\A q \in Threads : k \notin pushed[q]) => taken'[k] = taken[k],
         ~Popping(t)' => bottom'[t] \in Nat,
         at'[t] = "popTop" => lb'[t] = bottom'[t],
         at'[t] \in Stealing => victim'[t] \in Owners \ {t},
         at'[t] = "stealCas" => job'[t] \in pushed[victim'[t]] \union {Junk},
         at'[t] = "popCas" => job'[t] \in pushed[t] \union {Junk}
  PROVE  Basics'
  <1>1. TypeOK'
    BY DEF Basics, TypeOK, LocalsOf, Places
  <1>2. BottomNat'
    BY DEF Basics, BottomNat, Popping, LocalsOf
  <1>3. Victims' /\ Claimed'
    BY DEF Basics, Victims, Claimed, LocalsOf
  <1>4. OneQueue' /\ OwnSlots' /\ TakenPushed'
    BY DEF Basics, OneQueue, OwnSlots, TakenPushed
  <1> QED
    BY <1>1, <1>2, <1>3, <1>4 DEF Basics

\* Handing out a job that was pushed changes taken as BasicsStep wants.
LEMMA TakeKeeps ==
  ASSUME Basics, NEW q \in Threads, NEW j \in pushed[q] \union {Junk}, Take(j)
  PROVE  /\ taken' \in [Jobs -> Nat]
         /\ \A k \in Jobs : (\A p \in Threads : k \notin pushed[p]) => taken'[k] = taken[k]
  <1>1. j \in Pointers
    BY DEF Basics, TypeOK, Pointers
  <1> QED
    BY <1>1, TakeType, QueueAssumption DEF Basics

LEMMA BasicsKept == Basics /\ [Next]_vars => Basics'
  <1> SUFFICES ASSUME Basics, [Next]_vars
               PROVE  Basics'
    OBVIOUS
  <1>0. TypeOK
    BY DEF Basics
  <1>1. ASSUME NEW t \in Owners, NEW j \in Fresh, PushWrite(t, j)
        PROVE  Basics'
    <2>0. /\ t \in Threads /\ j \in Jobs /\ bottom[t] \in Nat
          /\ \A q \in Threads : j \notin pushed[q]
          /\ Slot(bottom[t]) \in Slots
      BY <1>1, QueueAssumption, SlotType
      DEF Fresh, PushWrite, Basics, BottomNat, OneQueue, Popping
    <2>1. LocalsOf(t) /\ at'[t] = "pushStore"
      BY <1>0, <1>1, <2>0, PushWriteFacts
    <2>2. TypeOK'
      BY <1>0, <1>1, <2>0, <2>1 DEF PushWrite, TypeOK, LocalsOf, Places
    <2>3. BottomNat' /\ Victims'
      BY <1>1, <2>0, <2>1 DEF PushWrite, Basics, BottomNat, Victims, Popping, LocalsOf, Stealing
    <2>4. OneQueue'
      BY <1>1, <2>0 DEF PushWrite, Basics, TypeOK, OneQueue
    <2>5. OwnSlots'
      BY <1>1, <2>0 DEF PushWrite, Basics, TypeOK, OwnSlots
    <2>6. Claimed'
      BY <1>1, <2>0, <2>1, QueueAssumption
      DEF PushWrite, Basics, TypeOK, Claimed, Victims, LocalsOf, Stealing
    <2>7. TakenPushed'
      BY <1>1, <2>0 DEF PushWrite, Basics, TypeOK, TakenPushed
    <2> QED
      BY <2>2, <2>3, <2>4, <2>5, <2>6, <2>7 DEF Basics
  <1>2. ASSUME NEW t \in Threads, PushStore(t)
        PROVE  Basics'
    <2>1. LocalsOf(t) /\ at'[t] = "idle"
      BY <1>0, <1>2, PushStoreFacts
    <2>2. bottom[t] \in Nat
      BY <1>2 DEF PushStore, Basics, BottomNat, Popping
    <2>3. /\ bottom' \in [Threads -> BottomIndex] /\ bottom'[t] \in Nat
          /\ \A q \in Threads \ {t} : bottom'[q] = bottom[q]
      BY <1>0, <1>2, <2>2, BottomIndices DEF PushStore, TypeOK
    <2> QED
      BY <1>0, <1>2, <2>1, <2>3, BasicsStep DEF PushStore, history, TypeOK, Stealing
  <1>3. ASSUME NEW t \in Owners, PopDecrement(t)
        PROVE  Basics'
    <2>0. t \in Threads /\ bottom[t] \in Nat
      BY <1>3, QueueAssumption DEF PopDecrement, Basics, BottomNat, Popping
    <2>1. LocalsOf(t) /\ at'[t] = "popTop" /\ lb'[t] = bottom[t] - 1
      BY <1>0, <1>3, <2>0, PopDecrementFacts
    <2>2. bottom[t] - 1 \in BottomIndex
      BY <2>0, BottomIndices
    <2>3. /\ bottom' \in [Threads -> BottomIndex] /\ bottom'[t] = bottom[t] - 1
          /\ \A q \in Threads \ {t} : bottom'[q] = bottom[q]
      BY <1>0, <1>3, <2>0, <2>2 DEF PopDecrement, TypeOK
    <2> QED
      BY <1>0, <1>3, <2>0, <2>1, <2>3, BasicsStep
      DEF PopDecrement, history, TypeOK, Stealing, Popping
  <1>4. ASSUME NEW t \in Threads, PopLoadTop(t)
        PROVE  Basics'
    <2> DEFINE j == jobs[t][Slot(lb[t])]
    <2>0. Slot(lb[t]) \in Slots
      BY <1>0, SlotType, BottomIndices DEF TypeOK
    <2>1. j \in pushed[t] \union {Junk} /\ j \in Pointers
      BY <1>0, <2>0 DEF Basics, OwnSlots, TypeOK, Pointers
    <2>2. /\ LocalsOf(t) /\ at[t] = "popTop"
          /\ at'[t] \in {"idle", "popCas", "popReset"}
          /\ at'[t] = "popCas" => job'[t] = j
          /\ at'[t] = "idle" => top[t] < lb[t]
          /\ Take(j) \/ taken' = taken
      BY <1>0, <1>4, <2>1, PopLoadTopFacts
    <2>3. ~Popping(t)' => bottom[t] \in Nat
      <3>1. lb[t] = bottom[t] /\ top[t] \in Nat /\ lb[t] \in BottomIndex
        BY <1>0, <2>2 DEF Basics, BottomNat, TypeOK
      <3>2. \A m \in Nat, n \in BottomIndex : m < n => n \in Nat
        BY DEF BottomIndex
      <3> QED
        BY <2>2, <3>1, <3>2 DEF Popping
    <2>4. UNCHANGED <<top, bottom, jobs, pushed, upset>>
      BY <1>4 DEF PopLoadTop, queueVars
    <2>5. /\ taken' \in [Jobs -> Nat]
          /\ \A k \in Jobs : (\A p \in Threads : k \notin pushed[p]) => taken'[k] = taken[k]
      BY <1>0, <2>1, <2>2, TakeKeeps DEF TypeOK
    <2> QED
      BY <1>0, <2>1, <2>2, <2>3, <2>4, <2>5, BasicsStep DEF TypeOK, Stealing
  <1>5. ASSUME NEW t \in Threads, PopCas(t)
        PROVE  Basics'
    <2>1. /\ LocalsOf(t) /\ at[t] = "popCas" /\ at'[t] = "popStore"
          /\ Take(job[t]) \/ taken' = taken
      BY <1>0, <1>5, PopCasFacts
    <2>2. /\ UNCHANGED <<bottom, jobs, pushed>>
          /\ top' \in [Threads -> Nat]
          /\ upset' \in [Threads -> SUBSET {"lost_race", "overrun"}]
      <3>1. UNCHANGED <<bottom, jobs, pushed>>
        BY <1>5 DEF PopCas
      <3>2. top' = [top EXCEPT ![t] = top[t] + 1] \/ top' = top
        BY <1>5 DEF PopCas
      <3>3. upset' = [upset EXCEPT ![t] = upset[t] \union {"lost_race"}] \/ upset' = upset
        BY <1>5 DEF PopCas
      <3>4. top' \in [Threads -> Nat]
        BY <1>0, <3>2 DEF TypeOK
      <3>5. upset' \in [Threads -> SUBSET {"lost_race", "overrun"}]
        BY <1>0, <3>3 DEF TypeOK
      <3> QED
        BY <3>1, <3>4, <3>5
    <2>3. job[t] \in pushed[t] \union {Junk}
      BY <2>1 DEF Basics, Claimed
    <2>4. /\ taken' \in [Jobs -> Nat]
          /\ \A k \in Jobs : (\A p \in Threads : k \notin pushed[p]) => taken'[k] = taken[k]
      BY <1>0, <2>1, <2>3, TakeKeeps DEF TypeOK
    <2> QED
      BY <1>0, <2>1, <2>2, <2>4, BasicsStep DEF TypeOK, Stealing, Popping
  <1>6. ASSUME NEW t \in Threads, PopStore(t) \/ PopReset(t)
        PROVE  Basics'
    <2>1. LocalsOf(t) /\ at'[t] = "idle"
      BY <1>0, <1>6, PopEndFacts
    <2>2. /\ bottom' \in [Threads -> BottomIndex] /\ bottom'[t] \in Nat
          /\ \A q \in Threads \ {t} : bottom'[q] = bottom[q]
      <3>1. lt[t] \in Nat /\ lt[t] + 1 \in Nat /\ lt[t] \in BottomIndex /\ lt[t] + 1 \in BottomIndex
        BY <1>0, BottomIndices DEF TypeOK
      <3>2. CASE PopStore(t)
        BY <1>0, <3>1, <3>2 DEF PopStore, TypeOK
      <3>3. CASE PopReset(t)
        BY <1>0, <3>1, <3>3 DEF PopReset, TypeOK
      <3> QED
        BY <1>6, <3>2, <3>3
    <2>3. UNCHANGED <<top, jobs, history>>
      BY <1>6 DEF PopStore, PopReset
    <2> QED
      BY <1>0, <2>1, <2>2, <2>3, BasicsStep DEF TypeOK, Stealing, history
  <1>7. ASSUME NEW t \in Threads, NEW q \in Owners, t # q, StealLoadTop(t, q)
        PROVE  Basics'
    <2>0. q \in Threads
      BY QueueAssumption
    <2>1. LocalsOf(t) /\ at[t] = "idle" /\ at'[t] = "stealBottom" /\ victim'[t] = q
      BY <1>0, <1>7, <2>0, StealLoadTopFacts
    <2>2. UNCHANGED <<queueVars, history>> /\ bottom[t] \in Nat
      BY <1>7, <2>1 DEF StealLoadTop, Basics, BottomNat, Popping
    <2> QED
      BY <1>0, <1>7, <2>1, <2>2, BasicsStep DEF TypeOK, Stealing, history, queueVars
  <1>8. ASSUME NEW t \in Threads, StealLoadBottom(t)
        PROVE  Basics'
    <2>1. /\ LocalsOf(t) /\ at[t] = "stealBottom" /\ at'[t] \in {"stealRead", "idle"}
          /\ at'[t] = "stealRead" => victim'[t] = victim[t]
      BY <1>0, <1>8, StealLoadBottomFacts
    <2>2. UNCHANGED <<queueVars, history>> /\ bottom[t] \in Nat /\ victim[t] \in Owners \ {t}
      BY <1>8, <2>1 DEF StealLoadBottom, Basics, BottomNat, Popping, Victims, Stealing
    <2> QED
      BY <1>0, <2>1, <2>2, BasicsStep DEF TypeOK, Stealing, history, queueVars
  <1>9. ASSUME NEW t \in Threads, StealRead(t)
        PROVE  Basics'
    <2> DEFINE j == jobs[victim[t]][Slot(lt[t])]
    <2>0. victim[t] \in Threads /\ Slot(lt[t]) \in Slots
      BY <1>0, SlotType DEF TypeOK
    <2>1. j \in pushed[victim[t]] \union {Junk} /\ j \in Pointers
      BY <1>0, <2>0 DEF Basics, OwnSlots, TypeOK, Pointers
    <2>2. /\ LocalsOf(t) /\ at[t] = "stealRead" /\ at'[t] = "stealCas"
          /\ victim'[t] = victim[t] /\ job'[t] = j
      BY <1>0, <1>9, <2>1, StealReadFacts
    <2>3. UNCHANGED <<queueVars, history>> /\ bottom[t] \in Nat /\ victim[t] \in Owners \ {t}
      BY <1>9, <2>2 DEF StealRead, Basics, BottomNat, Popping, Victims, Stealing
    <2> QED
      BY <1>0, <2>1, <2>2, <2>3, BasicsStep DEF TypeOK, Stealing, history, queueVars
  <1>10. ASSUME NEW t \in Threads, StealCas(t)
         PROVE  Basics'
    <2>1. /\ LocalsOf(t) /\ at[t] = "stealCas" /\ at'[t] = "idle"
          /\ Take(job[t]) \/ taken' = taken
      BY <1>0, <1>10, StealCasFacts
    <2>2. /\ UNCHANGED <<bottom, jobs, pushed, upset>>
          /\ top' \in [Threads -> Nat] /\ bottom[t] \in Nat
      <3>1. UNCHANGED <<bottom, jobs, pushed, upset>>
        BY <1>10 DEF StealCas
      <3>2. top' = [top EXCEPT ![victim[t]] = top[victim[t]] + 1] \/ top' = top
        BY <1>10 DEF StealCas
      <3>3. top' \in [Threads -> Nat]
        BY <1>0, <3>2 DEF TypeOK
      <3>4. bottom[t] \in Nat
        BY <2>1 DEF Basics, BottomNat, Popping
      <3> QED
        BY <3>1, <3>3, <3>4
    <2>3. victim[t] \in Threads /\ job[t] \in pushed[victim[t]] \union {Junk}
      BY <1>0, <2>1 DEF Basics, Claimed, TypeOK
    <2>4. /\ taken' \in [Jobs -> Nat]
          /\ \A k \in Jobs : (\A p \in Threads : k \notin pushed[p]) => taken'[k] = taken[k]
      BY <1>0, <2>1, <2>3, TakeKeeps DEF TypeOK
    <2> QED
      BY <1>0, <2>1, <2>2, <2>4, BasicsStep DEF TypeOK, Stealing
  <1>11. CASE UNCHANGED vars
    BY <1>11
    DEF vars, queueVars, localVars, history, Basics, TypeOK, BottomNat, Victims, OneQueue,
        OwnSlots, Claimed, TakenPushed, Popping
  <1> QED
    BY <1>1, <1>2, <1>3, <1>4, <1>5, <1>6, <1>7, <1>8, <1>9, <1>10, <1>11
    DEF Next, Continue

LEMMA BasicsInit == Init => Basics
  <1> SUFFICES ASSUME Init PROVE Basics
    OBVIOUS
  <1>1. TypeOK
    BY QueueAssumption, Constants DEF Init, TypeOK
  <1> QED
    BY <1>1
    DEF Init, Basics, BottomNat, Victims, Stealing, OneQueue, OwnSlots, Claimed, TakenPushed

\* Every index stays in its range, every slot holds a pushed job or nothing,
\* and bottom_ is below zero only inside pop, upset queues included: a lost
\* race corrupts what a queue promises, not what its variables may hold.
THEOREM TypeCorrect == Spec => []TypeOK
  BY BasicsInit, BasicsKept, PTL DEF Spec, Basics

----------------------------------------------------------------------------
(* What holds of a queue that was never overrun, and what of one that is   *)
(* not upset at all.                                                       *)

\* What the owner's locals know of top_, wherever the owner is.
OwnerKnows(q) ==
  /\ at[q] = "popCas" =>
       /\ lt[q] = bottom[q]
       /\ lt[q] <= top[q]
       /\ top[q] = lt[q] => job[q] = JobAt(q, lt[q])
  /\ at[q] = "popStore" => top[q] = Limit(q) /\ lt[q] \in {top[q] - 1, top[q]}
  /\ at[q] = "popReset" => top[q] = Limit(q) /\ lt[q] = top[q]

Shape(q) == top[q] <= Limit(q) /\ Limit(q) - top[q] <= Capacity /\ OwnerKnows(q)

\* A thief that may still win its compare_exchange is after an index of the
\* window, and has the job at that index.
Aims(t, q) ==
  at[t] \in Stealing /\ victim[t] = q =>
    /\ lt[t] <= top[q]
    /\ at[t] # "stealBottom" /\ lt[t] = top[q] => lt[t] < Limit(q)
    /\ at[t] = "stealCas" /\ lt[t] = top[q] => job[t] = JobAt(q, lt[t])

Thieves(q) == \A t \in Threads : Aims(t, q)

Kept(q) == \A j \in pushed[q] : taken[j] > 0 \/ \E i \in Window(q) : JobAt(q, i) = j

\* The window holds jobs that nobody has, each once; no index below it was ever
\* left unwritten.
Exact(q) ==
  /\ \A i \in Window(q) : JobAt(q, i) \in pushed[q] /\ taken[JobAt(q, i)] = 0
  /\ \A i, k \in Window(q) : JobAt(q, i) = JobAt(q, k) => i = k
  /\ \A j \in pushed[q] : taken[j] <= 1
  /\ at[q] = "popStore" => lt[q] = bottom[q]
  /\ \A i \in 0 .. Limit(q) - 1 : JobAt(q, i) # Junk

Sound(q) ==
  /\ "overrun" \notin upset[q] => Shape(q) /\ Thieves(q) /\ Kept(q)
  /\ upset[q] = {} => Exact(q)

QueueInv == Basics /\ (\A q \in Threads : Sound(q)) /\ NeverReadsJunk

OwnerPlaces == {"pushStore", "popTop", "popCas", "popStore", "popReset"}

\* The indices are numbers, and Limit is never below zero.
LEMMA LimitType ==
  ASSUME Basics, NEW q \in Threads
  PROVE  /\ Limit(q) \in Nat /\ top[q] \in Nat /\ bottom[q] \in BottomIndex
         /\ Limit(q) = bottom[q] + (IF at[q] \in OwnerPlaces THEN 1 ELSE 0)
  <1>1. CASE Popping(q)
    BY <1>1 DEF Basics, TypeOK, Limit, Popping, BottomIndex, OwnerPlaces
  <1>2. CASE ~Popping(q)
    BY <1>2 DEF Basics, TypeOK, Limit, Popping, BottomNat, OwnerPlaces
  <1> QED
    BY <1>1, <1>2

\* A step that leaves the window of queue q as it is.
LEMMA SameWindow ==
  ASSUME Basics, NEW q \in Threads, Sound(q), NEW t \in Threads, LocalsOf(t),
         top'[q] = top[q], jobs'[q] = jobs[q], pushed'[q] = pushed[q], upset'[q] = upset[q],
         Limit(q)' = Limit(q),
         \A j \in pushed[q] : taken'[j] = taken[j],
         "overrun" \notin upset[q] /\ Shape(q) /\ Thieves(q) => OwnerKnows(q)' /\ Aims(t, q)',
         upset[q] = {} /\ Exact(q) => (at'[q] = "popStore" => lt'[q] = bottom'[q])
  PROVE  Sound(q)'
  <1>1. Window(q)' = Window(q)
    BY DEF Window
  <1>2. ASSUME "overrun" \notin upset[q]
        PROVE  Shape(q)' /\ Thieves(q)' /\ Kept(q)'
    <2>1. Shape(q)'
      BY <1>2 DEF Sound, Shape
    <2>2. Thieves(q)'
      <3>1. \A u \in Threads \ {t} : Aims(u, q)'
        BY <1>2 DEF Sound, Thieves, Aims, LocalsOf, JobAt
      <3> QED
        BY <1>2, <3>1 DEF Sound, Thieves
    <2>3. Kept(q)'
      BY <1>1, <1>2 DEF Sound, Kept, JobAt
    <2> QED
      BY <2>1, <2>2, <2>3
  <1>3. ASSUME upset[q] = {}
        PROVE  Exact(q)'
    BY <1>1, <1>3 DEF Sound, Exact, JobAt
  <1> QED
    BY <1>2, <1>3 DEF Sound

\* A step of thread t that has nothing to do with queue q, or steals from it
\* without taking anything.
LEMMA Elsewhere ==
  ASSUME Basics, NEW q \in Threads, Sound(q), NEW t \in Threads, LocalsOf(t),
         top'[q] = top[q], bottom'[q] = bottom[q], jobs'[q] = jobs[q],
         pushed'[q] = pushed[q], upset'[q] = upset[q],
         t = q => at[t] \notin OwnerPlaces /\ at'[t] \notin OwnerPlaces,
         \A j \in pushed[q] : taken'[j] = taken[j],
         "overrun" \notin upset[q] /\ Thieves(q) => Aims(t, q)'
  PROVE  Sound(q)'
  <1>1. Limit(q)' = Limit(q)
    BY DEF Limit, Popping, LocalsOf, OwnerPlaces
  <1>2. Shape(q) => OwnerKnows(q)'
    BY <1>1 DEF Shape, OwnerKnows, LocalsOf, OwnerPlaces, JobAt
  <1>3. upset[q] = {} /\ Exact(q) => (at'[q] = "popStore" => lt'[q] = bottom'[q])
    BY DEF Exact, LocalsOf, OwnerPlaces
  <1> QED
    BY <1>1, <1>2, <1>3, SameWindow

\* A step that hands out the job at index e and takes e out of the window.
LEMMA Removed ==
  ASSUME Basics, NEW q \in Threads, Kept(q), NEW e \in Window(q),
         Window(q)' = Window(q) \ {e}, Take(JobAt(q, e)), JobAt(q, e) \in Pointers,
         jobs'[q] = jobs[q], pushed'[q] = pushed[q],
         Limit(q)' \in Int, Limit(q)' <= Limit(q)
  PROVE  /\ Kept(q)'
         /\ Exact(q) /\ (at'[q] = "popStore" => lt'[q] = bottom'[q]) => Exact(q)'
  <1> DEFINE j == JobAt(q, e)
  <1>1. /\ \A k \in Jobs : k # j => taken'[k] = taken[k]
        /\ \A k \in Jobs : taken[k] \in Nat /\ taken'[k] \in Nat
        /\ j \in Jobs => taken'[j] = taken[j] + 1
        /\ pushed[q] \subseteq Jobs
    BY TakeType DEF Basics, TypeOK
  <1>2. Kept(q)'
    <2> SUFFICES ASSUME NEW k \in pushed[q], ~(taken'[k] > 0)
                 PROVE  \E i \in Window(q)' : jobs'[q][Slot(i)] = k
      BY DEF Kept, JobAt
    <2>1. k # j /\ taken'[k] = taken[k]
      BY <1>1
    <2>2. PICK i \in Window(q) : JobAt(q, i) = k
      BY <2>1 DEF Kept
    <2> QED
      BY <2>1, <2>2 DEF JobAt
  <1>3. ASSUME Exact(q), at'[q] = "popStore" => lt'[q] = bottom'[q]
        PROVE  Exact(q)'
    <2>1. j \in pushed[q] /\ taken[j] = 0
      BY <1>3 DEF Exact
    <2>2. \A i \in Window(q)' : i \in Window(q) /\ JobAt(q, i) \in pushed[q] \ {j}
      BY <1>3 DEF Exact
    <2>3. \A i \in Window(q)' : jobs'[q][Slot(i)] \in pushed'[q] /\ taken'[jobs'[q][Slot(i)]] = 0
      BY <1>1, <1>3, <2>2 DEF Exact, JobAt
    <2>4. \A i, k \in Window(q)' : jobs'[q][Slot(i)] = jobs'[q][Slot(k)] => i = k
      BY <1>3, <2>2 DEF Exact, JobAt
    <2>5. \A k \in pushed'[q] : taken'[k] <= 1
      BY <1>1, <1>3, <2>1 DEF Exact
    <2>6. \A i \in 0 .. Limit(q)' - 1 : jobs'[q][Slot(i)] # Junk
      <3>1. Limit(q) \in Nat
        BY LimitType
      <3> QED
        BY <1>3, <3>1 DEF Exact, JobAt
    <2> QED
      BY <1>3, <2>3, <2>4, <2>5, <2>6 DEF Exact, JobAt
  <1> QED
    BY <1>2, <1>3

\* A push that does not overrun the ring fills a slot outside the window.
LEMMA PushSound ==
  ASSUME Basics, NEW t \in Owners, Sound(t), NEW j \in Fresh, PushWrite(t, j)
  PROVE  Sound(t)'
  <1>0. /\ TypeOK /\ t \in Threads /\ j \in Jobs /\ j # Junk /\ bottom[t] \in Nat
        /\ \A q \in Threads : j \notin pushed[q]
        /\ taken[j] = 0
    BY QueueAssumption
    DEF Fresh, PushWrite, Basics, BottomNat, OneQueue, Popping, TakenPushed
  <1>1. /\ LocalsOf(t) /\ at[t] = "idle" /\ at'[t] = "pushStore"
        /\ UNCHANGED <<top, bottom, lt, taken>>
    BY <1>0, PushWriteFacts DEF PushWrite
  <1>2. /\ jobs'[t] = [jobs[t] EXCEPT ![Slot(bottom[t])] = j]
        /\ pushed'[t] = pushed[t] \union {j}
        /\ bottom[t] - top[t] >= Capacity => "overrun" \in upset'[t]
        /\ upset'[t] = upset[t] \/ "overrun" \in upset'[t]
    BY <1>0 DEF PushWrite, TypeOK
  <1>3. /\ Limit(t) = bottom[t] /\ Limit(t)' = bottom[t] + 1
        /\ top[t] \in Nat /\ Capacity \in Nat
    BY <1>0, <1>1, QueueAssumption DEF Limit, Popping, TypeOK
  <1> SUFFICES ASSUME "overrun" \notin upset'[t]
               PROVE  /\ Shape(t)' /\ Thieves(t)' /\ Kept(t)'
                      /\ upset'[t] = {} => Exact(t)'
    BY DEF Sound
  <1>4. upset'[t] = upset[t] /\ bottom[t] - top[t] < Capacity /\ "overrun" \notin upset[t]
    BY <1>0, <1>2, <1>3
  <1>5. Shape(t) /\ Thieves(t) /\ Kept(t)
    BY <1>4 DEF Sound
  <1>6. /\ jobs'[t][Slot(bottom[t])] = j
        /\ \A i \in top[t] .. bottom[t] - 1 : jobs'[t][Slot(i)] = jobs[t][Slot(i)]
        /\ \A i \in Nat : jobs'[t][Slot(i)] \in {jobs[t][Slot(i)], j}
    <2>1. \A i \in Int : Slot(i) \in Slots
      BY SlotType
    <2>2. /\ jobs'[t][Slot(bottom[t])] = j
          /\ \A s \in Slots : s # Slot(bottom[t]) => jobs'[t][s] = jobs[t][s]
      BY <1>0, <1>2, <2>1 DEF TypeOK
    <2>3. \A i \in top[t] .. bottom[t] - 1 : Slot(i) # Slot(bottom[t])
      BY <1>0, <1>3, <1>4, DistinctSlots
    <2> QED
      BY <1>0, <1>1, <1>3, <2>1, <2>2, <2>3
  <1>7. Window(t) = top[t] .. bottom[t] - 1 /\ Window(t)' = top[t] .. bottom[t]
    BY <1>0, <1>1, <1>3 DEF Window
  <1>8. Shape(t)'
    BY <1>0, <1>1, <1>3, <1>4, <1>5 DEF Shape, OwnerKnows
  <1>9. Thieves(t)'
    <2>1. \A u \in Threads \ {t} : Aims(u, t)'
      <3> SUFFICES ASSUME NEW u \in Threads \ {t}
                   PROVE  Aims(u, t)'
        OBVIOUS
      <3>1. Aims(u, t) /\ lt[u] \in Nat
        BY <1>0, <1>5 DEF Thieves, TypeOK
      <3>2. lt[u] = top[t] /\ lt[u] < bottom[t] =>
              jobs'[t][Slot(lt[u])] = jobs[t][Slot(lt[u])]
        BY <1>0, <1>3, <1>6, <3>1 DEF JobAt
      <3> QED
        BY <1>0, <1>1, <1>3, <3>1, <3>2 DEF Aims, LocalsOf, JobAt
    <2> QED
      BY <1>1, <2>1 DEF Thieves, Aims, Stealing
  <1>10. Kept(t)'
    <2> SUFFICES ASSUME NEW k \in pushed'[t], ~(taken[k] > 0)
                 PROVE  \E i \in Window(t)' : JobAt(t, i)' = k
      BY <1>1 DEF Kept
    <2>1. CASE k = j
      <3>1. top[t] <= bottom[t]
        BY <1>3, <1>5 DEF Shape
      <3>2. bottom[t] \in Window(t)'
        BY <1>0, <1>3, <1>7, <3>1
      <3> QED
        BY <1>6, <2>1, <3>2 DEF JobAt
    <2>2. CASE k \in pushed[t]
      BY <1>0, <1>3, <1>5, <1>6, <1>7, <2>2 DEF Kept, JobAt
    <2> QED
      BY <1>2, <2>1, <2>2
  <1>11. ASSUME upset'[t] = {}
         PROVE  Exact(t)'
    <2>1. Exact(t)
      BY <1>4, <1>11 DEF Sound
    <2>2. \A i \in Window(t) : JobAt(t, i) # j
      BY <1>0, <2>1 DEF Exact
    <2>3. \A i \in Window(t)' : i \in Window(t) \/ i = bottom[t]
      BY <1>0, <1>3, <1>7
    <2>4. \A i \in Window(t)' : JobAt(t, i)' \in pushed'[t] /\ taken'[JobAt(t, i)'] = 0
      BY <1>0, <1>1, <1>2, <1>6, <1>7, <2>1, <2>3 DEF Exact, JobAt
    <2>5. \A i, k \in Window(t)' : JobAt(t, i)' = JobAt(t, k)' => i = k
      <3> SUFFICES ASSUME NEW i \in Window(t)', NEW k \in Window(t)', i # k
                   PROVE  jobs'[t][Slot(i)] # jobs'[t][Slot(k)]
        BY DEF JobAt
      <3>1. \A n \in Window(t) : jobs'[t][Slot(n)] = jobs[t][Slot(n)]
        BY <1>6, <1>7
      <3> QED
        BY <1>6, <2>1, <2>2, <2>3, <3>1 DEF Exact, JobAt
    <2>6. \A k \in pushed'[t] : taken'[k] <= 1
      BY <1>0, <1>1, <1>2, <2>1 DEF Exact
    <2>7. \A i \in 0 .. Limit(t)' - 1 : JobAt(t, i)' # Junk
      <3> SUFFICES ASSUME NEW i \in Nat, i < bottom[t] + 1
                   PROVE  jobs'[t][Slot(i)] # Junk
        BY <1>0, <1>3 DEF JobAt
      <3>1. i # bottom[t] => jobs[t][Slot(i)] # Junk
        BY <1>0, <1>3, <2>1 DEF Exact, JobAt
      <3>2. /\ jobs'[t][Slot(bottom[t])] = j
            /\ jobs'[t][Slot(i)] \in {jobs[t][Slot(i)], j}
        BY <1>6
      <3> QED
        BY <1>0, <3>1, <3>2
    <2> QED
      BY <1>1, <2>4, <2>5, <2>6, <2>7 DEF Exact
  <1> QED
    BY <1>8, <1>9, <1>10, <1>11

\* The step by which a thief, or the owner with its compare_exchange, takes the
\* job at top_.
LEMMA FrontTaken ==
  ASSUME Basics, NEW q \in Threads, Sound(q), NEW t \in Threads, LocalsOf(t),
         "overrun" \notin upset[q] =>
            top[q] < Limit(q) /\ Take(JobAt(q, top[q])) /\ OwnerKnows(q)',
         top'[q] = top[q] + 1, bottom'[q] = bottom[q], jobs'[q] = jobs[q],
         pushed'[q] = pushed[q], upset'[q] = upset[q], Limit(q)' = Limit(q),
         at'[t] \notin Stealing,
         upset[q] = {} /\ at'[q] = "popStore" =>
            lt'[q] = bottom'[q] \/ (at[q] = "popStore" /\ lt'[q] = lt[q])
  PROVE  Sound(q)'
  <1> SUFFICES ASSUME "overrun" \notin upset[q]
               PROVE  /\ Shape(q)' /\ Thieves(q)' /\ Kept(q)'
                      /\ upset[q] = {} => Exact(q)'
    BY DEF Sound
  <1>1. /\ Limit(q) \in Nat /\ top[q] \in Nat /\ bottom[q] \in Int /\ Capacity \in Nat
        /\ \A u \in Threads : lt[u] \in Nat
    BY LimitType, BottomIndices, QueueAssumption DEF Basics, TypeOK
  <1>2. Shape(q) /\ Thieves(q) /\ Kept(q) /\ (upset[q] = {} => Exact(q))
    BY DEF Sound
  <1>3. /\ top[q] \in Window(q)
        /\ Window(q)' = Window(q) \ {top[q]}
    BY <1>1 DEF Window
  <1>4. JobAt(q, top[q]) \in Pointers
    BY <1>1, SlotType DEF Basics, TypeOK, JobAt, Pointers
  <1>5. Shape(q)'
    BY <1>1, <1>2 DEF Shape
  <1>6. Thieves(q)'
    <2>1. ASSUME NEW u \in Threads \ {t}
          PROVE  Aims(u, q)'
      <3>1. at[u] \in Stealing /\ victim[u] = q => lt[u] <= top[q]
        BY <1>2 DEF Thieves, Aims
      <3> QED
        BY <1>1, <3>1 DEF Aims, LocalsOf
    <2> QED
      BY <2>1 DEF Thieves, Aims
  <1>7. ASSUME upset[q] = {}
        PROVE  at'[q] = "popStore" => lt'[q] = bottom'[q]
    BY <1>2, <1>7 DEF Exact
  <1>8. Kept(q)' /\ (upset[q] = {} => Exact(q)')
    BY <1>1, <1>2, <1>3, <1>4, <1>7, Removed
  <1> QED
    BY <1>5, <1>6, <1>8

\* A thief that wins its compare_exchange takes the front of the window.
LEMMA StealSound ==
  ASSUME Basics, NEW q \in Threads, Sound(q), NEW t \in Threads, StealCas(t), victim[t] = q,
         top[q] = lt[t], Take(job[t]), top' = [top EXCEPT ![q] = @ + 1]
  PROVE  Sound(q)'
  <1>0. TypeOK
    BY DEF Basics
  <1>1. LocalsOf(t) /\ at[t] = "stealCas" /\ at'[t] = "idle" /\ q # t
    BY <1>0, StealCasFacts DEF Basics, Victims, Stealing
  <1>2. /\ UNCHANGED <<bottom, jobs, pushed, upset>>
        /\ top'[q] = top[q] + 1 /\ top[q] \in Nat
    BY <1>0 DEF StealCas, TypeOK
  <1>3. Limit(q)' = Limit(q)
    BY <1>1, <1>2 DEF Limit, Popping, LocalsOf
  <1>4. ASSUME "overrun" \notin upset[q]
        PROVE  top[q] < Limit(q) /\ Take(JobAt(q, top[q])) /\ OwnerKnows(q)'
    <2>1. Aims(t, q) /\ Shape(q)
      BY <1>4 DEF Sound, Thieves
    <2>2. top[q] < Limit(q) /\ job[t] = JobAt(q, top[q])
      BY <1>1, <2>1 DEF Aims, Stealing
    <2>3. Limit(q) \in Nat /\ lt[q] \in Nat
      BY <1>0, LimitType DEF TypeOK
    <2>4. OwnerKnows(q)'
      BY <1>1, <1>2, <1>3, <2>1, <2>2, <2>3 DEF Shape, OwnerKnows, LocalsOf, JobAt
    <2> QED
      BY <2>2, <2>4
  <1>5. at'[q] = "popStore" => at[q] = "popStore" /\ lt'[q] = lt[q]
    BY <1>1 DEF LocalsOf
  <1> QED
    BY <1>1, <1>2, <1>3, <1>4, <1>5, FrontTaken DEF Stealing

\* So does an owner that wins the last job; one that loses leaves the window as it
\* is and remembers the new top_.
LEMMA PopCasSound ==
  ASSUME Basics, NEW t \in Threads, Sound(t), PopCas(t)
  PROVE  Sound(t)'
  <1>0. TypeOK
    BY DEF Basics
  <1>1. /\ LocalsOf(t) /\ at[t] = "popCas" /\ at'[t] = "popStore"
        /\ UNCHANGED <<bottom, jobs, pushed>>
    BY <1>0, PopCasFacts DEF PopCas
  <1>2. /\ Limit(t)' = Limit(t) /\ Limit(t) = bottom[t] + 1
        /\ top[t] \in Nat /\ lt[t] \in Nat /\ bottom[t] \in Int
    BY <1>0, <1>1, BottomIndices DEF Limit, Popping, TypeOK
  <1>3. "overrun" \notin upset[t] =>
           /\ lt[t] = bottom[t] /\ lt[t] <= top[t] /\ top[t] <= Limit(t)
           /\ top[t] = lt[t] => job[t] = JobAt(t, lt[t])
    BY <1>1 DEF Sound, Shape, OwnerKnows
  <1>4. CASE /\ top[t] = lt[t] /\ top' = [top EXCEPT ![t] = @ + 1]
             /\ Take(job[t]) /\ UNCHANGED <<lt, job, upset>>
    <2>1. top'[t] = top[t] + 1
      BY <1>0, <1>4 DEF TypeOK
    <2>2. ASSUME "overrun" \notin upset[t]
          PROVE  top[t] < Limit(t) /\ Take(JobAt(t, top[t])) /\ OwnerKnows(t)'
      BY <1>1, <1>2, <1>3, <1>4, <2>1, <2>2 DEF OwnerKnows
    <2>3. ASSUME upset[t] = {}
          PROVE  lt'[t] = bottom'[t]
      BY <1>1, <1>3, <1>4, <2>3
    <2> QED
      BY <1>1, <1>2, <1>4, <2>1, <2>2, <2>3, FrontTaken DEF Stealing
  <1>5. CASE /\ top[t] # lt[t] /\ lt' = [lt EXCEPT ![t] = top[t]]
             /\ upset' = [upset EXCEPT ![t] = @ \union {"lost_race"}]
             /\ UNCHANGED <<top, taken>>
    <2>1. upset'[t] = upset[t] \union {"lost_race"} /\ lt'[t] = top[t]
      BY <1>0, <1>5 DEF TypeOK
    <2> SUFFICES ASSUME "overrun" \notin upset[t]
                 PROVE  Shape(t)' /\ Thieves(t)' /\ Kept(t)'
      BY <2>1 DEF Sound
    <2>2. Shape(t)'
      BY <1>1, <1>2, <1>3, <1>5, <2>1 DEF Sound, Shape, OwnerKnows
    <2>3. Thieves(t)'
      BY <1>1, <1>2, <1>5 DEF Sound, Thieves, Aims, LocalsOf, JobAt, Stealing
    <2>4. Kept(t)'
      BY <1>1, <1>2, <1>5 DEF Sound, Kept, JobAt, Window
    <2> QED
      BY <2>2, <2>3, <2>4
  <1> QED
    BY <1>4, <1>5 DEF PopCas

\* With more than one job left pop takes the back of the window without a race.
LEMMA PopLoadTopSound ==
  ASSUME Basics, NEW t \in Threads, Sound(t), PopLoadTop(t)
  PROVE  Sound(t)'
  <1> DEFINE j == jobs[t][Slot(lb[t])]
  <1>0. /\ TypeOK /\ at[t] = "popTop" /\ lb[t] = bottom[t] /\ j = JobAt(t, bottom[t])
        /\ UNCHANGED <<top, bottom, jobs, pushed, upset>>
        /\ top[t] \in Nat /\ bottom[t] \in Int
    BY BottomIndices DEF Basics, TypeOK, BottomNat, PopLoadTop, queueVars, JobAt
  <1>1. j \in Pointers
    BY <1>0, SlotType DEF TypeOK, Pointers
  <1>2. /\ LocalsOf(t)
        /\ \/ /\ top[t] < bottom[t] /\ at'[t] = "idle" /\ Take(JobAt(t, bottom[t]))
           \/ /\ top[t] = bottom[t] /\ at'[t] = "popCas" /\ job'[t] = JobAt(t, bottom[t])
              /\ taken' = taken /\ lt'[t] = top[t]
           \/ /\ top[t] > bottom[t] /\ at'[t] = "popReset" /\ taken' = taken
              /\ lt'[t] = top[t]
    BY <1>0, <1>1, PopLoadTopFacts
  <1>3. Limit(t) = bottom[t] + 1
    BY <1>0 DEF Limit, Popping
  <1>4. CASE top[t] < bottom[t] /\ at'[t] = "idle" /\ Take(JobAt(t, bottom[t]))
    <2>1. Limit(t)' = bottom[t]
      BY <1>0, <1>4 DEF Limit, Popping
    <2>2. bottom[t] \in Window(t) /\ Window(t)' = Window(t) \ {bottom[t]}
      BY <1>0, <1>3, <1>4, <2>1 DEF Window
    <2> SUFFICES ASSUME "overrun" \notin upset[t]
                 PROVE  /\ Shape(t)' /\ Thieves(t)' /\ Kept(t)'
                        /\ upset[t] = {} => Exact(t)'
      BY <1>0 DEF Sound
    <2>3. Shape(t) /\ Thieves(t) /\ Kept(t) /\ (upset[t] = {} => Exact(t))
      BY DEF Sound
    <2>4. Shape(t)'
      BY <1>0, <1>3, <1>4, <2>1, <2>3, QueueAssumption DEF Shape, OwnerKnows
    <2>5. Thieves(t)'
      <3>1. ASSUME NEW u \in Threads \ {t}
            PROVE  Aims(u, t)'
        <4>1. Aims(u, t)
          BY <2>3 DEF Thieves
        <4> QED
          BY <1>0, <1>2, <1>4, <2>1, <4>1 DEF Aims, LocalsOf, JobAt
      <3> QED
        BY <1>4, <3>1 DEF Thieves, Aims, Stealing
    <2>6. Kept(t)' /\ (upset[t] = {} => Exact(t)')
      BY <1>0, <1>1, <1>3, <1>4, <2>1, <2>2, <2>3, Removed
    <2> QED
      BY <2>4, <2>5, <2>6
  <1>5. CASE /\ at'[t] \in {"popCas", "popReset"} /\ taken' = taken
    <2>1. Limit(t)' = Limit(t)
      BY <1>0, <1>5 DEF Limit, Popping
    <2>2. Aims(t, t)' /\ at'[t] # "popStore"
      BY <1>5 DEF Aims, Stealing
    <2>3. Shape(t) => OwnerKnows(t)'
      BY <1>0, <1>2, <1>3, <1>5, <2>1 DEF Shape, OwnerKnows, JobAt
    <2> QED
      BY <1>0, <1>2, <1>5, <2>1, <2>2, <2>3, SameWindow
  <1> QED
    BY <1>2, <1>4, <1>5

\* The steps that move bottom_ move the end of the window only in appearance.
LEMMA BottomMovesSound ==
  ASSUME Basics, NEW t \in Threads, Sound(t), PushStore(t) \/ PopDecrement(t) \/ PopReset(t)
  PROVE  Sound(t)'
  <1>0. /\ TypeOK /\ UNCHANGED <<top, jobs, history>>
        /\ top[t] \in Nat /\ bottom[t] \in Int /\ lt[t] \in Nat
    BY BottomIndices DEF Basics, TypeOK, PushStore, PopDecrement, PopReset
  <1>1. PopDecrement(t) => bottom[t] \in Nat
    BY DEF PopDecrement, Basics, BottomNat, Popping
  <1>2. /\ LocalsOf(t)
        /\ \/ at[t] = "pushStore" /\ at'[t] = "idle" /\ bottom'[t] = bottom[t] + 1
           \/ at[t] = "idle" /\ at'[t] = "popTop" /\ bottom'[t] = bottom[t] - 1
           \/ at[t] = "popReset" /\ at'[t] = "idle" /\ bottom'[t] = lt[t]
    <2>1. CASE PushStore(t)
      BY <1>0, <2>1, PushStoreFacts DEF PushStore, TypeOK
    <2>2. CASE PopDecrement(t)
      BY <1>0, <1>1, <2>2, PopDecrementFacts DEF PopDecrement, TypeOK
    <2>3. CASE PopReset(t)
      BY <1>0, <2>3, PopEndFacts DEF PopReset, TypeOK
    <2> QED
      BY <2>1, <2>2, <2>3
  <1>3. CASE "overrun" \in upset[t]
    BY <1>0, <1>3 DEF Sound, history
  <1>4. CASE "overrun" \notin upset[t]
    <2>1. Limit(t)' = Limit(t)
      BY <1>0, <1>2, <1>4 DEF Sound, Shape, OwnerKnows, Limit, Popping
    <2>2. OwnerKnows(t)' /\ Aims(t, t)' /\ at'[t] # "popStore"
      BY <1>2 DEF OwnerKnows, Aims, Stealing
    <2> QED
      BY <1>0, <1>2, <2>1, <2>2, SameWindow DEF history
  <1> QED
    BY <1>3, <1>4

\* After a lost race pop stores top + 1, and the window grows by an index that
\* holds an old job; otherwise it stores what it found.
LEMMA PopStoreSound ==
  ASSUME Basics, NEW t \in Threads, Sound(t), PopStore(t)
  PROVE  Sound(t)'
  <1>0. /\ TypeOK /\ at[t] = "popStore" /\ UNCHANGED <<top, jobs, history>>
        /\ top[t] \in Nat /\ bottom[t] \in Int /\ lt[t] \in Nat /\ Capacity \in Nat \ {0}
    BY BottomIndices, QueueAssumption DEF Basics, TypeOK, PopStore
  <1>1. LocalsOf(t) /\ at'[t] = "idle" /\ bottom'[t] = lt[t] + 1
    BY <1>0, PopEndFacts DEF PopStore, TypeOK
  <1>2. Limit(t) = bottom[t] + 1 /\ Limit(t)' = lt[t] + 1
    BY <1>0, <1>1 DEF Limit, Popping
  <1>3. CASE "overrun" \in upset[t]
    BY <1>0, <1>3 DEF Sound, history
  <1>4. CASE "overrun" \notin upset[t] /\ lt[t] = bottom[t]
    <2>1. OwnerKnows(t)' /\ Aims(t, t)' /\ at'[t] # "popStore"
      BY <1>1 DEF OwnerKnows, Aims, Stealing
    <2> QED
      BY <1>0, <1>1, <1>2, <1>4, <2>1, SameWindow DEF history
  <1>5. CASE "overrun" \notin upset[t] /\ lt[t] # bottom[t]
    <2>1. /\ Shape(t) /\ Thieves(t) /\ Kept(t) /\ upset[t] # {}
      BY <1>0, <1>5 DEF Sound, Exact
    <2>2. lt[t] = top[t] /\ top[t] = Limit(t)
      BY <1>0, <1>2, <1>5, <2>1 DEF Shape, OwnerKnows
    <2>3. Shape(t)'
      BY <1>0, <1>1, <1>2, <2>1, <2>2 DEF Shape, OwnerKnows
    <2>4. Thieves(t)'
      <3>1. ASSUME NEW u \in Threads \ {t}
            PROVE  Aims(u, t)'
        <4>1. Aims(u, t)
          BY <2>1 DEF Thieves
        <4> QED
          BY <1>0, <1>1, <1>2, <2>2, <4>1 DEF Aims, LocalsOf, JobAt
      <3> QED
        BY <1>1, <3>1 DEF Thieves, Aims, Stealing
    <2>5. Window(t) \subseteq Window(t)'
      BY <1>0, <1>2, <2>2 DEF Window
    <2>6. Kept(t)'
      BY <1>0, <2>1, <2>5 DEF Kept, JobAt, history
    <2> QED
      BY <1>0, <2>1, <2>3, <2>4, <2>6 DEF Sound, history
  <1> QED
    BY <1>3, <1>4, <1>5

----------------------------------------------------------------------------
(* QueueInv is an invariant.                                               *)

\* Handing out a job of queue q does not touch the jobs of other queues.
LEMMA TakeElsewhere ==
  ASSUME Basics, NEW q \in Threads, NEW p \in Threads \ {q},
         NEW j \in pushed[q] \union {Junk}, Take(j) \/ taken' = taken
  PROVE  \A k \in pushed[p] : taken'[k] = taken[k]
  <1>1. j \in Pointers /\ j \notin pushed[p] /\ pushed[p] \subseteq Jobs
    BY QueueAssumption DEF Basics, TypeOK, Pointers, OneQueue
  <1> QED
    BY <1>1, TakeType DEF Basics

\* A step of an owner on its own queue leaves the other queues sound.
LEMMA OthersSound ==
  ASSUME Basics, NEW t \in Threads, NEW q \in Threads \ {t}, Sound(q), LocalsOf(t),
         top'[q] = top[q], bottom'[q] = bottom[q], jobs'[q] = jobs[q],
         pushed'[q] = pushed[q], upset'[q] = upset[q], at'[t] \notin Stealing,
         \A j \in pushed[q] : taken'[j] = taken[j]
  PROVE  Sound(q)'
  <1>1. Aims(t, q)'
    BY DEF Aims
  <1> QED
    BY <1>1, Elsewhere

\* Every step keeps every queue sound.
LEMMA SoundKept ==
  ASSUME Basics, \A q \in Threads : Sound(q), [Next]_vars, NEW q \in Threads
  PROVE  Sound(q)'
  <1>0. TypeOK /\ Sound(q)
    BY DEF Basics
  <1>1. ASSUME NEW t \in Owners, NEW j \in Fresh, PushWrite(t, j)
        PROVE  Sound(q)'
    <2>0. t \in Threads /\ j \in Jobs
      BY QueueAssumption DEF Fresh
    <2>1. LocalsOf(t) /\ at'[t] = "pushStore"
      BY <1>0, <1>1, <2>0, PushWriteFacts
    <2>2. CASE q = t
      BY <1>0, <1>1, <2>2, PushSound
    <2>3. CASE q # t
      BY <1>0, <1>1, <2>0, <2>1, <2>3, OthersSound DEF PushWrite, TypeOK, Stealing
    <2> QED
      BY <2>2, <2>3
  <1>2. ASSUME NEW t \in Threads, PushStore(t) \/ PopDecrement(t) \/ PopReset(t) \/ PopStore(t)
        PROVE  Sound(q)'
    <2>1. LocalsOf(t) /\ at'[t] \in {"idle", "popTop"}
      BY <1>0, <1>2, PushStoreFacts, PopDecrementFacts, PopEndFacts
      DEF PopDecrement, Basics, BottomNat, Popping
    <2>2. CASE q = t
      BY <1>0, <1>2, <2>2, BottomMovesSound, PopStoreSound
    <2>3. CASE q # t
      <3>1. bottom'[q] = bottom[q] /\ UNCHANGED <<top, jobs, history>>
        BY <1>0, <1>2, <2>3 DEF PushStore, PopDecrement, PopReset, PopStore, TypeOK
      <3> QED
        BY <1>0, <2>1, <2>3, <3>1, OthersSound DEF Stealing, history
    <2> QED
      BY <2>2, <2>3
  <1>3. ASSUME NEW t \in Threads, PopLoadTop(t)
        PROVE  Sound(q)'
    <2> DEFINE j == jobs[t][Slot(lb[t])]
    <2>0. j \in pushed[t] \union {Junk} /\ j \in Pointers
      BY <1>0, SlotType, BottomIndices DEF Basics, OwnSlots, TypeOK, Pointers
    <2>1. /\ LocalsOf(t) /\ at'[t] \in {"idle", "popCas", "popReset"}
          /\ Take(j) \/ taken' = taken
          /\ UNCHANGED <<top, bottom, jobs, pushed, upset>>
      BY <1>0, <1>3, <2>0, PopLoadTopFacts DEF PopLoadTop, queueVars
    <2>2. CASE q = t
      BY <1>0, <1>3, <2>2, PopLoadTopSound
    <2>3. CASE q # t
      BY <1>0, <2>0, <2>1, <2>3, OthersSound, TakeElsewhere DEF Stealing
    <2> QED
      BY <2>2, <2>3
  <1>4. ASSUME NEW t \in Threads, PopCas(t)
        PROVE  Sound(q)'
    <2>1. /\ LocalsOf(t) /\ at[t] = "popCas" /\ at'[t] = "popStore"
          /\ Take(job[t]) \/ taken' = taken
          /\ job[t] \in pushed[t] \union {Junk}
      BY <1>0, <1>4, PopCasFacts DEF Basics, Claimed
    <2>2. CASE q = t
      BY <1>0, <1>4, <2>2, PopCasSound
    <2>3. CASE q # t
      <3>1. UNCHANGED <<bottom, jobs, pushed>> /\ top'[q] = top[q] /\ upset'[q] = upset[q]
        BY <1>0, <1>4, <2>3 DEF PopCas, TypeOK
      <3> QED
        BY <1>0, <2>1, <2>3, <3>1, OthersSound, TakeElsewhere DEF Stealing
    <2> QED
      BY <2>2, <2>3
  <1>5. ASSUME NEW t \in Threads, NEW p \in Owners, t # p, StealLoadTop(t, p)
        PROVE  Sound(q)'
    <2>0. p \in Threads
      BY QueueAssumption
    <2>1. /\ LocalsOf(t) /\ at[t] = "idle" /\ at'[t] = "stealBottom"
          /\ victim'[t] = p /\ lt'[t] = top[p]
          /\ UNCHANGED <<queueVars, history>> /\ \A r \in Threads : top[r] \in Nat
      BY <1>0, <1>5, <2>0, StealLoadTopFacts DEF StealLoadTop, TypeOK
    <2>2. Aims(t, q)'
      BY <2>1 DEF Aims, queueVars
    <2> QED
      BY <1>0, <2>1, <2>2, Elsewhere DEF queueVars, history, OwnerPlaces
  <1>6. ASSUME NEW t \in Threads, StealLoadBottom(t)
        PROVE  Sound(q)'
    <2>1. /\ LocalsOf(t) /\ at[t] = "stealBottom"
          /\ \/ /\ lt[t] < bottom[victim[t]] /\ at'[t] = "stealRead"
                /\ victim'[t] = victim[t] /\ lt'[t] = lt[t]
             \/ at'[t] = "idle"
          /\ UNCHANGED <<queueVars, history>>
      BY <1>0, <1>6, StealLoadBottomFacts DEF StealLoadBottom
    <2>2. Limit(q)' = Limit(q) /\ bottom[q] <= Limit(q) /\ Limit(q) \in Nat /\ bottom[q] \in Int
      <3>1. Limit(q)' = Limit(q)
        BY <2>1 DEF Limit, Popping, LocalsOf, queueVars
      <3>2. bottom[q] \in Int /\ Limit(q) \in Nat
        BY LimitType, BottomIndices
      <3>3. bottom[q] <= Limit(q)
        BY <3>2 DEF Limit
      <3> QED
        BY <3>1, <3>2, <3>3
    <2>3. ASSUME Thieves(q)
          PROVE  Aims(t, q)'
      <3>1. Aims(t, q) /\ top[q] \in Nat /\ lt[t] \in Nat
        BY <1>0, <2>3 DEF Thieves, TypeOK
      <3> QED
        BY <2>1, <2>2, <3>1 DEF Aims, Stealing, queueVars
    <2> QED
      BY <1>0, <2>1, <2>3, Elsewhere DEF queueVars, history, OwnerPlaces
  <1>7. ASSUME NEW t \in Threads, StealRead(t)
        PROVE  Sound(q)'
    <2> DEFINE j == jobs[victim[t]][Slot(lt[t])]
    <2>0. j \in Pointers
      BY <1>0, SlotType DEF TypeOK, Pointers
    <2>1. /\ LocalsOf(t) /\ at[t] = "stealRead" /\ at'[t] = "stealCas"
          /\ victim'[t] = victim[t] /\ lt'[t] = lt[t] /\ job'[t] = j
          /\ UNCHANGED <<queueVars, history>>
      BY <1>0, <1>7, <2>0, StealReadFacts DEF StealRead
    <2>2. Limit(q)' = Limit(q)
      BY <2>1 DEF Limit, Popping, LocalsOf, queueVars
    <2>3. ASSUME Thieves(q)
          PROVE  Aims(t, q)'
      <3>1. Aims(t, q)
        BY <2>3 DEF Thieves
      <3> QED
        BY <2>1, <2>2, <3>1 DEF Aims, Stealing, queueVars, JobAt
    <2> QED
      BY <1>0, <2>1, <2>3, Elsewhere DEF queueVars, history, OwnerPlaces
  <1>8. ASSUME NEW t \in Threads, StealCas(t)
        PROVE  Sound(q)'
    <2>1. /\ LocalsOf(t) /\ at[t] = "stealCas" /\ at'[t] = "idle"
          /\ UNCHANGED <<bottom, jobs, pushed, upset>>
          /\ job[t] \in pushed[victim[t]] \union {Junk} /\ victim[t] \in Threads
      BY <1>0, <1>8, StealCasFacts DEF StealCas, Basics, Claimed, TypeOK
    <2>2. Aims(t, q)'
      BY <2>1 DEF Aims, Stealing
    <2>3. CASE /\ top[victim[t]] = lt[t] /\ Take(job[t])
               /\ top' = [top EXCEPT ![victim[t]] = @ + 1]
      <3>1. CASE q = victim[t]
        BY <1>0, <1>8, <2>3, <3>1, StealSound
      <3>2. CASE q # victim[t]
        <4>1. top'[q] = top[q]
          BY <1>0, <2>3, <3>2 DEF TypeOK
        <4> QED
          BY <1>0, <2>1, <2>2, <2>3, <3>2, <4>1, Elsewhere, TakeElsewhere DEF OwnerPlaces
      <3> QED
        BY <3>1, <3>2
    <2>4. CASE UNCHANGED <<top, taken>>
      BY <1>0, <2>1, <2>2, <2>4, Elsewhere DEF OwnerPlaces
    <2> QED
      BY <1>8, <2>3, <2>4 DEF StealCas
  <1>9. CASE UNCHANGED vars
    BY <1>0, <1>9
    DEF vars, queueVars, localVars, history, Sound, Shape, OwnerKnows, Thieves, Aims, Kept, Exact,
        Window, Limit, Popping, JobAt
  <1>10. ASSUME NEW t \in Owners
         PROVE  t \in Threads
    BY QueueAssumption
  <1> QED
    BY <1>1, <1>2, <1>3, <1>4, <1>5, <1>6, <1>7, <1>8, <1>9, <1>10 DEF Next, Continue

\* An index that a pop or a thief reads is one that a push has written.
LEMMA ReadsWritten ==
  ASSUME Basics, NEW q \in Threads, Sound(q), upset[q] = {}
  PROVE  /\ \A i \in Int : 0 <= i /\ i < Limit(q) => jobs[q][Slot(i)] # Junk
         /\ at[q] = "popTop" /\ top[q] <= lb[q] => jobs[q][Slot(lb[q])] # Junk
         /\ \A t \in Threads : at[t] = "stealRead" /\ victim[t] = q => jobs[q][Slot(lt[t])] # Junk
  <1>0. /\ Limit(q) \in Nat /\ top[q] \in Nat /\ bottom[q] \in Int
        /\ \A t \in Threads : lt[t] \in Nat
    BY LimitType, BottomIndices DEF Basics, TypeOK
  <1>1. Shape(q) /\ Thieves(q) /\ Exact(q)
    BY DEF Sound
  <1>2. \A i \in Int : 0 <= i /\ i < Limit(q) => jobs[q][Slot(i)] # Junk
    BY <1>0, <1>1 DEF Exact, JobAt
  <1>3. ASSUME at[q] = "popTop", top[q] <= lb[q]
        PROVE  jobs[q][Slot(lb[q])] # Junk
    <2>1. lb[q] = bottom[q] /\ Limit(q) = bottom[q] + 1
      BY <1>3 DEF Basics, BottomNat, Limit, Popping
    <2> QED
      BY <1>0, <1>2, <1>3, <2>1
  <1>4. ASSUME NEW t \in Threads, at[t] = "stealRead", victim[t] = q
        PROVE  jobs[q][Slot(lt[t])] # Junk
    <2>1. Aims(t, q) /\ top[q] <= Limit(q)
      BY <1>1 DEF Thieves, Shape
    <2>2. lt[t] < Limit(q)
      BY <1>0, <1>4, <2>1 DEF Aims, Stealing
    <2> QED
      BY <1>0, <1>2, <2>2
  <1> QED
    BY <1>2, <1>3, <1>4

\* As long as no queue is upset, no step reads a slot that was never written.
LEMMA NoJunkKept == QueueInv /\ [Next]_vars => NeverReadsJunk'
  <1> SUFFICES ASSUME QueueInv, [Next]_vars, \A q \in Threads : upset'[q] = {},
                      NEW u \in Threads
               PROVE  job'[u] # Junk
    BY DEF NeverReadsJunk
  <1>0. /\ TypeOK /\ Basics /\ Null # Junk
        /\ \A q \in Threads : Sound(q)
    BY QueueAssumption DEF QueueInv, Basics
  <1>1. \A q \in Threads : upset[q] = {}
    <2> SUFFICES ASSUME NEW q \in Threads
                 PROVE  upset[q] \subseteq upset'[q]
      OBVIOUS
    <2>1. CASE upset' = upset
      BY <2>1
    <2>2. ASSUME NEW t \in Threads, NEW w \in {"lost_race", "overrun"},
                 upset' = [upset EXCEPT ![t] = @ \union {w}]
          PROVE  upset[q] \subseteq upset'[q]
      BY <1>0, <2>2 DEF TypeOK
    <2> QED
      BY <2>1, <2>2, QueueAssumption
      DEF QueueInv, Next, Continue, PushWrite, PushStore, PopDecrement, PopLoadTop, PopCas,
          PopStore, PopReset, StealLoadTop, StealLoadBottom, StealRead, StealCas, vars,
          queueVars, localVars, history
  <1>2. job[u] # Junk
    BY <1>0, <1>1 DEF QueueInv, NeverReadsJunk
  <1>3. ASSUME NEW t \in Threads, PopLoadTop(t)
        PROVE  job'[u] # Junk
    <2> DEFINE j == jobs[t][Slot(lb[t])]
    <2>1. j \in Pointers
      BY <1>0, SlotType, BottomIndices DEF TypeOK, Pointers
    <2>2. /\ LocalsOf(t) /\ at[t] = "popTop"
          /\ (top[t] <= lb[t] /\ job'[t] = j) \/ job'[t] = Null
      <3>1. top[t] \in Nat /\ lb[t] \in BottomIndex
        BY <1>0 DEF TypeOK
      <3>2. top[t] \in Int /\ lb[t] \in Int
        BY <3>1 DEF BottomIndex
      <3>3. /\ LocalsOf(t) /\ at[t] = "popTop"
            /\ \/ top[t] < lb[t] /\ job'[t] = j
               \/ top[t] = lb[t] /\ job'[t] = j
               \/ job'[t] = Null
        BY <1>0, <1>3, <2>1, PopLoadTopFacts
      <3> QED
        BY <3>2, <3>3
    <2> QED
      BY <1>0, <1>1, <1>2, <2>2, ReadsWritten DEF LocalsOf
  <1>4. ASSUME NEW t \in Threads, StealRead(t)
        PROVE  job'[u] # Junk
    <2> DEFINE j == jobs[victim[t]][Slot(lt[t])]
    <2>1. j \in Pointers /\ victim[t] \in Threads
      BY <1>0, SlotType DEF TypeOK, Pointers
    <2>2. LocalsOf(t) /\ at[t] = "stealRead" /\ job'[t] = j
      BY <1>0, <1>4, <2>1, StealReadFacts
    <2> QED
      BY <1>0, <1>1, <1>2, <2>1, <2>2, ReadsWritten DEF LocalsOf
  <1>5. ASSUME NEW t \in Threads, job' = job \/ job' = [job EXCEPT ![t] = Null]
        PROVE  job'[u] # Junk
    BY <1>0, <1>2, <1>5 DEF TypeOK
  <1> QED
    BY <1>2, <1>3, <1>4, <1>5, QueueAssumption
    DEF Next, Continue, PushWrite, PushStore, PopDecrement, PopCas, Return,
        PopStore, PopReset, StealLoadTop, StealLoadBottom, StealCas, vars, localVars

\* The empty queues satisfy the invariant ...
LEMMA QueueInvInit == Init => QueueInv
  <1> SUFFICES ASSUME Init
               PROVE  QueueInv
    OBVIOUS
  <1>1. Basics
    BY BasicsInit
  <1>2. ASSUME NEW q \in Threads
        PROVE  Sound(q)
    <2>1. /\ top[q] = 0 /\ Limit(q) = 0 /\ pushed[q] = {} /\ Window(q) = {}
          /\ \A t \in Threads : at[t] = "idle"
      BY <1>2 DEF Init, Limit, Popping, Window
    <2> QED
      BY <2>1, QueueAssumption
      DEF Sound, Shape, OwnerKnows, Thieves, Aims, Stealing, Kept, Exact
  <1>3. NeverReadsJunk
    BY QueueAssumption DEF Init, NeverReadsJunk
  <1> QED
    BY <1>1, <1>2, <1>3 DEF QueueInv

\* ... every step keeps it ...
LEMMA QueueInvKept == QueueInv /\ [Next]_vars => QueueInv'
  <1> SUFFICES ASSUME QueueInv, [Next]_vars
               PROVE  QueueInv'
    OBVIOUS
  <1>1. Basics' /\ NeverReadsJunk'
    BY BasicsKept, NoJunkKept DEF QueueInv
  <1>2. \A q \in Threads : Sound(q)'
    BY SoundKept DEF QueueInv
  <1> QED
    BY <1>1, <1>2 DEF QueueInv

\* ... and so it always holds.
LEMMA QueueInvAlways == Spec => []QueueInv
  BY QueueInvInit, QueueInvKept, PTL DEF Spec

----------------------------------------------------------------------------
(* What follows for the clients.                                           *)

\* While a queue is not upset, pop and steal hand out each of its jobs at most
\* once, whichever owner and thieves race for it: a job handed out is no longer in
\* the window, and the window holds each job once.
THEOREM HandedOutOnce == Spec => []TakenOnce
  <1>1. QueueInv => TakenOnce
    <2> SUFFICES ASSUME QueueInv, NEW q \in Threads, upset[q] = {}, NEW j \in pushed[q]
                 PROVE  taken[j] + Cardinality({i \in Window(q) : JobAt(q, i) = j}) <= 1
      BY DEF TakenOnce
    <2> DEFINE Here == {i \in Window(q) : JobAt(q, i) = j}
    <2>0. Exact(q) /\ taken[j] \in Nat
      BY DEF QueueInv, Sound, Basics, TypeOK
    <2>1. CASE Here = {}
      BY <2>0, <2>1, FS_EmptySet DEF Exact
    <2>2. ASSUME NEW i \in Here
          PROVE  taken[j] + Cardinality(Here) <= 1
      <3>1. taken[j] = 0 /\ Here = {i}
        BY <2>0, <2>2 DEF Exact
      <3>2. Cardinality(Here) = 1
        BY <3>1, FS_Singleton
      <3> QED
        BY <3>1, <3>2
    <2> QED
      BY <2>1, <2>2
  <1> QED
    BY <1>1, QueueInvAlways, PTL

\* Until a push overruns the ring, every job pushed has been handed out or is at an
\* index of the window, lost races for the last job included.
THEOREM NothingLost == Spec => []NoJobLost
  <1>1. QueueInv => NoJobLost
    BY DEF QueueInv, Sound, Kept, NoJobLost
  <1> QED
    BY <1>1, QueueInvAlways, PTL

\* Until a pop loses its race, nobody holds what an uninitialised slot of jobs_
\* contained: every index that is read lies below one that was published.
THEOREM OnlyWrittenSlotsRead == Spec => []NeverReadsJunk
  BY QueueInvAlways, PTL DEF QueueInv

----------------------------------------------------------------------------
(* The deques: stretches of the ring as sequences.                         *)

Ring == [Slots -> Jobs \union {Junk}]

\* What a ring holds from index a up to, not including, index b.
Stretch(ring, a, b) == [n \in 1 .. b - a |-> ring[Slot(a + n - 1)]]

\* A stretch of the ring is a sequence of what the ring holds.
LEMMA StretchType ==
  ASSUME NEW ring \in Ring, NEW a \in Nat, NEW b \in Nat, a <= b
  PROVE  /\ Stretch(ring, a, b) \in Seq(Jobs \union {Junk})
         /\ Len(Stretch(ring, a, b)) = b - a
         /\ \A n \in 1 .. b - a : Stretch(ring, a, b)[n] = ring[Slot(a + n - 1)]
  <1> DEFINE S == Jobs \union {Junk}
             f == Stretch(ring, a, b)
  <1>1. \A n \in 1 .. b - a : Slot(a + n - 1) \in Slots
    BY SlotType
  <1>2. f \in [1 .. b - a -> S] /\ b - a \in Nat
    BY <1>1 DEF Stretch, Ring
  <1>3. f \in Seq(S)
    BY <1>2, SeqDef
  <1>4. Len(f) \in Nat /\ DOMAIN f = 1 .. Len(f)
    BY <1>3, LenProperties
  <1>5. 1 .. b - a = 1 .. Len(f)
    BY <1>2, <1>4
  <1>6. Len(f) = b - a
    BY <1>2, <1>4, <1>5
  <1> QED
    BY <1>3, <1>6 DEF Stretch

\* Moving its first index takes its head off.
LEMMA StretchFront ==
  ASSUME NEW ring \in Ring, NEW a \in Nat, NEW b \in Nat, a < b
  PROVE  /\ Stretch(ring, a, b) # <<>>
         /\ Head(Stretch(ring, a, b)) = ring[Slot(a)]
         /\ Tail(Stretch(ring, a, b)) = Stretch(ring, a + 1, b)
  <1> DEFINE S == Jobs \union {Junk}
             f == Stretch(ring, a, b)
             g == Stretch(ring, a + 1, b)
  <1>1. /\ f \in Seq(S) /\ Len(f) = b - a
        /\ \A n \in 1 .. b - a : f[n] = ring[Slot(a + n - 1)]
    BY StretchType
  <1>2. /\ g \in Seq(S) /\ Len(g) = b - (a + 1)
        /\ \A n \in 1 .. b - (a + 1) : g[n] = ring[Slot(a + 1 + n - 1)]
    <2>1. a + 1 \in Nat /\ a + 1 <= b
      OBVIOUS
    <2> QED
      BY <2>1, StretchType
  <1> HIDE DEF f, g
  <1>3. f # <<>> /\ Head(f) = f[1]
    BY <1>1
  <1>4. /\ Tail(f) \in Seq(S) /\ Len(Tail(f)) = b - a - 1
        /\ \A n \in 1 .. b - a - 1 : Tail(f)[n] = f[n + 1]
    BY <1>1, <1>3, HeadTailProperties
  <1>5. f[1] = ring[Slot(a)]
    <2>1. 1 \in 1 .. b - a /\ a + 1 - 1 = a
      OBVIOUS
    <2> QED
      BY <1>1, <2>1
  <1>6. \A n \in 1 .. b - a - 1 : Tail(f)[n] = g[n]
    <2> SUFFICES ASSUME NEW n \in 1 .. b - a - 1
                 PROVE  f[n + 1] = g[n]
      BY <1>4
    <2>1. n + 1 \in 1 .. b - a /\ n \in 1 .. b - (a + 1) /\ a + (n + 1) - 1 = a + 1 + n - 1
      OBVIOUS
    <2> QED
      BY <1>1, <1>2, <2>1
  <1>7. Tail(f) = g
    BY <1>2, <1>4, <1>6, SeqEqual
  <1> QED
    BY <1>3, <1>5, <1>7 DEF f, g

\* Writing the slot behind it appends.
LEMMA StretchBack ==
  ASSUME NEW ring \in Ring, NEW a \in Nat, NEW b \in Nat, a <= b,
         NEW ring2 \in Ring, \A i \in a .. b - 1 : ring2[Slot(i)] = ring[Slot(i)]
  PROVE  Stretch(ring2, a, b + 1) = Append(Stretch(ring, a, b), ring2[Slot(b)])
  <1> DEFINE S == Jobs \union {Junk}
             f == Stretch(ring, a, b)
             g == Stretch(ring2, a, b + 1)
             j == ring2[Slot(b)]
  <1>1. /\ f \in Seq(S) /\ Len(f) = b - a
        /\ \A n \in 1 .. b - a : f[n] = ring[Slot(a + n - 1)]
    BY StretchType
  <1>2. /\ g \in Seq(S) /\ Len(g) = b + 1 - a
        /\ \A n \in 1 .. b + 1 - a : g[n] = ring2[Slot(a + n - 1)]
    <2>1. \A c \in Nat : a <= c =>
            /\ Stretch(ring2, a, c) \in Seq(S) /\ Len(Stretch(ring2, a, c)) = c - a
            /\ \A n \in 1 .. c - a : Stretch(ring2, a, c)[n] = ring2[Slot(a + n - 1)]
      BY StretchType
    <2>2. b + 1 \in Nat /\ a <= b + 1
      OBVIOUS
    <2> QED
      BY <2>1, <2>2
  <1>3. j \in S
    BY SlotType DEF Ring
  <1> HIDE DEF f, g, j
  <1>4. /\ Append(f, j) \in Seq(S) /\ Len(Append(f, j)) = b - a + 1
        /\ \A n \in 1 .. b - a : Append(f, j)[n] = f[n]
        /\ Append(f, j)[b - a + 1] = j
    BY <1>1, <1>3, AppendProperties
  <1>5. \A n \in 1 .. b + 1 - a : g[n] = Append(f, j)[n]
    <2> SUFFICES ASSUME NEW n \in 1 .. b + 1 - a
                 PROVE  g[n] = Append(f, j)[n]
      OBVIOUS
    <2>1. CASE n = b - a + 1
      <3>1. a + n - 1 = b
        BY <2>1
      <3> QED
        BY <1>2, <1>4, <2>1, <3>1 DEF j
    <2>2. CASE n # b - a + 1
      <3>1. n \in 1 .. b - a /\ a + n - 1 \in a .. b - 1
        BY <2>2
      <3> QED
        BY <1>1, <1>2, <1>4, <3>1
    <2> QED
      BY <2>1, <2>2
  <1>6. g = Append(f, j)
    BY <1>2, <1>4, <1>5, SeqEqual
  <1> QED
    BY <1>6 DEF f, g, j

\* Moving its last index takes its last element off.
LEMMA StretchLast ==
  ASSUME NEW ring \in Ring, NEW a \in Nat, NEW b \in Nat, a < b
  PROVE  /\ Stretch(ring, a, b) # <<>>
         /\ Deque!Last(Stretch(ring, a, b)) = ring[Slot(b - 1)]
         /\ Deque!Front(Stretch(ring, a, b)) = Stretch(ring, a, b - 1)
  <1> DEFINE S == Jobs \union {Junk}
             f == Stretch(ring, a, b)
             g == Stretch(ring, a, b - 1)
             j == ring[Slot(b - 1)]
  <1>1. /\ f \in Seq(S) /\ Len(f) = b - a
    BY StretchType
  <1>2. b - 1 \in Nat /\ a <= b - 1 /\ b - 1 + 1 = b
    OBVIOUS
  <1>3. /\ g \in Seq(S) /\ Len(g) = b - a - 1
    <2>1. \A c \in Nat : a <= c =>
            Stretch(ring, a, c) \in Seq(S) /\ Len(Stretch(ring, a, c)) = c - a
      BY StretchType
    <2>2. PICK c \in Nat : c = b - 1 /\ a <= c
      BY <1>2
    <2>3. g \in Seq(S) /\ Len(g) = c - a
      BY <2>1, <2>2
    <2> QED
      BY <2>2, <2>3
  <1>4. f = Append(g, j) /\ j \in S
    <2>1. \A c \in Nat : a <= c => Stretch(ring, a, c + 1) = Append(Stretch(ring, a, c), ring[Slot(c)])
      BY StretchBack
    <2>2. j \in S
      BY <1>2, SlotType DEF Ring
    <2> QED
      BY <1>2, <2>1, <2>2
  <1> HIDE DEF f, g, j
  <1>5. f # <<>> /\ f[Len(f)] = j /\ (\A n \in 1 .. Len(g) : f[n] = g[n])
    BY <1>1, <1>3, <1>4, AppendProperties
  <1>6. /\ SubSeq(f, 1, Len(f) - 1) \in Seq(S)
        /\ Len(SubSeq(f, 1, Len(f) - 1)) = Len(g)
        /\ \A n \in 1 .. Len(g) : SubSeq(f, 1, Len(f) - 1)[n] = f[n]
    <2>1. \A n \in 1 .. Len(f) - 1 : f[n] \in S
      BY <1>1, ElementOfSeq
    <2>2. Len(f) - 1 = Len(g) /\ Len(g) \in Nat
      BY <1>1, <1>3
    <2>3. \A m \in Int : (\A n \in 1 .. m : f[n] \in S) =>
             /\ SubSeq(f, 1, m) \in Seq(S)
             /\ Len(SubSeq(f, 1, m)) = IF 1 <= m THEN m - 1 + 1 ELSE 0
             /\ \A n \in 1 .. m - 1 + 1 : SubSeq(f, 1, m)[n] = f[1 + n - 1]
      BY SubSeqProperties
    <2> QED
      BY <2>1, <2>2, <2>3
  <1>7. SubSeq(f, 1, Len(f) - 1) = g
    BY <1>3, <1>5, <1>6, SeqEqual
  <1> QED
    BY <1>5, <1>7 DEF f, g, j, Deque!Front, Deque!Last

----------------------------------------------------------------------------
(* Every step is a step of the deques or none.                             *)

\* The contents of a queue are a stretch of its ring, now and after a step.
LEMMA ContentsStretch ==
  ASSUME Basics, NEW q \in Threads
  PROVE  /\ Contents(q) = Stretch(jobs[q], top[q], Limit(q))
         /\ Contents(q)' = Stretch(jobs'[q], top'[q], Limit(q)')
         /\ jobs[q] \in Ring /\ top[q] \in Nat /\ Limit(q) \in Nat
  BY LimitType DEF Contents, Stretch, JobAt, Ring, Basics, TypeOK

\* A step of queue q that ends with the queue upset: anything may happen to q.
LEMMA BrokenStep ==
  ASSUME NEW q \in Threads, upset'[q] # {},
         \A p \in Threads \ {q} : Contents(p)' = Contents(p) /\ upset'[p] = upset[p],
         \A j \in Jobs : taken'[j] >= taken[j]
  PROVE  Deque!Next
  <1>1. Deque!Broken(q)
    BY DEF Deque!Broken
  <1> QED
    BY <1>1 DEF Deque!Next

\* A step that changes no contents is none of the deques.
LEMMA StutterStep ==
  ASSUME \A p \in Threads : Contents(p)' = Contents(p) /\ upset'[p] = upset[p],
         taken' = taken
  PROVE  UNCHANGED Deque!dequeVars
  BY DEF Deque!dequeVars

\* A step of queue q, not upset, that changes its contents to c.
LEMMA OneChanges ==
  ASSUME NEW q \in Threads, NEW c, Contents(q)' = c,
         \A p \in Threads \ {q} : Contents(p)' = Contents(p),
         upset' = upset
  PROVE  /\ [p \in Threads |-> Contents(p)]'
              = [[p \in Threads |-> Contents(p)] EXCEPT ![q] = c]
         /\ [p \in Threads |-> upset[p] # {}]' = [p \in Threads |-> upset[p] # {}]
  OBVIOUS

\* Handing out a job is what JobDeque calls it.
LEMMA TakenIsHandOut ==
  ASSUME TypeOK, NEW j \in Jobs, Take(j)
  PROVE  Deque!HandOut(j)
  BY DEF Take, Deque!HandOut

\* The front of queue q is taken.
LEMMA FrontStep ==
  ASSUME Basics, NEW q \in Threads, Exact(q), upset[q] = {}, upset' = upset,
         top[q] < Limit(q), Take(JobAt(q, top[q])),
         top'[q] = top[q] + 1, Limit(q)' = Limit(q), jobs'[q] = jobs[q],
         \A p \in Threads \ {q} : Contents(p)' = Contents(p)
  PROVE  Deque!Next
  <1>1. /\ Contents(q) = Stretch(jobs[q], top[q], Limit(q))
        /\ Contents(q)' = Stretch(jobs[q], top[q] + 1, Limit(q))
        /\ jobs[q] \in Ring /\ top[q] \in Nat /\ Limit(q) \in Nat
    BY ContentsStretch
  <1>2. /\ Contents(q) # <<>> /\ Head(Contents(q)) = JobAt(q, top[q])
        /\ Contents(q)' = Tail(Contents(q))
    <2>1. /\ Stretch(jobs[q], top[q], Limit(q)) # <<>>
          /\ Head(Stretch(jobs[q], top[q], Limit(q))) = jobs[q][Slot(top[q])]
          /\ Tail(Stretch(jobs[q], top[q], Limit(q))) = Stretch(jobs[q], top[q] + 1, Limit(q))
      BY <1>1, StretchFront
    <2> QED
      BY <1>1, <2>1 DEF JobAt
  <1>3. JobAt(q, top[q]) \in Jobs
    <2>1. top[q] \in Window(q)
      BY <1>1 DEF Window
    <2> QED
      BY <2>1 DEF Exact, Basics, TypeOK
  <1>4. Deque!HandOut(Head(Contents(q)))
    BY <1>2, <1>3, TakenIsHandOut DEF Basics
  <1>5. Deque!StealFront(q)
    BY <1>2, <1>4, OneChanges DEF Deque!StealFront, Deque!HandOut
  <1> QED
    BY <1>5 DEF Deque!Next

\* The back of queue q is taken.
LEMMA BackStep ==
  ASSUME Basics, NEW q \in Threads, Exact(q), upset[q] = {}, upset' = upset,
         top[q] < Limit(q), Take(JobAt(q, Limit(q) - 1)),
         top'[q] = top[q], Limit(q)' = Limit(q) - 1, jobs'[q] = jobs[q],
         \A p \in Threads \ {q} : Contents(p)' = Contents(p)
  PROVE  Deque!Next
  <1>1. /\ Contents(q) = Stretch(jobs[q], top[q], Limit(q))
        /\ Contents(q)' = Stretch(jobs[q], top[q], Limit(q) - 1)
        /\ jobs[q] \in Ring /\ top[q] \in Nat /\ Limit(q) \in Nat
    BY ContentsStretch
  <1>2. /\ Contents(q) # <<>> /\ Deque!Last(Contents(q)) = JobAt(q, Limit(q) - 1)
        /\ Contents(q)' = Deque!Front(Contents(q))
    BY <1>1, StretchLast DEF JobAt
  <1>3. JobAt(q, Limit(q) - 1) \in Jobs
    <2>1. Limit(q) - 1 \in Window(q)
      BY <1>1 DEF Window
    <2> QED
      BY <2>1 DEF Exact, Basics, TypeOK
  <1>4. Deque!HandOut(Deque!Last(Contents(q)))
    BY <1>2, <1>3, TakenIsHandOut DEF Basics
  <1>5. Deque!PopBack(q)
    BY <1>2, <1>4, OneChanges DEF Deque!PopBack, Deque!HandOut
  <1> QED
    BY <1>5 DEF Deque!Next

\* The contents of queue q do not change unless its indices or its ring do.
LEMMA ContentsSame ==
  ASSUME NEW q \in Threads, top'[q] = top[q], Limit(q)' = Limit(q), jobs'[q] = jobs[q]
  PROVE  Contents(q)' = Contents(q)
  BY DEF Contents, JobAt

\* A step of thread t leaves the contents of the queues it does not touch.
LEMMA OthersContents ==
  ASSUME NEW t \in Threads, LocalsOf(t), NEW q \in Threads, 
         q # t \/ (at[t] \notin OwnerPlaces /\ at'[t] \notin OwnerPlaces),
         top'[q] = top[q], bottom'[q] = bottom[q], jobs'[q] = jobs[q]
  PROVE  Contents(q)' = Contents(q)
  <1>1. Limit(q)' = Limit(q)
    BY DEF Limit, Popping, LocalsOf, OwnerPlaces
  <1> QED
    BY <1>1, ContentsSame

\* A push that leaves the queue whole appends the job.
LEMMA PushAppends ==
  ASSUME Basics, NEW t \in Owners, Sound(t), NEW j \in Fresh, PushWrite(t, j), upset'[t] = {}
  PROVE  Contents(t)' = Append(Contents(t), j) /\ upset' = upset
  <1>0. /\ TypeOK /\ t \in Threads /\ j \in Jobs /\ bottom[t] \in Nat /\ top[t] \in Nat
        /\ Capacity \in Nat /\ at[t] = "idle"
    BY QueueAssumption DEF Fresh, PushWrite, Basics, TypeOK, BottomNat, Popping
  <1>1. upset' = upset /\ upset[t] = {} /\ bottom[t] - top[t] < Capacity
    <2>1. CASE bottom[t] - top[t] >= Capacity
      BY <1>0, <2>1 DEF PushWrite, TypeOK
    <2>2. CASE ~(bottom[t] - top[t] >= Capacity)
      BY <1>0, <2>2 DEF PushWrite
    <2> QED
      BY <2>1, <2>2
  <1>2. at'[t] = "pushStore" /\ UNCHANGED <<top, bottom>>
    BY <1>0 DEF PushWrite, Goto, TypeOK
  <1>3. /\ Limit(t) = bottom[t] /\ Limit(t)' = bottom[t] + 1 /\ top[t] <= bottom[t]
    BY <1>0, <1>1, <1>2 DEF Limit, Popping, Sound, Shape
  <1>4. /\ jobs[t] \in Ring /\ jobs'[t] \in Ring
        /\ jobs'[t] = [jobs[t] EXCEPT ![Slot(bottom[t])] = j]
        /\ Slot(bottom[t]) \in Slots
    BY <1>0, SlotType DEF PushWrite, TypeOK, Ring
  <1>5. jobs'[t][Slot(bottom[t])] = j
    BY <1>4 DEF Ring
  <1>6. \A i \in top[t] .. bottom[t] - 1 : jobs'[t][Slot(i)] = jobs[t][Slot(i)]
    <2> SUFFICES ASSUME NEW i \in top[t] .. bottom[t] - 1
                 PROVE  jobs'[t][Slot(i)] = jobs[t][Slot(i)]
      OBVIOUS
    <2>1. Slot(i) # Slot(bottom[t]) /\ Slot(i) \in Slots
      BY <1>0, <1>1, DistinctSlots, SlotType
    <2> QED
      BY <1>4, <2>1 DEF Ring
  <1>7. Stretch(jobs'[t], top[t], bottom[t] + 1)
          = Append(Stretch(jobs[t], top[t], bottom[t]), j)
    <2>1. Stretch(jobs'[t], top[t], bottom[t] + 1)
            = Append(Stretch(jobs[t], top[t], bottom[t]), jobs'[t][Slot(bottom[t])])
      <3> DEFINE a == top[t]
                 b == bottom[t]
                 r == jobs[t]
                 r2 == jobs'[t]
      <3>1. a \in Nat /\ b \in Nat /\ a <= b /\ r \in Ring /\ r2 \in Ring
        BY <1>0, <1>3, <1>4
      <3>2. \A i \in a .. b - 1 : r2[Slot(i)] = r[Slot(i)]
        BY <1>6
      <3> HIDE DEF a, b, r, r2
      <3>3. Stretch(r2, a, b + 1) = Append(Stretch(r, a, b), r2[Slot(b)])
        BY <3>1, <3>2, StretchBack
      <3> QED
        BY <3>3 DEF a, b, r, r2
    <2> QED
      BY <1>5, <2>1
  <1> QED
    BY <1>0, <1>1, <1>2, <1>3, <1>7, ContentsStretch

\* Each step of the code pushes, pops or steals from one deque, breaks one, or
\* changes none.
LEMMA StepsImplement == QueueInv /\ [Next]_vars => [Deque!Next]_(Deque!dequeVars)
  <1> SUFFICES ASSUME QueueInv, [Next]_vars
               PROVE  Deque!Next \/ UNCHANGED Deque!dequeVars
    OBVIOUS
  <1>0. TypeOK /\ Basics /\ \A q \in Threads : Sound(q)
    BY DEF QueueInv, Basics
  <1>1. ASSUME NEW t \in Owners, NEW j \in Fresh, PushWrite(t, j)
        PROVE  Deque!Next
    <2>0. t \in Threads /\ j \in Jobs /\ UNCHANGED <<top, bottom, taken>>
      BY <1>1, QueueAssumption DEF Fresh, PushWrite
    <2>1. \A q \in Threads \ {t} : Contents(q)' = Contents(q) /\ upset'[q] = upset[q]
      <3>1. LocalsOf(t)
        BY <1>0, <1>1, <2>0, PushWriteFacts
      <3>2. \A q \in Threads \ {t} : jobs'[q] = jobs[q] /\ upset'[q] = upset[q]
        BY <1>0, <1>1 DEF PushWrite, TypeOK
      <3> QED
        BY <2>0, <3>1, <3>2, OthersContents
    <2>2. CASE upset'[t] # {}
      <3>1. \A k \in Jobs : taken'[k] >= taken[k]
        BY <1>0, <2>0 DEF TypeOK
      <3> QED
        BY <2>0, <2>1, <2>2, <3>1, BrokenStep
    <2>3. CASE upset'[t] = {}
      <3>1. Contents(t)' = Append(Contents(t), j) /\ upset' = upset /\ upset[t] = {}
        BY <1>0, <1>1, <2>0, <2>3, PushAppends
      <3>2. Deque!PushBack(t)
        BY <2>0, <2>1, <3>1, OneChanges DEF Deque!PushBack
      <3> QED
        BY <2>0, <3>1, <3>2 DEF Deque!Next
    <2> QED
      BY <2>2, <2>3
  <1>2. ASSUME NEW t \in Threads, PushStore(t) \/ PopDecrement(t) \/ PopReset(t) \/ PopStore(t)
        PROVE  Deque!Next \/ UNCHANGED Deque!dequeVars
    <2>0. UNCHANGED <<top, jobs, taken, upset>>
      BY <1>2 DEF PushStore, PopDecrement, PopReset, PopStore, history
    <2>1. /\ LocalsOf(t)
          /\ \/ at[t] = "pushStore" /\ at'[t] = "idle" /\ bottom'[t] = bottom[t] + 1
             \/ at[t] = "idle" /\ at'[t] = "popTop" /\ bottom'[t] = bottom[t] - 1
             \/ at[t] = "popReset" /\ at'[t] = "idle" /\ bottom'[t] = lt[t]
             \/ at[t] = "popStore" /\ at'[t] = "idle" /\ bottom'[t] = lt[t] + 1
      <3>1. CASE PushStore(t)
        BY <1>0, <3>1, PushStoreFacts DEF PushStore, TypeOK
      <3>2. CASE PopDecrement(t)
        <4>1. bottom[t] \in Nat
          BY <3>2 DEF PopDecrement, QueueInv, Basics, BottomNat, Popping
        <4> QED
          BY <1>0, <3>2, <4>1, PopDecrementFacts DEF PopDecrement, TypeOK
      <3>3. CASE PopReset(t)
        BY <1>0, <3>3, PopEndFacts DEF PopReset, TypeOK
      <3>4. CASE PopStore(t)
        BY <1>0, <3>4, PopEndFacts DEF PopStore, TypeOK
      <3> QED
        BY <1>2, <3>1, <3>2, <3>3, <3>4
    <2>2. \A q \in Threads \ {t} : Contents(q)' = Contents(q) /\ upset'[q] = upset[q]
      <3>1. \A q \in Threads \ {t} : bottom'[q] = bottom[q]
        BY <1>0, <1>2 DEF PushStore, PopDecrement, PopReset, PopStore, TypeOK
      <3> QED
        BY <2>0, <2>1, <3>1, OthersContents
    <2>3. CASE upset[t] # {}
      <3>1. \A k \in Jobs : taken'[k] >= taken[k]
        BY <1>0, <2>0 DEF TypeOK
      <3> QED
        BY <2>0, <2>2, <2>3, <3>1, BrokenStep
    <2>4. CASE upset[t] = {}
      <3>0. top[t] \in Nat /\ bottom[t] \in Int /\ lt[t] \in Nat
        BY <1>0, BottomIndices DEF TypeOK
      <3>1. Shape(t) /\ Exact(t) /\ top[t] \in Int /\ bottom[t] \in Int /\ lt[t] \in Int
        BY <1>0, <2>4, <3>0 DEF Sound
      <3>2. Limit(t)' = Limit(t)
        BY <2>1, <3>1 DEF Shape, OwnerKnows, Exact, Limit, Popping
      <3> QED
        BY <2>0, <2>2, <3>2, ContentsSame, StutterStep
    <2> QED
      BY <2>3, <2>4
  <1>3. ASSUME NEW t \in Threads, PopLoadTop(t)
        PROVE  Deque!Next \/ UNCHANGED Deque!dequeVars
    <2> DEFINE j == jobs[t][Slot(lb[t])]
    <2>0. /\ at[t] = "popTop" /\ lb[t] = bottom[t] /\ j = JobAt(t, bottom[t])
          /\ UNCHANGED <<top, bottom, jobs, upset>>
          /\ top[t] \in Nat /\ bottom[t] \in Int /\ j \in Pointers
      <3>1. at[t] = "popTop" /\ UNCHANGED <<top, bottom, jobs, upset>>
        BY <1>3 DEF PopLoadTop, queueVars
      <3>2. lb[t] = bottom[t]
        BY <1>0, <3>1 DEF Basics, BottomNat
      <3>3. top[t] \in Nat /\ bottom[t] \in Int
        BY <1>0, BottomIndices DEF TypeOK
      <3>4. j \in Pointers
        BY <1>0, <3>2, <3>3, SlotType DEF TypeOK, Pointers
      <3> QED
        BY <3>1, <3>2, <3>3, <3>4 DEF JobAt
    <2>1. /\ LocalsOf(t)
          /\ \/ top[t] < bottom[t] /\ at'[t] = "idle" /\ Take(JobAt(t, bottom[t]))
             \/ at'[t] \in {"popCas", "popReset"} /\ taken' = taken
      BY <1>0, <1>3, <2>0, PopLoadTopFacts
    <2>2. \A q \in Threads \ {t} : Contents(q)' = Contents(q) /\ upset'[q] = upset[q]
      BY <2>0, <2>1, OthersContents
    <2>3. Limit(t) = bottom[t] + 1
      BY <2>0 DEF Limit, Popping
    <2>4. CASE at'[t] \in {"popCas", "popReset"} /\ taken' = taken
      <3>1. Limit(t)' = Limit(t)
        BY <2>0, <2>4 DEF Limit, Popping
      <3> QED
        BY <2>0, <2>2, <2>4, <3>1, ContentsSame, StutterStep
    <2>5. CASE top[t] < bottom[t] /\ at'[t] = "idle" /\ Take(JobAt(t, bottom[t]))
      <3>1. Limit(t)' = bottom[t]
        BY <2>0, <2>5 DEF Limit, Popping
      <3>2. CASE upset[t] # {}
        <4>1. \A k \in Jobs : taken'[k] >= taken[k]
          BY <1>0, <2>0, <2>5, TakeType
        <4> QED
          BY <2>0, <2>2, <3>2, <4>1, BrokenStep
      <3>3. CASE upset[t] = {}
        <4>1. Limit(t) - 1 = bottom[t] /\ top[t] < Limit(t)
          BY <2>0, <2>3, <2>5
        <4>2. Take(JobAt(t, Limit(t) - 1)) /\ Limit(t)' = Limit(t) - 1
          BY <2>5, <3>1, <4>1
        <4> QED
          BY <1>0, <2>0, <2>2, <3>3, <4>1, <4>2, BackStep DEF Sound
      <3> QED
        BY <3>2, <3>3
    <2> QED
      BY <2>1, <2>4, <2>5
  <1>4. ASSUME NEW t \in Threads, PopCas(t)
        PROVE  Deque!Next
    <2>0. /\ LocalsOf(t) /\ at[t] = "popCas" /\ at'[t] = "popStore"
          /\ UNCHANGED <<bottom, jobs>>
          /\ top[t] \in Nat /\ lt[t] \in Nat /\ bottom[t] \in Int
      BY <1>0, <1>4, BottomIndices, PopCasFacts DEF PopCas, TypeOK
    <2>1. \A q \in Threads \ {t} : top'[q] = top[q] /\ upset'[q] = upset[q]
      BY <1>0, <1>4 DEF PopCas, TypeOK
    <2>2. \A q \in Threads \ {t} : Contents(q)' = Contents(q)
      BY <2>0, <2>1, OthersContents
    <2>3. CASE upset'[t] # {}
      <3>1. \A k \in Jobs : taken'[k] >= taken[k]
        <4>1. job[t] \in Pointers
          BY <1>0 DEF TypeOK
        <4>2. Take(job[t]) \/ taken' = taken
          BY <1>0, <1>4, PopCasFacts
        <4> QED
          BY <1>0, <4>1, <4>2, TakeType DEF TypeOK
      <3> QED
        BY <2>1, <2>2, <2>3, <3>1, BrokenStep
    <2>4. CASE upset'[t] = {}
      <3>1. /\ upset' = upset /\ top[t] = lt[t] /\ Take(job[t]) /\ top'[t] = top[t] + 1
        <4>1. CASE upset' = [upset EXCEPT ![t] = @ \union {"lost_race"}]
          BY <1>0, <2>4, <4>1 DEF TypeOK
        <4>2. CASE top[t] = lt[t] /\ top' = [top EXCEPT ![t] = @ + 1] /\ Take(job[t]) /\ upset' = upset
          BY <1>0, <4>2 DEF TypeOK
        <4> QED
          BY <1>4, <4>1, <4>2 DEF PopCas
      <3>2. upset[t] = {} /\ Shape(t) /\ Exact(t)
        BY <1>0, <2>4, <3>1 DEF Sound
      <3>3. /\ lt[t] = bottom[t] /\ job[t] = JobAt(t, top[t])
            /\ Limit(t) = bottom[t] + 1 /\ Limit(t)' = Limit(t)
        BY <2>0, <3>1, <3>2 DEF Shape, OwnerKnows, Limit, Popping
      <3>4. top[t] < Limit(t)
        BY <2>0, <3>1, <3>3
      <3> QED
        BY <1>0, <2>0, <2>2, <3>1, <3>2, <3>3, <3>4, FrontStep
    <2> QED
      BY <2>3, <2>4
  <1>5. ASSUME NEW t \in Threads, LocalsOf(t), UNCHANGED <<queueVars, history>>,
               at[t] \notin OwnerPlaces, at'[t] \notin OwnerPlaces
        PROVE  UNCHANGED Deque!dequeVars
    <2>1. \A q \in Threads : Contents(q)' = Contents(q)
      BY <1>5, OthersContents DEF queueVars
    <2> QED
      BY <1>5, <2>1, StutterStep DEF history
  <1>6. ASSUME NEW t \in Threads, NEW q \in Owners, t # q, StealLoadTop(t, q)
        PROVE  UNCHANGED Deque!dequeVars
    BY <1>0, <1>5, <1>6, StealLoadTopFacts, QueueAssumption DEF StealLoadTop, OwnerPlaces
  <1>7. ASSUME NEW t \in Threads, StealLoadBottom(t)
        PROVE  UNCHANGED Deque!dequeVars
    BY <1>0, <1>5, <1>7, StealLoadBottomFacts DEF StealLoadBottom, OwnerPlaces
  <1>8. ASSUME NEW t \in Threads, StealRead(t)
        PROVE  UNCHANGED Deque!dequeVars
    <2>1. jobs[victim[t]][Slot(lt[t])] \in Pointers
      BY <1>0, SlotType DEF TypeOK, Pointers
    <2> QED
      BY <1>0, <1>5, <1>8, <2>1, StealReadFacts DEF StealRead, OwnerPlaces
  <1>9. ASSUME NEW t \in Threads, StealCas(t)
        PROVE  Deque!Next \/ UNCHANGED Deque!dequeVars
    <2> PICK q \in Threads : q = victim[t]
      BY <1>0 DEF TypeOK
    <2>0. /\ LocalsOf(t) /\ at[t] = "stealCas" /\ at'[t] = "idle"
          /\ UNCHANGED <<bottom, jobs, upset>>
          /\ q # t /\ top[q] \in Nat
      BY <1>0, <1>9, StealCasFacts DEF StealCas, Basics, Victims, Stealing, TypeOK
    <2>1. CASE UNCHANGED <<top, taken>>
      <3>1. \A p \in Threads : Contents(p)' = Contents(p)
        BY <2>0, <2>1, OthersContents DEF OwnerPlaces
      <3> QED
        BY <2>0, <2>1, <3>1, StutterStep
    <2>2. CASE top[q] = lt[t] /\ Take(job[t]) /\ top' = [top EXCEPT ![q] = @ + 1]
      <3>1. top'[q] = top[q] + 1 /\ \A p \in Threads \ {q} : top'[p] = top[p]
        BY <1>0, <2>0, <2>2 DEF TypeOK
      <3>2. \A p \in Threads \ {q} : Contents(p)' = Contents(p) /\ upset'[p] = upset[p]
        BY <2>0, <3>1, OthersContents DEF OwnerPlaces
      <3>3. CASE upset[q] # {}
        <4>1. \A k \in Jobs : taken'[k] >= taken[k]
          <5>1. job[t] \in Pointers
            BY <1>0 DEF TypeOK
          <5> QED
            BY <1>0, <2>2, <5>1, TakeType
        <4> QED
          BY <2>0, <3>2, <3>3, <4>1, BrokenStep
      <3>4. CASE upset[q] = {}
        <4>1. Aims(t, q) /\ Exact(q)
          BY <1>0, <2>0, <3>4 DEF Sound, Thieves
        <4>2. top[q] < Limit(q) /\ job[t] = JobAt(q, top[q])
          BY <2>0, <2>2, <4>1 DEF Aims, Stealing
        <4>3. Limit(q)' = Limit(q)
          BY <2>0 DEF Limit, Popping, LocalsOf
        <4> QED
          BY <1>0, <2>0, <2>2, <3>1, <3>2, <3>4, <4>1, <4>2, <4>3, FrontStep
      <3> QED
        BY <3>3, <3>4
    <2> QED
      BY <1>9, <2>1, <2>2 DEF StealCas
  <1>10. CASE UNCHANGED vars
    <2>1. \A q \in Threads : Limit(q)' = Limit(q)
      BY <1>10 DEF vars, queueVars, localVars, Limit, Popping
    <2>2. \A q \in Threads : Contents(q)' = Contents(q)
      BY <1>10, <2>1, ContentsSame DEF vars, queueVars
    <2> QED
      BY <1>10, <2>2, StutterStep DEF vars, history
  <1>11. \A t \in Owners : t \in Threads
    BY QueueAssumption
  <1> QED
    BY <1>1, <1>2, <1>3, <1>4, <1>6, <1>7, <1>8, <1>9, <1>10, <1>11 DEF Next, Continue

\* The queues begin as empty deques.
LEMMA InitImplements == Init => Deque!Init
  <1> SUFFICES ASSUME Init
               PROVE  Deque!Init
    OBVIOUS
  <1>1. \A q \in Threads : Contents(q) = <<>> /\ upset[q] = {}
    <2> SUFFICES ASSUME NEW q \in Threads
                 PROVE  Contents(q) = <<>>
      BY DEF Init
    <2>1. top[q] = 0 /\ Limit(q) = 0
      BY DEF Init, Limit, Popping
    <2>2. Contents(q) \in [1 .. 0 -> Jobs]
      BY <2>1 DEF Contents
    <2>3. Contents(q) \in Seq(Jobs) /\ DOMAIN Contents(q) = 1 .. 0
      BY <2>2, SeqDef
    <2>4. Len(Contents(q)) = 0
      BY <2>3, LenProperties
    <2> QED
      BY <2>3, <2>4, EmptySeq
  <1> QED
    BY <1>1 DEF Init, Deque!Init

\* The array, the two indices and the compare_exchange implement double-ended
\* queues: pop returns the youngest job, steal the oldest, each exactly once, until
\* a lost race or an overrun upsets the queue.
THEOREM QueuesAreDeques == Spec => ImplementsDeque
  BY InitImplements, StepsImplement, QueueInvAlways, PTL
  DEF Spec, ImplementsDeque, Deque!Spec
=============================================================================

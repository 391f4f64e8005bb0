-------------------------- MODULE JobSystemProofs --------------------------
(***************************************************************************)
(* Proofs about the job system, for any number of workers, any jobs and    *)
(* any program.                                                            *)
(*                                                                         *)
(* First the stacks: which frames a thread may have, and how far each      *)
(* thread has got (StackInv).  Then the jobs: unfinished_jobs counts what  *)
(* is left to do, and a job taken from a queue is called once (JobInv,     *)
(* which rests on the invariant of the queues).  It is kept by a program   *)
(* that keeps the contract of the interface; last, a structured program    *)
(* does (Progress), because no function runs twice while the queues are    *)
(* healthy: the two facts are proved together.                             *)
(***************************************************************************)
EXTENDS JobSystem, FiniteSetTheorems, TLAPS

----------------------------------------------------------------------------
(* The stacks, read from the bottom: F(s, h) is the frame at height h.     *)

F(s, h) == s[Len(s) - h + 1]

FrameType == [pc : Labels, job : Jobs \union {Null}, n : Nat]
StackType == stack \in [Threads -> Seq(FrameType)]

\* The labels at which a call of a function is in progress above the frame, and
\* the labels of frames that are not the first of their thread.
Below       == {"script", "waitBlock", "loopBlock", "notifyAll"}
MainBottom  == {"spawn", "awaitWorkers", "script", "wake", "join"}
WorkerBottom == {"unborn", "ready", "loop", "loopBlock"}
Inner       == {"script", "jobReady", "notifyAll", "wait", "waitBlock", "get", "popped", "finish"}
Stealer     == {"steal", "stolen"}

\* Frame f may be at height h of thread t.
Fits(t, f, h) ==
  /\ f.pc \in {"finish", "wait", "waitBlock"} => f.job \in Jobs
  /\ h > 1 => /\ f.pc \in Inner \union (IF t = Main THEN {} ELSE Stealer)
              /\ f.pc = "script" => f.job \in Jobs
  /\ h = 1 => /\ f.pc \in (IF t = Main THEN MainBottom ELSE WorkerBottom)
              /\ f.pc = "script" => f.job = Null

Stacked ==
  \A t \in Threads : \A h \in 1 .. Len(stack[t]) :
    /\ Fits(t, F(stack[t], h), h)
    /\ h < Len(stack[t]) => F(stack[t], h).pc \in Below

(* The life of a thread.                                                   *)

Milestones == {"spawn", "unborn", "ready", "awaitWorkers", "join"}

\* How far thread t has got, by its first frame.
Phase(t) ==
  IF stack[t] = <<>> THEN "gone"
  ELSE IF F(stack[t], 1).pc \in Milestones THEN F(stack[t], 1).pc ELSE "on"

Number(t) == F(stack[t], 1).n

Reported == {w \in Workers : Phase(w) \notin {"unborn", "ready"}}
Past     == Phase(Main) \notin {"spawn", "awaitWorkers"}

Life ==
  /\ Phase(Main) = "spawn" => Number(Main) \in 0 .. WorkerCount - 1
  /\ \A w \in Workers : Phase(w) = "unborn" <=> Phase(Main) = "spawn" /\ Number(Main) < w
  /\ workersReady = 1 - WorkerCount + Cardinality(Reported) - (IF Past THEN 1 ELSE 0)
  /\ Past => Reported = Workers
  /\ Phase(Main) = "join" =>
       Number(Main) \in Workers /\ \A w \in Workers : w < Number(Main) => Phase(w) = "gone"
  /\ Phase(Main) = "gone" => \A w \in Workers : Phase(w) = "gone"

StackInv == StackType /\ Stacked /\ Life

\* Leaving the innermost frame, replacing it, and calling from it: the frames
\* below stay where they are.
LEMMA LeaveHeights ==
  ASSUME NEW S, NEW s \in Seq(S), s # <<>>, NEW r, r = <<>> \o Tail(s)
  PROVE  /\ r \in Seq(S) /\ Len(r) = Len(s) - 1
         /\ \A h \in 1 .. Len(s) - 1 : F(r, h) = F(s, h)
  BY DEF F

\* The same frames, but for the innermost.
LEMMA SwapHeights ==
  ASSUME NEW S, NEW s \in Seq(S), s # <<>>, NEW f \in S
  PROVE  LET r == <<f>> \o Tail(s) IN
         /\ r \in Seq(S) /\ Len(r) = Len(s) /\ r # <<>> /\ Head(r) = f
         /\ F(r, Len(s)) = f
         /\ \A h \in 1 .. Len(s) - 1 : F(r, h) = F(s, h)
  BY DEF F

\* The same frames below two that take the place of the innermost.
LEMMA PushHeights ==
  ASSUME NEW S, NEW s \in Seq(S), s # <<>>, NEW f \in S, NEW g \in S
  PROVE  LET r == <<f, g>> \o Tail(s) IN
         /\ r \in Seq(S) /\ Len(r) = Len(s) + 1 /\ r # <<>> /\ Head(r) = f
         /\ F(r, Len(s) + 1) = f /\ F(r, Len(s)) = g
         /\ \A h \in 1 .. Len(s) - 1 : F(r, h) = F(s, h)
  <1> DEFINE r == <<f, g>> \o Tail(s)
  <1>1. <<f, g>> \in Seq(S) /\ Len(<<f, g>>) = 2 /\ Tail(s) \in Seq(S) /\ Len(Tail(s)) = Len(s) - 1
    OBVIOUS
  <1>2. r \in Seq(S) /\ Len(r) = Len(s) + 1
    BY <1>1
  <1>3. r[1] = f /\ r[2] = g
    BY <1>1
  <1>4. \A i \in 3 .. Len(s) + 1 : r[i] = Tail(s)[i - 2]
    BY <1>1
  <1>5. \A i \in 1 .. Len(s) - 1 : Tail(s)[i] = s[i + 1]
    OBVIOUS
  <1>6. \A h \in 1 .. Len(s) - 1 : F(r, h) = F(s, h)
    BY <1>1, <1>2, <1>4, <1>5 DEF F
  <1> QED
    BY <1>1, <1>2, <1>3, <1>6 DEF F

\* The innermost frame is the highest one.
LEMMA TopHeight ==
  ASSUME NEW S, NEW s \in Seq(S), s # <<>>
  PROVE  Len(s) \in Nat \ {0} /\ Head(s) = F(s, Len(s)) /\ Head(s) \in S
         /\ \A h \in 1 .. Len(s) : F(s, h) \in S
  BY DEF F

----------------------------------------------------------------------------
(* Ordinary moves: the steps that end no phase of a thread's life.         *)

\* A step of thread t that calls, returns or moves on within its functions.
OrdinaryMove(t) ==
  LET n == Len(stack[t]) IN
  /\ stack[t] # <<>>
  /\ \/ n > 1 /\ Replace(t, <<>>)
     \/ \E f \in FrameType :
          /\ Replace(t, <<f>>)
          /\ Fits(t, f, n)
          /\ n = 1 => f.pc \notin Milestones /\ Top(t).pc \notin Milestones
     \/ \E f, g \in FrameType :
          /\ Replace(t, <<f, g>>)
          /\ Fits(t, f, n + 1) /\ Fits(t, g, n) /\ g.pc \in Below
          /\ n = 1 => Top(t).pc \notin Milestones

\* What such a step does to the stacks.
LEMMA OrdinaryHeights ==
  ASSUME StackType, NEW t \in Threads, OrdinaryMove(t)
  PROVE  /\ stack' \in [Threads -> Seq(FrameType)]
         /\ \A u \in Threads \ {t} : stack'[u] = stack[u]
         /\ \A h \in 1 .. Len(stack[t]) - 1 : F(stack'[t], h) = F(stack[t], h)
         /\ \/ Len(stack[t]) > 1 /\ Len(stack'[t]) = Len(stack[t]) - 1
            \/ /\ Len(stack'[t]) = Len(stack[t])
               /\ Fits(t, F(stack'[t], Len(stack[t])), Len(stack[t]))
               /\ Len(stack[t]) = 1 => F(stack'[t], 1).pc \notin Milestones /\ Top(t).pc \notin Milestones
            \/ /\ Len(stack'[t]) = Len(stack[t]) + 1
               /\ Fits(t, F(stack'[t], Len(stack[t]) + 1), Len(stack[t]) + 1)
               /\ Fits(t, F(stack'[t], Len(stack[t])), Len(stack[t]))
               /\ F(stack'[t], Len(stack[t])).pc \in Below
               /\ Len(stack[t]) = 1 => Top(t).pc \notin Milestones
  <1> DEFINE s == stack[t]
  <1>0. s \in Seq(FrameType) /\ s # <<>> /\ stack \in [Threads -> Seq(FrameType)]
    BY DEF StackType, OrdinaryMove
  <1>1. CASE Len(s) > 1 /\ Replace(t, <<>>)
    <2>1. stack'[t] = <<>> \o Tail(s) /\ \A u \in Threads \ {t} : stack'[u] = stack[u]
      BY <1>0, <1>1 DEF Replace
    <2> HIDE DEF s
    <2>2. stack'[t] \in Seq(FrameType) /\ Len(stack'[t]) = Len(s) - 1
          /\ \A h \in 1 .. Len(s) - 1 : F(stack'[t], h) = F(s, h)
      BY <1>0, <2>1, LeaveHeights
    <2>3. stack' \in [Threads -> Seq(FrameType)]
      BY <1>0, <1>1, <2>1, <2>2 DEF Replace
    <2> QED
      BY <1>1, <2>1, <2>2, <2>3 DEF s
  <1>2. ASSUME NEW f \in FrameType, Replace(t, <<f>>), Fits(t, f, Len(s)),
               Len(s) = 1 => f.pc \notin Milestones /\ Top(t).pc \notin Milestones
        PROVE  /\ stack' \in [Threads -> Seq(FrameType)]
               /\ \A u \in Threads \ {t} : stack'[u] = stack[u]
               /\ \A h \in 1 .. Len(s) - 1 : F(stack'[t], h) = F(s, h)
               /\ Len(stack'[t]) = Len(s)
               /\ Fits(t, F(stack'[t], Len(s)), Len(s))
               /\ Len(s) = 1 => F(stack'[t], 1).pc \notin Milestones /\ Top(t).pc \notin Milestones
    <2>1. stack'[t] = <<f>> \o Tail(s) /\ \A u \in Threads \ {t} : stack'[u] = stack[u]
      BY <1>0, <1>2 DEF Replace
    <2> HIDE DEF s
    <2>2. stack'[t] \in Seq(FrameType) /\ Len(stack'[t]) = Len(s)
          /\ F(stack'[t], Len(s)) = f
          /\ \A h \in 1 .. Len(s) - 1 : F(stack'[t], h) = F(s, h)
      BY <1>0, <1>2, <2>1, SwapHeights
    <2>3. stack' \in [Threads -> Seq(FrameType)]
      BY <1>0, <1>2, <2>1, <2>2 DEF Replace
    <2> QED
      BY <1>2, <2>1, <2>2, <2>3
  <1>3. ASSUME NEW f \in FrameType, NEW g \in FrameType, Replace(t, <<f, g>>),
               Fits(t, f, Len(s) + 1), Fits(t, g, Len(s)), g.pc \in Below,
               Len(s) = 1 => Top(t).pc \notin Milestones
        PROVE  /\ stack' \in [Threads -> Seq(FrameType)]
               /\ \A u \in Threads \ {t} : stack'[u] = stack[u]
               /\ \A h \in 1 .. Len(s) - 1 : F(stack'[t], h) = F(s, h)
               /\ Len(stack'[t]) = Len(s) + 1
               /\ Fits(t, F(stack'[t], Len(s) + 1), Len(s) + 1)
               /\ Fits(t, F(stack'[t], Len(s)), Len(s))
               /\ F(stack'[t], Len(s)).pc \in Below
               /\ Len(s) = 1 => Top(t).pc \notin Milestones
    <2>1. stack'[t] = <<f, g>> \o Tail(s) /\ \A u \in Threads \ {t} : stack'[u] = stack[u]
      BY <1>0, <1>3 DEF Replace
    <2> HIDE DEF s
    <2>2. stack'[t] \in Seq(FrameType) /\ Len(stack'[t]) = Len(s) + 1
          /\ F(stack'[t], Len(s) + 1) = f /\ F(stack'[t], Len(s)) = g
          /\ \A h \in 1 .. Len(s) - 1 : F(stack'[t], h) = F(s, h)
      BY <1>0, <1>3, <2>1, PushHeights
    <2>3. stack' \in [Threads -> Seq(FrameType)]
      BY <1>0, <1>3, <2>1, <2>2 DEF Replace
    <2> QED
      BY <1>3, <2>1, <2>2, <2>3
  <1> QED
    BY <1>1, <1>2, <1>3 DEF OrdinaryMove

\* An ordinary move leaves every frame where it may be.
LEMMA OrdinaryStacked ==
  ASSUME StackType, Stacked, NEW t \in Threads, OrdinaryMove(t)
  PROVE  StackType' /\ Stacked'
  <1>1. StackType'
    BY OrdinaryHeights DEF StackType
  <1>2. ASSUME NEW u \in Threads, NEW h \in 1 .. Len(stack'[u])
        PROVE  /\ Fits(u, F(stack'[u], h), h)
               /\ h < Len(stack'[u]) => F(stack'[u], h).pc \in Below
    <2>1. CASE u # t
      BY <1>2, <2>1, OrdinaryHeights DEF Stacked
    <2>2. CASE u = t
      <3>0. stack[t] \in Seq(FrameType) /\ stack'[t] \in Seq(FrameType) /\ stack[t] # <<>>
        BY <1>1 DEF StackType, OrdinaryMove
      <3>1. Len(stack[t]) \in Nat \ {0} /\ Len(stack'[t]) \in Nat
        BY <3>0
      <3>2. CASE h < Len(stack[t])
        <4>1. h \in 1 .. Len(stack[t]) - 1 /\ h \in 1 .. Len(stack[t])
          BY <1>2, <2>2, <3>1, <3>2
        <4>2. F(stack'[t], h) = F(stack[t], h)
          BY <4>1, OrdinaryHeights
        <4> QED
          BY <2>2, <4>1, <4>2, <3>2 DEF Stacked
      <3>3. CASE h >= Len(stack[t])
        <4>1. \/ /\ Len(stack'[t]) = Len(stack[t])
                 /\ Fits(t, F(stack'[t], Len(stack[t])), Len(stack[t]))
              \/ /\ Len(stack'[t]) = Len(stack[t]) + 1
                 /\ Fits(t, F(stack'[t], Len(stack[t]) + 1), Len(stack[t]) + 1)
                 /\ Fits(t, F(stack'[t], Len(stack[t])), Len(stack[t]))
                 /\ F(stack'[t], Len(stack[t])).pc \in Below
          BY <1>2, <2>2, <3>1, <3>3, OrdinaryHeights
        <4> QED
          BY <1>2, <2>2, <3>1, <3>3, <4>1
      <3> QED
        BY <1>2, <2>2, <3>1, <3>2, <3>3
    <2> QED
      BY <2>1, <2>2
  <1>3. Stacked'
    BY <1>2 DEF Stacked, Fits, F
  <1> QED
    BY <1>1, <1>3

\* An ordinary move takes no thread to another phase of its life.
LEMMA OrdinaryPhases ==
  ASSUME StackType, NEW t \in Threads, OrdinaryMove(t), NEW u \in Threads
  PROVE  Phase(u)' = Phase(u) /\ (Phase(u) \in Milestones => Number(u)' = Number(u))
  <1>1. CASE u # t
    BY <1>1, OrdinaryHeights DEF Phase, Number
  <1>2. CASE u = t
    <2>0. stack[t] \in Seq(FrameType) /\ stack'[t] \in Seq(FrameType) /\ stack[t] # <<>>
      BY OrdinaryHeights DEF StackType, OrdinaryMove
    <2>1. /\ Len(stack[t]) \in Nat \ {0} /\ Len(stack'[t]) \in Nat
          /\ Top(t) = F(stack[t], Len(stack[t]))
      BY <2>0, TopHeight DEF Top
    <2>2. CASE Len(stack[t]) > 1
      <3>1. F(stack'[t], 1) = F(stack[t], 1)
        BY <2>1, <2>2, OrdinaryHeights
      <3>2. stack'[t] # <<>>
        BY <2>1, <2>2, OrdinaryHeights
      <3> QED
        BY <1>2, <2>0, <3>1, <3>2 DEF Phase, Number
    <2>3. CASE Len(stack[t]) = 1
      <3>1. /\ Len(stack'[t]) >= 1
            /\ F(stack'[t], 1).pc \notin Milestones
            /\ F(stack[t], 1).pc \notin Milestones
        <4>1. \/ /\ Len(stack'[t]) = Len(stack[t])
                 /\ F(stack'[t], 1).pc \notin Milestones /\ Top(t).pc \notin Milestones
              \/ /\ Len(stack'[t]) = Len(stack[t]) + 1
                 /\ F(stack'[t], Len(stack[t])).pc \in Below /\ Top(t).pc \notin Milestones
          <5>1. Len(stack[t]) \in Nat /\ Len(stack'[t]) \in Nat
            BY <2>1
          <5>2. ~(Len(stack[t]) > 1)
            BY <2>3, <5>1
          <5> QED
            BY <2>3, <5>1, <5>2, OrdinaryHeights
        <4> QED
          BY <2>1, <2>3, <4>1 DEF Below, Milestones
      <3>2. stack'[t] # <<>>
        BY <2>1, <3>1
      <3>3. Phase(u) = "on" /\ Phase(u)' = "on"
        BY <1>2, <2>0, <3>1, <3>2 DEF Phase
      <3> QED
        BY <3>3 DEF Milestones
    <2>4. Len(stack[t]) > 1 \/ Len(stack[t]) = 1
      <3>1. \A n \in Nat \ {0} : n > 1 \/ n = 1
        OBVIOUS
      <3> QED
        BY <2>1, <3>1
    <2> QED
      BY <2>2, <2>3, <2>4
  <1> QED
    BY <1>1, <1>2

\* What Life says rests on the phases and on workersReady alone.
LEMMA LifeSame ==
  ASSUME Life, workersReady' = workersReady,
         \A u \in Threads : Phase(u)' = Phase(u) /\ (Phase(u) \in Milestones => Number(u)' = Number(u))
  PROVE  Life'
  <1>1. Main \in Threads /\ Workers \subseteq Threads /\ "spawn" \in Milestones /\ "join" \in Milestones
    BY JobSystemAssumption DEF Main, Threads, Workers, Milestones
  <1>2. Reported' = Reported /\ Past' = Past
    BY <1>1 DEF Reported, Past
  <1> QED
    BY <1>1, <1>2 DEF Life

\* An ordinary move keeps the invariant of the stacks.
LEMMA OrdinaryKeeps ==
  ASSUME StackInv, NEW t \in Threads, OrdinaryMove(t), workersReady' = workersReady
  PROVE  StackInv'
  BY OrdinaryStacked, OrdinaryPhases, LifeSame DEF StackInv

----------------------------------------------------------------------------
(* The actions that make ordinary moves.                                   *)

\* The innermost frame fits where it is; so does it when only its count changes.
LEMMA TopFits ==
  ASSUME StackInv, NEW t \in Threads, stack[t] # <<>>
  PROVE  /\ Top(t) \in FrameType /\ Len(stack[t]) \in Nat \ {0}
         /\ Fits(t, Top(t), Len(stack[t]))
         /\ Advanced(t) \in FrameType /\ Fits(t, Advanced(t), Len(stack[t]))
         /\ Advanced(t).pc = Top(t).pc /\ Advanced(t).job = Top(t).job
  <1>1. stack[t] \in Seq(FrameType)
    BY DEF StackInv, StackType
  <1>2. Top(t) = F(stack[t], Len(stack[t])) /\ Top(t) \in FrameType /\ Len(stack[t]) \in Nat \ {0}
    BY <1>1, TopHeight DEF Top
  <1>3. Fits(t, Top(t), Len(stack[t]))
    BY <1>2 DEF StackInv, Stacked
  <1>4. Advanced(t) \in FrameType /\ Advanced(t).pc = Top(t).pc /\ Advanced(t).job = Top(t).job
    BY <1>2 DEF Advanced, FrameType
  <1> QED
    BY <1>2, <1>3, <1>4 DEF Fits

\* A frame made of a label, a job and a count.
LEMMA FrameFields ==
  ASSUME NEW pc \in Labels, NEW j \in Jobs \union {Null}, NEW n \in Nat
  PROVE  /\ Frame(pc, j, n) \in FrameType
         /\ Frame(pc, j, n).pc = pc /\ Frame(pc, j, n).job = j /\ Frame(pc, j, n).n = n
  BY DEF Frame, FrameType

\* The three kinds of move, with what each has to show.
LEMMA MoveUp ==
  ASSUME NEW t \in Threads, stack[t] # <<>>, Len(stack[t]) > 1, Replace(t, <<>>)
  PROVE  OrdinaryMove(t)
  BY DEF OrdinaryMove

\* ... a frame replaced by one that fits ...
LEMMA MoveOn ==
  ASSUME NEW t \in Threads, stack[t] # <<>>, NEW f \in FrameType, Replace(t, <<f>>),
         Fits(t, f, Len(stack[t])), f.pc \notin Milestones, Top(t).pc \notin Milestones
  PROVE  OrdinaryMove(t)
  BY DEF OrdinaryMove

\* ... and a call from a frame below which others may stand.
LEMMA MoveDown ==
  ASSUME NEW t \in Threads, stack[t] # <<>>, NEW f \in FrameType, NEW g \in FrameType,
         Replace(t, <<f, g>>), Fits(t, f, Len(stack[t]) + 1), Fits(t, g, Len(stack[t])),
         g.pc \in Below, Top(t).pc \notin Milestones
  PROVE  OrdinaryMove(t)
  BY DEF OrdinaryMove

\* Above the first frame a thread is within functions of the job system.
LEMMA Above ==
  ASSUME NEW t \in Threads, NEW n \in Nat \ {0}, NEW f, Fits(t, f, n),
         f.pc \in {"jobReady", "notifyAll", "wait", "waitBlock", "get", "popped", "finish",
                   "steal", "stolen"}
  PROVE  n > 1
  BY DEF Fits, MainBottom, WorkerBottom

\* What fits above the first frame, and what as the first.
LEMMA FitsInner ==
  ASSUME NEW t \in Threads, NEW n \in Nat, n > 1, NEW f,
         f.pc \in Inner \/ (t # Main /\ f.pc \in Stealer),
         f.pc \in {"finish", "wait", "waitBlock", "script"} => f.job \in Jobs
  PROVE  Fits(t, f, n)
  <1>1. n # 1
    OBVIOUS
  <1> QED
    BY <1>1 DEF Fits

\* Which labels a frame may have, by its height.
LEMMA InnerOnly ==
  ASSUME NEW t \in Threads, NEW n \in Nat \ {0}, NEW f, Fits(t, f, n)
  PROVE  /\ n = 1 \/ n > 1
         /\ n > 1 => /\ f.pc \in Inner \/ (t # Main /\ f.pc \in Stealer)
                     /\ f.pc = "script" => f.job \in Jobs
         /\ n = 1 => /\ f.pc \in (IF t = Main THEN MainBottom ELSE WorkerBottom)
                     /\ f.pc = "script" => f.job = Null
         /\ f.pc \in {"finish", "wait", "waitBlock"} => f.job \in Jobs
  BY DEF Fits

\* The calls of a script are ordinary moves.
LEMMA CallMoves ==
  ASSUME StackInv, NEW t \in Threads, NEW j \in Jobs, CreateJob(t, j) \/ RunJob(t, j) \/ CallWait(t, j)
  PROVE  OrdinaryMove(t)
  <1>1. stack[t] # <<>> /\ Top(t).pc = "script"
    BY DEF CreateJob, RunJob, CallWait, Calls, At, Top
  <1>2. /\ Advanced(t) \in FrameType /\ Fits(t, Advanced(t), Len(stack[t]))
        /\ Advanced(t).pc = "script" /\ Len(stack[t]) \in Nat \ {0}
    BY <1>1, TopFits
  <1>3. "script" \notin Milestones /\ "script" \in Below
    BY DEF Milestones, Below
  <1>4. CASE CreateJob(t, j)
    BY <1>1, <1>2, <1>3, <1>4, MoveOn DEF CreateJob
  <1>5. CASE RunJob(t, j)
    <2>1. /\ Frame("jobReady", j, 0) \in FrameType
          /\ Fits(t, Frame("jobReady", j, 0), Len(stack[t]) + 1)
      BY <1>2 DEF Frame, FrameType, Labels, Fits, Inner
    <2> QED
      BY <1>1, <1>2, <1>3, <1>5, <2>1, MoveDown DEF RunJob
  <1>6. CASE CallWait(t, j)
    <2>1. /\ Frame("wait", j, 0) \in FrameType
          /\ Fits(t, Frame("wait", j, 0), Len(stack[t]) + 1)
      BY <1>2 DEF Frame, FrameType, Labels, Fits, Inner
    <2> QED
      BY <1>1, <1>2, <1>3, <1>6, <2>1, MoveDown DEF CallWait
  <1> QED
    BY <1>4, <1>5, <1>6

\* So are the notifications that follow a push and a countdown,
LEMMA NotifyMoves ==
  ASSUME StackInv, NEW t \in Threads, NotifyJobReady(t) \/ NotifyAll(t)
  PROVE  OrdinaryMove(t)
  <1>1. stack[t] # <<>> /\ Top(t).pc \in {"jobReady", "notifyAll"}
    BY DEF NotifyJobReady, NotifyAll, At, Top
  <1>2. /\ Top(t) \in FrameType /\ Len(stack[t]) \in Nat \ {0}
        /\ Fits(t, Top(t), Len(stack[t]))
        /\ Advanced(t) \in FrameType /\ Fits(t, Advanced(t), Len(stack[t]))
        /\ Advanced(t).pc = Top(t).pc
    BY <1>1, TopFits
  <1>3. Len(stack[t]) > 1
    BY <1>1, <1>2, Above
  <1>4. Top(t).pc \notin Milestones /\ "notifyAll" \notin Milestones
    BY <1>1 DEF Milestones
  <1>5. CASE NotifyJobReady(t)
    <2>1. /\ Frame("notifyAll", Top(t).job, 0) \in FrameType
          /\ Frame("notifyAll", Top(t).job, 0).pc = "notifyAll"
      BY <1>2 DEF Frame, FrameType, Labels
    <2>2. Fits(t, Frame("notifyAll", Top(t).job, 0), Len(stack[t]))
      BY <1>2, <1>3, <2>1, FitsInner DEF Inner
    <2> QED
      BY <1>1, <1>4, <1>5, <2>1, <2>2, MoveOn DEF NotifyJobReady
  <1>6. CASE NotifyAll(t)
    BY <1>1, <1>2, <1>3, <1>4, <1>6, MoveOn, MoveUp DEF NotifyAll, Leave
  <1> QED
    BY <1>5, <1>6

\* the steps of wait,
LEMMA WaitMoves ==
  ASSUME StackInv, NEW t \in Threads, WaitCheck(t) \/ WaitBlock(t)
  PROVE  OrdinaryMove(t)
  <1> DEFINE f == [Top(t) EXCEPT !.pc = IF WaitCheck(t) THEN "waitBlock" ELSE "wait"]
  <1>1. stack[t] # <<>> /\ Top(t).pc \in {"wait", "waitBlock"}
    BY DEF WaitCheck, WaitBlock, At, Top
  <1>2. /\ Top(t) \in FrameType /\ Len(stack[t]) \in Nat \ {0}
        /\ Fits(t, Top(t), Len(stack[t]))
    BY <1>1, TopFits
  <1>3. Len(stack[t]) > 1
    BY <1>1, <1>2, Above
  <1>4. Top(t).pc \notin Milestones /\ "wait" \notin Milestones
    BY <1>1 DEF Milestones
  <1>5. ASSUME NEW pc \in {"wait", "waitBlock"}
        PROVE  /\ [Top(t) EXCEPT !.pc = pc] \in FrameType
               /\ [Top(t) EXCEPT !.pc = pc].pc = pc
               /\ Fits(t, [Top(t) EXCEPT !.pc = pc], Len(stack[t]))
    <2>1. /\ [Top(t) EXCEPT !.pc = pc] \in FrameType
          /\ [Top(t) EXCEPT !.pc = pc].pc = pc /\ [Top(t) EXCEPT !.pc = pc].job = Top(t).job
      BY <1>2 DEF FrameType, Labels
    <2> QED
      <3>1. Top(t).job \in Jobs
        BY <1>1, <1>2, InnerOnly
      <3> QED
        BY <1>2, <1>3, <2>1, <3>1, FitsInner DEF Inner
  <1>6. CASE WaitCheck(t) /\ Replace(t, <<>>)
    BY <1>1, <1>3, <1>6, MoveUp
  <1>7. CASE WaitCheck(t) /\ Replace(t, <<Frame("get", Null, 0), [Top(t) EXCEPT !.pc = "waitBlock"]>>)
    <2>1. Frame("get", Null, 0) \in FrameType /\ Fits(t, Frame("get", Null, 0), Len(stack[t]) + 1)
      BY <1>2 DEF Frame, FrameType, Labels, Fits, Inner
    <2>2. "waitBlock" \in Below
      BY DEF Below
    <2> QED
      BY <1>1, <1>4, <1>5, <1>7, <2>1, <2>2, MoveDown
  <1>8. CASE WaitBlock(t)
    BY <1>1, <1>4, <1>5, <1>8, MoveOn DEF WaitBlock, Become
  <1> QED
    BY <1>6, <1>7, <1>8 DEF WaitCheck, Leave

\* the steps of a worker's loop, but for its end,
LEMMA LoopMoves ==
  ASSUME StackInv, NEW w \in Workers,
         (LoopCheck(w) /\ active) \/ LoopBlock(w)
  PROVE  OrdinaryMove(w)
  <1>0. w \in Threads /\ w # Main
    BY JobSystemAssumption DEF Workers, Threads, Main
  <1>1. stack[w] # <<>> /\ Top(w).pc \in {"loop", "loopBlock"}
    BY DEF LoopCheck, LoopBlock, At, Top
  <1>2. /\ Top(w) \in FrameType /\ Len(stack[w]) \in Nat \ {0}
        /\ Fits(w, Top(w), Len(stack[w]))
    BY <1>0, <1>1, TopFits
  <1>3. Len(stack[w]) = 1
    BY <1>0, <1>1, <1>2, InnerOnly DEF Inner, Stealer
  <1>4. Top(w).pc \notin Milestones /\ "loop" \notin Milestones
    BY <1>1 DEF Milestones
  <1>5. ASSUME NEW pc \in {"loop", "loopBlock"}
        PROVE  /\ [Top(w) EXCEPT !.pc = pc] \in FrameType
               /\ [Top(w) EXCEPT !.pc = pc].pc = pc
               /\ Fits(w, [Top(w) EXCEPT !.pc = pc], Len(stack[w]))
    <2>1. /\ [Top(w) EXCEPT !.pc = pc] \in FrameType
          /\ [Top(w) EXCEPT !.pc = pc].pc = pc /\ [Top(w) EXCEPT !.pc = pc].job = Top(w).job
      BY <1>2 DEF FrameType, Labels
    <2> QED
      BY <1>0, <1>1, <1>2, <1>3, <2>1 DEF Fits, WorkerBottom
  <1>6. CASE LoopCheck(w) /\ active
    <2>1. Frame("get", Null, 0) \in FrameType /\ Fits(w, Frame("get", Null, 0), Len(stack[w]) + 1)
      BY <1>2 DEF Frame, FrameType, Labels, Fits, Inner
    <2>2. "loopBlock" \in Below
      BY DEF Below
    <2>3. Replace(w, <<Frame("get", Null, 0), [Top(w) EXCEPT !.pc = "loopBlock"]>>)
      BY <1>6 DEF LoopCheck
    <2> QED
      BY <1>0, <1>1, <1>4, <1>5, <2>1, <2>2, <2>3, MoveDown
  <1>7. CASE LoopBlock(w)
    BY <1>0, <1>1, <1>4, <1>5, <1>7, MoveOn DEF LoopBlock, Become
  <1> QED
    BY <1>6, <1>7

\* those of get_job,
LEMMA GetMoves ==
  ASSUME StackInv, NEW t \in Threads,
         GetJob(t) \/ (Popped(t) /\ ~FoundJunk(t)) \/ StealJob(t) \/ (Stolen(t) /\ ~FoundJunk(t))
  PROVE  OrdinaryMove(t)
  <1>1. stack[t] # <<>> /\ Top(t).pc \in {"get", "popped", "steal", "stolen"}
    BY DEF GetJob, Popped, StealJob, Stolen, At, Top
  <1>2. /\ Top(t) \in FrameType /\ Len(stack[t]) \in Nat \ {0}
        /\ Fits(t, Top(t), Len(stack[t]))
    BY <1>1, TopFits
  <1>3. Len(stack[t]) > 1
    BY <1>1, <1>2, Above
  <1>4. Top(t).pc \notin Milestones /\ {"script", "popped", "steal", "stolen"} \intersect Milestones = {}
    BY <1>1 DEF Milestones
  <1>5. ASSUME NEW pc \in {"popped", "steal", "stolen"}, pc # "popped" => t # Main, Become(t, pc)
        PROVE  OrdinaryMove(t)
    <2>1. /\ [Top(t) EXCEPT !.pc = pc] \in FrameType
          /\ [Top(t) EXCEPT !.pc = pc].pc = pc /\ [Top(t) EXCEPT !.pc = pc].job = Top(t).job
      BY <1>2 DEF FrameType, Labels
    <2>2. Fits(t, [Top(t) EXCEPT !.pc = pc], Len(stack[t]))
      BY <1>2, <1>3, <1>5, <2>1, FitsInner DEF Inner, Stealer
    <2>3. Replace(t, <<[Top(t) EXCEPT !.pc = pc]>>) /\ pc \notin Milestones
      BY <1>4, <1>5 DEF Become
    <2> QED
      BY <1>1, <1>4, <2>1, <2>2, <2>3, MoveOn
  <1>6. ASSUME Found(t)
        PROVE  OrdinaryMove(t)
    <2>1. /\ Frame("script", job[t], 0) \in FrameType
          /\ Frame("script", job[t], 0).pc = "script" /\ Frame("script", job[t], 0).job = job[t]
      BY <1>6 DEF Found, Frame, FrameType, Labels
    <2>2. Fits(t, Frame("script", job[t], 0), Len(stack[t]))
      BY <1>2, <1>3, <1>6, <2>1, FitsInner DEF Inner, Found
    <2> QED
      BY <1>1, <1>4, <1>6, <2>1, <2>2, MoveOn DEF Found
  <1>7. ASSUME Leave(t)
        PROVE  OrdinaryMove(t)
    BY <1>1, <1>3, <1>7, MoveUp DEF Leave
  <1>8. CASE GetJob(t)
    BY <1>5, <1>8 DEF GetJob
  <1>9. CASE StealJob(t)
    <2>1. t # Main
      <3>1. Top(t).pc = "steal"
        BY <1>9 DEF StealJob, At, Top
      <3> QED
        BY <1>2, <3>1, InnerOnly DEF Inner, MainBottom
    <2> QED
      BY <1>5, <1>9, <2>1 DEF StealJob
  <1>10. CASE Popped(t) /\ ~FoundJunk(t)
    BY <1>5, <1>6, <1>7, <1>10 DEF Popped
  <1>11. CASE Stolen(t) /\ ~FoundJunk(t)
    BY <1>6, <1>7, <1>11 DEF Stolen
  <1> QED
    BY <1>8, <1>9, <1>10, <1>11

\* the return of a function and the countdown,
LEMMA ReturnMoves ==
  ASSUME StackInv, NEW t \in Threads, JobReturns(t) \/ Finish(t)
  PROVE  OrdinaryMove(t)
  <1>1. stack[t] # <<>> /\ Top(t).pc \in {"script", "finish"} /\ (Top(t).pc = "script" => Top(t).job # Null)
    BY DEF JobReturns, Finish, At, Top
  <1>2. /\ Top(t) \in FrameType /\ Len(stack[t]) \in Nat \ {0}
        /\ Fits(t, Top(t), Len(stack[t]))
    BY <1>1, TopFits
  <1>3. Len(stack[t]) > 1
    <2>1. Len(stack[t]) = 1 => Top(t).pc \in {"script", "finish"} /\ (Top(t).pc = "script" => Top(t).job = Null)
            /\ Top(t).pc \in MainBottom \union WorkerBottom
      BY <1>1, <1>2, InnerOnly
    <2>2. ~(Len(stack[t]) = 1)
      BY <1>1, <2>1 DEF MainBottom, WorkerBottom
    <2> QED
      BY <1>2, <2>2, InnerOnly
  <1>4. Top(t).pc \notin Milestones /\ {"finish", "notifyAll"} \intersect Milestones = {} /\ "notifyAll" \in Below
    BY <1>1 DEF Milestones, Below
  <1>5. Top(t).job \in Jobs
    BY <1>1, <1>2, <1>3 DEF Fits, FrameType
  <1>6. ASSUME NEW pc \in {"finish", "notifyAll"}, NEW j \in Jobs, NEW n \in {Len(stack[t]), Len(stack[t]) + 1}
        PROVE  /\ Frame(pc, j, 0) \in FrameType /\ Frame(pc, j, 0).pc = pc
               /\ Fits(t, Frame(pc, j, 0), n)
    <2>1. /\ Frame(pc, j, 0) \in FrameType /\ Frame(pc, j, 0).pc = pc /\ Frame(pc, j, 0).job = j
      BY DEF Frame, FrameType, Labels
    <2>2. n > 1 /\ n \in Nat
      BY <1>2, <1>3
    <2> QED
      BY <2>1, <2>2, FitsInner DEF Inner
  <1>7. CASE JobReturns(t)
    BY <1>1, <1>4, <1>5, <1>6, <1>7, MoveOn DEF JobReturns
  <1>8. CASE Finish(t) /\ Replace(t, <<Frame("notifyAll", Top(t).job, 0)>>)
    BY <1>1, <1>4, <1>5, <1>6, <1>8, MoveOn
  <1>9. CASE Finish(t) /\ Parent[Top(t).job] # NoParent
             /\ Replace(t, <<Frame("finish", Parent[Top(t).job], 0), Frame("notifyAll", Top(t).job, 0)>>)
    <2>1. Parent[Top(t).job] \in Jobs
      BY <1>5, <1>9, JobSystemAssumption
    <2> QED
      BY <1>1, <1>4, <1>5, <1>6, <1>9, <2>1, MoveDown
  <1> QED
    BY <1>7, <1>8, <1>9 DEF Finish

\* and the steps of shutdown up to the joins.
LEMMA MainMoves ==
  ASSUME StackInv, StopWorkers \/ (WakeWorker /\ Top(Main).n # WorkerCount)
  PROVE  OrdinaryMove(Main)
  <1>0. Main \in Threads
    BY JobSystemAssumption DEF Main, Threads
  <1>1. stack[Main] # <<>> /\ Top(Main).pc \in {"script", "wake"}
        /\ (Top(Main).pc = "script" => Top(Main).job = Null)
    BY DEF StopWorkers, WakeWorker, At, Top
  <1>2. /\ Top(Main) \in FrameType /\ Len(stack[Main]) \in Nat \ {0}
        /\ Fits(Main, Top(Main), Len(stack[Main]))
        /\ Advanced(Main) \in FrameType /\ Fits(Main, Advanced(Main), Len(stack[Main]))
        /\ Advanced(Main).pc = Top(Main).pc
    BY <1>0, <1>1, TopFits
  <1>3. Top(Main).pc \notin Milestones /\ "wake" \notin Milestones
    BY <1>1 DEF Milestones
  <1>4. CASE StopWorkers
    <2>1. Frame("wake", Null, 1) \in FrameType /\ Frame("wake", Null, 1).pc = "wake"
      BY DEF Frame, FrameType, Labels
    <2>2. Len(stack[Main]) = 1
      BY <1>0, <1>1, <1>2, InnerOnly, JobSystemAssumption DEF Inner
    <2>3. Fits(Main, Frame("wake", Null, 1), Len(stack[Main]))
      BY <2>1, <2>2 DEF Fits, MainBottom
    <2> QED
      BY <1>0, <1>1, <1>3, <1>4, <2>1, <2>3, MoveOn DEF StopWorkers
  <1>5. CASE WakeWorker /\ Top(Main).n # WorkerCount
    BY <1>0, <1>1, <1>2, <1>3, <1>5, MoveOn DEF WakeWorker
  <1> QED
    BY <1>4, <1>5

----------------------------------------------------------------------------
(* The steps from one phase to the next.                                   *)

\* The first frame of a thread is replaced, or the thread ends.
LEMMA FirstFrames ==
  ASSUME StackType, Stacked, stack' \in [Threads -> Seq(FrameType)],
         \A u \in Threads :
           \/ stack'[u] = stack[u]
           \/ stack'[u] = <<>>
           \/ \E f \in FrameType : stack'[u] = <<f>> /\ Fits(u, f, 1)
  PROVE  StackType' /\ Stacked'
  <1>1. ASSUME NEW u \in Threads, NEW h \in 1 .. Len(stack'[u])
        PROVE  /\ Fits(u, F(stack'[u], h), h)
               /\ h < Len(stack'[u]) => F(stack'[u], h).pc \in Below
    <2>1. CASE stack'[u] = stack[u]
      BY <1>1, <2>1 DEF Stacked
    <2>2. CASE stack'[u] = <<>>
      BY <1>1, <2>2
    <2>3. ASSUME NEW f \in FrameType, stack'[u] = <<f>>, Fits(u, f, 1)
          PROVE  /\ Fits(u, F(stack'[u], h), h)
                 /\ h < Len(stack'[u]) => F(stack'[u], h).pc \in Below
      <3>1. Len(stack'[u]) = 1 /\ stack'[u][1] = f
        BY <2>3
      <3>2. h = 1
        BY <3>1
      <3> QED
        BY <2>3, <3>1, <3>2 DEF F
    <2> QED
      BY <2>1, <2>2, <2>3
  <1> QED
    BY <1>1 DEF StackType, Stacked, Fits, F

PhaseAt(f) == IF f.pc \in Milestones THEN f.pc ELSE "on"

\* The phase of a thread whose stack is unchanged, gone, or one frame.
LEMMA PhaseAfter ==
  ASSUME NEW u \in Threads
  PROVE  /\ stack'[u] = stack[u] => Phase(u)' = Phase(u) /\ Number(u)' = Number(u)
         /\ stack'[u] = <<>> => Phase(u)' = "gone"
         /\ \A f \in FrameType : stack'[u] = <<f>> => Phase(u)' = PhaseAt(f) /\ Number(u)' = f.n
  BY DEF Phase, Number, PhaseAt, F

\* A stack of one frame has nothing below it.
LEMMA Single ==
  ASSUME NEW S, NEW s \in Seq(S), Len(s) = 1
  PROVE  Tail(s) = <<>> /\ F(s, 1) = Head(s)
  <1>1. Tail(s) \in Seq(S) /\ Len(Tail(s)) = 0
    OBVIOUS
  <1>2. \A r \in Seq(S) : Len(r) = 0 => r = <<>>
    OBVIOUS
  <1>3. s # <<>>
    OBVIOUS
  <1>4. Head(s) = F(s, 1)
    BY <1>3, TopHeight
  <1> QED
    BY <1>1, <1>2, <1>4

\* A thread whose innermost frame has such a label has no other frame.
LEMMA OnlyFrame ==
  ASSUME StackInv, NEW t \in Threads, stack[t] # <<>>,
         Top(t).pc \in {"spawn", "unborn", "ready", "awaitWorkers", "wake", "join", "loop"}
  PROVE  /\ Len(stack[t]) = 1 /\ Tail(stack[t]) = <<>>
         /\ Phase(t) = PhaseAt(Top(t)) /\ Number(t) = Top(t).n
         /\ Top(t).pc \in (IF t = Main THEN MainBottom ELSE WorkerBottom)
         /\ Top(t) \in FrameType
  <1>1. stack[t] \in Seq(FrameType)
    BY DEF StackInv, StackType
  <1>2. /\ Top(t) \in FrameType /\ Len(stack[t]) \in Nat \ {0}
        /\ Fits(t, Top(t), Len(stack[t]))
    BY TopFits
  <1>3. Len(stack[t]) = 1 /\ Top(t).pc \in (IF t = Main THEN MainBottom ELSE WorkerBottom)
    BY <1>2, InnerOnly DEF Inner, Stealer
  <1>4. Tail(stack[t]) = <<>> /\ F(stack[t], 1) = Top(t)
    BY <1>1, <1>3, Single DEF Top
  <1> QED
    BY <1>2, <1>3, <1>4 DEF Phase, PhaseAt, Number

\* The threads: the main thread and the workers, finitely many.
LEMMA Crew ==
  /\ Main \in Threads /\ Workers \subseteq Threads /\ Main \notin Workers
  /\ IsFiniteSet(Workers) /\ Cardinality(Workers) = WorkerCount
  /\ WorkerCount \in Nat \ {0} /\ Workers = 1 .. WorkerCount
  <1>1. WorkerCount \in Nat \ {0}
    BY JobSystemAssumption
  <1>2. IsFiniteSet(1 .. WorkerCount) /\ Cardinality(1 .. WorkerCount) = WorkerCount
    BY <1>1, FS_Interval
  <1> QED
    BY <1>1, <1>2 DEF Main, Workers, Threads

\* The workers that have reported themselves ready can be counted.
LEMMA ReportedFinite ==
  IsFiniteSet(Reported) /\ Cardinality(Reported) \in 0 .. WorkerCount
  <1>1. Reported \subseteq Workers
    BY DEF Reported
  <1>2. IsFiniteSet(Reported) /\ Cardinality(Reported) <= WorkerCount
    BY <1>1, Crew, FS_Subset
  <1> QED
    BY <1>2, Crew, FS_CardinalityType

\* initialize starts the next worker, or goes on to wait for all of them.
LEMMA SpawnKeeps ==
  ASSUME StackInv, NEW w \in Workers, SpawnWorker(w)
  PROVE  StackInv'
  <1> DEFINE f == Frame(IF w = WorkerCount THEN "awaitWorkers" ELSE "spawn", Null, w)
             g == Frame("ready", Null, 0)
  <1>1. /\ stack[Main] # <<>> /\ Top(Main).pc = "spawn" /\ w \in Threads /\ w # Main /\ w \in Nat
        /\ Top(Main).n + 1 = w
    BY Crew DEF SpawnWorker, At, Top
  <1>2. /\ f \in FrameType /\ f.pc = (IF w = WorkerCount THEN "awaitWorkers" ELSE "spawn") /\ f.n = w
        /\ g \in FrameType /\ g.pc = "ready"
    BY <1>1 DEF Frame, FrameType, Labels
  <1>3. Fits(Main, f, 1) /\ Fits(w, g, 1)
    BY <1>1, <1>2 DEF Fits, MainBottom, WorkerBottom
  <1>4. stack' = [stack EXCEPT ![Main] = <<f>>, ![w] = <<g>>]
    BY DEF SpawnWorker
  <1>5. stack \in [Threads -> Seq(FrameType)] /\ Stacked /\ Life
    BY DEF StackInv, StackType
  <1> HIDE DEF f, g
  <1>6. /\ stack' \in [Threads -> Seq(FrameType)]
        /\ stack'[Main] = <<f>> /\ stack'[w] = <<g>>
        /\ \A u \in Threads \ {Main, w} : stack'[u] = stack[u]
    <2>1. <<f>> \in Seq(FrameType) /\ <<g>> \in Seq(FrameType)
      BY <1>2
    <2> QED
      BY <1>1, <1>4, <1>5, <2>1, Crew
  <1>7. StackType' /\ Stacked'
    <2>1. \A u \in Threads : \/ stack'[u] = stack[u]
                             \/ stack'[u] = <<>>
                             \/ \E k \in FrameType : stack'[u] = <<k>> /\ Fits(u, k, 1)
      BY <1>2, <1>3, <1>6
    <2> QED
      BY <1>5, <1>6, <2>1, FirstFrames DEF StackType
  <1>8. /\ Phase(Main) = "spawn" /\ Number(Main) = w - 1
    BY <1>1, Crew, OnlyFrame DEF PhaseAt, Milestones, FrameType
  <1>9. /\ Phase(Main)' = (IF w = WorkerCount THEN "awaitWorkers" ELSE "spawn") /\ Number(Main)' = w
        /\ Phase(w)' = "ready"
    BY <1>1, <1>2, <1>6, Crew, PhaseAfter DEF PhaseAt, Milestones
  <1>10. \A u \in Workers : u # w => Phase(u)' = Phase(u)
    BY <1>6, Crew, PhaseAfter
  <1>11. Phase(w) = "unborn"
    BY <1>1, <1>5, <1>8 DEF Life
  <1>12. Reported' = Reported /\ ~Past /\ ~Past'
    BY <1>8, <1>9, <1>10, <1>11 DEF Reported, Past
  <1>13. Life'
    <2>1. Phase(Main)' = "spawn" => Number(Main)' \in 0 .. WorkerCount - 1
      BY <1>9, Crew
    <2>2. \A u \in Workers : Phase(u)' = "unborn" <=> Phase(Main)' = "spawn" /\ Number(Main)' < u
      <3> TAKE u \in Workers
      <3>1. u \in 1 .. WorkerCount
        BY Crew
      <3>2. Phase(u) = "unborn" <=> w - 1 < u
        BY <1>5, <1>8 DEF Life
      <3>3. CASE u = w
        BY <1>1, <1>9, <3>3
      <3>4. CASE u # w
        BY <1>1, <1>9, <1>10, <3>1, <3>2, <3>4, Crew
      <3> QED
        BY <3>3, <3>4
    <2>3. workersReady' = 1 - WorkerCount + Cardinality(Reported') - (IF Past' THEN 1 ELSE 0)
      BY <1>5, <1>12 DEF Life, SpawnWorker, semVars
    <2> QED
      BY <1>9, <1>12, <2>1, <2>2, <2>3 DEF Life
  <1> QED
    BY <1>7, <1>13 DEF StackInv

\* The only frame of a thread is replaced by another first frame.
LEMMA OneReplaced ==
  ASSUME StackInv, NEW t \in Threads, stack[t] # <<>>, Tail(stack[t]) = <<>>,
         NEW f \in FrameType, Fits(t, f, 1), Replace(t, <<f>>)
  PROVE  /\ StackType' /\ Stacked' /\ stack'[t] = <<f>>
         /\ \A u \in Threads : u # t => stack'[u] = stack[u]
         /\ \A u \in Threads : u # t => Phase(u)' = Phase(u) /\ Number(u)' = Number(u)
  <1>1. stack \in [Threads -> Seq(FrameType)] /\ Stacked /\ StackType
    BY DEF StackInv, StackType
  <1>2. stack' = [stack EXCEPT ![t] = <<f>>]
    <2>1. <<f>> \o <<>> = <<f>>
      OBVIOUS
    <2> QED
      BY <1>1, <2>1 DEF Replace
  <1>3. stack' \in [Threads -> Seq(FrameType)] /\ stack'[t] = <<f>>
        /\ \A u \in Threads : u # t => stack'[u] = stack[u]
    BY <1>1, <1>2
  <1>4. \A u \in Threads : \/ stack'[u] = stack[u]
                           \/ stack'[u] = <<>>
                           \/ \E k \in FrameType : stack'[u] = <<k>> /\ Fits(u, k, 1)
    BY <1>3
  <1>5. StackType' /\ Stacked'
    BY <1>1, <1>3, <1>4, FirstFrames
  <1> QED
    BY <1>3, <1>5, PhaseAfter

\* The only frame of a thread is left: the thread has ended.
LEMMA OneEnded ==
  ASSUME StackInv, NEW t \in Threads, stack[t] # <<>>, Tail(stack[t]) = <<>>, Leave(t)
  PROVE  /\ StackType' /\ Stacked' /\ stack'[t] = <<>>
         /\ \A u \in Threads : u # t => stack'[u] = stack[u]
         /\ \A u \in Threads : u # t => Phase(u)' = Phase(u) /\ Number(u)' = Number(u)
         /\ Phase(t)' = "gone"
  <1>1. stack \in [Threads -> Seq(FrameType)] /\ Stacked /\ StackType
    BY DEF StackInv, StackType
  <1>2. stack' = [stack EXCEPT ![t] = <<>>]
    <2>1. <<>> \o <<>> = <<>>
      OBVIOUS
    <2> QED
      BY <1>1, <2>1 DEF Replace, Leave
  <1>3. stack' \in [Threads -> Seq(FrameType)] /\ stack'[t] = <<>>
        /\ \A u \in Threads : u # t => stack'[u] = stack[u]
    BY <1>1, <1>2
  <1>4. \A u \in Threads : \/ stack'[u] = stack[u]
                           \/ stack'[u] = <<>>
                           \/ \E k \in FrameType : stack'[u] = <<k>> /\ Fits(u, k, 1)
    BY <1>3
  <1>5. StackType' /\ Stacked'
    BY <1>1, <1>3, <1>4, FirstFrames
  <1> QED
    BY <1>3, <1>5, PhaseAfter

----------------------------------------------------------------------------
(* The lives of the threads.                                               *)

\* A worker that reports itself ready is counted in workersReady.
LEMMA ReadyKeeps ==
  ASSUME StackInv, NEW w \in Workers, ReportReady(w)
  PROVE  StackInv'
  <1> DEFINE f == [Top(w) EXCEPT !.pc = "loop"]
  <1>1. stack[w] # <<>> /\ Top(w).pc = "ready" /\ w \in Threads /\ w # Main
    BY Crew DEF ReportReady, At, Top
  <1>2. Tail(stack[w]) = <<>> /\ Phase(w) = "ready" /\ Top(w) \in FrameType
    BY <1>1, OnlyFrame DEF PhaseAt, Milestones
  <1>3. f \in FrameType /\ f.pc = "loop"
    BY <1>2 DEF FrameType, Labels
  <1>4. Fits(w, f, 1) /\ Replace(w, <<f>>)
    BY <1>1, <1>3 DEF Fits, WorkerBottom, ReportReady, Become
  <1> HIDE DEF f
  <1>5. /\ StackType' /\ Stacked' /\ stack'[w] = <<f>>
        /\ \A u \in Threads : u # w => Phase(u)' = Phase(u) /\ Number(u)' = Number(u)
    BY <1>1, <1>2, <1>3, <1>4, OneReplaced
  <1>6. Phase(w)' = "on"
    BY <1>1, <1>3, <1>5, PhaseAfter DEF PhaseAt, Milestones
  <1>7. /\ Phase(Main)' = Phase(Main) /\ Number(Main)' = Number(Main)
        /\ \A u \in Workers : u # w => Phase(u)' = Phase(u)
    BY <1>1, <1>5, Crew
  <1>8. Life
    BY DEF StackInv
  <1>9. w \notin Reported /\ Reported' = Reported \union {w} /\ ~Past /\ ~Past'
    BY <1>2, <1>6, <1>7, <1>8 DEF Reported, Past, Life
  <1>10. Cardinality(Reported') = Cardinality(Reported) + 1 /\ Cardinality(Reported) \in Nat
    BY <1>9, ReportedFinite, FS_AddElement
  <1>11. workersReady' = workersReady + 1 /\ WorkerCount \in Nat
    BY Crew DEF ReportReady
  <1>12. Life'
    <2>1. workersReady' = 1 - WorkerCount + Cardinality(Reported') - (IF Past' THEN 1 ELSE 0)
      BY <1>8, <1>9, <1>10, <1>11 DEF Life
    <2>2. \A u \in Workers : Phase(u)' = "unborn" <=> Phase(Main)' = "spawn" /\ Number(Main)' < u
      BY <1>2, <1>6, <1>7, <1>8 DEF Life
    <2>3. Phase(Main)' \in {"spawn", "awaitWorkers"} /\ (Phase(Main)' = "spawn" => Number(Main)' \in 0 .. WorkerCount - 1)
      BY <1>7, <1>8, <1>9 DEF Life, Past
    <2> QED
      BY <1>9, <2>1, <2>2, <2>3 DEF Life
  <1> QED
    BY <1>5, <1>12 DEF StackInv

\* initialize goes on only when every worker has been counted.
LEMMA AwaitKeeps ==
  ASSUME StackInv, AwaitWorkers
  PROVE  StackInv'
  <1> DEFINE f == Frame("script", Null, 0)
  <1>1. stack[Main] # <<>> /\ Top(Main).pc = "awaitWorkers" /\ Main \in Threads
    BY Crew DEF AwaitWorkers, At, Top
  <1>2. Tail(stack[Main]) = <<>> /\ Phase(Main) = "awaitWorkers"
    BY <1>1, OnlyFrame DEF PhaseAt, Milestones
  <1>3. f \in FrameType /\ f.pc = "script" /\ f.job = Null
    BY DEF Frame, FrameType, Labels
  <1>4. Fits(Main, f, 1) /\ Replace(Main, <<f>>)
    BY <1>3 DEF Fits, MainBottom, AwaitWorkers
  <1> HIDE DEF f
  <1>5. /\ StackType' /\ Stacked' /\ stack'[Main] = <<f>>
        /\ \A u \in Threads : u # Main => Phase(u)' = Phase(u) /\ Number(u)' = Number(u)
    BY <1>1, <1>2, <1>3, <1>4, OneReplaced
  <1>6. Phase(Main)' = "on"
    BY <1>1, <1>3, <1>5, PhaseAfter DEF PhaseAt, Milestones
  <1>7. \A u \in Workers : Phase(u)' = Phase(u)
    BY <1>5, Crew
  <1>8. Life
    BY DEF StackInv
  <1>9. Reported' = Reported /\ ~Past /\ Past'
    BY <1>2, <1>6, <1>7 DEF Reported, Past
  <1>10. workersReady > 0 /\ workersReady' = workersReady - 1
    BY DEF AwaitWorkers
  <1>11. Reported = Workers
    <2>1. workersReady = 1 - WorkerCount + Cardinality(Reported)
      BY <1>8, <1>9, ReportedFinite, Crew DEF Life
    <2>2. Cardinality(Reported) = WorkerCount
      BY <1>10, <2>1, ReportedFinite, Crew
    <2>3. Reported \subseteq Workers
      BY DEF Reported
    <2> QED
      BY <2>2, <2>3, Crew, FS_Subset
  <1>12. Life'
    <2>1. workersReady' = 1 - WorkerCount + Cardinality(Reported') - (IF Past' THEN 1 ELSE 0)
      BY <1>8, <1>9, <1>10, ReportedFinite, Crew DEF Life
    <2>2. \A u \in Workers : Phase(u)' # "unborn"
      BY <1>2, <1>7, <1>8 DEF Life
    <2> QED
      BY <1>6, <1>9, <1>11, <2>1, <2>2 DEF Life
  <1> QED
    BY <1>5, <1>12 DEF StackInv

\* A worker that leaves its loop is gone for good.
LEMMA ExitKeeps ==
  ASSUME StackInv, NEW w \in Workers, LoopCheck(w), ~active
  PROVE  StackInv'
  <1>1. stack[w] # <<>> /\ Top(w).pc = "loop" /\ w \in Threads /\ w # Main /\ Leave(w)
    BY Crew DEF LoopCheck, At, Top
  <1>2. Tail(stack[w]) = <<>> /\ Phase(w) = "on"
    BY <1>1, OnlyFrame DEF PhaseAt, Milestones
  <1>3. /\ StackType' /\ Stacked' /\ Phase(w)' = "gone"
        /\ \A u \in Threads : u # w => Phase(u)' = Phase(u) /\ Number(u)' = Number(u)
    BY <1>1, <1>2, OneEnded
  <1>4. /\ Phase(Main)' = Phase(Main) /\ Number(Main)' = Number(Main)
        /\ \A u \in Workers : u # w => Phase(u)' = Phase(u)
    BY <1>1, <1>3, Crew
  <1>5. Life /\ workersReady' = workersReady
    BY DEF StackInv, LoopCheck, semVars
  <1>6. Reported' = Reported /\ Past' = Past
    BY <1>2, <1>3, <1>4 DEF Reported, Past
  <1>7. Life'
    <2>1. \A u \in Workers : Phase(u)' = "unborn" <=> Phase(Main)' = "spawn" /\ Number(Main)' < u
      BY <1>2, <1>3, <1>4, <1>5 DEF Life
    <2>2. \A u \in Workers : Phase(u) = "gone" => Phase(u)' = "gone"
      BY <1>3, <1>4
    <2> QED
      BY <1>4, <1>5, <1>6, <2>1, <2>2 DEF Life
  <1> QED
    BY <1>3, <1>7 DEF StackInv

\* The first join of shutdown: nobody has been joined so far.
LEMMA JoinStartKeeps ==
  ASSUME StackInv, WakeWorker, Top(Main).n = WorkerCount
  PROVE  StackInv'
  <1> DEFINE f == Frame("join", Null, 1)
  <1>1. stack[Main] # <<>> /\ Top(Main).pc = "wake" /\ Main \in Threads
    BY Crew DEF WakeWorker, At, Top
  <1>2. Tail(stack[Main]) = <<>> /\ Phase(Main) = "on"
    BY <1>1, OnlyFrame DEF PhaseAt, Milestones
  <1>3. f \in FrameType /\ f.pc = "join" /\ f.n = 1
    BY DEF Frame, FrameType, Labels
  <1>4. Fits(Main, f, 1) /\ Replace(Main, <<f>>)
    BY <1>3 DEF Fits, MainBottom, WakeWorker
  <1> HIDE DEF f
  <1>5. /\ StackType' /\ Stacked' /\ stack'[Main] = <<f>>
        /\ \A u \in Threads : u # Main => Phase(u)' = Phase(u) /\ Number(u)' = Number(u)
    BY <1>1, <1>2, <1>3, <1>4, OneReplaced
  <1>6. Phase(Main)' = "join" /\ Number(Main)' = 1
    BY <1>1, <1>3, <1>5, PhaseAfter DEF PhaseAt, Milestones
  <1>7. \A u \in Workers : Phase(u)' = Phase(u)
    BY <1>5, Crew
  <1>8. Life /\ workersReady' = workersReady
    BY DEF StackInv, WakeWorker
  <1>9. Reported' = Reported /\ Past /\ Past'
    BY <1>2, <1>6, <1>7 DEF Reported, Past
  <1>10. Life'
    <2>1. \A u \in Workers : Phase(u)' # "unborn"
      BY <1>2, <1>7, <1>8 DEF Life
    <2>2. 1 \in Workers /\ \A u \in Workers : ~(u < 1)
      BY Crew
    <2> QED
      BY <1>6, <1>8, <1>9, <2>1, <2>2 DEF Life
  <1> QED
    BY <1>5, <1>10 DEF StackInv

\* A join that returns: one more worker is known to be gone.
LEMMA JoinKeeps ==
  ASSUME StackInv, JoinWorker
  PROVE  StackInv'
  <1> DEFINE n == Top(Main).n
             f == Advanced(Main)
  <1>1. /\ stack[Main] # <<>> /\ Top(Main).pc = "join" /\ Main \in Threads
        /\ stack[n] = <<>> /\ Life /\ workersReady' = workersReady
    BY Crew DEF JoinWorker, At, Top, StackInv, semVars
  <1>2. Tail(stack[Main]) = <<>> /\ Phase(Main) = "join" /\ Number(Main) = n /\ Top(Main) \in FrameType
    BY <1>1, OnlyFrame DEF PhaseAt, Milestones
  <1>3. n \in Workers /\ n \in 1 .. WorkerCount /\ Phase(n) = "gone"
    BY <1>1, <1>2, Crew DEF Life, Phase
  <1>4. Past /\ \A u \in Workers : u <= n => Phase(u) = "gone"
    <2>1. \A u \in Workers : u < n => Phase(u) = "gone"
      BY <1>1, <1>2 DEF Life
    <2>2. \A u \in Workers : u <= n => u = n \/ u < n
      BY <1>3, Crew
    <2> QED
      BY <1>2, <1>3, <2>1, <2>2 DEF Past
  <1>5. \A u \in Workers : Phase(u) # "unborn"
    BY <1>1, <1>2 DEF Life
  <1>6. CASE n = WorkerCount
    <2>1. /\ StackType' /\ Stacked' /\ Phase(Main)' = "gone"
          /\ \A u \in Threads : u # Main => Phase(u)' = Phase(u) /\ Number(u)' = Number(u)
      BY <1>1, <1>2, <1>6, OneEnded DEF JoinWorker
    <2>2. \A u \in Workers : Phase(u)' = Phase(u)
      BY <2>1, Crew
    <2>3. Reported' = Reported /\ Past' = Past
      BY <1>4, <2>1, <2>2 DEF Reported, Past
    <2>4. \A u \in Workers : Phase(u)' = "gone"
      BY <1>3, <1>4, <1>6, <2>2, Crew
    <2>5. Life'
      BY <1>1, <1>4, <2>1, <2>3, <2>4 DEF Life
    <2> QED
      BY <2>1, <2>5 DEF StackInv
  <1>7. CASE n # WorkerCount
    <2>1. f \in FrameType /\ f.pc = "join" /\ f.n = n + 1
      BY <1>1, <1>2 DEF Advanced, FrameType
    <2>2. Fits(Main, f, 1) /\ Replace(Main, <<f>>)
      BY <1>7, <2>1 DEF Fits, MainBottom, JoinWorker
    <2> HIDE DEF f, n
    <2>3. /\ StackType' /\ Stacked' /\ stack'[Main] = <<f>>
          /\ \A u \in Threads : u # Main => Phase(u)' = Phase(u) /\ Number(u)' = Number(u)
      BY <1>1, <1>2, <2>1, <2>2, OneReplaced
    <2>4. Phase(Main)' = "join" /\ Number(Main)' = n + 1
      BY <1>1, <2>1, <2>3, PhaseAfter DEF PhaseAt, Milestones
    <2>5. \A u \in Workers : Phase(u)' = Phase(u)
      BY <2>3, Crew
    <2>6. Reported' = Reported /\ Past' = Past
      BY <1>2, <2>4, <2>5 DEF Reported, Past
    <2>7. n + 1 \in Workers /\ \A u \in Workers : u < n + 1 => Phase(u)' = "gone"
      BY <1>3, <1>4, <1>7, <2>5, Crew
    <2>8. Life'
      BY <1>1, <1>4, <1>5, <2>4, <2>5, <2>6, <2>7 DEF Life
    <2> QED
      BY <2>3, <2>8 DEF StackInv
  <1> QED
    BY <1>6, <1>7

\* Before initialize has started a worker, the stacks are as they should be.
LEMMA StackInvInit == Init => StackInv
  <1> SUFFICES ASSUME Init
               PROVE  StackInv
    OBVIOUS
  <1> DEFINE f(t) == Frame(IF t = Main THEN "spawn" ELSE "unborn", Null, 0)
  <1>1. stack = [t \in Threads |-> <<f(t)>>]
    BY DEF Init
  <1>2. \A t \in Threads : f(t) \in FrameType /\ f(t).pc = (IF t = Main THEN "spawn" ELSE "unborn") /\ f(t).n = 0
    BY DEF Frame, FrameType, Labels
  <1> HIDE DEF f
  <1>3. StackType
    <2>1. \A t \in Threads : <<f(t)>> \in Seq(FrameType)
      BY <1>2
    <2> QED
      BY <1>1, <2>1 DEF StackType
  <1>4. Stacked
    <2> SUFFICES ASSUME NEW t \in Threads, NEW h \in 1 .. Len(stack[t])
                 PROVE  /\ Fits(t, F(stack[t], h), h)
                        /\ h < Len(stack[t]) => F(stack[t], h).pc \in Below
      BY DEF Stacked
    <2>1. stack[t] = <<f(t)>> /\ Len(stack[t]) = 1
      BY <1>1
    <2>2. h = 1 /\ F(stack[t], h) = f(t)
      BY <2>1 DEF F
    <2>3. Fits(t, f(t), 1)
      BY <1>2 DEF Fits, MainBottom, WorkerBottom
    <2> QED
      BY <2>1, <2>2, <2>3
  <1>5. \A t \in Threads : Phase(t) = (IF t = Main THEN "spawn" ELSE "unborn") /\ Number(t) = 0
    <2> TAKE t \in Threads
    <2>1. stack[t] = <<f(t)>> /\ F(stack[t], 1) = f(t) /\ stack[t] # <<>>
      BY <1>1 DEF F
    <2> QED
      BY <1>2, <2>1 DEF Phase, Number, Milestones
  <1>6. Life
    <2>1. Reported = {} /\ ~Past
      BY <1>5, Crew DEF Reported, Past
    <2>2. Cardinality({}) = 0
      BY FS_EmptySet
    <2>3. workersReady = 1 - WorkerCount
      BY DEF Init
    <2> QED
      BY <1>5, <2>1, <2>2, <2>3, Crew DEF Life
  <1> QED
    BY <1>3, <1>4, <1>6 DEF StackInv

\* A step that moves no thread keeps the invariant of the stacks.
LEMMA StackSame ==
  StackInv /\ UNCHANGED <<stack, workersReady>> => StackInv'
  <1> SUFFICES ASSUME StackInv, stack' = stack, workersReady' = workersReady
               PROVE  StackInv'
    OBVIOUS
  <1>1. StackType' /\ Stacked'
    BY DEF StackInv, StackType, Stacked, Fits, F
  <1>2. \A u \in Threads : Phase(u)' = Phase(u) /\ Number(u)' = Number(u)
    BY DEF Phase, Number, F
  <1> QED
    BY <1>1, <1>2, LifeSame DEF StackInv

\* So does every step that each thread may take,
LEMMA StepKeepsStack ==
  ASSUME StackInv, NEW t \in Threads, Step(t)
  PROVE  StackInv'
  <1>1. ASSUME NEW j \in Jobs, CreateJob(t, j) \/ RunJob(t, j) \/ CallWait(t, j)
        PROVE  StackInv'
    BY <1>1, CallMoves, OrdinaryKeeps DEF CreateJob, RunJob, CallWait, semVars
  <1>2. CASE NotifyJobReady(t) \/ NotifyAll(t)
    BY <1>2, NotifyMoves, OrdinaryKeeps DEF NotifyJobReady, NotifyAll
  <1>3. CASE WaitCheck(t) \/ WaitBlock(t)
    BY <1>3, WaitMoves, OrdinaryKeeps DEF WaitCheck, WaitBlock, semVars
  <1>4. CASE GetJob(t) \/ StealJob(t)
    BY <1>4, GetMoves, OrdinaryKeeps DEF GetJob, StealJob, semVars
  <1>5. CASE Popped(t) \/ Stolen(t)
    <2>1. workersReady' = workersReady
      BY <1>5 DEF Popped, Stolen, Found, FoundJunk, semVars
    <2>2. CASE ~FoundJunk(t)
      BY <1>5, <2>1, <2>2, GetMoves, OrdinaryKeeps
    <2>3. CASE FoundJunk(t)
      BY <2>1, <2>3, StackSame DEF FoundJunk
    <2> QED
      BY <2>2, <2>3
  <1>6. CASE QueueStep(t)
    BY <1>6, StackSame DEF QueueStep, semVars
  <1>7. CASE JobReturns(t) \/ Finish(t)
    BY <1>7, ReturnMoves, OrdinaryKeeps DEF JobReturns, Finish, semVars
  <1> QED
    BY <1>1, <1>2, <1>3, <1>4, <1>5, <1>6, <1>7 DEF Step

\* and every step of the program.
LEMMA StackInvKept == StackInv /\ [Next]_vars => StackInv'
  <1> SUFFICES ASSUME StackInv, [Next]_vars
               PROVE  StackInv'
    OBVIOUS
  <1>1. ASSUME NEW w \in Workers, SpawnWorker(w)
        PROVE  StackInv'
    BY <1>1, SpawnKeeps
  <1>2. CASE AwaitWorkers
    BY <1>2, AwaitKeeps
  <1>3. CASE StopWorkers \/ (WakeWorker /\ Top(Main).n # WorkerCount)
    BY <1>3, MainMoves, OrdinaryKeeps, Crew DEF StopWorkers, WakeWorker, semVars
  <1>4. CASE WakeWorker /\ Top(Main).n = WorkerCount
    BY <1>4, JoinStartKeeps
  <1>5. CASE JoinWorker
    BY <1>5, JoinKeeps
  <1>6. ASSUME NEW w \in Workers, ReportReady(w)
        PROVE  StackInv'
    BY <1>6, ReadyKeeps
  <1>7. ASSUME NEW w \in Workers, LoopCheck(w)
        PROVE  StackInv'
    <2>1. w \in Threads /\ workersReady' = workersReady
      BY <1>7, Crew DEF LoopCheck, semVars
    <2>2. CASE active
      BY <1>7, <2>1, <2>2, LoopMoves, OrdinaryKeeps
    <2>3. CASE ~active
      BY <1>7, <2>3, ExitKeeps
    <2> QED
      BY <2>2, <2>3
  <1>8. ASSUME NEW w \in Workers, LoopBlock(w)
        PROVE  StackInv'
    BY <1>8, LoopMoves, OrdinaryKeeps, Crew DEF LoopBlock
  <1>9. ASSUME NEW t \in Threads, Step(t)
        PROVE  StackInv'
    BY <1>9, StepKeepsStack
  <1>10. CASE UNCHANGED vars
    BY <1>10, StackSame DEF vars, semVars
  <1> QED
    BY <1>1, <1>2, <1>3, <1>4, <1>5, <1>6, <1>7, <1>8, <1>9, <1>10, Crew
    DEF Next, MainStep, WorkerStep

\* initialize and shutdown bracket the lives of the workers.
THEOREM WorkersAreBracketed == Spec => []WorkersBracketed
  <1>1. StackInv => WorkersBracketed
    <2> SUFFICES ASSUME StackInv
                 PROVE  WorkersBracketed
      OBVIOUS
    <2>0. /\ stack \in [Threads -> Seq(FrameType)] /\ Life /\ Stacked
          /\ Main \in Threads /\ Workers \subseteq Threads
      BY Crew DEF StackInv, StackType
    <2>1. stack[Main] = <<>> => \A w \in Workers : stack[w] = <<>>
      <3>1. \A w \in Threads : Phase(w) = "gone" <=> stack[w] = <<>>
        BY DEF Phase, Milestones
      <3> QED
        BY <2>0, <3>1 DEF Life
    <2>2. ASSUME NEW n \in 1 .. Len(stack[Main]), stack[Main][n].pc \in {"script", "wake"},
                 NEW w \in Workers, stack[w] # <<>>
          PROVE  stack[w][Len(stack[w])].pc \notin {"unborn", "ready"}
      <3>1. /\ Len(stack[Main]) \in Nat /\ stack[Main] # <<>>
            /\ Len(stack[w]) \in Nat
        BY <2>0, <2>2
      <3>2. F(stack[w], 1) = stack[w][Len(stack[w])]
        BY <3>1 DEF F
      <3>3. F(stack[Main], Len(stack[Main]) - n + 1) = stack[Main][n]
            /\ Len(stack[Main]) - n + 1 \in 1 .. Len(stack[Main])
        BY <2>2, <3>1 DEF F
      <3>4. Past
        <4>1. CASE Len(stack[Main]) - n + 1 = 1
          BY <2>2, <3>1, <3>3, <4>1 DEF Past, Phase, Milestones
        <4>2. CASE Len(stack[Main]) - n + 1 # 1
          <5>1. 1 < Len(stack[Main]) /\ 1 \in 1 .. Len(stack[Main])
            BY <2>2, <3>1, <3>3, <4>2
          <5>2. F(stack[Main], 1).pc \in Below
            BY <2>0, <5>1 DEF Stacked
          <5> QED
            BY <3>1, <5>2 DEF Past, Phase, Milestones, Below
        <4> QED
          BY <4>1, <4>2
      <3>5. w \in Reported
        BY <2>0, <2>2, <3>4 DEF Life
      <3> QED
        BY <2>2, <3>2, <3>5 DEF Reported, Phase, Milestones
    <2> QED
      BY <2>1, <2>2 DEF WorkersBracketed
  <1> QED
    BY <1>1, StackInvInit, StackInvKept, PTL DEF Spec

----------------------------------------------------------------------------
(* The jobs, over the queues that module WorkStealingQueueProofs is about. *)

QP == INSTANCE WorkStealingQueueProofs WITH Owners <- Threads

\* The top frame of stack s is at one of these labels; it runs job k at height h.
TopIn(s, pcs) == s # <<>> /\ Head(s).pc \in pcs
Runs(s, h, k) == h \in 1 .. Len(s) /\ F(s, h).pc = "script" /\ F(s, h).job = k

\* The pointer that a thread has in hand, from its place in the queue's code, its
\* stack and its variable job.
Hand(place, s, j) ==
  IF place = "popStore" \/ (place = "idle" /\ TopIn(s, {"popped", "stolen"})) THEN j ELSE Null

PopPlaces   == {"popTop", "popCas", "popStore", "popReset"}
StealPlaces == {"stealBottom", "stealRead", "stealCas"}

\* A queue operation is under way in the frame that started it.
MidQueue ==
  \A t \in Threads :
    /\ at[t] = "pushStore" => TopIn(stack[t], {"jobReady"})
    /\ at[t] \in PopPlaces => TopIn(stack[t], {"popped"})
    /\ at[t] \in StealPlaces => TopIn(stack[t], {"stolen"})
    /\ at[t] = "popReset" => job[t] = Null

\* The children of j that are not complete, the threads about to count j down, and
\* the threads that have j in hand.
AtFinish(s, k)        == TopIn(s, {"finish"}) /\ Head(s).job = k
OpenChildren(c, u, j) == {i \in c : Parent[i] = j /\ u[i] # 0}
Finishing(s, j)       == {t \in Threads : AtFinish(s[t], j)}
Holders(p, s, h, j)   == {t \in Threads : Hand(p[t], s[t], h[t]) = j}

Families ==
  /\ IsFiniteSet(created)
  /\ \A c \in created : Parent[c] # NoParent => Parent[c] \in created /\ Parent[c] # c
  /\ \A q \in Threads : pushed[q] \subseteq created
  /\ \A j \in Jobs : Finishing(stack, j) # {} => j \in created

\* unfinished_jobs counts the function that has not returned, the children that
\* are not complete and the threads about to count it down.
Balanced ==
  \A j \in created :
    unfinished[j] = (1 - returned[j]) + Cardinality(OpenChildren(created, unfinished, j))
                      + Cardinality(Finishing(stack, j))

\* A function that runs was called once and has not returned, and it runs in one
\* place.
Scripts ==
  \A k \in Jobs :
    /\ returned[k] <= started[k]
    /\ \A t \in Threads : \A h \in Nat : Runs(stack[t], h, k) =>
         /\ started[k] = 1 /\ returned[k] = 0
         /\ \A u \in Threads : \A i \in Nat : Runs(stack[u], i, k) => u = t /\ i = h

\* A job taken from a queue was called or is in somebody's hands.
Accounted ==
  \A j \in Jobs : taken[j] = started[j] + Cardinality(Holders(at, stack, job, j))

JobsType ==
  /\ unfinished \in [Jobs -> Int]
  /\ started \in [Jobs -> Nat]
  /\ returned \in [Jobs -> Nat]
  /\ created \subseteq Jobs

UpsetType == upset \in [Threads -> SUBSET {"lost_race", "overrun"}]

JobsHold == Families /\ Balanced /\ Scripts /\ Accounted

JobInv ==
  /\ StackInv /\ MidQueue /\ JobsType /\ QP!QueueInv
  /\ Healthy => JobsHold


\* The queues' own assumption follows from the job system's.
LEMMA QueueFacts == QP!QueueAssumption
  <1>1. \A x : x \in Nat \ {0} => x \in Nat \ {0}
    OBVIOUS
  <1> QED
    BY JobSystemAssumption DEF QP!QueueAssumption

\* Both instances of the queues name the same steps.
LEMMA QueueTerms ==
  /\ Q!Next <=> QP!Next
  /\ Q!vars = QP!vars
  BY DEF Q!vars, Q!queueVars, Q!localVars, Q!history, Q!Slot, Q!Goto, Q!Return, Q!Done,
         Q!Take, Q!PushWrite, Q!PushStore, Q!PopDecrement, Q!PopLoadTop, Q!PopCas,
         Q!PopStore, Q!PopReset, Q!StealLoadTop, Q!StealLoadBottom, Q!StealRead,
         Q!StealCas, Q!Continue, Q!Fresh, Q!Next, QP!vars, QP!queueVars, QP!localVars,
         QP!history, QP!Slot, QP!Goto, QP!Return, QP!Done, QP!Take, QP!PushWrite,
         QP!PushStore, QP!PopDecrement, QP!PopLoadTop, QP!PopCas, QP!PopStore, QP!PopReset,
         QP!StealLoadTop, QP!StealLoadBottom, QP!StealRead, QP!StealCas, QP!Continue,
         QP!Fresh, QP!Next

\* Both instances of the queues start alike.
LEMMA QueueInit == Q!Init => QP!Init
  BY DEF Q!Init, QP!Init, Q!Slots, QP!Slots

\* What a step of the job system does to the queues.
LEMMA QueueMoves ==
  ASSUME StackInv, [Next]_vars
  PROVE  \/ UNCHANGED queueVars
         \/ \E t \in Threads, j \in Jobs : RunJob(t, j)
         \/ \E t \in Threads : Q!PopDecrement(t) \/ Q!Continue(t)
         \/ \E t \in Threads, q \in Threads : t # q /\ Q!StealLoadTop(t, q)
  <1>1. ASSUME NEW t \in Threads, GetJob(t)
        PROVE  Q!PopDecrement(t)
    BY <1>1 DEF GetJob
  <1>2. ASSUME NEW t \in Threads, StealJob(t)
        PROVE  \E q \in Threads : t # q /\ Q!StealLoadTop(t, q)
    <2>1. stack[t] # <<>> /\ Top(t).pc = "steal" /\ Main \in Threads
      BY <1>2, Crew DEF StealJob, At, Top
    <2>2. t # Main
      BY <2>1, TopFits, InnerOnly DEF Inner, MainBottom
    <2> QED
      BY <1>2, <2>1, <2>2 DEF StealJob
  <1>3. ASSUME NEW t \in Threads, QueueStep(t)
        PROVE  Q!Continue(t)
    BY <1>3 DEF QueueStep
  <1>5. ASSUME NEW t \in Threads, Popped(t) \/ Stolen(t)
        PROVE  UNCHANGED queueVars
    BY <1>5 DEF Popped, Stolen, Found, FoundJunk
  <1>6. ASSUME NEW t \in Threads, NEW j \in Jobs, CreateJob(t, j) \/ CallWait(t, j)
        PROVE  UNCHANGED queueVars
    BY <1>6 DEF CreateJob, CallWait
  <1>7. ASSUME NEW t \in Threads,
               \/ NotifyJobReady(t) \/ NotifyAll(t) \/ WaitCheck(t) \/ WaitBlock(t)
               \/ JobReturns(t) \/ Finish(t)
        PROVE  UNCHANGED queueVars
    BY <1>7 DEF NotifyJobReady, NotifyAll, WaitCheck, WaitBlock, JobReturns, Finish
  <1>8. ASSUME NEW w \in Workers,
               SpawnWorker(w) \/ ReportReady(w) \/ LoopCheck(w) \/ LoopBlock(w)
        PROVE  UNCHANGED queueVars
    BY <1>8 DEF SpawnWorker, ReportReady, LoopCheck, LoopBlock
  <1>9. CASE AwaitWorkers \/ StopWorkers \/ WakeWorker \/ JoinWorker
    BY <1>9 DEF AwaitWorkers, StopWorkers, WakeWorker, JoinWorker
  <1>10. CASE UNCHANGED vars
    BY <1>10 DEF vars
  <1>11. ASSUME NEW t \in Threads, Step(t)
         PROVE  \/ UNCHANGED queueVars
                \/ \E j \in Jobs : RunJob(t, j)
                \/ Q!PopDecrement(t) \/ Q!Continue(t)
                \/ \E q \in Threads : t # q /\ Q!StealLoadTop(t, q)
    BY <1>1, <1>2, <1>3, <1>5, <1>6, <1>7, <1>11 DEF Step
  <1> QED
    BY <1>8, <1>9, <1>10, <1>11, Crew DEF Next, MainStep, WorkerStep

\* A step of a program that keeps the contract is a step of the queues, or leaves
\* them alone.
LEMMA QueueStepped ==
  ASSUME StackInv, KeepsContract, [Next]_vars
  PROVE  [Q!Next]_queueVars
  <1>1. ASSUME NEW t \in Threads, NEW j \in Jobs, RunJob(t, j)
        PROVE  Q!Next
    <2>1. Calls(t, "run", j) /\ Q!PushWrite(t, j)
      BY <1>1 DEF RunJob
    <2>2. j \in Q!Fresh
      BY <2>1 DEF KeepsContract, Q!Fresh
    <2> QED
      BY <2>1, <2>2 DEF Q!Next
  <1> QED
    BY <1>1, QueueMoves DEF Q!Next

\* A program that keeps the contract keeps the invariant of its queues.
LEMMA QueuesKept ==
  ASSUME QP!QueueInv, StackInv, KeepsContract, [Next]_vars
  PROVE  QP!QueueInv'
  <1>1. [QP!Next]_(QP!vars)
    BY QueueStepped, QueueTerms
    DEF queueVars, QP!vars, QP!queueVars, QP!localVars, QP!history
  <1> QED
    BY <1>1, QueueFacts, QP!QueueInvKept

\* Nothing makes an upset queue healthy again.
LEMMA HealthLasts ==
  ASSUME UpsetType, StackInv, [Next]_vars
  PROVE  UpsetType' /\ (Healthy' => Healthy)
  <1>0. upset \in [Threads -> SUBSET {"lost_race", "overrun"}]
    BY DEF UpsetType
  <1>1. \/ upset' = upset
        \/ \E t \in Threads, S \in SUBSET {"lost_race", "overrun"} :
             upset' = [upset EXCEPT ![t] = @ \union S]
    <2>1. ASSUME NEW t \in Threads, NEW x \in {"lost_race", "overrun"},
                 upset' = [upset EXCEPT ![t] = @ \union {x}]
          PROVE  \E u \in Threads, S \in SUBSET {"lost_race", "overrun"} :
                   upset' = [upset EXCEPT ![u] = @ \union S]
      BY <2>1
    <2>2. ASSUME NEW t \in Threads, NEW j \in Jobs, RunJob(t, j)
          PROVE  \/ upset' = upset
                 \/ upset' = [upset EXCEPT ![t] = @ \union {"overrun"}]
      BY <2>2 DEF RunJob, Q!PushWrite
    <2>3. ASSUME NEW t \in Threads, Q!PopCas(t)
          PROVE  \/ upset' = upset
                 \/ upset' = [upset EXCEPT ![t] = @ \union {"lost_race"}]
      BY <2>3 DEF Q!PopCas
    <2>4. ASSUME NEW t \in Threads, NEW q \in Threads, Q!PopDecrement(t) \/ Q!StealLoadTop(t, q)
          PROVE  upset' = upset
      BY <2>4 DEF Q!PopDecrement, Q!StealLoadTop, Q!history
    <2>5. ASSUME NEW t \in Threads,
                 \/ Q!PushStore(t) \/ Q!PopLoadTop(t) \/ Q!PopStore(t) \/ Q!PopReset(t)
                 \/ Q!StealLoadBottom(t) \/ Q!StealRead(t) \/ Q!StealCas(t)
          PROVE  upset' = upset
      BY <2>5 DEF Q!PushStore, Q!PopLoadTop, Q!PopStore, Q!PopReset, Q!StealLoadBottom,
                  Q!StealRead, Q!StealCas, Q!history
    <2>7. CASE UNCHANGED queueVars
      BY <2>7 DEF queueVars
    <2> QED
      BY <2>1, <2>2, <2>3, <2>4, <2>5, <2>7, QueueMoves DEF Q!Continue
  <1> QED
    BY <1>0, <1>1 DEF Healthy, UpsetType

\* What the jobs need to know of the queues.
LEMMA QueueBasics ==
  ASSUME QP!QueueInv
  PROVE  /\ at \in [Threads -> {"idle", "pushStore"} \union PopPlaces \union StealPlaces]
         /\ job \in [Threads -> Jobs \union {Null, Junk}]
         /\ taken \in [Jobs -> Nat]
         /\ pushed \in [Threads -> SUBSET Jobs]
         /\ \A j \in Jobs : taken[j] > 0 => \E q \in Threads : j \in pushed[q]
         /\ Healthy => \A j \in Jobs : taken[j] <= 1
  <1>1. QP!TypeOK /\ QP!TakenPushed /\ \A q \in Threads : QP!Sound(q)
    BY DEF QP!QueueInv, QP!Basics
  <1>2. /\ at \in [Threads -> {"idle", "pushStore"} \union PopPlaces \union StealPlaces]
        /\ job \in [Threads -> Jobs \union {Null, Junk}]
        /\ taken \in [Jobs -> Nat]
        /\ pushed \in [Threads -> SUBSET Jobs]
    BY <1>1 DEF QP!TypeOK, QP!Pointers, PopPlaces, StealPlaces
  <1>3. \A j \in Jobs : taken[j] > 0 => \E q \in Threads : j \in pushed[q]
    BY <1>1, <1>2 DEF QP!TakenPushed
  <1>4. ASSUME Healthy, NEW j \in Jobs
        PROVE  taken[j] <= 1
    <2>1. CASE \E q \in Threads : j \in pushed[q]
      BY <1>1, <1>4, <2>1 DEF QP!Sound, QP!Exact, Healthy
    <2>2. CASE ~ \E q \in Threads : j \in pushed[q]
      BY <1>2, <1>3, <2>2
    <2> QED
      BY <2>1, <2>2
  <1> QED
    BY <1>2, <1>3, <1>4

\* What the rest of an operation on a queue does to its thread: it goes on, or
\* comes back with nothing, or takes a job in hand.
LEMMA ContinueFacts ==
  ASSUME QP!QueueInv, NEW t \in Threads, Q!Continue(t)
  PROVE  /\ \A u \in Threads : u # t => at'[u] = at[u] /\ job'[u] = job[u]
         /\ pushed' = pushed
         /\ at'[t] \in {"idle", "pushStore"} \union PopPlaces \union StealPlaces
         /\ at'[t] \in PopPlaces => at[t] \in PopPlaces
         /\ at'[t] \in StealPlaces => at[t] \in StealPlaces
         /\ at'[t] # "pushStore"
         /\ at'[t] = "popReset" => job'[t] = Null
         /\ \/ at[t] = "pushStore" /\ at'[t] = "idle" /\ taken' = taken
            \/ /\ at[t] \in {"popStore", "popReset"} /\ at'[t] = "idle"
               /\ job'[t] = job[t] /\ taken' = taken
            \/ /\ at[t] \in (PopPlaces \union StealPlaces) \ {"popStore", "popReset"}
               /\ at'[t] \in {"idle", "popStore"} /\ Q!Take(job'[t])
            \/ /\ at[t] \in (PopPlaces \union StealPlaces) \ {"popStore"}
               /\ at'[t] \notin {"idle", "popStore"} /\ taken' = taken
  <1> DEFINE Moved(l, j) == at' = [at EXCEPT ![t] = l] /\ job' = [job EXCEPT ![t] = j]
  <1>0. /\ at \in [Threads -> {"idle", "pushStore"} \union PopPlaces \union StealPlaces]
        /\ job \in [Threads -> Jobs \union {Null, Junk}]
        /\ Null \notin Jobs
    BY QueueBasics, JobSystemAssumption
  <1>1. job = [job EXCEPT ![t] = job[t]]
    BY <1>0
  <1>2. ASSUME NEW l, NEW j, Moved(l, j)
        PROVE  /\ at'[t] = l /\ job'[t] = j
               /\ \A u \in Threads : u # t => at'[u] = at[u] /\ job'[u] = job[u]
    BY <1>0, <1>2
  <1>3. CASE Q!PushStore(t)
    <2>1. Moved("idle", job[t]) /\ at[t] = "pushStore" /\ taken' = taken /\ pushed' = pushed
      BY <1>1, <1>3 DEF Q!PushStore, Q!Done, Q!Goto, Q!history
    <2> HIDE DEF Moved
    <2> QED
      BY <1>2, <2>1 DEF PopPlaces, StealPlaces
  <1>4. CASE Q!PopLoadTop(t)
    <2>1. at[t] = "popTop" /\ pushed' = pushed
      BY <1>4 DEF Q!PopLoadTop
    <2>2. \/ \E j : Moved("idle", j) /\ Q!Take(j)
          \/ \E j : Moved("popCas", j) /\ taken' = taken
          \/ Moved("popReset", Null) /\ taken' = taken
      BY <1>4 DEF Q!PopLoadTop, Q!Return, Q!Goto, Q!Done
    <2> HIDE DEF Moved
    <2> QED
      BY <1>2, <2>1, <2>2 DEF PopPlaces, StealPlaces
  <1>5. CASE Q!PopCas(t)
    <2>1. at[t] = "popCas" /\ pushed' = pushed
      BY <1>5 DEF Q!PopCas
    <2>2. \/ Moved("popStore", job[t]) /\ Q!Take(job[t])
          \/ Moved("popStore", Null) /\ taken' = taken
      BY <1>1, <1>5 DEF Q!PopCas, Q!Return, Q!Goto
    <2>3. taken' = taken => Q!Take(Null)
      BY <1>0 DEF Q!Take
    <2> HIDE DEF Moved
    <2> QED
      BY <1>2, <2>1, <2>2, <2>3 DEF PopPlaces, StealPlaces
  <1>6. CASE Q!PopStore(t) \/ Q!PopReset(t)
    <2>1. Moved("idle", job[t]) /\ at[t] \in {"popStore", "popReset"} /\ taken' = taken /\ pushed' = pushed
      BY <1>1, <1>6 DEF Q!PopStore, Q!PopReset, Q!Done, Q!Goto, Q!history
    <2> HIDE DEF Moved
    <2> QED
      BY <1>2, <2>1 DEF PopPlaces, StealPlaces
  <1>7. CASE Q!StealLoadBottom(t)
    <2>1. at[t] = "stealBottom" /\ pushed' = pushed /\ taken' = taken
      BY <1>7 DEF Q!StealLoadBottom, Q!history
    <2>2. \/ Moved("stealRead", job[t])
          \/ Moved("idle", Null)
      BY <1>1, <1>7 DEF Q!StealLoadBottom, Q!Return, Q!Goto, Q!Done
    <2>3. Q!Take(Null)
      BY <1>0, <2>1 DEF Q!Take
    <2> HIDE DEF Moved
    <2> QED
      BY <1>2, <2>1, <2>2, <2>3 DEF PopPlaces, StealPlaces
  <1>8. CASE Q!StealRead(t)
    <2>1. at[t] = "stealRead" /\ pushed' = pushed /\ taken' = taken /\ \E j : Moved("stealCas", j)
      BY <1>8 DEF Q!StealRead, Q!Return, Q!Goto, Q!history
    <2> HIDE DEF Moved
    <2> QED
      BY <1>2, <2>1 DEF PopPlaces, StealPlaces
  <1>9. CASE Q!StealCas(t)
    <2>1. at[t] = "stealCas" /\ pushed' = pushed
      BY <1>9 DEF Q!StealCas
    <2>2. \/ Moved("idle", job[t]) /\ Q!Take(job[t])
          \/ Moved("idle", Null) /\ taken' = taken
      BY <1>1, <1>9 DEF Q!StealCas, Q!Return, Q!Done, Q!Goto
    <2>3. taken' = taken => Q!Take(Null)
      BY <1>0 DEF Q!Take
    <2> HIDE DEF Moved
    <2> QED
      BY <1>2, <2>1, <2>2, <2>3 DEF PopPlaces, StealPlaces
  <1> QED
    BY <1>3, <1>4, <1>5, <1>6, <1>7, <1>8, <1>9 DEF Q!Continue

----------------------------------------------------------------------------
(* Quiet steps: no function starts, no countdown starts or ends, and nothing gets *)
(* into or out of anybody's hands.                                         *)

Mid(place, s, j) ==
  /\ place = "pushStore" => TopIn(s, {"jobReady"})
  /\ place \in PopPlaces => TopIn(s, {"popped"})
  /\ place \in StealPlaces => TopIn(s, {"stolen"})
  /\ place = "popReset" => j = Null

\* The stack of a thread that leaves, replaces or calls from its innermost frame.
LEMMA Heights ==
  ASSUME NEW n \in Nat \ {0}, NEW h \in Nat
  PROVE  /\ h \in 1 .. n - 1 <=> h \in 1 .. n /\ h < n
         /\ h < n \/ h = n \/ h = n + 1 \/ h > n + 1
         /\ h < n => h # n /\ h # n + 1 /\ (h \in 1 .. n + 1 <=> h \in 1 .. n)
         /\ h = n => h \in 1 .. n /\ h \in 1 .. n + 1 /\ ~(h < n) /\ h # n + 1
         /\ h = n + 1 => h \notin 1 .. n /\ h \in 1 .. n + 1 /\ ~(h < n) /\ h # n
         /\ h > n + 1 => h \notin 1 .. n /\ h \notin 1 .. n + 1 /\ ~(h < n) /\ h # n /\ h # n + 1
  OBVIOUS

\* What runs after the innermost frame was left,
LEMMA LeaveTop ==
  ASSUME NEW s \in Seq(FrameType), s # <<>>,
         \A h \in 1 .. Len(s) : h < Len(s) => F(s, h).pc \in Below,
         NEW r, r = <<>> \o Tail(s)
  PROVE  /\ \A h \in Nat, k \in Jobs : Runs(r, h, k) => Runs(s, h, k) /\ h < Len(s)
         /\ r # <<>> => Head(r).pc \in Below
  <1>1. /\ r \in Seq(FrameType) /\ Len(r) = Len(s) - 1
        /\ \A h \in 1 .. Len(s) - 1 : F(r, h) = F(s, h)
    BY LeaveHeights
  <1>2. Len(s) \in Nat \ {0} /\ Len(r) \in Nat
    BY <1>1
  <1>3. \A h \in Nat : h \in 1 .. Len(r) => h \in 1 .. Len(s) /\ h < Len(s) /\ F(r, h) = F(s, h)
    BY <1>1, <1>2
  <1>4. r # <<>> => Head(r) = F(r, Len(r)) /\ Len(r) \in 1 .. Len(r) /\ Len(r) \in Nat
    <2>1. r # <<>> => Len(r) \in Nat \ {0} /\ Head(r) = F(r, Len(r))
      BY <1>1, TopHeight
    <2>2. \A n \in Nat \ {0} : n \in 1 .. n
      OBVIOUS
    <2> QED
      BY <1>2, <2>1, <2>2
  <1> QED
    BY <1>3, <1>4 DEF Runs

\* after it was replaced,
LEMMA SwapTop ==
  ASSUME NEW s \in Seq(FrameType), s # <<>>, NEW f \in FrameType
  PROVE  LET r == <<f>> \o Tail(s) IN
         /\ r # <<>> /\ Head(r) = f
         /\ \A h \in Nat, k \in Jobs : Runs(r, h, k) <=>
              \/ h < Len(s) /\ Runs(s, h, k)
              \/ h = Len(s) /\ f.pc = "script" /\ f.job = k
  <1> DEFINE r == <<f>> \o Tail(s)
  <1>1. /\ r \in Seq(FrameType) /\ Len(r) = Len(s) /\ r # <<>> /\ Head(r) = f
        /\ F(r, Len(s)) = f
        /\ \A h \in 1 .. Len(s) - 1 : F(r, h) = F(s, h)
    BY SwapHeights
  <1>2. Len(s) \in Nat \ {0}
    OBVIOUS
  <1> HIDE DEF r
  <1>3. ASSUME NEW h \in Nat, NEW k \in Jobs
        PROVE  Runs(r, h, k) <=>
                 \/ h < Len(s) /\ Runs(s, h, k)
                 \/ h = Len(s) /\ f.pc = "script" /\ f.job = k
    <2>1. CASE h < Len(s)
      <3>1. h \in 1 .. Len(s) => F(r, h) = F(s, h)
        BY <1>1, <1>2, <2>1, Heights
      <3>2. h # Len(s)
        BY <1>2, <2>1, Heights
      <3> QED
        BY <1>1, <2>1, <3>1, <3>2 DEF Runs
    <2>2. CASE h = Len(s)
      <3>1. h \in 1 .. Len(s) /\ ~(h < Len(s))
        BY <1>2, <2>2, Heights
      <3> QED
        BY <1>1, <2>2, <3>1 DEF Runs
    <2>3. CASE h = Len(s) + 1 \/ h > Len(s) + 1
      <3>1. h \notin 1 .. Len(s) /\ ~(h < Len(s)) /\ h # Len(s)
        BY <1>2, <2>3, Heights
      <3> QED
        BY <1>1, <3>1 DEF Runs
    <2> QED
      BY <1>2, <2>1, <2>2, <2>3, Heights
  <1> QED
    BY <1>1, <1>3 DEF r

\* and after a call from it.
LEMMA PushTop ==
  ASSUME NEW s \in Seq(FrameType), s # <<>>, NEW f \in FrameType, NEW g \in FrameType
  PROVE  LET r == <<f, g>> \o Tail(s) IN
         /\ r # <<>> /\ Head(r) = f
         /\ \A h \in Nat, k \in Jobs : Runs(r, h, k) <=>
              \/ h < Len(s) /\ Runs(s, h, k)
              \/ h = Len(s) /\ g.pc = "script" /\ g.job = k
              \/ h = Len(s) + 1 /\ f.pc = "script" /\ f.job = k
  <1> DEFINE r == <<f, g>> \o Tail(s)
  <1>1. /\ r \in Seq(FrameType) /\ Len(r) = Len(s) + 1 /\ r # <<>> /\ Head(r) = f
        /\ F(r, Len(s) + 1) = f /\ F(r, Len(s)) = g
        /\ \A h \in 1 .. Len(s) - 1 : F(r, h) = F(s, h)
    BY PushHeights
  <1>2. Len(s) \in Nat \ {0}
    OBVIOUS
  <1> HIDE DEF r
  <1>3. ASSUME NEW h \in Nat, NEW k \in Jobs
        PROVE  Runs(r, h, k) <=>
                 \/ h < Len(s) /\ Runs(s, h, k)
                 \/ h = Len(s) /\ g.pc = "script" /\ g.job = k
                 \/ h = Len(s) + 1 /\ f.pc = "script" /\ f.job = k
    <2>1. CASE h < Len(s)
      <3>1. h \in 1 .. Len(s) => F(r, h) = F(s, h)
        BY <1>1, <1>2, <2>1, Heights
      <3>2. h # Len(s) /\ h # Len(s) + 1 /\ (h \in 1 .. Len(s) + 1 <=> h \in 1 .. Len(s))
        BY <1>2, <2>1, Heights
      <3> QED
        BY <1>1, <2>1, <3>1, <3>2 DEF Runs
    <2>2. CASE h = Len(s)
      <3>1. h \in 1 .. Len(s) + 1 /\ ~(h < Len(s)) /\ h # Len(s) + 1
        BY <1>2, <2>2, Heights
      <3> QED
        BY <1>1, <2>2, <3>1 DEF Runs
    <2>3. CASE h = Len(s) + 1
      <3>1. h \in 1 .. Len(s) + 1 /\ ~(h < Len(s)) /\ h # Len(s)
        BY <1>2, <2>3, Heights
      <3> QED
        BY <1>1, <2>3, <3>1 DEF Runs
    <2>4. CASE h > Len(s) + 1
      <3>1. h \notin 1 .. Len(s) + 1 /\ ~(h < Len(s)) /\ h # Len(s) /\ h # Len(s) + 1
        BY <1>2, <2>4, Heights
      <3> QED
        BY <1>1, <3>1 DEF Runs
    <2> QED
      BY <1>2, <2>1, <2>2, <2>3, <2>4, Heights
  <1> QED
    BY <1>1, <1>3 DEF r

\* Where thread t runs its innermost function.
LEMMA TopRuns ==
  ASSUME NEW s \in Seq(FrameType), s # <<>>, NEW k \in Jobs
  PROVE  Runs(s, Len(s), k) <=> Head(s).pc = "script" /\ Head(s).job = k
  BY TopHeight DEF Runs

\* Nothing that a thread runs, finishes or holds changes, but that functions may
\* have returned.
QuietCell(l, s, j, l2, s2, j2) ==
  /\ \A h \in Nat, k \in Jobs : Runs(s2, h, k) => Runs(s, h, k)
  /\ \A k \in Jobs : AtFinish(s2, k) <=> AtFinish(s, k)
  /\ \A k \in Jobs : Hand(l2, s2, j2) = k <=> Hand(l, s, j) = k
  /\ Mid(l2, s2, j2)

Quiet == \A u \in Threads : QuietCell(at[u], stack[u], job[u], at'[u], stack'[u], job'[u])

\* A step of thread t that is quiet.
QuietMove(t) ==
  /\ stack[t] # <<>>
  /\ Hand(at[t], stack[t], job[t]) \notin Jobs
  /\ Top(t).pc # "finish"
  /\ \A u \in Threads : u # t => at'[u] = at[u] /\ job'[u] = job[u]
  /\ \/ Replace(t, <<>>) /\ at'[t] = "idle"
     \/ \E f \in FrameType :
          /\ Replace(t, <<f>>)
          /\ f.pc # "finish"
          /\ f.pc = "script" /\ f.job \in Jobs => Top(t).pc = "script" /\ Top(t).job = f.job
          /\ \/ at'[t] = "idle" /\ f.pc \notin {"popped", "stolen"}
             \/ at'[t] = "popTop" /\ f.pc = "popped"
             \/ at'[t] = "stealBottom" /\ f.pc = "stolen"
     \/ \E f, g \in FrameType :
          /\ Replace(t, <<f, g>>)
          /\ f.pc \notin {"finish", "script", "popped", "stolen"}
          /\ g.pc = "script" /\ g.job \in Jobs => Top(t).pc = "script" /\ Top(t).job = g.job
          /\ at'[t] = "idle" \/ (at'[t] = "pushStore" /\ f.pc = "jobReady")

\* A quiet move is quiet for every thread.
LEMMA QuietMoves ==
  ASSUME StackInv, MidQueue, NEW t \in Threads, QuietMove(t)
  PROVE  Quiet
  <1> SUFFICES ASSUME NEW u \in Threads
               PROVE  QuietCell(at[u], stack[u], job[u], at'[u], stack'[u], job'[u])
    BY DEF Quiet
  <1>0. /\ stack \in [Threads -> Seq(FrameType)] /\ stack[t] \in Seq(FrameType) /\ stack[t] # <<>>
        /\ \A h \in 1 .. Len(stack[t]) : h < Len(stack[t]) => F(stack[t], h).pc \in Below
        /\ Top(t) = Head(stack[t]) /\ Null \notin Jobs
        /\ Len(stack[t]) \in Nat
    BY JobSystemAssumption DEF StackInv, StackType, Stacked, QuietMove, Top
  <1>1. CASE u # t
    <2>1. stack'[u] = stack[u] /\ at'[u] = at[u] /\ job'[u] = job[u]
      BY <1>0, <1>1 DEF QuietMove, Replace
    <2>2. Mid(at[u], stack[u], job[u])
      BY DEF MidQueue, Mid
    <2> QED
      BY <2>1, <2>2 DEF QuietCell
  <1>2. \A k \in Jobs : ~ AtFinish(stack[t], k)
    BY <1>0 DEF QuietMove, AtFinish, TopIn
  <1>3. ASSUME \A h \in Nat, k \in Jobs : Runs(stack'[t], h, k) => Runs(stack[t], h, k),
               stack'[t] # <<>> => Head(stack'[t]).pc # "finish",
               Hand(at'[t], stack'[t], job'[t]) \notin Jobs,
               Mid(at'[t], stack'[t], job'[t])
        PROVE  QuietCell(at[t], stack[t], job[t], at'[t], stack'[t], job'[t])
    BY <1>2, <1>3 DEF QuietCell, QuietMove, AtFinish, TopIn
  <1>4. ASSUME Replace(t, <<>>), at'[t] = "idle"
        PROVE  QuietCell(at[t], stack[t], job[t], at'[t], stack'[t], job'[t])
    <2>1. stack'[t] = <<>> \o Tail(stack[t])
      BY <1>0, <1>4 DEF Replace
    <2>2. /\ \A h \in Nat, k \in Jobs : Runs(stack'[t], h, k) => Runs(stack[t], h, k)
          /\ stack'[t] # <<>> => Head(stack'[t]).pc \in Below
      BY <1>0, <2>1, LeaveTop
    <2>3. Hand(at'[t], stack'[t], job'[t]) = Null /\ Mid(at'[t], stack'[t], job'[t])
      BY <1>4, <2>2 DEF Hand, Mid, TopIn, Below, PopPlaces, StealPlaces
    <2>4. stack'[t] # <<>> => Head(stack'[t]).pc # "finish"
      BY <2>2 DEF Below
    <2>5. Hand(at'[t], stack'[t], job'[t]) \notin Jobs
      BY <1>0, <2>3
    <2> QED
      BY <1>3, <2>2, <2>3, <2>4, <2>5
  <1>5. ASSUME NEW f \in FrameType,
               Replace(t, <<f>>),
               f.pc # "finish",
               f.pc = "script" /\ f.job \in Jobs => Top(t).pc = "script" /\ Top(t).job = f.job,
               \/ at'[t] = "idle" /\ f.pc \notin {"popped", "stolen"}
               \/ at'[t] = "popTop" /\ f.pc = "popped"
               \/ at'[t] = "stealBottom" /\ f.pc = "stolen"
        PROVE  QuietCell(at[t], stack[t], job[t], at'[t], stack'[t], job'[t])
    <2>1. stack'[t] = <<f>> \o Tail(stack[t])
      BY <1>0, <1>5 DEF Replace
    <2>2. /\ stack'[t] # <<>> /\ Head(stack'[t]) = f
          /\ \A h \in Nat, k \in Jobs : Runs(stack'[t], h, k) =>
              \/ h < Len(stack[t]) /\ Runs(stack[t], h, k)
              \/ h = Len(stack[t]) /\ f.pc = "script" /\ f.job = k
      BY <1>0, <2>1, SwapTop
    <2>3. \A h \in Nat, k \in Jobs : Runs(stack'[t], h, k) => Runs(stack[t], h, k)
      BY <1>0, <1>5, <2>2, TopRuns
    <2>4. Hand(at'[t], stack'[t], job'[t]) = Null /\ Mid(at'[t], stack'[t], job'[t])
      BY <1>5, <2>2 DEF Hand, Mid, TopIn, PopPlaces, StealPlaces
    <2> QED
      BY <1>0, <1>3, <1>5, <2>2, <2>3, <2>4
  <1>6. ASSUME NEW f \in FrameType, NEW g \in FrameType,
               Replace(t, <<f, g>>),
               f.pc \notin {"finish", "script", "popped", "stolen"},
               g.pc = "script" /\ g.job \in Jobs => Top(t).pc = "script" /\ Top(t).job = g.job,
               at'[t] = "idle" \/ (at'[t] = "pushStore" /\ f.pc = "jobReady")
        PROVE  QuietCell(at[t], stack[t], job[t], at'[t], stack'[t], job'[t])
    <2>1. stack'[t] = <<f, g>> \o Tail(stack[t])
      BY <1>0, <1>6 DEF Replace
    <2>2. /\ stack'[t] # <<>> /\ Head(stack'[t]) = f
          /\ \A h \in Nat, k \in Jobs : Runs(stack'[t], h, k) =>
              \/ h < Len(stack[t]) /\ Runs(stack[t], h, k)
              \/ h = Len(stack[t]) /\ g.pc = "script" /\ g.job = k
              \/ h = Len(stack[t]) + 1 /\ f.pc = "script" /\ f.job = k
      BY <1>0, <2>1, PushTop
    <2>3. \A h \in Nat, k \in Jobs : Runs(stack'[t], h, k) => Runs(stack[t], h, k)
      BY <1>0, <1>6, <2>2, TopRuns
    <2>4. Hand(at'[t], stack'[t], job'[t]) = Null /\ Mid(at'[t], stack'[t], job'[t])
      BY <1>6, <2>2 DEF Hand, Mid, TopIn, PopPlaces, StealPlaces
    <2> QED
      BY <1>0, <1>3, <1>6, <2>2, <2>3, <2>4
  <1>7. CASE u = t
    <2>1. CASE Replace(t, <<>>) /\ at'[t] = "idle"
      BY <1>4, <1>7, <2>1
    <2>2. CASE \E f \in FrameType :
                 /\ Replace(t, <<f>>)
                 /\ f.pc # "finish"
                 /\ f.pc = "script" /\ f.job \in Jobs => Top(t).pc = "script" /\ Top(t).job = f.job
                 /\ \/ at'[t] = "idle" /\ f.pc \notin {"popped", "stolen"}
                    \/ at'[t] = "popTop" /\ f.pc = "popped"
                    \/ at'[t] = "stealBottom" /\ f.pc = "stolen"
      BY <1>5, <1>7, <2>2
    <2>3. CASE \E f, g \in FrameType :
                 /\ Replace(t, <<f, g>>)
                 /\ f.pc \notin {"finish", "script", "popped", "stolen"}
                 /\ g.pc = "script" /\ g.job \in Jobs => Top(t).pc = "script" /\ Top(t).job = g.job
                 /\ at'[t] = "idle" \/ (at'[t] = "pushStore" /\ f.pc = "jobReady")
      BY <1>6, <1>7, <2>3
    <2> QED
      BY <2>1, <2>2, <2>3 DEF QuietMove
  <1> QED
    BY <1>1, <1>7

----------------------------------------------------------------------------
(* The actions that are quiet.                                             *)

\* Hand, read in the variables, is what the property calls the job in hand.
LEMMA HandIs == \A t \in Threads : InHand(t) = Hand(at[t], stack[t], job[t])
  BY DEF InHand, Hand, TopIn

\* A quiet step leaves queue operations in the frames that started them.
LEMMA QuietQueue ==
  ASSUME Quiet
  PROVE  MidQueue'
  BY DEF Quiet, QuietCell, MidQueue, Mid

\* A quiet step keeps what the invariant says of the jobs.
LEMMA QuietScripts ==
  ASSUME JobsHold, Quiet, UNCHANGED <<started, returned>>
  PROVE  Scripts'
  <1> SUFFICES ASSUME NEW k \in Jobs
               PROVE  /\ returned'[k] <= started'[k]
                      /\ \A t \in Threads : \A h \in Nat : Runs(stack'[t], h, k) =>
                           /\ started'[k] = 1 /\ returned'[k] = 0
                           /\ \A u \in Threads : \A i \in Nat : Runs(stack'[u], i, k) => u = t /\ i = h
    BY DEF Scripts
  <1>1. \A t \in Threads : \A h \in Nat : Runs(stack'[t], h, k) => Runs(stack[t], h, k)
    BY DEF Quiet, QuietCell
  <1> QED
    BY <1>1 DEF JobsHold, Scripts

\* In a quiet step nobody starts or ends a countdown, and no hands are filled.
LEMMA QuietSets ==
  ASSUME Quiet
  PROVE  \A k \in Jobs : /\ Finishing(stack', k) = Finishing(stack, k)
                         /\ Holders(at', stack', job', k) = Holders(at, stack, job, k)
  BY DEF Quiet, QuietCell, Finishing, Holders

\* A quiet step that counts nothing keeps everything said of the jobs.
LEMMA QuietHolds ==
  ASSUME JobsHold, JobsType, Quiet, UNCHANGED <<created, unfinished, started, returned, taken>>,
         \A q \in Threads : pushed'[q] \subseteq created
  PROVE  JobsHold'
  <1>1. Families'
    BY QuietSets DEF JobsHold, Families
  <1>2. Balanced'
    BY QuietSets DEF JobsHold, Balanced, JobsType
  <1>3. Accounted'
    BY QuietSets DEF JobsHold, Accounted
  <1> QED
    BY <1>1, <1>2, <1>3, QuietScripts DEF JobsHold

\* Between queue operations a thread has nothing in hand, but where it looks at
\* what pop or steal returned.
LEMMA EmptyHanded ==
  ASSUME NEW t \in Threads, at[t] = "idle", stack[t] # <<>>, Top(t).pc \notin {"popped", "stolen"}
  PROVE  Hand(at[t], stack[t], job[t]) \notin Jobs
  BY JobSystemAssumption DEF Hand, TopIn, Top

Idle(t) == at[t] = "idle" /\ stack[t] # <<>>

\* A frame left is quiet,
LEMMA QuietLeave ==
  ASSUME NEW t \in Threads, Idle(t), Top(t).pc # "finish",
         Top(t).pc \in {"popped", "stolen"} => job[t] \notin Jobs,
         Leave(t), UNCHANGED <<at, job>>
  PROVE  QuietMove(t)
  <1>1. Hand(at[t], stack[t], job[t]) \notin Jobs
    BY JobSystemAssumption DEF Hand, TopIn, Top, Idle
  <1> QED
    BY <1>1 DEF QuietMove, Idle, Leave

\* so is one replaced by another with nothing in hand,
LEMMA QuietSwap ==
  ASSUME NEW t \in Threads, Idle(t), Top(t).pc # "finish",
         Top(t).pc \in {"popped", "stolen"} => job[t] \notin Jobs,
         NEW f \in FrameType, Replace(t, <<f>>), UNCHANGED <<at, job>>,
         f.pc \notin {"finish", "popped", "stolen"},
         f.pc = "script" /\ f.job \in Jobs => Top(t).pc = "script" /\ Top(t).job = f.job
  PROVE  QuietMove(t)
  <1>1. Hand(at[t], stack[t], job[t]) \notin Jobs
    BY JobSystemAssumption DEF Hand, TopIn, Top, Idle
  <1> QED
    BY <1>1 DEF QuietMove, Idle

\* and so is a call of wait or run.
LEMMA QuietPush ==
  ASSUME NEW t \in Threads, Idle(t), Top(t).pc \notin {"finish", "popped", "stolen"},
         NEW f \in FrameType, NEW g \in FrameType, Replace(t, <<f, g>>),
         \A u \in Threads : u # t => at'[u] = at[u] /\ job'[u] = job[u],
         at'[t] = "idle" \/ (at'[t] = "pushStore" /\ f.pc = "jobReady"),
         f.pc \notin {"finish", "script", "popped", "stolen"},
         g.pc = "script" /\ g.job \in Jobs => Top(t).pc = "script" /\ Top(t).job = g.job
  PROVE  QuietMove(t)
  <1>1. Hand(at[t], stack[t], job[t]) \notin Jobs
    BY EmptyHanded DEF Idle
  <1> QED
    BY <1>1 DEF QuietMove, Idle

\* The quiet actions.
LEMMA CallQuiet ==
  ASSUME StackInv, QP!QueueInv, NEW t \in Threads, NEW j \in Jobs,
         CreateJob(t, j) \/ RunJob(t, j) \/ CallWait(t, j)
  PROVE  QuietMove(t)
  <1>1. Idle(t) /\ Top(t).pc = "script"
    BY DEF CreateJob, RunJob, CallWait, Calls, At, Top, Idle
  <1>2. /\ Advanced(t) \in FrameType
        /\ Advanced(t).pc = "script" /\ Advanced(t).job = Top(t).job
    BY <1>1, TopFits DEF Idle
  <1>3. CASE CreateJob(t, j)
    BY <1>1, <1>2, <1>3, QuietSwap DEF CreateJob, queueVars
  <1>4. CASE RunJob(t, j)
    <2>1. Frame("jobReady", j, 0) \in FrameType /\ Frame("jobReady", j, 0).pc = "jobReady"
      BY DEF Frame, FrameType, Labels
    <2>2. /\ at' = [at EXCEPT ![t] = "pushStore"] /\ job' = job
          /\ Replace(t, <<Frame("jobReady", j, 0), Advanced(t)>>)
      BY <1>4 DEF RunJob, Q!PushWrite, Q!Goto
    <2>3. /\ at'[t] = "pushStore"
          /\ \A u \in Threads : u # t => at'[u] = at[u] /\ job'[u] = job[u]
      BY <2>2, QueueBasics
    <2> QED
      BY <1>1, <1>2, <2>1, <2>2, <2>3, QuietPush
  <1>5. CASE CallWait(t, j)
    <2>1. Frame("wait", j, 0) \in FrameType /\ Frame("wait", j, 0).pc = "wait"
      BY DEF Frame, FrameType, Labels
    <2>2. UNCHANGED <<at, job>> /\ Replace(t, <<Frame("wait", j, 0), Advanced(t)>>)
      BY <1>5 DEF CallWait, queueVars
    <2> QED
      BY <1>1, <1>2, <2>1, <2>2, QuietPush DEF Idle
  <1> QED
    BY <1>3, <1>4, <1>5

\* Notifications, blocking and the loops are quiet.
LEMMA WaitQuiet ==
  ASSUME StackInv, NEW t \in Threads,
         \/ NotifyJobReady(t) \/ NotifyAll(t) \/ WaitCheck(t) \/ WaitBlock(t)
         \/ t \in Workers /\ (LoopCheck(t) \/ LoopBlock(t) \/ ReportReady(t))
  PROVE  QuietMove(t)
  <1>1. /\ Idle(t)
        /\ Top(t).pc \in {"jobReady", "notifyAll", "wait", "waitBlock", "loop", "loopBlock", "ready"}
        /\ UNCHANGED <<at, job>>
    BY DEF NotifyJobReady, NotifyAll, WaitCheck, WaitBlock, LoopCheck, LoopBlock, ReportReady, At,
           Top, Idle, queueVars
  <1>2. /\ Top(t) \in FrameType /\ Advanced(t) \in FrameType
        /\ Advanced(t).pc = Top(t).pc
    BY <1>1, TopFits DEF Idle
  <1>3. ASSUME NEW pc \in {"wait", "waitBlock", "loop", "loopBlock"}
        PROVE  /\ [Top(t) EXCEPT !.pc = pc] \in FrameType
               /\ [Top(t) EXCEPT !.pc = pc].pc = pc
    BY <1>2 DEF FrameType, Labels
  <1>4. Frame("get", Null, 0) \in FrameType /\ Frame("get", Null, 0).pc = "get"
    BY DEF Frame, FrameType, Labels
  <1>5. Frame("notifyAll", Top(t).job, 0) \in FrameType /\ Frame("notifyAll", Top(t).job, 0).pc = "notifyAll"
    BY <1>2 DEF Frame, FrameType, Labels
  <1>6. CASE Leave(t)
    BY <1>1, <1>6, QuietLeave
  <1>7. CASE NotifyJobReady(t)
    BY <1>1, <1>5, <1>7, QuietSwap DEF NotifyJobReady
  <1>8. CASE NotifyAll(t) /\ ~Leave(t)
    <2>1. Replace(t, <<Advanced(t)>>) /\ Top(t).pc = "notifyAll"
      BY <1>8 DEF NotifyAll, At, Top
    <2> QED
      BY <1>1, <1>2, <2>1, QuietSwap
  <1>9. CASE WaitCheck(t) /\ ~Leave(t)
    <2>1. Replace(t, <<Frame("get", Null, 0), [Top(t) EXCEPT !.pc = "waitBlock"]>>)
      BY <1>9 DEF WaitCheck
    <2> QED
      BY <1>1, <1>3, <1>4, <2>1, QuietPush DEF Idle
  <1>10. CASE LoopCheck(t) /\ ~Leave(t)
    <2>1. Replace(t, <<Frame("get", Null, 0), [Top(t) EXCEPT !.pc = "loopBlock"]>>)
      BY <1>10 DEF LoopCheck
    <2> QED
      BY <1>1, <1>3, <1>4, <2>1, QuietPush DEF Idle
  <1>11. CASE WaitBlock(t)
    <2>1. Replace(t, <<[Top(t) EXCEPT !.pc = "wait"]>>)
      BY <1>11 DEF WaitBlock, Become
    <2> QED
      BY <1>1, <1>3, <2>1, QuietSwap
  <1>12. CASE LoopBlock(t) \/ ReportReady(t)
    <2>1. Replace(t, <<[Top(t) EXCEPT !.pc = "loop"]>>)
      BY <1>12 DEF LoopBlock, ReportReady, Become
    <2> QED
      BY <1>1, <1>3, <2>1, QuietSwap
  <1> QED
    BY <1>6, <1>7, <1>8, <1>9, <1>10, <1>11, <1>12

\* So is the start of a pop or of a steal,
LEMMA GetQuiet ==
  ASSUME StackInv, QP!QueueInv, NEW t \in Threads, GetJob(t) \/ StealJob(t)
  PROVE  QuietMove(t)
  <1>1. Idle(t) /\ Top(t).pc \in {"get", "steal"}
    BY DEF GetJob, StealJob, At, Top, Idle
  <1>2. Top(t) \in FrameType
    BY <1>1, TopFits DEF Idle
  <1>3. ASSUME NEW pc \in {"popped", "stolen"}
        PROVE  /\ [Top(t) EXCEPT !.pc = pc] \in FrameType
               /\ [Top(t) EXCEPT !.pc = pc].pc = pc
    BY <1>2 DEF FrameType, Labels
  <1>4. Hand(at[t], stack[t], job[t]) \notin Jobs
    BY <1>1, EmptyHanded DEF Idle
  <1>5. CASE GetJob(t)
    <2>1. /\ at' = [at EXCEPT ![t] = "popTop"] /\ job' = job
          /\ Replace(t, <<[Top(t) EXCEPT !.pc = "popped"]>>)
      BY <1>5 DEF GetJob, Q!PopDecrement, Q!Goto, Become
    <2>2. at'[t] = "popTop" /\ \A u \in Threads : u # t => at'[u] = at[u] /\ job'[u] = job[u]
      BY <2>1, QueueBasics
    <2> QED
      BY <1>1, <1>3, <1>4, <2>1, <2>2 DEF QuietMove, Idle
  <1>6. CASE StealJob(t)
    <2>1. /\ at' = [at EXCEPT ![t] = "stealBottom"] /\ job' = job
          /\ Replace(t, <<[Top(t) EXCEPT !.pc = "stolen"]>>)
      BY <1>6 DEF StealJob, Q!StealLoadTop, Q!Goto, Become
    <2>2. at'[t] = "stealBottom" /\ \A u \in Threads : u # t => at'[u] = at[u] /\ job'[u] = job[u]
      BY <2>1, QueueBasics
    <2> QED
      BY <1>1, <1>3, <1>4, <2>1, <2>2 DEF QuietMove, Idle
  <1> QED
    BY <1>5, <1>6

\* a pop or steal that found nothing,
LEMMA NothingQuiet ==
  ASSUME StackInv, NEW t \in Threads, Popped(t) \/ Stolen(t), ~Found(t), ~FoundJunk(t),
         job[t] \notin Jobs
  PROVE  QuietMove(t) /\ UNCHANGED <<queueVars, runVars, unfinished>>
  <1>1. /\ Idle(t) /\ Top(t).pc \in {"popped", "stolen"}
        /\ UNCHANGED <<queueVars, runVars, unfinished>>
        /\ Leave(t) \/ Become(t, "steal")
    BY DEF Popped, Stolen, At, Top, Idle
  <1>2. UNCHANGED <<at, job>>
    BY <1>1 DEF queueVars
  <1>3. CASE Leave(t)
    BY <1>1, <1>2, <1>3, QuietLeave
  <1>4. CASE Become(t, "steal")
    <2>1. Top(t) \in FrameType
      BY <1>1, TopFits DEF Idle
    <2>2. [Top(t) EXCEPT !.pc = "steal"] \in FrameType /\ [Top(t) EXCEPT !.pc = "steal"].pc = "steal"
      BY <2>1 DEF FrameType, Labels
    <2> QED
      BY <1>1, <1>2, <1>4, <2>2, QuietSwap DEF Become
  <1> QED
    BY <1>1, <1>3, <1>4

\* the main thread's part of initialize and shutdown,
LEMMA MainQuiet ==
  ASSUME StackInv, AwaitWorkers \/ StopWorkers \/ WakeWorker \/ JoinWorker
  PROVE  QuietMove(Main)
  <1>1. /\ Idle(Main) /\ Top(Main).pc \in {"awaitWorkers", "script", "wake", "join"}
        /\ UNCHANGED <<at, job>> /\ Main \in Threads
    BY Crew DEF AwaitWorkers, StopWorkers, WakeWorker, JoinWorker, At, Top, Idle, queueVars
  <1>2. /\ Advanced(Main) \in FrameType /\ Advanced(Main).pc = Top(Main).pc
        /\ Advanced(Main).job = Top(Main).job
    BY <1>1, TopFits DEF Idle
  <1>3. ASSUME NEW pc \in {"script", "wake", "join"}, NEW n \in {0, 1}
        PROVE  /\ Frame(pc, Null, n) \in FrameType /\ Frame(pc, Null, n).pc = pc
               /\ Frame(pc, Null, n).job \notin Jobs
    BY JobSystemAssumption DEF Frame, FrameType, Labels
  <1>4. CASE Leave(Main)
    BY <1>1, <1>4, QuietLeave
  <1>5. ASSUME NEW pc \in {"script", "wake", "join"}, NEW n \in {0, 1}, Replace(Main, <<Frame(pc, Null, n)>>)
        PROVE  QuietMove(Main)
    BY <1>1, <1>3, <1>5, QuietSwap
  <1>6. CASE Replace(Main, <<Advanced(Main)>>) /\ Top(Main).pc \in {"wake", "join"}
    BY <1>1, <1>2, <1>6, QuietSwap
  <1>7. Leave(Main) \/ (Replace(Main, <<Advanced(Main)>>) /\ Top(Main).pc \in {"wake", "join"})
          \/ \E pc \in {"script", "wake", "join"}, n \in {0, 1} : Replace(Main, <<Frame(pc, Null, n)>>)
    BY DEF AwaitWorkers, StopWorkers, WakeWorker, JoinWorker, At, Top
  <1> QED
    BY <1>4, <1>5, <1>6, <1>7

----------------------------------------------------------------------------
(* What the invariant says of one job.                                     *)

\* and the start of a worker.
LEMMA SpawnQuiet ==
  ASSUME StackInv, MidQueue, QP!QueueInv, NEW w \in Workers, SpawnWorker(w)
  PROVE  Quiet
  <1> DEFINE f == Frame(IF w = WorkerCount THEN "awaitWorkers" ELSE "spawn", Null, w)
             g == Frame("ready", Null, 0)
  <1>1. /\ Idle(Main) /\ Top(Main).pc = "spawn" /\ Main \in Threads
        /\ w \in Threads /\ w # Main /\ w \in Nat /\ UNCHANGED <<at, job>>
        /\ stack' = [stack EXCEPT ![Main] = <<f>>, ![w] = <<g>>]
        /\ Top(Main).n + 1 = w
    BY Crew DEF SpawnWorker, At, Top, Idle, queueVars
  <1>2. f.pc \in {"awaitWorkers", "spawn"} /\ g.pc = "ready"
    BY DEF Frame
  <1> HIDE DEF f, g
  <1>3. stack \in [Threads -> Seq(FrameType)] /\ Life /\ Stacked
    BY DEF StackInv, StackType
  <1>4. /\ stack'[Main] = <<f>> /\ stack'[w] = <<g>>
        /\ \A u \in Threads : u # Main /\ u # w => stack'[u] = stack[u]
    BY <1>1, <1>3
  <1>5. Phase(Main) = "spawn" /\ Number(Main) = w - 1
    BY <1>1, OnlyFrame DEF PhaseAt, Milestones, FrameType, Idle
  <1>6. stack[w] # <<>> /\ F(stack[w], 1).pc = "unborn"
    <2>1. Phase(w) = "unborn"
      BY <1>1, <1>3, <1>5 DEF Life
    <2> QED
      BY <2>1 DEF Phase, Milestones
  <1>7. Top(w).pc = "unborn"
    <2>1. Len(stack[w]) \in Nat \ {0} /\ Top(w) = F(stack[w], Len(stack[w])) /\ Fits(w, Top(w), Len(stack[w]))
      BY <1>1, <1>3, <1>6, TopHeight, TopFits DEF Top
    <2>2. ~(Len(stack[w]) > 1)
      <3>1. Len(stack[w]) > 1 => 1 \in 1 .. Len(stack[w]) /\ 1 < Len(stack[w])
        BY <2>1
      <3> QED
        BY <1>1, <1>3, <1>6, <3>1 DEF Stacked, Below
    <2>3. Len(stack[w]) = 1
      BY <1>1, <2>1, <2>2, InnerOnly
    <2> QED
      BY <1>6, <2>1, <2>3
  <1>8. at[w] = "idle" /\ Hand(at[w], stack[w], job[w]) \notin Jobs
    <2>1. ~TopIn(stack[w], {"jobReady"}) /\ ~TopIn(stack[w], {"popped"}) /\ ~TopIn(stack[w], {"stolen"})
      BY <1>7 DEF TopIn, Top
    <2>2. at[w] = "idle"
      BY <1>1, <2>1, QueueBasics DEF MidQueue
    <2> QED
      BY <1>1, <1>6, <1>7, <2>2, EmptyHanded
  <1>9. Hand(at[Main], stack[Main], job[Main]) \notin Jobs
    BY <1>1, EmptyHanded DEF Idle
  <1>10. ASSUME NEW u \in {Main, w}, NEW k \in {f, g}, stack'[u] = <<k>>
         PROVE  QuietCell(at[u], stack[u], job[u], at'[u], stack'[u], job'[u])
    <2>1. Head(<<k>>) = k /\ <<k>> # <<>> /\ Len(<<k>>) = 1 /\ <<k>>[1] = k
      OBVIOUS
    <2>2. k.pc \in {"awaitWorkers", "spawn", "ready"} /\ at'[u] = "idle" /\ job'[u] = job[u]
      BY <1>1, <1>2, <1>8 DEF Idle
    <2>3. \A h \in Nat, j \in Jobs : ~Runs(<<k>>, h, j)
      BY <2>1, <2>2 DEF Runs, F
    <2>4. \A j \in Jobs : ~AtFinish(<<k>>, j) /\ ~AtFinish(stack[u], j)
      BY <1>1, <1>7, <2>1, <2>2 DEF AtFinish, TopIn, Top
    <2>5. Hand(at'[u], <<k>>, job'[u]) \notin Jobs /\ Hand(at[u], stack[u], job[u]) \notin Jobs
      BY <1>8, <1>9, <2>1, <2>2, JobSystemAssumption DEF Hand, TopIn
    <2>6. Mid(at'[u], <<k>>, job'[u])
      BY <2>2 DEF Mid, PopPlaces, StealPlaces
    <2> QED
      BY <1>10, <2>3, <2>4, <2>5, <2>6 DEF QuietCell
  <1>11. ASSUME NEW u \in Threads, u # Main, u # w
         PROVE  QuietCell(at[u], stack[u], job[u], at'[u], stack'[u], job'[u])
    <2>1. Mid(at[u], stack[u], job[u])
      BY DEF MidQueue, Mid
    <2> QED
      BY <1>1, <1>4, <1>11, <2>1 DEF QuietCell
  <1> QED
    BY <1>4, <1>10, <1>11 DEF Quiet

\* The sets that are counted are finite.
LEMMA Sizes ==
  ASSUME IsFiniteSet(created), NEW s, NEW u, NEW p, NEW h, NEW j
  PROVE  /\ IsFiniteSet(OpenChildren(created, u, j)) /\ Cardinality(OpenChildren(created, u, j)) \in Nat
         /\ IsFiniteSet(Finishing(s, j)) /\ Cardinality(Finishing(s, j)) \in Nat
         /\ IsFiniteSet(Holders(p, s, h, j)) /\ Cardinality(Holders(p, s, h, j)) \in Nat
  <1>1. IsFiniteSet(Threads)
    BY FS_Interval, JobSystemAssumption DEF Threads
  <1>2. /\ OpenChildren(created, u, j) \subseteq created
        /\ Finishing(s, j) \subseteq Threads
        /\ Holders(p, s, h, j) \subseteq Threads
    BY DEF OpenChildren, Finishing, Holders
  <1> QED
    BY <1>1, <1>2, FS_Subset, FS_CardinalityType

\* A job is called at most once, and not while somebody has it in hand.
LEMMA CalledOnce ==
  ASSUME QP!QueueInv, Healthy, JobsHold, JobsType, NEW j \in Jobs
  PROVE  /\ started[j] \in {0, 1} /\ returned[j] \in {0, 1} /\ returned[j] <= started[j]
         /\ started[j] = 1 => j \in created
         /\ \A t \in Threads : Hand(at[t], stack[t], job[t]) = j =>
              started[j] = 0 /\ returned[j] = 0 /\ j \in created
  <1> DEFINE H == Holders(at, stack, job, j)
  <1>1. /\ taken[j] = started[j] + Cardinality(H) /\ taken[j] <= 1
        /\ taken[j] \in Nat /\ started[j] \in Nat /\ returned[j] \in Nat
        /\ IsFiniteSet(H) /\ Cardinality(H) \in Nat
        /\ returned[j] <= started[j]
    BY QueueBasics, Sizes DEF JobsHold, Accounted, JobsType, Scripts, Families
  <1>2. started[j] \in {0, 1} /\ returned[j] \in {0, 1}
    BY <1>1
  <1>3. taken[j] > 0 => j \in created
    BY QueueBasics DEF JobsHold, Families
  <1>4. ASSUME NEW t \in Threads, Hand(at[t], stack[t], job[t]) = j
        PROVE  started[j] = 0 /\ returned[j] = 0 /\ j \in created
    <2>1. t \in H
      BY <1>4 DEF Holders
    <2>2. Cardinality(H) # 0
      BY <1>1, <2>1, FS_EmptySet
    <2> QED
      BY <1>1, <1>3, <2>2
  <1>5. started[j] = 1 => j \in created
    BY <1>1, <1>3
  <1> QED
    BY <1>1, <1>2, <1>4, <1>5

\* A created job that has not returned is not complete.
LEMMA NotComplete ==
  ASSUME QP!QueueInv, Healthy, JobsHold, JobsType, NEW j \in created
  PROVE  /\ unfinished[j] \in Nat
         /\ returned[j] = 0 => unfinished[j] > 0
         /\ Finishing(stack, j) # {} => unfinished[j] > 0
         /\ unfinished[j] = 0 => returned[j] = 1 /\ OpenChildren(created, unfinished, j) = {}
  <1> DEFINE O == OpenChildren(created, unfinished, j)
             E == Finishing(stack, j)
  <1>1. /\ unfinished[j] = (1 - returned[j]) + Cardinality(O) + Cardinality(E)
        /\ j \in Jobs /\ returned[j] \in {0, 1} /\ IsFiniteSet(created)
    BY CalledOnce DEF JobsHold, Balanced, JobsType, Families
  <1>2. IsFiniteSet(O) /\ IsFiniteSet(E) /\ Cardinality(O) \in Nat /\ Cardinality(E) \in Nat
    BY <1>1, Sizes
  <1>3. (O # {} <=> Cardinality(O) # 0) /\ (E # {} <=> Cardinality(E) # 0)
    BY <1>2, FS_EmptySet
  <1> QED
    BY <1>1, <1>2, <1>3

\* A job created: it is open under its parent, whose counter has room for it.
LEMMA CreateHolds ==
  ASSUME JobInv, Healthy, KeepsContract, NEW t \in Threads, NEW j \in Jobs, CreateJob(t, j), Quiet
  PROVE  JobsHold'
  <1>1. /\ QP!QueueInv /\ JobsHold /\ JobsType /\ StackInv
        /\ j \notin created /\ IsFiniteSet(created) /\ created \subseteq Jobs
        /\ Parent[j] # NoParent => Parent[j] \in created /\ unfinished[Parent[j]] > 0
        /\ created' = created \union {j}
        /\ UNCHANGED <<at, job, pushed, taken, started, returned>>
        /\ NoParent \notin Jobs
    BY JobSystemAssumption DEF JobInv, KeepsContract, CreateJob, JobsHold, Families, queueVars, JobsType
  <1>2. /\ unfinished'[j] = 1
        /\ \A i \in Jobs : i # j =>
             unfinished'[i] = IF i = Parent[j] THEN unfinished[i] + 1 ELSE unfinished[i]
    BY DEF CreateJob
  <1>3. \A c \in created : Parent[c] # j
    BY <1>1 DEF JobsHold, Families
  <1>4. \A i \in created : i \in Jobs /\ i # j /\ unfinished[i] \in Nat
    BY <1>1, NotComplete
  <1>5. Families'
    <2>1. IsFiniteSet(created')
      BY <1>1, FS_AddElement
    <2>2. \A c \in created' : Parent[c] # NoParent => Parent[c] \in created' /\ Parent[c] # c
      BY <1>1 DEF JobsHold, Families
    <2>3. \A q \in Threads : pushed'[q] \subseteq created'
      BY <1>1 DEF JobsHold, Families
    <2>4. \A i \in Jobs : Finishing(stack', i) # {} => i \in created'
      BY <1>1, QuietSets DEF JobsHold, Families
    <2> QED
      BY <2>1, <2>2, <2>3, <2>4 DEF Families
  <1>6. Balanced'
    <2> SUFFICES ASSUME NEW i \in created'
                 PROVE  unfinished'[i] = (1 - returned'[i])
                          + Cardinality(OpenChildren(created', unfinished', i))
                          + Cardinality(Finishing(stack', i))
      BY DEF Balanced
    <2>0. i \in Jobs /\ Finishing(stack', i) = Finishing(stack, i) /\ returned'[i] = returned[i]
      BY <1>1, QuietSets
    <2>1. CASE i = j
      <3>1. OpenChildren(created', unfinished', i) = {}
        BY <1>1, <1>3, <2>1, JobSystemAssumption DEF OpenChildren
      <3>2. Finishing(stack, i) = {}
        BY <1>1, <2>1 DEF JobsHold, Families
      <3>3. started[i] = 0 /\ returned[i] = 0
        BY <1>1, <2>1, CalledOnce
      <3> QED
        BY <1>2, <2>0, <2>1, <3>1, <3>2, <3>3, FS_EmptySet
    <2>2. CASE i # j
      <3>0. i \in created /\ i \in Jobs
        BY <1>1, <2>0, <2>2
      <3>1. unfinished[i] = (1 - returned[i]) + Cardinality(OpenChildren(created, unfinished, i))
                             + Cardinality(Finishing(stack, i))
        BY <1>1, <3>0 DEF JobsHold, Balanced
      <3>2. \A c \in created : unfinished'[c] # 0 <=> unfinished[c] # 0
        <4> TAKE c \in created
        <4>1. c # Parent[j] => unfinished'[c] = unfinished[c]
          BY <1>2, <1>4
        <4>2. c = Parent[j] => unfinished'[c] = unfinished[c] + 1 /\ unfinished[c] > 0 /\ unfinished[c] \in Nat
          BY <1>1, <1>2, <1>4
        <4> QED
          BY <4>1, <4>2
      <3>3. CASE Parent[j] = i
        <4>1. OpenChildren(created', unfinished', i) = OpenChildren(created, unfinished, i) \union {j}
          BY <1>1, <1>2, <3>2, <3>3 DEF OpenChildren
        <4>2. j \notin OpenChildren(created, unfinished, i)
          BY <1>1 DEF OpenChildren
        <4>3. /\ Cardinality(OpenChildren(created', unfinished', i)) = Cardinality(OpenChildren(created, unfinished, i)) + 1
              /\ Cardinality(OpenChildren(created, unfinished, i)) \in Nat
              /\ Cardinality(Finishing(stack, i)) \in Nat
          BY <1>1, <4>1, <4>2, Sizes, FS_AddElement
        <4>4. unfinished'[i] = unfinished[i] + 1 /\ returned[i] \in Nat
          BY <1>1, <1>2, <2>2, <3>0, <3>3 DEF JobsType
        <4> QED
          BY <2>0, <3>1, <4>3, <4>4
      <3>4. CASE Parent[j] # i
        <4>1. OpenChildren(created', unfinished', i) = OpenChildren(created, unfinished, i)
          BY <1>1, <3>2, <3>4 DEF OpenChildren
        <4>2. unfinished'[i] = unfinished[i]
          BY <1>2, <2>2, <3>0, <3>4
        <4> QED
          BY <2>0, <3>1, <4>1, <4>2
      <3> QED
        BY <3>3, <3>4
    <2> QED
      BY <2>1, <2>2
  <1>7. Scripts'
    BY <1>1, QuietScripts
  <1>8. Accounted'
    BY <1>1, QuietSets DEF JobsHold, Accounted
  <1> QED
    BY <1>5, <1>6, <1>7, <1>8 DEF JobsHold

\* Only thread t's stack changes, and t is between queue operations.
LEMMA OneThread ==
  ASSUME MidQueue, StackType, NEW t \in Threads, Idle(t), UNCHANGED <<at, job>>, NEW r,
         stack' = [stack EXCEPT ![t] = r]
  PROVE  /\ MidQueue' /\ stack'[t] = r
         /\ \A u \in Threads : u # t => stack'[u] = stack[u]
  <1>1. stack'[t] = r /\ \A u \in Threads : u # t => stack'[u] = stack[u]
    BY DEF StackType
  <1> QED
    BY <1>1 DEF MidQueue, Idle, PopPlaces, StealPlaces

\* A job found and called: it goes from the thread's hands to its stack.
LEMMA FoundHolds ==
  ASSUME JobInv, NEW t \in Threads, Found(t), Popped(t) \/ Stolen(t)
  PROVE  MidQueue' /\ (Healthy => JobsHold')
  <1> DEFINE k == job[t]
             f == Frame("script", k, 0)
             r == <<f>> \o Tail(stack[t])
  <1>0. /\ Idle(t) /\ Top(t).pc \in {"popped", "stolen"} /\ stack[t] \in Seq(FrameType)
        /\ k \in Jobs /\ UNCHANGED <<at, job, pushed, taken, created, returned, unfinished>>
        /\ started' = [started EXCEPT ![k] = @ + 1]
        /\ stack' = [stack EXCEPT ![t] = r] /\ StackType /\ MidQueue /\ JobsType
        /\ Top(t) = Head(stack[t]) /\ Null \notin Jobs
    BY JobSystemAssumption
    DEF JobInv, StackInv, StackType, Found, Popped, Stolen, At, Top, Idle, Replace, queueVars
  <1>1. f \in FrameType /\ f.pc = "script" /\ f.job = k
    BY <1>0 DEF Frame, FrameType, Labels
  <1>2. /\ r # <<>> /\ Head(r) = f
        /\ \A h \in Nat, i \in Jobs : Runs(r, h, i) <=>
              \/ h < Len(stack[t]) /\ Runs(stack[t], h, i)
              \/ h = Len(stack[t]) /\ f.pc = "script" /\ f.job = i
    BY <1>0, <1>1, SwapTop DEF Idle
  <1> HIDE DEF r, f, k
  <1>3. MidQueue' /\ stack'[t] = r /\ \A u \in Threads : u # t => stack'[u] = stack[u]
    BY <1>0, OneThread
  <1> SUFFICES ASSUME Healthy
               PROVE  JobsHold'
    BY <1>3
  <1>4. QP!QueueInv /\ JobsHold
    BY DEF JobInv
  <1>5. Hand(at[t], stack[t], job[t]) = k /\ Hand(at'[t], stack'[t], job'[t]) = Null
    BY <1>0, <1>1, <1>2, <1>3 DEF Hand, TopIn, Idle, k
  <1>6. started[k] = 0 /\ returned[k] = 0 /\ k \in created
    BY <1>0, <1>4, <1>5, CalledOnce
  <1>7. started'[k] = 1 /\ \A i \in Jobs : i # k => started'[i] = started[i]
    BY <1>0, <1>6 DEF JobsType
  <1>8. \A i \in Jobs : Finishing(stack', i) = Finishing(stack, i)
    BY <1>0, <1>1, <1>2, <1>3 DEF Finishing, AtFinish, TopIn
  <1>9. Families' /\ Balanced'
    BY <1>0, <1>4, <1>8 DEF JobsHold, Families, Balanced, JobsType
  <1>10. Scripts'
    <2> SUFFICES ASSUME NEW i \in Jobs
                 PROVE  /\ returned'[i] <= started'[i]
                        /\ \A u \in Threads : \A h \in Nat : Runs(stack'[u], h, i) =>
                             /\ started'[i] = 1 /\ returned'[i] = 0
                             /\ \A v \in Threads : \A m \in Nat : Runs(stack'[v], m, i) => v = u /\ m = h
      BY DEF Scripts
    <2>0. returned[i] <= started[i] /\ \A u \in Threads : \A h \in Nat : Runs(stack[u], h, i) =>
            /\ started[i] = 1 /\ returned[i] = 0
            /\ \A v \in Threads : \A m \in Nat : Runs(stack[v], m, i) => v = u /\ m = h
      BY <1>4 DEF JobsHold, Scripts
    <2>1. CASE i = k
      <3>1. \A u \in Threads : \A h \in Nat : ~Runs(stack[u], h, k)
        BY <1>6, <2>0, <2>1
      <3>2. \A u \in Threads : \A h \in Nat : Runs(stack'[u], h, k) => u = t /\ h = Len(stack[t])
        BY <1>0, <1>2, <1>3, <3>1
      <3> QED
        BY <1>0, <1>6, <1>7, <2>1, <3>2
    <2>2. CASE i # k
      <3>1. \A u \in Threads : \A h \in Nat : Runs(stack'[u], h, i) => Runs(stack[u], h, i)
        BY <1>1, <1>2, <1>3, <2>2
      <3> QED
        BY <1>0, <1>7, <2>0, <2>2, <3>1
    <2> QED
      BY <2>1, <2>2
  <1>11. Accounted'
    <2> SUFFICES ASSUME NEW i \in Jobs
                 PROVE  taken'[i] = started'[i] + Cardinality(Holders(at', stack', job', i))
      BY DEF Accounted
    <2>0. taken[i] = started[i] + Cardinality(Holders(at, stack, job, i))
      BY <1>4 DEF JobsHold, Accounted
    <2>1. CASE i = k
      <3>1. Holders(at', stack', job', i) = Holders(at, stack, job, i) \ {t} /\ t \in Holders(at, stack, job, i)
        BY <1>0, <1>3, <1>5, <2>1 DEF Holders
      <3>2. IsFiniteSet(Holders(at, stack, job, i)) /\ Cardinality(Holders(at, stack, job, i)) \in Nat
        BY <1>4, Sizes DEF JobsHold, Families
      <3>3. Cardinality(Holders(at', stack', job', i)) = Cardinality(Holders(at, stack, job, i)) - 1
        BY <3>1, <3>2, FS_RemoveElement
      <3> QED
        BY <1>0, <1>6, <1>7, <2>0, <2>1, <3>2, <3>3
    <2>2. CASE i # k
      <3>1. Holders(at', stack', job', i) = Holders(at, stack, job, i)
        BY <1>0, <1>3, <1>5, <2>2 DEF Holders
      <3> QED
        BY <1>0, <1>7, <2>0, <2>2, <3>1
    <2> QED
      BY <2>1, <2>2
  <1> QED
    BY <1>9, <1>10, <1>11 DEF JobsHold

\* While the queues are healthy, a job that was taken is never looked over: its
\* counter is not zero yet.
LEMMA NeverDropped ==
  ASSUME JobInv, Healthy, NEW t \in Threads, Popped(t) \/ Stolen(t), job[t] \in Jobs
  PROVE  ~IsEmpty(job[t])
  <1>1. Hand(at[t], stack[t], job[t]) = job[t]
    BY DEF Popped, Stolen, At, Hand, TopIn
  <1>2. QP!QueueInv /\ JobsHold /\ JobsType
    BY DEF JobInv
  <1>3. job[t] \in created /\ returned[job[t]] = 0
    BY <1>1, <1>2, CalledOnce
  <1>4. unfinished[job[t]] > 0 /\ unfinished[job[t]] \in Nat
    BY <1>2, <1>3, NotComplete
  <1> QED
    BY <1>4, JobSystemAssumption DEF IsEmpty

\* An operation on a queue goes on: a job may get into the thread's hands.
LEMMA QueueHolds ==
  ASSUME JobInv, NEW t \in Threads, QueueStep(t)
  PROVE  MidQueue' /\ (Healthy => JobsHold')
  <1>0. /\ Q!Continue(t) /\ QP!QueueInv /\ MidQueue /\ JobsType
        /\ UNCHANGED <<stack, created, started, returned, unfinished>>
        /\ Null \notin Jobs
    BY JobSystemAssumption DEF QueueStep, JobInv, runVars
  <1>1. /\ \A u \in Threads : u # t => at'[u] = at[u] /\ job'[u] = job[u]
        /\ pushed' = pushed
        /\ at'[t] \in {"idle", "pushStore"} \union PopPlaces \union StealPlaces
        /\ at'[t] \in PopPlaces => at[t] \in PopPlaces
        /\ at'[t] \in StealPlaces => at[t] \in StealPlaces
        /\ at'[t] # "pushStore"
        /\ at'[t] = "popReset" => job'[t] = Null
    BY <1>0, ContinueFacts
  <1>2. \/ at[t] = "pushStore" /\ at'[t] = "idle" /\ taken' = taken
        \/ /\ at[t] \in {"popStore", "popReset"} /\ at'[t] = "idle"
           /\ job'[t] = job[t] /\ taken' = taken
        \/ /\ at[t] \in (PopPlaces \union StealPlaces) \ {"popStore", "popReset"}
           /\ at'[t] \in {"idle", "popStore"} /\ Q!Take(job'[t])
        \/ /\ at[t] \in (PopPlaces \union StealPlaces) \ {"popStore"}
           /\ at'[t] \notin {"idle", "popStore"} /\ taken' = taken
    BY <1>0, ContinueFacts
  <1>3. MidQueue'
    <2> SUFFICES ASSUME NEW u \in Threads
                 PROVE  /\ at'[u] = "pushStore" => TopIn(stack'[u], {"jobReady"})
                        /\ at'[u] \in PopPlaces => TopIn(stack'[u], {"popped"})
                        /\ at'[u] \in StealPlaces => TopIn(stack'[u], {"stolen"})
                        /\ at'[u] = "popReset" => job'[u] = Null
      BY DEF MidQueue
    <2>1. CASE u = t
      BY <1>0, <1>1, <2>1 DEF MidQueue
    <2>2. CASE u # t
      BY <1>0, <1>1, <2>2 DEF MidQueue
    <2> QED
      BY <2>1, <2>2
  <1> SUFFICES ASSUME Healthy
               PROVE  JobsHold'
    BY <1>3
  <1>4. JobsHold
    BY DEF JobInv
  <1>5. Families' /\ Balanced' /\ Scripts'
    BY <1>0, <1>1, <1>4 DEF JobsHold, Families, Balanced, Scripts, JobsType
  <1> DEFINE old == Hand(at[t], stack[t], job[t])
             new == Hand(at'[t], stack'[t], job'[t])
  <1>6. /\ at[t] = "pushStore" => TopIn(stack[t], {"jobReady"})
        /\ at[t] \in PopPlaces => TopIn(stack[t], {"popped"})
        /\ at[t] \in StealPlaces => TopIn(stack[t], {"stolen"})
        /\ at[t] = "popReset" => job[t] = Null
    BY <1>0 DEF MidQueue
  <1>7. \/ new = old /\ taken' = taken
        \/ old = Null /\ new = job'[t] /\ Q!Take(job'[t])
    <2>1. CASE at[t] = "pushStore" /\ at'[t] = "idle" /\ taken' = taken
      BY <1>0, <1>6, <2>1 DEF Hand, TopIn
    <2>2. CASE /\ at[t] \in {"popStore", "popReset"} /\ at'[t] = "idle"
               /\ job'[t] = job[t] /\ taken' = taken
      BY <1>0, <1>6, <2>2 DEF Hand, TopIn, PopPlaces
    <2>3. CASE /\ at[t] \in (PopPlaces \union StealPlaces) \ {"popStore", "popReset"}
               /\ at'[t] \in {"idle", "popStore"} /\ Q!Take(job'[t])
      <3>1. TopIn(stack[t], {"popped", "stolen"})
        BY <1>6, <2>3 DEF TopIn
      <3>2. old = Null
        BY <2>3 DEF Hand, PopPlaces, StealPlaces
      <3>3. new = job'[t]
        BY <1>0, <2>3, <3>1 DEF Hand
      <3> QED
        BY <2>3, <3>2, <3>3
    <2>4. CASE /\ at[t] \in (PopPlaces \union StealPlaces) \ {"popStore"}
               /\ at'[t] \notin {"idle", "popStore"} /\ taken' = taken
      BY <2>4 DEF Hand, PopPlaces, StealPlaces
    <2> QED
      BY <1>2, <2>1, <2>2, <2>3, <2>4
  <1>8. \A u \in Threads : u # t => Hand(at'[u], stack'[u], job'[u]) = Hand(at[u], stack[u], job[u])
    BY <1>0, <1>1
  <1> HIDE DEF old, new
  <1>9. Accounted'
    <2> SUFFICES ASSUME NEW i \in Jobs
                 PROVE  taken'[i] = started'[i] + Cardinality(Holders(at', stack', job', i))
      BY DEF Accounted
    <2>0. taken[i] = started[i] + Cardinality(Holders(at, stack, job, i)) /\ taken \in [Jobs -> Nat]
          /\ started[i] \in Nat
      BY <1>0, <1>4, QueueBasics DEF JobsHold, Accounted, JobsType
    <2>1. CASE new = old /\ taken' = taken
      <3>1. Holders(at', stack', job', i) = Holders(at, stack, job, i)
        BY <1>8, <2>1 DEF Holders, new, old
      <3> QED
        BY <1>0, <2>0, <2>1, <3>1
    <2>2. CASE old = Null /\ new = job'[t] /\ Q!Take(job'[t])
      <3>1. CASE job'[t] = i
        <4>1. taken'[i] = taken[i] + 1
          BY <2>0, <2>2, <3>1 DEF Q!Take
        <4>2. Holders(at', stack', job', i) = Holders(at, stack, job, i) \union {t} /\ t \notin Holders(at, stack, job, i)
          BY <1>0, <1>8, <2>2, <3>1 DEF Holders, new, old
        <4>3. IsFiniteSet(Holders(at, stack, job, i)) /\ Cardinality(Holders(at, stack, job, i)) \in Nat
          BY <1>4, Sizes DEF JobsHold, Families
        <4>4. Cardinality(Holders(at', stack', job', i)) = Cardinality(Holders(at, stack, job, i)) + 1
          BY <4>2, <4>3, FS_AddElement
        <4> QED
          BY <1>0, <2>0, <4>1, <4>3, <4>4
      <3>2. CASE job'[t] # i
        <4>1. taken'[i] = taken[i]
          BY <2>0, <2>2, <3>2 DEF Q!Take
        <4>2. Holders(at', stack', job', i) = Holders(at, stack, job, i)
          BY <1>0, <1>8, <2>2, <3>2 DEF Holders, new, old
        <4> QED
          BY <1>0, <2>0, <4>1, <4>2
      <3> QED
        BY <3>1, <3>2
    <2> QED
      BY <1>7, <2>1, <2>2
  <1> QED
    BY <1>5, <1>9 DEF JobsHold

----------------------------------------------------------------------------
(* The actions that count: create, find, return, count down.               *)

\* A function that returns: its counter is what its thread counts down next.
LEMMA ReturnHolds ==
  ASSUME JobInv, NEW t \in Threads, JobReturns(t)
  PROVE  MidQueue' /\ (Healthy => JobsHold')
  <1> DEFINE k == Top(t).job
             f == Frame("finish", k, 0)
             r == <<f>> \o Tail(stack[t])
  <1>0. /\ Idle(t) /\ Top(t).pc = "script" /\ stack[t] \in Seq(FrameType) /\ k # Null
        /\ UNCHANGED <<at, job, pushed, taken, created, started, unfinished>>
        /\ returned' = [returned EXCEPT ![k] = @ + 1]
        /\ stack' = [stack EXCEPT ![t] = r] /\ StackType /\ StackInv /\ MidQueue /\ JobsType
        /\ Top(t) = Head(stack[t])
    BY DEF JobInv, StackInv, StackType, JobReturns, At, Top, Idle, Replace, queueVars
  <1>1. k \in Jobs
    <2>1. Top(t) \in FrameType
      BY <1>0, TopFits DEF Idle
    <2> QED
      BY <1>0, <2>1 DEF FrameType
  <1>2. f \in FrameType /\ f.pc = "finish" /\ f.job = k
    BY <1>1 DEF Frame, FrameType, Labels
  <1>3. /\ r # <<>> /\ Head(r) = f
        /\ \A h \in Nat, i \in Jobs : Runs(r, h, i) <=>
              \/ h < Len(stack[t]) /\ Runs(stack[t], h, i)
              \/ h = Len(stack[t]) /\ f.pc = "script" /\ f.job = i
    BY <1>0, <1>2, SwapTop DEF Idle
  <1>4. Runs(stack[t], Len(stack[t]), k) /\ Len(stack[t]) \in Nat
    BY <1>0, <1>1, TopRuns DEF Idle
  <1>5. \A n, h \in Nat : h < n => h # n
    OBVIOUS
  <1> HIDE DEF r, f, k
  <1>6. MidQueue' /\ stack'[t] = r /\ \A u \in Threads : u # t => stack'[u] = stack[u]
    BY <1>0, OneThread
  <1> SUFFICES ASSUME Healthy
               PROVE  JobsHold'
    BY <1>6
  <1>7. QP!QueueInv /\ JobsHold
    BY DEF JobInv
  <1>8. /\ started[k] = 1 /\ returned[k] = 0
        /\ \A u \in Threads : \A i \in Nat : Runs(stack[u], i, k) => u = t /\ i = Len(stack[t])
    BY <1>1, <1>4, <1>7 DEF JobsHold, Scripts
  <1>9. k \in created
    BY <1>1, <1>7, <1>8, <1>0, CalledOnce
  <1>10. returned'[k] = 1 /\ \A i \in Jobs : i # k => returned'[i] = returned[i]
    BY <1>0, <1>1, <1>8 DEF JobsType
  <1>11. \A i \in Jobs : /\ i # k => Finishing(stack', i) = Finishing(stack, i)
                         /\ i = k => /\ Finishing(stack', i) = Finishing(stack, i) \union {t}
                                     /\ t \notin Finishing(stack, i)
    BY <1>0, <1>2, <1>3, <1>6 DEF Finishing, AtFinish, TopIn
  <1>12. \A i : Holders(at', stack', job', i) = Holders(at, stack, job, i)
    <2>1. Hand(at[t], stack[t], job[t]) = Null /\ Hand(at[t], stack'[t], job[t]) = Null
      BY <1>0, <1>2, <1>3, <1>6 DEF Hand, TopIn, Idle
    <2> QED
      BY <1>0, <1>6, <2>1 DEF Holders
  <1>13. Families'
    BY <1>0, <1>7, <1>9, <1>11 DEF JobsHold, Families
  <1>14. Accounted'
    BY <1>0, <1>7, <1>12 DEF JobsHold, Accounted
  <1>15. Balanced'
    <2> SUFFICES ASSUME NEW i \in created
                 PROVE  unfinished[i] = (1 - returned'[i])
                          + Cardinality(OpenChildren(created, unfinished, i))
                          + Cardinality(Finishing(stack', i))
      BY <1>0 DEF Balanced
    <2>0. /\ i \in Jobs /\ IsFiniteSet(created)
          /\ unfinished[i] = (1 - returned[i]) + Cardinality(OpenChildren(created, unfinished, i))
                               + Cardinality(Finishing(stack, i))
      BY <1>0, <1>7 DEF JobsHold, Balanced, Families, JobsType
    <2>1. CASE i # k
      BY <1>10, <1>11, <2>0, <2>1
    <2>2. CASE i = k
      <3>1. /\ Cardinality(OpenChildren(created, unfinished, i)) \in Nat
            /\ IsFiniteSet(Finishing(stack, i)) /\ Cardinality(Finishing(stack, i)) \in Nat
        BY <2>0, Sizes
      <3>2. Cardinality(Finishing(stack', i)) = Cardinality(Finishing(stack, i)) + 1
        BY <1>11, <2>0, <2>2, <3>1, FS_AddElement
      <3> QED
        BY <1>8, <1>10, <2>0, <2>2, <3>1, <3>2
    <2> QED
      BY <2>1, <2>2
  <1>16. Scripts'
    <2> SUFFICES ASSUME NEW i \in Jobs
                 PROVE  /\ returned'[i] <= started'[i]
                        /\ \A u \in Threads : \A h \in Nat : Runs(stack'[u], h, i) =>
                             /\ started'[i] = 1 /\ returned'[i] = 0
                             /\ \A v \in Threads : \A m \in Nat : Runs(stack'[v], m, i) => v = u /\ m = h
      BY DEF Scripts
    <2>0. returned[i] <= started[i] /\ \A u \in Threads : \A h \in Nat : Runs(stack[u], h, i) =>
            /\ started[i] = 1 /\ returned[i] = 0
            /\ \A v \in Threads : \A m \in Nat : Runs(stack[v], m, i) => v = u /\ m = h
      BY <1>7 DEF JobsHold, Scripts
    <2>1. \A u \in Threads : \A h \in Nat : Runs(stack'[u], h, i) =>
            Runs(stack[u], h, i) /\ (u = t => h < Len(stack[t]))
      BY <1>2, <1>3, <1>6
    <2>2. CASE i = k
      <3>1. \A u \in Threads : \A h \in Nat : ~Runs(stack'[u], h, i)
        BY <1>4, <1>5, <1>8, <2>1, <2>2
      <3> QED
        BY <1>0, <1>8, <1>10, <2>2, <3>1
    <2>3. CASE i # k
      BY <1>0, <1>10, <2>0, <2>1, <2>3
    <2> QED
      BY <2>2, <2>3
  <1> QED
    BY <1>13, <1>14, <1>15, <1>16 DEF JobsHold

\* A counter counted down: the thread goes on to the parent exactly when it has
\* just closed a child of it.
LEMMA FinishHolds ==
  ASSUME JobInv, NEW t \in Threads, Finish(t)
  PROVE  MidQueue' /\ (Healthy => JobsHold')
  <1> DEFINE k  == Top(t).job
             p  == Parent[k]
             up == unfinished[k] = 1 /\ p # NoParent
             g  == Frame("notifyAll", k, 0)
             f  == Frame("finish", p, 0)
             r  == IF up THEN <<f, g>> \o Tail(stack[t]) ELSE <<g>> \o Tail(stack[t])
  <1>0. /\ Idle(t) /\ Top(t).pc = "finish" /\ stack[t] \in Seq(FrameType)
        /\ UNCHANGED <<at, job, pushed, taken, created, started, returned>>
        /\ unfinished' = [unfinished EXCEPT ![k] = @ - 1]
        /\ stack' = [stack EXCEPT ![t] = r] /\ StackType /\ StackInv /\ MidQueue /\ JobsType
        /\ Top(t) = Head(stack[t])
    BY DEF JobInv, StackInv, StackType, Finish, At, Top, Idle, Replace, queueVars, runVars
  <1>1. k \in Jobs /\ p \in Jobs \union {NoParent} /\ NoParent \notin Jobs
    <2>1. Fits(t, Top(t), Len(stack[t]))
      BY <1>0, TopFits DEF Idle
    <2> QED
      BY <1>0, <2>1, JobSystemAssumption DEF Fits
  <1>2. /\ g \in FrameType /\ g.pc = "notifyAll"
        /\ up => f \in FrameType /\ f.pc = "finish" /\ f.job = p
    BY <1>1 DEF Frame, FrameType, Labels
  <1>3. /\ r # <<>> /\ (up => Head(r) = f) /\ (~up => Head(r) = g)
        /\ \A h \in Nat, i \in Jobs : Runs(r, h, i) => Runs(stack[t], h, i)
    <2>1. CASE up
      BY <1>0, <1>2, <2>1, PushTop DEF Idle
    <2>2. CASE ~up
      BY <1>0, <1>2, <2>2, SwapTop DEF Idle
    <2> QED
      BY <2>1, <2>2
  <1> HIDE DEF r, f, g
  <1>4. MidQueue' /\ stack'[t] = r /\ \A u \in Threads : u # t => stack'[u] = stack[u]
    BY <1>0, OneThread
  <1>5. /\ \A i \in Jobs : AtFinish(stack[t], i) <=> i = k
        /\ \A i \in Jobs : AtFinish(stack'[t], i) <=> up /\ i = p
    BY <1>0, <1>2, <1>3, <1>4 DEF AtFinish, TopIn, Idle
  <1>6. \A i : Holders(at', stack', job', i) = Holders(at, stack, job, i)
    <2>1. Head(stack'[t]).pc \notin {"popped", "stolen"}
      BY <1>2, <1>3, <1>4
    <2>2. Hand(at[t], stack[t], job[t]) = Null /\ Hand(at[t], stack'[t], job[t]) = Null
      BY <1>0, <2>1 DEF Hand, TopIn, Idle
    <2> QED
      BY <1>0, <1>4, <2>2 DEF Holders
  <1> HIDE DEF up, p, k
  <1> SUFFICES ASSUME Healthy
               PROVE  JobsHold'
    BY <1>4
  <1>7. QP!QueueInv /\ JobsHold
    BY DEF JobInv
  <1>8. /\ k \in created /\ unfinished[k] > 0 /\ unfinished[k] \in Nat
        /\ up => p \in created
        /\ p # k
        /\ p # NoParent => p \in created
    <2>1. t \in Finishing(stack, k)
      BY <1>1, <1>5 DEF Finishing
    <2>2. k \in created
      BY <1>1, <1>7, <2>1 DEF JobsHold, Families
    <2>3. p # NoParent => p \in created /\ p # k
      BY <1>7, <2>2 DEF JobsHold, Families, p
    <2> QED
      BY <1>0, <1>1, <1>7, <2>1, <2>2, <2>3, NotComplete DEF up
  <1>9. \A i \in Jobs :
          /\ i = k => Finishing(stack', i) = Finishing(stack, i) \ {t} /\ t \in Finishing(stack, i)
          /\ i # k /\ up /\ i = p =>
               Finishing(stack', i) = Finishing(stack, i) \union {t} /\ t \notin Finishing(stack, i)
          /\ i # k /\ ~(up /\ i = p) => Finishing(stack', i) = Finishing(stack, i)
    BY <1>4, <1>5, <1>8 DEF Finishing
  <1>10. unfinished'[k] = unfinished[k] - 1 /\ \A i \in Jobs : i # k => unfinished'[i] = unfinished[i]
    BY <1>0, <1>1 DEF JobsType
  <1>11. Families'
    BY <1>0, <1>7, <1>8, <1>9 DEF JobsHold, Families
  <1>12. Accounted'
    BY <1>0, <1>6, <1>7 DEF JobsHold, Accounted
  <1>13. Scripts'
    <2>1. \A u \in Threads : \A h \in Nat : \A i \in Jobs : Runs(stack'[u], h, i) => Runs(stack[u], h, i)
      BY <1>3, <1>4
    <2> QED
      BY <1>0, <1>7, <2>1 DEF JobsHold, Scripts
  <1>14. Balanced'
    <2> SUFFICES ASSUME NEW i \in created
                 PROVE  unfinished'[i] = (1 - returned[i])
                          + Cardinality(OpenChildren(created, unfinished', i))
                          + Cardinality(Finishing(stack', i))
      BY <1>0 DEF Balanced
    <2> DEFINE O == OpenChildren(created, unfinished, i)
               E == Finishing(stack, i)
               O2 == OpenChildren(created, unfinished', i)
               E2 == Finishing(stack', i)
    <2>0. /\ i \in Jobs /\ IsFiniteSet(created) /\ returned[i] \in Nat /\ created \subseteq Jobs
          /\ unfinished[i] = (1 - returned[i]) + Cardinality(O) + Cardinality(E)
      BY <1>0, <1>7 DEF JobsHold, Balanced, Families, JobsType
    <2>1. IsFiniteSet(O) /\ Cardinality(O) \in Nat /\ IsFiniteSet(E) /\ Cardinality(E) \in Nat
      BY <2>0, Sizes
    <2>2. \A c \in created : c # k => (unfinished'[c] # 0 <=> unfinished[c] # 0)
      BY <1>10, <2>0
    <2>3. k \in O => Parent[k] = i
      BY DEF OpenChildren
    <2>4. CASE i = k
      <3>1. E2 = E \ {t} /\ t \in E
        BY <1>9, <2>0, <2>4
      <3>2. O2 = O
        BY <1>8, <2>2, <2>4 DEF OpenChildren, p
      <3>3. Cardinality(E2) = Cardinality(E) - 1
        BY <2>1, <3>1, FS_RemoveElement
      <3> QED
        BY <1>10, <2>0, <2>1, <2>4, <3>2, <3>3
    <2>5. CASE i # k /\ up /\ i = p
      <3>1. E2 = E \union {t} /\ t \notin E
        BY <1>9, <2>0, <2>5
      <3>2. O2 = O \ {k} /\ k \in O
        <4>1. unfinished[k] = 1 /\ unfinished'[k] = 0
          BY <1>10, <2>5 DEF up
        <4> QED
          BY <1>8, <2>2, <2>5, <4>1 DEF OpenChildren, p
      <3>3. Cardinality(E2) = Cardinality(E) + 1
        BY <2>1, <3>1, FS_AddElement
      <3>4. Cardinality(O2) = Cardinality(O) - 1
        BY <2>1, <3>2, FS_RemoveElement
      <3> QED
        BY <1>10, <2>0, <2>1, <2>5, <3>3, <3>4
    <2>6. CASE i # k /\ ~(up /\ i = p)
      <3>1. E2 = E
        BY <1>9, <2>0, <2>6
      <3>2. p = i => unfinished'[k] # 0 /\ unfinished[k] # 0
        BY <1>1, <1>8, <1>10, <2>0, <2>6 DEF up
      <3>3. O2 = O
        BY <2>2, <3>2 DEF OpenChildren, p
      <3> QED
        BY <1>10, <2>0, <2>1, <2>6, <3>1, <3>3
    <2> QED
      BY <2>4, <2>5, <2>6
  <1> QED
    BY <1>11, <1>12, <1>13, <1>14 DEF JobsHold

\* get_job comes back: with a job, with junk, or with nothing.
LEMMA LookedHolds ==
  ASSUME JobInv, NEW t \in Threads, Popped(t) \/ Stolen(t)
  PROVE  MidQueue' /\ (Healthy => JobsHold')
  <1>0. StackInv /\ StackType /\ MidQueue /\ JobsType
    BY DEF JobInv, StackInv
  <1>1. CASE Found(t)
    BY <1>1, FoundHolds
  <1>2. CASE FoundJunk(t)
    <2>1. UNCHANGED <<at, stack, job, pushed, taken, created, started, returned, unfinished>>
      BY <1>2 DEF FoundJunk, queueVars, runVars
    <2>2. MidQueue'
      BY <1>0, <2>1 DEF MidQueue
    <2>3. JobsHold => JobsHold'
      BY <2>1 DEF JobsHold, Families, Balanced, Scripts, Accounted
    <2> QED
      BY <2>2, <2>3 DEF JobInv
  <1>3. CASE ~Found(t) /\ ~FoundJunk(t)
    <2>1. CASE job[t] \in Jobs
      <3>1. /\ Idle(t) /\ IsEmpty(job[t]) /\ UNCHANGED <<at, job>>
            /\ \E r : stack' = [stack EXCEPT ![t] = r]
        <4>1. Junk \notin Jobs
          BY JobSystemAssumption
        <4> QED
          BY <1>3, <2>1, <4>1
          DEF Popped, Stolen, At, Idle, FoundNothing, Leave, Become, Replace, queueVars
      <3>2. MidQueue'
        BY <1>0, <3>1, OneThread
      <3>3. ~Healthy
        BY <2>1, <3>1, NeverDropped
      <3> QED
        BY <3>2, <3>3
    <2>2. CASE job[t] \notin Jobs
      <3>1. QuietMove(t) /\ UNCHANGED <<queueVars, runVars, unfinished>>
        BY <1>0, <1>3, <2>2, NothingQuiet
      <3>2. Quiet
        BY <1>0, <3>1, QuietMoves
      <3>3. JobsHold => JobsHold'
        BY <1>0, <3>1, <3>2, QuietHolds DEF queueVars, runVars, JobsHold, Families
      <3> QED
        BY <3>2, <3>3, QuietQueue DEF JobInv
    <2> QED
      BY <2>1, <2>2
  <1> QED
    BY <1>1, <1>2, <1>3

\* Every step of a thread's own, and every other step.
LEMMA CallHolds ==
  ASSUME JobInv, KeepsContract, NEW t \in Threads, NEW j \in Jobs,
         CreateJob(t, j) \/ RunJob(t, j) \/ CallWait(t, j)
  PROVE  MidQueue' /\ (Healthy => JobsHold')
  <1>0. StackInv /\ QP!QueueInv /\ MidQueue /\ JobsType
    BY DEF JobInv
  <1>1. Quiet
    BY <1>0, CallQuiet, QuietMoves
  <1>2. CASE CreateJob(t, j)
    BY <1>1, <1>2, QuietQueue, CreateHolds
  <1>3. CASE RunJob(t, j)
    <2>1. /\ UNCHANGED <<created, unfinished, started, returned, taken>>
          /\ pushed' = [pushed EXCEPT ![t] = @ \union {j}]
      BY <1>3 DEF RunJob, Q!PushWrite, runVars
    <2>2. j \in created
      BY <1>3 DEF RunJob, KeepsContract
    <2>3. JobsHold => \A q \in Threads : pushed'[q] \subseteq created
      BY <1>0, <2>1, <2>2, QueueBasics DEF JobsHold, Families
    <2> QED
      BY <1>0, <1>1, <2>1, <2>3, QuietQueue, QuietHolds DEF JobInv
  <1>4. CASE CallWait(t, j)
    <2>1. UNCHANGED <<created, unfinished, started, returned, taken, pushed>>
      BY <1>4 DEF CallWait, runVars, queueVars
    <2> QED
      BY <1>0, <1>1, <2>1, QuietQueue, QuietHolds DEF JobInv, JobsHold, Families
  <1> QED
    BY <1>2, <1>3, <1>4

\* Every step that each thread may take keeps what is said of the jobs,
LEMMA StepHolds ==
  ASSUME JobInv, KeepsContract, NEW t \in Threads, Step(t)
  PROVE  MidQueue' /\ (Healthy => JobsHold')
  <1>0. StackInv /\ QP!QueueInv /\ MidQueue /\ JobsType
    BY DEF JobInv
  <1>1. ASSUME NEW j \in Jobs, CreateJob(t, j) \/ RunJob(t, j) \/ CallWait(t, j)
        PROVE  MidQueue' /\ (Healthy => JobsHold')
    BY <1>1, CallHolds
  <1>2. CASE NotifyJobReady(t) \/ NotifyAll(t) \/ WaitCheck(t) \/ WaitBlock(t)
    <2>1. Quiet
      BY <1>0, <1>2, WaitQuiet, QuietMoves
    <2>2. UNCHANGED <<created, unfinished, started, returned, taken, pushed>>
      BY <1>2 DEF NotifyJobReady, NotifyAll, WaitCheck, WaitBlock, runVars, queueVars
    <2> QED
      BY <1>0, <2>1, <2>2, QuietQueue, QuietHolds DEF JobInv, JobsHold, Families
  <1>3. CASE GetJob(t) \/ StealJob(t)
    <2>1. Quiet
      BY <1>0, <1>3, GetQuiet, QuietMoves
    <2>2. UNCHANGED <<created, unfinished, started, returned, taken, pushed>>
      BY <1>3 DEF GetJob, StealJob, Q!PopDecrement, Q!StealLoadTop, Q!history, runVars
    <2> QED
      BY <1>0, <2>1, <2>2, QuietQueue, QuietHolds DEF JobInv, JobsHold, Families
  <1> QED
    BY <1>1, <1>2, <1>3, LookedHolds, QueueHolds, ReturnHolds, FinishHolds DEF Step

\* and so does every other step.
LEMMA OthersHold ==
  ASSUME JobInv,
         \/ \E w \in Workers : SpawnWorker(w) \/ ReportReady(w) \/ LoopCheck(w) \/ LoopBlock(w)
         \/ AwaitWorkers \/ StopWorkers \/ WakeWorker \/ JoinWorker
         \/ UNCHANGED vars
  PROVE  MidQueue' /\ (Healthy => JobsHold')
  <1>0. StackInv /\ QP!QueueInv /\ MidQueue /\ JobsType
    BY DEF JobInv
  <1>1. Quiet \/ UNCHANGED vars
    BY <1>0, SpawnQuiet, WaitQuiet, MainQuiet, QuietMoves, Crew
  <1>2. /\ UNCHANGED <<created, unfinished, started, returned, taken, pushed>>
        /\ UNCHANGED vars => UNCHANGED <<at, stack, job>>
    BY DEF SpawnWorker, ReportReady, LoopCheck, LoopBlock, AwaitWorkers, StopWorkers, WakeWorker,
           JoinWorker, vars, runVars, queueVars
  <1>3. CASE Quiet
    BY <1>0, <1>2, <1>3, QuietQueue, QuietHolds DEF JobInv, JobsHold, Families
  <1>4. CASE UNCHANGED vars
    <2>1. MidQueue'
      BY <1>0, <1>2, <1>4 DEF MidQueue
    <2>2. JobsHold => JobsHold'
      BY <1>2, <1>4 DEF JobsHold, Families, Balanced, Scripts, Accounted
    <2> QED
      BY <2>1, <2>2 DEF JobInv
  <1> QED
    BY <1>1, <1>3, <1>4

\* The counters keep their types.
LEMMA JobsTypeKept ==
  ASSUME StackInv, JobsType, [Next]_vars
  PROVE  JobsType'
  <1>1. ASSUME NEW t \in Threads, NEW j \in Jobs, CreateJob(t, j)
        PROVE  JobsType'
    <2>1. \A i \in Jobs : unfinished[i] \in Int /\ unfinished[i] + 1 \in Int
      BY DEF JobsType
    <2>2. unfinished' \in [Jobs -> Int]
      BY <1>1, <2>1 DEF CreateJob
    <2> QED
      BY <1>1, <2>2 DEF CreateJob, JobsType
  <1>2. ASSUME NEW t \in Threads, Popped(t) \/ Stolen(t)
        PROVE  JobsType'
    <2>1. UNCHANGED <<unfinished, returned, created>>
      BY <1>2 DEF Popped, Stolen, Found, FoundJunk, runVars
    <2>2. started' = started \/ started' = [started EXCEPT ![job[t]] = @ + 1]
      BY <1>2 DEF Popped, Stolen, Found, FoundJunk, runVars
    <2> QED
      BY <2>1, <2>2 DEF JobsType
  <1>3. ASSUME NEW t \in Threads, JobReturns(t)
        PROVE  JobsType'
    <2>1. /\ UNCHANGED <<unfinished, started, created>>
          /\ returned' = [returned EXCEPT ![Top(t).job] = @ + 1]
      BY <1>3 DEF JobReturns
    <2>2. Top(t).job \in Jobs
      <3>1. Top(t) \in FrameType /\ Top(t).job # Null
        BY <1>3, TopFits DEF JobReturns, At
      <3> QED
        BY <3>1 DEF FrameType
    <2>3. returned[Top(t).job] + 1 \in Nat
      BY <2>2 DEF JobsType
    <2> QED
      BY <2>1, <2>2, <2>3 DEF JobsType
  <1>4. ASSUME NEW t \in Threads, Finish(t)
        PROVE  JobsType'
    <2>1. /\ UNCHANGED <<returned, started, created>>
          /\ unfinished' = [unfinished EXCEPT ![Top(t).job] = @ - 1]
      BY <1>4 DEF Finish, runVars
    <2>2. Top(t).job \in Jobs
      BY <1>4, TopFits DEF Finish, At, Top, Fits
    <2>3. unfinished[Top(t).job] - 1 \in Int
      BY <2>2 DEF JobsType
    <2> QED
      BY <2>1, <2>2, <2>3 DEF JobsType
  <1>5. ASSUME NEW t \in Threads, NEW j \in Jobs, RunJob(t, j) \/ CallWait(t, j)
        PROVE  JobsType'
    BY <1>5 DEF RunJob, CallWait, runVars, JobsType
  <1>6. ASSUME NEW t \in Threads,
               \/ NotifyJobReady(t) \/ NotifyAll(t) \/ WaitCheck(t) \/ WaitBlock(t)
               \/ GetJob(t) \/ StealJob(t) \/ QueueStep(t)
        PROVE  JobsType'
    BY <1>6 DEF NotifyJobReady, NotifyAll, WaitCheck, WaitBlock, GetJob, StealJob, QueueStep,
                runVars, JobsType
  <1>7. ASSUME NEW t \in Threads, Step(t)
        PROVE  JobsType'
    BY <1>1, <1>2, <1>3, <1>4, <1>5, <1>6, <1>7 DEF Step
  <1>8. ASSUME NEW w \in Workers, SpawnWorker(w) \/ ReportReady(w) \/ LoopCheck(w) \/ LoopBlock(w)
        PROVE  JobsType'
    BY <1>8 DEF SpawnWorker, ReportReady, LoopCheck, LoopBlock, runVars, JobsType
  <1>9. CASE AwaitWorkers \/ StopWorkers \/ WakeWorker \/ JoinWorker \/ UNCHANGED vars
    BY <1>9 DEF AwaitWorkers, StopWorkers, WakeWorker, JoinWorker, vars, runVars, JobsType
  <1> QED
    BY <1>7, <1>8, <1>9, Crew DEF Next, MainStep, WorkerStep

\* Nothing is created, taken or called at first.
LEMMA JobInvInit == Init => JobInv
  <1> SUFFICES ASSUME Init
               PROVE  JobInv
    OBVIOUS
  <1>1. StackInv
    BY StackInvInit
  <1>2. QP!QueueInv
    BY QueueInit, QueueFacts, QP!QueueInvInit DEF Init
  <1>3. /\ at = [t \in Threads |-> "idle"] /\ pushed = [t \in Threads |-> {}]
        /\ taken = [j \in Jobs |-> 0]
        /\ created = {} /\ started = [j \in Jobs |-> 0] /\ returned = [j \in Jobs |-> 0]
        /\ unfinished = [j \in Jobs |-> 0]
        /\ stack = [t \in Threads |-> <<Frame(IF t = Main THEN "spawn" ELSE "unborn", Null, 0)>>]
    BY DEF Init, Q!Init
  <1>4. MidQueue /\ JobsType
    BY <1>3 DEF MidQueue, JobsType, PopPlaces, StealPlaces
  <1>5. \A t \in Threads :
          /\ Len(stack[t]) = 1 /\ stack[t][1].pc \in {"spawn", "unborn"}
          /\ Head(stack[t]).pc \in {"spawn", "unborn"} /\ stack[t] # <<>>
    BY <1>3 DEF Frame
  <1>6. \A t \in Threads : ~TopIn(stack[t], {"popped", "stolen"}) /\ ~TopIn(stack[t], {"finish"})
    BY <1>5 DEF TopIn
  <1>7. \A t \in Threads, h \in Nat, k \in Jobs : ~Runs(stack[t], h, k)
    <2> TAKE t \in Threads, h \in Nat, k \in Jobs
    <2>1. h \in 1 .. Len(stack[t]) => F(stack[t], h) = stack[t][1]
      BY <1>5 DEF F
    <2> QED
      BY <1>5, <2>1 DEF Runs
  <1>8. \A j \in Jobs : Finishing(stack, j) = {} /\ Holders(at, stack, job, j) = {}
    <2>1. Null \notin Jobs
      BY JobSystemAssumption
    <2> QED
      BY <1>3, <1>6, <2>1 DEF Finishing, Holders, AtFinish, Hand
  <1>9. Families
    BY <1>3, <1>8, FS_EmptySet DEF Families
  <1>10. Balanced
    BY <1>3 DEF Balanced
  <1>11. Scripts
    BY <1>3, <1>7 DEF Scripts
  <1>12. Accounted
    BY <1>3, <1>8, FS_EmptySet DEF Accounted
  <1> QED
    BY <1>1, <1>2, <1>4, <1>9, <1>10, <1>11, <1>12 DEF JobInv, JobsHold

\* A step of a program that keeps the contract keeps the invariant of the jobs.
LEMMA JobInvKept ==
  JobInv /\ KeepsContract /\ [Next]_vars => JobInv'
  <1> SUFFICES ASSUME JobInv, KeepsContract, [Next]_vars
               PROVE  JobInv'
    OBVIOUS
  <1>0. StackInv /\ QP!QueueInv /\ MidQueue /\ JobsType
    BY DEF JobInv
  <1>1. StackInv' /\ QP!QueueInv' /\ JobsType'
    BY <1>0, StackInvKept, QueuesKept, JobsTypeKept
  <1>2. MidQueue' /\ (Healthy => JobsHold')
    BY StepHolds, OthersHold, Crew DEF Next, MainStep, WorkerStep
  <1>3. Healthy' => Healthy
    BY <1>0, HealthLasts DEF QP!QueueInv, QP!Basics, QP!TypeOK, UpsetType
  <1> QED
    BY <1>1, <1>2, <1>3 DEF JobInv

\* Once a queue is upset nothing is claimed, but of the stacks.
SystemInv == StackInv /\ UpsetType /\ (Healthy => JobInv)

\* All of the invariant holds at first,
LEMMA SystemInvInit == Init => SystemInv
  <1>1. Init => UpsetType
    BY DEF Init, Q!Init, UpsetType
  <1> QED
    BY <1>1, JobInvInit DEF SystemInv, JobInv

\* and is kept while the program keeps the contract on healthy queues.
LEMMA SystemInvKept ==
  SystemInv /\ (Healthy => KeepsContract) /\ [Next]_vars => SystemInv'
  BY StackInvKept, HealthLasts, JobInvKept DEF SystemInv

\* What the two properties say follows from it.
LEMMA InvariantsHold == SystemInv => CompleteMeansDone /\ TakenIsExecuted
  <1> SUFFICES ASSUME SystemInv, Healthy
               PROVE  CompleteMeansDone /\ TakenIsExecuted
    BY DEF CompleteMeansDone, TakenIsExecuted
  <1>0. JobInv
    BY DEF SystemInv
  <1>1. CompleteMeansDone
    <2> SUFFICES ASSUME NEW j \in created
                 PROVE  /\ unfinished[j] >= 0 /\ started[j] <= 1
                        /\ unfinished[j] = 0 =>
                             returned[j] = 1 /\ \A c \in Children(j) : Complete(c)
      BY DEF CompleteMeansDone
    <2>1. QP!QueueInv /\ JobsHold /\ JobsType /\ j \in Jobs
      BY <1>0 DEF JobInv, JobsType
    <2>2. /\ unfinished[j] \in Nat
          /\ unfinished[j] = 0 => returned[j] = 1 /\ OpenChildren(created, unfinished, j) = {}
      BY <2>1, NotComplete
    <2>3. started[j] \in {0, 1}
      BY <2>1, CalledOnce
    <2>4. OpenChildren(created, unfinished, j) = {} => \A c \in Children(j) : Complete(c)
      BY DEF OpenChildren, Children, Complete
    <2> QED
      BY <2>2, <2>3, <2>4
  <1>2. TakenIsExecuted
    <2> SUFFICES ASSUME NEW j \in Jobs
                 PROVE  taken[j] = started[j] + Cardinality({t \in Threads : InHand(t) = j})
      BY DEF TakenIsExecuted
    <2>1. {t \in Threads : InHand(t) = j} = Holders(at, stack, job, j)
      BY HandIs DEF Holders
    <2> QED
      BY <1>0, <2>1 DEF JobInv, JobsHold, Accounted
  <1> QED
    BY <1>1, <1>2

\* In every program that keeps the contract while the queues are healthy, a
\* complete job has run once with all its children, and no job taken is dropped.
THEOREM ContractKeepsJobs ==
  Spec /\ [](Healthy => KeepsContract) => [](CompleteMeansDone /\ TakenIsExecuted)
  BY SystemInvInit, SystemInvKept, InvariantsHold, PTL DEF Spec

----------------------------------------------------------------------------
(* Programs that keep the contract by their structure.                     *)

\* Job j was created, or run.
Done(op, c, p, j) == IF op = "create" THEN j \in c ELSE \E q \in Threads : j \in p[q]

\* Of the calls in the function of k, those before the nth were made.
Kept(k, n, c, p) ==
  \A i \in DOMAIN ScriptOf(k), op \in {"create", "run"}, j \in Jobs :
    Makes(k, i, op, j) => (Done(op, c, p, j) <=> i <= n)

\* The frame at height h runs k, before call n.
Ran(s, h, k, n) ==
  h \in 1 .. Len(s) /\ F(s, h).pc = "script" /\ F(s, h).job = k /\ F(s, h).n = n

Progress ==
  /\ \A t \in Threads : \A h, n \in Nat : \A k \in Jobs \union {Null} :
       Ran(stack[t], h, k, n) => Kept(k, n, created, pushed)
  /\ \A k \in Jobs : started[k] = 0 => Kept(k, 0, created, pushed)
  /\ TopIn(stack[Main], {"spawn", "awaitWorkers"}) => Kept(Null, 0, created, pushed)
  /\ \A j \in Jobs, q \in Threads : j \in pushed[q] =>
       \E k \in Jobs \union {Null} : \E i \in DOMAIN ScriptOf(k) : Makes(k, i, "run", j)

\* The functions that run after thread t has left, replaced or called from its
\* innermost frame.
LEMMA RansLeft ==
  ASSUME StackType, Stacked, NEW t \in Threads, stack[t] # <<>>, Replace(t, <<>>)
  PROVE  /\ \A u \in Threads : \A h, n, k : Ran(stack'[u], h, k, n) =>
              Ran(stack[u], h, k, n) /\ (u = t => h < Len(stack[t]))
         /\ ~TopIn(stack'[t], {"spawn", "awaitWorkers"})
  <1> DEFINE s == stack[t]
  <1>0. s \in Seq(FrameType) /\ s # <<>> /\ Len(s) \in Nat \ {0}
    BY DEF StackType
  <1>1. stack'[t] = <<>> \o Tail(s)
    BY DEF StackType, Replace
  <1>8. \A u \in Threads : u # t => stack'[u] = stack[u]
    BY DEF StackType, Replace
  <1>2. \A h \in 1 .. Len(s) : h < Len(s) => F(s, h).pc \in Below
    BY DEF Stacked
  <1> HIDE DEF s
  <1>3. /\ Len(stack'[t]) = Len(s) - 1
        /\ \A h \in 1 .. Len(s) - 1 : F(stack'[t], h) = F(s, h)
    <2> DEFINE r == stack'[t]
    <2>0. s \in Seq(FrameType) /\ s # <<>> /\ r = <<>> \o Tail(s)
      BY <1>0, <1>1
    <2> HIDE DEF r
    <2>1. Len(r) = Len(s) - 1 /\ \A h \in 1 .. Len(s) - 1 : F(r, h) = F(s, h)
      BY <2>0, LeaveHeights
    <2> QED
      BY <2>1 DEF r
  <1>4. stack'[t] # <<>> => Head(stack'[t]).pc \in Below
    BY <1>0, <1>1, <1>2, LeaveTop
  <1>5. \A h \in 1 .. Len(s) - 1 : h \in 1 .. Len(s) /\ h < Len(s)
    BY <1>0
  <1>6. \A h, n, k : Ran(stack'[t], h, k, n) => Ran(s, h, k, n) /\ h < Len(s)
    BY <1>3, <1>5 DEF Ran
  <1>7. ~TopIn(stack'[t], {"spawn", "awaitWorkers"})
    BY <1>4 DEF TopIn, Below
  <1> QED
    BY <1>6, <1>7, <1>8 DEF s

\* after it has replaced it,
LEMMA RansSwapped ==
  ASSUME StackType, NEW t \in Threads, stack[t] # <<>>, NEW f \in FrameType, Replace(t, <<f>>)
  PROVE  /\ \A u \in Threads : \A h, n, k : Ran(stack'[u], h, k, n) =>
              \/ Ran(stack[u], h, k, n) /\ (u = t => h < Len(stack[t]))
              \/ u = t /\ f.pc = "script" /\ f.job = k /\ f.n = n
         /\ TopIn(stack'[t], {"spawn", "awaitWorkers"}) => f.pc \in {"spawn", "awaitWorkers"}
  <1> DEFINE s == stack[t]
  <1>0. s \in Seq(FrameType) /\ s # <<>> /\ Len(s) \in Nat \ {0}
    BY DEF StackType
  <1>1. stack'[t] = <<f>> \o Tail(s) /\ \A u \in Threads : u # t => stack'[u] = stack[u]
    BY DEF StackType, Replace
  <1> HIDE DEF s
  <1>2. /\ Len(stack'[t]) = Len(s) /\ Head(stack'[t]) = f /\ F(stack'[t], Len(s)) = f
        /\ \A h \in 1 .. Len(s) - 1 : F(stack'[t], h) = F(s, h)
    BY <1>0, <1>1, SwapHeights
  <1>3. \A h \in 1 .. Len(s) : h = Len(s) \/ (h \in 1 .. Len(s) - 1 /\ h < Len(s))
    BY <1>0
  <1>4. \A h, n, k : Ran(stack'[t], h, k, n) =>
          \/ Ran(s, h, k, n) /\ h < Len(s)
          \/ f.pc = "script" /\ f.job = k /\ f.n = n
    BY <1>2, <1>3 DEF Ran
  <1>5. TopIn(stack'[t], {"spawn", "awaitWorkers"}) => f.pc \in {"spawn", "awaitWorkers"}
    BY <1>2 DEF TopIn
  <1> QED
    BY <1>1, <1>4, <1>5 DEF s

\* and after it has called from it.
LEMMA RansPushed ==
  ASSUME StackType, NEW t \in Threads, stack[t] # <<>>, NEW f \in FrameType, NEW g \in FrameType,
         Replace(t, <<f, g>>)
  PROVE  /\ \A u \in Threads : \A h, n, k : Ran(stack'[u], h, k, n) =>
              \/ Ran(stack[u], h, k, n) /\ (u = t => h < Len(stack[t]))
              \/ u = t /\ f.pc = "script" /\ f.job = k /\ f.n = n
              \/ u = t /\ g.pc = "script" /\ g.job = k /\ g.n = n
         /\ TopIn(stack'[t], {"spawn", "awaitWorkers"}) => f.pc \in {"spawn", "awaitWorkers"}
  <1> DEFINE s == stack[t]
  <1>0. s \in Seq(FrameType) /\ s # <<>> /\ Len(s) \in Nat \ {0}
    BY DEF StackType
  <1>1. stack'[t] = <<f, g>> \o Tail(s) /\ \A u \in Threads : u # t => stack'[u] = stack[u]
    BY DEF StackType, Replace
  <1> HIDE DEF s
  <1>2. /\ Len(stack'[t]) = Len(s) + 1 /\ Head(stack'[t]) = f
        /\ F(stack'[t], Len(s) + 1) = f /\ F(stack'[t], Len(s)) = g
        /\ \A h \in 1 .. Len(s) - 1 : F(stack'[t], h) = F(s, h)
    BY <1>0, <1>1, PushHeights
  <1>3. \A h \in 1 .. Len(s) + 1 :
          h = Len(s) + 1 \/ h = Len(s) \/ (h \in 1 .. Len(s) - 1 /\ h < Len(s) /\ h \in 1 .. Len(s))
    BY <1>0
  <1>4. \A h, n, k : Ran(stack'[t], h, k, n) =>
          \/ Ran(s, h, k, n) /\ h < Len(s)
          \/ f.pc = "script" /\ f.job = k /\ f.n = n
          \/ g.pc = "script" /\ g.job = k /\ g.n = n
    BY <1>2, <1>3 DEF Ran
  <1>5. TopIn(stack'[t], {"spawn", "awaitWorkers"}) => f.pc \in {"spawn", "awaitWorkers"}
    BY <1>2 DEF TopIn
  <1> QED
    BY <1>1, <1>4, <1>5 DEF s

Starting == {"spawn", "awaitWorkers"}

\* No call is made, and no function starts.
Calm ==
  /\ \A u \in Threads : \A h, n \in Nat : \A k \in Jobs \union {Null} :
       Ran(stack'[u], h, k, n) => Ran(stack[u], h, k, n)
  /\ TopIn(stack'[Main], Starting) => TopIn(stack[Main], Starting)
  /\ UNCHANGED <<created, pushed>>
  /\ \A k \in Jobs : started'[k] = 0 => started[k] = 0

\* A calm step keeps the progress of the program.
LEMMA CalmKeeps ==
  ASSUME Progress, Calm
  PROVE  Progress'
  <1>1. \A k, n : Kept(k, n, created', pushed') <=> Kept(k, n, created, pushed)
    BY DEF Calm
  <1>2. \A t \in Threads : \A h, n \in Nat : \A k \in Jobs \union {Null} :
          Ran(stack'[t], h, k, n) => Kept(k, n, created', pushed')
    BY <1>1 DEF Progress, Calm
  <1>3. \A k \in Jobs : started'[k] = 0 => Kept(k, 0, created', pushed')
    BY <1>1 DEF Progress, Calm
  <1>4. TopIn(stack'[Main], {"spawn", "awaitWorkers"}) => Kept(Null, 0, created', pushed')
    BY <1>1 DEF Progress, Calm, Starting
  <1>5. \A j \in Jobs, q \in Threads : j \in pushed'[q] =>
          \E k \in Jobs \union {Null} : \E i \in DOMAIN ScriptOf(k) : Makes(k, i, "run", j)
    BY DEF Progress, Calm
  <1> QED
    BY <1>2, <1>3, <1>4, <1>5 DEF Progress

\* A move of thread t that is calm.
CalmMove(t) ==
  /\ stack[t] # <<>>
  /\ UNCHANGED <<created, pushed, started>>
  /\ \/ Replace(t, <<>>)
     \/ \E f \in FrameType :
          Replace(t, <<f>>) /\ f.pc \notin {"script"} \union Starting
     \/ \E f, g \in FrameType :
          Replace(t, <<f, g>>) /\ f.pc \notin {"script"} \union Starting /\ g.pc # "script"

\* A calm move is calm for every thread.
LEMMA CalmMoves ==
  ASSUME StackInv, NEW t \in Threads, CalmMove(t)
  PROVE  Calm
  <1>0. StackType /\ Stacked /\ stack[t] # <<>>
    BY DEF StackInv, CalmMove
  <1>1. \A u \in Threads : \A h, n \in Nat : \A k \in Jobs \union {Null} :
          Ran(stack'[u], h, k, n) => Ran(stack[u], h, k, n)
    <2>1. CASE Replace(t, <<>>)
      BY <1>0, <2>1, RansLeft
    <2>2. ASSUME NEW f \in FrameType, Replace(t, <<f>>), f.pc \notin {"script"} \union Starting
          PROVE  \A u \in Threads : \A h, n, k : Ran(stack'[u], h, k, n) => Ran(stack[u], h, k, n)
      <3>1. \A u \in Threads : \A h, n, k : Ran(stack'[u], h, k, n) =>
              \/ Ran(stack[u], h, k, n)
              \/ f.pc = "script"
        BY <1>0, <2>2, RansSwapped
      <3> QED
        BY <2>2, <3>1
    <2>3. ASSUME NEW f \in FrameType, NEW g \in FrameType, Replace(t, <<f, g>>),
                 f.pc \notin {"script"} \union Starting, g.pc # "script"
          PROVE  \A u \in Threads : \A h, n, k : Ran(stack'[u], h, k, n) => Ran(stack[u], h, k, n)
      <3>1. \A u \in Threads : \A h, n, k : Ran(stack'[u], h, k, n) =>
              \/ Ran(stack[u], h, k, n) /\ (u = t => h < Len(stack[t]))
              \/ u = t /\ f.pc = "script" /\ f.job = k /\ f.n = n
              \/ u = t /\ g.pc = "script" /\ g.job = k /\ g.n = n
        BY <1>0, <2>3, RansPushed
      <3> QED
        BY <2>3, <3>1
    <2> QED
      BY <2>1, <2>2, <2>3 DEF CalmMove
  <1>2. TopIn(stack'[Main], Starting) => TopIn(stack[Main], Starting)
    <2>1. CASE t # Main
      <3>1. stack'[Main] = stack[Main]
        BY <1>0, <2>1, Crew DEF CalmMove, Replace, StackType
      <3> QED
        BY <3>1
    <2>2. CASE Replace(t, <<>>) /\ t = Main
      BY <1>0, <2>2, RansLeft DEF Starting
    <2>3. ASSUME NEW f \in FrameType, Replace(t, <<f>>), f.pc \notin Starting, t = Main
          PROVE  ~TopIn(stack'[Main], Starting)
      BY <1>0, <2>3, RansSwapped DEF Starting
    <2>4. ASSUME NEW f \in FrameType, NEW g \in FrameType, Replace(t, <<f, g>>),
                 f.pc \notin Starting, t = Main
          PROVE  ~TopIn(stack'[Main], Starting)
      BY <1>0, <2>4, RansPushed DEF Starting
    <2> QED
      BY <2>1, <2>2, <2>3, <2>4 DEF CalmMove
  <1> QED
    BY <1>1, <1>2 DEF Calm, CalmMove

\* A step that moves no thread is calm.
LEMMA StillCalm ==
  UNCHANGED <<stack, created, pushed, started>> => Calm
  BY DEF Calm

\* Every step of a thread but a call, and but the start of a function, is calm.
LEMMA StepCalm ==
  ASSUME StackInv, NEW t \in Threads,
         \/ NotifyJobReady(t) \/ NotifyAll(t) \/ WaitCheck(t) \/ WaitBlock(t)
         \/ GetJob(t) \/ StealJob(t) \/ JobReturns(t) \/ Finish(t)
         \/ (Popped(t) \/ Stolen(t)) /\ ~Found(t) /\ ~FoundJunk(t)
         \/ t \in Workers /\ (ReportReady(t) \/ LoopCheck(t) \/ LoopBlock(t))
  PROVE  CalmMove(t)
  <1>1. /\ stack[t] # <<>> /\ UNCHANGED <<created, pushed, started>>
        /\ Top(t).pc \in {"jobReady", "notifyAll", "wait", "waitBlock", "get", "steal", "script",
                          "finish", "popped", "stolen", "ready", "loop", "loopBlock"}
    BY DEF NotifyJobReady, NotifyAll, WaitCheck, WaitBlock, GetJob, StealJob, JobReturns, Finish,
           Popped, Stolen, ReportReady, LoopCheck, LoopBlock, At, Top, queueVars, runVars,
           Q!PopDecrement, Q!StealLoadTop, Q!history
  <1>2. Top(t) \in FrameType /\ Advanced(t) \in FrameType /\ Advanced(t).pc = Top(t).pc
    BY <1>1, TopFits
  <1>3. ASSUME NEW pc \in {"wait", "waitBlock", "loop", "loopBlock", "popped", "steal", "stolen"}
        PROVE  /\ [Top(t) EXCEPT !.pc = pc] \in FrameType
               /\ [Top(t) EXCEPT !.pc = pc].pc = pc
    BY <1>2 DEF FrameType, Labels
  <1>4. ASSUME NEW pc \in {"get", "notifyAll", "finish"}, NEW j \in Jobs \union {Null}
        PROVE  Frame(pc, j, 0) \in FrameType /\ Frame(pc, j, 0).pc = pc
    BY <1>4 DEF Frame, FrameType, Labels
  <1>5. Top(t).job \in Jobs \union {Null}
    BY <1>2 DEF FrameType
  <1>6. ASSUME NEW f \in FrameType, Replace(t, <<f>>), f.pc \notin {"script"} \union Starting
        PROVE  CalmMove(t)
    BY <1>1, <1>6 DEF CalmMove
  <1>7. ASSUME NEW f \in FrameType, NEW g \in FrameType, Replace(t, <<f, g>>),
               f.pc \notin {"script"} \union Starting, g.pc # "script"
        PROVE  CalmMove(t)
    BY <1>1, <1>7 DEF CalmMove
  <1>8. CASE Leave(t)
    BY <1>1, <1>8 DEF CalmMove, Leave
  <1>9. ASSUME NEW pc \in {"wait", "waitBlock", "loop", "loopBlock", "popped", "steal", "stolen"},
               Become(t, pc)
        PROVE  CalmMove(t)
    BY <1>3, <1>6, <1>9 DEF Become, Starting
  <1>10. CASE NotifyJobReady(t)
    BY <1>4, <1>5, <1>6, <1>10 DEF NotifyJobReady, Starting
  <1>11. CASE NotifyAll(t)
    <2>1. Top(t).pc = "notifyAll"
      BY <1>11 DEF NotifyAll, At, Top
    <2> QED
      BY <1>2, <1>6, <1>8, <1>11, <2>1 DEF NotifyAll, Starting
  <1>12. CASE WaitCheck(t)
    <2>1. CASE Leave(t)
      BY <1>8, <2>1
    <2>2. CASE Replace(t, <<Frame("get", Null, 0), [Top(t) EXCEPT !.pc = "waitBlock"]>>)
      BY <1>3, <1>4, <1>7, <2>2 DEF Starting
    <2> QED
      BY <1>12, <2>1, <2>2 DEF WaitCheck
  <1>13. CASE LoopCheck(t)
    <2>1. CASE Replace(t, <<Frame("get", Null, 0), [Top(t) EXCEPT !.pc = "loopBlock"]>>)
      BY <1>3, <1>4, <1>7, <2>1 DEF Starting
    <2> QED
      BY <1>8, <1>13, <2>1 DEF LoopCheck
  <1>14. CASE WaitBlock(t) \/ LoopBlock(t) \/ ReportReady(t) \/ GetJob(t) \/ StealJob(t)
    BY <1>9, <1>14 DEF WaitBlock, LoopBlock, ReportReady, GetJob, StealJob
  <1>15. CASE (Popped(t) \/ Stolen(t)) /\ ~Found(t) /\ ~FoundJunk(t)
    BY <1>8, <1>9, <1>15 DEF Popped, Stolen
  <1>16. CASE JobReturns(t)
    BY <1>4, <1>5, <1>6, <1>16 DEF JobReturns, Starting
  <1>17. CASE Finish(t)
    <2>1. CASE Replace(t, <<Frame("notifyAll", Top(t).job, 0)>>)
      BY <1>4, <1>5, <1>6, <2>1 DEF Starting
    <2>2. CASE /\ Parent[Top(t).job] # NoParent
               /\ Replace(t, <<Frame("finish", Parent[Top(t).job], 0),
                               Frame("notifyAll", Top(t).job, 0)>>)
      <3>1. Top(t).job \in Jobs
        BY <1>1, <1>17, TopFits DEF Finish, At, Top, Fits
      <3>2. Parent[Top(t).job] \in Jobs
        BY <2>2, <3>1, JobSystemAssumption
      <3> QED
        BY <1>4, <1>5, <1>7, <2>2, <3>2 DEF Starting
    <2> QED
      BY <1>17, <2>1, <2>2 DEF Finish
  <1> QED
    BY <1>10, <1>11, <1>12, <1>13, <1>14, <1>15, <1>16, <1>17

\* So is shutdown,
LEMMA MainCalm ==
  ASSUME StackInv, StopWorkers \/ WakeWorker \/ JoinWorker
  PROVE  CalmMove(Main)
  <1>1. /\ stack[Main] # <<>> /\ UNCHANGED <<created, pushed, started>> /\ Main \in Threads
        /\ WakeWorker => Top(Main).pc = "wake"
        /\ JoinWorker => Top(Main).pc = "join"
    BY Crew DEF StopWorkers, WakeWorker, JoinWorker, At, Top, queueVars, runVars
  <1>2. Advanced(Main) \in FrameType /\ Advanced(Main).pc = Top(Main).pc
    BY <1>1, TopFits
  <1>3. ASSUME NEW pc \in {"wake", "join"}
        PROVE  Frame(pc, Null, 1) \in FrameType /\ Frame(pc, Null, 1).pc = pc
    BY DEF Frame, FrameType, Labels
  <1>4. ASSUME NEW f \in FrameType, Replace(Main, <<f>>), f.pc \notin {"script"} \union Starting
        PROVE  CalmMove(Main)
    BY <1>1, <1>4 DEF CalmMove
  <1>5. CASE Leave(Main)
    BY <1>1, <1>5 DEF CalmMove, Leave
  <1>6. CASE Replace(Main, <<Advanced(Main)>>) /\ (WakeWorker \/ JoinWorker)
    BY <1>1, <1>2, <1>4, <1>6 DEF Starting
  <1>7. CASE StopWorkers
    BY <1>3, <1>4, <1>7 DEF StopWorkers, Starting
  <1>8. CASE Replace(Main, <<Frame("join", Null, 1)>>)
    BY <1>3, <1>4, <1>8 DEF Starting
  <1> QED
    BY <1>5, <1>6, <1>7, <1>8 DEF WakeWorker, JoinWorker

\* and the start of a worker.
LEMMA SpawnCalm ==
  ASSUME StackInv, NEW w \in Workers, SpawnWorker(w)
  PROVE  Calm
  <1> DEFINE f == Frame(IF w = WorkerCount THEN "awaitWorkers" ELSE "spawn", Null, w)
             g == Frame("ready", Null, 0)
  <1>1. /\ stack' = [stack EXCEPT ![Main] = <<f>>, ![w] = <<g>>]
        /\ TopIn(stack[Main], Starting) /\ UNCHANGED <<created, pushed, started>>
        /\ StackType /\ w # Main /\ Main \in Threads /\ w \in Threads
    BY Crew DEF SpawnWorker, At, TopIn, Starting, StackInv, queueVars, runVars
  <1>2. f.pc # "script" /\ g.pc # "script"
    BY DEF Frame
  <1> HIDE DEF f, g
  <1>3. /\ stack'[Main] = <<f>> /\ stack'[w] = <<g>>
        /\ \A u \in Threads : u # Main /\ u # w => stack'[u] = stack[u]
    BY <1>1 DEF StackType
  <1>4. \A x : \A h \in 1 .. Len(<<x>>) : F(<<x>>, h) = x
    BY DEF F
  <1>5. \A h, k, n : ~Ran(<<f>>, h, k, n) /\ ~Ran(<<g>>, h, k, n)
    BY <1>2, <1>4 DEF Ran
  <1> QED
    BY <1>1, <1>3, <1>5 DEF Calm

\* A function runs in one place.
LEMMA OnePlace ==
  ASSUME StackInv, JobsHold, NEW t \in Threads, NEW u \in Threads, NEW k \in Jobs \union {Null},
         NEW h, NEW i, NEW n, NEW m, Ran(stack[t], h, k, n), Ran(stack[u], i, k, m)
  PROVE  t = u /\ h = i /\ (k = Null => t = Main) /\ (k \in Jobs => started[k] = 1)
  <1>0. Stacked /\ StackType /\ Null \notin Jobs
    BY JobSystemAssumption DEF StackInv
  <1>1. /\ h \in 1 .. Len(stack[t]) /\ i \in 1 .. Len(stack[u])
        /\ F(stack[t], h).pc = "script" /\ F(stack[t], h).job = k
        /\ F(stack[u], i).pc = "script" /\ F(stack[u], i).job = k
    BY DEF Ran
  <1>2. h \in Nat /\ i \in Nat /\ h >= 1 /\ i >= 1
    <2>1. Len(stack[t]) \in Nat /\ Len(stack[u]) \in Nat
      BY <1>0 DEF StackType
    <2> QED
      BY <1>1, <2>1
  <1>3. CASE k \in Jobs
    <2>1. Runs(stack[t], h, k) /\ Runs(stack[u], i, k)
      BY <1>1 DEF Runs
    <2> QED
      BY <1>0, <1>2, <1>3, <2>1 DEF JobsHold, Scripts
  <1>4. CASE k = Null
    <2>1. Fits(t, F(stack[t], h), h) /\ Fits(u, F(stack[u], i), i)
      BY <1>0, <1>1 DEF Stacked
    <2>2. ~(h > 1) /\ ~(i > 1)
      BY <1>0, <1>1, <1>4, <2>1 DEF Fits
    <2>3. h = 1 /\ i = 1
      BY <1>2, <2>2
    <2>4. t = Main /\ u = Main
      BY <1>1, <2>1, <2>3 DEF Fits, WorkerBottom
    <2> QED
      BY <1>0, <1>4, <2>3, <2>4
  <1> QED
    BY <1>3, <1>4

\* The call that a thread is about to make.
LEMMA TheCall ==
  ASSUME StackInv, NEW t \in Threads, NEW op \in {"create", "run", "wait"}, NEW j \in Jobs,
         Calls(t, op, j)
  PROVE  /\ stack[t] # <<>> /\ Top(t).pc = "script"
         /\ Top(t).job \in Jobs \union {Null} /\ Top(t).n \in Nat
         /\ DOMAIN ScriptOf(Top(t).job) = 1 .. Len(ScriptOf(Top(t).job))
         /\ Len(ScriptOf(Top(t).job)) \in Nat
         /\ Makes(Top(t).job, Top(t).n + 1, op, j)
         /\ Ran(stack[t], Len(stack[t]), Top(t).job, Top(t).n)
  <1>1. /\ stack[t] # <<>> /\ Top(t).pc = "script"
        /\ Top(t).n < Len(ScriptOf(Top(t).job))
        /\ ScriptOf(Top(t).job)[Top(t).n + 1] = [op |-> op, job |-> j]
    BY DEF Calls, At, Top
  <1>2. /\ Top(t) \in FrameType /\ stack[t] \in Seq(FrameType)
        /\ Len(stack[t]) \in Nat \ {0} /\ Top(t) = F(stack[t], Len(stack[t]))
    BY <1>1, TopFits, TopHeight DEF StackInv, StackType, Top
  <1>3. Top(t).job \in Jobs \union {Null} /\ Top(t).n \in Nat
    BY <1>2 DEF FrameType
  <1>4. ScriptOf(Top(t).job) \in Seq(Call)
    BY <1>3, JobSystemAssumption DEF ScriptOf
  <1>5. /\ DOMAIN ScriptOf(Top(t).job) = 1 .. Len(ScriptOf(Top(t).job))
        /\ Len(ScriptOf(Top(t).job)) \in Nat
    BY <1>4
  <1>6. Top(t).n + 1 \in 1 .. Len(ScriptOf(Top(t).job))
    BY <1>1, <1>3, <1>5
  <1>7. Len(stack[t]) \in 1 .. Len(stack[t])
    BY <1>2
  <1> QED
    BY <1>1, <1>2, <1>3, <1>5, <1>6, <1>7 DEF Makes, Ran

\* What is created and run after the call.
Made(t, op, j) ==
  /\ created' = IF op = "create" THEN created \union {j} ELSE created
  /\ pushed' = IF op = "run" THEN [pushed EXCEPT ![t] = @ \union {j}] ELSE pushed
  /\ started' = started
  /\ \/ Replace(t, <<Advanced(t)>>)
     \/ \E f \in FrameType :
          Replace(t, <<f, Advanced(t)>>) /\ f.pc \notin {"script"} \union Starting

\* A call made moves its function past it, and no other function makes that call.
LEMMA CallKeeps ==
  ASSUME StackInv, QP!QueueInv, JobsHold, Structured, Progress, NEW t \in Threads,
         NEW op \in {"create", "run", "wait"}, NEW j \in Jobs, Calls(t, op, j), Made(t, op, j)
  PROVE  Progress'
  <1> DEFINE k == Top(t).job
             n == Top(t).n
             Scopes == Jobs \union {Null}
             Ops == {"create", "run"}
  <1>0. /\ stack[t] # <<>> /\ Top(t).pc = "script" /\ k \in Scopes /\ n \in Nat
        /\ DOMAIN ScriptOf(k) = 1 .. Len(ScriptOf(k)) /\ Len(ScriptOf(k)) \in Nat
        /\ Makes(k, n + 1, op, j)
        /\ Ran(stack[t], Len(stack[t]), k, n)
    BY TheCall
  <1>1. /\ Advanced(t) \in FrameType /\ Advanced(t).pc = "script"
        /\ Advanced(t).job = k /\ Advanced(t).n = n + 1
    BY <1>0, TopFits DEF Advanced, FrameType
  <1>2. Len(stack[t]) \in Nat /\ StackType /\ stack[t] # <<>>
    BY <1>0, TopFits DEF StackInv
  <1> HIDE DEF k, n
  <1>3. \A o \in Ops, i \in Jobs :
          Done(o, created', pushed', i) <=> Done(o, created, pushed, i) \/ (o = op /\ i = j)
    <2>1. pushed \in [Threads -> SUBSET Jobs]
      BY QueueBasics
    <2>2. \A i \in Jobs : Done("create", created', pushed', i) <=>
            Done("create", created, pushed, i) \/ (op = "create" /\ i = j)
      BY DEF Made, Done
    <2>3. \A i \in Jobs : Done("run", created', pushed', i) <=>
            Done("run", created, pushed, i) \/ (op = "run" /\ i = j)
      BY <2>1 DEF Made, Done
    <2> QED
      BY <2>2, <2>3
  <1>4. \A l \in Scopes : \A m \in DOMAIN ScriptOf(l) :
          op \in Ops /\ Makes(l, m, op, j) => l = k /\ m = n + 1
    <2>1. n + 1 \in DOMAIN ScriptOf(k)
      BY <1>0 DEF Makes
    <2> QED
      BY <1>0, <2>1 DEF Structured
  <1>5. ASSUME NEW l \in Scopes, l # k, NEW m, Kept(l, m, created, pushed)
        PROVE  Kept(l, m, created', pushed')
    BY <1>3, <1>4, <1>5 DEF Kept
  <1>6. ASSUME Kept(k, n, created, pushed)
        PROVE  Kept(k, n + 1, created', pushed')
    <2> SUFFICES ASSUME NEW i \in DOMAIN ScriptOf(k), NEW o \in Ops, NEW x \in Jobs, Makes(k, i, o, x)
                 PROVE  Done(o, created', pushed', x) <=> i <= n + 1
      BY DEF Kept
    <2>0. i \in Nat
      BY <1>0
    <2>1. CASE i = n + 1
      <3>1. o = op /\ x = j
        BY <1>0, <2>1 DEF Makes
      <3> QED
        BY <1>0, <1>3, <2>1, <3>1
    <2>2. CASE i # n + 1
      <3>1. ~(o = op /\ x = j)
        BY <1>0, <1>4, <2>2
      <3>2. Done(o, created, pushed, x) <=> i <= n
        BY <1>6 DEF Kept
      <3>3. i <= n <=> i <= n + 1
        BY <1>0, <2>0, <2>2
      <3> QED
        BY <1>3, <3>1, <3>2, <3>3
    <2> QED
      BY <2>1, <2>2
  <1>7. \A u \in Threads : \A h, l, m : Ran(stack'[u], h, l, m) =>
          \/ Ran(stack[u], h, l, m) /\ (u = t => h < Len(stack[t]))
          \/ u = t /\ l = k /\ m = n + 1
    <2>1. CASE Replace(t, <<Advanced(t)>>)
      <3>1. \A u \in Threads : \A h, m, l : Ran(stack'[u], h, l, m) =>
              \/ Ran(stack[u], h, l, m) /\ (u = t => h < Len(stack[t]))
              \/ u = t /\ Advanced(t).pc = "script" /\ Advanced(t).job = l /\ Advanced(t).n = m
        BY <1>0, <1>1, <1>2, <2>1, RansSwapped
      <3> QED
        BY <1>1, <3>1
    <2>2. ASSUME NEW f \in FrameType, NEW g \in FrameType, Replace(t, <<f, g>>)
          PROVE  \A u \in Threads : \A h, m, l : Ran(stack'[u], h, l, m) =>
                   \/ Ran(stack[u], h, l, m) /\ (u = t => h < Len(stack[t]))
                   \/ u = t /\ f.pc = "script" /\ f.job = l /\ f.n = m
                   \/ u = t /\ g.pc = "script" /\ g.job = l /\ g.n = m
      BY <1>2, <2>2, RansPushed
    <2>3. CASE \E f \in FrameType :
                 Replace(t, <<f, Advanced(t)>>) /\ f.pc \notin {"script"} \union Starting
      <3>1. PICK f \in FrameType : f.pc # "script" /\ Replace(t, <<f, Advanced(t)>>)
        BY <2>3
      <3>2. \A u \in Threads : \A h, m, l : Ran(stack'[u], h, l, m) =>
              \/ Ran(stack[u], h, l, m) /\ (u = t => h < Len(stack[t]))
              \/ u = t /\ f.pc = "script" /\ f.job = l /\ f.n = m
              \/ u = t /\ Advanced(t).pc = "script" /\ Advanced(t).job = l /\ Advanced(t).n = m
        BY <1>1, <2>2, <3>1, Zenon
      <3> QED
        BY <1>1, <3>1, <3>2
    <2> QED
      BY <2>1, <2>3 DEF Made
  <1>8. ASSUME NEW u \in Threads, NEW h, NEW m, Ran(stack[u], h, k, m)
        PROVE  u = t /\ h = Len(stack[t])
    <2> DEFINE i == Len(stack[t])
    <2>1. /\ k \in Jobs \union {Null} /\ u \in Threads
          /\ Ran(stack[t], i, k, n) /\ Ran(stack[u], h, k, m)
      BY <1>0, <1>8
    <2> HIDE DEF i
    <2>2. t = u /\ i = h
      BY <2>1, OnePlace
    <2> QED
      BY <2>2 DEF i
  <1>9. \A u \in Threads : \A h, m \in Nat : \A l \in Scopes :
          Ran(stack'[u], h, l, m) => Kept(l, m, created', pushed')
    <2> TAKE u \in Threads
    <2> TAKE h, m \in Nat
    <2> TAKE l \in Scopes
    <2> HAVE Ran(stack'[u], h, l, m)
    <2>1. CASE Ran(stack[u], h, l, m) /\ (u = t => h < Len(stack[t]))
      <3>1. Kept(l, m, created, pushed)
        BY <2>1 DEF Progress
      <3>2. l # k
        <4>1. l = k => u = t /\ h = Len(stack[t])
          BY <1>8, <2>1
        <4>2. h = Len(stack[t]) => ~(h < Len(stack[t]))
          BY <1>2
        <4> QED
          BY <2>1, <4>1, <4>2
      <3> QED
        BY <1>5, <3>1, <3>2
    <2>2. CASE u = t /\ l = k /\ m = n + 1
      <3>1. Kept(k, n, created, pushed)
        BY <1>0, <1>2 DEF Progress
      <3> QED
        BY <1>6, <2>2, <3>1
    <2> QED
      BY <1>7, <2>1, <2>2
  <1>10. \A l \in Jobs : started'[l] = 0 => Kept(l, 0, created', pushed')
    <2>1. \A l \in Jobs : started[l] = 0 => l # k
      BY <1>0, OnePlace
    <2> QED
      BY <1>5, <2>1 DEF Progress, Made
  <1>11. TopIn(stack'[Main], {"spawn", "awaitWorkers"}) => Kept(Null, 0, created', pushed')
    <2>1. Main \in Threads /\ (k = Null => t = Main)
      BY <1>0, Crew, OnePlace
    <2>2. t # Main => stack'[Main] = stack[Main]
      BY <1>2, <2>1 DEF Made, Replace, StackType
    <2>3. ~TopIn(stack'[t], {"spawn", "awaitWorkers"})
      <3>1. CASE Replace(t, <<Advanced(t)>>)
        BY <1>0, <1>1, <1>2, <3>1, RansSwapped
      <3>2. ASSUME NEW f \in FrameType, NEW g \in FrameType, Replace(t, <<f, g>>),
                   f.pc \notin Starting
            PROVE  ~TopIn(stack'[t], {"spawn", "awaitWorkers"})
        BY <1>0, <1>2, <3>2, RansPushed DEF Starting
      <3> QED
        BY <1>1, <3>1, <3>2 DEF Made
    <2> QED
      BY <1>5, <2>1, <2>2, <2>3 DEF Progress
  <1>12. \A x \in Jobs, q \in Threads : x \in pushed'[q] =>
           \E l \in Scopes : \E i \in DOMAIN ScriptOf(l) : Makes(l, i, "run", x)
    <2> TAKE x \in Jobs, q \in Threads
    <2> HAVE x \in pushed'[q]
    <2>1. Done("run", created', pushed', x)
      BY DEF Done
    <2>2. CASE Done("run", created, pushed, x)
      BY <2>2 DEF Done, Progress
    <2>3. CASE op = "run" /\ x = j
      BY <1>0, <2>3 DEF Makes
    <2> QED
      BY <1>3, <2>1, <2>2, <2>3
  <1> QED
    BY <1>9, <1>10, <1>11, <1>12 DEF Progress

\* create, run and wait are such calls.
LEMMA CallsKeep ==
  ASSUME StackInv, QP!QueueInv, JobsHold, Structured, Progress,
         NEW t \in Threads, NEW j \in Jobs,
         CreateJob(t, j) \/ RunJob(t, j) \/ CallWait(t, j)
  PROVE  Progress'
  <1>1. ASSUME NEW pc \in {"jobReady", "wait"}
        PROVE  Frame(pc, j, 0) \in FrameType /\ Frame(pc, j, 0).pc \notin {"script"} \union Starting
    BY DEF Frame, FrameType, Labels, Starting
  <1>2. CASE CreateJob(t, j)
    <2>1. Calls(t, "create", j) /\ Made(t, "create", j)
      BY <1>2 DEF CreateJob, Made, queueVars
    <2> QED
      BY <2>1, CallKeeps
  <1>3. CASE RunJob(t, j)
    <2>1. Calls(t, "run", j) /\ Made(t, "run", j)
      BY <1>1, <1>3 DEF RunJob, Made, runVars, Q!PushWrite
    <2> QED
      BY <2>1, CallKeeps
  <1>4. CASE CallWait(t, j)
    <2>1. Calls(t, "wait", j) /\ Made(t, "wait", j)
      BY <1>1, <1>4 DEF CallWait, Made, runVars, queueVars
    <2> QED
      BY <2>1, CallKeeps
  <1> QED
    BY <1>2, <1>3, <1>4

\* The functions that are called start from their first call.
LEMMA StartKeeps ==
  ASSUME StackInv, Progress, NEW t \in Threads, stack[t] # <<>>, NEW k \in Jobs \union {Null},
         Replace(t, <<Frame("script", k, 0)>>), Kept(k, 0, created, pushed),
         UNCHANGED <<created, pushed>>, \A i \in Jobs : started'[i] = 0 => started[i] = 0
  PROVE  Progress'
  <1> DEFINE f == Frame("script", k, 0)
  <1>0. StackType /\ Main \in Threads
    BY Crew DEF StackInv
  <1>1. f \in FrameType /\ f.pc = "script" /\ f.job = k /\ f.n = 0
    BY DEF Frame, FrameType, Labels
  <1> HIDE DEF f
  <1>2. Replace(t, <<f>>)
    BY DEF f
  <1>3. \A i, n : Kept(i, n, created', pushed') <=> Kept(i, n, created, pushed)
    OBVIOUS
  <1>4. \A u \in Threads : \A h, n, i : Ran(stack'[u], h, i, n) =>
          \/ Ran(stack[u], h, i, n) /\ (u = t => h < Len(stack[t]))
          \/ u = t /\ f.pc = "script" /\ f.job = i /\ f.n = n
    BY <1>0, <1>1, <1>2, RansSwapped
  <1>5. \A u \in Threads : \A h, n \in Nat : \A i \in Jobs \union {Null} :
          Ran(stack'[u], h, i, n) => Kept(i, n, created', pushed')
    BY <1>1, <1>3, <1>4 DEF Progress
  <1>6. \A i \in Jobs : started'[i] = 0 => Kept(i, 0, created', pushed')
    BY <1>3 DEF Progress
  <1>7. TopIn(stack'[Main], {"spawn", "awaitWorkers"}) => TopIn(stack[Main], {"spawn", "awaitWorkers"})
    <2>1. t # Main => stack'[Main] = stack[Main]
      BY <1>0, <1>2 DEF Replace, StackType
    <2>2. ~TopIn(stack'[t], {"spawn", "awaitWorkers"})
      BY <1>0, <1>1, <1>2, RansSwapped
    <2> QED
      BY <2>1, <2>2
  <1>8. TopIn(stack'[Main], {"spawn", "awaitWorkers"}) => Kept(Null, 0, created', pushed')
    BY <1>3, <1>7 DEF Progress
  <1>9. \A x \in Jobs, q \in Threads : x \in pushed'[q] =>
          \E l \in Jobs \union {Null} : \E i \in DOMAIN ScriptOf(l) : Makes(l, i, "run", x)
    BY DEF Progress
  <1> QED
    BY <1>5, <1>6, <1>8, <1>9 DEF Progress

\* Every step of a structured program keeps its progress, on healthy queues.
LEMMA ProgressKept ==
  ASSUME JobInv, Healthy, Structured, Progress, [Next]_vars
  PROVE  Progress'
  <1>0. StackInv /\ QP!QueueInv /\ JobsType /\ JobsHold
    BY DEF JobInv
  <1>1. ASSUME NEW t \in Threads, NEW j \in Jobs,
               CreateJob(t, j) \/ RunJob(t, j) \/ CallWait(t, j)
        PROVE  Progress'
    BY <1>0, <1>1, CallsKeep
  <1>2. ASSUME NEW t \in Threads, Found(t), Popped(t) \/ Stolen(t)
        PROVE  Progress'
    <2>1. /\ stack[t] # <<>> /\ job[t] \in Jobs /\ Hand(at[t], stack[t], job[t]) = job[t]
          /\ started' = [started EXCEPT ![job[t]] = @ + 1]
          /\ Replace(t, <<Frame("script", job[t], 0)>>) /\ UNCHANGED <<created, pushed>>
      BY <1>2 DEF Found, Popped, Stolen, At, Hand, TopIn, queueVars
    <2>2. started[job[t]] = 0
      BY <1>0, <2>1, CalledOnce
    <2>3. Kept(job[t], 0, created, pushed)
      BY <2>1, <2>2 DEF Progress
    <2>4. \A i \in Jobs : started'[i] = 0 => started[i] = 0
      BY <1>0, <2>1, <2>2 DEF JobsType
    <2> QED
      BY <1>0, <2>1, <2>3, <2>4, StartKeeps
  <1>3. CASE AwaitWorkers
    <2>1. /\ stack[Main] # <<>> /\ Main \in Threads /\ TopIn(stack[Main], {"spawn", "awaitWorkers"})
          /\ Replace(Main, <<Frame("script", Null, 0)>>) /\ UNCHANGED <<created, pushed, started>>
      BY <1>3, Crew DEF AwaitWorkers, At, TopIn, queueVars, runVars
    <2>2. Kept(Null, 0, created, pushed)
      BY <2>1 DEF Progress
    <2> QED
      BY <1>0, <2>1, <2>2, StartKeeps
  <1>4. ASSUME NEW t \in Threads,
               \/ NotifyJobReady(t) \/ NotifyAll(t) \/ WaitCheck(t) \/ WaitBlock(t)
               \/ GetJob(t) \/ StealJob(t) \/ JobReturns(t) \/ Finish(t)
               \/ (Popped(t) \/ Stolen(t)) /\ ~Found(t) /\ ~FoundJunk(t)
               \/ t \in Workers /\ (ReportReady(t) \/ LoopCheck(t) \/ LoopBlock(t))
        PROVE  Progress'
    <2>1. Calm
      BY <1>0, <1>4, StepCalm, CalmMoves
    <2> QED
      BY <2>1, CalmKeeps
  <1>5. CASE StopWorkers \/ WakeWorker \/ JoinWorker
    BY <1>0, <1>5, MainCalm, CalmMoves, CalmKeeps, Crew
  <1>6. ASSUME NEW w \in Workers, SpawnWorker(w)
        PROVE  Progress'
    BY <1>0, <1>6, SpawnCalm, CalmKeeps
  <1>7. ASSUME NEW t \in Threads, FoundJunk(t) \/ QueueStep(t)
        PROVE  Progress'
    <2>1. CASE FoundJunk(t)
      BY <2>1, StillCalm, CalmKeeps DEF FoundJunk, queueVars, runVars
    <2>2. CASE QueueStep(t)
      <3>1. UNCHANGED <<stack, created, started>> /\ pushed' = pushed
        BY <1>0, <2>2, ContinueFacts DEF QueueStep, runVars
      <3> QED
        BY <3>1, StillCalm, CalmKeeps
    <2> QED
      BY <1>7, <2>1, <2>2
  <1>8. CASE UNCHANGED vars
    BY <1>8, StillCalm, CalmKeeps DEF vars, queueVars, runVars
  <1>9. ASSUME NEW t \in Threads, Step(t)
        PROVE  Progress'
    BY <1>1, <1>2, <1>4, <1>7, <1>9 DEF Step
  <1> QED
    BY <1>3, <1>4, <1>5, <1>6, <1>8, <1>9, Crew DEF Next, MainStep, WorkerStep

\* No call was made at first.
LEMMA ProgressInit == Init => Progress
  <1> SUFFICES ASSUME Init
               PROVE  Progress
    OBVIOUS
  <1>1. /\ created = {} /\ pushed = [t \in Threads |-> {}]
        /\ stack = [t \in Threads |-> <<Frame(IF t = Main THEN "spawn" ELSE "unborn", Null, 0)>>]
    BY DEF Init, Q!Init
  <1>2. \A o \in {"create", "run"} : \A j : ~Done(o, created, pushed, j)
    BY <1>1 DEF Done
  <1>3. ASSUME NEW k \in Jobs \union {Null}
        PROVE  Kept(k, 0, created, pushed)
    <2>1. ScriptOf(k) \in Seq(Call)
      BY JobSystemAssumption DEF ScriptOf
    <2>2. \A i \in DOMAIN ScriptOf(k) : ~(i <= 0)
      BY <2>1
    <2> QED
      BY <1>2, <2>2 DEF Kept
  <1>4. \A t \in Threads : \A h, n, k : ~Ran(stack[t], h, k, n)
    <2> TAKE t \in Threads
    <2>1. Len(stack[t]) = 1 /\ stack[t][1].pc \in {"spawn", "unborn"}
      BY <1>1 DEF Frame
    <2>2. \A h \in 1 .. Len(stack[t]) : F(stack[t], h) = stack[t][1]
      BY <2>1 DEF F
    <2> QED
      BY <2>1, <2>2 DEF Ran
  <1> QED
    BY <1>1, <1>3, <1>4 DEF Progress

\* A structured program that has kept the contract so far is not about to break it.
LEMMA StructuredKeeps ==
  ASSUME JobInv, Healthy, Structured, Progress
  PROVE  KeepsContract
  <1>0. StackInv /\ QP!QueueInv /\ JobsType /\ JobsHold
    BY DEF JobInv
  <1> SUFFICES ASSUME NEW t \in Threads, NEW j \in Jobs
               PROVE  /\ Calls(t, "create", j) =>
                           /\ j \notin created
                           /\ Parent[j] # NoParent =>
                                Parent[j] \in created /\ unfinished[Parent[j]] > 0
                      /\ Calls(t, "run", j) => j \in created /\ \A q \in Threads : j \notin pushed[q]
    BY DEF KeepsContract
  <1> DEFINE k == Top(t).job
             n == Top(t).n
  <1>1. ASSUME NEW op \in {"create", "run"}, Calls(t, op, j)
        PROVE  /\ k \in Jobs \union {Null} /\ n \in Nat /\ n + 1 \in DOMAIN ScriptOf(k)
               /\ DOMAIN ScriptOf(k) = 1 .. Len(ScriptOf(k)) /\ Len(ScriptOf(k)) \in Nat
               /\ Makes(k, n + 1, op, j)
               /\ Ran(stack[t], Len(stack[t]), k, n) /\ Len(stack[t]) \in Nat
               /\ Kept(k, n, created, pushed)
    <2>1. /\ k \in Jobs \union {Null} /\ n \in Nat
          /\ DOMAIN ScriptOf(k) = 1 .. Len(ScriptOf(k)) /\ Len(ScriptOf(k)) \in Nat
          /\ Makes(k, n + 1, op, j) /\ stack[t] # <<>>
          /\ Ran(stack[t], Len(stack[t]), k, n)
      BY <1>0, <1>1, TheCall
    <2>2. Len(stack[t]) \in Nat
      BY <1>0, <2>1, TopFits
    <2>3. Kept(k, n, created, pushed)
      BY <2>1, <2>2 DEF Progress
    <2> QED
      BY <2>1, <2>2, <2>3 DEF Makes
  <1> HIDE DEF k, n
  <1>2. ASSUME NEW op \in {"create", "run"}, Calls(t, op, j)
        PROVE  /\ ~Done(op, created, pushed, j)
               /\ \A m \in 1 .. n, o \in {"create", "run"}, i \in Jobs :
                    Makes(k, m, o, i) => Done(o, created, pushed, i)
    <2>1. /\ n \in Nat /\ Makes(k, n + 1, op, j) /\ n + 1 \in DOMAIN ScriptOf(k)
          /\ DOMAIN ScriptOf(k) = 1 .. Len(ScriptOf(k)) /\ Len(ScriptOf(k)) \in Nat
          /\ Kept(k, n, created, pushed)
      BY <1>1, <1>2
    <2>2. \A m \in 1 .. n : m <= n /\ m \in DOMAIN ScriptOf(k)
      BY <2>1
    <2>3. ~(n + 1 <= n)
      BY <2>1
    <2> QED
      BY <2>1, <2>2, <2>3 DEF Kept
  <1>3. ASSUME Calls(t, "create", j)
        PROVE  j \notin created
    BY <1>2, <1>3 DEF Done
  <1>4. ASSUME Calls(t, "run", j)
        PROVE  j \in created /\ \A q \in Threads : j \notin pushed[q]
    <2>1. PICK m \in 1 .. (n + 1) - 1 : Makes(k, m, "create", j)
      BY <1>1, <1>4 DEF Structured
    <2>2. m \in 1 .. n
      BY <1>1, <1>4
    <2>3. Done("create", created, pushed, j) /\ ~Done("run", created, pushed, j)
      BY <1>2, <1>4, <2>1, <2>2
    <2> QED
      BY <2>3 DEF Done
  <1>5. ASSUME Calls(t, "create", j), Parent[j] # NoParent
        PROVE  Parent[j] \in created /\ unfinished[Parent[j]] > 0
    <2> DEFINE p == Parent[j]
    <2>0. p \in Jobs /\ Null \notin Jobs
      BY <1>5, JobSystemAssumption
    <2>1. CASE p = k
      <3>1. started[p] = 1 /\ returned[p] = 0
        <4>1. Runs(stack[t], Len(stack[t]), p)
          BY <1>1, <1>5, <2>1 DEF Runs, Ran
        <4> QED
          BY <1>0, <1>1, <1>5, <2>0, <4>1 DEF JobsHold, Scripts
      <3>2. p \in created
        BY <1>0, <2>0, <3>1, CalledOnce
      <3> QED
        BY <1>0, <3>1, <3>2, NotComplete
    <2>2. CASE p # k
      <3>0. /\ \E m \in 1 .. (n + 1) - 1 : Makes(k, m, "create", p)
            /\ \A m \in 1 .. (n + 1) - 1 : ~Makes(k, m, "run", p)
        BY <1>1, <1>5, <2>2 DEF Structured
      <3>1. (n + 1) - 1 = n
        BY <1>1, <1>5
      <3>2. PICK m \in 1 .. n : Makes(k, m, "create", p)
        BY <3>0, <3>1
      <3>3. p \in created
        BY <1>2, <1>5, <2>0, <3>2 DEF Done
      <3>4. ASSUME NEW q \in Threads, p \in pushed[q]
            PROVE  FALSE
        <4>0. PICK l \in Jobs \union {Null} : \E i \in DOMAIN ScriptOf(l) : Makes(l, i, "run", p)
          BY <2>0, <3>4 DEF Progress
        <4>1. PICK i \in DOMAIN ScriptOf(l) : Makes(l, i, "run", p)
          BY <4>0
        <4>2. PICK x \in 1 .. i - 1 : Makes(l, x, "create", p)
          BY <2>0, <4>1 DEF Structured
        <4>3. l = k
          <5>1. k \in Jobs \union {Null} /\ m \in DOMAIN ScriptOf(k) /\ x \in DOMAIN ScriptOf(l)
            BY <1>1, <1>5, <3>2, <4>2 DEF Makes
          <5> QED
            BY <2>0, <3>2, <4>2, <5>1 DEF Structured
        <4>4. i \in DOMAIN ScriptOf(k) /\ Makes(k, i, "run", p)
          BY <4>1, <4>3
        <4>5. Done("run", created, pushed, p)
          BY <3>4 DEF Done
        <4>6. i <= n /\ i \in 1 .. n
          <5>1. i <= n
            BY <1>1, <1>5, <2>0, <4>4, <4>5 DEF Kept
          <5> QED
            BY <1>1, <1>5, <4>4, <5>1
        <4> QED
          BY <3>0, <3>1, <4>4, <4>6
      <3>5. started[p] = 0 /\ returned[p] = 0
        <4>1. /\ taken[p] \in Nat /\ ~(taken[p] > 0)
              /\ taken[p] = started[p] + Cardinality(Holders(at, stack, job, p))
              /\ started[p] \in Nat /\ returned[p] \in Nat /\ returned[p] <= started[p]
              /\ Cardinality(Holders(at, stack, job, p)) \in Nat
          BY <1>0, <2>0, <3>4, QueueBasics, Sizes
          DEF JobsHold, Accounted, JobsType, Scripts, Families
        <4> QED
          BY <4>1
      <3> QED
        BY <1>0, <3>3, <3>5, NotComplete
    <2> QED
      BY <2>1, <2>2
  <1> QED
    BY <1>3, <1>4, <1>5

ProgramInv == SystemInv /\ (Healthy => Progress)

\* The contract and the jobs are kept together, each by the other.
LEMMA ProgramInvKept ==
  ASSUME Structured, ProgramInv, [Next]_vars
  PROVE  ProgramInv'
  <1>1. Healthy => KeepsContract
    BY StructuredKeeps DEF ProgramInv, SystemInv
  <1>2. SystemInv' /\ (Healthy' => Healthy)
    BY <1>1, SystemInvKept, HealthLasts DEF ProgramInv, SystemInv
  <1>3. Healthy => Progress'
    BY ProgressKept DEF ProgramInv, SystemInv
  <1> QED
    BY <1>2, <1>3 DEF ProgramInv

\* A structured program keeps the contract, whatever the schedule, on healthy
\* queues.
THEOREM StructuredProgramsKeepContract ==
  ASSUME Structured
  PROVE  Spec => [](Healthy => KeepsContract)
  <1>1. Init => ProgramInv
    BY SystemInvInit, ProgressInit DEF ProgramInv
  <1>2. ProgramInv /\ [Next]_vars => ProgramInv'
    BY ProgramInvKept
  <1>3. ProgramInv => (Healthy => KeepsContract)
    BY StructuredKeeps DEF ProgramInv, SystemInv
  <1> QED
    BY <1>1, <1>2, <1>3, PTL DEF Spec

\* In a structured program, on healthy queues, a job that has_job_completed
\* reports complete has run exactly once and its children are complete.
THEOREM CompleteJobsAreDone ==
  ASSUME Structured
  PROVE  Spec => []CompleteMeansDone
  BY StructuredProgramsKeepContract, ContractKeepsJobs, PTL

\* In a structured program, on healthy queues, a job that get_job takes from a
\* queue is executed.
THEOREM TakenJobsAreExecuted ==
  ASSUME Structured
  PROVE  Spec => []TakenIsExecuted
  BY StructuredProgramsKeepContract, ContractKeepsJobs, PTL

============================================================================

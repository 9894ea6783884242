----------------------------- MODULE FarmProofs -----------------------------
(* The farm for any number of CPUs, numbers and killed workers: one lemma per  *)
(* part of the inductive invariant IInv (<part>Step: every step preserves it),  *)
(* the safety properties as its consequences, and the step simulation that     *)
(* shows the farm to implement TaskFarm in behaviours where nobody is killed.  *)
EXTENDS Farm, FiniteSetTheorems, SequenceTheorems, TLAPS

\* A turn of a loop stays in it or leaves it for the next function.
LEMMA TurnType ==
  ASSUME NEW next, count \in 0 .. kNumCPUs - 1, TurnOr(next)
  PROVE  count' \in 0 .. kNumCPUs - 1 /\ pc' \in {pc, next}
BY FarmAssumption DEF TurnOr

\* Every step of the farm or of a worker keeps the types.
LEMMA TypeStep == IInv /\ [Next]_vars => TypeOK'
<1>. SUFFICES ASSUME TypeOK, [Next]_vars PROVE TypeOK'
  BY DEF IInv
<1>. USE DEF TypeOK
<1>1. CASE SpawnWorker
  BY <1>1, TurnType, FarmAssumption DEF SpawnWorker, Worker
<1>2. CASE ReadNumber
  BY <1>2 DEF ReadNumber, workers
<1>3. CASE StopReading \/ NotANumber
  BY <1>3 DEF StopReading, NotANumber, workers
<1>4. CASE WriteNumber
  <2>1. Append(pipe[subp], num) \in Seq(Nat)
    <3>1. pipe[subp] \in Seq(Nat) /\ num \in Nat
      OBVIOUS
    <3>. QED
      BY <3>1, AppendProperties
  <2>2. pipe' \in [Worker -> Seq(Nat)] /\ num' \in Nat
    <3>1. CASE ~Dead(subp)
      <4>1. pipe' = [pipe EXCEPT ![subp] = Append(pipe[subp], num)] /\ num' = 0
        BY <1>4, <3>1 DEF WriteNumber
      <4>2. [pipe EXCEPT ![subp] = Append(pipe[subp], num)] \in [Worker -> Seq(Nat)]
        BY <2>1, Zenon
      <4>. QED
        BY <4>1, <4>2
    <3>2. CASE Dead(subp)
      BY <1>4, <3>2 DEF WriteNumber
    <3>. QED
      BY <3>1, <3>2
  <2>. QED
    BY <1>4, <2>2 DEF WriteNumber
<1>5. CASE ContinueWorker
  BY <1>5 DEF ContinueWorker, Continue
<1>6. CASE CloseWorker
  BY <1>6, TurnType DEF CloseWorker, Continue
<1>7. CASE ReapWorker
  <2>1. proc' \in [Worker -> {"unborn", "running", "stopped", "zombie", "reaped"}]
    BY <1>7 DEF ReapWorker
  <2>. QED
    BY <1>7, <2>1, TurnType DEF ReapWorker
<1>8. CASE CheckNoChild
  BY <1>8 DEF CheckNoChild, workers
<1>9. ASSUME NEW w \in Worker, GetAvailableWorker(w) PROVE TypeOK'
  BY <1>9 DEF GetAvailableWorker, WaitUntraced
<1>10. ASSUME NEW w \in Worker, WaitForAllWorkers(w) PROVE TypeOK'
  BY <1>10, TurnType DEF WaitForAllWorkers, WaitUntraced
<1>11. ASSUME NEW w \in Worker, Halt(w) PROVE TypeOK'
  BY <1>11 DEF Halt, farm
<1>12. ASSUME NEW w \in Worker, Input(w) PROVE TypeOK'
  <2>1. Head(pipe[w]) \in Nat /\ Tail(pipe[w]) \in Seq(Nat)
    BY <1>12 DEF Input
  <2>. QED
    BY <1>12, <2>1 DEF Input, farm
<1>13. ASSUME NEW w \in Worker, EndOfFile(w) PROVE TypeOK'
  BY <1>13 DEF EndOfFile, farm
<1>14. ASSUME NEW w \in Worker, Factor(w) PROVE TypeOK'
  BY <1>14 DEF Factor, farm
<1>15. ASSUME NEW w \in Worker, Kill(w) PROVE TypeOK'
  BY <1>15 DEF Kill, farm
<1>16. CASE UNCHANGED vars
  BY <1>16 DEF vars, farm, workers
<1>. QED
  BY <1>1, <1>2, <1>3, <1>4, <1>5, <1>6, <1>7, <1>8, <1>9, <1>10, <1>11, <1>12, <1>13, <1>14,
     <1>15, <1>16 DEF Next, FarmStep, WorkerStep

\* What a worker was given are numbers that were read.
LEMMA GivenNumbers ==
  ASSUME TypeOK, NumbersConserved, NEW w \in Worker
  PROVE  /\ With(w) \subseteq 1 .. read
         /\ pipe[w] # <<>> => Head(pipe[w]) \in 1 .. read
<1>1. With(w) \subseteq 1 .. read
  BY DEF NumbersConserved
<1>2. pipe[w] # <<>> => Head(pipe[w]) \in With(w)
  <2>1. pipe[w] # <<>> => 1 \in DOMAIN pipe[w] /\ Head(pipe[w]) = pipe[w][1]
    BY DEF TypeOK
  <2>. QED
    BY <2>1 DEF With, Given
<1>. QED
  BY <1>1, <1>2

\* The number in hand is the last one read, and gone outside the dispatch.
LEMMA HandStep == IInv /\ [Next]_vars => Hand'
<1>. SUFFICES ASSUME TypeOK, Hand, [Next]_vars PROVE Hand'
  BY DEF IInv
<1>. USE DEF TypeOK, Hand
<1>1. CASE SpawnWorker
  BY <1>1 DEF SpawnWorker, TurnOr
<1>2. CASE ReadNumber \/ StopReading \/ NotANumber
  BY <1>2 DEF ReadNumber, StopReading, NotANumber
<1>3. CASE WriteNumber
  BY <1>3 DEF WriteNumber
<1>4. CASE ContinueWorker
  BY <1>4 DEF ContinueWorker
<1>5. CASE CloseWorker
  BY <1>5 DEF CloseWorker, TurnOr
<1>6. CASE ReapWorker
  BY <1>6 DEF ReapWorker, TurnOr
<1>7. CASE CheckNoChild
  BY <1>7 DEF CheckNoChild
<1>8. ASSUME NEW w \in Worker, GetAvailableWorker(w) \/ WaitForAllWorkers(w) PROVE Hand'
  BY <1>8 DEF GetAvailableWorker, WaitForAllWorkers, TurnOr
<1>9. ASSUME NEW w \in Worker, WorkerStep(w) \/ Kill(w) PROVE Hand'
  BY <1>9 DEF WorkerStep, Halt, Input, EndOfFile, Factor, Kill, farm
<1>10. CASE UNCHANGED vars
  BY <1>10 DEF vars, farm
<1>. QED
  BY <1>1, <1>2, <1>3, <1>4, <1>5, <1>6, <1>7, <1>8, <1>9, <1>10 DEF Next, FarmStep

\* Every step keeps what ties a worker's state to its pipe and its number.
LEMMA WorkersStep == IInv /\ [Next]_vars => Workers'
<1>. SUFFICES ASSUME TypeOK, Workers, Reported, NumbersConserved, [Next]_vars
             PROVE  Workers'
  BY DEF IInv
<1>. USE DEF TypeOK, Workers
<1>1. CASE SpawnWorker
  BY <1>1, FarmAssumption DEF SpawnWorker, TurnOr, Worker
<1>2. CASE ReadNumber \/ StopReading \/ NotANumber
  BY <1>2 DEF ReadNumber, StopReading, NotANumber, workers
<1>3. CASE WriteNumber
  <2>1. CASE Dead(subp)
    BY <1>3, <2>1 DEF WriteNumber
  <2>2. CASE ~Dead(subp)
    <3>1. proc[subp] = "stopped" /\ pipe[subp] = <<>>
      BY <1>3, <2>2 DEF WriteNumber, Reported
    <3>2. pipe' = [pipe EXCEPT ![subp] = <<num>>]
      BY <1>3, <2>2, <3>1 DEF WriteNumber
    <3>3. pc = "write" /\ pc' = "continue" /\ UNCHANGED <<count, proc, halts, at, held, subp>>
      BY <1>3, <2>2 DEF WriteNumber
    <3>. QED
      BY <3>1, <3>2, <3>3
  <2>. QED
    BY <2>1, <2>2
<1>4. CASE ContinueWorker
  BY <1>4 DEF ContinueWorker, Continue, Reported
<1>5. CASE CloseWorker
  BY <1>5 DEF CloseWorker, Continue, TurnOr
<1>6. CASE ReapWorker
  BY <1>6 DEF ReapWorker, TurnOr
<1>7. CASE CheckNoChild
  BY <1>7 DEF CheckNoChild, workers
<1>8. ASSUME NEW w \in Worker, GetAvailableWorker(w) PROVE Workers'
  BY <1>8 DEF GetAvailableWorker, WaitUntraced
<1>9. ASSUME NEW w \in Worker, WaitForAllWorkers(w) PROVE Workers'
  BY <1>9 DEF WaitForAllWorkers, WaitUntraced, TurnOr
<1>10. ASSUME NEW w \in Worker, Halt(w) PROVE Workers'
  BY <1>10 DEF Halt, farm
<1>11. ASSUME NEW w \in Worker, Input(w) PROVE Workers'
  <2>1. Len(pipe[w]) = 1 /\ Head(pipe[w]) \in Nat /\ Tail(pipe[w]) = <<>>
    <3>1. pipe[w] \in Seq(Nat) /\ pipe[w] # <<>> /\ Len(pipe[w]) = 1
      BY <1>11 DEF Input
    <3>2. Tail(pipe[w]) \in Seq(Nat) /\ Len(Tail(pipe[w])) = 0 /\ Head(pipe[w]) \in Nat
      BY <3>1, HeadTailProperties
    <3>. QED
      BY <3>1, <3>2, EmptySeq
  <2>2. Head(pipe[w]) # 0
    BY <1>11, GivenNumbers DEF Input
  <2>. QED
    BY <1>11, <2>1, <2>2 DEF Input, farm
<1>12. ASSUME NEW w \in Worker, EndOfFile(w) PROVE Workers'
  BY <1>12 DEF EndOfFile, farm
<1>13. ASSUME NEW w \in Worker, Factor(w) PROVE Workers'
  BY <1>13 DEF Factor, farm
<1>14. ASSUME NEW w \in Worker, Kill(w) PROVE Workers'
  BY <1>14 DEF Kill, farm
<1>15. CASE UNCHANGED vars
  BY <1>15 DEF vars, farm, workers
<1>. QED
  BY <1>1, <1>2, <1>3, <1>4, <1>5, <1>6, <1>7, <1>8, <1>9, <1>10, <1>11, <1>12, <1>13, <1>14,
     <1>15 DEF Next, FarmStep, WorkerStep

\* Every step keeps what is known of the stops and ends waitpid reported.
LEMMA ReportedStep == IInv /\ [Next]_vars => Reported'
<1>. SUFFICES ASSUME TypeOK, Workers, Reported, [Next]_vars PROVE Reported'
  BY DEF IInv
<1>. USE DEF TypeOK, Reported, Dead
<1>1. CASE SpawnWorker
  BY <1>1, FarmAssumption DEF SpawnWorker, TurnOr, Worker, Workers
<1>2. CASE ReadNumber \/ StopReading \/ NotANumber
  BY <1>2 DEF ReadNumber, StopReading, NotANumber, workers
<1>3. CASE WriteNumber
  BY <1>3 DEF WriteNumber
<1>4. CASE ContinueWorker
  BY <1>4 DEF ContinueWorker, Continue
<1>5. CASE CloseWorker
  BY <1>5 DEF CloseWorker, Continue, TurnOr
<1>6. CASE ReapWorker
  BY <1>6 DEF ReapWorker, TurnOr
<1>7. CASE CheckNoChild
  BY <1>7 DEF CheckNoChild, workers
<1>8. ASSUME NEW w \in Worker, GetAvailableWorker(w) PROVE Reported'
  BY <1>8 DEF GetAvailableWorker, WaitUntraced, Waitable, Workers
<1>9. ASSUME NEW w \in Worker, WaitForAllWorkers(w) PROVE Reported'
  BY <1>9 DEF WaitForAllWorkers, WaitUntraced, TurnOr
<1>10. ASSUME NEW w \in Worker, Halt(w) PROVE Reported'
  BY <1>10 DEF Halt, farm
<1>11. ASSUME NEW w \in Worker, Input(w) \/ Factor(w) PROVE Reported'
  BY <1>11 DEF Input, Factor, farm
<1>12. ASSUME NEW w \in Worker, EndOfFile(w) PROVE Reported'
  BY <1>12 DEF EndOfFile, farm
<1>13. ASSUME NEW w \in Worker, Kill(w) PROVE Reported'
  BY <1>13 DEF Kill, farm
<1>14. CASE UNCHANGED vars
  BY <1>14 DEF vars, farm, workers
<1>. QED
  BY <1>1, <1>2, <1>3, <1>4, <1>5, <1>6, <1>7, <1>8, <1>9, <1>10, <1>11, <1>12, <1>13, <1>14
     DEF Next, FarmStep, WorkerStep

\* A step that leaves the pipes and the numbers held leaves With.
LEMMA WithUnchanged ==
  ASSUME UNCHANGED <<pipe, held>>
  PROVE  \A w \in Worker : With(w)' = With(w)
BY DEF With

\* WriteNumber gives the number in hand to a worker that had none.
LEMMA WithWrite ==
  ASSUME TypeOK, Hand, Workers, Reported, WriteNumber, ~Dead(subp)
  PROVE  /\ With(subp) = {}
         /\ \A w \in Worker : With(w)' = IF w = subp THEN {num} ELSE With(w)
<1>. USE DEF TypeOK
<1>1. proc[subp] = "stopped" /\ pipe[subp] = <<>> /\ held[subp] = 0
  BY DEF WriteNumber, Reported, Workers
<1>2. pipe' = [pipe EXCEPT ![subp] = <<num>>] /\ UNCHANGED held
  BY <1>1 DEF WriteNumber
<1>3. With(subp) = {}
  BY <1>1 DEF With, Given
<1>4. With(subp)' = {num}
  <2>1. pipe'[subp] = <<num>> /\ held'[subp] = 0 /\ subp' = subp
    BY <1>1, <1>2 DEF WriteNumber
  <2>2. {<<num>>[i] : i \in DOMAIN <<num>>} = {num}
    OBVIOUS
  <2>. QED
    BY <2>1, <2>2 DEF With, Given
<1>5. ASSUME NEW w \in Worker, w # subp
      PROVE  With(w)' = With(w)
  BY <1>2, <1>5 DEF With, Given
<1>6. subp' = subp
  BY DEF WriteNumber
<1>. QED
  BY <1>3, <1>4, <1>5, <1>6

\* A worker that reads its pipe still has the same number.
LEMMA WithInput ==
  ASSUME TypeOK, Workers, NumbersConserved, NEW w \in Worker, Input(w)
  PROVE  \A v \in Worker : With(v)' = With(v)
<1>. USE DEF TypeOK
<1>1. pipe[w] \in Seq(Nat) /\ pipe[w] # <<>> /\ Len(pipe[w]) = 1 /\ held[w] = 0
  BY DEF Input, Workers
<1>2. PICK n \in Nat \ {0} : pipe[w] = <<n>>
  BY <1>1, GivenNumbers
<1>3. pipe' = [pipe EXCEPT ![w] = <<>>] /\ held' = [held EXCEPT ![w] = n]
  BY <1>2 DEF Input
<1>4. With(w)' = {n} /\ With(w) = {n}
  BY <1>1, <1>2, <1>3 DEF With, Given
<1>5. ASSUME NEW v \in Worker, v # w
      PROVE  With(v)' = With(v)
  BY <1>3, <1>5 DEF With, Given
<1>. QED
  BY <1>4, <1>5

\* A worker that prints has no number left.
LEMMA WithFactor ==
  ASSUME TypeOK, Workers, NEW w \in Worker, Factor(w)
  PROVE  /\ With(w) = {held[w]}
         /\ \A v \in Worker : With(v)' = IF v = w THEN {} ELSE With(v)
<1>. USE DEF TypeOK
<1>1. pipe[w] = <<>> /\ held[w] # 0
  BY DEF Factor, Workers
<1>2. UNCHANGED pipe /\ held' = [held EXCEPT ![w] = 0]
  BY DEF Factor
<1>3. With(w) = {held[w]} /\ With(w)' = {}
  BY <1>1, <1>2 DEF With, Given
<1>4. ASSUME NEW v \in Worker, v # w
      PROVE  With(v)' = With(v)
  BY <1>2, <1>4 DEF With, Given
<1>. QED
  BY <1>3, <1>4

\* No step loses or doubles a number.
LEMMA ConservedStep == IInv /\ [Next]_vars => NumbersConserved'
<1>. SUFFICES ASSUME TypeOK, Hand, Workers, Reported, NumbersConserved, [Next]_vars
             PROVE  NumbersConserved'
  BY DEF IInv
<1>. USE DEF TypeOK
<1>1. ASSUME UNCHANGED <<read, num, pipe, held, answered>> PROVE NumbersConserved'
  BY <1>1, WithUnchanged DEF With, NumbersConserved
<1>2. CASE ReadNumber
  <2>1. num = 0 /\ num' = read + 1 /\ read' = read + 1 /\ UNCHANGED answered
    BY <1>2 DEF ReadNumber, Hand, workers
  <2>2. \A w \in Worker : With(w)' = With(w)
    BY <1>2, WithUnchanged DEF ReadNumber, workers
  <2>. QED
    BY <2>1, <2>2 DEF With, NumbersConserved
<1>3. CASE WriteNumber
  <2>1. CASE Dead(subp)
    BY <1>1, <1>3, <2>1 DEF WriteNumber
  <2>2. CASE ~Dead(subp)
    <3>1. num # 0 /\ num \in 1 .. read /\ num' = 0 /\ UNCHANGED <<read, answered>>
      BY <1>3, <2>2 DEF WriteNumber, Hand
    <3>2. /\ With(subp) = {}
          /\ \A w \in Worker : With(w)' = IF w = subp THEN {num} ELSE With(w)
      BY <1>3, <2>2, WithWrite
    <3>3. \A n \in 1 .. read' : n = num' \/ n \in answered' \/ \E w \in Worker : n \in With(w)'
      <4>. SUFFICES ASSUME NEW n \in 1 .. read, n \notin answered
                    PROVE  \E w \in Worker : n \in With(w)'
        BY <3>1
      <4>1. CASE n = num
        BY <3>2, <4>1 DEF With
      <4>2. CASE n # num
        BY <3>2, <4>2 DEF With, NumbersConserved
      <4>. QED
        BY <4>1, <4>2
    <3>4. \A w \in Worker : With(w)' \subseteq 1 .. read' /\ With(w)' \cap (answered' \cup {num'}) = {}
      <4>. SUFFICES ASSUME NEW w \in Worker
                    PROVE  With(w)' \subseteq 1 .. read /\ With(w)' \cap (answered \cup {0}) = {}
        BY <3>1 DEF With
      <4>1. CASE w = subp
        BY <3>1, <3>2, <4>1 DEF With, NumbersConserved
      <4>2. CASE w # subp
        BY <3>2, <4>2 DEF With, NumbersConserved
      <4>. QED
        BY <4>1, <4>2
    <3>5. \A v, w \in Worker : v # w => With(v)' \cap With(w)' = {}
      BY <3>2 DEF With, NumbersConserved
    <3>6. num' \notin answered' /\ answered' \subseteq 1 .. read'
      BY <3>1 DEF NumbersConserved
    <3>. QED
      BY <3>3, <3>4, <3>5, <3>6 DEF With, NumbersConserved
  <2>. QED
    BY <2>1, <2>2
<1>4. ASSUME NEW w \in Worker, Input(w) PROVE NumbersConserved'
  <2>1. UNCHANGED <<read, num, answered>>
    BY <1>4 DEF Input, farm
  <2>. QED
    BY <1>4, <2>1, WithInput DEF With, NumbersConserved
<1>5. ASSUME NEW w \in Worker, Factor(w) PROVE NumbersConserved'
  <2>1. UNCHANGED <<read, num>> /\ answered' = answered \cup {held[w]}
    BY <1>5 DEF Factor, farm
  <2>2. /\ With(w) = {held[w]}
        /\ \A v \in Worker : With(v)' = IF v = w THEN {} ELSE With(v)
    BY <1>5, WithFactor
  <2>3. \A n \in 1 .. read' : n = num' \/ n \in answered' \/ \E v \in Worker : n \in With(v)'
    BY <2>1, <2>2 DEF With, NumbersConserved
  <2>4. num' \notin answered' /\ answered' \subseteq 1 .. read'
    BY <2>1, <2>2 DEF With, NumbersConserved
  <2>5. \A v \in Worker : With(v)' \subseteq 1 .. read' /\ With(v)' \cap (answered' \cup {num'}) = {}
    BY <2>1, <2>2 DEF With, NumbersConserved
  <2>6. \A u, v \in Worker : u # v => With(u)' \cap With(v)' = {}
    BY <2>2 DEF With, NumbersConserved
  <2>. QED
    BY <2>3, <2>4, <2>5, <2>6 DEF With, NumbersConserved
<1>6. CASE SpawnWorker \/ StopReading \/ NotANumber \/ ContinueWorker \/ CloseWorker \/ ReapWorker
           \/ CheckNoChild
  BY <1>1, <1>6 DEF SpawnWorker, StopReading, NotANumber, ContinueWorker, CloseWorker, ReapWorker,
     CheckNoChild, workers
<1>7. ASSUME NEW w \in Worker, GetAvailableWorker(w) \/ WaitForAllWorkers(w) PROVE NumbersConserved'
  BY <1>1, <1>7 DEF GetAvailableWorker, WaitForAllWorkers
<1>8. ASSUME NEW w \in Worker, Halt(w) \/ EndOfFile(w) \/ Kill(w) PROVE NumbersConserved'
  BY <1>1, <1>8 DEF Halt, EndOfFile, Kill, farm
<1>9. CASE UNCHANGED vars
  BY <1>1, <1>9 DEF vars, farm, workers
<1>. QED
  BY <1>2, <1>3, <1>4, <1>5, <1>6, <1>7, <1>8, <1>9 DEF Next, FarmStep, WorkerStep

\* A set of workers as large as the number of CPUs is the set of all workers.
LEMMA AllWorkers ==
  ASSUME NEW S \in SUBSET Worker
  PROVE  /\ IsFiniteSet(S) /\ Cardinality(S) \in Nat
         /\ kNumCPUs <= Cardinality(S) => S = Worker
<1>1. IsFiniteSet(Worker) /\ Cardinality(Worker) = kNumCPUs
  BY FS_Interval, FarmAssumption DEF Worker
<1>2. IsFiniteSet(S) /\ Cardinality(S) <= kNumCPUs /\ (kNumCPUs = Cardinality(S) => S = Worker)
  BY <1>1, FS_Subset
<1>3. Cardinality(S) \in Nat
  BY <1>2, FS_CardinalityType
<1>. QED
  BY <1>2, <1>3, FarmAssumption

\* One turn of the loop that reaps, whether it reaps a worker or finds none.
LEMMA ReapTurn ==
  ASSUME TypeOK, Counted, ReapWorker
  PROVE  NoChild' \/ count + 1 <= Cardinality(Reaped')
<1>. USE DEF TypeOK
<1>1. CASE NoChild /\ UNCHANGED proc
  BY <1>1 DEF NoChild
<1>2. ASSUME NEW w \in Worker, proc[w] = "zombie", proc' = [proc EXCEPT ![w] = "reaped"]
      PROVE  count + 1 <= Cardinality(Reaped')
  <2>1. Reaped' = Reaped \cup {w} /\ w \notin Reaped
    BY <1>2 DEF Reaped
  <2>2. count <= Cardinality(Reaped)
    BY <1>2 DEF Counted, NoChild, ReapWorker
  <2>3. IsFiniteSet(Reaped) /\ Cardinality(Reaped) \in Nat
    BY AllWorkers DEF Reaped
  <2>4. Cardinality(Reaped') = Cardinality(Reaped) + 1
    BY <2>1, <2>3, FS_AddElement
  <2>. QED
    BY <2>2, <2>3, <2>4
<1>. QED
  BY <1>1, <1>2 DEF ReapWorker

\* The loop that reaps has reaped one worker per turn, or found none left.
LEMMA CountedStep == IInv /\ [Next]_vars => Counted'
<1>. SUFFICES ASSUME TypeOK, Counted, [Next]_vars PROVE Counted'
  BY DEF IInv
<1>. USE DEF TypeOK
<1>1. Reaped \in SUBSET Worker /\ Reaped' \in SUBSET Worker
  BY DEF Reaped
<1>2. CASE ReapWorker
  <2>1. NoChild' \/ count + 1 <= Cardinality(Reaped')
    BY <1>2, ReapTurn
  <2>2. CASE count + 1 = kNumCPUs
    <3>1. NoChild' \/ Reaped' = Worker
      BY <1>1, <2>1, <2>2, AllWorkers
    <3>2. Reaped' = Worker => NoChild'
      BY DEF Reaped, NoChild
    <3>3. pc' = "check"
      BY <1>2, <2>2 DEF ReapWorker, TurnOr
    <3>. QED
      BY <3>1, <3>2, <3>3 DEF Counted
  <2>3. CASE count + 1 # kNumCPUs
    <3>1. pc' = "reap" /\ count' = count + 1
      BY <1>2, <2>3 DEF ReapWorker, TurnOr
    <3>. QED
      BY <2>1, <3>1 DEF Counted
  <2>. QED
    BY <2>2, <2>3
<1>3. CASE CloseWorker
  <2>1. pc' = "close" \/ (pc' = "reap" /\ count' = 0)
    BY <1>3 DEF CloseWorker, TurnOr
  <2>2. Cardinality(Reaped') \in Nat
    BY <1>1, AllWorkers
  <2>. QED
    BY <2>1, <2>2 DEF Counted
<1>4. CASE CheckNoChild
  BY <1>4 DEF CheckNoChild, Counted, NoChild, workers
<1>5. ASSUME NEW w \in Worker, WorkerStep(w) \/ Kill(w) PROVE Counted'
  <2>1. Reaped' = Reaped /\ (NoChild => NoChild') /\ UNCHANGED <<pc, count>>
    BY <1>5 DEF WorkerStep, Halt, Input, EndOfFile, Factor, Kill, Reaped, NoChild, farm
  <2>. QED
    BY <2>1 DEF Counted
<1>6. CASE SpawnWorker \/ ReadNumber \/ StopReading \/ NotANumber \/ WriteNumber \/ ContinueWorker
  BY <1>6 DEF SpawnWorker, ReadNumber, StopReading, NotANumber, WriteNumber, ContinueWorker, TurnOr,
     Counted
<1>7. ASSUME NEW w \in Worker, GetAvailableWorker(w) \/ WaitForAllWorkers(w) PROVE Counted'
  BY <1>7 DEF GetAvailableWorker, WaitForAllWorkers, TurnOr, Counted
<1>8. CASE UNCHANGED vars
  BY <1>8 DEF vars, farm, workers, Counted, NoChild, Reaped
<1>. QED
  BY <1>2, <1>3, <1>4, <1>5, <1>6, <1>7, <1>8 DEF Next, FarmStep

\* One turn of the loop that waits for the halts.
LEMMA CollectTurn ==
  ASSUME TypeOK, Workers, Undisturbed, killed = {}, NEW w \in Worker, WaitForAllWorkers(w)
  PROVE  /\ proc[w] = "stopped" /\ UNCHANGED proc
         /\ Idle' = Idle \cup {w} /\ Cardinality(Idle') = count + 1
<1>. USE DEF TypeOK
<1>1. proc[w] # "zombie"
  BY DEF Undisturbed, Dead, WaitForAllWorkers
<1>2. w \in halts /\ proc[w] = "stopped"
  BY <1>1 DEF WaitForAllWorkers, WaitUntraced, Waitable, Workers
<1>3. UNCHANGED proc /\ halts' = halts \ {w}
  BY <1>2 DEF WaitForAllWorkers, WaitUntraced
<1>4. Idle' = Idle \cup {w} /\ w \notin Idle
  BY <1>2, <1>3 DEF Idle
<1>5. IsFiniteSet(Idle) /\ Cardinality(Idle) = count
  BY AllWorkers DEF Idle, Undisturbed, WaitForAllWorkers
<1>. QED
  BY <1>2, <1>3, <1>4, <1>5, FS_AddElement

\* Every step keeps what holds while no worker is killed.
LEMMA UndisturbedStep == IInv /\ [Next]_vars => Undisturbed'
<1>. SUFFICES ASSUME TypeOK, Hand, Workers, Reported, NumbersConserved, Undisturbed, [Next]_vars,
                     killed' = {}
              PROVE  Undisturbed'
  BY DEF IInv, Undisturbed
<1>. USE DEF TypeOK
<1>1. CASE SpawnWorker
  <2>1. killed = {} /\ pc = "spawn"
    BY <1>1 DEF SpawnWorker
  <2>2. count + 1 \in Worker /\ supplyfd' = 1 .. count + 1
    BY <1>1, <2>1, FarmAssumption DEF SpawnWorker, Undisturbed, Worker
  <2>3. \A w \in Worker : Dead(w)' => w \notin supplyfd'
    BY <1>1, <2>1 DEF SpawnWorker, Undisturbed, Dead
  <2>4. (pc' = "spawn" /\ count' = count + 1) \/ (pc' = "read" /\ count + 1 = kNumCPUs)
    BY <1>1, <2>1 DEF SpawnWorker, TurnOr
  <2>. QED
    BY <2>2, <2>3, <2>4 DEF Undisturbed, Worker
<1>2. CASE ReadNumber \/ NotANumber
  BY <1>2 DEF ReadNumber, NotANumber, workers, Undisturbed, Dead
<1>3. CASE StopReading
  <2>1. Idle' = {}
    BY <1>3 DEF StopReading, Reported, Idle, workers
  <2>2. count' = 0 /\ killed = {} /\ pc' = "collect" /\ pc = "read" /\ UNCHANGED <<proc, supplyfd>>
    BY <1>3 DEF StopReading, Hand, workers
  <2>. QED
    BY <2>1, <2>2, FS_EmptySet DEF Undisturbed, Dead
<1>4. CASE WriteNumber
  BY <1>4 DEF WriteNumber, Undisturbed, Dead
<1>5. CASE ContinueWorker
  BY <1>5 DEF ContinueWorker, Continue, Undisturbed, Dead
<1>6. CASE CloseWorker
  <2>1. killed = {} /\ pc = "close" /\ UNCHANGED <<pipe, held>>
    BY <1>6 DEF CloseWorker
  <2>2. \A w \in Worker : With(w)' = {}
    BY <2>1, WithUnchanged DEF Undisturbed, With
  <2>3. \A w \in Worker : Dead(w)' => w \notin supplyfd'
    BY <1>6, <2>1 DEF CloseWorker, Continue, Undisturbed, Dead
  <2>4. pc' = "reap" \/ (pc' = "close" /\ count' = count + 1)
    BY <1>6 DEF CloseWorker, TurnOr
  <2>5. \A w \in Worker : w > count + 1 => proc'[w] = "stopped"
    BY <1>6, <2>1, FarmAssumption DEF CloseWorker, Continue, Undisturbed, Worker
  <2>. QED
    BY <2>2, <2>3, <2>4, <2>5 DEF Undisturbed, With
<1>7. CASE ReapWorker
  <2>1. killed = {} /\ pc = "reap" /\ pc' \in {"reap", "check"} /\ UNCHANGED <<pipe, held, supplyfd>>
    BY <1>7 DEF ReapWorker, TurnOr
  <2>2. \A w \in Worker : With(w)' = {}
    BY <2>1, WithUnchanged DEF Undisturbed, With
  <2>3. \A w \in Worker : Dead(w)' => w \notin supplyfd'
    BY <1>7, <2>1 DEF ReapWorker, Undisturbed, Dead
  <2>. QED
    BY <2>1, <2>2, <2>3 DEF Undisturbed, With
<1>8. CASE CheckNoChild
  BY <1>8, WithUnchanged DEF CheckNoChild, workers, Undisturbed, Dead, With
<1>9. ASSUME NEW w \in Worker, GetAvailableWorker(w) PROVE Undisturbed'
  BY <1>9 DEF GetAvailableWorker, WaitUntraced, Undisturbed, Dead
<1>10. ASSUME NEW w \in Worker, WaitForAllWorkers(w) PROVE Undisturbed'
  <2>1. killed = {} /\ pc = "collect" /\ UNCHANGED <<pipe, held, supplyfd>>
    BY <1>10 DEF WaitForAllWorkers
  <2>2. UNCHANGED proc /\ Cardinality(Idle') = count + 1
    BY <1>10, <2>1, CollectTurn
  <2>3. CASE count + 1 # kNumCPUs
    <3>1. pc' = "collect" /\ count' = count + 1
      BY <1>10, <2>1, <2>3 DEF WaitForAllWorkers, TurnOr
    <3>. QED
      BY <2>1, <2>2, <3>1 DEF Undisturbed, Dead
  <2>4. CASE count + 1 = kNumCPUs
    <3>1. pc' = "close"
      BY <1>10, <2>4 DEF WaitForAllWorkers, TurnOr
    <3>2. Idle' = Worker
      <4>1. Idle' \in SUBSET Worker
        BY DEF Idle
      <4>2. Cardinality(Idle') = kNumCPUs
        BY <2>2, <2>4
      <4>3. \A S \in SUBSET Worker : kNumCPUs <= Cardinality(S) => S = Worker
        BY AllWorkers
      <4>4. kNumCPUs <= Cardinality(Idle')
        BY <4>2, FarmAssumption
      <4>. QED
        BY <4>1, <4>3, <4>4
    <3>3. \A v \in Worker : proc'[v] = "stopped"
      BY <3>2 DEF Idle
    <3>4. \A v \in Worker : pipe[v] = <<>> /\ held[v] = 0
      BY <2>1, <2>2, <3>3 DEF Workers
    <3>5. \A v \in Worker : With(v)' = {}
      BY <2>1, <3>4 DEF With, Given
    <3>. QED
      BY <2>1, <2>2, <3>1, <3>3, <3>5 DEF Undisturbed, Dead, With
  <2>. QED
    BY <2>3, <2>4
<1>11. ASSUME NEW w \in Worker, Halt(w) PROVE Undisturbed'
  <2>1. Idle' = Idle /\ (\A v \in Worker : Dead(v)' = Dead(v))
    BY <1>11 DEF Halt, Idle, Dead, Workers
  <2>2. UNCHANGED <<farm, pipe, held, killed>>
    BY <1>11 DEF Halt
  <2>3. pc = "close" => \A v \in Worker : v > count => proc'[v] = "stopped"
    BY <1>11 DEF Halt, Undisturbed
  <2>. QED
    BY <2>1, <2>2, <2>3, WithUnchanged DEF Undisturbed, Dead, With, farm
<1>12. ASSUME NEW w \in Worker, Input(w) PROVE Undisturbed'
  <2>1. UNCHANGED <<farm, proc, halts, killed>>
    BY <1>12 DEF Input
  <2>2. \A v \in Worker : With(v)' = With(v)
    BY <1>12, WithInput
  <2>. QED
    BY <2>1, <2>2 DEF Undisturbed, Dead, Idle, With, farm
<1>13. ASSUME NEW w \in Worker, EndOfFile(w) PROVE Undisturbed'
  <2>1. UNCHANGED <<farm, halts, pipe, held, killed>> /\ proc' = [proc EXCEPT ![w] = "zombie"]
        /\ proc[w] = "running" /\ w \notin supplyfd
    BY <1>13 DEF EndOfFile
  <2>2. Idle' = Idle
    BY <2>1 DEF Idle
  <2>3. \A v \in Worker : Dead(v)' => v \notin supplyfd'
    BY <2>1 DEF Undisturbed, Dead, farm
  <2>4. pc = "close" => \A v \in Worker : v > count => proc'[v] = "stopped"
    BY <2>1 DEF Undisturbed
  <2>. QED
    BY <2>1, <2>2, <2>3, <2>4, WithUnchanged DEF Undisturbed, With, farm
<1>14. ASSUME NEW w \in Worker, Factor(w) PROVE Undisturbed'
  <2>1. UNCHANGED <<farm, proc, halts, killed>>
    BY <1>14 DEF Factor
  <2>2. \A v \in Worker : With(v)' = IF v = w THEN {} ELSE With(v)
    BY <1>14, WithFactor
  <2>. QED
    BY <2>1, <2>2 DEF Undisturbed, Dead, Idle, With, farm
<1>15. ASSUME NEW w \in Worker, Kill(w) PROVE FALSE
  BY <1>15 DEF Kill
<1>16. CASE UNCHANGED vars
  BY <1>16, WithUnchanged DEF vars, farm, workers, Undisturbed, Dead, Idle, With
<1>. QED
  BY <1>1, <1>2, <1>3, <1>4, <1>5, <1>6, <1>7, <1>8, <1>9, <1>10, <1>11, <1>12, <1>13, <1>14,
     <1>15, <1>16 DEF Next, FarmStep, WorkerStep

\* The invariant holds before the first worker is spawned.
LEMMA InitInvariant == Init => IInv
<1>. SUFFICES ASSUME Init PROVE IInv
  OBVIOUS
<1>. USE FarmAssumption
<1>1. TypeOK
  BY DEF Init, TypeOK, Worker
<1>2. \A w \in Worker : With(w) = {}
  BY DEF Init, With, Given
<1>3. Hand /\ Workers /\ Reported /\ Counted
  BY DEF Init, Hand, Workers, Reported, Counted, Worker
<1>4. NumbersConserved
  BY <1>2 DEF Init, NumbersConserved
<1>5. Undisturbed
  BY DEF Init, Undisturbed, Dead
<1>. QED
  BY <1>1, <1>3, <1>4, <1>5 DEF IInv

\* The inductive invariant is one.
THEOREM Invariance == Spec => []IInv
<1>1. IInv /\ [Next]_vars => IInv'
  BY TypeStep, HandStep, WorkersStep, ReportedStep, ConservedStep, CountedStep, UndisturbedStep
     DEF IInv
<1>. QED
  BY InitInvariant, <1>1, PTL DEF Spec

\* Every variable of the farm and its workers keeps its type.
THEOREM TypeCorrectness == Spec => []TypeOK
<1>1. IInv => TypeOK
  BY DEF IInv
<1>. QED
  BY Invariance, <1>1, PTL

\* No number is lost or doubled on its way from the input to an answer.
THEOREM Conservation == Spec => []NumbersConserved
<1>1. IInv => NumbersConserved
  BY DEF IInv
<1>. QED
  BY Invariance, <1>1, PTL

\* A number is only given to a worker that has nothing else to do.
THEOREM Balance == Spec => []OneNumberPerWorker
<1>1. IInv => OneNumberPerWorker
  <2>. SUFFICES ASSUME IInv, NEW w \in Worker
                PROVE  /\ Len(pipe[w]) <= 1
                       /\ pipe[w] # <<>> => held[w] = 0 /\ at[w] = "input"
    BY DEF OneNumberPerWorker
  <2>1. CASE pipe[w] = <<>>
    BY <2>1
  <2>2. CASE pipe[w] # <<>>
    <3>1. Len(pipe[w]) = 1 /\ at[w] = "input"
      BY <2>2 DEF IInv, Workers
    <3>2. held[w] = 0
      BY <3>1 DEF IInv, Workers
    <3>. QED
      BY <3>1, <3>2
  <2>. QED
    BY <2>1, <2>2
<1>. QED
  BY Invariance, <1>1, PTL

\* The two assertions of farm.cc never fail, whoever is killed.
THEOREM AssertionsHold == Spec => []NoZombieLeft
<1>1. IInv => NoZombieLeft
  <2>. SUFFICES ASSUME IInv, pc = "dispatch"
                PROVE  ~NoChild
    BY DEF IInv, Counted, NoZombieLeft
  <2>1. 1 \in Worker
    BY FarmAssumption DEF Worker
  <2>. QED
    BY <2>1 DEF IInv, Workers, Reported, NoChild
<1>. QED
  BY Invariance, <1>1, PTL

\* No SIGCONT is sent before the stop it is to end.
THEOREM ContinueFindsStopped == Spec => []NoContinueLost
<1>1. IInv => NoContinueLost
  BY DEF IInv, Reported, Undisturbed, NoContinueLost, Dead
<1>. QED
  BY Invariance, <1>1, PTL

\* The pipes are closed only when every number read is answered.
THEOREM AnsweredBeforeClosing == Spec => []ClosedWhenAnswered
<1>1. IInv => ClosedWhenAnswered
  <2>. SUFFICES ASSUME IInv, killed = {}, pc \in {"close", "reap", "check", "done"}
                PROVE  answered = 1 .. read
    BY DEF ClosedWhenAnswered
  <2>1. num = 0 /\ \A w \in Worker : With(w) = {}
    BY DEF IInv, Hand, Undisturbed
  <2>2. \A n \in 1 .. read : n \in answered
    BY <2>1 DEF IInv, NumbersConserved
  <2>3. answered \subseteq 1 .. read
    BY DEF IInv, NumbersConserved
  <2>. QED
    BY <2>2, <2>3
<1>. QED
  BY Invariance, <1>1, PTL

\* The steps of the farm that the abstract farm does not see.
LEMMA Stutters ==
  ASSUME UNCHANGED <<read, pipe, held, answered>>,
         (pc \in {"close", "reap", "check", "done"})' = (pc \in {"close", "reap", "check", "done"})
  PROVE  UNCHANGED Abstract!vars
<1>1. \A w \in Worker : With(w)' = With(w)
  BY WithUnchanged
<1>2. [w \in Worker |-> With(w)]' = [w \in Worker |-> With(w)]
  BY <1>1 DEF With
<1>. QED
  BY <1>2 DEF Abstract!vars

\* The only step that closes finds every number answered.
LEMMA CloseStep ==
  ASSUME IInv, IInv', killed' = {}, NEW w \in Worker, WaitForAllWorkers(w), pc' = "close"
  PROVE  Abstract!Close
<1>1. answered' = 1 .. read'
  <2>1. num' = 0 /\ \A v \in Worker : With(v)' = {}
    BY DEF IInv, Hand, Undisturbed
  <2>2. \A n \in 1 .. read' : n = num' \/ n \in answered' \/ \E v \in Worker : n \in With(v)'
    <3>1. NumbersConserved'
      BY DEF IInv
    <3>. QED
      BY <3>1 DEF NumbersConserved, With
  <2>3. answered' \subseteq 1 .. read'
    BY DEF IInv, NumbersConserved
  <2>4. \A n \in 1 .. read' : n # 0
    BY DEF IInv, TypeOK
  <2>. QED
    BY <2>1, <2>2, <2>3, <2>4 DEF With
<1>2. UNCHANGED <<read, pipe, held, answered>>
  BY DEF WaitForAllWorkers
<1>3. [v \in Worker |-> With(v)]' = [v \in Worker |-> With(v)]
  BY <1>2, WithUnchanged DEF With
<1>. QED
  BY <1>1, <1>2, <1>3 DEF Abstract!Close

\* Reading a number is the abstract farm being supplied one.
LEMMA SupplyStep ==
  ASSUME ReadNumber
  PROVE  Abstract!Supply
<1>1. UNCHANGED <<pipe, held, answered>> /\ read' = read + 1 /\ pc = "read" /\ pc' = "dispatch"
  BY DEF ReadNumber, workers
<1>2. [v \in Worker |-> With(v)]' = [v \in Worker |-> With(v)]
  BY <1>1, WithUnchanged DEF With
<1>. QED
  BY <1>1, <1>2 DEF Abstract!Supply

\* A number that is written goes to a worker that has none, and is new.
LEMMA AssignStep ==
  ASSUME IInv, WriteNumber, ~Dead(subp)
  PROVE  num \in 1 .. read /\ Abstract!Assign(subp, num)
<1>. USE DEF TypeOK
<1>1. TypeOK /\ num \in 1 .. read /\ num \notin answered /\ \A v \in Worker : num \notin With(v)
  BY DEF IInv, Hand, NumbersConserved, WriteNumber
<1>2. With(subp) = {} /\ \A v \in Worker : With(v)' = IF v = subp THEN {num} ELSE With(v)
  BY WithWrite DEF IInv
<1>3. [v \in Worker |-> With(v)]' = [[v \in Worker |-> With(v)] EXCEPT ![subp] = {num}]
  BY <1>1, <1>2 DEF With
<1>4. pc = "write" /\ pc' = "continue" /\ UNCHANGED <<read, answered>>
  BY DEF WriteNumber
<1>. QED
  BY <1>1, <1>2, <1>3, <1>4 DEF Abstract!Assign

\* A worker that prints answers what it was given.
LEMMA AnswerStep ==
  ASSUME IInv, NEW w \in Worker, Factor(w)
  PROVE  Abstract!Answer(w)
<1>1. With(w) = {held[w]} /\ \A v \in Worker : With(v)' = IF v = w THEN {} ELSE With(v)
  BY WithFactor DEF IInv
<1>2. [v \in Worker |-> With(v)]' = [[v \in Worker |-> With(v)] EXCEPT ![w] = {}]
  BY <1>1 DEF With
<1>3. UNCHANGED <<pc, read>> /\ answered' = answered \cup {held[w]}
  BY DEF Factor, farm
<1>. QED
  BY <1>1, <1>2, <1>3 DEF Abstract!Answer

\* Every step is a step of the abstract farm or unseen by it.
LEMMA StepSimulation ==
  ASSUME IInv, IInv', killed = {}, killed' = {}, [Next]_vars
  PROVE  [Abstract!Next]_Abstract!vars
<1>1. CASE ReadNumber
  BY <1>1, SupplyStep DEF Abstract!Next
<1>2. CASE WriteNumber
  <2>1. CASE Dead(subp)
    BY <1>2, <2>1, Stutters DEF WriteNumber
  <2>2. CASE ~Dead(subp)
    BY <1>2, <2>2, AssignStep DEF Abstract!Next, IInv, TypeOK
  <2>. QED
    BY <2>1, <2>2
<1>3. ASSUME NEW w \in Worker, Factor(w) PROVE Abstract!Next
  BY <1>3, AnswerStep DEF Abstract!Next
<1>4. ASSUME NEW w \in Worker, WaitForAllWorkers(w) PROVE [Abstract!Next]_Abstract!vars
  <2>1. CASE pc' = "close"
    BY <1>4, <2>1, CloseStep DEF Abstract!Next
  <2>2. CASE pc' # "close"
    BY <1>4, <2>2, Stutters DEF WaitForAllWorkers, TurnOr
  <2>. QED
    BY <2>1, <2>2
<1>5. ASSUME NEW w \in Worker, Input(w) PROVE UNCHANGED Abstract!vars
  <2>1. \A v \in Worker : With(v)' = With(v)
    BY <1>5, WithInput DEF IInv
  <2>2. [v \in Worker |-> With(v)]' = [v \in Worker |-> With(v)]
    BY <2>1 DEF With
  <2>3. UNCHANGED <<pc, read, answered>>
    BY <1>5 DEF Input, farm
  <2>. QED
    BY <2>2, <2>3 DEF Abstract!vars
<1>6. ASSUME NEW w \in Worker, Halt(w) \/ EndOfFile(w) \/ Kill(w) PROVE UNCHANGED Abstract!vars
  BY <1>6, Stutters DEF Halt, EndOfFile, Kill, farm
<1>7. ASSUME NEW w \in Worker, GetAvailableWorker(w) PROVE UNCHANGED Abstract!vars
  BY <1>7, Stutters DEF GetAvailableWorker
<1>8. CASE SpawnWorker \/ StopReading \/ NotANumber \/ ContinueWorker
  BY <1>8, Stutters DEF SpawnWorker, StopReading, NotANumber, ContinueWorker, TurnOr, workers
<1>9. CASE CloseWorker \/ ReapWorker
  BY <1>9, Stutters DEF CloseWorker, ReapWorker, TurnOr
<1>10. CASE CheckNoChild
  BY <1>10, Stutters DEF CheckNoChild, workers, IInv, Counted
<1>11. CASE UNCHANGED vars
  BY <1>11, Stutters DEF vars, farm, workers
<1>. QED
  BY <1>1, <1>2, <1>3, <1>4, <1>5, <1>6, <1>7, <1>8, <1>9, <1>10, <1>11
     DEF Next, FarmStep, WorkerStep

\* Who was killed stays so.
LEMMA KilledStays == [Next]_vars => killed \subseteq killed'
<1>. SUFFICES ASSUME [Next]_vars PROVE killed \subseteq killed'
  OBVIOUS
<1>1. CASE FarmStep
  BY <1>1 DEF FarmStep, SpawnWorker, WriteNumber, ContinueWorker, CloseWorker, ReapWorker,
     CheckNoChild, GetAvailableWorker, WaitForAllWorkers, workers
<1>2. CASE ReadNumber \/ StopReading \/ NotANumber
  BY <1>2 DEF ReadNumber, StopReading, NotANumber, workers
<1>3. ASSUME NEW w \in Worker, WorkerStep(w) PROVE killed \subseteq killed'
  BY <1>3 DEF WorkerStep, Halt, Input, EndOfFile, Factor
<1>4. ASSUME NEW w \in Worker, Kill(w) PROVE killed \subseteq killed'
  BY <1>4 DEF Kill
<1>5. CASE UNCHANGED vars
  BY <1>5 DEF vars, workers
<1>. QED
  BY <1>1, <1>2, <1>3, <1>4, <1>5 DEF Next

\* Until a worker is killed, the farm implements the abstract task farm: every
\* step gives one new number to one idle worker, answers one, closes, or is unseen.
THEOREM Refinement == Spec => ImplementsTaskFarm
<1>1. Init => Abstract!Init
  <2>. SUFFICES ASSUME Init PROVE Abstract!Init
    OBVIOUS
  <2>1. \A w \in Worker : With(w) = {}
    BY DEF Init, With, Given
  <2>. QED
    BY <2>1 DEF Init, Abstract!Init
<1>2. IInv /\ IInv' /\ [Next]_vars => [killed' = {} => Abstract!Next]_(Abstract!vars)
  <2>. SUFFICES ASSUME IInv, IInv', [Next]_vars, killed' = {}
                PROVE  [Abstract!Next]_(Abstract!vars)
    OBVIOUS
  <2>1. killed = {}
    BY KilledStays
  <2>. QED
    BY <2>1, StepSimulation
<1>. QED
  BY Invariance, <1>1, <1>2, PTL DEF Spec, ImplementsTaskFarm

==============================================================================

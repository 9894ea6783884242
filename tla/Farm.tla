--------------------------------- MODULE Farm ---------------------------------
(* farm.cc: numbers read from standard input are distributed over one          *)
(* self-halting factor.py per CPU; factor.py; and what the kernel tells the    *)
(* farm of the workers' stops and ends.  Workers are numbered by their place   *)
(* in the vector workers, numbers by their place in the input.                 *)
EXTENDS Naturals, Sequences, FiniteSets

CONSTANTS
  kNumCPUs,    \* the number of workers
  MaxNumbers,  \* bound: the numbers the user enters
  MaxKills     \* bound: the workers that something outside the program kills

ASSUME FarmAssumption == kNumCPUs \in Nat \ {0} /\ MaxNumbers \in Nat /\ MaxKills \in Nat

VARIABLES
  pc,          \* the function of farm.cc that runs
  count,       \* its loop counter
  read,        \* how many numbers were read
  num,         \* the number in hand, 0 if none
  subp,        \* the worker getAvailableWorker returned
  supplyfd,    \* the workers whose input pipe the farm holds open
  proc,        \* kernel: what each worker is doing
  halts,       \* kernel: the workers whose stop waitpid has yet to report
  pipe,        \* the numbers in each worker's input pipe
  at,          \* factor.py: where each worker is in its loop
  held,        \* factor.py: the number each worker is factoring, 0 if none
  answered,    \* the numbers whose factorization was printed
  killed       \* the workers killed from outside

farm    == <<pc, count, read, num, subp, supplyfd>>
workers == <<proc, halts, pipe, at, held, answered, killed>>
vars    == <<farm, workers>>

Worker == 1 .. kNumCPUs
------------------------------------------------------------------------------
Init ==
  /\ pc = "spawn" /\ count = 0 /\ read = 0 /\ num = 0 /\ subp = 1 /\ supplyfd = {}
  /\ proc = [w \in Worker |-> "unborn"]
  /\ halts = {}
  /\ pipe = [w \in Worker |-> <<>>]
  /\ at   = [w \in Worker |-> "halt"]
  /\ held = [w \in Worker |-> 0]
  /\ answered = {} /\ killed = {}

\* The farm is gone, and with it (prctl, factor.py:14) its workers.
Over == pc \in {"done", "aborted"}

Dead(w)     == proc[w] \in {"zombie", "reaped"}
NoChild     == \A w \in Worker : proc[w] \in {"unborn", "reaped"}
Waitable(w) == proc[w] = "zombie" \/ w \in halts

\* waitpid(-1, &status, WUNTRACED) returns w.
WaitUntraced(w) ==
  /\ Waitable(w)
  /\ proc' = [proc EXCEPT ![w] = IF @ = "zombie" THEN "reaped" ELSE @]
  /\ halts' = halts \ {w}

\* kill(pid of w, SIGCONT): a stop that was not reported never will be.
Continue(w) ==
  /\ proc' = [proc EXCEPT ![w] = IF @ = "stopped" THEN "running" ELSE @]
  /\ halts' = halts \ {w}

\* Slip: the loops over all workers run once too often.
OneTurnMore(next) ==
  IF count = kNumCPUs THEN pc' = next /\ count' = 0
                      ELSE count' = count + 1 /\ UNCHANGED pc

\* The loops over all workers: the next turn, or the function that follows.
TurnOr(next) ==
  IF count + 1 = kNumCPUs THEN pc' = next /\ count' = 0
                          ELSE count' = count + 1 /\ UNCHANGED pc
------------------------------------------------------------------------------
(* farm.cc *)

\* spawnAllWorkers: fork worker count + 1, with its input pipe.
SpawnWorker ==
  LET w == count + 1 IN
  /\ pc = "spawn"
  /\ proc' = [proc EXCEPT ![w] = "running"]
  /\ supplyfd' = supplyfd \cup {w}
  /\ TurnOr("read")
  /\ UNCHANGED <<read, num, subp, halts, pipe, at, held, answered, killed>>

\* broadcastNumbersToWorkers reads a line that is a number.
ReadNumber ==
  /\ pc = "read"
  /\ read < MaxNumbers
  /\ read' = read + 1
  /\ num' = read + 1
  /\ pc' = "dispatch"
  /\ UNCHANGED <<count, subp, supplyfd, workers>>

\* End of the input, or characters after the number: the loop ends.
StopReading ==
  /\ pc = "read"
  /\ pc' = "collect"
  /\ UNCHANGED <<count, read, num, subp, supplyfd, workers>>

\* stoll throws on a line that does not begin with a number; nobody catches it.
NotANumber ==
  /\ pc = "read"
  /\ pc' = "aborted"
  /\ UNCHANGED <<count, read, num, subp, supplyfd, workers>>

\* Slip: any worker will do, whether it halted or not.
GetAnyWorker(w) ==
  /\ pc = "dispatch"
  /\ subp' = w
  /\ pc' = "write"
  /\ UNCHANGED <<count, read, num, supplyfd, workers>>

\* getAvailableWorker: whoever waitpid reports, stopped or dead.
GetAvailableWorker(w) ==
  /\ pc = "dispatch"
  /\ WaitUntraced(w)
  /\ subp' = w
  /\ pc' = "write"
  /\ UNCHANGED <<count, read, num, supplyfd, pipe, at, held, answered, killed>>

\* Slip: the number is written for every worker.
WriteToAll ==
  /\ pc = "write"
  /\ ~Dead(subp)
  /\ pipe' = [w \in Worker |-> Append(pipe[w], num)]
  /\ num' = 0
  /\ pc' = "continue"
  /\ UNCHANGED <<count, read, subp, supplyfd, proc, halts, at, held, answered, killed>>

\* dprintf to the worker; if it is dead, SIGPIPE ends the farm.
WriteNumber ==
  /\ pc = "write"
  /\ \/ /\ ~Dead(subp)
        /\ pipe' = [pipe EXCEPT ![subp] = Append(@, num)]
        /\ num' = 0
        /\ pc' = "continue"
     \/ /\ Dead(subp)
        /\ pc' = "aborted"
        /\ UNCHANGED <<pipe, num>>
  /\ UNCHANGED <<count, read, subp, supplyfd, proc, halts, at, held, answered, killed>>

\* kill(subp.pid, SIGCONT)
ContinueWorker ==
  /\ pc = "continue"
  /\ Continue(subp)
  /\ pc' = "read"
  /\ UNCHANGED <<count, read, num, subp, supplyfd, pipe, at, held, answered, killed>>
------------------------------------------------------------------------------
\* Slip: one worker too few is waited for.
WaitForAllButOne(w) ==
  /\ pc = "collect"
  /\ WaitUntraced(w)
  /\ IF count + 2 >= kNumCPUs THEN pc' = "close" /\ count' = 0
                              ELSE count' = count + 1 /\ UNCHANGED pc
  /\ UNCHANGED <<read, num, subp, supplyfd, pipe, at, held, answered, killed>>

\* waitForAllWorkers: one turn for every worker, whoever is reported.
WaitForAllWorkers(w) ==
  /\ pc = "collect"
  /\ WaitUntraced(w)
  /\ TurnOr("close")
  /\ UNCHANGED <<read, num, subp, supplyfd, pipe, at, held, answered, killed>>

\* Slip: the workers are continued with their pipes left open.
ContinueOnly ==
  /\ pc = "close"
  /\ Continue(count + 1)
  /\ TurnOr("reap")
  /\ UNCHANGED <<read, num, subp, supplyfd, pipe, at, held, answered, killed>>

\* closeAllWorkers, first loop: close the pipe of worker count + 1, continue it.
CloseWorker ==
  LET w == count + 1 IN
  /\ pc = "close"
  /\ supplyfd' = supplyfd \ {w}
  /\ Continue(w)
  /\ TurnOr("reap")
  /\ UNCHANGED <<read, num, subp, pipe, at, held, answered, killed>>

\* Slip: the second loop runs once too seldom.
ReapAllButOne ==
  /\ pc = "reap"
  /\ \/ \E w \in Worker :
          proc[w] = "zombie" /\ proc' = [proc EXCEPT ![w] = "reaped"]
     \/ NoChild /\ UNCHANGED proc
  /\ IF count + 2 >= kNumCPUs THEN pc' = "check" /\ count' = 0
                              ELSE count' = count + 1 /\ UNCHANGED pc
  /\ UNCHANGED <<read, num, subp, supplyfd, halts, pipe, at, held, answered, killed>>

\* closeAllWorkers, second loop: waitpid(-1, NULL, 0) returns a worker that
\* ended, or at once if none is left.
ReapWorker ==
  /\ pc = "reap"
  /\ \/ \E w \in Worker :
          proc[w] = "zombie" /\ proc' = [proc EXCEPT ![w] = "reaped"]
     \/ NoChild /\ UNCHANGED proc
  /\ TurnOr("check")
  /\ UNCHANGED <<read, num, subp, supplyfd, halts, pipe, at, held, answered, killed>>

\* The last waitpid finds no child, as the assertion says; with one left it
\* would block until that one ends, and the assertion would fail.
CheckNoChild ==
  /\ pc = "check"
  /\ NoChild \/ \E w \in Worker : proc[w] = "zombie"
  /\ pc' = IF NoChild THEN "done" ELSE "aborted"
  /\ UNCHANGED <<count, read, num, subp, supplyfd, workers>>
------------------------------------------------------------------------------
(* factor.py *)

\* os.kill(pid, signal.SIGSTOP)
Halt(w) ==
  /\ ~Over
  /\ proc[w] = "running" /\ at[w] = "halt"
  /\ proc' = [proc EXCEPT ![w] = "stopped"]
  /\ halts' = halts \cup {w}
  /\ at' = [at EXCEPT ![w] = "input"]
  /\ UNCHANGED <<farm, pipe, held, answered, killed>>

\* input() returns the next line of the pipe.
Input(w) ==
  /\ ~Over
  /\ proc[w] = "running" /\ at[w] = "input"
  /\ pipe[w] # <<>>
  /\ held' = [held EXCEPT ![w] = Head(pipe[w])]
  /\ pipe' = [pipe EXCEPT ![w] = Tail(@)]
  /\ at' = [at EXCEPT ![w] = "factor"]
  /\ UNCHANGED <<farm, proc, halts, answered, killed>>

\* input() raises EOFError: the pipe is empty and closed, the worker ends.
EndOfFile(w) ==
  /\ ~Over
  /\ proc[w] = "running" /\ at[w] = "input"
  /\ pipe[w] = <<>> /\ w \notin supplyfd
  /\ proc' = [proc EXCEPT ![w] = "zombie"]
  /\ UNCHANGED <<farm, halts, pipe, at, held, answered, killed>>

\* factorization, print and flush.
Factor(w) ==
  /\ ~Over
  /\ proc[w] = "running" /\ at[w] = "factor"
  /\ answered' = answered \cup {held[w]}
  /\ held' = [held EXCEPT ![w] = 0]
  /\ at' = [at EXCEPT ![w] = "halt"]
  /\ UNCHANGED <<farm, proc, halts, pipe, killed>>

\* Something outside the program (the out-of-memory killer, a user) kills w.
Kill(w) ==
  /\ ~Over
  /\ Cardinality(killed) < MaxKills
  /\ proc[w] \in {"running", "stopped"}
  /\ proc' = [proc EXCEPT ![w] = "zombie"]
  /\ halts' = halts \ {w}
  /\ killed' = killed \cup {w}
  /\ UNCHANGED <<farm, pipe, at, held, answered>>
------------------------------------------------------------------------------
\* What the farm does once its input is there.
FarmStep ==
  \/ SpawnWorker \/ WriteNumber \/ ContinueWorker \/ CloseWorker \/ ReapWorker \/ CheckNoChild
  \/ \E w \in Worker : GetAvailableWorker(w) \/ WaitForAllWorkers(w)

WorkerStep(w) == Halt(w) \/ Input(w) \/ EndOfFile(w) \/ Factor(w)

Next ==
  \/ FarmStep \/ ReadNumber \/ StopReading \/ NotANumber
  \/ \E w \in Worker : WorkerStep(w) \/ Kill(w)

Spec == Init /\ [][Next]_vars

\* The operating system schedules the farm and every worker that is not stopped.
FairSpec == Spec /\ WF_vars(FarmStep) /\ \A w \in Worker : WF_vars(WorkerStep(w))
------------------------------------------------------------------------------
\* The types of the variables of the farm, the kernel and the workers.
TypeOK ==
  /\ pc \in {"spawn", "read", "dispatch", "write", "continue", "collect", "close", "reap",
              "check", "done", "aborted"}
  /\ count \in 0 .. kNumCPUs - 1
  /\ read \in Nat /\ num \in Nat /\ subp \in Worker /\ supplyfd \in SUBSET Worker
  /\ proc \in [Worker -> {"unborn", "running", "stopped", "zombie", "reaped"}]
  /\ halts \in SUBSET Worker
  /\ pipe \in [Worker -> Seq(Nat)]
  /\ at \in [Worker -> {"halt", "input", "factor"}]
  /\ held \in [Worker -> Nat]
  /\ answered \in SUBSET Nat /\ killed \in SUBSET Worker

\* The numbers a worker was given and has not answered.
Given(line, n) == {line[i] : i \in DOMAIN line} \cup ({n} \ {0})
With(w) == Given(pipe[w], held[w])

\* A number is only given to a worker that has nothing else to do: the load is
\* balanced by who halts, and no number waits in a pipe behind another.
OneNumberPerWorker ==
  \A w \in Worker :
    /\ Len(pipe[w]) <= 1
    /\ pipe[w] # <<>> => held[w] = 0 /\ at[w] = "input"

\* Every number that was read is in one place: in the farm's hand, with one
\* worker, or answered.  None is lost, doubled, or answered again.
NumbersConserved ==
  /\ \A n \in 1 .. read : n = num \/ n \in answered \/ \E w \in Worker : n \in With(w)
  /\ answered \subseteq 1 .. read /\ \A w \in Worker : With(w) \subseteq 1 .. read
  /\ num \notin answered
  /\ \A w \in Worker : With(w) \cap (answered \cup {num}) = {}
  /\ \A v, w \in Worker : v # w => With(v) \cap With(w) = {}

\* The two assertions of farm.cc: getAvailableWorker always finds a child to
\* wait for, and when closeAllWorkers returns no child is left behind.
NoZombieLeft ==
  /\ pc = "dispatch" => ~NoChild
  /\ pc \in {"check", "done"} => NoChild

\* Every SIGCONT finds its worker stopped (or killed): none is sent before the
\* stop it is to end, and lost.
NoContinueLost ==
  /\ pc = "continue" => proc[subp] # "running"
  /\ pc = "close" /\ killed = {} => \A w \in Worker : w > count => proc[w] = "stopped"

\* Unless a worker was killed, the pipes are closed only when every number is
\* answered.
ClosedWhenAnswered ==
  killed = {} /\ pc \in {"close", "reap", "check", "done"} => answered = 1 .. read

------------------------------------------------------------------------------
(* The inductive invariant: what ties the places of farm.cc to the workers.    *)

\* The number in hand, and the counter outside the loops.
Hand ==
  /\ num \in {0, read}
  /\ pc \in {"dispatch", "write"} => num # 0
  /\ pc \notin {"dispatch", "write", "aborted"} => num = 0
  /\ pc \in {"read", "dispatch", "write", "continue", "check", "done"} => count = 0

\* Each worker: only at the input does it stop or have a number in its pipe,
\* and a stopped worker with a number is the one about to be continued.
Workers ==
  \A w \in Worker :
    /\ proc[w] = "unborn" => pc = "spawn" /\ w > count
    /\ pc = "spawn" /\ w > count => proc[w] = "unborn"
    /\ w \in halts => proc[w] = "stopped"
    /\ proc[w] = "stopped" => at[w] = "input"
    /\ held[w] # 0 <=> at[w] = "factor"
    /\ pipe[w] # <<>> => Len(pipe[w]) = 1 /\ at[w] = "input"
    /\ proc[w] = "stopped" /\ pipe[w] # <<>> => pc = "continue" /\ w = subp

\* Which stops and ends waitpid has already reported.
Reported ==
  /\ pc \in {"write", "continue"} => Dead(subp) \/ (proc[subp] = "stopped" /\ subp \notin halts)
  /\ \A w \in Worker :
       /\ proc[w] = "stopped" /\ w \notin halts /\ pc \in {"write", "continue"} => w = subp
       /\ proc[w] = "stopped" /\ w \notin halts => pc \notin {"spawn", "read", "dispatch"}
       /\ proc[w] = "reaped" => pc \notin {"spawn", "read", "dispatch", "continue"}
       /\ proc[w] = "reaped" /\ pc = "write" => w = subp

\* What the loops have counted.
Reaped == {w \in Worker : proc[w] = "reaped"}
Idle   == {w \in Worker : proc[w] = "stopped" /\ w \notin halts}

Counted ==
  /\ pc = "reap" => NoChild \/ count <= Cardinality(Reaped)
  /\ pc \in {"check", "done"} => NoChild

\* What holds as long as no worker was killed: workers end only when their pipe
\* is closed, the loop of waitForAllWorkers counts halted workers, and the pipes
\* are closed when all of them have halted with nothing left to do.
Undisturbed ==
  killed = {} =>
    /\ \A w \in Worker : Dead(w) => w \notin supplyfd
    /\ pc \in {"read", "dispatch", "write", "continue", "collect"} => supplyfd = Worker
    /\ pc = "spawn" => supplyfd = 1 .. count
    /\ pc = "collect" => count = Cardinality(Idle)
    /\ pc = "close" => \A w \in Worker : w > count => proc[w] = "stopped"
    /\ pc \in {"close", "reap", "check", "done"} => \A w \in Worker : With(w) = {}

IInv == TypeOK /\ Hand /\ Workers /\ Reported /\ NumbersConserved /\ Counted /\ Undisturbed
------------------------------------------------------------------------------
\* Every number read is answered, unless bad input ends the farm or a worker was
\* killed.
NumbersAreAnswered ==
  \A n \in 1 .. MaxNumbers : read >= n ~> n \in answered \/ pc = "aborted" \/ killed # {}

\* After the end of the input the farm ends, and its assertions hold, unless a
\* worker was killed.
FarmEnds == pc = "collect" ~> pc = "done" \/ killed # {}

\* The farm keeps the promise of TaskFarm with every step, until a worker is killed.
Abstract == INSTANCE TaskFarm WITH
  supplied <- read,
  assigned <- [w \in Worker |-> With(w)],
  closed   <- pc \in {"close", "reap", "check", "done"}

ImplementsTaskFarm ==
  Abstract!Init /\ [][killed' = {} => Abstract!Next]_(Abstract!vars)
==============================================================================

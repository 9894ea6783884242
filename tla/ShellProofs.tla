---------------------------- MODULE ShellProofs ------------------------------
(* Theorems about the shell, for every set of process ids, every bound on the *)
(* length of a pipeline and every choice of keys.                             *)
EXTENDS Shell, SequenceTheorems, TLAPS

\* addJob returns a job list.
LEMMA AddJobType ==
  ASSUME NEW list, IsJobMap(list), NEW num \in JobNum, NEW state \in JobState
  PROVE  IsJobMap(AddJob(list, num, state))
<1>1. NewJob(state) \in Job
  BY DEF NewJob, Job
<1>. QED
  BY <1>1 DEF AddJob, IsJobMap

\* Replacing a job by a job keeps a job list, and its numbers.
LEMMA SetJobType ==
  ASSUME NEW list, IsJobMap(list), NEW num,
         NEW job, num \in DOMAIN list => job \in Job
  PROVE  IsJobMap(SetJob(list, num, job)) /\ DOMAIN SetJob(list, num, job) = DOMAIN list
BY DEF SetJob, IsJobMap

\* erase keeps a job list.
LEMMA EraseType ==
  ASSUME NEW list, IsJobMap(list), NEW num
  PROVE  IsJobMap(Erase(list, num))
BY DEF Erase, IsJobMap

\* addProcess appends one running process and keeps the rest.
LEMMA AddProcessType ==
  ASSUME NEW job \in Job, NEW pid \in Pid
  PROVE  /\ AddProcess(job, pid) \in Job
         /\ AddProcess(job, pid).state = job.state
         /\ AddProcess(job, pid).procs = Append(job.procs, [pid |-> pid, state |-> "kRunning"])
<1>1. [pid |-> pid, state |-> "kRunning"] \in Process
  BY DEF Process, ProcState
<1>. QED
  BY <1>1 DEF AddProcess, Job

\* setState of a process changes that process only.
LEMMA SetProcessStateType ==
  ASSUME NEW job \in Job, NEW pid \in Pid, NEW state \in ProcState
  PROVE  /\ SetProcessState(job, pid, state) \in Job
         /\ SetProcessState(job, pid, state).state = job.state
         /\ DOMAIN SetProcessState(job, pid, state).procs = DOMAIN job.procs
         /\ \A i \in DOMAIN job.procs :
              SetProcessState(job, pid, state).procs[i] =
                IF job.procs[i].pid = pid
                THEN [pid |-> pid, state |-> state] ELSE job.procs[i]
<1>. DEFINE s == job.procs
            t == [i \in 1 .. Len(s) |->
                    IF s[i].pid = pid THEN [s[i] EXCEPT !.state = state] ELSE s[i]]
<1>1. s \in Seq(Process) /\ DOMAIN s = 1 .. Len(s) /\ Len(s) \in Nat
  BY DEF Job
<1>2. \A i \in 1 .. Len(s) : s[i] \in Process
  BY <1>1
<1>3. \A i \in 1 .. Len(s) :
        s[i].pid = pid => [s[i] EXCEPT !.state = state] = [pid |-> pid, state |-> state]
  BY <1>2 DEF Process
<1>4. \A i \in 1 .. Len(s) : t[i] \in Process
  BY <1>2, <1>3 DEF Process
<1>5. t \in Seq(Process)
  <2>1. t \in [1 .. Len(s) -> Process]
    BY <1>4
  <2>. QED
    BY <1>1, <2>1, SeqDef
<1>6. SetProcessState(job, pid, state) = [job EXCEPT !.procs = t]
  BY DEF SetProcessState
<1>7. /\ [job EXCEPT !.procs = t] \in Job
      /\ [job EXCEPT !.procs = t].state = job.state
      /\ [job EXCEPT !.procs = t].procs = t
  BY <1>5 DEF Job
<1>. HIDE DEF t
<1>8. DOMAIN t = DOMAIN s
  BY <1>1 DEF t
<1>9. \A i \in DOMAIN s : t[i] = IF s[i].pid = pid THEN [pid |-> pid, state |-> state] ELSE s[i]
  BY <1>1, <1>3 DEF t
<1>. QED
  BY <1>6, <1>7, <1>8, <1>9

\* getGroupID of a job that has a process is the id of its first one.
LEMMA GroupIDType ==
  ASSUME NEW job \in Job, job.procs # <<>>
  PROVE  1 \in DOMAIN job.procs /\ GroupID(job) \in Pid
<1>1. job.procs \in Seq(Process)
  BY DEF Job
<1>2. Len(job.procs) \in Nat \ {0} /\ DOMAIN job.procs = 1 .. Len(job.procs)
  BY <1>1, EmptySeq
<1>3. job.procs[1] \in Process
  BY <1>1, <1>2, ElementOfSeq
<1>. QED
  BY <1>2, <1>3 DEF GroupID, Process

\* The entries of a job are processes, and a job that has one has a first one.
LEMMA EntryType ==
  ASSUME NEW list, IsJobMap(list), NEW n \in DOMAIN list, NEW i \in DOMAIN list[n].procs
  PROVE  list[n].procs[i] \in Process /\ list[n].procs[i].pid \in Pid /\ 1 \in DOMAIN list[n].procs
<1>1. list[n] \in Job /\ list[n].procs \in Seq(Process)
  BY DEF IsJobMap, Job
<1>2. DOMAIN list[n].procs = 1 .. Len(list[n].procs)
  BY <1>1
<1>3. list[n].procs[i] \in Process
  BY <1>1, <1>2, ElementOfSeq
<1>4. list[n].procs # <<>>
  BY <1>2, EmptySeq
<1>. QED
  BY <1>1, <1>3, <1>4, GroupIDType DEF Process

\* synchronize keeps the processes of every job, puts none in the foreground,
\* and forgets exactly the given job, exactly if all its processes terminated.
LEMMA SynchronizeType ==
  ASSUME NEW list, IsJobMap(list), NEW num
  PROVE  LET result == Synchronize(list, num) IN
         /\ IsJobMap(result)
         /\ DOMAIN result = IF num \in DOMAIN list /\ AllTerminated(list[num])
                            THEN DOMAIN list \ {num} ELSE DOMAIN list
         /\ \A n \in DOMAIN result :
              /\ result[n].procs = list[n].procs
              /\ result[n].state = "kForeground" => list[n].state = "kForeground"
<1>1. CASE num \notin DOMAIN list
  BY <1>1 DEF Synchronize
<1>2. CASE num \in DOMAIN list /\ AllTerminated(list[num])
  <2>1. Synchronize(list, num) = Erase(list, num)
    BY <1>2 DEF Synchronize
  <2>. QED
    BY <1>2, <2>1, EraseType DEF Erase
<1>3. CASE /\ num \in DOMAIN list /\ ~AllTerminated(list[num])
           /\ SomethingIsRunning(list[num])
  BY <1>3 DEF Synchronize
<1>4. CASE /\ num \in DOMAIN list /\ ~AllTerminated(list[num])
           /\ ~SomethingIsRunning(list[num])
  <2>. DEFINE job == [list[num] EXCEPT !.state = "kBackground"]
  <2>1. list[num] \in Job
    BY <1>4 DEF IsJobMap
  <2>2. job \in Job /\ job.procs = list[num].procs /\ job.state = "kBackground"
    BY <2>1 DEF Job, JobState
  <2>3. Synchronize(list, num) = SetJob(list, num, job)
    BY <1>4 DEF Synchronize
  <2>. HIDE DEF job
  <2>4. /\ IsJobMap(SetJob(list, num, job)) /\ DOMAIN SetJob(list, num, job) = DOMAIN list
        /\ \A n \in DOMAIN list : SetJob(list, num, job)[n] = IF n = num THEN job ELSE list[n]
    BY <2>2, SetJobType DEF SetJob
  <2>. QED
    BY <1>4, <2>2, <2>3, <2>4
<1>. QED
  BY <1>1, <1>2, <1>3, <1>4

\* A job that synchronize forgets or takes out of the foreground runs nothing.
LEMMA SynchronizeDemotes ==
  ASSUME NEW list, IsJobMap(list), NEW num, NEW n \in DOMAIN list, list[n].state = "kForeground",
         LET result == Synchronize(list, num) IN
           n \notin DOMAIN result \/ result[n].state # "kForeground"
  PROVE  n = num /\ \A i \in DOMAIN list[n].procs : list[n].procs[i].state # "kRunning"
<1>1. Synchronize(list, num) # list
  OBVIOUS
<1>2. num \in DOMAIN list
  BY <1>1 DEF Synchronize
<1>3. AllTerminated(list[num]) \/ ~SomethingIsRunning(list[num])
  BY <1>1 DEF Synchronize
<1>4. \A i \in DOMAIN list[num].procs : list[num].procs[i].state # "kRunning"
  BY <1>3 DEF AllTerminated, SomethingIsRunning
<1>5. n = num
  <2>1. \/ Synchronize(list, num) = Erase(list, num)
        \/ \E job : Synchronize(list, num) = SetJob(list, num, job)
    BY <1>1, <1>2 DEF Synchronize
  <2>. QED
    BY <2>1 DEF Erase, SetJob, IsJobMap
<1>. QED
  BY <1>4, <1>5

\* The state of a job is replaced by one of the two states.
LEMMA SetStateType ==
  ASSUME IsJobMap(jobs), NEW n, NEW state \in JobState
  PROVE  IsJobMap(SetJob(jobs, n, [jobs[n] EXCEPT !.state = state]))
<1>1. n \in DOMAIN jobs => [jobs[n] EXCEPT !.state = state] \in Job
  BY DEF IsJobMap, Job
<1>. QED
  BY <1>1, SetJobType

\* The loop of waitSigs ends at the prompt or at sigwait.
LEMMA WaitLoopType ==
  ASSUME TypeOK, NEW list, WaitLoop(list)
  PROVE  /\ tty' \in Pid \cup {Shell} /\ pc' \in {"wait", "prompt"}
         /\ caller' \in {caller, "none"} /\ cur' \in Nat /\ todo' \in Nat
         /\ addSigs' \in SUBSET Signal
BY DEF TypeOK, WaitLoop, NoLocals, NoJobNum

\* Continuing processes keeps the types of the kernel's tables.
LEMMA ContinueType ==
  ASSUME TypeOK, NEW targets \in SUBSET Pid, Continue(targets)
  PROVE  /\ proc' \in [Pid -> {"free", "running", "stopped", "zombie", "reaped"}]
         /\ report' \in [Pid -> {"none", "stopped", "continued"}]
         /\ owes' \in SUBSET Pid
BY DEF TypeOK, Continue

\* A step of the shell or of the world keeps every variable in its type.
LEMMA TypeStep == TypeOK /\ Places /\ [Next]_vars => TypeOK'
<1>. SUFFICES ASSUME TypeOK, Places, [Next]_vars PROVE TypeOK'
  OBVIOUS
<1>. USE ShellAssumption
<1>a. AddedSigs \subseteq SUBSET Signal
  BY DEF AddedSigs, Signal
<1>1. ASSUME NEW size \in 1 .. MaxPipeline, NEW background \in BOOLEAN,
             CreateJob(size, background)
      PROVE  TypeOK'
  <2>1. IsJobMap(jobs')
    BY <1>1, AddJobType DEF CreateJob, TypeOK, JobState
  <2>2. mask' \in SUBSET Signal /\ addSigs' \in SUBSET Signal
    BY <1>1, <1>a DEF CreateJob, TypeOK
  <2>. QED
    BY <1>1, <2>1, <2>2 DEF CreateJob, TypeOK, kernel, JobNum
<1>2. ASSUME NEW p \in Pid, Fork(p) PROVE TypeOK'
  <2>0. cur \in DOMAIN jobs /\ jobs[cur] \in Job
    BY <1>2 DEF Fork, Places, TypeOK, IsJobMap
  <2>1. IsJobMap(jobs')
    BY <1>2, <2>0, AddProcessType, SetJobType DEF Fork, TypeOK
  <2>2. pgid' \in [Pid -> Pid \cup {Shell}]
    <3>1. jobs[cur].procs # <<>> => GroupID(jobs[cur]) \in Pid
      BY <2>0, GroupIDType
    <3>. QED
      BY <1>2, <3>1 DEF Fork, TypeOK
  <2>. QED
    BY <1>2, <2>1, <2>2 DEF Fork, TypeOK, signals
<1>3. ASSUME ForkFails PROVE TypeOK'
  BY <1>3 DEF ForkFails, TypeOK, kernel, signals
<1>4. ASSUME Launched PROVE TypeOK'
  <2>1. CASE jobs[cur].state = "kBackground"
    BY <1>4, <2>1 DEF Launched, NoLocals, NoJobNum, TypeOK, kernel
  <2>2. CASE jobs[cur].state = "kForeground"
    BY <1>4, <2>2, WaitLoopType DEF Launched, TypeOK, kernel
  <2>. QED
    BY <1>4, <2>1, <2>2 DEF Launched
<1>5. ASSUME NEW sig \in Signal, SigWait(sig) PROVE TypeOK'
  BY <1>5 DEF SigWait, TypeOK, kernel
<1>6. ASSUME NEW p \in Pid, Reap(p) PROVE TypeOK'
  <2>. DEFINE num   == JobWithProcess(jobs, p)
              state == IF proc[p] = "zombie" THEN "kTerminated"
                       ELSE IF report[p] = "stopped" THEN "kStopped" ELSE "kRunning"
              list  == SetJob(jobs, num, SetProcessState(jobs[num], p, state))
  <2>1. num \in DOMAIN jobs => SetProcessState(jobs[num], p, state) \in Job
    BY SetProcessStateType DEF TypeOK, IsJobMap, ProcState
  <2>2. IsJobMap(list)
    BY <2>1, SetJobType DEF TypeOK
  <2>3. jobs' = jobs \/ jobs' = Synchronize(list, num)
    BY <1>6 DEF Reap
  <2>. HIDE DEF list, num
  <2>4. IsJobMap(Synchronize(list, num))
    BY <2>2, SynchronizeType
  <2>5. IsJobMap(jobs) => IsJobMap(jobs')
    BY <2>3, <2>4
  <2>. QED
    BY <1>6, <2>5 DEF Reap, TypeOK, signals, control
<1>7. ASSUME ReapDone PROVE TypeOK'
  <2>1. CASE caller \in {"createJob", "fg"}
    BY <1>7, <2>1, WaitLoopType DEF ReapDone, TypeOK, kernel
  <2>2. CASE caller \in {"jobs", "quit"}
    BY <1>7, <2>2 DEF ReapDone, TypeOK, kernel, NoLocals, NoJobNum
  <2>. QED
    BY <1>7, <2>1, <2>2 DEF ReapDone
<1>8. ASSUME NEW name \in {"jobs", "quit"}, JobsOrQuit(name) PROVE TypeOK'
  BY <1>8 DEF JobsOrQuit, TypeOK, kernel, signals
<1>9. ASSUME EndOfInput PROVE TypeOK'
  BY <1>9 DEF EndOfInput, TypeOK, kernel, signals
<1>10. ASSUME NEW n \in DOMAIN jobs, Bg(n) PROVE TypeOK'
  <2>1. IsJobMap(jobs')
    BY <1>10, SetStateType DEF Bg, TypeOK, JobState
  <2>. QED
    BY <1>10, <2>1, ContinueType DEF Bg, TypeOK, signals, control, Group
<1>11. ASSUME NEW n \in DOMAIN jobs, Fg(n) PROVE TypeOK'
  <2>1. addSigs' \in SUBSET Signal /\ n \in Nat
    BY <1>11, <1>a DEF Fg, TypeOK, IsJobMap, JobNum
  <2>2. pc' \in {"killed", "exited", "stopped", "fgGrant"}
    BY <1>11 DEF Fg
  <2>. QED
    BY <1>11, <2>1, <2>2 DEF Fg, TypeOK, kernel
<1>12. ASSUME FgGrant PROVE TypeOK'
  <2>. DEFINE g == GroupID(jobs[cur])
  <2>1. CASE Group(g) # {}
    <3>1. g \in Pid \cup {Shell}
      BY <2>1 DEF Group, TypeOK
    <3>. QED
      BY <1>12, <2>1, <3>1 DEF FgGrant, TypeOK, kernel
  <2>2. CASE Group(g) = {}
    BY <1>12, <2>2 DEF FgGrant, TypeOK, kernel, NoLocals, NoJobNum
  <2>. QED
    BY <2>1, <2>2
<1>13. ASSUME FgContinue PROVE TypeOK'
  <2>1. IsJobMap(jobs')
    BY <1>13, SetStateType DEF FgContinue, TypeOK, JobState
  <2>. QED
    BY <1>13, <2>1, ContinueType DEF FgContinue, TypeOK, signals, Group
<1>14. ASSUME FgWait PROVE TypeOK'
  BY <1>14, WaitLoopType DEF FgWait, TypeOK, kernel
<1>15. ASSUME NEW p \in Pid, Slay(p) \/ ChildExits(p) PROVE TypeOK'
  BY <1>15 DEF Slay, ChildExits, RaiseChld, TypeOK, Signal, control
<1>16. ASSUME NEW p \in Pid, Halt(p) \/ ChildStops(p) PROVE TypeOK'
  BY <1>16 DEF Halt, ChildStops, RaiseChld, TypeOK, Signal, control
<1>17. ASSUME NEW p \in Pid, Cont(p) PROVE TypeOK'
  BY <1>17, ContinueType DEF Cont, TypeOK, signals, control
<1>18. ASSUME NEW p \in Pid, ChildResumes(p) PROVE TypeOK'
  BY <1>18 DEF ChildResumes, RaiseChld, TypeOK, Signal, control
<1>19. ASSUME NEW p \in Pid, ChildTakesTerminal(p) PROVE TypeOK'
  BY <1>19 DEF ChildTakesTerminal, TypeOK, kernel, signals, control
<1>20. ASSUME NEW sig \in Keys, Key(sig) PROVE TypeOK'
  <2>1. pc' \in {pc, "killed", "exited", "stopped"}
    BY <1>20 DEF Key
  <2>. QED
    BY <1>20, <2>1 DEF Key, TypeOK, kernel, Signal
<1>21. ASSUME ShellResumed PROVE TypeOK'
  BY <1>21 DEF ShellResumed, TypeOK, kernel, signals
<1>22. CASE UNCHANGED vars
  BY <1>22 DEF vars, kernel, signals, control, TypeOK
<1>. QED
  BY <1>1, <1>2, <1>3, <1>4, <1>5, <1>6, <1>7, <1>8, <1>9, <1>10, <1>11, <1>12, <1>13,
     <1>14, <1>15, <1>16, <1>17, <1>18, <1>19, <1>20, <1>21, <1>22
     DEF Next, Command, Run, World
------------------------------------------------------------------------------
(* The job list and the process table.  Most steps are quiet: they add or      *)
(* forget no process and no job.                                               *)
QuietList ==
  /\ DOMAIN jobs' = DOMAIN jobs /\ next' = next
  /\ \A n \in DOMAIN jobs : jobs'[n].procs = jobs[n].procs

QuietKernel ==
  /\ pgid' = pgid
  /\ \A p \in Pid : /\ proc'[p] = "free" <=> proc[p] = "free"
                    /\ proc'[p] = "reaped" <=> proc[p] = "reaped"

\* Job n is being forked, or was when the shell ended.
Unfinished(n) == n = cur /\ pc \in {"fork", "exited"}

Quiet ==
  /\ QuietList /\ QuietKernel
  /\ \A n : Unfinished(n) => Unfinished(n)' \/ (pc = "fork" /\ todo = 0)

Starts == \E size \in 1 .. MaxPipeline, background \in BOOLEAN : CreateJob(size, background)

\* Replacing the state of a listed job is quiet.
LEMMA SetStateQuiet ==
  ASSUME IsJobMap(jobs), next' = next, NEW n \in DOMAIN jobs, NEW state \in JobState,
         jobs' = SetJob(jobs, n, [jobs[n] EXCEPT !.state = state])
  PROVE  QuietList
<1>1. jobs[n] \in Job
  BY DEF IsJobMap
<1>2. [jobs[n] EXCEPT !.state = state].procs = jobs[n].procs
  BY <1>1 DEF Job
<1>. QED
  BY <1>2 DEF SetJob, QuietList, IsJobMap

\* Continuing processes is quiet.
LEMMA ContinueQuiet ==
  ASSUME TypeOK, NEW targets \in SUBSET Pid, Continue(targets), pgid' = pgid
  PROVE  QuietKernel
BY DEF TypeOK, Continue, QuietKernel

\* Every step is quiet but those of createJob that add a job or a process and
\* the reaping of a child.
LEMMA QuietStep ==
  ASSUME TypeOK, Places, [Next]_vars
  PROVE  Quiet \/ Starts \/ (\E p \in Pid : Fork(p) \/ Reap(p))
<1>. USE DEF Unfinished
<1>1. ASSUME NEW n \in DOMAIN jobs, Bg(n) PROVE Quiet
  <2>1. QuietList
    BY <1>1, SetStateQuiet DEF Bg, TypeOK, JobState
  <2>2. QuietKernel
    BY <1>1, ContinueQuiet DEF Bg, Group
  <2>. QED
    BY <1>1, <2>1, <2>2 DEF Bg, Quiet, control
<1>2. ASSUME FgContinue PROVE Quiet
  <2>1. QuietList
    BY <1>2, SetStateQuiet DEF FgContinue, TypeOK, JobState, Places
  <2>2. QuietKernel
    BY <1>2, ContinueQuiet DEF FgContinue, Group
  <2>. QED
    BY <1>2, <2>1, <2>2 DEF FgContinue, Quiet
<1>3. ASSUME NEW p \in Pid, Cont(p) PROVE Quiet
  <2>1. QuietKernel
    BY <1>3, ContinueQuiet DEF Cont
  <2>. QED
    BY <1>3, <2>1 DEF Cont, Quiet, QuietList, control
<1>4. ASSUME NEW p \in Pid, Slay(p) \/ Halt(p) \/ ChildExits(p) \/ ChildStops(p) PROVE Quiet
  <2>1. QuietKernel
    BY <1>4 DEF Slay, Halt, ChildExits, ChildStops, QuietKernel, TypeOK
  <2>. QED
    BY <1>4, <2>1 DEF Slay, Halt, ChildExits, ChildStops, Quiet, QuietList, control, Over
<1>5. ASSUME \/ ForkFails \/ Launched \/ ReapDone \/ FgGrant \/ FgWait \/ EndOfInput \/ ShellResumed
             \/ UNCHANGED vars
             \/ \E sig \in Signal : SigWait(sig)
             \/ \E sig \in Keys : Key(sig)
             \/ \E name \in {"jobs", "quit"} : JobsOrQuit(name)
             \/ \E n \in DOMAIN jobs : Fg(n)
             \/ \E p \in Pid : ChildResumes(p) \/ ChildTakesTerminal(p)
      PROVE  Quiet
  <2>1. UNCHANGED <<jobs, next, proc, pgid>>
    BY <1>5 DEF ForkFails, Launched, ReapDone, FgGrant, FgWait, EndOfInput, ShellResumed, SigWait,
                Key, JobsOrQuit, Fg, ChildResumes, ChildTakesTerminal, vars, kernel
  <2>2. QuietList /\ QuietKernel
    BY <2>1 DEF QuietList, QuietKernel
  <2>3. \A n : Unfinished(n) => Unfinished(n)' \/ (pc = "fork" /\ todo = 0)
    <3>1. CASE \E sig \in Keys : Key(sig)
      <4>1. cur' = cur /\ ~Over /\ (pc = "fork" => pc' \in {"fork", "exited"})
        BY <3>1, ShellAssumption DEF Key, Places
      <4>. QED
        BY <4>1 DEF Over
    <3>. QED
      BY <1>5, <3>1 DEF ForkFails, Launched, ReapDone, FgGrant, FgWait, EndOfInput, ShellResumed,
                SigWait, JobsOrQuit, Fg, ChildResumes, ChildTakesTerminal, vars, control, Over
  <2>. QED
    BY <2>2, <2>3 DEF Quiet
<1>. QED
  BY <1>1, <1>2, <1>3, <1>4, <1>5 DEF Next, Command, Run, World, Starts

\* What waitpid reports about child p.
Reported(p) == IF proc[p] = "zombie" THEN "kTerminated"
               ELSE IF report[p] = "stopped" THEN "kStopped" ELSE "kRunning"

\* A process of a list without duplicates is found in the job that holds it.
LEMMA FoundWhereListed ==
  ASSUME TypeOK, Entries, NEW n \in DOMAIN jobs, NEW p \in Pids(jobs[n])
  PROVE  JobWithProcess(jobs, p) = n
<1>1. Holders(jobs, p) = {n}
  BY DEF Entries, Holders, Pids
<1>2. n \in Nat
  BY DEF TypeOK, IsJobMap, JobNum
<1>. QED
  BY <1>1, <1>2 DEF JobWithProcess, ContainsProcess

\* What waitpid reports of a child that runs or is stopped.
LEMMA ReportNames ==
  ASSUME TypeOK, Kernel, NEW p \in Pid
  PROVE  /\ report[p] # "none" => proc[p] \in {"running", "stopped"}
         /\ Reportable(p) => Unreaped(p)
         /\ Reportable(p) /\ proc[p] # "zombie" =>
              (Reported(p) = IF proc[p] = "running" THEN "kRunning" ELSE "kStopped")
<1>1. report[p] \in {"none", "stopped", "continued"}
  BY DEF TypeOK
<1>2. /\ report[p] = "stopped" => proc[p] = "stopped"
      /\ report[p] = "continued" => proc[p] = "running"
  BY DEF Kernel
<1>. QED
  BY <1>1, <1>2 DEF Reportable, Unreaped, Reported

\* Reaping child p updates the entry of p, and then synchronizes the job that holds p.
LEMMA ReapUpdates ==
  ASSUME TypeOK, Kernel, Entries, Listing, NEW p \in Pid, Reap(p)
  PROVE  \E n \in DOMAIN jobs : \E list :
           /\ p \in Pids(jobs[n]) /\ jobs' = Synchronize(list, n)
           /\ IsJobMap(list) /\ DOMAIN list = DOMAIN jobs
           /\ \A m \in DOMAIN jobs : m # n => list[m] = jobs[m]
           /\ list[n].state = jobs[n].state /\ DOMAIN list[n].procs = DOMAIN jobs[n].procs
           /\ \A i \in DOMAIN jobs[n].procs :
                list[n].procs[i] = IF jobs[n].procs[i].pid = p
                                   THEN [pid |-> p, state |-> Reported(p)] ELSE jobs[n].procs[i]
<1>1. Unreaped(p)
  BY ReportNames DEF Reap
<1>2. PICK n \in DOMAIN jobs : p \in Pids(jobs[n])
  BY <1>1 DEF Listing
<1>3. JobWithProcess(jobs, p) = n /\ n # NoJobNum
  BY <1>2, FoundWhereListed DEF TypeOK, IsJobMap, JobNum, NoJobNum
<1>. DEFINE job  == SetProcessState(jobs[n], p, Reported(p))
            list == SetJob(jobs, n, job)
<1>4. jobs' = Synchronize(list, n)
  BY <1>3 DEF Reap, Reported
<1>5. jobs[n] \in Job /\ Reported(p) \in ProcState
  BY DEF TypeOK, IsJobMap, Reported, ProcState
<1>6. /\ job \in Job /\ job.state = jobs[n].state /\ DOMAIN job.procs = DOMAIN jobs[n].procs
      /\ \A i \in DOMAIN jobs[n].procs :
           job.procs[i] = IF jobs[n].procs[i].pid = p
                          THEN [pid |-> p, state |-> Reported(p)] ELSE jobs[n].procs[i]
  BY <1>5, SetProcessStateType
<1>. HIDE DEF job
<1>7. /\ IsJobMap(list) /\ DOMAIN list = DOMAIN jobs
      /\ \A m \in DOMAIN jobs : list[m] = IF m = n THEN job ELSE jobs[m]
  BY <1>6, SetJobType DEF TypeOK, SetJob
<1>. HIDE DEF list
<1>. QED
  BY <1>2, <1>4, <1>6, <1>7

\* Reaping child p updates the entry of p and nothing else; the job that holds p
\* is forgotten if all its processes terminated, and kept otherwise.
LEMMA ReapList ==
  ASSUME TypeOK, Kernel, Entries, Listing, NEW p \in Pid, Reap(p)
  PROVE  \E n \in DOMAIN jobs :
           /\ p \in Pids(jobs[n])
           /\ DOMAIN jobs' \in {DOMAIN jobs, DOMAIN jobs \ {n}}
           /\ \A m \in DOMAIN jobs' :
                /\ jobs'[m].state = "kForeground" => jobs[m].state = "kForeground"
                /\ DOMAIN jobs'[m].procs = DOMAIN jobs[m].procs
                /\ \A i \in DOMAIN jobs[m].procs :
                     jobs'[m].procs[i] = IF jobs[m].procs[i].pid = p
                                         THEN [pid |-> p, state |-> Reported(p)]
                                         ELSE jobs[m].procs[i]
           /\ n \in DOMAIN jobs' => ~AllTerminated(jobs'[n])
           /\ n \notin DOMAIN jobs' =>
                \A i \in DOMAIN jobs[n].procs :
                  IF jobs[n].procs[i].pid = p THEN Reported(p) = "kTerminated"
                  ELSE jobs[n].procs[i].state = "kTerminated"
<1>1. PICK n \in DOMAIN jobs : \E list :
        /\ p \in Pids(jobs[n]) /\ jobs' = Synchronize(list, n)
        /\ IsJobMap(list) /\ DOMAIN list = DOMAIN jobs
        /\ \A m \in DOMAIN jobs : m # n => list[m] = jobs[m]
        /\ list[n].state = jobs[n].state /\ DOMAIN list[n].procs = DOMAIN jobs[n].procs
        /\ \A i \in DOMAIN jobs[n].procs :
             list[n].procs[i] = IF jobs[n].procs[i].pid = p
                                THEN [pid |-> p, state |-> Reported(p)] ELSE jobs[n].procs[i]
  BY ReapUpdates
<1>2. PICK list :
        /\ p \in Pids(jobs[n]) /\ jobs' = Synchronize(list, n)
        /\ IsJobMap(list) /\ DOMAIN list = DOMAIN jobs
        /\ \A m \in DOMAIN jobs : m # n => list[m] = jobs[m]
        /\ list[n].state = jobs[n].state /\ DOMAIN list[n].procs = DOMAIN jobs[n].procs
        /\ \A i \in DOMAIN jobs[n].procs :
             list[n].procs[i] = IF jobs[n].procs[i].pid = p
                                THEN [pid |-> p, state |-> Reported(p)] ELSE jobs[n].procs[i]
  BY <1>1
<1>3. /\ DOMAIN jobs' = IF AllTerminated(list[n]) THEN DOMAIN list \ {n} ELSE DOMAIN list
      /\ \A m \in DOMAIN jobs' :
           /\ jobs'[m].procs = list[m].procs
           /\ jobs'[m].state = "kForeground" => list[m].state = "kForeground"
  <2>1. jobs' = Synchronize(list, n) /\ IsJobMap(list) /\ n \in DOMAIN list
    BY <1>2
  <2>. QED
    BY <2>1, SynchronizeType
<1>4. \A m \in DOMAIN jobs : m # n => p \notin Pids(jobs[m])
  BY <1>2 DEF Entries, Pids
<1>5. \A m \in DOMAIN jobs' :
         /\ jobs'[m].state = "kForeground" => jobs[m].state = "kForeground"
         /\ DOMAIN jobs'[m].procs = DOMAIN jobs[m].procs
         /\ \A i \in DOMAIN jobs[m].procs :
              jobs'[m].procs[i] = IF jobs[m].procs[i].pid = p
                                  THEN [pid |-> p, state |-> Reported(p)]
                                  ELSE jobs[m].procs[i]
  <2>. SUFFICES ASSUME NEW m \in DOMAIN jobs'
                PROVE  /\ jobs'[m].state = "kForeground" => jobs[m].state = "kForeground"
                       /\ DOMAIN jobs'[m].procs = DOMAIN jobs[m].procs
                       /\ \A i \in DOMAIN jobs[m].procs :
                            jobs'[m].procs[i] = IF jobs[m].procs[i].pid = p
                                                THEN [pid |-> p, state |-> Reported(p)]
                                                ELSE jobs[m].procs[i]
    OBVIOUS
  <2>1. CASE m = n
    BY <1>2, <1>3, <2>1
  <2>2. CASE m # n
    BY <1>2, <1>3, <1>4, <2>2 DEF Pids
  <2>. QED
    BY <2>1, <2>2
<1>6. n \in DOMAIN jobs' => ~AllTerminated(jobs'[n])
  BY <1>2, <1>3 DEF AllTerminated
<1>7. n \notin DOMAIN jobs' =>
         \A i \in DOMAIN jobs[n].procs :
           IF jobs[n].procs[i].pid = p THEN Reported(p) = "kTerminated"
           ELSE jobs[n].procs[i].state = "kTerminated"
  BY <1>2, <1>3 DEF AllTerminated
<1>. QED
  BY <1>2, <1>3, <1>5, <1>6, <1>7
------------------------------------------------------------------------------
\* The kernel's records stay coherent.
LEMMA KernelStep == TypeOK /\ Places /\ Kernel /\ [Next]_vars => Kernel'
<1>. SUFFICES ASSUME TypeOK, Places, Kernel, [Next]_vars PROVE Kernel'
  OBVIOUS
<1>1. ASSUME NEW p \in Pid, Fork(p) PROVE Kernel'
  <2>1. jobs[cur].procs # <<>> => GroupID(jobs[cur]) \in Pid
    BY <1>1, GroupIDType DEF Fork, Places, TypeOK, IsJobMap
  <2>. QED
    BY <1>1, <2>1 DEF Fork, Kernel, TypeOK
<1>2. ASSUME NEW p \in Pid,
             \/ Slay(p) \/ Halt(p) \/ ChildExits(p) \/ ChildStops(p) \/ ChildResumes(p)
             \/ ChildTakesTerminal(p) \/ Reap(p)
      PROVE  Kernel'
  <2>1. CASE Slay(p) \/ ChildExits(p)
    BY <2>1 DEF Slay, ChildExits, Kernel, TypeOK
  <2>2. CASE Halt(p) \/ ChildStops(p)
    BY <2>2 DEF Halt, ChildStops, Kernel, TypeOK
  <2>3. CASE ChildResumes(p) \/ ChildTakesTerminal(p)
    BY <2>3 DEF ChildResumes, ChildTakesTerminal, kernel, Kernel, TypeOK
  <2>4. CASE Reap(p)
    BY <2>4 DEF Reap, Reportable, Kernel, TypeOK
  <2>. QED
    BY <1>2, <2>1, <2>2, <2>3, <2>4
<1>3. ASSUME NEW targets \in SUBSET Pid, Continue(targets), UNCHANGED <<pgid, grab>>
      PROVE  Kernel'
  BY <1>3 DEF Continue, Kernel, TypeOK
<1>4. ASSUME UNCHANGED <<proc, pgid, report, grab>> PROVE Kernel'
  BY <1>4 DEF Kernel
<1>5. ASSUME \/ ForkFails \/ Launched \/ ReapDone \/ FgGrant \/ FgWait \/ EndOfInput \/ ShellResumed
             \/ UNCHANGED vars
             \/ \E sig \in Signal : SigWait(sig)
             \/ \E sig \in Keys : Key(sig)
             \/ \E name \in {"jobs", "quit"} : JobsOrQuit(name)
             \/ \E n \in DOMAIN jobs : Fg(n)
             \/ Starts
      PROVE  UNCHANGED <<proc, pgid, report, grab>>
  BY <1>5 DEF ForkFails, Launched, ReapDone, FgGrant, FgWait, EndOfInput, ShellResumed, SigWait,
              Key, JobsOrQuit, Fg, Starts, CreateJob, vars, kernel
<1>6. ASSUME FgContinue \/ (\E n \in DOMAIN jobs : Bg(n)) \/ (\E p \in Pid : Cont(p))
      PROVE  Kernel'
  BY <1>3, <1>6 DEF FgContinue, Bg, Cont, Group
<1>. QED
  BY <1>1, <1>2, <1>4, <1>5, <1>6 DEF Next, Command, Run, World, Starts

\* A process that createJob forks is listed nowhere yet, and becomes the last
\* entry of the job being forked.
LEMMA ForkList ==
  ASSUME TypeOK, Places, Entries, NEW p \in Pid, Fork(p)
  PROVE  /\ cur \in DOMAIN jobs /\ DOMAIN jobs' = DOMAIN jobs
         /\ \A n \in DOMAIN jobs : p \notin Pids(jobs[n])
         /\ \A n \in DOMAIN jobs : n # cur => jobs'[n] = jobs[n]
         /\ jobs'[cur].state = jobs[cur].state
         /\ jobs[cur].procs \in Seq(Process)
         /\ jobs'[cur].procs = Append(jobs[cur].procs, [pid |-> p, state |-> "kRunning"])
         /\ GroupID(jobs'[cur]) = pgid'[p]
<1>1. cur \in DOMAIN jobs /\ jobs[cur] \in Job
  BY DEF Fork, Places, TypeOK, IsJobMap
<1>2. \A n \in DOMAIN jobs : p \notin Pids(jobs[n])
  BY DEF Fork, Entries, Pids
<1>3. /\ DOMAIN jobs' = DOMAIN jobs
      /\ \A n \in DOMAIN jobs : n # cur => jobs'[n] = jobs[n]
      /\ jobs'[cur] = AddProcess(jobs[cur], p)
  BY <1>1 DEF Fork, SetJob, TypeOK, IsJobMap
<1>4. /\ jobs'[cur].state = jobs[cur].state
      /\ jobs'[cur].procs = Append(jobs[cur].procs, [pid |-> p, state |-> "kRunning"])
      /\ jobs[cur].procs \in Seq(Process)
  BY <1>1, <1>3, AddProcessType DEF Job
<1>5. GroupID(jobs'[cur]) = IF jobs[cur].procs = <<>> THEN p ELSE GroupID(jobs[cur])
  <2>1. CASE jobs[cur].procs = <<>>
    BY <1>4, <2>1 DEF GroupID
  <2>2. CASE jobs[cur].procs # <<>>
    <3>1. 1 \in 1 .. Len(jobs[cur].procs)
      BY <1>4, <2>2, EmptySeq
    <3>. QED
      BY <1>4, <2>2, <3>1 DEF GroupID
  <2>. QED
    BY <2>1, <2>2
<1>6. pgid'[p] = IF jobs[cur].procs = <<>> THEN p ELSE GroupID(jobs[cur])
  BY DEF Fork, TypeOK
<1>. QED
  BY <1>1, <1>2, <1>3, <1>4, <1>5, <1>6

\* The entries of the list stay children of their own, marked as reaped or not.
LEMMA EntriesStep == IInv /\ [Next]_vars => Entries'
<1>. SUFFICES ASSUME IInv, [Next]_vars PROVE Entries'
  OBVIOUS
<1>. USE DEF IInv
<1>1. CASE Quiet
  <2>1. \A n \in DOMAIN jobs : \A i \in DOMAIN jobs[n].procs : jobs[n].procs[i].pid \in Pid
    BY EntryType DEF TypeOK
  <2>. QED
    BY <1>1, <2>1 DEF Quiet, QuietList, QuietKernel, Entries, GroupID
<1>2. ASSUME NEW size \in 1 .. MaxPipeline, NEW background \in BOOLEAN,
             CreateJob(size, background)
      PROVE  Entries'
  <2>1. /\ DOMAIN jobs' = DOMAIN jobs \cup {next}
        /\ jobs'[next].procs = <<>>
        /\ \A n \in DOMAIN jobs : n # next => jobs'[n] = jobs[n]
    BY <1>2 DEF CreateJob, AddJob, NewJob
  <2>2. next \notin DOMAIN jobs
    BY DEF Listing, TypeOK, JobNum
  <2>3. \A n \in DOMAIN jobs' : \A i \in DOMAIN jobs'[n].procs : n \in DOMAIN jobs /\ jobs'[n] = jobs[n]
    BY <2>1, <2>2
  <2>4. proc' = proc /\ pgid' = pgid
    BY <1>2 DEF CreateJob, kernel
  <2>. QED
    BY <2>3, <2>4 DEF Entries, GroupID
<1>3. ASSUME NEW p \in Pid, Fork(p) PROVE Entries'
  <2>. DEFINE s == jobs[cur].procs
  <2>1. /\ cur \in DOMAIN jobs /\ DOMAIN jobs' = DOMAIN jobs
        /\ \A n \in DOMAIN jobs : p \notin Pids(jobs[n])
        /\ \A n \in DOMAIN jobs : n # cur => jobs'[n] = jobs[n]
        /\ s \in Seq(Process) /\ jobs'[cur].procs = Append(s, [pid |-> p, state |-> "kRunning"])
        /\ GroupID(jobs'[cur]) = pgid'[p]
    BY <1>3, ForkList
  <2>2. /\ \A q \in Pid : q # p => proc'[q] = proc[q] /\ pgid'[q] = pgid[q]
        /\ proc'[p] = "running"
    BY <1>3 DEF Fork, TypeOK
  <2>3. /\ Len(s) \in Nat /\ DOMAIN s = 1 .. Len(s) /\ DOMAIN jobs'[cur].procs = 1 .. Len(s) + 1
        /\ \A i \in 1 .. Len(s) : jobs'[cur].procs[i] = s[i]
        /\ jobs'[cur].procs[Len(s) + 1] = [pid |-> p, state |-> "kRunning"]
    BY <2>1
  <2>4. \A n \in DOMAIN jobs : \A i \in DOMAIN jobs[n].procs :
          jobs[n].procs[i].pid \in Pid /\ jobs[n].procs[i].pid # p
    BY <2>1, EntryType DEF Pids, TypeOK
  <2>5. s # <<>> => GroupID(jobs'[cur]) = GroupID(jobs[cur])
    <3>1. s # <<>> => 1 \in 1 .. Len(s)
      BY <2>1, EmptySeq
    <3>. QED
      BY <2>3, <3>1 DEF GroupID
  <2>. HIDE DEF s
  <2>6. \A n \in DOMAIN jobs' : \A i \in DOMAIN jobs'[n].procs :
          \/ /\ i \in DOMAIN jobs[n].procs /\ jobs'[n].procs[i] = jobs[n].procs[i]
             /\ GroupID(jobs'[n]) = GroupID(jobs[n])
          \/ n = cur /\ i = Len(s) + 1 /\ jobs'[n].procs[i] = [pid |-> p, state |-> "kRunning"]
    <3>. SUFFICES ASSUME NEW n \in DOMAIN jobs', NEW i \in DOMAIN jobs'[n].procs
                  PROVE  \/ /\ i \in DOMAIN jobs[n].procs /\ jobs'[n].procs[i] = jobs[n].procs[i]
                            /\ GroupID(jobs'[n]) = GroupID(jobs[n])
                         \/ n = cur /\ i = Len(s) + 1
                            /\ jobs'[n].procs[i] = [pid |-> p, state |-> "kRunning"]
      OBVIOUS
    <3>1. CASE n # cur
      BY <2>1, <3>1
    <3>2. CASE n = cur /\ i = Len(s) + 1
      BY <2>3, <3>2
    <3>3. CASE n = cur /\ i \in 1 .. Len(s)
      BY <2>3, <2>5, <3>3, EmptySeq DEF s
    <3>. QED
      BY <2>3, <3>1, <3>2, <3>3
  <2>7. \A n \in DOMAIN jobs' : \A i \in DOMAIN jobs'[n].procs :
          LET q == jobs'[n].procs[i].pid IN
          /\ proc'[q] # "free" /\ pgid'[q] = GroupID(jobs'[n])
          /\ jobs'[n].procs[i].state = "kTerminated" <=> proc'[q] = "reaped"
    BY <2>1, <2>2, <2>4, <2>6 DEF Entries
  <2>8. \A m, n \in DOMAIN jobs' :
          \A i \in DOMAIN jobs'[m].procs, j \in DOMAIN jobs'[n].procs :
            jobs'[m].procs[i].pid = jobs'[n].procs[j].pid => m = n /\ i = j
    BY <2>1, <2>4, <2>6 DEF Entries
  <2>. QED
    BY <2>7, <2>8 DEF Entries
<1>4. ASSUME NEW p \in Pid, Reap(p) PROVE Entries'
  <2>1. PICK n \in DOMAIN jobs :
           /\ DOMAIN jobs' \in {DOMAIN jobs, DOMAIN jobs \ {n}}
           /\ \A m \in DOMAIN jobs' :
                /\ DOMAIN jobs'[m].procs = DOMAIN jobs[m].procs
                /\ \A i \in DOMAIN jobs[m].procs :
                     jobs'[m].procs[i] = IF jobs[m].procs[i].pid = p
                                         THEN [pid |-> p, state |-> Reported(p)]
                                         ELSE jobs[m].procs[i]
    BY <1>4, ReapList
  <2>2. /\ pgid' = pgid
        /\ \A q \in Pid : q # p => proc'[q] = proc[q]
        /\ proc'[p] # "free" /\ (Reported(p) = "kTerminated" <=> proc'[p] = "reaped")
    BY <1>4, ReportNames DEF Reap, Reported, TypeOK, Unreaped
  <2>3. \A m \in DOMAIN jobs' :
          /\ m \in DOMAIN jobs
          /\ \A i \in DOMAIN jobs'[m].procs : jobs'[m].procs[i].pid = jobs[m].procs[i].pid
    BY <2>1
  <2>4. \A m \in DOMAIN jobs' : \A i \in DOMAIN jobs'[m].procs : GroupID(jobs'[m]) = GroupID(jobs[m])
    <3>. SUFFICES ASSUME NEW m \in DOMAIN jobs', NEW i \in DOMAIN jobs'[m].procs
                  PROVE  GroupID(jobs'[m]) = GroupID(jobs[m])
      OBVIOUS
    <3>1. jobs[m] \in Job /\ jobs[m].procs # <<>>
      BY <2>1, <2>3 DEF TypeOK, IsJobMap
    <3>2. 1 \in DOMAIN jobs[m].procs
      BY <3>1, GroupIDType
    <3>. QED
      BY <2>1, <2>3, <3>2 DEF GroupID
  <2>5. \A m \in DOMAIN jobs : \A i \in DOMAIN jobs[m].procs : jobs[m].procs[i].pid \in Pid
    BY EntryType DEF TypeOK
  <2>6. \A m \in DOMAIN jobs' : \A i \in DOMAIN jobs'[m].procs :
          LET q == jobs'[m].procs[i].pid IN
          /\ proc'[q] # "free" /\ pgid'[q] = GroupID(jobs'[m])
          /\ jobs'[m].procs[i].state = "kTerminated" <=> proc'[q] = "reaped"
    BY <2>1, <2>2, <2>3, <2>4, <2>5 DEF Entries
  <2>7. \A m, k \in DOMAIN jobs' :
          \A i \in DOMAIN jobs'[m].procs, j \in DOMAIN jobs'[k].procs :
            jobs'[m].procs[i].pid = jobs'[k].procs[j].pid => m = k /\ i = j
    BY <2>1, <2>3 DEF Entries
  <2>. QED
    BY <2>6, <2>7 DEF Entries
<1>. QED
  BY <1>1, <1>2, <1>3, <1>4, QuietStep DEF Starts

\* While createJob forks nothing is reaped.
LEMMA ForkingStep == IInv /\ [Next]_vars => Forking'
<1>. SUFFICES ASSUME IInv, [Next]_vars, pc' = "fork"
              PROVE  /\ \A i \in DOMAIN jobs'[cur'].procs : jobs'[cur'].procs[i].state # "kTerminated"
                     /\ todo' = 0 => jobs'[cur'].procs # <<>>
  BY DEF Forking
<1>. USE DEF IInv
<1>1. ASSUME NEW size \in 1 .. MaxPipeline, NEW background \in BOOLEAN,
             CreateJob(size, background)
      PROVE  jobs'[cur'].procs = <<>> /\ todo' # 0
  BY <1>1 DEF CreateJob, AddJob, NewJob
<1>2. ASSUME NEW p \in Pid, Fork(p)
      PROVE  /\ jobs'[cur'].procs # <<>>
             /\ \A i \in DOMAIN jobs'[cur'].procs : jobs'[cur'].procs[i].state # "kTerminated"
  <2>1. /\ jobs[cur].procs \in Seq(Process)
        /\ jobs'[cur].procs = Append(jobs[cur].procs, [pid |-> p, state |-> "kRunning"])
    BY <1>2, ForkList
  <2>2. cur' = cur /\ pc = "fork"
    BY <1>2 DEF Fork
  <2>3. /\ DOMAIN jobs[cur].procs = 1 .. Len(jobs[cur].procs) /\ Len(jobs[cur].procs) \in Nat
        /\ DOMAIN jobs'[cur].procs = 1 .. Len(jobs[cur].procs) + 1
        /\ \A i \in 1 .. Len(jobs[cur].procs) : jobs'[cur].procs[i] = jobs[cur].procs[i]
        /\ jobs'[cur].procs[Len(jobs[cur].procs) + 1] = [pid |-> p, state |-> "kRunning"]
    BY <2>1
  <2>4. \A i \in DOMAIN jobs[cur].procs : jobs[cur].procs[i].state # "kTerminated"
    BY <2>2 DEF Forking
  <2>5. jobs'[cur].procs # <<>>
    BY <2>1
  <2>6. ASSUME NEW i \in DOMAIN jobs'[cur].procs PROVE jobs'[cur].procs[i].state # "kTerminated"
    <3>1. CASE i \in 1 .. Len(jobs[cur].procs)
      BY <2>3, <2>4, <3>1
    <3>2. CASE i = Len(jobs[cur].procs) + 1
      BY <2>3, <3>2
    <3>. QED
      BY <2>3, <2>6, <3>1, <3>2
  <2>. QED
    BY <2>2, <2>5, <2>6
<1>3. CASE Quiet
  <2>1. pc = "fork" /\ cur' = cur /\ todo' = todo
    <3>1. ASSUME \/ ForkFails \/ Launched \/ ReapDone \/ FgGrant \/ FgContinue \/ FgWait \/ EndOfInput
                 \/ ShellResumed \/ UNCHANGED vars
                 \/ \E sig \in Signal : SigWait(sig)
                 \/ \E name \in {"jobs", "quit"} : JobsOrQuit(name)
                 \/ \E n \in DOMAIN jobs : Bg(n) \/ Fg(n)
                 \/ \E p \in Pid : Slay(p) \/ Halt(p) \/ Cont(p)
                 \/ \E p \in Pid : ChildExits(p) \/ ChildStops(p) \/ ChildResumes(p)
                 \/ \E p \in Pid : ChildTakesTerminal(p)
          PROVE  pc = "fork" /\ cur' = cur /\ todo' = todo
      BY <3>1 DEF ForkFails, Launched, ReapDone, WaitLoop, FgGrant, FgContinue, FgWait, EndOfInput,
                  ShellResumed, SigWait, Key, JobsOrQuit, Bg, Fg, Slay, Halt, Cont, ChildExits,
                  ChildStops, ChildResumes, ChildTakesTerminal, vars, control
    <3>2. ASSUME NEW p \in Pid, Fork(p) PROVE ~Quiet
      BY <3>2 DEF Quiet, QuietKernel, Fork, TypeOK
    <3>3. ASSUME NEW size \in 1 .. MaxPipeline, NEW background \in BOOLEAN,
                 CreateJob(size, background)
          PROVE  ~Quiet
      BY <3>3 DEF Quiet, QuietList, CreateJob, TypeOK, JobNum
    <3>4. ASSUME NEW p \in Pid, Reap(p) PROVE pc' # "fork"
      BY <3>4 DEF Reap, control
    <3>5. ASSUME NEW sig \in Keys, Key(sig) PROVE pc = "fork" /\ cur' = cur /\ todo' = todo
      BY <3>5, ShellAssumption DEF Key
    <3>. QED
      BY <1>3, <3>1, <3>2, <3>3, <3>4, <3>5 DEF Next, Command, Run, World
  <2>2. jobs'[cur].procs = jobs[cur].procs
    BY <1>3, <2>1 DEF Quiet, QuietList, Places
  <2>. QED
    BY <2>1, <2>2 DEF Forking
<1>4. ASSUME NEW p \in Pid, Reap(p) PROVE FALSE
  BY <1>4 DEF Reap, control
<1>. QED
  BY <1>1, <1>2, <1>3, <1>4, QuietStep DEF Starts

\* A listed job keeps a process to wait for, and a child stays listed.
LEMMA ListingStep == IInv /\ [Next]_vars => Listing'
<1>. SUFFICES ASSUME IInv, [Next]_vars PROVE Listing'
  OBVIOUS
<1>. USE DEF IInv
<1>1. CASE Quiet
  <2>1. \A n \in DOMAIN jobs : AllTerminated(jobs'[n]) <=> AllTerminated(jobs[n])
    BY <1>1 DEF Quiet, QuietList, AllTerminated
  <2>2. \A n \in DOMAIN jobs : Pids(jobs'[n]) = Pids(jobs[n])
    BY <1>1 DEF Quiet, QuietList, Pids
  <2>3. \A n \in DOMAIN jobs : ~Unfinished(n) => ~AllTerminated(jobs[n])
    BY DEF Listing, Unfinished
  <2>4. pc = "fork" /\ todo = 0 => ~AllTerminated(jobs[cur])
    <3>1. ASSUME pc = "fork", todo = 0 PROVE ~AllTerminated(jobs[cur])
      <4>1. jobs[cur] \in Job /\ jobs[cur].procs # <<>>
        BY <3>1 DEF Places, Forking, TypeOK, IsJobMap
      <4>2. 1 \in DOMAIN jobs[cur].procs
        BY <4>1, GroupIDType
      <4>. QED
        BY <3>1, <4>2 DEF Forking, AllTerminated
    <3>. QED
      BY <3>1
  <2>5. \A n \in DOMAIN jobs : ~Unfinished(n)' => ~AllTerminated(jobs[n])
    BY <1>1, <2>3, <2>4 DEF Quiet, Unfinished
  <2>6. \A p \in Pid : Unreaped(p)' => Unreaped(p)
    BY <1>1 DEF Quiet, QuietKernel, Unreaped, TypeOK
  <2>7. DOMAIN jobs' = DOMAIN jobs /\ next' = next
    BY <1>1 DEF Quiet, QuietList
  <2>. QED
    BY <2>1, <2>2, <2>5, <2>6, <2>7 DEF Listing, Unfinished
<1>2. ASSUME NEW size \in 1 .. MaxPipeline, NEW background \in BOOLEAN,
             CreateJob(size, background)
      PROVE  Listing'
  <2>1. /\ DOMAIN jobs' = DOMAIN jobs \cup {next} /\ next' = next + 1 /\ cur' = next /\ pc' = "fork"
        /\ \A n \in DOMAIN jobs : n # next => jobs'[n] = jobs[n]
        /\ proc' = proc /\ pc = "prompt"
    BY <1>2 DEF CreateJob, AddJob, kernel
  <2>2. next \in Nat /\ \A n \in DOMAIN jobs : n \in Nat /\ n < next
    BY DEF Listing, TypeOK, IsJobMap, JobNum
  <2>. QED
    BY <2>1, <2>2 DEF Listing, Unreaped
<1>3. ASSUME NEW p \in Pid, Fork(p) PROVE Listing'
  <2>1. /\ cur \in DOMAIN jobs /\ DOMAIN jobs' = DOMAIN jobs
        /\ \A n \in DOMAIN jobs : n # cur => jobs'[n] = jobs[n]
        /\ jobs[cur].procs \in Seq(Process)
        /\ jobs'[cur].procs = Append(jobs[cur].procs, [pid |-> p, state |-> "kRunning"])
    BY <1>3, ForkList
  <2>2. /\ \A q \in Pid : q # p => proc'[q] = proc[q]
        /\ next' = next /\ cur' = cur /\ pc' = "fork"
    BY <1>3 DEF Fork, TypeOK
  <2>3. p \in Pids(jobs'[cur]) /\ Pids(jobs[cur]) \subseteq Pids(jobs'[cur])
    BY <2>1 DEF Pids
  <2>. QED
    BY <2>1, <2>2, <2>3 DEF Listing, Unreaped
<1>4. ASSUME NEW p \in Pid, Reap(p) PROVE Listing'
  <2>1. PICK n \in DOMAIN jobs :
           /\ p \in Pids(jobs[n])
           /\ DOMAIN jobs' \in {DOMAIN jobs, DOMAIN jobs \ {n}}
           /\ \A m \in DOMAIN jobs' :
                /\ jobs'[m].state = "kForeground" => jobs[m].state = "kForeground"
                /\ DOMAIN jobs'[m].procs = DOMAIN jobs[m].procs
                /\ \A i \in DOMAIN jobs[m].procs :
                     jobs'[m].procs[i] = IF jobs[m].procs[i].pid = p
                                         THEN [pid |-> p, state |-> Reported(p)]
                                         ELSE jobs[m].procs[i]
           /\ n \in DOMAIN jobs' => ~AllTerminated(jobs'[n])
           /\ n \notin DOMAIN jobs' =>
                \A i \in DOMAIN jobs[n].procs :
                  IF jobs[n].procs[i].pid = p THEN Reported(p) = "kTerminated"
                  ELSE jobs[n].procs[i].state = "kTerminated"
    BY <1>4, ReapList
  <2>2. /\ \A q \in Pid : q # p => proc'[q] = proc[q]
        /\ Reported(p) = "kTerminated" => ~Unreaped(p)'
        /\ pc' = "reap" /\ pc = "reap" /\ next' = next
    BY <1>4 DEF Reap, Reportable, Reported, Kernel, TypeOK, control, Unreaped
  <2>3. \A m \in DOMAIN jobs' : m \in DOMAIN jobs /\ Pids(jobs'[m]) = Pids(jobs[m])
    BY <2>1 DEF Pids
  <2>4. \A m \in DOMAIN jobs' : ~AllTerminated(jobs'[m])
    <3>. SUFFICES ASSUME NEW m \in DOMAIN jobs', m # n PROVE ~AllTerminated(jobs'[m])
      BY <2>1
    <3>1. p \notin Pids(jobs[m])
      BY <2>1, <2>3 DEF Entries, Pids
    <3>2. \A i \in DOMAIN jobs[m].procs : jobs'[m].procs[i] = jobs[m].procs[i]
      BY <2>1, <3>1 DEF Pids
    <3>3. ~AllTerminated(jobs[m])
      BY <2>2, <2>3 DEF Listing
    <3>. QED
      BY <2>1, <3>2, <3>3 DEF AllTerminated
  <2>5. ASSUME NEW q \in Pid, Unreaped(q)' PROVE \E m \in DOMAIN jobs' : q \in Pids(jobs'[m])
    <3>1. Unreaped(q)
      BY <1>4, <2>2, <2>5 DEF Unreaped, Reap, Reportable, Kernel, TypeOK
    <3>2. PICK m \in DOMAIN jobs : q \in Pids(jobs[m])
      BY <3>1 DEF Listing
    <3>3. CASE m \in DOMAIN jobs'
      BY <2>3, <3>2, <3>3
    <3>4. CASE m \notin DOMAIN jobs'
      <4>1. m = n
        BY <2>1, <3>4
      <4>2. PICK i \in DOMAIN jobs[n].procs : jobs[n].procs[i].pid = q
        BY <3>2, <4>1 DEF Pids
      <4>3. CASE q = p
        BY <2>1, <2>2, <2>5, <3>4, <4>1, <4>2, <4>3
      <4>4. CASE q # p
        BY <2>1, <3>1, <3>4, <4>1, <4>2, <4>4 DEF Entries, Unreaped
      <4>. QED
        BY <4>3, <4>4
    <3>. QED
      BY <3>3, <3>4
  <2>6. \A m \in DOMAIN jobs' : m < next'
    BY <2>2, <2>3 DEF Listing
  <2>. QED
    BY <2>2, <2>4, <2>5, <2>6 DEF Listing
<1>. QED
  BY <1>1, <1>2, <1>3, <1>4, QuietStep DEF Starts

\* A job that a builtin can name has a process left, in the group of the first.
LEMMA LiveGroup ==
  ASSUME IInv, NEW n \in DOMAIN jobs, n # cur \/ pc \notin {"fork", "exited"}
  PROVE  /\ GroupID(jobs[n]) \in Pid /\ Group(GroupID(jobs[n])) # {}
         /\ \E i \in DOMAIN jobs[n].procs :
              LET p == jobs[n].procs[i].pid IN Unreaped(p) /\ pgid[p] = GroupID(jobs[n])
<1>. USE DEF IInv
<1>1. PICK i \in DOMAIN jobs[n].procs : jobs[n].procs[i].state # "kTerminated"
  BY DEF Listing, AllTerminated
<1>2. jobs[n].procs[i].pid \in Pid
  BY EntryType DEF TypeOK
<1>3. Unreaped(jobs[n].procs[i].pid) /\ pgid[jobs[n].procs[i].pid] = GroupID(jobs[n])
  BY <1>1, <1>2 DEF Entries, Unreaped, TypeOK
<1>. QED
  BY <1>2, <1>3 DEF Group, Kernel, Unreaped

\* The shell is where its caller put it, with the keyboard's signals blocked but
\* in the window of fg.
LEMMA PlacesStep == IInv /\ [Next]_vars => Places'
<1>. SUFFICES ASSUME IInv, [Next]_vars PROVE Places'
  OBVIOUS
<1>. USE DEF IInv, Places
<1>1. ASSUME NEW size \in 1 .. MaxPipeline, NEW background \in BOOLEAN,
             CreateJob(size, background)
      PROVE  Places'
  BY <1>1 DEF CreateJob, AddJob
<1>2. ASSUME NEW p \in Pid, Fork(p) PROVE Places'
  <2>1. DOMAIN jobs' = DOMAIN jobs
    BY <1>2, ForkList
  <2>. QED
    BY <1>2, <2>1 DEF Fork, signals
<1>3. ASSUME NEW p \in Pid, Reap(p) PROVE Places'
  BY <1>3 DEF Reap, signals, control
<1>4. ASSUME Launched PROVE Places'
  <2>1. CASE jobs[cur].state = "kBackground"
    BY <1>4, <2>1 DEF Launched
  <2>2. CASE jobs[cur].state = "kForeground"
    BY <1>4, <2>2 DEF Launched, WaitLoop
  <2>. QED
    BY <1>4, <2>1, <2>2 DEF Launched
<1>5. ASSUME NEW sig \in Signal, SigWait(sig) PROVE Places'
  BY <1>5 DEF SigWait
<1>6. ASSUME ReapDone PROVE Places'
  BY <1>6 DEF ReapDone, WaitLoop
<1>7. ASSUME NEW n \in DOMAIN jobs, Fg(n) PROVE Places'
  <2>1. {"INT", "TSTP"} \subseteq addSigs'
    BY <1>7 DEF Fg, AddedSigs
  <2>2. pc' \in {"killed", "exited", "stopped", "fgGrant"}
    BY <1>7 DEF Fg
  <2>. QED
    BY <1>7, <2>1, <2>2 DEF Fg
<1>8. ASSUME FgGrant PROVE Places'
  <2>1. Group(GroupID(jobs[cur])) # {} /\ GroupID(jobs[cur]) \in Pid
    BY <1>8, LiveGroup DEF FgGrant
  <2>. QED
    BY <1>8, <2>1, ShellAssumption DEF FgGrant
<1>9. ASSUME FgContinue PROVE Places'
  <2>1. DOMAIN jobs' = DOMAIN jobs
    BY <1>9 DEF FgContinue, SetJob
  <2>. QED
    BY <1>9, <2>1 DEF FgContinue, signals
<1>10. ASSUME FgWait PROVE Places'
  BY <1>10 DEF FgWait, WaitLoop
<1>11. ASSUME NEW p \in Pid, ChildTakesTerminal(p) PROVE Places'
  <2>1. tty' \in Pid
    BY <1>11 DEF ChildTakesTerminal, Kernel
  <2>. QED
    BY <1>11, <2>1, ShellAssumption DEF ChildTakesTerminal, signals, control
<1>12. ASSUME NEW sig \in Keys, Key(sig) PROVE Places'
  <2>1. CASE sig \in mask
    BY <1>12, <2>1 DEF Key
  <2>2. CASE sig \notin mask
    <3>1. pc' = "stopped" => sig = "TSTP" /\ pc = "fgGrant"
      BY <1>12, <2>2, ShellAssumption DEF Key, Over, TypeOK
    <3>2. pc' \in {"killed", "exited", "stopped"}
      BY <1>12, <2>2, ShellAssumption DEF Key
    <3>. QED
      BY <1>12, <3>1, <3>2 DEF Key
  <2>. QED
    BY <2>1, <2>2
<1>13. ASSUME NEW n \in DOMAIN jobs, Bg(n) PROVE Places'
  BY <1>13 DEF Bg, control, signals
<1>14. ASSUME \/ ForkFails \/ EndOfInput \/ ShellResumed
              \/ \E name \in {"jobs", "quit"} : JobsOrQuit(name)
       PROVE  Places'
  BY <1>14 DEF ForkFails, EndOfInput, ShellResumed, JobsOrQuit, signals
<1>15. ASSUME \/ \E p \in Pid : \/ Slay(p) \/ Halt(p) \/ Cont(p)
                               \/ ChildExits(p) \/ ChildStops(p) \/ ChildResumes(p)
              \/ UNCHANGED vars
       PROVE  Places'
  <2>1. UNCHANGED <<jobs, control, mask, addSigs, tty>>
    BY <1>15 DEF Slay, Halt, Cont, ChildExits, ChildStops, ChildResumes, vars, signals
  <2>. QED
    BY <2>1 DEF control
<1>. QED
  BY <1>1, <1>2, <1>3, <1>4, <1>5, <1>6, <1>7, <1>8, <1>9, <1>10, <1>11, <1>12, <1>13, <1>14,
     <1>15 DEF Next, Command, Run, World

\* No step leaves a job in the foreground that the shell does not attend to.
LEMMA ForegroundStep == IInv /\ [Next]_vars => ForegroundIsAttended'
<1>. SUFFICES ASSUME IInv, [Next]_vars,
                     NEW n \in DOMAIN jobs', jobs'[n].state = "kForeground"
              PROVE  n = cur' /\ Attending'
  BY DEF ForegroundIsAttended
<1>. USE DEF IInv, ForegroundIsAttended, Attending
<1>1. ASSUME NEW size \in 1 .. MaxPipeline, NEW background \in BOOLEAN,
             CreateJob(size, background)
      PROVE  n = cur' /\ Attending'
  BY <1>1 DEF CreateJob, AddJob
<1>2. ASSUME NEW p \in Pid, Fork(p) PROVE n = cur' /\ Attending'
  <2>1. n \in DOMAIN jobs /\ jobs'[n].state = jobs[n].state
    BY <1>2, ForkList
  <2>. QED
    BY <1>2, <2>1 DEF Fork
<1>3. ASSUME NEW p \in Pid, Reap(p) PROVE n = cur' /\ Attending'
  <2>1. n \in DOMAIN jobs /\ jobs[n].state = "kForeground"
    BY <1>3, ReapList
  <2>. QED
    BY <1>3, <2>1 DEF Reap, control
<1>4. ASSUME Launched PROVE n = cur' /\ Attending'
  BY <1>4 DEF Launched, WaitLoop, HasForegroundJob, Foreground
<1>5. ASSUME NEW sig \in Signal, SigWait(sig) PROVE n = cur' /\ Attending'
  BY <1>5 DEF SigWait, Places
<1>6. ASSUME ReapDone PROVE n = cur' /\ Attending'
  BY <1>6 DEF ReapDone, WaitLoop, HasForegroundJob, Foreground
<1>7. ASSUME NEW m \in DOMAIN jobs, Bg(m) PROVE n = cur' /\ Attending'
  <2>1. jobs[m] \in Job
    BY DEF TypeOK, IsJobMap
  <2>2. n \in DOMAIN jobs /\ jobs[n].state = "kForeground"
    BY <1>7, <2>1 DEF Bg, SetJob, Job, TypeOK, IsJobMap
  <2>. QED
    BY <1>7, <2>2 DEF Bg
<1>8. ASSUME FgContinue PROVE n = cur' /\ Attending'
  <2>1. n \in DOMAIN jobs /\ (n # cur => jobs[n].state = "kForeground")
    BY <1>8 DEF FgContinue, SetJob, TypeOK, IsJobMap
  <2>. QED
    BY <1>8, <2>1 DEF FgContinue
<1>9. ASSUME FgWait PROVE n = cur' /\ Attending'
  BY <1>9 DEF FgWait, WaitLoop, HasForegroundJob, Foreground
<1>10. ASSUME NEW sig \in Keys, Key(sig) PROVE n = cur' /\ Attending'
  <2>1. jobs' = jobs /\ cur' = cur /\ caller' = caller /\ pc' \in {pc, "killed", "exited", "stopped"}
    BY <1>10, ShellAssumption DEF Key
  <2>2. CASE pc' = pc \/ pc' = "exited"
    BY <2>1, <2>2
  <2>3. CASE pc' # pc /\ pc' \in {"killed", "stopped"}
    <3>1. sig \in {"INT", "TSTP"} /\ sig \notin mask
      BY <1>10, <2>3, ShellAssumption DEF Key
    <3>2. pc = "fgBlock" => tty # Shell
      BY DEF Places
    <3>3. pc \notin {"prompt", "fork", "wait", "reap"}
      BY <3>1 DEF Places
    <3>. QED
      BY <1>10, <2>1, <3>2, <3>3 DEF Key, Over
  <2>. QED
    BY <2>1, <2>2, <2>3
<1>11. ASSUME \/ ForkFails \/ EndOfInput \/ ShellResumed \/ FgGrant
              \/ \E name \in {"jobs", "quit"} : JobsOrQuit(name)
              \/ \E m \in DOMAIN jobs : Fg(m)
       PROVE  n = cur' /\ Attending'
  BY <1>11 DEF ForkFails, EndOfInput, ShellResumed, FgGrant, JobsOrQuit, Fg
<1>12. ASSUME \/ \E p \in Pid : \/ Slay(p) \/ Halt(p) \/ Cont(p) \/ ChildExits(p)
                               \/ ChildStops(p) \/ ChildResumes(p) \/ ChildTakesTerminal(p)
              \/ UNCHANGED vars
       PROVE  n = cur' /\ Attending'
  <2>1. UNCHANGED <<jobs, control>>
    BY <1>12 DEF Slay, Halt, Cont, ChildExits, ChildStops, ChildResumes, ChildTakesTerminal, vars
  <2>. QED
    BY <2>1 DEF control
<1>. QED
  BY <1>1, <1>2, <1>3, <1>4, <1>5, <1>6, <1>7, <1>8, <1>9, <1>10, <1>11, <1>12
     DEF Next, Command, Run, World
------------------------------------------------------------------------------
(* What the list says of the processes, and what will wake the shell.          *)

\* What a step makes of a child but createJob and waitpid, waitpid will report.
ChangesReported ==
  \A p \in Pid : Reportable(p)' \/ (proc'[p] = proc[p] /\ report'[p] = report[p])

LEMMA ChangesAreReported ==
  ASSUME TypeOK, Kernel, [Next]_vars
  PROVE  ChangesReported \/ \E p \in Pid : Fork(p) \/ Reap(p)
<1>. USE DEF ChangesReported
<1>1. ASSUME NEW targets \in SUBSET Pid, Continue(targets) PROVE ChangesReported
  BY <1>1 DEF Continue, Reportable, TypeOK
<1>2. ASSUME NEW p \in Pid, Slay(p) \/ Halt(p) \/ ChildExits(p) \/ ChildStops(p)
      PROVE  ChangesReported
  BY <1>2 DEF Slay, Halt, ChildExits, ChildStops, Reportable, TypeOK
<1>3. ASSUME UNCHANGED <<proc, report>> PROVE ChangesReported
  BY <1>3
<1>4. ASSUME \/ ForkFails \/ Launched \/ ReapDone \/ FgGrant \/ FgWait \/ EndOfInput \/ ShellResumed
             \/ UNCHANGED vars
             \/ \E sig \in Signal : SigWait(sig)
             \/ \E sig \in Keys : Key(sig)
             \/ \E name \in {"jobs", "quit"} : JobsOrQuit(name)
             \/ \E n \in DOMAIN jobs : Fg(n)
             \/ \E p \in Pid : ChildResumes(p) \/ ChildTakesTerminal(p)
             \/ Starts
      PROVE  UNCHANGED <<proc, report>>
  BY <1>4 DEF ForkFails, Launched, ReapDone, FgGrant, FgWait, EndOfInput, ShellResumed, SigWait,
              Key, JobsOrQuit, Fg, ChildResumes, ChildTakesTerminal, Starts, CreateJob, vars, kernel
<1>5. ASSUME FgContinue \/ (\E n \in DOMAIN jobs : Bg(n)) \/ (\E p \in Pid : Cont(p))
      PROVE  ChangesReported
  BY <1>1, <1>5 DEF FgContinue, Bg, Cont, Group
<1>. QED
  BY <1>2, <1>3, <1>4, <1>5 DEF Next, Command, Run, World, Starts

\* Every step keeps the list and the kernel apart by reports only.
LEMMA FollowsStep == IInv /\ Follows /\ [Next]_vars => Follows'
<1>. SUFFICES ASSUME IInv, Follows, [Next]_vars PROVE Follows'
  OBVIOUS
<1>p. \A n \in DOMAIN jobs : \A i \in DOMAIN jobs[n].procs : jobs[n].procs[i].pid \in Pid
  BY EntryType DEF IInv, TypeOK
<1>1. ASSUME NEW p \in Pid, Fork(p) PROVE Follows'
  <2>1. /\ cur \in DOMAIN jobs /\ DOMAIN jobs' = DOMAIN jobs
        /\ \A n \in DOMAIN jobs : p \notin Pids(jobs[n])
        /\ \A n \in DOMAIN jobs : n # cur => jobs'[n] = jobs[n]
        /\ jobs[cur].procs \in Seq(Process)
        /\ jobs'[cur].procs = Append(jobs[cur].procs, [pid |-> p, state |-> "kRunning"])
    BY <1>1, ForkList DEF IInv
  <2>2. \A n \in DOMAIN jobs' : \A i \in DOMAIN jobs'[n].procs :
          \/ jobs'[n].procs[i] = [pid |-> p, state |-> "kRunning"]
          \/ n \in DOMAIN jobs /\ i \in DOMAIN jobs[n].procs /\ jobs'[n].procs[i] = jobs[n].procs[i]
    <3>1. \A i \in DOMAIN jobs'[cur].procs :
            \/ jobs'[cur].procs[i] = [pid |-> p, state |-> "kRunning"]
            \/ i \in DOMAIN jobs[cur].procs /\ jobs'[cur].procs[i] = jobs[cur].procs[i]
      BY <2>1
    <3>. QED
      BY <2>1, <3>1
  <2>3. /\ \A q \in Pid : q # p => proc'[q] = proc[q]
        /\ report' = report /\ proc'[p] = "running"
    BY <1>1 DEF Fork, IInv, TypeOK
  <2>. QED
    BY <1>p, <2>1, <2>2, <2>3 DEF Follows, Pids, Reportable, Unreaped
<1>2. ASSUME NEW p \in Pid, Reap(p) PROVE Follows'
  <2>1. /\ \A q \in Pid : q # p => proc'[q] = proc[q] /\ report'[q] = report[q]
        /\ report'[p] = "none" /\ proc'[p] = IF proc[p] = "zombie" THEN "reaped" ELSE proc[p]
        /\ Reportable(p)
    BY <1>2 DEF Reap, IInv, TypeOK
  <2>2. Unreaped(p)' => (Reported(p) = "kRunning" <=> proc'[p] = "running")
    BY <2>1, ReportNames DEF IInv, Unreaped
  <2>3. \A n \in DOMAIN jobs' : \A i \in DOMAIN jobs'[n].procs :
          /\ n \in DOMAIN jobs /\ i \in DOMAIN jobs[n].procs
          /\ jobs'[n].procs[i] = IF jobs[n].procs[i].pid = p
                                 THEN [pid |-> p, state |-> Reported(p)] ELSE jobs[n].procs[i]
    <3>1. \E k \in DOMAIN jobs :
            /\ DOMAIN jobs' \in {DOMAIN jobs, DOMAIN jobs \ {k}}
            /\ \A n \in DOMAIN jobs' :
                 /\ DOMAIN jobs'[n].procs = DOMAIN jobs[n].procs
                 /\ \A i \in DOMAIN jobs[n].procs :
                      jobs'[n].procs[i] = IF jobs[n].procs[i].pid = p
                                          THEN [pid |-> p, state |-> Reported(p)]
                                          ELSE jobs[n].procs[i]
      BY <1>2, ReapList DEF IInv
    <3>. QED
      BY <3>1
  <2>. QED
    BY <1>p, <2>1, <2>2, <2>3 DEF Follows, Reportable, Unreaped
<1>3. ASSUME ChangesReported, Quiet PROVE Follows'
  BY <1>3, <1>p DEF Follows, Quiet, QuietList, QuietKernel, ChangesReported, Reportable, Unreaped
<1>4. ASSUME Starts PROVE Follows'
  <2>1. /\ \A n \in DOMAIN jobs' : \A i \in DOMAIN jobs'[n].procs :
             n \in DOMAIN jobs /\ jobs'[n] = jobs[n]
        /\ UNCHANGED <<proc, report>>
    BY <1>4 DEF Starts, CreateJob, AddJob, NewJob, kernel
  <2>. QED
    BY <2>1 DEF Follows, Reportable, Unreaped
<1>. QED
  BY <1>1, <1>2, <1>3, <1>4, QuietStep, ChangesAreReported DEF IInv

\* Only the builtins continue processes, and none of a job that createJob waits for.
LEMMA NeverContinuedStep == IInv /\ NeverContinued /\ [Next]_vars => NeverContinued'
<1>. SUFFICES ASSUME IInv, NeverContinued, [Next]_vars, caller' = "createJob",
                     NEW n \in DOMAIN jobs', jobs'[n].state = "kForeground", NEW q \in Pids(jobs'[n])
              PROVE  report'[q] # "continued"
  BY DEF NeverContinued, Foreground, Pids
<1>1. ASSUME NEW size \in 1 .. MaxPipeline, NEW background \in BOOLEAN,
             CreateJob(size, background)
      PROVE  report'[q] # "continued"
  <2>1. /\ DOMAIN jobs' = DOMAIN jobs \cup {next} /\ jobs'[next].procs = <<>>
        /\ \A m \in DOMAIN jobs : m # next => jobs'[m] = jobs[m]
    BY <1>1 DEF CreateJob, AddJob, NewJob
  <2>2. n # next
    BY <2>1 DEF Pids
  <2>. QED
    BY <1>1, <2>1, <2>2 DEF IInv, ForegroundIsAttended, Attending, CreateJob
<1>2. ASSUME NEW p \in Pid, Fork(p) PROVE report'[q] # "continued"
  <2>1. n \in DOMAIN jobs /\ jobs'[n].state = jobs[n].state
    BY <1>2, ForkList DEF IInv
  <2>2. q = p \/ q \in Pids(jobs[n])
    <3>1. CASE n # cur
      BY <1>2, <3>1, ForkList DEF IInv
    <3>2. CASE n = cur
      <4>1. /\ jobs[cur].procs \in Seq(Process)
            /\ jobs'[cur].procs = Append(jobs[cur].procs, [pid |-> p, state |-> "kRunning"])
        BY <1>2, ForkList DEF IInv
      <4>. QED
        BY <3>2, <4>1 DEF Pids
    <3>. QED
      BY <3>1, <3>2
  <2>3. report' = report /\ caller' = caller /\ proc[p] = "free"
    BY <1>2 DEF Fork
  <2>. QED
    BY <2>1, <2>2, <2>3 DEF NeverContinued, Foreground, IInv, Kernel
<1>3. ASSUME NEW p \in Pid, Reap(p) PROVE report'[q] # "continued"
  <2>1. \E k \in DOMAIN jobs :
          /\ DOMAIN jobs' \in {DOMAIN jobs, DOMAIN jobs \ {k}}
          /\ \A m \in DOMAIN jobs' :
               /\ jobs'[m].state = "kForeground" => jobs[m].state = "kForeground"
               /\ DOMAIN jobs'[m].procs = DOMAIN jobs[m].procs
               /\ \A i \in DOMAIN jobs[m].procs :
                    jobs'[m].procs[i] = IF jobs[m].procs[i].pid = p
                                        THEN [pid |-> p, state |-> Reported(p)]
                                        ELSE jobs[m].procs[i]
    BY <1>3, ReapList DEF IInv
  <2>2. n \in Foreground(jobs) /\ q \in Pids(jobs[n])
    BY <2>1 DEF Foreground, Pids
  <2>3. caller' = caller /\ report' = [report EXCEPT ![p] = "none"]
    BY <1>3 DEF Reap, control
  <2>4. q \in Pid
    BY <2>2, EntryType DEF Pids, Foreground, IInv, TypeOK
  <2>. QED
    BY <2>2, <2>3, <2>4 DEF NeverContinued, IInv, TypeOK
<1>4. ASSUME \/ \E m \in DOMAIN jobs : Bg(m)
             \/ \E p \in Pid : Slay(p) \/ Halt(p) \/ Cont(p)
      PROVE  FALSE
  <2>1. n \in DOMAIN jobs /\ jobs[n].state = "kForeground" /\ pc = "prompt"
    BY <1>4 DEF Bg, SetJob, Slay, Halt, Cont, IInv, TypeOK, IsJobMap, Job
  <2>. QED
    BY <2>1 DEF IInv, ForegroundIsAttended, Attending
<1>5. ASSUME NEW p \in Pid, ChildExits(p) \/ ChildStops(p) PROVE report'[q] # "continued"
  BY <1>5, EntryType DEF ChildExits, ChildStops, NeverContinued, Foreground, Pids, control, IInv, TypeOK
<1>6. ASSUME \/ ForkFails \/ Launched \/ ReapDone \/ FgGrant \/ FgContinue \/ FgWait \/ EndOfInput
             \/ ShellResumed \/ UNCHANGED vars
             \/ \E sig \in Signal : SigWait(sig)
             \/ \E sig \in Keys : Key(sig)
             \/ \E name \in {"jobs", "quit"} : JobsOrQuit(name)
             \/ \E m \in DOMAIN jobs : Fg(m)
             \/ \E p \in Pid : ChildResumes(p) \/ ChildTakesTerminal(p)
      PROVE  report'[q] # "continued"
  <2>1. UNCHANGED <<jobs, report, caller>>
    BY <1>6 DEF ForkFails, Launched, ReapDone, WaitLoop, NoLocals, FgGrant, FgContinue, FgWait,
                EndOfInput, ShellResumed, SigWait, Key, JobsOrQuit, Fg, ChildResumes,
                ChildTakesTerminal, vars, kernel, control, IInv, Places
  <2>. QED
    BY <2>1 DEF NeverContinued, Foreground
<1>. QED
  BY <1>1, <1>2, <1>3, <1>4, <1>5, <1>6 DEF Next, Command, Run, World

\* Every step keeps a wake-up call for what waitpid has to report.
LEMMA WakeupsStep == IInv /\ Wakeups /\ [Next]_vars => Wakeups'
<1>. SUFFICES ASSUME IInv, Wakeups, [Next]_vars PROVE Wakeups'
  OBVIOUS
<1>. USE DEF Wakeups
<1>r. \A p \in Pid : Reportable(p) => proc[p] # "free"
  BY ReportNames DEF IInv, Unreaped
<1>1. ASSUME NEW size \in 1 .. MaxPipeline, NEW background \in BOOLEAN,
             CreateJob(size, background)
      PROVE  Wakeups'
  BY <1>1, <1>r DEF CreateJob, AddedSigs, kernel, Reportable
<1>2. ASSUME NEW p \in Pid, Fork(p) PROVE Wakeups'
  BY <1>2, <1>r DEF Fork, signals, Reportable, IInv, TypeOK
<1>3. ASSUME NEW p \in Pid, Reap(p) PROVE Wakeups'
  BY <1>3, <1>r DEF Reap, signals, control, IInv, TypeOK
<1>4. ASSUME Launched PROVE Wakeups'
  BY <1>4, <1>r DEF Launched, WaitLoop, kernel, Reportable
<1>5. ASSUME NEW sig \in Signal, SigWait(sig) PROVE Wakeups'
  BY <1>5, <1>r DEF SigWait, Signal, SigNum, WIFSTOPPED, kernel
<1>6. ASSUME ReapDone PROVE Wakeups'
  BY <1>6, <1>r DEF ReapDone, WaitLoop, kernel, Reportable
<1>7. ASSUME NEW n \in DOMAIN jobs, Fg(n) PROVE Wakeups'
  BY <1>7 DEF Fg, AddedSigs
<1>8. ASSUME FgGrant PROVE Wakeups'
  <2>1. Group(GroupID(jobs[cur])) # {}
    BY <1>8, LiveGroup DEF FgGrant, IInv, Places
  <2>. QED
    BY <1>8, <2>1 DEF FgGrant
<1>9. ASSUME FgContinue PROVE Wakeups'
  BY <1>9 DEF FgContinue, SetJob, signals, IInv, TypeOK, Places, IsJobMap, Job
<1>10. ASSUME FgWait PROVE Wakeups'
  BY <1>10 DEF FgWait, WaitLoop, HasForegroundJob, Foreground, IInv, Places
<1>11. ASSUME NEW p \in Pid, Slay(p) \/ Halt(p) \/ ChildExits(p) \/ ChildStops(p) PROVE Wakeups'
  BY <1>11, <1>r DEF Slay, Halt, ChildExits, ChildStops, RaiseChld, control, Reportable, IInv, TypeOK
<1>12. ASSUME NEW p \in Pid, ChildResumes(p) PROVE Wakeups'
  BY <1>12, <1>r DEF ChildResumes, RaiseChld, control, Reportable
<1>13. ASSUME NEW targets \in SUBSET Pid, Continue(targets), pc = "prompt",
              UNCHANGED <<signals, control>>
       PROVE  Wakeups'
  BY <1>13 DEF Continue, signals, control, Reportable, IInv, TypeOK
<1>14. ASSUME (\E n \in DOMAIN jobs : Bg(n)) \/ (\E p \in Pid : Cont(p)) PROVE Wakeups'
  BY <1>13, <1>14 DEF Bg, Cont, Group
<1>15. ASSUME NEW sig \in Keys, Key(sig) PROVE Wakeups'
  <2>1. CASE sig \in mask
    BY <1>15, <2>1 DEF Key, kernel, Reportable
  <2>2. CASE sig \notin mask
    <3>1. pc' \in {"killed", "exited", "stopped"} /\ (pc' = "stopped" => sig = "TSTP")
      BY <1>15, <2>2, ShellAssumption DEF Key
    <3>2. pc' = "stopped" => pc \in {"fgGrant", "fgCont", "fgBlock"}
      BY <1>15, <2>2, <3>1 DEF Key, Over, IInv, TypeOK, Places
    <3>. QED
      BY <1>15, <3>1, <3>2 DEF Key
  <2>. QED
    BY <2>1, <2>2
<1>16. ASSUME \/ ForkFails \/ EndOfInput \/ ShellResumed \/ UNCHANGED vars
              \/ \E name \in {"jobs", "quit"} : JobsOrQuit(name)
              \/ \E p \in Pid : ChildTakesTerminal(p)
       PROVE  Wakeups'
  BY <1>16 DEF ForkFails, EndOfInput, ShellResumed, JobsOrQuit, ChildTakesTerminal, vars, kernel,
               signals, control, Reportable
<1>. QED
  BY <1>1, <1>2, <1>3, <1>4, <1>5, <1>6, <1>7, <1>8, <1>9, <1>10, <1>11, <1>12, <1>14, <1>15, <1>16
     DEF Next, Command, Run, World
------------------------------------------------------------------------------
\* The inductive invariant holds initially.
LEMMA InitInvariant == Init => IInv
<1>. SUFFICES ASSUME Init PROVE IInv
  OBVIOUS
<1>1. DOMAIN jobs = {} /\ jobs = [n \in {} |-> NewJob("kForeground")]
  BY DEF Init
<1>2. TypeOK
  BY <1>1 DEF Init, TypeOK, IsJobMap, JobNum, Signal, NoJobNum
<1>. QED
  BY <1>1, <1>2 DEF Init, IInv, Places, Forking, Kernel, Entries, Listing, ForegroundIsAttended,
     Unreaped

\* The inductive invariant is one.
THEOREM Invariance == Spec => []IInv
<1>1. IInv /\ [Next]_vars => IInv'
  BY TypeStep, PlacesStep, ForkingStep, KernelStep, EntriesStep, ListingStep, ForegroundStep DEF IInv
<1>. QED
  BY InitInvariant, <1>1, PTL DEF Spec

\* Every variable of the shell and of the kernel keeps its type.
THEOREM TypeCorrectness == Spec => []TypeOK
<1>1. IInv => TypeOK
  BY DEF IInv
<1>. QED
  BY Invariance, <1>1, PTL

\* At most one job is in the foreground, the one the shell launches, resumes or
\* waits for; at the prompt there is none.
THEOREM ForegroundDiscipline == Spec => []ForegroundIsAttended
<1>1. IInv => ForegroundIsAttended
  BY DEF IInv
<1>. QED
  BY Invariance, <1>1, PTL

\* killpg and tcsetpgrp find the group of every job the user can name.
THEOREM GroupsAreLive == Spec => []JobGroupsAreLive
<1>1. IInv => JobGroupsAreLive
  BY LiveGroup DEF JobGroupsAreLive
<1>. QED
  BY Invariance, <1>1, PTL

\* No child that was forked and not reaped is missing from the list, or twice in it.
THEOREM ChildrenStayListed == Spec => []ChildrenAreListed
<1>1. IInv => ChildrenAreListed
  BY DEF IInv, ChildrenAreListed, Listing, Entries, Holders, Pids
<1>. QED
  BY Invariance, <1>1, PTL

\* Only in the window that fg opens does the keyboard kill or stop the shell.
THEOREM KeyboardIsDeferred == Spec => KeyboardHitsShellInFgOnly
<1>1. IInv /\ [Next]_vars => [pc' \in {"killed", "stopped"} => caller' = "fg"]_pc
  <2>. SUFFICES ASSUME IInv, [Next]_vars, pc' \in {"killed", "stopped"}, pc' # pc
                PROVE  caller' = "fg"
    OBVIOUS
  <2>1. ASSUME NEW sig \in Keys, Key(sig) PROVE caller' = "fg"
    <3>1. sig \in {"INT", "TSTP"} /\ sig \notin mask
      BY <2>1, ShellAssumption DEF Key
    <3>2. pc \in {"fgGrant", "fgCont", "fgBlock"}
      BY <2>1, <3>1 DEF IInv, Places, TypeOK, Key, Over
    <3>. QED
      BY <2>1, <3>2 DEF IInv, Places, Key
  <2>2. ASSUME NEW n \in DOMAIN jobs, Fg(n) PROVE caller' = "fg"
    BY <2>2 DEF Fg
  <2>3. ASSUME \/ ForkFails \/ Launched \/ ReapDone \/ FgGrant \/ FgContinue \/ FgWait \/ EndOfInput
               \/ ShellResumed \/ UNCHANGED vars \/ Starts
               \/ \E sig \in Signal : SigWait(sig)
               \/ \E name \in {"jobs", "quit"} : JobsOrQuit(name)
               \/ \E n \in DOMAIN jobs : Bg(n)
               \/ \E p \in Pid : Fork(p) \/ Reap(p) \/ Slay(p) \/ Halt(p) \/ Cont(p)
               \/ \E p \in Pid : ChildExits(p) \/ ChildStops(p) \/ ChildResumes(p)
               \/ \E p \in Pid : ChildTakesTerminal(p)
        PROVE  FALSE
    BY <2>3 DEF ForkFails, Launched, ReapDone, WaitLoop, FgGrant, FgContinue, FgWait, EndOfInput,
                ShellResumed, Starts, CreateJob, SigWait, JobsOrQuit, Bg, Fork, Reap, Slay, Halt,
                Cont, ChildExits, ChildStops, ChildResumes, ChildTakesTerminal, vars, control
  <2>. QED
    BY <2>1, <2>2, <2>3 DEF Next, Command, Run, World, Starts
<1>. QED
  BY Invariance, <1>1, PTL DEF Spec, KeyboardHitsShellInFgOnly

\* The list differs from the process table only by what waitpid has yet to
\* report: waitChildSigs and synchronize apply every report once and in order.
THEOREM ListIsCurrent == Spec => []ListLagsByReportsOnly
<1>1. Init => Follows
  BY DEF Init, Follows
<1>2. IInv /\ Follows => ListLagsByReportsOnly
  BY DEF ListLagsByReportsOnly, Follows, IInv, Entries
<1>. QED
  BY Invariance, FollowsStep, <1>1, <1>2, PTL DEF Spec

\* While waitSigs sleeps for createJob, every change of a child is announced by a
\* SIGCHLD that is pending or that a continued child has yet to raise.
THEOREM WaitIsWoken == Spec => []NoLostWakeup
<1>1. Init => Wakeups
  BY DEF Init, Wakeups, Reportable
<1>2. IInv /\ Wakeups => NoLostWakeup
  BY DEF NoLostWakeup, Wakeups
<1>. QED
  BY Invariance, WakeupsStep, <1>1, <1>2, PTL DEF Spec

\* A job that createJob waits for is neither demoted nor forgotten while the
\* kernel runs one of its processes.
THEOREM LaunchedLeavesIdle == Spec => LaunchedJobLeavesIdle
<1>1. Init => NeverContinued
  BY DEF Init, NeverContinued
<1>2. ASSUME IInv, Follows, NeverContinued, [Next]_vars, NEW n \in Foreground(jobs),
             caller = "createJob", n \notin DOMAIN jobs' \/ jobs'[n].state # "kForeground",
             NEW q \in Pids(jobs[n])
      PROVE  proc[q] # "running"
  <2>. USE <1>2 DEF Foreground
  <2>1. ASSUME NEW p \in Pid, Reap(p) PROVE proc[q] # "running"
    <3>1. PICK k \in DOMAIN jobs : \E list :
            /\ p \in Pids(jobs[k]) /\ jobs' = Synchronize(list, k)
            /\ IsJobMap(list) /\ DOMAIN list = DOMAIN jobs
            /\ \A m \in DOMAIN jobs : m # k => list[m] = jobs[m]
            /\ list[k].state = jobs[k].state /\ DOMAIN list[k].procs = DOMAIN jobs[k].procs
            /\ \A i \in DOMAIN jobs[k].procs :
                 list[k].procs[i] = IF jobs[k].procs[i].pid = p
                                    THEN [pid |-> p, state |-> Reported(p)] ELSE jobs[k].procs[i]
      BY <2>1, ReapUpdates DEF IInv
    <3>2. PICK list :
            /\ jobs' = Synchronize(list, k) /\ IsJobMap(list) /\ DOMAIN list = DOMAIN jobs
            /\ \A m \in DOMAIN jobs : m # k => list[m] = jobs[m]
            /\ list[k].state = jobs[k].state /\ DOMAIN list[k].procs = DOMAIN jobs[k].procs
            /\ \A i \in DOMAIN jobs[k].procs :
                 list[k].procs[i] = IF jobs[k].procs[i].pid = p
                                    THEN [pid |-> p, state |-> Reported(p)] ELSE jobs[k].procs[i]
      BY <3>1
    <3>3. n \in DOMAIN list /\ list[n].state = "kForeground"
      BY <3>2
    <3>4. n = k /\ \A i \in DOMAIN list[n].procs : list[n].procs[i].state # "kRunning"
      <4>1. n \notin DOMAIN Synchronize(list, k) \/ Synchronize(list, k)[n].state # "kForeground"
        BY <3>2
      <4>2. IsJobMap(list)
        BY <3>2
      <4>. QED
        BY <3>3, <4>1, <4>2, SynchronizeDemotes
    <3>5. PICK i \in DOMAIN jobs[n].procs : jobs[n].procs[i].pid = q
      BY DEF Pids
    <3>6. q \in Pid
      BY <3>5, EntryType DEF IInv, TypeOK
    <3>7. CASE q = p
      <4>1. Reported(p) # "kRunning" /\ Reportable(p)
        BY <2>1, <3>2, <3>4, <3>5, <3>7 DEF Reap
      <4>. QED
        BY <3>7, <4>1, ReportNames DEF IInv
    <3>8. CASE q # p
      <4>1. jobs[n].procs[i].state # "kRunning"
        BY <3>2, <3>4, <3>5, <3>8
      <4>2. report[q] # "continued"
        BY DEF NeverContinued
      <4>. QED
        BY <3>5, <3>6, <4>1, <4>2 DEF Follows, Reportable, Unreaped, IInv, TypeOK, Kernel
    <3>. QED
      BY <3>7, <3>8
  <2>2. ASSUME NEW p \in Pid, Fork(p) PROVE FALSE
    BY <2>2, ForkList DEF IInv
  <2>3. ASSUME Starts PROVE FALSE
    BY <2>3 DEF Starts, CreateJob, IInv, ForegroundIsAttended, Attending
  <2>4. ASSUME NEW m \in DOMAIN jobs, Bg(m) PROVE FALSE
    BY <2>4 DEF Bg, IInv, ForegroundIsAttended, Attending
  <2>5. ASSUME FgContinue PROVE FALSE
    BY <2>5 DEF FgContinue, IInv, Places
  <2>6. ASSUME \/ ForkFails \/ Launched \/ ReapDone \/ FgGrant \/ FgWait \/ EndOfInput
               \/ ShellResumed \/ UNCHANGED vars
               \/ \E sig \in Signal : SigWait(sig)
               \/ \E sig \in Keys : Key(sig)
               \/ \E name \in {"jobs", "quit"} : JobsOrQuit(name)
               \/ \E m \in DOMAIN jobs : Fg(m)
               \/ \E p \in Pid : Slay(p) \/ Halt(p) \/ Cont(p) \/ ChildExits(p) \/ ChildStops(p)
               \/ \E p \in Pid : ChildResumes(p) \/ ChildTakesTerminal(p)
        PROVE  FALSE
    <3>1. jobs' = jobs
      BY <2>6 DEF ForkFails, Launched, ReapDone, FgGrant, FgWait, EndOfInput, ShellResumed, SigWait,
                  Key, JobsOrQuit, Fg, Slay, Halt, Cont, ChildExits, ChildStops, ChildResumes,
                  ChildTakesTerminal, vars
    <3>. QED
      BY <3>1
  <2>. QED
    BY <2>1, <2>2, <2>3, <2>4, <2>5, <2>6 DEF Next, Command, Run, World, Starts
<1>3. IInv /\ Follows /\ NeverContinued /\ [Next]_vars =>
        [\A n \in Foreground(jobs) :
           /\ caller = "createJob"
           /\ n \notin DOMAIN jobs' \/ jobs'[n].state # "kForeground"
           => \A p \in Pids(jobs[n]) : proc[p] # "running"]_vars
  BY <1>2
<1>4. Init => Follows
  BY DEF Init, Follows
<1>. QED
  BY Invariance, FollowsStep, NeverContinuedStep, <1>1, <1>3, <1>4, PTL
     DEF Spec, LaunchedJobLeavesIdle
==============================================================================

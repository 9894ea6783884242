------------------------------- MODULE JobList -------------------------------
(* The bookkeeping classes of the shell: STSHProcess, STSHJob, STSHJobList.   *)
(* A job list is a function from the numbers of the listed jobs to jobs, a    *)
(* job keeps its processes in the order in which they were added (pipeline    *)
(* order).  The operators are the methods of the classes, applied to values.  *)
EXTENDS Naturals, Sequences

CONSTANT Pid          \* the process ids the kernel may hand out

JobNum    == Nat \ {0}
JobState  == {"kForeground", "kBackground"}
ProcState == {"kRunning", "kStopped", "kTerminated"}

Process == [pid : Pid, state : ProcState]
Job     == [state : JobState, procs : Seq(Process)]

IsJobMap(jobs) == DOMAIN jobs \in SUBSET JobNum /\ jobs \in [DOMAIN jobs -> Job]

NoJobNum == 0         \* the number of njob, the sentinel job
------------------------------------------------------------------------------
Pids(job)     == {job.procs[i].pid : i \in DOMAIN job.procs}
GroupID(job)  == job.procs[1].pid       \* of a job that is not empty

NewJob(state) == [state |-> state, procs |-> <<>>]

AddProcess(job, pid) ==
  [job EXCEPT !.procs = Append(@, [pid |-> pid, state |-> "kRunning"])]

SetProcessState(job, pid, state) ==
  [job EXCEPT !.procs =
     [i \in 1 .. Len(@) |->
        IF @[i].pid = pid THEN [@[i] EXCEPT !.state = state] ELSE @[i]]]

\* Slip: only the first process is looked at.
FirstIsRunning(job) == job.procs # <<>> /\ job.procs[1].state = "kRunning"

SomethingIsRunning(job) ==
  \E i \in DOMAIN job.procs : job.procs[i].state = "kRunning"

AllTerminated(job) ==
  \A i \in DOMAIN job.procs : job.procs[i].state = "kTerminated"
------------------------------------------------------------------------------
\* addJob(state): the caller passes the list's own counter as the number.
AddJob(jobs, num, state) ==
  [n \in DOMAIN jobs \cup {num} |-> IF n = num THEN NewJob(state) ELSE jobs[n]]

Foreground(jobs) == {n \in DOMAIN jobs : jobs[n].state = "kForeground"}

HasForegroundJob(jobs) == Foreground(jobs) # {}

Holders(jobs, pid) == {n \in DOMAIN jobs : pid \in Pids(jobs[n])}

ContainsProcess(jobs, pid) == Holders(jobs, pid) # {}

\* The map is walked in the order of the job numbers.
JobWithProcess(jobs, pid) ==
  IF ContainsProcess(jobs, pid)
  THEN CHOOSE n \in Holders(jobs, pid) : \A m \in Holders(jobs, pid) : n <= m
  ELSE NoJobNum

SetJob(jobs, num, job) == [jobs EXCEPT ![num] = job]

Erase(jobs, num) == [n \in DOMAIN jobs \ {num} |-> jobs[n]]

\* Slips: a terminated job is kept; a job that is not running is forgotten
\* whatever became of its processes; a stopped job stays in the foreground.
SynchronizeKeeping(jobs, num) ==
  IF num \notin DOMAIN jobs \/ SomethingIsRunning(jobs[num]) THEN jobs
  ELSE SetJob(jobs, num, [jobs[num] EXCEPT !.state = "kBackground"])
SynchronizeForgetting(jobs, num) ==
  IF num \notin DOMAIN jobs \/ SomethingIsRunning(jobs[num]) THEN jobs ELSE Erase(jobs, num)
SynchronizeNotDemoting(jobs, num) ==
  IF num \notin DOMAIN jobs \/ ~AllTerminated(jobs[num]) THEN jobs ELSE Erase(jobs, num)

\* synchronize(job): a job none of whose processes runs is not a foreground
\* job any more, and one all of whose processes terminated is forgotten.
\* For njob, which is not in the map, nothing changes.
Synchronize(jobs, num) ==
  IF num \notin DOMAIN jobs THEN jobs
  ELSE IF AllTerminated(jobs[num]) THEN Erase(jobs, num)
  ELSE IF SomethingIsRunning(jobs[num]) THEN jobs
  ELSE SetJob(jobs, num, [jobs[num] EXCEPT !.state = "kBackground"])
==============================================================================

-------------------------------- MODULE Shell --------------------------------
(* stsh.cc: the read-eval loop of the shell, its builtins, createJob, and the *)
(* waiting for and reaping of children, together with the part of the kernel  *)
(* it depends on: the process table, the wait reports of the children, the    *)
(* shell's pending and blocked signals and the terminal's foreground group.   *)
EXTENDS JobList, FiniteSets

CONSTANTS
  Shell,       \* the shell's own process group
  MaxPipeline, \* the longest pipeline the user types
  Keys         \* the signals the user sends from the keyboard

ASSUME ShellAssumption ==
  /\ Shell \notin Pid
  /\ MaxPipeline \in Nat \ {0}
  /\ Keys \subseteq {"INT", "TSTP", "QUIT"}

VARIABLES
  jobs,        \* joblist.jobs
  next,        \* joblist.next
  proc,        \* kernel: what each process is doing
  pgid,        \* kernel: the process group of each process
  report,      \* kernel: the stop or continue waitpid has yet to report
  owes,        \* kernel: continued children that have yet to raise SIGCHLD
  grab,        \* children about to take the terminal (createJob, line 296)
  tty,         \* the terminal's foreground process group
  mask,        \* the signals the shell blocks
  pending,     \* the blocked signals that were raised
  addSigs,     \* the local of createJob and handleFgBg passed to waitSigs
  pc,          \* where the shell is
  caller,      \* the builtin or function on whose behalf it waits or reaps
  cur,         \* the number of the job the shell is launching or resuming
  todo         \* the commands of the pipeline createJob has yet to fork

kernel  == <<proc, pgid, report, owes>>
signals == <<mask, pending, addSigs>>
control == <<pc, caller, cur, todo>>
vars    == <<jobs, next, kernel, grab, tty, signals, control>>
------------------------------------------------------------------------------
Signal == {"INT", "TSTP", "QUIT", "CHLD", "CONT"}

SigNum == [INT |-> 2, QUIT |-> 3, CHLD |-> 17, CONT |-> 18, TSTP |-> 20]

\* <sys/wait.h>: waitSigs applies it to the signal that sigwait returned.
WIFSTOPPED(status) == status % 256 = 127

\* What sigaddset does to the set createJob and handleFgBg leave
\* uninitialised: the four signals are in it, any other that is sent may be.
AddedSigs == {{"INT", "TSTP", "CHLD", "CONT"} \cup junk : junk \in SUBSET (Keys \cap {"QUIT"})}

Over == pc \in {"exited", "killed"}         \* the shell is gone

Unreaped(p) == proc[p] \in {"running", "stopped", "zombie"}
Reportable(p) == proc[p] = "zombie" \/ report[p] # "none"

\* SIGCHLD keeps its default disposition, so an unblocked one is lost.
RaiseChld == pending' = IF "CHLD" \in mask THEN pending \cup {"CHLD"} ELSE pending

NoLocals == cur' = NoJobNum /\ caller' = "none" /\ addSigs' = {} /\ todo' = 0

\* Slip: waitSigs waits for one event, not until no job is in the foreground.
WaitOnce(list) ==
  IF HasForegroundJob(list) /\ pc # "reap"
  THEN pc' = "wait" /\ UNCHANGED <<tty, caller, cur, addSigs, todo>>
  ELSE pc' = "prompt" /\ tty' = Shell /\ NoLocals

\* The head of the loop of waitSigs and what follows the loop.
WaitLoop(list) ==
  IF HasForegroundJob(list)
  THEN pc' = "wait" /\ UNCHANGED <<tty, caller, cur, addSigs, todo>>
  ELSE pc' = "prompt" /\ tty' = Shell /\ NoLocals

\* kill(pid, SIGCONT) on every process of targets.
Continue(targets) ==
  LET woken == {p \in targets : proc[p] = "stopped"} IN
  /\ proc'   = [p \in Pid |-> IF p \in woken THEN "running" ELSE proc[p]]
  /\ report' = [p \in Pid |-> IF p \in woken THEN "continued" ELSE report[p]]
  /\ owes'   = owes \cup woken

Group(g) == {p \in Pid : pgid[p] = g /\ Unreaped(p)}
------------------------------------------------------------------------------
Init ==
  /\ jobs = <<>> /\ next = 1
  /\ proc   = [p \in Pid |-> "free"]
  /\ pgid   = [p \in Pid |-> Shell]
  /\ report = [p \in Pid |-> "none"]
  /\ owes = {} /\ grab = {} /\ tty = Shell
  /\ mask = {"INT", "TSTP"} /\ pending = {} /\ addSigs = {}
  /\ pc = "prompt" /\ caller = "none" /\ cur = NoJobNum /\ todo = 0
------------------------------------------------------------------------------
(* createJob: the pipeline has size commands, background says it ended in &. *)

\* Slip: the signals are only blocked once everything is forked.
CreateJobBlockingLate(size, background) ==
  /\ pc = "prompt"
  /\ size <= Cardinality({p \in Pid : proc[p] = "free"})
  /\ addSigs' \in AddedSigs
  /\ jobs' = AddJob(jobs, next, IF background THEN "kBackground" ELSE "kForeground")
  /\ next' = next + 1
  /\ cur' = next /\ todo' = size /\ pc' = "fork" /\ caller' = "createJob"
  /\ UNCHANGED <<kernel, grab, tty, mask, pending>>

CreateJob(size, background) ==
  /\ pc = "prompt"
  /\ size <= Cardinality({p \in Pid : proc[p] = "free"})  \* bound: no pid left
  /\ addSigs' \in AddedSigs
  /\ mask' = mask \cup addSigs'
  /\ jobs' = AddJob(jobs, next, IF background THEN "kBackground" ELSE "kForeground")
  /\ next' = next + 1
  /\ cur' = next /\ todo' = size /\ pc' = "fork" /\ caller' = "createJob"
  /\ UNCHANGED <<kernel, grab, tty, pending>>

\* Slip: the loop runs once too often.
ForkOnceMore(p) ==
  /\ pc = "fork"
  /\ proc[p] = "free"
  /\ jobs' = SetJob(jobs, cur, AddProcess(jobs[cur], p))
  /\ proc' = [proc EXCEPT ![p] = "running"]
  /\ pgid' = [pgid EXCEPT ![p] = IF jobs[cur].procs = <<>> THEN p ELSE GroupID(jobs[cur])]
  /\ todo' = todo - 1
  /\ UNCHANGED <<next, report, owes, grab, tty, signals, pc, caller, cur>>

\* fork, addProcess and setpgid.  The first process leads the group; in a
\* foreground job it will hand the terminal to that group itself.
Fork(p) ==
  /\ pc = "fork" /\ todo > 0
  /\ proc[p] = "free"
  /\ jobs' = SetJob(jobs, cur, AddProcess(jobs[cur], p))
  /\ proc' = [proc EXCEPT ![p] = "running"]
  /\ pgid' = [pgid EXCEPT ![p] = IF jobs[cur].procs = <<>> THEN p ELSE GroupID(jobs[cur])]
  /\ grab' = IF jobs[cur].procs = <<>> /\ jobs[cur].state = "kForeground"
             THEN grab \cup {p} ELSE grab
  /\ todo' = todo - 1
  /\ UNCHANGED <<next, report, owes, tty, signals, pc, caller, cur>>

\* fork fails: exit(0), whatever was already started.
ForkFails ==
  /\ pc = "fork" /\ todo > 0
  /\ pc' = "exited"
  /\ UNCHANGED <<jobs, next, kernel, grab, tty, signals, caller, cur, todo>>

\* The end of createJob: a background job is announced, for a foreground job
\* waitSigs discards the pending SIGINT and SIGTSTP and enters its loop.
Launched ==
  /\ pc = "fork" /\ todo = 0
  /\ \/ /\ jobs[cur].state = "kBackground"
        /\ pc' = "prompt" /\ NoLocals
        /\ UNCHANGED <<mask, pending, tty>>
     \/ /\ jobs[cur].state = "kForeground"
        /\ mask' = mask \cup addSigs
        /\ pending' = pending \ {"INT", "TSTP"}
        /\ WaitLoop(jobs)
  /\ UNCHANGED <<jobs, next, kernel, grab>>
------------------------------------------------------------------------------
(* waitSigs and waitChildSigs. *)

\* sigwait takes a pending signal of addSigs; the loop then reaps, unless
\* WIFSTOPPED says the signal is to be forwarded to the job.
SigWait(sig) ==
  /\ pc = "wait"
  /\ sig \in pending \cap addSigs
  /\ pending' = pending \ {sig}
  /\ pc' = IF WIFSTOPPED(SigNum[sig]) THEN "wait" ELSE "reap"
  /\ UNCHANGED <<jobs, next, kernel, grab, tty, mask, addSigs, caller, cur, todo>>

\* Slip: a continued child is reported but its state is not updated.
ReapNotContinued(p) ==
  LET num   == JobWithProcess(jobs, p)
      state == IF proc[p] = "zombie" THEN "kTerminated" ELSE "kStopped"
  IN
  /\ pc = "reap"
  /\ Reportable(p)
  /\ proc' = [proc EXCEPT ![p] = IF @ = "zombie" THEN "reaped" ELSE @]
  /\ report' = [report EXCEPT ![p] = "none"]
  /\ jobs' = Synchronize(SetJob(jobs, num, SetProcessState(jobs[num], p, state)), num)
  /\ UNCHANGED <<next, pgid, owes, grab, tty, signals, control>>

\* One turn of the loop of waitChildSigs: waitpid reports a change of child p.
Reap(p) ==
  LET num   == JobWithProcess(jobs, p)
      state == IF proc[p] = "zombie" THEN "kTerminated"
               ELSE IF report[p] = "stopped" THEN "kStopped" ELSE "kRunning"
  IN
  /\ pc = "reap"
  /\ Reportable(p)
  /\ proc' = [proc EXCEPT ![p] = IF @ = "zombie" THEN "reaped" ELSE @]
  /\ report' = [report EXCEPT ![p] = "none"]
  /\ jobs' = IF num = NoJobNum THEN jobs
             ELSE Synchronize(SetJob(jobs, num, SetProcessState(jobs[num], p, state)), num)
  /\ UNCHANGED <<next, pgid, owes, grab, tty, signals, control>>

\* waitpid finds nothing more to report: back to the caller.
ReapDone ==
  /\ pc = "reap"
  /\ \A p \in Pid : ~Reportable(p)
  /\ \/ /\ caller \in {"createJob", "fg"}
        /\ WaitLoop(jobs)
     \/ /\ caller = "jobs"
        /\ pc' = "prompt" /\ NoLocals /\ UNCHANGED tty
     \/ /\ caller = "quit"
        /\ pc' = "exited"
        /\ UNCHANGED <<tty, caller, cur, addSigs, todo>>
  /\ UNCHANGED <<jobs, next, kernel, grab, mask, pending>>
------------------------------------------------------------------------------
(* The builtins. *)

\* jobs and quit begin with waitChildSigs.
JobsOrQuit(name) ==
  /\ pc = "prompt"
  /\ pc' = "reap" /\ caller' = name
  /\ UNCHANGED <<jobs, next, kernel, grab, tty, signals, cur, todo>>

\* readline fails: the loop of run ends.
EndOfInput ==
  /\ pc = "prompt"
  /\ pc' = "exited"
  /\ UNCHANGED <<jobs, next, kernel, grab, tty, signals, caller, cur, todo>>

Bg(n) ==
  /\ pc = "prompt"
  /\ n \in DOMAIN jobs
  /\ Continue(Group(GroupID(jobs[n])))
  /\ jobs' = SetJob(jobs, n, [jobs[n] EXCEPT !.state = "kBackground"])
  /\ UNCHANGED <<next, pgid, grab, tty, signals, control>>

\* fg blocks addSigs and at once unblocks them: what was pending is delivered
\* to the shell, with the default action but for SIGQUIT (exit) and a SIGCHLD,
\* which is lost.
Fg(n) ==
  /\ pc = "prompt"
  /\ n \in DOMAIN jobs
  /\ addSigs' \in AddedSigs
  /\ mask' = mask \ addSigs'
  /\ pending' = pending \ addSigs'
  /\ pc' = CASE "INT" \in pending -> "killed"
             [] "INT" \notin pending /\ "QUIT" \in pending \cap addSigs' -> "exited"
             [] pending \cap addSigs' \cap {"INT", "QUIT"} = {} /\ "TSTP" \in pending -> "stopped"
             [] OTHER -> "fgGrant"
  /\ cur' = n /\ caller' = "fg"
  /\ UNCHANGED <<jobs, next, kernel, grab, tty, todo>>

\* tcsetpgrp fails on a group that has no process left; the exception leaves
\* the signals unblocked.
FgGrant ==
  LET g == GroupID(jobs[cur]) IN
  /\ pc = "fgGrant"
  /\ IF Group(g) # {}
     THEN tty' = g /\ pc' = "fgCont" /\ UNCHANGED <<caller, cur, addSigs, todo>>
     ELSE pc' = "prompt" /\ NoLocals /\ UNCHANGED tty
  /\ UNCHANGED <<jobs, next, kernel, grab, mask, pending>>

FgContinue ==
  /\ pc = "fgCont"
  /\ Continue(Group(GroupID(jobs[cur])))
  /\ jobs' = SetJob(jobs, cur, [jobs[cur] EXCEPT !.state = "kForeground"])
  /\ pc' = "fgBlock"
  /\ UNCHANGED <<next, pgid, grab, tty, signals, caller, cur, todo>>

\* Slip: after the terminal handover only SIGCHLD is blocked again.
FgWaitBlockingLess ==
  /\ pc = "fgBlock"
  /\ mask' = mask \cup {"CHLD"}
  /\ pending' = pending \ {"INT", "TSTP"}
  /\ WaitLoop(jobs)
  /\ UNCHANGED <<jobs, next, kernel, grab>>

FgWait ==
  /\ pc = "fgBlock"
  /\ mask' = mask \cup addSigs
  /\ pending' = pending \ {"INT", "TSTP"}
  /\ WaitLoop(jobs)
  /\ UNCHANGED <<jobs, next, kernel, grab>>

\* slay, halt and cont name a process of the list, which may have been reaped
\* already: the signal then finds nobody.
Slay(p) ==
  /\ pc = "prompt"
  /\ ContainsProcess(jobs, p)
  /\ proc[p] \in {"running", "stopped"}
  /\ proc' = [proc EXCEPT ![p] = "zombie"]
  /\ report' = [report EXCEPT ![p] = "none"]
  /\ owes' = owes \ {p} /\ grab' = grab \ {p}
  /\ RaiseChld
  /\ UNCHANGED <<jobs, next, pgid, tty, mask, addSigs, control>>

Halt(p) ==
  /\ pc = "prompt"
  /\ ContainsProcess(jobs, p)
  /\ proc[p] = "running"
  /\ proc' = [proc EXCEPT ![p] = "stopped"]
  /\ report' = [report EXCEPT ![p] = "stopped"]
  /\ owes' = owes \ {p}
  /\ RaiseChld
  /\ UNCHANGED <<jobs, next, pgid, grab, tty, mask, addSigs, control>>

Cont(p) ==
  /\ pc = "prompt"
  /\ ContainsProcess(jobs, p)
  /\ proc[p] = "stopped"
  /\ Continue({p})
  /\ UNCHANGED <<jobs, next, pgid, grab, tty, signals, control>>
------------------------------------------------------------------------------
(* The world: children, the keyboard and the program that started the shell. *)

\* A child exits, is killed, or fails to exec.
ChildExits(p) ==
  /\ ~Over
  /\ proc[p] = "running"
  /\ proc' = [proc EXCEPT ![p] = "zombie"]
  /\ report' = [report EXCEPT ![p] = "none"]
  /\ owes' = owes \ {p} /\ grab' = grab \ {p}
  /\ RaiseChld
  /\ UNCHANGED <<jobs, next, pgid, tty, mask, addSigs, control>>

\* A child stops: Ctrl-Z, raise(SIGTSTP), kill -STOP from elsewhere.
ChildStops(p) ==
  /\ ~Over
  /\ proc[p] = "running"
  /\ proc' = [proc EXCEPT ![p] = "stopped"]
  /\ report' = [report EXCEPT ![p] = "stopped"]
  /\ owes' = owes \ {p}
  /\ RaiseChld
  /\ UNCHANGED <<jobs, next, pgid, grab, tty, mask, addSigs, control>>

\* A continued child runs again and the kernel tells its parent.
ChildResumes(p) ==
  /\ ~Over
  /\ p \in owes
  /\ owes' = owes \ {p}
  /\ RaiseChld
  /\ UNCHANGED <<jobs, next, proc, pgid, report, grab, tty, mask, addSigs, control>>

\* The leader of a foreground job calls tcsetpgrp between fork and exec.
ChildTakesTerminal(p) ==
  /\ ~Over
  /\ p \in grab /\ proc[p] = "running"
  /\ tty' = pgid[p]
  /\ grab' = grab \ {p}
  /\ UNCHANGED <<jobs, next, kernel, signals, control>>

\* A key sends a signal to the terminal's group, here to the shell's.  What it
\* does to a job is one of the children's own steps.
Key(sig) ==
  /\ ~Over /\ pc # "stopped"
  /\ tty = Shell
  /\ \/ /\ sig \in mask
        /\ pending' = pending \cup {sig}
        /\ UNCHANGED pc
     \/ /\ sig \notin mask
        /\ pc' = CASE sig = "INT" -> "killed" [] sig = "QUIT" -> "exited" [] sig = "TSTP" -> "stopped"
        /\ UNCHANGED pending
  /\ UNCHANGED <<jobs, next, kernel, grab, tty, mask, addSigs, caller, cur, todo>>

\* The shell's parent puts a stopped shell in the foreground again.
ShellResumed ==
  /\ pc = "stopped"
  /\ pc' = "fgGrant"
  /\ tty' = Shell
  /\ UNCHANGED <<jobs, next, kernel, grab, signals, caller, cur, todo>>
------------------------------------------------------------------------------
Command ==
  \/ \E size \in 1 .. MaxPipeline, background \in BOOLEAN : CreateJob(size, background)
  \/ \E name \in {"jobs", "quit"} : JobsOrQuit(name)
  \/ EndOfInput
  \/ \E n \in DOMAIN jobs : Bg(n) \/ Fg(n)
  \/ \E p \in Pid : Slay(p) \/ Halt(p) \/ Cont(p)

\* The steps the shell takes by itself once a command was typed.
Run ==
  \/ \E p \in Pid : Fork(p) \/ Reap(p)
  \/ Launched \/ ReapDone \/ FgGrant \/ FgContinue \/ FgWait
  \/ \E sig \in Signal : SigWait(sig)

World ==
  \/ \E p \in Pid : ChildExits(p) \/ ChildStops(p) \/ ChildResumes(p) \/ ChildTakesTerminal(p)
  \/ \E sig \in Keys : Key(sig)
  \/ ShellResumed
  \/ ForkFails

Next == Command \/ Run \/ World

Spec == Init /\ [][Next]_vars

\* The operating system schedules the shell: a step it can take is taken.
FairSpec == Spec /\ WF_vars(Run)
------------------------------------------------------------------------------
TypeOK ==
  /\ IsJobMap(jobs) /\ next \in JobNum
  /\ proc \in [Pid -> {"free", "running", "stopped", "zombie", "reaped"}]
  /\ pgid \in [Pid -> Pid \cup {Shell}]
  /\ report \in [Pid -> {"none", "stopped", "continued"}]
  /\ owes \in SUBSET Pid /\ grab \in SUBSET Pid
  /\ tty \in Pid \cup {Shell}
  /\ mask \in SUBSET Signal /\ pending \in SUBSET Signal /\ addSigs \in SUBSET Signal
  /\ pc \in {"prompt", "fork", "wait", "reap", "fgGrant", "fgCont", "fgBlock",
              "stopped", "exited", "killed"}
  /\ caller \in {"none", "createJob", "fg", "jobs", "quit"}
  /\ cur \in Nat /\ todo \in Nat

\* Where the shell, having entered createJob or fg, is launching, resuming or
\* awaiting job cur.
Attending ==
  \/ pc \in {"fork", "wait", "fgBlock", "exited"}
  \/ pc = "reap" /\ caller \in {"createJob", "fg"}

\* There is never a foreground job but the one the shell is launching, resuming
\* or waiting for; so there is at most one (stsh-job-list.h: "of course, there
\* can be at most one"), and none at all when the user is prompted.
ForegroundIsAttended ==
  \A n \in DOMAIN jobs : jobs[n].state = "kForeground" => n = cur /\ Attending

\* Every job a builtin can name has a process that was not reaped and that is in
\* the group getGroupID returns: killpg and tcsetpgrp in handleFgBg never act on
\* a group that is gone, or on group 0.
JobGroupsAreLive ==
  \A n \in DOMAIN jobs :
    n # cur \/ pc \notin {"fork", "exited"} =>
      \E i \in DOMAIN jobs[n].procs :
        LET p == jobs[n].procs[i].pid IN
        Unreaped(p) /\ pgid[p] = GroupID(jobs[n])

\* synchronize forgets no child: one that was forked and not reaped is in
\* exactly one job of the list.
ChildrenAreListed ==
  \A p \in Pid : Unreaped(p) => \E n \in DOMAIN jobs : Holders(jobs, p) = {n}

\* The list says of a process what the kernel says, except for changes waitpid
\* has yet to report: no report is dropped, applied twice or out of order.
ListLagsByReportsOnly ==
  \A n \in DOMAIN jobs : \A i \in DOMAIN jobs[n].procs :
    LET p == jobs[n].procs[i].pid  s == jobs[n].procs[i].state IN
    /\ s = "kTerminated" <=> proc[p] = "reaped"
    /\ ~Reportable(p) /\ Unreaped(p) => (s = "kRunning" <=> proc[p] = "running")

\* Outside fg, a change waitpid has to report is announced by a pending SIGCHLD,
\* unless the continued child has yet to raise it: sigwait cannot sleep through
\* the end of a job createJob launched.
NoLostWakeup ==
  pc = "wait" /\ caller = "createJob" /\ (\E p \in Pid : Reportable(p)) =>
    "CHLD" \in pending \/ owes # {}

\* A job that createJob waits for leaves the foreground only when the kernel runs
\* none of its processes.
LaunchedJobLeavesIdle ==
  [][\A n \in Foreground(jobs) :
       /\ caller = "createJob"
       /\ n \notin DOMAIN jobs' \/ jobs'[n].state # "kForeground"
       => \A p \in Pids(jobs[n]) : proc[p] # "running"]_vars

\* Ctrl-C and Ctrl-Z are deferred except in the window that fg opens: only there
\* can the keyboard kill or stop the shell.
KeyboardHitsShellInFgOnly ==
  [][pc' \in {"killed", "stopped"} => caller' = "fg"]_pc

\* When the kernel runs no process of the job that createJob waits for, the user
\* is prompted again (or the keyboard ended the shell).
LaunchWaitEnds ==
  /\ pc = "wait" /\ caller = "createJob"
  /\ \A n \in Foreground(jobs) : \A p \in Pids(jobs[n]) : proc[p] # "running"
  ~> pc \notin {"wait", "reap"}
------------------------------------------------------------------------------
(* The inductive invariant: what ties the places of the code, the signals and  *)
(* the job list to the process table.                                          *)

\* What the shell is doing at each place, and on whose behalf.
Places ==
  /\ pc = "fork" => caller = "createJob" /\ cur \in DOMAIN jobs
  /\ pc = "wait" => caller \in {"createJob", "fg"}
  /\ pc \in {"fgGrant", "fgCont", "fgBlock", "stopped"} =>
       caller = "fg" /\ cur \in DOMAIN jobs /\ {"INT", "TSTP"} \subseteq addSigs
  /\ pc \in {"prompt", "fork", "wait", "reap"} => {"INT", "TSTP"} \subseteq mask
  /\ pc \in {"fgCont", "fgBlock"} => tty # Shell

\* While createJob forks, nothing was reaped, and the loop forks something.
Forking ==
  pc = "fork" =>
    /\ \A i \in DOMAIN jobs[cur].procs : jobs[cur].procs[i].state # "kTerminated"
    /\ todo = 0 => jobs[cur].procs # <<>>

\* The kernel's records of the children.
Kernel ==
  /\ \A p \in Pid : proc[p] # "free" => pgid[p] \in Pid
  /\ \A p \in Pid : /\ report[p] = "stopped" => proc[p] = "stopped"
                    /\ report[p] = "continued" => proc[p] = "running"
  /\ \A p \in grab : proc[p] # "free"

\* Every entry of the list is a child of its own, in its job's group, and is
\* marked terminated when it was reaped.
Entries ==
  /\ \A n \in DOMAIN jobs : \A i \in DOMAIN jobs[n].procs :
       LET p == jobs[n].procs[i].pid IN
       /\ proc[p] # "free" /\ pgid[p] = GroupID(jobs[n])
       /\ jobs[n].procs[i].state = "kTerminated" <=> proc[p] = "reaped"
  /\ \A m, n \in DOMAIN jobs :
       \A i \in DOMAIN jobs[m].procs, j \in DOMAIN jobs[n].procs :
         jobs[m].procs[i].pid = jobs[n].procs[j].pid => m = n /\ i = j

\* Every listed job has a process left to wait for, but the one being forked;
\* every child is listed; the next job gets a new number.
Listing ==
  /\ \A n \in DOMAIN jobs :
       n < next /\ (n # cur \/ pc \notin {"fork", "exited"} => ~AllTerminated(jobs[n]))
  /\ \A p \in Pid : Unreaped(p) => \E n \in DOMAIN jobs : p \in Pids(jobs[n])

IInv == TypeOK /\ Places /\ Forking /\ Kernel /\ Entries /\ Listing /\ ForegroundIsAttended

\* The list says of a child what it is doing, unless there is a report to come.
Follows ==
  \A n \in DOMAIN jobs : \A i \in DOMAIN jobs[n].procs :
    LET p == jobs[n].procs[i].pid IN
    ~Reportable(p) /\ Unreaped(p) => (jobs[n].procs[i].state = "kRunning" <=> proc[p] = "running")

\* No process of a job that createJob waits for was continued.
NeverContinued ==
  caller = "createJob" => \A n \in Foreground(jobs) : \A p \in Pids(jobs[n]) : report[p] # "continued"

\* Where SIGCHLD is blocked, and where it, or a child that has yet to raise it,
\* stands for whatever waitpid has to report.
Wakeups ==
  /\ pc \in {"fgGrant", "fgCont", "fgBlock", "stopped"} => "CHLD" \in addSigs
  /\ pc = "fgBlock" => jobs[cur].state = "kForeground"
  /\ pc = "fork" => "CHLD" \in mask
  /\ pc \in {"prompt", "wait", "reap"} => "CHLD" \in mask \/ \A p \in Pid : proc[p] = "free"
  /\ (pc \in {"prompt", "fork"} \/ (pc = "wait" /\ caller = "createJob"))
     /\ (\E p \in Pid : Reportable(p)) => "CHLD" \in pending \/ owes # {}
------------------------------------------------------------------------------
\* What comments claim and the code does not do.

\* stsh.cc:121, "waits for sigint, sigtstp, and child processes": whenever
\* waitSigs sleeps while a child has something to report, SIGCHLD will wake it.
WaitSeesChildren ==
  pc = "wait" /\ (\E p \in Pid : Reportable(p)) => "CHLD" \in pending \/ owes # {}

\* stsh-job-list.h:123-125: only "if none of the processes are running" is a job
\* no longer a foreground job.
ForegroundLeavesIdle ==
  [][\A n \in Foreground(jobs) :
       /\ pc = "reap"
       /\ n \notin DOMAIN jobs' \/ jobs'[n].state # "kForeground"
       => \A p \in Pids(jobs[n]) : proc[p] # "running"]_vars

\* stsh-job.h:35-37: the foreground job is known so that it can "respond to
\* forwarded SIGINTs and SIGTSTPs".
KeyboardIsForwarded ==
  [][pc = "wait" /\ (pending \ pending') \cap {"INT", "TSTP"} # {} => pc' # "reap"]_vars
==============================================================================

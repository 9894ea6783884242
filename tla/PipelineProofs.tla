---------------------------- MODULE PipelineProofs ----------------------------
(* Pipelines of any length, any number of them, with any redirections and any  *)
(* input.  Descriptors tells for every point of the forks which pipe ends the  *)
(* shell still holds, and that a child's standard descriptors are the          *)
(* terminal, its files or its two pipe ends; from it follows what leaks.       *)
(* FlowInv adds what the commands have read and passed on, and so what the     *)
(* output files hold.                                                          *)
EXTENDS Processes, Inductions, FiniteSetTheorems

\* The pipe ends of the current pipeline that the shell holds between two forks.
EndsToPass ==
  {R(job, k) : k \in {n \in 1 .. cmd[job].size - 1 : n >= forked}}
    \cup {W(job, k) : k \in {n \in 1 .. cmd[job].size - 1 : n > forked}}

\* The files that are open for the redirections of the pipelines typed so far.
OpenFiles ==
  {In(j) : j \in {i \in 1 .. job : cmd[i].input = "opens"}}
    \cup {Out(j) : j \in {i \in 1 .. job : cmd[i].output = "opens"}}

Counters ==
  /\ phase \in {"prompt", "fork", "wait", "exited"}
  /\ job \in 0 .. MaxJobs /\ forked \in Nat
  /\ cmd \in [Jobs -> Command \cup {NoCommand}]
  /\ phase = "fork" => job \in Jobs /\ cmd[job] \in Command /\ forked <= cmd[job].size

ShellHolds ==
  /\ std[Sh] = Terminal
  /\ phase = "fork" => held[Sh] \subseteq EndsToPass \cup OpenFiles
  /\ phase # "fork" => held[Sh] \subseteq OpenFiles

ChildHolds ==
  \A p \in Child :
    /\ life[p] \in {"none", "forked", "done", "failed"} => std[p] = Terminal
    /\ life[p] \in {"redirected", "running"} =>
         /\ std[p].in \in {R(p[1], p[2] - 1), In(p[1]), Tty}
         /\ std[p].out \in {W(p[1], p[2]), Out(p[1]), Tty}
    /\ life[p] = "running" => \A d \in held[p] : ~IsPipeEnd(d)

PipelineTypeOK ==
  /\ DOMAIN held = Child \cup {Sh} /\ DOMAIN std = Child \cup {Sh}
  /\ life \in [Child -> {"none", "forked", "redirected", "running", "done", "failed"}]

Descriptors == PipelineTypeOK /\ Counters /\ ShellHolds /\ ChildHolds

-------------------------------------------------------------------------------
\* The processes of a pipeline are children, and the shell is none of them.
LEMMA ShellIsNoChild ==
  /\ Sh \notin Child
  /\ \A p \in Child : p = <<p[1], p[2]>> /\ p[1] \in Jobs /\ p[2] \in 1 .. Longest
BY PipelineAssumption DEF Sh, Child, Jobs

\* A step of a child leaves the shell's descriptors and what it counts alone.
LEMMA ChildStepIsLocal ==
  ASSUME NEW p \in Child, ChildStep(p), PipelineTypeOK
  PROVE  /\ UNCHANGED <<phase, cmd, job, forked>>
         /\ DOMAIN held' = DOMAIN held /\ DOMAIN std' = DOMAIN std
         /\ \A q \in Child \cup {Sh} : q # p => held'[q] = held[q] /\ std'[q] = std[q]
         /\ \A q \in Child : q # p => life'[q] = life[q]
         /\ life' \in [Child -> {"none", "forked", "redirected", "running", "done", "failed"}]
<1>. USE DEF PipelineTypeOK
<1>1. CASE Redirect(p)
  BY <1>1 DEF Redirect
<1>2. CASE Exec(p)
  BY <1>2 DEF Exec
<1>3. CASE ExecFails(p)
  BY <1>3 DEF ExecFails, Gone
<1>4. CASE ReadFile(p)
  BY <1>4 DEF ReadFile
<1>5. CASE ReadPipe(p)
  BY <1>5 DEF ReadPipe
<1>6. CASE ReadEnd(p)
  BY <1>6 DEF ReadEnd, Gone
<1>7. CASE Write(p)
  BY <1>7 DEF Write
<1>8. CASE BrokenPipe(p)
  BY <1>8 DEF BrokenPipe, Gone
<1>9. ASSUME NEW c \in Char, ReadTyped(p, c) 
      PROVE  /\ UNCHANGED <<phase, cmd, job, forked>>
             /\ DOMAIN held' = DOMAIN held /\ DOMAIN std' = DOMAIN std
             /\ \A q \in Child \cup {Sh} : q # p => held'[q] = held[q] /\ std'[q] = std[q]
             /\ \A q \in Child : q # p => life'[q] = life[q]
             /\ life' \in [Child -> {"none", "forked", "redirected", "running", "done", "failed"}]
  BY <1>9 DEF ReadTyped
<1>10. CASE EndTyped(p)
  BY <1>10 DEF EndTyped, Gone
<1>. QED
  BY <1>1, <1>2, <1>3, <1>4, <1>5, <1>6, <1>7, <1>8, <1>9, <1>10 DEF ChildStep, Runs, ReadsTerminal

LEMMA PipelineTypeStep == Descriptors /\ [Next]_vars => PipelineTypeOK'
<1>. SUFFICES ASSUME Descriptors, [Next]_vars PROVE PipelineTypeOK'
  OBVIOUS
<1>. USE DEF Descriptors, PipelineTypeOK
<1>1. ASSUME NEW c \in Typed, CreateJob(c) PROVE PipelineTypeOK'
  BY <1>1 DEF CreateJob
<1>2. CASE Fork
  BY <1>2 DEF Fork
<1>3. CASE ForkFails
  BY <1>3 DEF ForkFails
<1>4. CASE EndOfForks \/ EndOfWait
  BY <1>4 DEF EndOfForks, EndOfWait
<1>5. ASSUME NEW p \in Child, ChildStep(p) PROVE PipelineTypeOK'
  BY <1>5, ChildStepIsLocal
<1>6. CASE UNCHANGED pipelineVars
  BY <1>6 DEF pipelineVars
<1>. QED
  BY <1>1, <1>2, <1>3, <1>4, <1>5, <1>6 DEF Next, PipelineNext, ShellStep, vars

LEMMA CountersStep == Descriptors /\ [Next]_vars => Counters'
<1>. SUFFICES ASSUME Descriptors, [Next]_vars PROVE Counters'
  OBVIOUS
<1>. USE DEF Descriptors, Counters
<1>1. ASSUME NEW c \in Typed, CreateJob(c) PROVE Counters'
  <2>1. c \in Command /\ job + 1 \in Jobs /\ job' = job + 1 /\ phase' = "fork" /\ forked' = 0
    BY <1>1, PipelineAssumption DEF CreateJob, Jobs
  <2>2. cmd' = [cmd EXCEPT ![job + 1] = c]
    BY <1>1 DEF CreateJob
  <2>3. c.size \in Nat
    BY <2>1 DEF Command
  <2>. QED
    BY <2>1, <2>2, <2>3 DEF Jobs
<1>2. CASE Fork
  <2>1. cmd[job].size \in Nat
    BY <1>2, PipelineAssumption DEF Fork, Command
  <2>. QED
    BY <1>2, <2>1 DEF Fork
<1>3. CASE ForkFails
  BY <1>3 DEF ForkFails
<1>4. CASE EndOfForks \/ EndOfWait
  BY <1>4 DEF EndOfForks, EndOfWait
<1>5. ASSUME NEW p \in Child, ChildStep(p) PROVE Counters'
  BY <1>5, ChildStepIsLocal
<1>6. CASE UNCHANGED pipelineVars
  BY <1>6 DEF pipelineVars
<1>. QED
  BY <1>1, <1>2, <1>3, <1>4, <1>5, <1>6 DEF Next, PipelineNext, ShellStep, vars

\* createJob makes the pipes and opens the files; each fork closes the two pipe
\* ends that no later child needs; nothing closes a file.
LEMMA ShellHoldsStep == Descriptors /\ [Next]_vars => ShellHolds'
<1>. SUFFICES ASSUME Descriptors, [Next]_vars PROVE ShellHolds'
  OBVIOUS
<1>. USE DEF Descriptors, ShellHolds, PipelineTypeOK
<1>0. Sh \in DOMAIN held /\ Sh \in DOMAIN std
  OBVIOUS
<1>1. ASSUME NEW c \in Typed, CreateJob(c) PROVE ShellHolds'
  <2>. DEFINE j == job + 1
              pipes == {R(j, k) : k \in 1 .. c.size - 1} \cup {W(j, k) : k \in 1 .. c.size - 1}
              files == {d \in {In(j), Out(j)} : (IF d = In(j) THEN c.input ELSE c.output) = "opens"}
  <2>1. held'[Sh] = held[Sh] \cup pipes \cup files /\ job' = j /\ forked' = 0 /\ phase' = "fork"
    BY <1>0, <1>1 DEF CreateJob
  <2>2. cmd'[j] = c /\ \A i \in 1 .. job : cmd'[i] = cmd[i]
    <3>1. job \in Nat /\ j \in Jobs /\ cmd' = [cmd EXCEPT ![j] = c]
      BY <1>1, PipelineAssumption DEF CreateJob, Counters, Jobs
    <3>. QED
      BY <3>1 DEF Counters, Jobs
  <2>3. held[Sh] \subseteq OpenFiles
    BY <1>1 DEF CreateJob
  <2>4. OpenFiles \subseteq OpenFiles'
    BY <2>1, <2>2 DEF OpenFiles, Counters
  <2>5. pipes \subseteq EndsToPass'
    BY <2>1, <2>2 DEF EndsToPass
  <2>6. files \subseteq OpenFiles'
    <3>1. In(j) # Out(j) /\ j \in 1 .. job'
      BY <2>1 DEF In, Out, Counters
    <3>2. c.input = "opens" => In(j) \in OpenFiles'
      BY <2>2, <3>1 DEF OpenFiles
    <3>3. c.output = "opens" => Out(j) \in OpenFiles'
      BY <2>2, <3>1 DEF OpenFiles
    <3>. QED
      BY <3>1, <3>2, <3>3
  <2>7. std' = std
    BY <1>1 DEF CreateJob
  <2>. QED
    BY <2>1, <2>3, <2>4, <2>5, <2>6, <2>7
<1>2. CASE Fork
  <2>. DEFINE i == forked + 1
  <2>1. held'[Sh] = held[Sh] \ ClosedAfter(i) /\ std'[Sh] = std[Sh]
    BY <1>0, <1>2, ShellIsNoChild DEF Fork
  <2>2. phase = "fork" /\ phase' = "fork" /\ job' = job /\ cmd' = cmd /\ forked' = i
    BY <1>2 DEF Fork
  <2>3. cmd[job].size \in Nat /\ forked \in Nat
    BY <2>2 DEF Counters, Command
  <2>4. EndsToPass \ ClosedAfter(i) \subseteq EndsToPass'
    <3>1. ASSUME NEW k \in 1 .. cmd[job].size - 1, k >= forked, R(job, k) \notin ClosedAfter(i)
          PROVE  R(job, k) \in EndsToPass'
      <4>1. k >= i
        BY <2>3, <3>1 DEF ClosedAfter
      <4>. QED
        BY <2>2, <3>1, <4>1 DEF EndsToPass
    <3>2. ASSUME NEW k \in 1 .. cmd[job].size - 1, k > forked, W(job, k) \notin ClosedAfter(i)
          PROVE  W(job, k) \in EndsToPass'
      <4>1. k > i
        BY <2>3, <3>2 DEF ClosedAfter
      <4>. QED
        BY <2>2, <3>2, <4>1 DEF EndsToPass
    <3>. QED
      BY <3>1, <3>2 DEF EndsToPass
  <2>5. OpenFiles' = OpenFiles
    BY <2>2 DEF OpenFiles
  <2>. QED
    BY <2>1, <2>2, <2>4, <2>5
<1>3. CASE ForkFails
  BY <1>0, <1>3 DEF ForkFails
<1>4. CASE EndOfForks
  <2>1. cmd[job].size \in Nat /\ forked = cmd[job].size
    BY <1>4 DEF EndOfForks, Counters, Command
  <2>2. EndsToPass = {}
    BY <2>1 DEF EndsToPass
  <2>. QED
    BY <1>4, <2>2 DEF EndOfForks, OpenFiles
<1>5. CASE EndOfWait
  BY <1>5 DEF EndOfWait, OpenFiles
<1>6. ASSUME NEW p \in Child, ChildStep(p) PROVE ShellHolds'
  BY <1>6, ChildStepIsLocal, ShellIsNoChild DEF EndsToPass, OpenFiles
<1>7. CASE UNCHANGED pipelineVars
  BY <1>7 DEF pipelineVars, EndsToPass, OpenFiles
<1>. QED
  BY <1>1, <1>2, <1>3, <1>4, <1>5, <1>6, <1>7 DEF Next, PipelineNext, ShellStep, vars

\* A child's two standard descriptors come from Redirect, and exec closes the
\* other pipe ends.
LEMMA ChildHoldsStep == Descriptors /\ [Next]_vars => ChildHolds'
<1>. SUFFICES ASSUME Descriptors, [Next]_vars PROVE ChildHolds'
  OBVIOUS
<1>. USE DEF Descriptors, ChildHolds, PipelineTypeOK
<1>1. ASSUME NEW c \in Typed, CreateJob(c) PROVE ChildHolds'
  BY <1>1, ShellIsNoChild DEF CreateJob
<1>2. CASE Fork
  BY <1>2, ShellIsNoChild DEF Fork, ShellHolds
<1>3. CASE ForkFails
  BY <1>3, ShellIsNoChild DEF ForkFails
<1>4. CASE EndOfForks \/ EndOfWait
  BY <1>4 DEF EndOfForks, EndOfWait
<1>5. ASSUME NEW p \in Child, ChildStep(p) PROVE ChildHolds'
  <2>. DEFINE Good(q) ==
         /\ life'[q] \in {"none", "forked", "done", "failed"} => std'[q] = Terminal
         /\ life'[q] \in {"redirected", "running"} =>
              /\ std'[q].in \in {R(q[1], q[2] - 1), In(q[1]), Tty}
              /\ std'[q].out \in {W(q[1], q[2]), Out(q[1]), Tty}
         /\ life'[q] = "running" => \A d \in held'[q] : ~IsPipeEnd(d)
  <2>1. ASSUME NEW q \in Child, q # p PROVE Good(q)
    BY <1>5, <2>1, ChildStepIsLocal
  <2>2. Good(p)
    <3>1. CASE Redirect(p)
      <4>1. life[p] = "forked" /\ life'[p] = "redirected" /\ std[p] = Terminal
        BY <3>1 DEF Redirect
      <4>2. std'[p].in \in {R(p[1], p[2] - 1), In(p[1]), Tty} /\ std'[p].out \in {W(p[1], p[2]), Out(p[1]), Tty}
        BY <3>1, <4>1 DEF Redirect, Terminal
      <4>. QED
        BY <4>1, <4>2
    <3>2. CASE Exec(p)
      BY <3>2 DEF Exec
    <3>3. CASE ExecFails(p)
      BY <3>3 DEF ExecFails, Gone
    <3>4. CASE ReadFile(p) \/ ReadPipe(p) \/ Write(p)
      BY <3>4 DEF ReadFile, ReadPipe, Write
    <3>5. CASE ReadEnd(p)
      BY <3>5 DEF ReadEnd, Gone
    <3>6. CASE BrokenPipe(p)
      BY <3>6 DEF BrokenPipe, Gone
    <3>7. ASSUME NEW c \in Char, ReadTyped(p, c) PROVE Good(p)
      BY <3>7 DEF ReadTyped
    <3>8. CASE EndTyped(p)
      BY <3>8 DEF EndTyped, Gone
    <3>. QED
      BY <1>5, <3>1, <3>2, <3>3, <3>4, <3>5, <3>6, <3>7, <3>8 DEF ChildStep, Runs, ReadsTerminal
  <2>. QED
    BY <2>1, <2>2
<1>6. CASE UNCHANGED pipelineVars
  BY <1>6 DEF pipelineVars
<1>. QED
  BY <1>1, <1>2, <1>3, <1>4, <1>5, <1>6 DEF Next, PipelineNext, ShellStep, vars

LEMMA DescriptorsStep == Descriptors /\ [Next]_vars => Descriptors'
BY PipelineTypeStep, CountersStep, ShellHoldsStep, ChildHoldsStep DEF Descriptors

LEMMA DescriptorsInit == Init => Descriptors
<1>. SUFFICES ASSUME Init PROVE Descriptors
  OBVIOUS
<1>1. /\ phase \in {"prompt", "exited"} /\ job = 0 /\ forked = 0
      /\ cmd = [j \in Jobs |-> NoCommand]
      /\ held = [p \in Child \cup {Sh} |-> {}]
      /\ std = [p \in Child \cup {Sh} |-> Terminal]
      /\ life = [p \in Child |-> "none"]
  BY DEF Init, PipelineInit, PipelineIdle
<1>2. Counters
  BY <1>1, PipelineAssumption DEF Counters
<1>. QED
  BY <1>1, <1>2 DEF Descriptors, PipelineTypeOK, ShellHolds, ChildHolds

\* Every point of every pipeline keeps the invariant of the descriptors.
THEOREM PipelineInvariance == Spec => []Descriptors
BY DescriptorsInit, DescriptorsStep, PTL DEF Spec

\* What is open of the files of one pipeline is no more than its redirections.
LEMMA OneDescriptorEach ==
  ASSUME NEW j, NEW D, D \subseteq OpenFiles, \A d \in D : d[2] = j
  PROVE  Cardinality(D) <= Cardinality({f \in {"input", "output"} : cmd[j][f] = "opens"})
<1>. DEFINE F == {f \in {"input", "output"} : cmd[j][f] = "opens"}
            name == [f \in F |-> IF f = "input" THEN In(j) ELSE Out(j)]
<1>1. IsFiniteSet(F)
  <2>1. IsFiniteSet({"input", "output"})
    <3>1. {"input", "output"} = {"input"} \cup {"output"}
      OBVIOUS
    <3>2. IsFiniteSet({"input"}) /\ IsFiniteSet({"output"})
      BY FS_Singleton
    <3>3. IsFiniteSet({"input"} \cup {"output"})
      BY <3>2, FS_Union, Zenon
    <3>. QED
      BY <3>1, <3>3
  <2>. QED
    BY <2>1, FS_Subset
<1>2. D \subseteq {name[f] : f \in F}
  <2>. SUFFICES ASSUME NEW d \in D PROVE \E f \in F : d = name[f]
    OBVIOUS
  <2>1. CASE \E i \in 1 .. job : cmd[i].input = "opens" /\ d = In(i)
    BY <2>1 DEF In
  <2>2. CASE \E i \in 1 .. job : cmd[i].output = "opens" /\ d = Out(i)
    BY <2>2 DEF Out
  <2>. QED
    BY <2>1, <2>2 DEF OpenFiles
<1>3. IsFiniteSet({name[f] : f \in F}) /\ Cardinality({name[f] : f \in F}) <= Cardinality(F)
  <2>1. name \in Surjection(F, {name[f] : f \in F})
    BY DEF Surjection
  <2>. QED
    BY <1>1, <2>1, FS_Surjection
<1>4. Cardinality(D) <= Cardinality({name[f] : f \in F}) /\ IsFiniteSet(D)
  BY <1>2, <1>3, FS_Subset
<1>5. Cardinality(D) \in Nat /\ Cardinality({name[f] : f \in F}) \in Nat /\ Cardinality(F) \in Nat
  BY <1>1, <1>3, <1>4, FS_CardinalityType
<1>. QED
  BY <1>3, <1>4, <1>5

(* Once its children are forked the shell holds none of a pipeline's pipe ends *)
(* and one descriptor for each redirection; a command that runs has the pipe   *)
(* ends of its two neighbours as its standard descriptors and no other.        *)
THEOREM NoPipeEndLeaks == Spec => []OnlyRedirectionsLeak
<1>1. Descriptors => OnlyRedirectionsLeak
  <2>. SUFFICES ASSUME Descriptors PROVE OnlyRedirectionsLeak
    OBVIOUS
  <2>1. ASSUME phase \in {"wait", "prompt"}, NEW d \in held[Sh] PROVE ~IsPipeEnd(d)
    BY <2>1 DEF Descriptors, ShellHolds, OpenFiles, IsPipeEnd, In, Out
  <2>2. ASSUME phase \in {"wait", "prompt"}, NEW j \in 1 .. job
        PROVE  Cardinality({d \in held[Sh] : d[2] = j}) <= Cardinality(
                 {f \in {"input", "output"} : cmd[j][f] = "opens"})
    BY <2>2, OneDescriptorEach DEF Descriptors, ShellHolds
  <2>3. ASSUME NEW p \in Child, life[p] = "running",
               NEW d \in held[p] \cup {std[p].in, std[p].out}, IsPipeEnd(d)
        PROVE  \/ d = std[p].in /\ d = R(p[1], p[2] - 1)
               \/ d = std[p].out /\ d = W(p[1], p[2])
    BY <2>3 DEF Descriptors, ChildHolds, IsPipeEnd, In, Out, Tty
  <2>. QED
    BY <2>1, <2>2, <2>3 DEF OnlyRedirectionsLeak
<1>. QED
  BY <1>1, PipelineInvariance, PTL

-------------------------------------------------------------------------------
LEMMA Associative ==
  ASSUME NEW s \in Seq(Char), NEW t \in Seq(Char), NEW u \in Seq(Char)
  PROVE  (s \o t) \o u = s \o (t \o u)
BY ConcatAssociative

\* One character as often as times says.
CopiesOf(c, times) == [m \in 1 .. (IF c = Newline THEN 1 ELSE times) |-> c]

\* The prefixes of s repeated.
IsCopying(s, times, f) ==
  f = [n \in 0 .. Len(s) |-> IF n = 0 THEN <<>> ELSE f[n - 1] \o CopiesOf(s[n], times)]

\* What Repeated computes: it is defined by recursion on the prefixes of s.
LEMMA RepeatedDefinition ==
  ASSUME NEW s \in Seq(Char), NEW times \in Nat
  PROVE  \E f : /\ IsCopying(s, times, f) /\ Repeated(s, times) = f[Len(s)]
                /\ \A n \in 0 .. Len(s) : f[n] \in Seq(Char)
<1>. USE DEF IsCopying
<1>. DEFINE N == Len(s)
            step == [x \in Seq(Char) \X (1 .. N) |-> x[1] \o CopiesOf(s[x[2]], times)]
            Copying(f) == IsCopying(s, times, f)
<1>1. N \in Nat /\ <<>> \in Seq(Char)
  OBVIOUS
<1>2. \A v \in Seq(Char), n \in 1 .. N : step[<<v, n>>] = v \o CopiesOf(s[n], times)
  OBVIOUS
<1>3. ASSUME NEW v \in Seq(Char), NEW n \in 1 .. N PROVE step[<<v, n>>] \in Seq(Char)
  <2>1. s[n] \in Char
    BY ElementOfSeq
  <2>2. CopiesOf(s[n], times) \in Seq(Char)
    BY <2>1 DEF CopiesOf
  <2>. QED
    BY <1>2, <2>2
<1>4. \E f : Copying(f) /\ \A n \in 0 .. N : f[n] \in Seq(Char)
  <2>. HIDE DEF step, N
  <2>1. PICK f : IsRecursive(N, <<>>, step, f) /\ \A n \in 0 .. N : f[n] \in Seq(Char)
    BY <1>1, <1>3, RecursionExists
  <2>2. ASSUME NEW n \in 0 .. N, n # 0
        PROVE  step[<<f[n - 1], n>>] = f[n - 1] \o CopiesOf(s[n], times)
    <3>1. n \in 1 .. N /\ n - 1 \in 0 .. N
      BY <1>1, <2>2
    <3>2. f[n - 1] \in Seq(Char)
      BY <2>1, <3>1
    <3>. QED
      BY <1>2, <3>1, <3>2
  <2>3. Copying(f)
    BY <2>1, <2>2 DEF IsRecursive, N
  <2>. QED
    BY <2>1, <2>3
<1>. DEFINE g == CHOOSE f : Copying(f)
<1>5. Repeated(s, times) = g[N]
  BY DEF Repeated, CopiesOf
<1>6. Copying(g)
  BY <1>4
<1>7. \A n \in 0 .. N : g[n] \in Seq(Char)
  <2>1. PICK f : Copying(f) /\ \A n \in 0 .. N : f[n] \in Seq(Char)
    BY <1>4
  <2>. HIDE DEF g
  <2>2. DOMAIN f = 0 .. N /\ DOMAIN g = 0 .. N
    BY <1>6, <2>1
  <2>. DEFINE S == {n \in 0 .. N : f[n] = g[n]}
  <2>3. 0 \in S
    BY <1>1, <1>6, <2>1
  <2>4. ASSUME NEW n \in 0 .. N, n < N, n \in S PROVE n + 1 \in S
    <3>1. n + 1 \in 0 .. N /\ n + 1 # 0 /\ (n + 1) - 1 = n
      BY <1>1, <2>4
    <3>2. f[n + 1] = f[n] \o CopiesOf(s[n + 1], times) /\ g[n + 1] = g[n] \o CopiesOf(s[n + 1], times)
      BY <1>6, <2>1, <3>1
    <3>. QED
      BY <2>4, <3>1, <3>2
  <2>5. \A n \in 0 .. N : n \in S
    <3>. HIDE DEF S, N
    <3>. QED
      BY <1>1, <2>3, <2>4, UpTo, Zenon
  <2>. QED
    BY <2>1, <2>5
<1>. QED
  BY <1>5, <1>6, <1>7

LEMMA RepeatedEmpty ==
  ASSUME NEW times \in Nat
  PROVE  Repeated(<<>>, times) = <<>>
<1>1. PICK f : IsCopying(<<>>, times, f) /\ Repeated(<<>>, times) = f[0]
  <2>1. <<>> \in Seq(Char) /\ Len(<<>>) = 0
    OBVIOUS
  <2>. QED
    BY <2>1, RepeatedDefinition
<1>. QED
  BY <1>1 DEF IsCopying

LEMMA CopiesType ==
  ASSUME NEW c \in Char, NEW times \in Nat
  PROVE  CopiesOf(c, times) \in Seq(Char)
BY DEF CopiesOf

LEMMA RepeatedType ==
  ASSUME NEW s \in Seq(Char), NEW times \in Nat
  PROVE  Repeated(s, times) \in Seq(Char)
<1>1. PICK f : (\A n \in 0 .. Len(s) : f[n] \in Seq(Char)) /\ Repeated(s, times) = f[Len(s)]
  BY RepeatedDefinition
<1>2. Len(s) \in 0 .. Len(s)
  OBVIOUS
<1>. QED
  BY <1>1, <1>2

\* One more character adds its copies.
LEMMA RepeatedAppend ==
  ASSUME NEW s \in Seq(Char), NEW c \in Char, NEW times \in Nat
  PROVE  Repeated(Append(s, c), times) = Repeated(s, times) \o CopiesOf(c, times)
<1>. DEFINE N == Len(s)  t == Append(s, c)
<1>1. N \in Nat /\ t \in Seq(Char) /\ Len(t) = N + 1 /\ t[N + 1] = c /\ \A n \in 1 .. N : t[n] = s[n]
  OBVIOUS
<1>2. PICK f : IsCopying(s, times, f) /\ Repeated(s, times) = f[N]
  BY RepeatedDefinition
<1>3. PICK g : IsCopying(t, times, g) /\ Repeated(t, times) = g[N + 1]
  <2>. HIDE DEF t, N
  <2>. QED
    BY <1>1, RepeatedDefinition
<1>. DEFINE S == {n \in 0 .. N : f[n] = g[n]}
<1>. HIDE DEF t
<1>. USE DEF IsCopying
<1>4. 0 \in S
  BY <1>1, <1>2, <1>3
<1>5. ASSUME NEW n \in 0 .. N, n < N, n \in S PROVE n + 1 \in S
  <2>1. n + 1 \in 0 .. Len(s) /\ n + 1 \in 0 .. Len(t) /\ n + 1 \in 1 .. N /\ n + 1 # 0 /\ (n + 1) - 1 = n
    BY <1>1, <1>5
  <2>2. f[n + 1] = f[n] \o CopiesOf(s[n + 1], times)
    BY <1>2, <2>1
  <2>3. g[n + 1] = g[n] \o CopiesOf(t[n + 1], times)
    BY <1>3, <2>1
  <2>. QED
    BY <1>1, <1>5, <2>1, <2>2, <2>3
<1>6. f[N] = g[N]
  <2>1. N \in 0 .. N
    BY <1>1
  <2>2. \A n \in 0 .. N : n \in S
    <3>. HIDE DEF S, N
    <3>. QED
      BY <1>1, <1>4, <1>5, UpTo
  <2>. QED
    BY <2>1, <2>2
<1>7. g[N + 1] = g[N] \o CopiesOf(c, times)
  <2>1. N + 1 \in 0 .. Len(t) /\ N + 1 # 0 /\ (N + 1) - 1 = N
    BY <1>1
  <2>. QED
    BY <1>1, <1>3, <2>1
<1>. QED
  BY <1>2, <1>3, <1>6, <1>7 DEF t

\* What is repeated of two parts is repeated of each.
LEMMA RepeatedConcat ==
  ASSUME NEW s \in Seq(Char), NEW t \in Seq(Char), NEW times \in Nat
  PROVE  Repeated(s \o t, times) = Repeated(s, times) \o Repeated(t, times)
<1>. DEFINE S == {u \in Seq(Char) : Repeated(s \o u, times) = Repeated(s, times) \o Repeated(u, times)}
<1>1. <<>> \in S
  <2>1. s \o <<>> = s /\ <<>> \in Seq(Char)
    OBVIOUS
  <2>2. Repeated(s, times) \in Seq(Char) /\ Repeated(<<>>, times) = <<>>
    BY RepeatedType, RepeatedEmpty
  <2>3. Repeated(s, times) \o <<>> = Repeated(s, times)
    BY <2>2
  <2>. QED
    BY <2>1, <2>2, <2>3
<1>2. ASSUME NEW u \in Seq(Char), NEW c \in Char, u \in S PROVE Append(u, c) \in S
  <2>1. s \o u \in Seq(Char) /\ Append(u, c) \in Seq(Char) /\ s \o Append(u, c) = Append(s \o u, c)
    OBVIOUS
  <2>2. Repeated(Append(s \o u, c), times) = Repeated(s \o u, times) \o CopiesOf(c, times)
    BY <2>1, RepeatedAppend
  <2>3. Repeated(Append(u, c), times) = Repeated(u, times) \o CopiesOf(c, times)
    BY RepeatedAppend
  <2>4. Repeated(s \o u, times) = Repeated(s, times) \o Repeated(u, times)
    BY <1>2
  <2>5. (Repeated(s, times) \o Repeated(u, times)) \o CopiesOf(c, times)
          = Repeated(s, times) \o (Repeated(u, times) \o CopiesOf(c, times))
    <3>1. /\ Repeated(s, times) \in Seq(Char) /\ Repeated(u, times) \in Seq(Char)
          /\ CopiesOf(c, times) \in Seq(Char)
      BY RepeatedType, CopiesType
    <3>2. PICK a, b, d :
            a = Repeated(s, times) /\ b = Repeated(u, times) /\ d = CopiesOf(c, times)
      OBVIOUS
    <3>3. a \in Seq(Char) /\ b \in Seq(Char) /\ d \in Seq(Char)
      BY <3>1, <3>2, Zenon
    <3>4. (a \o b) \o d = a \o (b \o d)
      BY <3>3, Associative, SMTT(30)
    <3>. QED
      BY <3>2, <3>4, Zenon
  <2>. QED
    BY <2>1, <2>2, <2>3, <2>4, <2>5
<1>3. Seq(Char) \subseteq S
  <2>. HIDE DEF S
  <2>. QED
    BY <1>1, <1>2, OnSequences
<1>. QED
  BY <1>3

\* The copies of copies.
LEMMA RepeatedCopies ==
  ASSUME NEW c \in Char, NEW k \in Nat, NEW times \in Nat
  PROVE  Repeated(CopiesOf(c, k), times) = CopiesOf(c, k * times)
<1>. DEFINE Row(n) == [m \in 1 .. n |-> c]
            width == IF c = Newline THEN 1 ELSE times
<1>1. \A n \in Nat : Row(n) \in Seq(Char) /\ Row(n + 1) = Append(Row(n), c)
  OBVIOUS
<1>2. width \in Nat /\ CopiesOf(c, times) = Row(width)
  BY DEF CopiesOf
<1>. DEFINE S == {n \in Nat : Repeated(Row(n), times) = Row(n * width)}
<1>3. 0 \in S
  <2>1. Row(0) = <<>> /\ 0 * width = 0
    BY <1>2
  <2>. QED
    BY <2>1, RepeatedEmpty
<1>4. ASSUME NEW n \in Nat, n \in S PROVE n + 1 \in S
  <2>1. Repeated(Row(n + 1), times) = Repeated(Row(n), times) \o CopiesOf(c, times)
    <3>. HIDE DEF Row
    <3>1. Row(n) \in Seq(Char) /\ Row(n + 1) = Append(Row(n), c)
      BY <1>1
    <3>2. Repeated(Append(Row(n), c), times) = Repeated(Row(n), times) \o CopiesOf(c, times)
      BY <3>1, RepeatedAppend
    <3>. QED
      BY <3>1, <3>2, Zenon
  <2>2. (n + 1) * width = n * width + width /\ n * width \in Nat
    BY <1>2
  <2>3. \A a, b \in Nat : Row(a) \o Row(b) = Row(a + b)
    OBVIOUS
  <2>4. Row(n * width) \o Row(width) = Row(n * width + width)
    <3>. HIDE DEF Row
    <3>. QED
      BY <1>2, <2>2, <2>3
  <2>5. Repeated(Row(n), times) = Row(n * width)
    BY <1>4
  <2>6. Repeated(Row(n + 1), times) = Row((n + 1) * width)
    <3>. HIDE DEF Row, width
    <3>. QED
      BY <1>2, <2>1, <2>2, <2>4, <2>5, Zenon
  <2>. HIDE DEF Row, width
  <2>. QED
    BY <2>6
<1>5. \A n \in Nat : n \in S
  <2>. SUFFICES ASSUME NEW N \in Nat PROVE N \in S
    OBVIOUS
  <2>1. \A n \in 0 .. N : n < N /\ n \in S => n + 1 \in S
    BY <1>4
  <2>2. \A n \in 0 .. N : n \in S
    <3>. HIDE DEF S
    <3>. QED
      BY <1>3, <2>1, UpTo
  <2>. QED
    BY <2>2
<1>6. CASE c = Newline
  <2>1. CopiesOf(c, k) = Row(1) /\ CopiesOf(c, k * times) = Row(1) /\ width = 1
    BY <1>6 DEF CopiesOf
  <2>. HIDE DEF Row
  <2>. QED
    BY <1>5, <2>1
<1>7. CASE c # Newline
  <2>1. CopiesOf(c, k) = Row(k) /\ CopiesOf(c, k * times) = Row(k * width)
    BY <1>7 DEF CopiesOf
  <2>. HIDE DEF Row, width
  <2>. QED
    BY <1>5, <2>1
<1>. QED
  BY <1>6, <1>7

\* What is repeated and repeated again.
LEMMA RepeatedTwice ==
  ASSUME NEW s \in Seq(Char), NEW k \in Nat, NEW times \in Nat
  PROVE  Repeated(Repeated(s, k), times) = Repeated(s, k * times)
<1>. DEFINE S == {u \in Seq(Char) : Repeated(Repeated(u, k), times) = Repeated(u, k * times)}
<1>0. k * times \in Nat
  OBVIOUS
<1>1. <<>> \in S
  BY <1>0, RepeatedEmpty
<1>2. ASSUME NEW u \in Seq(Char), NEW c \in Char, u \in S PROVE Append(u, c) \in S
  <2>1. Repeated(u, k) \in Seq(Char) /\ CopiesOf(c, k) \in Seq(Char)
    BY RepeatedType, CopiesType
  <2>2. Repeated(Append(u, c), k) = Repeated(u, k) \o CopiesOf(c, k)
    BY RepeatedAppend
  <2>3. Repeated(Repeated(u, k) \o CopiesOf(c, k), times)
          = Repeated(Repeated(u, k), times) \o Repeated(CopiesOf(c, k), times)
    BY <2>1, RepeatedConcat
  <2>4. Repeated(Append(u, c), k * times) = Repeated(u, k * times) \o CopiesOf(c, k * times)
    BY <1>0, RepeatedAppend
  <2>5. Repeated(CopiesOf(c, k), times) = CopiesOf(c, k * times)
    BY RepeatedCopies
  <2>6. Append(u, c) \in Seq(Char)
    OBVIOUS
  <2>. QED
    BY <1>2, <2>2, <2>3, <2>4, <2>5, <2>6
<1>3. Seq(Char) \subseteq S
  <2>. HIDE DEF S
  <2>. QED
    BY <1>1, <1>2, OnSequences
<1>. QED
  BY <1>3

-------------------------------------------------------------------------------
\* What the standard descriptors of a child are meant to be.
Source(p) == IF p[2] > 1 THEN R(p[1], p[2] - 1)
             ELSE IF cmd[p[1]].input = "opens" THEN In(p[1]) ELSE Tty
Sink(p)   == IF p[2] < cmd[p[1]].size THEN W(p[1], p[2])
             ELSE IF cmd[p[1]].output = "opens" THEN Out(p[1]) ELSE Tty

\* What is still to come of what a pipeline is given.
Rest(j) == IF cmd[j].input = "opens" THEN unread[j] ELSE <<>>

\* The shell still has what the children to come need.
ShellPasses ==
  phase = "fork" =>
    /\ EndsToPass \subseteq held[Sh]
    /\ cmd[job].input = "opens" => In(job) \in held[Sh]
    /\ cmd[job].output = "opens" => Out(job) \in held[Sh]

\* Children are forked in the order of their commands.
InOrder ==
  /\ \A p \in Child : life[p] # "none" =>
       /\ p[1] <= job /\ p[2] <= cmd[p[1]].size
       /\ p[2] > 1 => life[<<p[1], p[2] - 1>>] # "none"
  /\ phase = "fork" => \A i \in 1 .. Longest : life[<<job, i>>] # "none" <=> i <= forked

\* A child has what it needs, and then uses it.
ChildUses ==
  \A p \in Child :
    /\ life[p] = "forked" =>
         /\ p[2] < cmd[p[1]].size => W(p[1], p[2]) \in held[p]
         /\ In(p[1]) \in held[p] <=> cmd[p[1]].input = "opens"
         /\ Out(p[1]) \in held[p] <=> cmd[p[1]].output = "opens"
    /\ life[p] \in {"redirected", "running"} => std[p] = [in |-> Source(p), out |-> Sink(p)]

Contents ==
  /\ char \in [Child -> Seq(Char)] /\ buffer \in [Child -> Seq(Char)]
  /\ unread \in [Jobs -> Seq(Char)] /\ typed \in [Jobs -> Seq(Char)] /\ written \in [Jobs -> Seq(Char)]
  /\ \A p \in Child : Len(char[p]) <= 1 /\ (life[p] # "running" => char[p] = <<>>)
  /\ \A j \in Jobs : j > job =>
       unread[j] = Input /\ typed[j] = <<>> /\ written[j] = <<>> /\ \A i \in 1 .. Longest : buffer[<<j, i>>] = <<>>

\* A command that came to the end of its input: nothing more will come.
Ends ==
  \A p \in Child : life[p] = "done" =>
    /\ p[2] = 1 /\ cmd[p[1]].input = "opens" => unread[p[1]] = <<>>
    /\ p[2] > 1 => /\ life[<<p[1], p[2] - 1>>] \in {"done", "failed"}
                   /\ buffer[<<p[1], p[2] - 1>>] = <<>>

\* What the commands of pipeline j have read, and what of it they have repeated.
Flow(j, got, passed) ==
  /\ got \in [1 .. Longest -> Seq(Char)] /\ passed \in [1 .. Longest -> Seq(Char)]
  /\ \A i \in 1 .. Longest :
       /\ life[<<j, i>>] # "failed" => got[i] = passed[i] \o char[<<j, i>>]
       /\ \E rest \in Seq(Char) : got[i] = passed[i] \o rest
  /\ got[1] \o Rest(j) = Given(j)
  /\ \A i \in 1 .. Longest : i < cmd[j].size =>
       Repeated(passed[i], Count) = got[i + 1] \o buffer[<<j, i>>]
  /\ written[j] = IF cmd[j].output = "opens" THEN Repeated(passed[cmd[j].size], Count) ELSE <<>>

Flows == \A j \in 1 .. job : \E got, passed : Flow(j, got, passed)

FlowInv == Descriptors /\ ShellPasses /\ InOrder /\ ChildUses /\ Contents /\ Ends /\ Flows

-------------------------------------------------------------------------------
\* Only children that live do anything.
LEMMA ChildLives ==
  ASSUME NEW p \in Child, ChildStep(p), PipelineTypeOK
  PROVE  /\ life[p] \in {"forked", "redirected", "running"}
         /\ life'[p] \in {"redirected", "running", "done", "failed"}
<1>. USE DEF PipelineTypeOK
<1>1. CASE Redirect(p)
  BY <1>1 DEF Redirect
<1>2. CASE Exec(p)
  BY <1>2 DEF Exec
<1>3. CASE ExecFails(p)
  BY <1>3 DEF ExecFails, Gone
<1>4. CASE ReadFile(p)
  BY <1>4 DEF ReadFile
<1>5. CASE ReadPipe(p)
  BY <1>5 DEF ReadPipe
<1>6. CASE ReadEnd(p)
  BY <1>6 DEF ReadEnd, Gone
<1>7. CASE Write(p)
  BY <1>7 DEF Write
<1>8. CASE BrokenPipe(p)
  BY <1>8 DEF BrokenPipe, Gone
<1>9. ASSUME NEW c \in Char, ReadTyped(p, c) 
      PROVE  /\ life[p] \in {"forked", "redirected", "running"}
             /\ life'[p] \in {"redirected", "running", "done", "failed"}
  BY <1>9 DEF ReadTyped
<1>10. CASE EndTyped(p)
  BY <1>10 DEF EndTyped, Gone
<1>. QED
  BY <1>1, <1>2, <1>3, <1>4, <1>5, <1>6, <1>7, <1>8, <1>9, <1>10 DEF ChildStep, Runs, ReadsTerminal

LEMMA SizeType ==
  ASSUME Counters, NEW j \in Jobs
  PROVE  cmd[j].size \in Nat /\ cmd[j].size <= Longest
<1>1. Longest \in Nat /\ cmd[j] \in Command \cup {NoCommand}
  BY PipelineAssumption DEF Counters
<1>. QED
  BY <1>1 DEF Command, NoCommand

\* Of the pipelines only the one that is typed changes.
LEMMA Typing ==
  ASSUME Counters, NEW c \in Typed, CreateJob(c)
  PROVE  /\ c \in Command /\ c.size \in 1 .. Longest
         /\ job \in Nat /\ job + 1 \in Jobs /\ job' = job + 1 /\ forked' = 0 /\ phase' = "fork"
         /\ cmd'[job + 1] = c /\ \A j \in 1 .. job : cmd'[j] = cmd[j]
         /\ UNCHANGED <<std, life, char, buffer, unread, typed, written>>
<1>1. c \in Command /\ job \in Nat /\ job + 1 \in Jobs /\ 1 .. job \subseteq Jobs
  BY PipelineAssumption DEF CreateJob, Counters, Jobs
<1>2. cmd' = [cmd EXCEPT ![job + 1] = c]
  BY DEF CreateJob
<1>. QED
  BY <1>1, <1>2 DEF CreateJob, Counters, Command

LEMMA ShellPassesStep == FlowInv /\ [Next]_vars => ShellPasses'
<1>. SUFFICES ASSUME FlowInv, [Next]_vars PROVE ShellPasses'
  OBVIOUS
<1>. USE DEF FlowInv, Descriptors, ShellPasses, PipelineTypeOK
<1>0. Sh \in DOMAIN held
  OBVIOUS
<1>1. ASSUME NEW c \in Typed, CreateJob(c) PROVE ShellPasses'
  <2>. DEFINE j == job + 1
              pipes == {R(j, k) : k \in 1 .. c.size - 1} \cup {W(j, k) : k \in 1 .. c.size - 1}
              files == {d \in {In(j), Out(j)} : (IF d = In(j) THEN c.input ELSE c.output) = "opens"}
  <2>1. held'[Sh] = held[Sh] \cup pipes \cup files
    BY <1>0, <1>1 DEF CreateJob
  <2>2. c.size \in Nat /\ job' = j /\ forked' = 0 /\ cmd'[j] = c
    BY <1>1, Typing, PipelineAssumption
  <2>3. EndsToPass' \subseteq pipes
    BY <2>2 DEF EndsToPass
  <2>4. In(j) # Out(j)
    BY DEF In, Out
  <2>5. c.input = "opens" => In(j) \in files
    OBVIOUS
  <2>6. c.output = "opens" => Out(j) \in files
    BY <2>4
  <2>. HIDE DEF pipes, files
  <2>. QED
    BY <2>1, <2>2, <2>3, <2>5, <2>6
<1>2. CASE Fork
  <2>. DEFINE i == forked + 1
  <2>1. held'[Sh] = held[Sh] \ ClosedAfter(i)
    BY <1>0, <1>2, ShellIsNoChild DEF Fork
  <2>2. phase = "fork" /\ job' = job /\ cmd' = cmd /\ forked' = i
    BY <1>2 DEF Fork
  <2>3. cmd[job].size \in Nat /\ forked \in Nat
    BY <2>2 DEF Counters, Command
  <2>4. EndsToPass' \subseteq EndsToPass
    BY <2>2, <2>3 DEF EndsToPass
  <2>5. \A d \in EndsToPass' : d \notin ClosedAfter(i)
    BY <2>2, <2>3 DEF EndsToPass, ClosedAfter, R, W
  <2>6. In(job) \notin ClosedAfter(i) /\ Out(job) \notin ClosedAfter(i)
    BY DEF ClosedAfter, In, Out, R, W
  <2>. QED
    BY <2>1, <2>2, <2>4, <2>5, <2>6
<1>3. CASE ForkFails \/ EndOfForks \/ EndOfWait
  BY <1>3 DEF ForkFails, EndOfForks, EndOfWait
<1>4. ASSUME NEW p \in Child, ChildStep(p) PROVE ShellPasses'
  BY <1>4, ChildStepIsLocal, ShellIsNoChild DEF EndsToPass
<1>5. CASE UNCHANGED pipelineVars
  BY <1>5 DEF pipelineVars, EndsToPass
<1>. QED
  BY <1>1, <1>2, <1>3, <1>4, <1>5 DEF Next, PipelineNext, ShellStep, vars

LEMMA InOrderStep == FlowInv /\ [Next]_vars => InOrder'
<1>. SUFFICES ASSUME FlowInv, [Next]_vars PROVE InOrder'
  OBVIOUS
<1>. USE DEF FlowInv, Descriptors, InOrder, PipelineTypeOK
<1>1. ASSUME NEW c \in Typed, CreateJob(c) PROVE InOrder'
  <2>1. job \in Nat /\ job + 1 \in Jobs /\ job' = job + 1 /\ forked' = 0 /\ life' = life
        /\ \A j \in 1 .. job : cmd'[j] = cmd[j]
    BY <1>1, Typing
  <2>2. ASSUME NEW i \in 1 .. Longest PROVE <<job + 1, i>> \in Child /\ life[<<job + 1, i>>] = "none"
    <3>1. <<job + 1, i>> \in Child /\ (<<job + 1, i>>)[1] = job + 1 /\ ~(job + 1 <= job)
      BY <2>1 DEF Child
    <3>. QED
      BY <3>1
  <2>3. ASSUME NEW p \in Child, life[p] # "none" PROVE p[1] \in 1 .. job
    <3>1. p[1] \in Jobs /\ p[1] <= job
      BY <2>3, ShellIsNoChild
    <3>. QED
      BY <2>1, <3>1 DEF Jobs
  <2>. QED
    BY <2>1, <2>2, <2>3
<1>2. CASE Fork
  <2>. DEFINE i == forked + 1
  <2>1. phase = "fork" /\ UNCHANGED <<phase, job, cmd>> /\ forked' = i /\ life' = [life EXCEPT ![<<job, i>>] = "forked"]
    BY <1>2 DEF Fork
  <2>2. forked \in Nat /\ i <= cmd[job].size /\ cmd[job].size \in 1 .. Longest /\ job \in Jobs
    BY <1>2, <2>1 DEF Counters, Command, Fork
  <2>3. Longest \in Nat /\ i \in 1 .. Longest /\ <<job, i>> \in Child
    BY <2>2, PipelineAssumption DEF Child
  <2>4. i > 1 => <<job, i - 1>> \in Child /\ life[<<job, i - 1>>] # "none"
    BY <2>1, <2>2, <2>3 DEF Child
  <2>5. \A q \in Child : life'[q] = IF q = <<job, i>> THEN "forked" ELSE life[q]
    BY <2>1, <2>3
  <2>6. ASSUME NEW q \in Child, life'[q] # "none"
        PROVE  /\ q[1] <= job /\ q[2] <= cmd[q[1]].size
               /\ q[2] > 1 => life'[<<q[1], q[2] - 1>>] # "none"
    <3>1. q = <<q[1], q[2]>> /\ q[2] \in 1 .. Longest /\ (q[2] > 1 => <<q[1], q[2] - 1>> \in Child)
      BY <2>3, ShellIsNoChild DEF Child
    <3>2. CASE q = <<job, i>>
      <4>1. q[1] = job /\ q[2] = i /\ i - 1 # i
        BY <2>3, <3>2
      <4>. QED
        BY <2>2, <2>4, <2>5, <3>2, <4>1 DEF Jobs
    <3>3. CASE q # <<job, i>>
      BY <2>5, <2>6, <3>1, <3>3
    <3>. QED
      BY <3>2, <3>3
  <2>7. ASSUME NEW k \in 1 .. Longest PROVE life'[<<job, k>>] # "none" <=> k <= i
    <3>1. <<job, k>> \in Child /\ (<<job, k>> = <<job, i>> <=> k = i)
      BY <2>2 DEF Child
    <3>2. life[<<job, k>>] # "none" <=> k <= forked
      BY <2>1
    <3>. QED
      BY <2>2, <2>5, <3>1, <3>2
  <2>. QED
    BY <2>1, <2>6, <2>7
<1>3. CASE ForkFails \/ EndOfForks \/ EndOfWait
  BY <1>3 DEF ForkFails, EndOfForks, EndOfWait
<1>4. ASSUME NEW p \in Child, ChildStep(p) PROVE InOrder'
  <2>1. \A q \in Child : life[q] # "none" <=> life'[q] # "none"
    BY <1>4, ChildStepIsLocal, ChildLives
  <2>2. UNCHANGED <<phase, cmd, job, forked>>
    BY <1>4, ChildStepIsLocal
  <2>3. \A q \in Child : q[2] > 1 => <<q[1], q[2] - 1>> \in Child
    BY ShellIsNoChild, PipelineAssumption DEF Child
  <2>4. phase = "fork" => \A i \in 1 .. Longest : <<job, i>> \in Child
    BY DEF Counters, Child
  <2>. QED
    BY <2>1, <2>2, <2>3, <2>4
<1>5. CASE UNCHANGED pipelineVars
  BY <1>5 DEF pipelineVars
<1>. QED
  BY <1>1, <1>2, <1>3, <1>4, <1>5 DEF Next, PipelineNext, ShellStep, vars

LEMMA ChildUsesStep == FlowInv /\ [Next]_vars => ChildUses'
<1>. SUFFICES ASSUME FlowInv, [Next]_vars PROVE ChildUses'
  OBVIOUS
<1>. USE DEF FlowInv, Descriptors, ChildUses, PipelineTypeOK
<1>1. ASSUME NEW c \in Typed, CreateJob(c) PROVE ChildUses'
  <2>1. job \in Nat /\ life' = life /\ std' = std /\ \A j \in 1 .. job : cmd'[j] = cmd[j]
    BY <1>1, Typing
  <2>2. \A p \in Child : held'[p] = held[p]
    BY <1>1, ShellIsNoChild DEF CreateJob
  <2>3. ASSUME NEW p \in Child, life[p] # "none" PROVE cmd'[p[1]] = cmd[p[1]]
    <3>1. p[1] \in Jobs /\ p[1] <= job
      BY <2>3, ShellIsNoChild DEF InOrder
    <3>. QED
      BY <2>1, <3>1 DEF Jobs
  <2>. QED
    BY <2>1, <2>2, <2>3 DEF Source, Sink
<1>2. CASE Fork
  <2>. DEFINE i == forked + 1  p == <<job, i>>
  <2>1. /\ phase = "fork" /\ UNCHANGED <<phase, job, cmd>> /\ life' = [life EXCEPT ![p] = "forked"]
        /\ held' = [held EXCEPT ![p] = held[Sh], ![Sh] = held[Sh] \ ClosedAfter(i)]
        /\ std' = [std EXCEPT ![p] = std[Sh]]
    BY <1>2 DEF Fork
  <2>2. forked \in Nat /\ i <= cmd[job].size /\ cmd[job].size \in 1 .. Longest /\ job \in Jobs
    BY <1>2, <2>1 DEF Counters, Command, Fork
  <2>3. Longest \in Nat /\ p \in Child /\ p[1] = job /\ p[2] = i /\ p # Sh
    BY <2>2, PipelineAssumption, ShellIsNoChild DEF Child
  <2>4. held'[p] = held[Sh] /\ life'[p] = "forked"
    BY <2>1, <2>3
  <2>5. \A q \in Child : q # p => held'[q] = held[q] /\ std'[q] = std[q] /\ life'[q] = life[q]
    BY <2>1, ShellIsNoChild
  <2>6. i < cmd[job].size => W(job, i) \in held[Sh]
    <3>1. i < cmd[job].size => W(job, i) \in EndsToPass
      BY <2>2 DEF EndsToPass
    <3>. QED
      BY <2>1, <3>1 DEF ShellPasses
  <2>7. /\ In(job) \in held[Sh] <=> cmd[job].input = "opens"
        /\ Out(job) \in held[Sh] <=> cmd[job].output = "opens"
    <3>1. In(job) \notin EndsToPass /\ Out(job) \notin EndsToPass
      BY DEF EndsToPass, In, Out, R, W
    <3>2. In(job) \in OpenFiles => cmd[job].input = "opens"
      BY DEF OpenFiles, In, Out
    <3>3. Out(job) \in OpenFiles => cmd[job].output = "opens"
      BY DEF OpenFiles, In, Out
    <3>. QED
      BY <2>1, <3>1, <3>2, <3>3 DEF ShellPasses, ShellHolds
  <2>. HIDE DEF p
  <2>. QED
    BY <2>1, <2>3, <2>4, <2>5, <2>6, <2>7 DEF Source, Sink
<1>3. CASE ForkFails \/ EndOfForks \/ EndOfWait
  BY <1>3, ShellIsNoChild DEF ForkFails, EndOfForks, EndOfWait, Source, Sink
<1>4. ASSUME NEW p \in Child, ChildStep(p) PROVE ChildUses'
  <2>. DEFINE Good(q) ==
         /\ life'[q] = "forked" =>
              /\ q[2] < cmd[q[1]].size => W(q[1], q[2]) \in held'[q]
              /\ In(q[1]) \in held'[q] <=> cmd[q[1]].input = "opens"
              /\ Out(q[1]) \in held'[q] <=> cmd[q[1]].output = "opens"
         /\ life'[q] \in {"redirected", "running"} => std'[q] = [in |-> Source(q), out |-> Sink(q)]
  <2>1. ASSUME NEW q \in Child, q # p PROVE Good(q)
    BY <1>4, <2>1, ChildStepIsLocal
  <2>2. Good(p)
    <3>1. CASE Redirect(p)
      <4>1. /\ life[p] = "forked" /\ life'[p] = "redirected" /\ std[p] = Terminal
            /\ In(p[1]) \in held[p] <=> cmd[p[1]].input = "opens"
            /\ Out(p[1]) \in held[p] <=> cmd[p[1]].output = "opens"
        BY <3>1 DEF Redirect, ChildHolds
      <4>2. p[2] \in 1 .. Longest /\ p[2] <= cmd[p[1]].size /\ cmd[p[1]].size \in Nat
        <5>1. p[1] \in Jobs /\ p[2] \in 1 .. Longest /\ p[2] <= cmd[p[1]].size
          BY <4>1, ShellIsNoChild DEF InOrder
        <5>2. cmd[p[1]] \in Command \cup {NoCommand} /\ Longest \in Nat
          BY <5>1, PipelineAssumption DEF Counters
        <5>3. cmd[p[1]].size \in Nat
          BY <5>2 DEF Command, NoCommand
        <5>. QED
          BY <5>1, <5>3
      <4>3. std'[p] = [in |-> CASE p[2] > 1 -> R(p[1], p[2] - 1)
                               [] p[2] = 1 /\ In(p[1]) \in held[p] -> In(p[1])
                               [] OTHER -> std[p].in,
                       out |-> CASE p[2] < cmd[p[1]].size -> W(p[1], p[2])
                                [] p[2] = cmd[p[1]].size /\ Out(p[1]) \in held[p] -> Out(p[1])
                                [] OTHER -> std[p].out]
        BY <3>1 DEF Redirect
      <4>4. std'[p] = [in |-> Source(p), out |-> Sink(p)]
        BY <4>1, <4>2, <4>3 DEF Source, Sink, Terminal
      <4>. QED
        BY <4>1, <4>4
    <3>2. CASE Exec(p)
      BY <3>2 DEF Exec
    <3>3. CASE ExecFails(p) \/ ReadEnd(p) \/ BrokenPipe(p)
      BY <3>3 DEF ExecFails, ReadEnd, BrokenPipe, Gone
    <3>4. CASE ReadFile(p) \/ ReadPipe(p) \/ Write(p)
      BY <3>4 DEF ReadFile, ReadPipe, Write
    <3>5. ASSUME NEW c \in Char, ReadTyped(p, c) PROVE Good(p)
      BY <3>5 DEF ReadTyped
    <3>6. CASE EndTyped(p)
      BY <3>6 DEF EndTyped, Gone
    <3>. QED
      BY <1>4, <3>1, <3>2, <3>3, <3>4, <3>5, <3>6 DEF ChildStep, Runs, ReadsTerminal
  <2>3. UNCHANGED cmd
    BY <1>4, ChildStepIsLocal
  <2>. QED
    BY <2>1, <2>2, <2>3 DEF Source, Sink
<1>5. CASE UNCHANGED pipelineVars
  BY <1>5 DEF pipelineVars, Source, Sink
<1>. QED
  BY <1>1, <1>2, <1>3, <1>4, <1>5 DEF Next, PipelineNext, ShellStep, vars

\* What a child does at its input and output.
LEMMA ReadFileFacts ==
  ASSUME FlowInv, NEW p \in Child, ReadFile(p)
  PROVE  /\ life[p] = "running" /\ p[2] = 1 /\ cmd[p[1]].input = "opens" /\ char[p] = <<>> /\ unread[p[1]] # <<>>
         /\ char' = [char EXCEPT ![p] = <<Head(unread[p[1]])>>]
         /\ unread' = [unread EXCEPT ![p[1]] = Tail(unread[p[1]])]
         /\ UNCHANGED <<phase, cmd, job, forked, life, buffer, typed, written>>
<1>. USE DEF FlowInv, ChildUses
<1>1. std[p].in = Source(p) /\ life[p] = "running" /\ std[p].in[1] = "in"
  <2>1. life[p] = "running" /\ std[p].in[1] = "in"
    BY DEF ReadFile
  <2>2. std[p] = [in |-> Source(p), out |-> Sink(p)]
    BY <2>1
  <2>. QED
    BY <2>1, <2>2
<1>2. p[2] \in 1 .. Longest /\ Longest \in Nat
  BY ShellIsNoChild, PipelineAssumption
<1>3. Source(p) = In(p[1]) /\ p[2] = 1 /\ cmd[p[1]].input = "opens"
  BY <1>1, <1>2 DEF Source, R, Tty
<1>. QED
  BY <1>1, <1>3 DEF ReadFile, In

LEMMA ReadPipeFacts ==
  ASSUME FlowInv, NEW p \in Child, ReadPipe(p)
  PROVE  LET q == <<p[1], p[2] - 1>> IN
         /\ life[p] = "running" /\ p[2] > 1 /\ q \in Child /\ char[p] = <<>> /\ buffer[q] # <<>>
         /\ char' = [char EXCEPT ![p] = <<Head(buffer[q])>>]
         /\ buffer' = [buffer EXCEPT ![q] = Tail(buffer[q])]
         /\ UNCHANGED <<phase, cmd, job, forked, life, unread, typed, written>>
<1>. USE DEF FlowInv, ChildUses
<1>1. std[p].in = Source(p) /\ life[p] = "running" /\ std[p].in[1] = "r"
  <2>1. life[p] = "running" /\ std[p].in[1] = "r"
    BY DEF ReadPipe
  <2>2. std[p] = [in |-> Source(p), out |-> Sink(p)]
    BY <2>1
  <2>. QED
    BY <2>1, <2>2
<1>2. p[1] \in Jobs /\ p[2] \in 1 .. Longest /\ Longest \in Nat
  BY ShellIsNoChild, PipelineAssumption
<1>3. Source(p) = R(p[1], p[2] - 1) /\ p[2] > 1
  BY <1>1, <1>2 DEF Source, In, Tty
<1>4. <<p[1], p[2] - 1>> \in Child
  BY <1>2, <1>3 DEF Child
<1>. QED
  BY <1>1, <1>3, <1>4 DEF ReadPipe, R, Pipe

LEMMA WriteFacts ==
  ASSUME FlowInv, NEW p \in Child, Write(p)
  PROVE  LET out == Copies(Head(char[p])) IN
         /\ life[p] = "running" /\ char[p] # <<>> /\ p[1] <= job /\ p[2] <= cmd[p[1]].size
         /\ char' = [char EXCEPT ![p] = <<>>]
         /\ buffer' = IF p[2] < cmd[p[1]].size THEN [buffer EXCEPT ![p] = buffer[p] \o out] ELSE buffer
         /\ written' = IF p[2] = cmd[p[1]].size /\ cmd[p[1]].output = "opens"
                       THEN [written EXCEPT ![p[1]] = written[p[1]] \o out] ELSE written
         /\ UNCHANGED <<phase, cmd, job, forked, life, unread, typed>>
<1>. USE DEF FlowInv, ChildUses
<1>1. std[p].out = Sink(p) /\ life[p] = "running"
  <2>1. life[p] = "running"
    BY DEF Write
  <2>2. std[p] = [in |-> Source(p), out |-> Sink(p)]
    BY <2>1
  <2>. QED
    BY <2>1, <2>2
<1>2. p[1] <= job /\ p[2] <= cmd[p[1]].size /\ p = <<p[1], p[2]>>
  BY <1>1, ShellIsNoChild DEF InOrder
<1>3. p[1] \in Jobs /\ p[2] \in Nat /\ cmd[p[1]].size \in Nat
  <2>1. p[1] \in Jobs /\ p[2] \in 1 .. Longest /\ Longest \in Nat
    BY ShellIsNoChild, PipelineAssumption
  <2>2. cmd[p[1]] \in Command \cup {NoCommand}
    BY <2>1 DEF Descriptors, Counters
  <2>. QED
    BY <2>1, <2>2 DEF Command, NoCommand
<1>. DEFINE d == std[p].out  out == Copies(Head(char[p]))
<1>0. /\ char[p] # <<>> /\ char' = [char EXCEPT ![p] = <<>>]
      /\ buffer' = IF d[1] = "w" THEN [buffer EXCEPT ![Pipe(d)] = buffer[Pipe(d)] \o out] ELSE buffer
      /\ written' = IF d[1] = "out" THEN [written EXCEPT ![d[2]] = written[d[2]] \o out] ELSE written
      /\ UNCHANGED <<phase, cmd, job, forked, life, unread, typed>>
  BY DEF Write
<1>. DEFINE B(q) == [buffer EXCEPT ![q] = buffer[q] \o out]
            V(j) == [written EXCEPT ![j] = written[j] \o out]
<1>4. /\ buffer' = IF p[2] < cmd[p[1]].size THEN B(p) ELSE buffer
      /\ written' = IF p[2] = cmd[p[1]].size /\ cmd[p[1]].output = "opens" THEN V(p[1]) ELSE written
  <2>0. /\ buffer' = IF d[1] = "w" THEN B(Pipe(d)) ELSE buffer
        /\ written' = IF d[1] = "out" THEN V(d[2]) ELSE written
        /\ d = Sink(p)
    BY <1>0, <1>1
  <2>. HIDE DEF d, B, V
  <2>1. CASE p[2] < cmd[p[1]].size
    <3>1. Sink(p) = W(p[1], p[2]) /\ Sink(p)[1] = "w" /\ Pipe(Sink(p)) = p
      BY <1>2, <2>1 DEF Sink, W, Pipe
    <3>. QED
      BY <1>3, <2>0, <2>1, <3>1
  <2>2. CASE p[2] = cmd[p[1]].size /\ cmd[p[1]].output = "opens"
    <3>1. Sink(p) = Out(p[1]) /\ Sink(p)[1] = "out" /\ Sink(p)[2] = p[1]
      BY <1>3, <2>2 DEF Sink, Out
    <3>. QED
      BY <1>3, <2>0, <2>2, <3>1
  <2>3. CASE p[2] = cmd[p[1]].size /\ cmd[p[1]].output # "opens"
    <3>1. Sink(p) = Tty /\ Sink(p)[1] = "tty"
      BY <1>3, <2>3 DEF Sink, Tty
    <3>. QED
      BY <1>3, <2>0, <2>3, <3>1
  <2>. QED
    BY <1>2, <1>3, <2>1, <2>2, <2>3
<1>. QED
  BY <1>0, <1>1, <1>2, <1>4

LEMMA ReadTypedFacts ==
  ASSUME FlowInv, NEW p \in Child, NEW c \in Char, ReadTyped(p, c)
  PROVE  /\ life[p] = "running" /\ p[2] = 1 /\ cmd[p[1]].input # "opens" /\ char[p] = <<>>
         /\ char' = [char EXCEPT ![p] = <<c>>]
         /\ typed' = [typed EXCEPT ![p[1]] = Append(typed[p[1]], c)]
         /\ UNCHANGED <<phase, cmd, job, forked, life, buffer, unread, written>>
<1>. USE DEF FlowInv, ChildUses
<1>1. std[p].in = Source(p) /\ life[p] = "running" /\ std[p].in = Tty
  <2>1. life[p] = "running" /\ std[p].in = Tty
    BY DEF ReadTyped
  <2>2. std[p] = [in |-> Source(p), out |-> Sink(p)]
    BY <2>1
  <2>. QED
    BY <2>1, <2>2
<1>2. p[2] \in 1 .. Longest /\ Longest \in Nat
  BY ShellIsNoChild, PipelineAssumption
<1>3. p[2] = 1 /\ cmd[p[1]].input # "opens"
  BY <1>1, <1>2 DEF Source, R, In, Tty
<1>. QED
  BY <1>1, <1>3 DEF ReadTyped

\* A child starts or ends: nothing it held back is passed on.
Types(p) == \E c \in Char : ReadTyped(p, c)

LEMMA OtherFacts ==
  ASSUME FlowInv, NEW p \in Child, ChildStep(p), ~ReadFile(p), ~ReadPipe(p), ~Types(p), ~Write(p)
  PROVE  /\ UNCHANGED <<phase, cmd, job, forked, buffer, unread, typed, written>>
         /\ \/ UNCHANGED char /\ life[p] \in {"forked", "redirected"}
               /\ \E l \in {"redirected", "running", "failed"} : life' = [life EXCEPT ![p] = l]
            \/ char' = [char EXCEPT ![p] = <<>>]
               /\ \/ life' = [life EXCEPT ![p] = "failed"]
                  \/ life' = [life EXCEPT ![p] = "done"] /\ life[p] = "running" /\ (ReadEnd(p) \/ EndTyped(p))
<1>1. CASE Redirect(p)
  BY <1>1 DEF Redirect
<1>2. CASE Exec(p)
  BY <1>2 DEF Exec
<1>3. CASE ExecFails(p)
  BY <1>3 DEF ExecFails, Gone
<1>4. CASE ReadEnd(p)
  BY <1>4 DEF ReadEnd, Gone
<1>5. CASE BrokenPipe(p)
  BY <1>5 DEF BrokenPipe, Gone
<1>6. CASE EndTyped(p)
  BY <1>6 DEF EndTyped, Gone
<1>. QED
  BY <1>1, <1>2, <1>3, <1>4, <1>5, <1>6 DEF ChildStep, Runs, ReadsTerminal, Types

LEMMA CopiesAreCopies ==
  ASSUME NEW c \in Char
  PROVE  Copies(c) = CopiesOf(c, Count) /\ Copies(c) \in Seq(Char)
<1>1. Count \in Nat
  BY PipelineAssumption
<1>2. Copies(c) = CopiesOf(c, Count)
  <2>1. <<c>> = [m \in 1 .. 1 |-> c]
    <3>1. <<c>> \in Seq(Char) /\ [m \in 1 .. 1 |-> c] \in Seq(Char)
      OBVIOUS
    <3>2. Len(<<c>>) = 1 /\ Len([m \in 1 .. 1 |-> c]) = 1
      OBVIOUS
    <3>3. \A i \in 1 .. 1 : (<<c>>)[i] = [m \in 1 .. 1 |-> c][i]
      OBVIOUS
    <3>. QED
      BY <3>1, <3>2, <3>3, SeqEqual
  <2>. QED
    BY <2>1 DEF Copies, CopiesOf
<1>. QED
  BY <1>1, <1>2, CopiesType

LEMMA HeadOfSequence ==
  ASSUME NEW s \in Seq(Char), s # <<>>
  PROVE  Head(s) \in Char /\ Tail(s) \in Seq(Char) /\ s = <<Head(s)>> \o Tail(s)
OBVIOUS

LEMMA ContentsStep == FlowInv /\ [Next]_vars => Contents'
<1>. SUFFICES ASSUME FlowInv, [Next]_vars PROVE Contents'
  OBVIOUS
<1>. USE DEF FlowInv, Contents
<1>1. ASSUME NEW c \in Typed, CreateJob(c) PROVE Contents'
  <2>1. job \in Nat /\ job' = job + 1 /\ UNCHANGED <<life, char, buffer, unread, typed, written>>
    BY <1>1, Typing DEF Descriptors
  <2>2. \A j \in Jobs : j > job + 1 => j > job
    BY <2>1 DEF Jobs
  <2>. QED
    BY <2>1, <2>2
<1>2. CASE Fork
  <2>. DEFINE p == <<job, forked + 1>>
  <2>1. UNCHANGED <<job, char, buffer, unread, typed, written>> /\ life' = [life EXCEPT ![p] = "forked"]
        /\ phase = "fork" /\ forked < cmd[job].size
    BY <1>2 DEF Fork
  <2>2. p \in Child /\ life[p] = "none"
    <3>1. forked \in Nat /\ cmd[job].size \in 1 .. Longest /\ job \in Jobs /\ Longest \in Nat
      BY <2>1, PipelineAssumption DEF Descriptors, Counters, Command
    <3>2. forked + 1 \in 1 .. Longest /\ ~(forked + 1 <= forked)
      BY <2>1, <3>1
    <3>. QED
      BY <2>1, <3>1, <3>2 DEF InOrder, Child
  <2>. HIDE DEF p
  <2>. QED
    BY <2>1, <2>2 DEF Descriptors, PipelineTypeOK
<1>3. CASE ForkFails \/ EndOfForks \/ EndOfWait
  BY <1>3 DEF ForkFails, EndOfForks, EndOfWait
<1>4. ASSUME NEW p \in Child, ChildStep(p) PROVE Contents'
  <2>0. p = <<p[1], p[2]>> /\ p[1] \in Jobs /\ p[2] \in 1 .. Longest /\ life[p] # "none" /\ p[1] <= job
    BY <1>4, ShellIsNoChild, ChildLives DEF Descriptors, InOrder
  <2>1. CASE ReadFile(p)
    <3>1. Head(unread[p[1]]) \in Char /\ Tail(unread[p[1]]) \in Seq(Char)
      BY <2>0, <2>1, ReadFileFacts, HeadOfSequence
    <3>2. <<Head(unread[p[1]])>> \in Seq(Char) /\ Len(<<Head(unread[p[1]])>>) = 1
      BY <3>1
    <3>3. \A j \in Jobs : j > job => j # p[1]
      BY <2>0 DEF Jobs, Descriptors, Counters
    <3>4. /\ life[p] = "running"
          /\ char' = [char EXCEPT ![p] = <<Head(unread[p[1]])>>]
          /\ unread' = [unread EXCEPT ![p[1]] = Tail(unread[p[1]])]
          /\ UNCHANGED <<job, life, buffer, typed, written>>
      BY <2>1, ReadFileFacts
    <3>5. char' \in [Child -> Seq(Char)] /\ unread' \in [Jobs -> Seq(Char)]
      BY <2>0, <3>1, <3>2, <3>4
    <3>6. \A q \in Child : Len(char'[q]) <= 1 /\ (life'[q] # "running" => char'[q] = <<>>)
      BY <3>2, <3>4
    <3>7. \A j \in Jobs : j > job => unread'[j] = unread[j]
      BY <2>0, <3>3, <3>4
    <3>. QED
      BY <3>4, <3>5, <3>6, <3>7
  <2>2. CASE ReadPipe(p)
    <3>. DEFINE q == <<p[1], p[2] - 1>>
    <3>1. Head(buffer[q]) \in Char /\ Tail(buffer[q]) \in Seq(Char)
      BY <2>0, <2>2, ReadPipeFacts, HeadOfSequence
    <3>2. <<Head(buffer[q])>> \in Seq(Char) /\ Len(<<Head(buffer[q])>>) = 1
      BY <3>1
    <3>3. \A j \in Jobs : j > job => j # q[1]
      BY <2>0 DEF Jobs, Descriptors, Counters
    <3>4. /\ life[p] = "running" /\ q \in Child /\ q[1] = p[1]
          /\ char' = [char EXCEPT ![p] = <<Head(buffer[q])>>]
          /\ buffer' = [buffer EXCEPT ![q] = Tail(buffer[q])]
          /\ UNCHANGED <<job, life, unread, typed, written>>
      BY <2>2, ReadPipeFacts
    <3>5. \A j \in Jobs, i \in 1 .. Longest : j > job => buffer'[<<j, i>>] = buffer[<<j, i>>]
      BY <3>3, <3>4 DEF Child
    <3>. HIDE DEF q
    <3>. QED
      BY <2>0, <3>1, <3>2, <3>4, <3>5
  <2>3. CASE Write(p)
    <3>. DEFINE out == Copies(Head(char[p]))
    <3>1. out \in Seq(Char)
      BY <2>3, WriteFacts, CopiesAreCopies, HeadOfSequence
    <3>2. \A j \in Jobs : j > job => j # p[1]
      BY <2>0 DEF Jobs, Descriptors, Counters
    <3>3. /\ char' = [char EXCEPT ![p] = <<>>] /\ UNCHANGED <<job, life, unread, typed>>
          /\ buffer' \in {buffer, [buffer EXCEPT ![p] = buffer[p] \o out]}
          /\ written' \in {written, [written EXCEPT ![p[1]] = written[p[1]] \o out]}
      BY <2>3, WriteFacts
    <3>. HIDE DEF out
    <3>4. buffer[p] \o out \in Seq(Char) /\ written[p[1]] \o out \in Seq(Char) /\ <<>> \in Seq(Char) /\ Len(<<>>) = 0
      BY <2>0, <3>1
    <3>5. \A j \in Jobs, i \in 1 .. Longest : j > job => buffer'[<<j, i>>] = buffer[<<j, i>>]
      BY <2>0, <3>2, <3>3 DEF Child
    <3>6. /\ char' \in [Child -> Seq(Char)] /\ buffer' \in [Child -> Seq(Char)]
          /\ written' \in [Jobs -> Seq(Char)]
      <4>1. char' \in [Child -> Seq(Char)]
        BY <3>3, <3>4
      <4>2. buffer' \in [Child -> Seq(Char)]
        BY <3>3, <3>4
      <4>3. written' \in [Jobs -> Seq(Char)]
        BY <3>3, <3>4
      <4>. QED
        BY <4>1, <4>2, <4>3
    <3>7. \A q \in Child : Len(char'[q]) <= 1 /\ (life'[q] # "running" => char'[q] = <<>>)
      BY <3>3, <3>4
    <3>8. \A j \in Jobs : j > job => written'[j] = written[j]
      BY <2>0, <3>2, <3>3
    <3>. QED
      BY <3>3, <3>5, <3>6, <3>7, <3>8
  <2>5. ASSUME NEW c \in Char, ReadTyped(p, c) PROVE Contents'
    <3>1. /\ life[p] = "running" /\ char' = [char EXCEPT ![p] = <<c>>]
          /\ typed' = [typed EXCEPT ![p[1]] = Append(typed[p[1]], c)]
          /\ UNCHANGED <<job, life, buffer, unread, written>>
      BY <2>5, ReadTypedFacts
    <3>2. <<c>> \in Seq(Char) /\ Len(<<c>>) = 1 /\ Append(typed[p[1]], c) \in Seq(Char)
      BY <2>0
    <3>3. \A j \in Jobs : j > job => j # p[1]
      BY <2>0 DEF Jobs, Descriptors, Counters
    <3>4. char' \in [Child -> Seq(Char)] /\ typed' \in [Jobs -> Seq(Char)]
      BY <2>0, <3>1, <3>2
    <3>5. \A q \in Child : Len(char'[q]) <= 1 /\ (life'[q] # "running" => char'[q] = <<>>)
      BY <3>1, <3>2
    <3>6. \A j \in Jobs : j > job => typed'[j] = typed[j]
      BY <2>0, <3>1, <3>3
    <3>. QED
      BY <3>1, <3>4, <3>5, <3>6
  <2>4. CASE ~ReadFile(p) /\ ~ReadPipe(p) /\ ~Types(p) /\ ~Write(p)
    <3>1. <<>> \in Seq(Char) /\ Len(<<>>) = 0
      OBVIOUS
    <3>2. UNCHANGED <<phase, cmd, job, forked, buffer, unread, typed, written>>
      BY <1>4, <2>4, OtherFacts
    <3>3. CASE UNCHANGED char /\ life[p] \in {"forked", "redirected"}
               /\ \E l \in {"redirected", "running", "failed"} : life' = [life EXCEPT ![p] = l]
      <4>1. \A q \in Child : life'[q] # "running" => char[q] = <<>>
        BY <3>3 DEF Descriptors, PipelineTypeOK
      <4>. QED
        BY <3>2, <3>3, <4>1
    <3>4. CASE char' = [char EXCEPT ![p] = <<>>]
               /\ \E l \in {"failed", "done"} : life' = [life EXCEPT ![p] = l]
      <4>1. char' \in [Child -> Seq(Char)]
        BY <3>1, <3>4
      <4>2. \A q \in Child : Len(char'[q]) <= 1 /\ (life'[q] # "running" => char'[q] = <<>>)
        BY <3>1, <3>4 DEF Descriptors, PipelineTypeOK
      <4>. QED
        BY <3>2, <4>1, <4>2
    <3>. QED
      BY <1>4, <2>4, <3>3, <3>4, OtherFacts
  <2>. QED
    BY <2>1, <2>2, <2>3, <2>4, <2>5 DEF Types
<1>5. CASE UNCHANGED pipelineVars
  BY <1>5 DEF pipelineVars
<1>. QED
  BY <1>1, <1>2, <1>3, <1>4, <1>5 DEF Next, PipelineNext, ShellStep, vars

\* A command whose pipe has ended: its writer is gone.
LEMMA WriterGone ==
  ASSUME FlowInv, NEW p \in Child, ReadEnd(p) \/ EndTyped(p)
  PROVE  /\ p[2] = 1 /\ cmd[p[1]].input = "opens" => unread[p[1]] = <<>>
         /\ p[2] > 1 => /\ life[<<p[1], p[2] - 1>>] \in {"done", "failed"}
                        /\ buffer[<<p[1], p[2] - 1>>] = <<>>
<1>. USE DEF FlowInv, Descriptors
<1>. DEFINE j == p[1]  q == <<p[1], p[2] - 1>>
<1>0. p = <<p[1], p[2]>> /\ j \in Jobs /\ p[2] \in 1 .. Longest /\ Longest \in Nat
  BY ShellIsNoChild, PipelineAssumption
<1>1. life[p] = "running" /\ (EndOfInput(std[p].in) \/ std[p].in = Tty) /\ std[p] = [in |-> Source(p), out |-> Sink(p)]
  <2>1. life[p] = "running" /\ (EndOfInput(std[p].in) \/ std[p].in = Tty)
    BY DEF ReadEnd, EndTyped
  <2>. QED
    BY <2>1 DEF ChildUses
<1>2. EndOfInput(Source(p)) \/ Source(p) = Tty
  BY <1>1
<1>3. ASSUME p[2] = 1, cmd[j].input = "opens" PROVE unread[j] = <<>>
  <2>1. Source(p) = <<"in", j>>
    BY <1>3 DEF Source, In
  <2>. QED
    BY <1>2, <2>1 DEF EndOfInput, Tty
<1>4. ASSUME p[2] > 1 PROVE life[q] \in {"done", "failed"} /\ buffer[q] = <<>>
  <2>1. q \in Child /\ q[1] = j /\ q[2] = p[2] - 1 /\ p[2] <= cmd[j].size /\ life[q] # "none"
    BY <1>0, <1>1, <1>4 DEF Child, InOrder
  <2>2. cmd[j].size \in Nat
    <3>1. cmd[j] \in Command \cup {NoCommand}
      BY <1>0 DEF Counters
    <3>. QED
      BY <1>0, <3>1 DEF Command, NoCommand
  <2>3. Source(p) = <<"r", j, p[2] - 1>>
    BY <1>4 DEF Source, R
  <2>4. buffer[q] = <<>> /\ ~IsOpen(W(j, p[2] - 1))
    BY <1>2, <2>3 DEF EndOfInput, Tty, Pipe
  <2>5. q[2] < cmd[j].size
    BY <1>0, <2>1, <2>2
  <2>6. life[q] # "forked"
    BY <2>1, <2>4, <2>5 DEF IsOpen, Holds, ChildUses
  <2>7. life[q] \notin {"redirected", "running"}
    <3>. SUFFICES ASSUME life[q] \in {"redirected", "running"} PROVE FALSE
      OBVIOUS
    <3>1. std[q] = [in |-> Source(q), out |-> Sink(q)]
      BY <2>1 DEF ChildUses
    <3>2. Sink(q) = W(j, p[2] - 1)
      BY <2>1, <2>5 DEF Sink
    <3>. QED
      BY <2>1, <2>4, <3>1, <3>2 DEF IsOpen, Holds
  <2>. QED
    BY <2>1, <2>4, <2>6, <2>7 DEF PipelineTypeOK
<1>. QED
  BY <1>3, <1>4

LEMMA EndsStep == FlowInv /\ [Next]_vars => Ends'
<1>. SUFFICES ASSUME FlowInv, [Next]_vars PROVE Ends'
  OBVIOUS
<1>. USE DEF FlowInv, Ends
<1>0. \A q \in Child : /\ q = <<q[1], q[2]>> /\ q[1] \in Jobs
                       /\ q[2] > 1 => <<q[1], q[2] - 1>> \in Child
  BY ShellIsNoChild, PipelineAssumption DEF Child
<1>1. ASSUME NEW c \in Typed, CreateJob(c) PROVE Ends'
  <2>1. UNCHANGED <<life, buffer, unread>> /\ job \in Nat /\ \A j \in 1 .. job : cmd'[j] = cmd[j]
    BY <1>1, Typing DEF Descriptors
  <2>2. ASSUME NEW p \in Child, life[p] = "done" PROVE cmd'[p[1]] = cmd[p[1]]
    <3>1. p[1] \in Jobs /\ p[1] <= job
      BY <2>2, ShellIsNoChild DEF InOrder
    <3>. QED
      BY <2>1, <3>1 DEF Jobs
  <2>. QED
    BY <2>1, <2>2
<1>2. CASE Fork
  <2>. DEFINE p == <<job, forked + 1>>
  <2>1. UNCHANGED <<cmd, buffer, unread>> /\ life' = [life EXCEPT ![p] = "forked"]
        /\ phase = "fork" /\ forked < cmd[job].size
    BY <1>2 DEF Fork
  <2>2. p \in Child /\ life[p] = "none"
    <3>1. forked \in Nat /\ cmd[job].size \in 1 .. Longest /\ job \in Jobs /\ Longest \in Nat
      BY <2>1, PipelineAssumption DEF Descriptors, Counters, Command
    <3>2. forked + 1 \in 1 .. Longest /\ ~(forked + 1 <= forked)
      BY <2>1, <3>1
    <3>. QED
      BY <2>1, <3>1, <3>2 DEF InOrder, Child
  <2>3. \A q \in Child : q # p => life'[q] = life[q]
    BY <2>1
  <2>4. life'[p] = "forked"
    BY <2>1, <2>2 DEF Descriptors, PipelineTypeOK
  <2>. HIDE DEF p
  <2>. QED
    BY <1>0, <2>1, <2>2, <2>3, <2>4
<1>3. CASE ForkFails \/ EndOfForks \/ EndOfWait
  BY <1>3 DEF ForkFails, EndOfForks, EndOfWait
<1>4. ASSUME NEW p \in Child, ChildStep(p) PROVE Ends'
  <2>0. /\ \A q \in Child : q # p => life'[q] = life[q]
        /\ life[p] \in {"forked", "redirected", "running"} /\ cmd' = cmd
    BY <1>4, ChildStepIsLocal, ChildLives DEF Descriptors
  <2>1. CASE ReadFile(p)
    <3>1. UNCHANGED <<life, buffer>> /\ p[2] = 1 /\ unread' = [unread EXCEPT ![p[1]] = Tail(unread[p[1]])]
      BY <2>1, ReadFileFacts
    <3>2. ASSUME NEW q \in Child, life[q] = "done", q[2] = 1 PROVE unread'[q[1]] = unread[q[1]]
      <4>1. q # p /\ q = <<q[1], 1>> /\ p = <<p[1], 1>>
        BY <1>0, <2>0, <3>1, <3>2
      <4>. QED
        BY <1>0, <3>1, <4>1 DEF Contents
    <3>. QED
      BY <2>0, <3>1, <3>2
  <2>2. CASE ReadPipe(p)
    <3>. DEFINE r == <<p[1], p[2] - 1>>
    <3>1. UNCHANGED <<life, unread>> /\ p[2] > 1 /\ buffer' = [buffer EXCEPT ![r] = Tail(buffer[r])]
      BY <2>2, ReadPipeFacts
    <3>2. ASSUME NEW q \in Child, life[q] = "done", q[2] > 1
          PROVE  buffer'[<<q[1], q[2] - 1>>] = buffer[<<q[1], q[2] - 1>>]
      <4>1. q # p
        BY <2>0, <3>2
      <4>2. q = <<q[1], q[2]>> /\ p = <<p[1], p[2]>> /\ q[2] \in Int /\ p[2] \in Int
        BY ShellIsNoChild, PipelineAssumption
      <4>3. <<q[1], q[2] - 1>> # r
        BY <4>1, <4>2
      <4>. HIDE DEF r
      <4>. QED
        BY <1>0, <3>1, <3>2, <4>3 DEF Contents
    <3>. QED
      BY <2>0, <3>1, <3>2
  <2>3. CASE Write(p)
    <3>0. PICK s : UNCHANGED <<life, unread>> /\ (buffer' = [buffer EXCEPT ![p] = s] \/ buffer' = buffer)
      BY <2>3, WriteFacts
    <3>3. buffer \in [Child -> Seq(Char)]
      BY DEF Contents
    <3>1. UNCHANGED <<life, unread>> /\ \A q \in Child : q # p => buffer'[q] = buffer[q]
      BY <3>0, <3>3
    <3>2. ASSUME NEW q \in Child, life[q] = "done", q[2] > 1
          PROVE  buffer'[<<q[1], q[2] - 1>>] = buffer[<<q[1], q[2] - 1>>]
      BY <1>0, <2>0, <3>1, <3>2
    <3>. QED
      BY <2>0, <3>1, <3>2
  <2>5. CASE Types(p)
    <3>1. PICK c \in Char : ReadTyped(p, c)
      BY <2>5 DEF Types
    <3>2. UNCHANGED <<life, buffer, unread>>
      BY <3>1, ReadTypedFacts
    <3>. QED
      BY <2>0, <3>2
  <2>4. CASE ~ReadFile(p) /\ ~ReadPipe(p) /\ ~Types(p) /\ ~Write(p)
    <3>1. UNCHANGED <<buffer, unread>>
      BY <1>4, <2>4, OtherFacts
    <3>2. ASSUME NEW q \in Child, life'[q] = "done"
          PROVE  /\ q[2] = 1 /\ cmd[q[1]].input = "opens" => unread[q[1]] = <<>>
                 /\ q[2] > 1 => /\ life[<<q[1], q[2] - 1>>] \in {"done", "failed"}
                                /\ buffer[<<q[1], q[2] - 1>>] = <<>>
      <4>1. CASE q # p
        BY <2>0, <3>2, <4>1
      <4>2. CASE q = p
        <5>1. ReadEnd(p) \/ EndTyped(p)
          BY <1>4, <2>4, <3>2, <4>2, OtherFacts DEF Descriptors, PipelineTypeOK
        <5>. QED
          BY <4>2, <5>1, WriterGone
      <4>. QED
        BY <4>1, <4>2
    <3>3. \A r \in Child : life[r] \in {"done", "failed"} => life'[r] = life[r]
      BY <2>0
    <3>. QED
      BY <1>0, <2>0, <3>1, <3>2, <3>3
  <2>. QED
    BY <2>1, <2>2, <2>3, <2>4, <2>5
<1>5. CASE UNCHANGED pipelineVars
  BY <1>5 DEF pipelineVars
<1>. QED
  BY <1>1, <1>2, <1>3, <1>4, <1>5 DEF Next, PipelineNext, ShellStep, vars

-------------------------------------------------------------------------------
\* What does not touch a pipeline leaves its streams.
LEMMA FlowKept ==
  ASSUME NEW j, NEW got, NEW passed, Flow(j, got, passed),
         cmd'[j] = cmd[j], unread'[j] = unread[j], typed'[j] = typed[j], written'[j] = written[j],
         \A i \in 1 .. Longest :
           /\ char'[<<j, i>>] = char[<<j, i>>] /\ buffer'[<<j, i>>] = buffer[<<j, i>>]
           /\ life'[<<j, i>>] # "failed" => life[<<j, i>>] # "failed"
  PROVE  Flow(j, got, passed)'
BY DEF Flow, Rest, Given

\* Nothing has been read when a pipeline is typed.
LEMMA NewFlow ==
  ASSUME FlowInv, NEW c \in Typed, CreateJob(c), NEW j, j = job + 1
  PROVE  \E got, passed : Flow(j, got, passed)'
<1>. DEFINE none == [i \in 1 .. Longest |-> <<>>]
<1>1. /\ j \in Jobs /\ job \in Nat /\ cmd'[j] = c /\ c.size \in 1 .. Longest
      /\ UNCHANGED <<life, char, buffer, unread, typed, written>>
  BY Typing DEF FlowInv, Descriptors
<1>2. unread[j] = Input /\ typed[j] = <<>> /\ written[j] = <<>> /\ \A i \in 1 .. Longest : buffer[<<j, i>>] = <<>>
  <2>1. j > job
    BY <1>1
  <2>2. Contents
    BY DEF FlowInv
  <2>. QED
    BY <1>1, <2>1, <2>2 DEF Contents
<1>3. ASSUME NEW i \in 1 .. Longest PROVE char[<<j, i>>] = <<>>
  <2>1. <<j, i>> \in Child /\ (<<j, i>>)[1] = j /\ ~(j <= job)
    BY <1>1 DEF Child
  <2>2. life[<<j, i>>] = "none"
    BY <2>1 DEF FlowInv, InOrder
  <2>. QED
    BY <2>1, <2>2 DEF FlowInv, Contents
<1>4. <<>> \in Seq(Char) /\ <<>> \o <<>> = <<>> /\ Input \in Seq(Char) /\ <<>> \o Input = Input
      /\ Count \in Nat /\ Longest \in Nat \ {0}
  BY PipelineAssumption
<1>5. Repeated(<<>>, Count) = <<>>
  BY <1>4, RepeatedEmpty
<1>6. /\ none \in [1 .. Longest -> Seq(Char)] /\ none[1] = <<>> /\ \A i \in 1 .. Longest : none[i] = <<>>
      /\ \A i \in 1 .. Longest : i < c.size => none[i + 1] = <<>>
  BY <1>1, <1>4
<1>7. written'[j] = IF cmd'[j].output = "opens" THEN Repeated(none[cmd'[j].size], Count) ELSE <<>>
  BY <1>1, <1>2, <1>5, <1>6
<1>8. \A i \in 1 .. Longest : i < cmd'[j].size =>
        Repeated(none[i], Count) = none[i + 1] \o buffer'[<<j, i>>]
  BY <1>1, <1>2, <1>4, <1>5, <1>6
<1>9. none[1] \o Rest(j)' = Given(j)'
  BY <1>1, <1>2, <1>4, <1>6 DEF Rest, Given
<1>. HIDE DEF none
<1>10. \A i \in 1 .. Longest :
         /\ life'[<<j, i>>] # "failed" => none[i] = none[i] \o char'[<<j, i>>]
         /\ \E rest \in Seq(Char) : none[i] = none[i] \o rest
  <2>1. \A i \in 1 .. Longest : char'[<<j, i>>] = <<>> /\ none[i] = none[i] \o <<>>
    BY <1>1, <1>3, <1>4, <1>6
  <2>. QED
    BY <1>4, <2>1
<1>11. Flow(j, none, none)'
  BY <1>6, <1>7, <1>8, <1>9, <1>10 DEF Flow
<1>. QED
  BY <1>11

\* The head of what comes joins what came.
LEMMA TakeHead ==
  ASSUME NEW a \in Seq(Char), NEW b \in Seq(Char), b # <<>>
  PROVE  /\ Head(b) \in Char /\ Tail(b) \in Seq(Char)
         /\ a \o <<Head(b)>> \in Seq(Char) /\ (a \o <<Head(b)>>) \o Tail(b) = a \o b
<1>1. Head(b) \in Char /\ Tail(b) \in Seq(Char) /\ b = <<Head(b)>> \o Tail(b)
  BY HeadOfSequence
<1>. DEFINE h == <<Head(b)>>
<1>2. h \in Seq(Char)
  BY <1>1
<1>. HIDE DEF h
<1>3. (a \o h) \o Tail(b) = a \o (h \o Tail(b))
  BY <1>1, <1>2, Associative
<1>4. h \o Tail(b) = b
  BY <1>1 DEF h
<1>5. a \o h \in Seq(Char)
  BY <1>2, ConcatProperties
<1>. QED
  BY <1>1, <1>3, <1>4, <1>5 DEF h

\* Command k of pipeline j holds the character c, which joins what it has read.
Takes(p, c) == char' = [char EXCEPT ![p] = <<c>>]
Joins(g, got, k, c) == g = [got EXCEPT ![k] = got[k] \o <<c>>]
OneMoreRead(p, got, g, passed, c) ==
  /\ g \in [1 .. Longest -> Seq(Char)] /\ g[p[2]] = got[p[2]] \o <<c>>
  /\ \A i \in 1 .. Longest : i # p[2] => g[i] = got[i]
  /\ \A i \in 1 .. Longest :
       /\ life'[<<p[1], i>>] # "failed" => g[i] = passed[i] \o char'[<<p[1], i>>]
       /\ \E rest \in Seq(Char) : g[i] = passed[i] \o rest

\* A command reads a character: it has that much more to pass on.
LEMMA OneMore ==
  ASSUME FlowInv, NEW p \in Child, NEW got, NEW passed, Flow(p[1], got, passed), NEW c \in Char,
         life[p] = "running", char[p] = <<>>, Takes(p, c), life' = life, NEW g, Joins(g, got, p[2], c)
  PROVE  OneMoreRead(p, got, g, passed, c)
<1>0. PICK j \in Jobs, k \in 1 .. Longest : p = <<j, k>> /\ j = p[1] /\ k = p[2]
  BY ShellIsNoChild
<1>. DEFINE h == <<c>>
<1>1. h \in Seq(Char) /\ g = [got EXCEPT ![k] = got[k] \o h]
  BY <1>0 DEF Joins
<1>. HIDE DEF h
<1>2. got \in [1 .. Longest -> Seq(Char)] /\ passed \in [1 .. Longest -> Seq(Char)] /\ char \in [Child -> Seq(Char)]
  BY DEF Flow, FlowInv, Contents
<1>3. got[k] = passed[k]
  <2>1. got[k] = passed[k] \o <<>>
    BY <1>0 DEF Flow
  <2>. QED
    BY <1>2, <2>1
<1>4. g \in [1 .. Longest -> Seq(Char)] /\ g[k] = got[k] \o h /\ \A i \in 1 .. Longest : i # k => g[i] = got[i]
  <2>1. got[k] \o h \in Seq(Char)
    BY <1>1, <1>2
  <2>. QED
    BY <1>1, <1>2, <2>1
<1>5. \A i \in 1 .. Longest : char'[<<j, i>>] = IF i = k THEN h ELSE char[<<j, i>>]
  BY <1>0, <1>2 DEF Child, h, Takes
<1>6. ASSUME NEW i \in 1 .. Longest
      PROVE  /\ life'[<<j, i>>] # "failed" => g[i] = passed[i] \o char'[<<j, i>>]
             /\ \E rest \in Seq(Char) : g[i] = passed[i] \o rest
  <2>1. CASE i = k
    BY <1>1, <1>3, <1>4, <1>5, <2>1
  <2>2. CASE i # k
    <3>1. g[i] = got[i] /\ char'[<<j, i>>] = char[<<j, i>>]
      BY <1>4, <1>5, <2>2
    <3>2. /\ life[<<j, i>>] # "failed" => got[i] = passed[i] \o char[<<j, i>>]
          /\ \E rest \in Seq(Char) : got[i] = passed[i] \o rest
      BY <1>0 DEF Flow
    <3>. QED
      BY <3>1, <3>2
  <2>. QED
    BY <2>1, <2>2
<1>. QED
  BY <1>0, <1>4, <1>6 DEF h, OneMoreRead

\* The first command reads a character of the file.
LEMMA FileFlow ==
  ASSUME FlowInv, NEW p \in Child, ReadFile(p), NEW got, NEW passed, Flow(p[1], got, passed)
  PROVE  \E g : Flow(p[1], g, passed)'
<1>. DEFINE j == p[1]
<1>0. PICK c : c = Head(unread[j])
  OBVIOUS
<1>1. /\ p = <<j, 1>> /\ char[p] = <<>> /\ life[p] = "running"
      /\ char' = [char EXCEPT ![p] = <<c>>] /\ unread' = [unread EXCEPT ![j] = Tail(unread[j])]
      /\ UNCHANGED <<cmd, life, buffer, typed, written>> /\ unread[j] # <<>>
      /\ cmd[j].input = "opens"
  BY <1>0, ReadFileFacts, ShellIsNoChild
<1>2. /\ unread[j] \in Seq(Char) /\ char \in [Child -> Seq(Char)] /\ j \in Jobs /\ unread \in [Jobs -> Seq(Char)]
      /\ 1 \in 1 .. Longest /\ Longest \in Nat
  BY ShellIsNoChild, PipelineAssumption DEF FlowInv, Contents
<1>3. got \in [1 .. Longest -> Seq(Char)] /\ passed \in [1 .. Longest -> Seq(Char)]
  BY DEF Flow
<1>4. c \in Char /\ (got[1] \o <<c>>) \o Tail(unread[j]) = got[1] \o unread[j]
  BY <1>0, <1>1, <1>2, <1>3, TakeHead
<1>10. PICK g : Joins(g, got, 1, c)
  BY DEF Joins
<1>5. /\ g \in [1 .. Longest -> Seq(Char)] /\ g[1] = got[1] \o <<c>>
      /\ \A i \in 1 .. Longest : i # 1 => g[i] = got[i]
      /\ \A i \in 1 .. Longest :
           /\ life'[<<j, i>>] # "failed" => g[i] = passed[i] \o char'[<<j, i>>]
           /\ \E rest \in Seq(Char) : g[i] = passed[i] \o rest
  <2>0. Takes(p, c)
    BY <1>1, Zenon DEF Takes
  <2>1. Takes(p, c) /\ p[2] = 1
    <3>1. \A x : (<<x, 1>>)[2] = 1
      OBVIOUS
    <3>2. p[2] = (<<j, 1>>)[2]
      BY <1>1, Zenon
    <3>. QED
      BY <2>0, <3>1, <3>2
  <2>2. Joins(g, got, p[2], c)
    BY <1>10, <2>1, Zenon
  <2>3. OneMoreRead(p, got, g, passed, c)
    BY <1>1, <1>4, <2>1, <2>2, OneMore, Zenon
  <2>. QED
    BY <2>1, <2>3, Zenon DEF OneMoreRead
<1>6. unread'[j] = Tail(unread[j])
  BY <1>1, <1>2
<1>7. g[1] \o Rest(j)' = Given(j)'
  <2>1. Rest(j) = unread[j] /\ Rest(j)' = unread'[j] /\ Given(j)' = Given(j)
    BY <1>1 DEF Rest, Given
  <2>2. got[1] \o Rest(j) = Given(j)
    BY DEF Flow
  <2>. QED
    BY <1>4, <1>5, <1>6, <2>1, <2>2, Zenon
<1>8. ASSUME NEW i \in 1 .. Longest, i < cmd[j].size PROVE g[i + 1] = got[i + 1]
  <2>1. cmd[j].size <= Longest /\ cmd[j].size \in Nat
    BY <1>2, SizeType DEF FlowInv, Descriptors
  <2>2. i + 1 \in 1 .. Longest /\ i + 1 # 1
    BY <1>2, <1>8, <2>1
  <2>. QED
    BY <1>5, <2>2, Zenon
<1>9. Flow(j, g, passed)'
  BY <1>1, <1>3, <1>5, <1>7, <1>8 DEF Flow
<1>. QED
  BY <1>9

\* The first command reads a character that is typed.
LEMMA TypedFlow ==
  ASSUME FlowInv, NEW p \in Child, Types(p), NEW got, NEW passed, Flow(p[1], got, passed)
  PROVE  \E g : Flow(p[1], g, passed)'
<1>. DEFINE j == p[1]
<1>0. PICK c \in Char : ReadTyped(p, c)
  BY DEF Types
<1>1. /\ p[2] = 1 /\ char[p] = <<>> /\ life[p] = "running" /\ cmd[j].input # "opens"
      /\ char' = [char EXCEPT ![p] = <<c>>] /\ typed' = [typed EXCEPT ![j] = Append(typed[j], c)]
      /\ UNCHANGED <<cmd, life, buffer, unread, written>>
  BY <1>0, ReadTypedFacts
<1>2. /\ typed[j] \in Seq(Char) /\ j \in Jobs /\ typed \in [Jobs -> Seq(Char)]
      /\ 1 \in 1 .. Longest /\ Longest \in Nat
  BY ShellIsNoChild, PipelineAssumption DEF FlowInv, Contents
<1>3. got \in [1 .. Longest -> Seq(Char)] /\ passed \in [1 .. Longest -> Seq(Char)] /\ got[1] \in Seq(Char)
  BY <1>2 DEF Flow
<1>4. PICK g : Joins(g, got, 1, c)
  BY DEF Joins
<1>5. /\ g \in [1 .. Longest -> Seq(Char)] /\ g[1] = got[1] \o <<c>>
      /\ \A i \in 1 .. Longest : i # 1 => g[i] = got[i]
      /\ \A i \in 1 .. Longest :
           /\ life'[<<j, i>>] # "failed" => g[i] = passed[i] \o char'[<<j, i>>]
           /\ \E rest \in Seq(Char) : g[i] = passed[i] \o rest
  <2>1. Takes(p, c) /\ Joins(g, got, p[2], c)
    BY <1>1, <1>4, Zenon DEF Takes
  <2>2. OneMoreRead(p, got, g, passed, c)
    BY <1>1, <2>1, OneMore, Zenon
  <2>. QED
    BY <1>1, <2>2, Zenon DEF OneMoreRead
<1>6. g[1] \o Rest(j)' = Given(j)'
  <2>1. Rest(j) = <<>> /\ Rest(j)' = <<>> /\ Given(j) = typed[j] /\ Given(j)' = typed'[j]
    BY <1>1 DEF Rest, Given
  <2>2. got[1] \o <<>> = typed[j]
    BY <2>1 DEF Flow
  <2>3. got[1] = typed[j]
    BY <1>3, <2>2
  <2>4. typed'[j] = typed[j] \o <<c>> /\ typed'[j] \in Seq(Char)
    BY <1>1, <1>2
  <2>5. typed'[j] \o <<>> = typed'[j]
    BY <2>4
  <2>. QED
    BY <1>5, <2>1, <2>3, <2>4, <2>5, Zenon
<1>7. ASSUME NEW i \in 1 .. Longest, i < cmd[j].size PROVE g[i + 1] = got[i + 1]
  <2>1. cmd[j].size <= Longest /\ cmd[j].size \in Nat
    BY <1>2, SizeType DEF FlowInv, Descriptors
  <2>2. i + 1 \in 1 .. Longest /\ i + 1 # 1
    BY <1>2, <1>7, <2>1
  <2>. QED
    BY <1>5, <2>2, Zenon
<1>8. Flow(j, g, passed)'
  BY <1>1, <1>3, <1>5, <1>6, <1>7 DEF Flow
<1>. QED
  BY <1>8

\* A command reads a character of its pipe.
LEMMA PipeFlow ==
  ASSUME FlowInv, NEW p \in Child, ReadPipe(p), NEW got, NEW passed, Flow(p[1], got, passed)
  PROVE  \E g : Flow(p[1], g, passed)'
<1>. DEFINE j == p[1]  k == p[2]  q == <<j, k - 1>>
<1>0. PICK c : c = Head(buffer[q])
  OBVIOUS
<1>1. /\ p = <<j, k>> /\ k > 1 /\ q \in Child /\ char[p] = <<>> /\ life[p] = "running"
      /\ char' = [char EXCEPT ![p] = <<c>>] /\ buffer' = [buffer EXCEPT ![q] = Tail(buffer[q])]
      /\ UNCHANGED <<cmd, life, unread, typed, written>> /\ buffer[q] # <<>>
  BY <1>0, ReadPipeFacts, ShellIsNoChild
<1>2. /\ buffer[q] \in Seq(Char) /\ char \in [Child -> Seq(Char)] /\ j \in Jobs /\ buffer \in [Child -> Seq(Char)]
      /\ k \in 1 .. Longest /\ Longest \in Nat \ {0}
  BY <1>1, ShellIsNoChild, PipelineAssumption DEF FlowInv, Contents
<1>3. got \in [1 .. Longest -> Seq(Char)] /\ passed \in [1 .. Longest -> Seq(Char)]
  BY DEF Flow
<1>4. c \in Char /\ (got[k] \o <<c>>) \o Tail(buffer[q]) = got[k] \o buffer[q]
  BY <1>0, <1>1, <1>2, <1>3, TakeHead
<1>10. PICK g : Joins(g, got, k, c)
  BY DEF Joins
<1>5. /\ g \in [1 .. Longest -> Seq(Char)] /\ g[k] = got[k] \o <<c>>
      /\ \A i \in 1 .. Longest : i # k => g[i] = got[i]
      /\ \A i \in 1 .. Longest :
           /\ life'[<<j, i>>] # "failed" => g[i] = passed[i] \o char'[<<j, i>>]
           /\ \E rest \in Seq(Char) : g[i] = passed[i] \o rest
  <2>1. Takes(p, c) /\ p[2] = k
    BY <1>1, Zenon DEF Takes
  <2>2. Joins(g, got, p[2], c)
    BY <1>10, <2>1, Zenon
  <2>3. OneMoreRead(p, got, g, passed, c)
    BY <1>1, <1>4, <2>1, <2>2, OneMore, Zenon
  <2>. QED
    BY <2>1, <2>3, Zenon DEF OneMoreRead
<1>6. buffer'[q] = Tail(buffer[q]) /\ \A i \in 1 .. Longest : i # k - 1 => buffer'[<<j, i>>] = buffer[<<j, i>>]
  BY <1>1, <1>2 DEF Child
<1>7. g[1] \o Rest(j)' = Given(j)'
  <2>1. 1 \in 1 .. Longest /\ 1 # k /\ Rest(j)' = Rest(j) /\ Given(j)' = Given(j)
    BY <1>1, <1>2 DEF Rest, Given
  <2>2. g[1] = got[1]
    BY <1>5, <2>1, Zenon
  <2>. QED
    BY <2>1, <2>2 DEF Flow
<1>8. ASSUME NEW i \in 1 .. Longest, i < cmd[j].size
      PROVE  Repeated(passed[i], Count) = g[i + 1] \o buffer'[<<j, i>>]
  <2>0. Repeated(passed[i], Count) = got[i + 1] \o buffer[<<j, i>>]
    BY <1>8 DEF Flow
  <2>1. CASE i + 1 = k
    <3>1. <<j, i>> = q
      BY <1>8, <2>1
    <3>. HIDE DEF q
    <3>. QED
      BY <1>4, <1>5, <1>6, <2>0, <2>1, <3>1
  <2>2. CASE i + 1 # k
    <3>1. cmd[j].size <= Longest /\ cmd[j].size \in Nat
      BY <1>2, SizeType DEF FlowInv, Descriptors
    <3>2. i + 1 \in 1 .. Longest /\ i # k - 1
      BY <1>2, <1>8, <2>2, <3>1
    <3>. QED
      BY <1>5, <1>6, <2>0, <2>2, <3>2
  <2>. QED
    BY <2>1, <2>2
<1>9. Flow(j, g, passed)'
  BY <1>1, <1>3, <1>5, <1>7, <1>8 DEF Flow
<1>. QED
  BY <1>9

LEMMA OneCharacter ==
  ASSUME NEW s \in Seq(Char), s # <<>>, Len(s) <= 1
  PROVE  Head(s) \in Char /\ s = <<Head(s)>>
<1>1. Len(s) = 1 /\ Head(s) = s[1] /\ s[1] \in Char
  OBVIOUS
<1>2. Len(<<s[1]>>) = 1 /\ <<s[1]>>[1] = s[1] /\ <<s[1]>> \in Seq(Char)
  BY <1>1
<1>3. s = <<s[1]>>
  BY <1>1, <1>2, SeqEqual
<1>. QED
  BY <1>1, <1>3

\* A command repeats the character it has read.
LEMMA WriteFlow ==
  ASSUME FlowInv, NEW p \in Child, Write(p), NEW got, NEW passed, Flow(p[1], got, passed)
  PROVE  \E h : Flow(p[1], got, h)'
<1>0. PICK j \in Jobs, k \in 1 .. Longest : p = <<j, k>> /\ j = p[1] /\ k = p[2]
  BY ShellIsNoChild
<1>1. PICK c : c = Head(char[p])
  OBVIOUS
<1>2. PICK out : out = Copies(c)
  OBVIOUS
<1>3. PICK size : size = cmd[j].size
  OBVIOUS
<1>4. /\ life[p] = "running" /\ char[p] # <<>> /\ k <= size
      /\ char' = [char EXCEPT ![p] = <<>>]
      /\ buffer' = IF k < size THEN [buffer EXCEPT ![p] = buffer[p] \o out] ELSE buffer
      /\ written' = IF k = size /\ cmd[j].output = "opens"
                    THEN [written EXCEPT ![j] = written[j] \o out] ELSE written
      /\ UNCHANGED <<cmd, life, unread, typed>>
  BY <1>0, <1>1, <1>2, <1>3, WriteFacts
<1>5. /\ char \in [Child -> Seq(Char)] /\ buffer \in [Child -> Seq(Char)] /\ written \in [Jobs -> Seq(Char)]
      /\ Len(char[p]) <= 1
  BY DEF FlowInv, Contents
<1>6. size \in Nat /\ size <= Longest /\ Longest \in Nat \ {0} /\ Count \in Nat
  BY <1>3, SizeType, PipelineAssumption DEF FlowInv, Descriptors
<1>7. c \in Char /\ char[p] = <<c>>
  <2>1. char[p] \in Seq(Char)
    BY <1>5
  <2>. QED
    BY <1>1, <1>4, <1>5, <2>1, OneCharacter
<1>8. out \in Seq(Char) /\ out = CopiesOf(c, Count)
  BY <1>2, <1>7, CopiesAreCopies
<1>9. got \in [1 .. Longest -> Seq(Char)] /\ passed \in [1 .. Longest -> Seq(Char)]
  BY <1>0 DEF Flow
<1>10. PICK h : h = [passed EXCEPT ![k] = Append(passed[k], c)]
  OBVIOUS
<1>11. /\ h \in [1 .. Longest -> Seq(Char)] /\ h[k] = Append(passed[k], c)
       /\ \A i \in 1 .. Longest : i # k => h[i] = passed[i]
  <2>1. Append(passed[k], c) \in Seq(Char)
    BY <1>7, <1>9
  <2>. QED
    BY <1>9, <1>10, <2>1
<1>12. Repeated(h[k], Count) = Repeated(passed[k], Count) \o out
  <2>1. passed[k] \in Seq(Char)
    BY <1>9
  <2>2. Repeated(Append(passed[k], c), Count) = Repeated(passed[k], Count) \o CopiesOf(c, Count)
    BY <1>6, <1>7, <2>1, RepeatedAppend
  <2>. QED
    BY <1>8, <1>11, <2>2, Zenon
<1>13. got[k] = h[k]
  <2>1. got[k] = passed[k] \o <<c>>
    BY <1>0, <1>4, <1>7 DEF Flow
  <2>. QED
    BY <1>7, <1>9, <1>11, <2>1
<1>14. \A i \in 1 .. Longest : char'[<<j, i>>] = IF i = k THEN <<>> ELSE char[<<j, i>>]
  BY <1>0, <1>4, <1>5 DEF Child
<1>15. ASSUME NEW i \in 1 .. Longest
       PROVE  /\ life'[<<j, i>>] # "failed" => got[i] = h[i] \o char'[<<j, i>>]
              /\ \E rest \in Seq(Char) : got[i] = h[i] \o rest
  <2>1. CASE i = k
    <3>1. h[k] = h[k] \o <<>> /\ <<>> \in Seq(Char)
      BY <1>11
    <3>. QED
      BY <1>13, <1>14, <2>1, <3>1
  <2>2. CASE i # k
    <3>1. h[i] = passed[i] /\ char'[<<j, i>>] = char[<<j, i>>] /\ life' = life
      BY <1>4, <1>11, <1>14, <2>2
    <3>2. /\ life[<<j, i>>] # "failed" => got[i] = passed[i] \o char[<<j, i>>]
          /\ \E rest \in Seq(Char) : got[i] = passed[i] \o rest
      BY <1>0 DEF Flow
    <3>. QED
      BY <3>1, <3>2
  <2>. QED
    BY <2>1, <2>2
<1>16. ASSUME NEW i \in 1 .. Longest, i < size
       PROVE  Repeated(h[i], Count) = got[i + 1] \o buffer'[<<j, i>>]
  <2>0. Repeated(passed[i], Count) = got[i + 1] \o buffer[<<j, i>>]
    BY <1>0, <1>3, <1>16 DEF Flow
  <2>1. CASE i = k
    <3>1. buffer[p] \in Seq(Char) /\ buffer'[p] = buffer[p] \o out
      <4>1. buffer' = [buffer EXCEPT ![p] = buffer[p] \o out]
        BY <1>4, <1>16, <2>1
      <4>. QED
        BY <1>5, <4>1
    <3>4. got[k + 1] \in Seq(Char)
      <4>1. k + 1 \in 1 .. Longest
        BY <1>6, <1>16, <2>1
      <4>. QED
        BY <1>9, <4>1
    <3>2. (got[k + 1] \o buffer[p]) \o out = got[k + 1] \o (buffer[p] \o out)
      <4>1. PICK a, b : a = got[k + 1] /\ b = buffer[p]
        OBVIOUS
      <4>2. a \in Seq(Char) /\ b \in Seq(Char)
        BY <3>1, <3>4, <4>1, Zenon
      <4>3. (a \o b) \o out = a \o (b \o out)
        BY <1>8, <4>2, Associative
      <4>. QED
        BY <4>1, <4>3, Zenon
    <3>. QED
      BY <1>0, <1>12, <2>0, <2>1, <3>1, <3>2, Zenon
  <2>2. CASE i # k
    <3>1. buffer'[<<j, i>>] = buffer[<<j, i>>]
      BY <1>0, <1>4, <1>5, <2>2 DEF Child
    <3>. QED
      BY <1>11, <2>0, <2>2, <3>1
  <2>. QED
    BY <2>1, <2>2
<1>17. written'[j] = IF cmd[j].output = "opens" THEN Repeated(h[size], Count) ELSE <<>>
  <2>0. written[j] = IF cmd[j].output = "opens" THEN Repeated(passed[size], Count) ELSE <<>>
    BY <1>0, <1>3 DEF Flow
  <2>1. CASE k = size /\ cmd[j].output = "opens"
    <3>1. written'[j] = written[j] \o out
      BY <1>0, <1>4, <1>5, <2>1
    <3>. QED
      BY <1>12, <2>0, <2>1, <3>1
  <2>2. CASE ~(k = size /\ cmd[j].output = "opens")
    <3>1. written'[j] = written[j]
      BY <1>4, <2>2
    <3>2. cmd[j].output = "opens" => h[size] = passed[size]
      BY <1>4, <1>6, <1>11, <2>2
    <3>. QED
      BY <2>0, <3>1, <3>2
  <2>. QED
    BY <2>1, <2>2
<1>18. Flow(j, got, h)'
  <2>1. got[1] \o Rest(j)' = Given(j)'
    <3>1. Rest(j)' = Rest(j) /\ Given(j)' = Given(j)
      BY <1>4 DEF Rest, Given
    <3>. QED
      BY <1>0, <3>1 DEF Flow
  <2>2. cmd' = cmd
    BY <1>4
  <2>. QED
    BY <1>3, <1>9, <1>11, <1>15, <1>16, <1>17, <2>1, <2>2 DEF Flow
<1>. QED
  BY <1>0, <1>18

\* A command that is replaced, or gone, passes nothing more.
LEMMA OtherFlow ==
  ASSUME FlowInv, NEW p \in Child, ChildStep(p), ~ReadFile(p), ~ReadPipe(p), ~Types(p), ~Write(p),
         NEW got, NEW passed, Flow(p[1], got, passed)
  PROVE  Flow(p[1], got, passed)'
<1>0. PICK j \in Jobs, k \in 1 .. Longest : p = <<j, k>> /\ j = p[1] /\ k = p[2]
  BY ShellIsNoChild
<1>1. UNCHANGED <<cmd, buffer, unread, typed, written>>
  BY OtherFacts
<1>2. /\ char \in [Child -> Seq(Char)] /\ DOMAIN life = Child
      /\ life[p] # "running" => char[p] = <<>>
  BY DEF FlowInv, Contents, Descriptors, PipelineTypeOK
<1>3. ASSUME NEW i \in 1 .. Longest, life'[<<j, i>>] # "failed"
      PROVE  char'[<<j, i>>] = char[<<j, i>>] /\ life[<<j, i>>] # "failed"
  <2>1. <<j, i>> \in Child
    BY DEF Child
  <2>2. CASE <<j, i>> # p
    <3>1. life'[<<j, i>>] = life[<<j, i>>]
      BY <2>1, <2>2, ChildStepIsLocal DEF FlowInv, Descriptors
    <3>2. char' = char \/ char' = [char EXCEPT ![p] = <<>>]
      BY OtherFacts
    <3>. QED
      BY <1>2, <1>3, <2>1, <2>2, <3>1, <3>2
  <2>3. CASE <<j, i>> = p
    <3>1. life[p] # "failed"
      BY ChildLives DEF FlowInv, Descriptors
    <3>2. CASE ReadEnd(p) \/ EndTyped(p)
      BY <1>2, <2>3, <3>1, <3>2 DEF ReadEnd, EndTyped, Gone
    <3>3. CASE ~(ReadEnd(p) \/ EndTyped(p))
      <4>1. char' = char
        BY <1>2, <1>3, <2>3, <3>3, OtherFacts
      <4>. QED
        BY <2>3, <3>1, <4>1
    <3>. QED
      BY <3>2, <3>3
  <2>. QED
    BY <2>2, <2>3
<1>. QED
  BY <1>0, <1>1, <1>3 DEF Flow, Rest, Given

\* A child's step is one in its own pipeline.
LEMMA OtherPipelines ==
  ASSUME FlowInv, NEW p \in Child, ChildStep(p), NEW j \in Jobs, j # p[1]
  PROVE  /\ unread'[j] = unread[j] /\ typed'[j] = typed[j] /\ written'[j] = written[j]
         /\ \A i \in 1 .. Longest :
              /\ char'[<<j, i>>] = char[<<j, i>>] /\ buffer'[<<j, i>>] = buffer[<<j, i>>]
              /\ life'[<<j, i>>] = life[<<j, i>>]
<1>0. PICK k \in 1 .. Longest : p = <<p[1], k>>
  BY ShellIsNoChild
<1>1. \A q \in Child : q # p => life'[q] = life[q]
  BY ChildStepIsLocal DEF FlowInv, Descriptors
<1>2. /\ char \in [Child -> Seq(Char)] /\ buffer \in [Child -> Seq(Char)]
      /\ unread \in [Jobs -> Seq(Char)] /\ typed \in [Jobs -> Seq(Char)] /\ written \in [Jobs -> Seq(Char)]
  BY DEF FlowInv, Contents
<1>3. \A i \in 1 .. Longest : <<j, i>> \in Child /\ (\A n : <<j, i>> # <<p[1], n>>) /\ <<j, i>> # p
  BY <1>0 DEF Child
<1>4. CASE ReadFile(p)
  BY <1>1, <1>2, <1>3, <1>4, ReadFileFacts
<1>5. CASE ReadPipe(p)
  <2>. DEFINE r == <<p[1], p[2] - 1>>
  <2>1. /\ UNCHANGED <<life, unread, typed, written>> /\ buffer' = [buffer EXCEPT ![r] = Tail(buffer[r])]
        /\ \E c : char' = [char EXCEPT ![p] = c]
    BY <1>5, ReadPipeFacts
  <2>2. \A i \in 1 .. Longest : <<j, i>> # r
    BY <1>3
  <2>. HIDE DEF r
  <2>3. PICK c : char' = [char EXCEPT ![p] = c]
    BY <2>1
  <2>4. \A i \in 1 .. Longest : char'[<<j, i>>] = char[<<j, i>>]
    BY <1>2, <1>3, <2>3
  <2>5. \A i \in 1 .. Longest : buffer'[<<j, i>>] = buffer[<<j, i>>]
    BY <1>2, <1>3, <2>1, <2>2
  <2>. QED
    BY <1>1, <1>3, <2>1, <2>4, <2>5
<1>6. CASE Write(p)
  <2>0. PICK out : out = Copies(Head(char[p]))
    OBVIOUS
  <2>1. /\ char' = [char EXCEPT ![p] = <<>>] /\ UNCHANGED <<life, unread, typed>>
        /\ buffer' = [buffer EXCEPT ![p] = buffer[p] \o out] \/ buffer' = buffer
        /\ written' = [written EXCEPT ![p[1]] = written[p[1]] \o out] \/ written' = written
    BY <1>6, <2>0, WriteFacts
  <2>2. written'[j] = written[j]
    BY <1>2, <2>1
  <2>3. \A i \in 1 .. Longest : buffer'[<<j, i>>] = buffer[<<j, i>>] /\ char'[<<j, i>>] = char[<<j, i>>]
    BY <1>2, <1>3, <2>1
  <2>. QED
    BY <1>1, <1>3, <2>1, <2>2, <2>3
<1>8. CASE Types(p)
  <2>1. PICK c \in Char : ReadTyped(p, c)
    BY <1>8 DEF Types
  <2>. QED
    BY <1>1, <1>2, <1>3, <2>1, ReadTypedFacts
<1>7. CASE ~ReadFile(p) /\ ~ReadPipe(p) /\ ~Types(p) /\ ~Write(p)
  BY <1>1, <1>2, <1>3, <1>7, OtherFacts
<1>. QED
  BY <1>4, <1>5, <1>6, <1>7, <1>8

LEMMA FlowsStep == FlowInv /\ [Next]_vars => Flows'
<1>. SUFFICES ASSUME FlowInv, [Next]_vars PROVE Flows'
  OBVIOUS
<1>0. job \in Nat /\ Flows /\ Counters /\ PipelineTypeOK /\ (phase = "fork" => job \in Jobs)
  BY DEF FlowInv, Descriptors, Counters
<1>1. ASSUME NEW c \in Typed, CreateJob(c) PROVE Flows'
  <2>1. /\ job' = job + 1 /\ \A j \in 1 .. job : cmd'[j] = cmd[j]
        /\ UNCHANGED <<life, char, buffer, unread, typed, written>>
    BY <1>0, <1>1, Typing
  <2>2. ASSUME NEW j \in 1 .. job' PROVE \E got, passed : Flow(j, got, passed)'
    <3>1. CASE j = job + 1
      BY <1>1, <3>1, NewFlow
    <3>2. CASE j # job + 1
      <4>1. j \in 1 .. job
        BY <1>0, <2>1, <3>2
      <4>2. PICK got, passed : Flow(j, got, passed)
        BY <1>0, <4>1 DEF Flows
      <4>3. Flow(j, got, passed)'
        BY <2>1, <4>1, <4>2, FlowKept
      <4>. QED
        BY <4>3
    <3>. QED
      BY <3>1, <3>2
  <2>. QED
    BY <2>2 DEF Flows
<1>2. ASSUME /\ UNCHANGED <<cmd, job, char, buffer, unread, typed, written>>
             /\ \A j \in 1 .. job, i \in 1 .. Longest : life'[<<j, i>>] # "failed" => life[<<j, i>>] # "failed"
      PROVE  Flows'
  <2>1. ASSUME NEW j \in 1 .. job PROVE \E got, passed : Flow(j, got, passed)'
    <3>1. PICK got, passed : Flow(j, got, passed)
      BY <1>0 DEF Flows
    <3>2. Flow(j, got, passed)'
      BY <1>2, <3>1, FlowKept
    <3>. QED
      BY <3>2
  <2>. QED
    BY <1>2, <2>1 DEF Flows
<1>3. CASE Fork
  <2>1. UNCHANGED <<cmd, job, char, buffer, unread, typed, written>>
        /\ life' = [life EXCEPT ![<<job, forked + 1>>] = "forked"]
    BY <1>3 DEF Fork
  <2>2. ~(life[<<job, forked + 1>>] \in {"failed"})
    <3>1. phase = "fork" /\ forked + 1 \in 1 .. Longest /\ forked \in Nat
      <4>1. phase = "fork" /\ forked \in Nat /\ forked < cmd[job].size
        BY <1>0, <1>3 DEF Fork, Counters
      <4>. QED
        BY <1>0, <4>1, SizeType, PipelineAssumption
    <3>2. ~(life[<<job, forked + 1>>] # "none")
      BY <3>1 DEF FlowInv, InOrder
    <3>. QED
      BY <3>2
  <2>. QED
    BY <1>2, <2>1, <2>2
<1>4. CASE ForkFails \/ EndOfForks \/ EndOfWait
  BY <1>2, <1>4 DEF ForkFails, EndOfForks, EndOfWait
<1>5. ASSUME NEW p \in Child, ChildStep(p) PROVE Flows'
  <2>0. UNCHANGED <<cmd, job>>
    BY <1>0, <1>5, ChildStepIsLocal
  <2>1. ASSUME NEW j \in 1 .. job PROVE \E got, passed : Flow(j, got, passed)'
    <3>1. PICK got, passed : Flow(j, got, passed)
      BY <1>0 DEF Flows
    <3>2. CASE j = p[1]
      BY <1>5, <3>1, <3>2, FileFlow, PipeFlow, TypedFlow, WriteFlow, OtherFlow
    <3>3. CASE j # p[1]
      <4>1. Flow(j, got, passed)'
        BY <1>0, <1>5, <2>0, <3>1, <3>3, OtherPipelines, FlowKept, PipelineAssumption DEF Counters, Jobs
      <4>. QED
        BY <4>1
    <3>. QED
      BY <3>2, <3>3
  <2>. QED
    BY <2>0, <2>1 DEF Flows
<1>6. CASE UNCHANGED pipelineVars
  BY <1>2, <1>6 DEF pipelineVars
<1>. QED
  BY <1>1, <1>3, <1>4, <1>5, <1>6 DEF Next, PipelineNext, ShellStep, vars

LEMMA FlowInit == Init => FlowInv
<1>. SUFFICES ASSUME Init PROVE FlowInv
  OBVIOUS
<1>1. /\ phase \in {"prompt", "exited"} /\ job = 0
      /\ life = [p \in Child |-> "none"]
      /\ char = [p \in Child |-> <<>>] /\ buffer = [p \in Child |-> <<>>]
      /\ unread = [j \in Jobs |-> Input] /\ typed = [j \in Jobs |-> <<>>] /\ written = [j \in Jobs |-> <<>>]
  BY DEF Init, PipelineInit, PipelineIdle
<1>2. Contents
  <2>1. <<>> \in Seq(Char) /\ Len(<<>>) = 0 /\ Input \in Seq(Char) /\ Longest \in Nat
    BY PipelineAssumption
  <2>2. \A j \in Jobs, i \in 1 .. Longest : <<j, i>> \in Child
    BY DEF Child
  <2>. QED
    BY <1>1, <2>1, <2>2 DEF Contents
<1>3. ShellPasses /\ InOrder /\ ChildUses /\ Ends
  BY <1>1 DEF ShellPasses, InOrder, ChildUses, Ends
<1>4. Flows
  BY <1>1 DEF Flows
<1>. QED
  BY <1>2, <1>3, <1>4, DescriptorsInit DEF FlowInv

(* What each command of a pipeline has read and passed on: bytes are neither   *)
(* lost nor made up nor swapped between the files and pipes of createJob.      *)
THEOREM FlowInvariance == Spec => []FlowInv
<1>1. FlowInv /\ [Next]_vars => FlowInv'
  BY DescriptorsStep, ShellPassesStep, InOrderStep, ChildUsesStep, ContentsStep, EndsStep, FlowsStep DEF FlowInv
<1>. QED
  BY <1>1, FlowInit, PTL DEF Spec

-------------------------------------------------------------------------------
\* How often a pipeline of conduits repeats a character.
LEMMA PowerValues ==
  /\ Power[0] = 1 /\ \A k \in 0 .. Longest : Power[k] \in Nat
  /\ \A k \in 1 .. Longest : Power[k] = Count * Power[k - 1]
<1>. DEFINE step == [x \in Nat \X (1 .. Longest) |-> Count * x[1]]
            IsPower(f) == f = [k \in 0 .. Longest |-> IF k = 0 THEN 1 ELSE Count * f[k - 1]]
<1>1. Longest \in Nat /\ Count \in Nat
  BY PipelineAssumption
<1>2. \A v \in Nat, n \in 1 .. Longest : step[<<v, n>>] \in Nat
  BY <1>1
<1>3. PICK f : IsRecursive(Longest, 1, step, f) /\ \A n \in 0 .. Longest : f[n] \in Nat
  <2>. HIDE DEF step
  <2>. QED
    BY <1>1, <1>2, RecursionExists
<1>4. IsPower(f)
  <2>1. f = [n \in 0 .. Longest |-> IF n = 0 THEN 1 ELSE step[<<f[n - 1], n>>]]
    BY <1>3 DEF IsRecursive
  <2>2. \A n \in 1 .. Longest : step[<<f[n - 1], n>>] = Count * f[n - 1]
    BY <1>1, <1>3
  <2>. HIDE DEF step
  <2>. QED
    BY <1>1, <2>1, <2>2
<1>5. IsPower(Power)
  <2>1. Power = CHOOSE g : IsPower(g)
    BY DEF Power
  <2>. HIDE DEF IsPower
  <2>. QED
    BY <1>4, <2>1
<1>6. DOMAIN Power = 0 .. Longest /\ Power[0] = 1 /\ \A k \in 1 .. Longest : Power[k] = Count * Power[k - 1]
  BY <1>1, <1>5
<1>. DEFINE S == {k \in 0 .. Longest : Power[k] \in Nat}
<1>7. \A k \in 0 .. Longest : k \in S
  <2>1. 0 \in S
    BY <1>1, <1>6
  <2>2. \A k \in 0 .. Longest : k < Longest /\ k \in S => k + 1 \in S
    BY <1>1, <1>6
  <2>. HIDE DEF S
  <2>. QED
    BY <1>1, <2>1, <2>2, UpTo
<1>. QED
  BY <1>6, <1>7

LEMMA RepeatedOnce ==
  ASSUME NEW s \in Seq(Char)
  PROVE  Repeated(s, 1) = s
<1>. DEFINE S == {u \in Seq(Char) : Repeated(u, 1) = u}
<1>1. <<>> \in S
  BY RepeatedEmpty
<1>2. ASSUME NEW u \in Seq(Char), NEW c \in Char, u \in S PROVE Append(u, c) \in S
  <2>1. Repeated(Append(u, c), 1) = Repeated(u, 1) \o CopiesOf(c, 1)
    BY RepeatedAppend
  <2>2. CopiesOf(c, 1) = <<c>>
    BY DEF CopiesOf
  <2>3. Append(u, c) = u \o <<c>> /\ Append(u, c) \in Seq(Char)
    BY <1>2
  <2>4. Repeated(u, 1) = u
    BY <1>2
  <2>. QED
    BY <2>1, <2>2, <2>3, <2>4
<1>3. Seq(Char) \subseteq S
  <2>. HIDE DEF S
  <2>. QED
    BY <1>1, <1>2, OnSequences
<1>. QED
  BY <1>3

\* What a pipeline of k conduits makes of all it is given.
Stage(j, k) == Repeated(Given(j), Power[k])

LEMMA Stages ==
  ASSUME FlowInv, NEW j \in Jobs
  PROVE  /\ Given(j) \in Seq(Char)
         /\ Stage(j, 0) = Given(j) /\ \A k \in 0 .. Longest : Stage(j, k) \in Seq(Char)
         /\ \A k \in 1 .. Longest : Repeated(Stage(j, k - 1), Count) = Stage(j, k)
<1>1. Given(j) \in Seq(Char) /\ Count \in Nat /\ Longest \in Nat
  BY PipelineAssumption DEF Given, FlowInv, Contents
<1>2. Stage(j, 0) = Given(j)
  BY <1>1, PowerValues, RepeatedOnce DEF Stage
<1>3. \A k \in 0 .. Longest : Stage(j, k) \in Seq(Char)
  BY <1>1, PowerValues, RepeatedType DEF Stage
<1>4. ASSUME NEW k \in 1 .. Longest PROVE Repeated(Stage(j, k - 1), Count) = Stage(j, k)
  <2>1. PICK m \in Nat : m = Power[k - 1]
    BY <1>1, PowerValues
  <2>2. Power[k] = m * Count
    BY <1>1, <2>1, PowerValues
  <2>3. Repeated(Repeated(Given(j), m), Count) = Repeated(Given(j), m * Count)
    BY <1>1, <2>1, RepeatedTwice
  <2>. QED
    BY <2>1, <2>2, <2>3, Zenon DEF Stage
<1>. QED
  BY <1>1, <1>2, <1>3, <1>4

\* s is a beginning of t.
Begins(s, t) == \E rest \in Seq(Char) : t = s \o rest

LEMMA BeginsTransitive ==
  ASSUME NEW s \in Seq(Char), NEW t \in Seq(Char), NEW u \in Seq(Char), Begins(s, t), Begins(t, u)
  PROVE  Begins(s, u)
<1>1. PICK a \in Seq(Char) : t = s \o a
  BY DEF Begins
<1>2. PICK b \in Seq(Char) : u = t \o b
  BY DEF Begins
<1>3. (s \o a) \o b = s \o (a \o b)
  BY <1>1, <1>2, Associative
<1>4. a \o b \in Seq(Char)
  BY <1>1, <1>2
<1>. QED
  BY <1>1, <1>2, <1>3, <1>4 DEF Begins

LEMMA BeginsRepeated ==
  ASSUME NEW s \in Seq(Char), NEW t \in Seq(Char), Begins(s, t), NEW times \in Nat
  PROVE  Begins(Repeated(s, times), Repeated(t, times))
<1>1. PICK a \in Seq(Char) : t = s \o a
  BY DEF Begins
<1>2. Repeated(s \o a, times) = Repeated(s, times) \o Repeated(a, times) /\ Repeated(a, times) \in Seq(Char)
  BY RepeatedConcat, RepeatedType
<1>. QED
  BY <1>1, <1>2 DEF Begins

LEMMA BeginsIsPrefix ==
  ASSUME NEW s \in Seq(Char), NEW t \in Seq(Char), Begins(s, t)
  PROVE  IsPrefix(s, t)
<1>1. PICK a \in Seq(Char) : t = s \o a
  BY DEF Begins
<1>2. Len(s) \in Nat /\ Len(a) \in Nat /\ Len(t) = Len(s) + Len(a) /\ \A n \in 1 .. Len(s) : t[n] = s[n]
  BY <1>1
<1>3. SubSeq(s, 1, Len(s)) = SubSeq(t, 1, Len(s))
  <2>1. SubSeq(s, 1, Len(s)) \in Seq(Char) /\ SubSeq(t, 1, Len(s)) \in Seq(Char)
    BY <1>2
  <2>2. Len(SubSeq(s, 1, Len(s))) = Len(s) /\ Len(SubSeq(t, 1, Len(s))) = Len(s)
    BY <1>2
  <2>3. \A n \in 1 .. Len(s) : SubSeq(s, 1, Len(s))[n] = s[n] /\ SubSeq(t, 1, Len(s))[n] = t[n]
    BY <1>2
  <2>. QED
    BY <1>2, <2>1, <2>2, <2>3, SeqEqual
<1>. QED
  BY <1>2, <1>3 DEF IsPrefix

\* A command repeats a beginning of what the commands before it make of the input.
LEMMA PassedBegins ==
  ASSUME FlowInv, NEW j \in Jobs, NEW got, NEW passed, Flow(j, got, passed),
         NEW n \in 1 .. Longest, n <= cmd[j].size
  PROVE  Begins(passed[n], Stage(j, n - 1))
<1>1. Longest \in Nat \ {0} /\ Count \in Nat
  BY PipelineAssumption
<1>2. PICK size : size = cmd[j].size /\ size \in 1 .. Longest
  BY <1>1, SizeType DEF FlowInv, Descriptors
<1>3. /\ got \in [1 .. Longest -> Seq(Char)] /\ passed \in [1 .. Longest -> Seq(Char)]
      /\ \A i \in 1 .. Longest : Begins(passed[i], got[i])
      /\ got[1] \o Rest(j) = Given(j)
      /\ \A i \in 1 .. Longest : i < size => Repeated(passed[i], Count) = got[i + 1] \o buffer[<<j, i>>]
  BY <1>2 DEF Flow, Begins
<1>4. Rest(j) \in Seq(Char) /\ \A i \in 1 .. Longest : buffer[<<j, i>>] \in Seq(Char)
  BY DEF FlowInv, Contents, Child, Rest
<1>. DEFINE S == {i \in 0 .. size : i > 0 => Begins(passed[i], Stage(j, i - 1))}
<1>5. 0 \in S
  BY <1>2
<1>6. ASSUME NEW i \in 0 .. size, i < size, i \in S PROVE i + 1 \in S
  <2>0. i + 1 \in 1 .. Longest /\ i + 1 \in 0 .. size /\ i \in 0 .. Longest /\ (i + 1) - 1 = i
    BY <1>1, <1>2, <1>6
  <2>1. passed[i + 1] \in Seq(Char) /\ got[i + 1] \in Seq(Char) /\ Stage(j, i) \in Seq(Char)
    BY <1>3, <2>0, Stages
  <2>2. Begins(got[i + 1], Stage(j, i))
    <3>1. CASE i = 0
      <4>1. got[1] \o Rest(j) = Stage(j, 0)
        BY <1>3, Stages
      <4>2. i + 1 = 1 /\ Stage(j, i) = Stage(j, 0)
        BY <3>1
      <4>3. Begins(got[1], Stage(j, 0))
        BY <1>4, <4>1 DEF Begins
      <4>. QED
        BY <4>2, <4>3, Zenon
    <3>2. CASE i # 0
      <4>1. i \in 1 .. Longest /\ Begins(passed[i], Stage(j, i - 1)) /\ i - 1 \in 0 .. Longest
        BY <1>1, <1>6, <2>0, <3>2
      <4>2. passed[i] \in Seq(Char) /\ Stage(j, i - 1) \in Seq(Char)
        BY <1>3, <4>1, Stages
      <4>3. Begins(Repeated(passed[i], Count), Repeated(Stage(j, i - 1), Count))
        BY <1>1, <4>1, <4>2, BeginsRepeated
      <4>4. Repeated(Stage(j, i - 1), Count) = Stage(j, i)
        BY <4>1, Stages
      <4>5. Begins(got[i + 1], Repeated(passed[i], Count))
        BY <1>3, <1>4, <1>6, <4>1 DEF Begins
      <4>6. Repeated(passed[i], Count) \in Seq(Char)
        BY <1>1, <4>2, RepeatedType
      <4>. QED
        <5>1. PICK r : r = Repeated(passed[i], Count) /\ r \in Seq(Char)
          BY <4>6
        <5>2. Begins(got[i + 1], r) /\ Begins(r, Stage(j, i))
          BY <4>3, <4>4, <4>5, <5>1, Zenon
        <5>. QED
          BY <2>1, <5>1, <5>2, BeginsTransitive, Zenon
    <3>. QED
      BY <3>1, <3>2
  <2>3. Begins(passed[i + 1], Stage(j, i))
    BY <1>3, <2>0, <2>1, <2>2, BeginsTransitive
  <2>. QED
    BY <2>0, <2>3
<1>7. \A i \in 0 .. size : i \in S
  <2>1. size \in Nat
    BY <1>2
  <2>. HIDE DEF S
  <2>. QED
    BY <1>5, <1>6, <2>1, UpTo
<1>. QED
  BY <1>2, <1>7

\* Commands that all came to the end of their input repeat all of it.
LEMMA PassedIsWhole ==
  ASSUME FlowInv, NEW j \in Jobs, NEW got, NEW passed, Flow(j, got, passed),
         \A i \in 1 .. cmd[j].size : life[<<j, i>>] = "done", NEW n \in 1 .. Longest, n <= cmd[j].size
  PROVE  passed[n] = Stage(j, n - 1)
<1>1. Longest \in Nat \ {0} /\ Count \in Nat
  BY PipelineAssumption
<1>2. PICK size : size = cmd[j].size /\ size \in 1 .. Longest
  BY <1>1, SizeType DEF FlowInv, Descriptors
<1>3. /\ got \in [1 .. Longest -> Seq(Char)] /\ passed \in [1 .. Longest -> Seq(Char)]
      /\ got[1] \o Rest(j) = Given(j)
      /\ \A i \in 1 .. Longest : i < size => Repeated(passed[i], Count) = got[i + 1] \o buffer[<<j, i>>]
  BY <1>2 DEF Flow
<1>4. ASSUME NEW i \in 1 .. size
      PROVE  /\ passed[i] = got[i]
             /\ i = 1 => Rest(j) = <<>>
             /\ i > 1 => buffer[<<j, i - 1>>] = <<>>
  <2>1. i \in 1 .. Longest /\ <<j, i>> \in Child /\ life[<<j, i>>] = "done"
        /\ <<j, i>>[1] = j /\ <<j, i>>[2] = i
    BY <1>1, <1>2 DEF Child
  <2>2. char[<<j, i>>] = <<>>
    BY <2>1 DEF FlowInv, Contents
  <2>3. got[i] = passed[i] \o <<>>
    BY <2>1, <2>2 DEF Flow
  <2>4. (i = 1 => Rest(j) = <<>>) /\ (i > 1 => buffer[<<j, i - 1>>] = <<>>)
    BY <2>1 DEF FlowInv, Ends, Rest
  <2>. QED
    BY <1>3, <2>1, <2>3, <2>4
<1>. DEFINE S == {i \in 0 .. size : i > 0 => passed[i] = Stage(j, i - 1)}
<1>5. 0 \in S
  BY <1>2
<1>6. ASSUME NEW i \in 0 .. size, i < size, i \in S PROVE i + 1 \in S
  <2>0. i + 1 \in 1 .. Longest /\ i + 1 \in 1 .. size /\ (i + 1) - 1 = i
    BY <1>1, <1>2, <1>6
  <2>1. passed[i + 1] = got[i + 1] /\ got[i + 1] \in Seq(Char)
    BY <1>3, <1>4, <2>0
  <2>2. CASE i = 0
    <3>1. i + 1 = 1 /\ Rest(j) = <<>>
      <4>1. i + 1 = 1 /\ 1 \in 1 .. size
        BY <2>0, <2>2
      <4>2. Rest(j) = <<>>
        BY <1>4, <4>1
      <4>. QED
        BY <4>1, <4>2
    <3>2. got[1] \o <<>> = Given(j)
      BY <1>3, <3>1, Zenon
    <3>3. got[1] \in Seq(Char)
      BY <2>1, <3>1, Zenon
    <3>4. got[1] \o <<>> = got[1]
      BY <3>3
    <3>5. passed[i + 1] = Stage(j, i)
      BY <2>1, <2>2, <3>1, <3>2, <3>4, Stages, Zenon
    <3>. QED
      BY <2>0, <3>5
  <2>3. CASE i # 0
    <3>1. i \in 1 .. Longest /\ passed[i] = Stage(j, i - 1) /\ i + 1 > 1
      BY <1>1, <1>2, <1>6, <2>3
    <3>2. buffer[<<j, i>>] = <<>>
      BY <1>4, <2>0, <3>1
    <3>3. Repeated(passed[i], Count) = got[i + 1] \o <<>>
      BY <1>3, <1>6, <3>1, <3>2
    <3>4. got[i + 1] \o <<>> = got[i + 1]
      BY <2>1
    <3>5. passed[i + 1] = Stage(j, i)
      BY <2>1, <3>1, <3>3, <3>4, Stages
    <3>. QED
      BY <2>0, <3>5
  <2>. QED
    BY <2>2, <2>3
<1>7. \A i \in 0 .. size : i \in S
  <2>1. size \in Nat
    BY <1>2
  <2>. HIDE DEF S
  <2>. QED
    BY <1>5, <1>6, <2>1, UpTo
<1>. QED
  BY <1>2, <1>7

(* However the steps of the shell, its children and its user interleave, and   *)
(* whichever of the children fail, the file that createJob opened for the      *)
(* output of a pipeline of conduits holds a beginning of what they make of the *)
(* input file, or of what was typed; if all came to their end, all of it.      *)
THEOREM OutputsAreWhole == Spec => []OutputIsWhole
<1>1. FlowInv => OutputIsWhole
  <2>. SUFFICES ASSUME FlowInv, NEW j \in 1 .. job
                PROVE  /\ IsPrefix(written[j], Stage(j, cmd[j].size))
                       /\ cmd[j].output = "opens"
                          /\ (\A i \in 1 .. cmd[j].size : life[<<j, i>>] = "done")
                            => written[j] = Stage(j, cmd[j].size)
    BY Zenon DEF OutputIsWhole, RepeatedInput, Stage
  <2>1. j \in Jobs /\ Count \in Nat /\ Longest \in Nat
    BY PipelineAssumption DEF FlowInv, Descriptors, Counters, Jobs
  <2>2. PICK got, passed : Flow(j, got, passed)
    BY DEF FlowInv, Flows
  <2>3. PICK size : size = cmd[j].size /\ size \in 0 .. Longest
    BY <2>1, SizeType DEF FlowInv, Descriptors
  <2>4. /\ written[j] = IF cmd[j].output = "opens" THEN Repeated(passed[size], Count) ELSE <<>>
        /\ passed \in [1 .. Longest -> Seq(Char)]
    BY <2>2, <2>3 DEF Flow
  <2>5. Stage(j, size) \in Seq(Char) /\ <<>> \in Seq(Char)
    BY <2>1, <2>3, Stages
  <2>6. CASE cmd[j].output # "opens"
    <3>1. Begins(<<>>, Stage(j, size))
      BY <2>5 DEF Begins
    <3>2. IsPrefix(<<>>, Stage(j, size))
      BY <2>5, <3>1, BeginsIsPrefix
    <3>. QED
      BY <2>3, <2>4, <2>6, <3>2
  <2>7. CASE cmd[j].output = "opens"
    <3>1. size \in 1 .. Longest
      <4>1. cmd[j] \in Command
        BY <2>1, <2>7 DEF FlowInv, Descriptors, Counters, NoCommand
      <4>. QED
        BY <2>3, <4>1 DEF Command
    <3>2. /\ passed[size] \in Seq(Char) /\ Stage(j, size - 1) \in Seq(Char)
          /\ Repeated(Stage(j, size - 1), Count) = Stage(j, size)
      <4>1. size - 1 \in 0 .. Longest
        BY <2>1, <3>1
      <4>. QED
        BY <2>1, <2>4, <3>1, <4>1, Stages
    <3>3. Begins(passed[size], Stage(j, size - 1))
      BY <2>1, <2>2, <2>3, <3>1, PassedBegins
    <3>4. Begins(Repeated(passed[size], Count), Stage(j, size))
      BY <2>1, <3>2, <3>3, BeginsRepeated
    <3>5. IsPrefix(Repeated(passed[size], Count), Stage(j, size))
      BY <2>1, <2>5, <3>2, <3>4, RepeatedType, BeginsIsPrefix
    <3>6. ASSUME \A i \in 1 .. cmd[j].size : life[<<j, i>>] = "done"
          PROVE  Repeated(passed[size], Count) = Stage(j, size)
      <4>1. passed[size] = Stage(j, size - 1)
        BY <2>1, <2>2, <2>3, <3>1, <3>6, PassedIsWhole
      <4>. QED
        BY <3>2, <4>1
    <3>. QED
      BY <2>3, <2>4, <2>7, <3>5, <3>6
  <2>. QED
    BY <2>6, <2>7
<1>. QED
  BY <1>1, FlowInvariance, PTL
===============================================================================

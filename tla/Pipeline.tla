------------------------------- MODULE Pipeline -------------------------------
(* The descriptors of createJob: the pipes and files of a pipeline, what the   *)
(* shell and each child hold of them from fork to exec, and the bytes that     *)
(* then flow.  Every command is a conduit, which repeats what it reads, or one *)
(* that cannot be executed.                                                    *)
EXTENDS Integers, SequencesExt

CONSTANTS
  Char, Newline,    \* what the input holds; conduit prints a newline once
  Input,            \* the contents of the input file
  Count,            \* conduit's --count
  PipeSize,         \* what a pipe holds before a writer waits
  Longest,          \* the longest pipeline typed
  MaxJobs,          \* how many pipelines are typed
  Typed,            \* the pipelines among which the user chooses
  MaxTyped          \* how many characters the user types for a pipeline

\* A redirection: there is none, or opening its file succeeds or fails.
Redirection == {"none", "opens", "fails"}
Command == [size : 1 .. Longest, input : Redirection, output : Redirection, background : BOOLEAN]

ASSUME PipelineAssumption ==
  /\ Typed \subseteq Command
  /\ Newline \in Char /\ Input \in Seq(Char)
  /\ Count \in Nat \ {0} /\ PipeSize \in Nat /\ PipeSize >= Count
  /\ Longest \in Nat \ {0} /\ MaxJobs \in Nat \ {0} /\ MaxTyped \in Nat

VARIABLES
  phase,       \* where the shell is
  cmd,         \* the pipeline of each job: its size, redirections and background
  job,         \* how many jobs the user has typed
  forked,      \* the children of the last of them that were forked
  held,        \* what each process has open besides its standard descriptors
  std,         \* the standard input and output of each process
  life,        \* what each child is doing
  char,        \* what a conduit has read and not yet printed
  buffer,      \* what is in each pipe
  unread,      \* what no one has read of the input file, by the offset of its open
  typed,       \* what each pipeline has read from the terminal
  written      \* the contents of each output file

pipelineVars == <<phase, cmd, job, forked, held, std, life, char, buffer, unread, typed, written>>

Jobs == 1 .. MaxJobs
Child == Jobs \X (1 .. Longest)
Sh == <<0, 0>>                        \* the shell
Tty == <<"tty">>
In(j) == <<"in", j>>                  \* the descriptors infd and outfd
Out(j) == <<"out", j>>
R(j, k) == <<"r", j, k>>              \* the ends of the pipe after command k
W(j, k) == <<"w", j, k>>
IsPipeEnd(d) == d[1] \in {"r", "w"}

NoCommand == [size |-> 0, input |-> "none", output |-> "none", background |-> FALSE]
Terminal == [in |-> Tty, out |-> Tty]

PipelineInit ==
  /\ phase = "prompt" /\ job = 0 /\ forked = 0
  /\ cmd = [j \in Jobs |-> NoCommand]
  /\ held = [p \in Child \cup {Sh} |-> {}]
  /\ std = [p \in Child \cup {Sh} |-> Terminal]
  /\ life = [p \in Child |-> "none"]
  /\ char = [p \in Child |-> <<>>]
  /\ buffer = [p \in Child |-> <<>>]
  /\ unread = [j \in Jobs |-> Input] /\ typed = [j \in Jobs |-> <<>>]
  /\ written = [j \in Jobs |-> <<>>]

Holds(p, d) == d \in held[p] \/ std[p].in = d \/ std[p].out = d
IsOpen(d) == \E p \in Child \cup {Sh} : Holds(p, d)

-------------------------------------------------------------------------------
(* createJob up to its first fork.  The files of the redirections are opened   *)
(* without close-on-exec; one that cannot be opened leaves a descriptor of -1. *)
CreateJob(c) ==
  /\ phase = "prompt" /\ job < MaxJobs
  /\ LET j == job + 1
         pipes == {R(j, k) : k \in 1 .. c.size - 1} \cup {W(j, k) : k \in 1 .. c.size - 1}
         files == {d \in {In(j), Out(j)} : (IF d = In(j) THEN c.input ELSE c.output) = "opens"}
     IN  /\ held' = [held EXCEPT ![Sh] = held[Sh] \cup pipes \cup files]
         /\ cmd' = [cmd EXCEPT ![j] = c]
         /\ job' = j
  /\ forked' = 0
  /\ phase' = "fork"
  /\ UNCHANGED <<std, life, char, buffer, unread, typed, written>>

\* Slip: the end that command i writes to stays open in the shell.
ClosedAfterReading(i) == IF i > 1 THEN {R(job, i - 1)} ELSE {}

(* After the fork of command i the shell closes the pipe ends that no later    *)
(* child needs, and none of the files.                                         *)
ClosedAfter(i) ==
  (IF i > 1 THEN {R(job, i - 1)} ELSE {}) \cup (IF i < cmd[job].size THEN {W(job, i)} ELSE {})

Fork ==
  /\ phase = "fork" /\ forked < cmd[job].size
  /\ LET i == forked + 1  p == <<job, i>>
     IN  /\ life' = [life EXCEPT ![p] = "forked"]
         /\ held' = [held EXCEPT ![p] = held[Sh], ![Sh] = held[Sh] \ ClosedAfter(i)]
         /\ std' = [std EXCEPT ![p] = std[Sh]]
         /\ forked' = i
  /\ UNCHANGED <<phase, cmd, job, char, buffer, unread, typed, written>>

ForkFails ==
  /\ phase = "fork" /\ forked < cmd[job].size
  /\ phase' = "exited"
  /\ held' = [held EXCEPT ![Sh] = {}]
  /\ UNCHANGED <<cmd, job, forked, std, life, char, buffer, unread, typed, written>>

EndOfForks ==
  /\ phase = "fork" /\ forked = cmd[job].size
  /\ phase' = IF cmd[job].background THEN "prompt" ELSE "wait"
  /\ UNCHANGED <<cmd, job, forked, held, std, life, char, buffer, unread, typed, written>>

EndOfWait ==
  /\ phase = "wait"
  /\ \A i \in 1 .. cmd[job].size : life[<<job, i>>] \in {"done", "failed"}
  /\ phase' = "prompt"
  /\ UNCHANGED <<cmd, job, forked, held, std, life, char, buffer, unread, typed, written>>

(* A child's dup2 and close.  A file that could not be opened has no descriptor *)
(* to duplicate, and standard input or output stays what it was.                *)
Redirect(p) ==
  LET j == p[1]  i == p[2]
      source == CASE i > 1 -> R(j, i - 1)
                  [] i = 1 /\ In(j) \in held[p] -> In(j)
                  [] OTHER -> std[p].in
      sink == CASE i < cmd[j].size -> W(j, i)
                [] i = cmd[j].size /\ Out(j) \in held[p] -> Out(j)
                [] OTHER -> std[p].out
  IN  /\ life[p] = "forked"
      /\ life' = [life EXCEPT ![p] = "redirected"]
      /\ std' = [std EXCEPT ![p] = [in |-> source, out |-> sink]]
      /\ held' = [held EXCEPT ![p] = held[p] \ ({source, sink} \cap {In(j), Out(j)})]
      /\ UNCHANGED <<phase, cmd, job, forked, char, buffer, unread, typed, written>>

(* A process that is gone has nothing open. *)
Gone(p, how) ==
  /\ life' = [life EXCEPT ![p] = how]
  /\ held' = [held EXCEPT ![p] = {}]
  /\ std' = [std EXCEPT ![p] = Terminal]
  /\ char' = [char EXCEPT ![p] = <<>>]

(* execvp closes the pipe ends that the child holds besides its standard ones. *)
Exec(p) ==
  /\ life[p] = "redirected"
  /\ life' = [life EXCEPT ![p] = "running"]
  /\ held' = [held EXCEPT ![p] = {d \in held[p] : ~IsPipeEnd(d)}]
  /\ UNCHANGED <<phase, cmd, job, forked, std, char, buffer, unread, typed, written>>

ExecFails(p) ==
  /\ life[p] = "redirected"
  /\ Gone(p, "failed")
  /\ UNCHANGED <<phase, cmd, job, forked, buffer, unread, typed, written>>

-------------------------------------------------------------------------------
(* conduit.cc: one character in, its copies out.  A read waits for a pipe that *)
(* is empty as long as anyone holds its other end, and at the terminal for     *)
(* what the user types, however long; a write waits for room, and kills the    *)
(* writer when nobody can read any more.                                       *)
Pipe(d) == <<d[2], d[3]>>

\* Slip: newlines are repeated like any character.
CopiesOfAny(c) == [n \in 1 .. Count |-> c]
Copies(c) == IF c = Newline THEN <<c>> ELSE [n \in 1 .. Count |-> c]

ReadFile(p) ==
  LET d == std[p].in
  IN  /\ life[p] = "running" /\ char[p] = <<>> /\ d[1] = "in"
      /\ unread[d[2]] # <<>>
      /\ char' = [char EXCEPT ![p] = <<Head(unread[d[2]])>>]
      /\ unread' = [unread EXCEPT ![d[2]] = Tail(unread[d[2]])]
      /\ UNCHANGED <<phase, cmd, job, forked, held, std, life, buffer, typed, written>>

ReadPipe(p) ==
  LET d == std[p].in
  IN  /\ life[p] = "running" /\ char[p] = <<>> /\ d[1] = "r"
      /\ buffer[Pipe(d)] # <<>>
      /\ char' = [char EXCEPT ![p] = <<Head(buffer[Pipe(d)])>>]
      /\ buffer' = [buffer EXCEPT ![Pipe(d)] = Tail(buffer[Pipe(d)])]
      /\ UNCHANGED <<phase, cmd, job, forked, held, std, life, unread, typed, written>>

EndOfInput(d) ==
  \/ d[1] = "in" /\ unread[d[2]] = <<>>
  \/ d[1] = "r" /\ buffer[Pipe(d)] = <<>> /\ ~IsOpen(W(d[2], d[3]))

ReadEnd(p) ==
  /\ life[p] = "running" /\ char[p] = <<>> /\ EndOfInput(std[p].in)
  /\ Gone(p, "done")
  /\ UNCHANGED <<phase, cmd, job, forked, buffer, unread, typed, written>>

(* A conduit in the background is stopped at the terminal until its job is     *)
(* brought to the foreground, which is left to Shell; then it reads like this. *)
ReadTyped(p, c) ==
  /\ life[p] = "running" /\ char[p] = <<>> /\ std[p].in = Tty
  /\ Len(typed[p[1]]) < MaxTyped
  /\ char' = [char EXCEPT ![p] = <<c>>]
  /\ typed' = [typed EXCEPT ![p[1]] = Append(@, c)]
  /\ UNCHANGED <<phase, cmd, job, forked, held, std, life, buffer, unread, written>>

(* The user ends the input. *)
EndTyped(p) ==
  /\ life[p] = "running" /\ char[p] = <<>> /\ std[p].in = Tty
  /\ Gone(p, "done")
  /\ UNCHANGED <<phase, cmd, job, forked, buffer, unread, typed, written>>

Write(p) ==
  LET d == std[p].out
      out == Copies(Head(char[p]))
  IN  /\ life[p] = "running" /\ char[p] # <<>>
      /\ d[1] = "w" => IsOpen(R(d[2], d[3])) /\ Len(buffer[Pipe(d)]) + Len(out) <= PipeSize
      /\ char' = [char EXCEPT ![p] = <<>>]
      /\ buffer' = IF d[1] = "w" THEN [buffer EXCEPT ![Pipe(d)] = @ \o out] ELSE buffer
      /\ written' = IF d[1] = "out" THEN [written EXCEPT ![d[2]] = @ \o out] ELSE written
      /\ UNCHANGED <<phase, cmd, job, forked, held, std, life, unread, typed>>

BrokenPipe(p) ==
  LET d == std[p].out
  IN  /\ life[p] = "running" /\ char[p] # <<>> /\ d[1] = "w" /\ ~IsOpen(R(d[2], d[3]))
      /\ Gone(p, "failed")
      /\ UNCHANGED <<phase, cmd, job, forked, buffer, unread, typed, written>>

-------------------------------------------------------------------------------
ShellStep == EndOfForks \/ EndOfWait \/ Fork
Runs(p) ==
  \/ Redirect(p) \/ Exec(p) \/ ExecFails(p)
  \/ ReadFile(p) \/ ReadPipe(p) \/ ReadEnd(p) \/ Write(p) \/ BrokenPipe(p)
ReadsTerminal(p) == (\E c \in Char : ReadTyped(p, c)) \/ EndTyped(p)
ChildStep(p) == Runs(p) \/ ReadsTerminal(p)

PipelineNext ==
  \/ \E c \in Typed : CreateJob(c)
  \/ ShellStep \/ ForkFails
  \/ \E p \in Child : ChildStep(p)

(* The shell and its children run.  Nobody has to type: neither pipelines nor *)
(* what they read nor its end; and no fork has to fail.                       *)
PipelineFair == WF_pipelineVars(ShellStep) /\ \A p \in Child : WF_pipelineVars(Runs(p))

-------------------------------------------------------------------------------
(* The shell closes every pipe end once its children have them, so that the    *)
(* pipes end with their writers; what it never closes, and hands to all its    *)
(* later children, is the files of redirections: one descriptor for each.      *)
OnlyRedirectionsLeak ==
  /\ phase \in {"wait", "prompt"} =>
       /\ \A d \in held[Sh] : ~IsPipeEnd(d)
       /\ \A j \in 1 .. job : Cardinality({d \in held[Sh] : d[2] = j}) <= Cardinality(
            {f \in {"input", "output"} : cmd[j][f] = "opens"})
  /\ \A p \in Child : life[p] = "running" =>
       \A d \in held[p] \cup {std[p].in, std[p].out} : IsPipeEnd(d) =>
         \/ d = std[p].in /\ d = R(p[1], p[2] - 1)
         \/ d = std[p].out /\ d = W(p[1], p[2])

\* Every character as often as given, a newline once.
Repeated(s, times) ==
  LET copies[n \in 0 .. Len(s)] ==
        IF n = 0 THEN <<>>
        ELSE copies[n - 1] \o [m \in 1 .. (IF s[n] = Newline THEN 1 ELSE times) |-> s[n]]
  IN  copies[Len(s)]
Power[k \in 0 .. Longest] == IF k = 0 THEN 1 ELSE Count * Power[k - 1]

(* What a pipeline is given: the input file, or what its user types if it has *)
(* none or its open failed.                                                   *)
Given(j) == IF cmd[j].input = "opens" THEN Input ELSE typed[j]
RepeatedInput(j) == Repeated(Given(j), Power[cmd[j].size])

(* An output file holds the characters of the input file, or those typed, in  *)
(* order, each as often as the conduits together repeat it: all of them if    *)
(* every command ran to the end of its input, and a beginning of that         *)
(* whatever fails.                                                            *)
OutputIsWhole ==
  \A j \in 1 .. job :
    /\ IsPrefix(written[j], RepeatedInput(j))
    /\ /\ cmd[j].output = "opens"
       /\ \A i \in 1 .. cmd[j].size : life[<<j, i>>] = "done"
       => written[j] = RepeatedInput(j)

(* A pipeline in the foreground ends once its first command cannot wait for a *)
(* user: it reads a file, or it is gone.  The end of its input passes from    *)
(* command to command, and so does the loss of a reader.                      *)
PipelineEnds ==
  phase = "wait" /\ (cmd[job].input = "opens" \/ life[<<job, 1>>] \in {"done", "failed"})
    ~> phase = "prompt"
===============================================================================

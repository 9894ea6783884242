-------------------------------- MODULE Trace ---------------------------------
(* trace: several users of one directory each trace a program.  What is known  *)
(* of the system calls is extracted from the kernel's sources once and cached  *)
(* in a file of that directory; then the tracee is run from one system call's  *)
(* entry or exit to the next, and each call is printed with its result.        *)
EXTENDS Integers, SequencesExt

CONSTANTS
  Tracer,        \* the traces that run in one directory
  Asked,         \* flags and program given: records of options, calls and signals
  NumberLines,   \* the __NR_ lines of unistd_64.h: name and number
  ErrorLines,    \* the lines of errno-base.h and errno.h that define a constant
  Macros,        \* the SYSCALL_DEFINE macros, in the order find lists the files
  Names,         \* the names of system calls, as a map orders them
  Readable,      \* where a string is that ends before the memory does
  NoFile,        \* the cache before it was first written
  Nowhere        \* what is in a file between its end and a write that starts after it

(* A program is the system calls it makes: number, arguments, and the result.  *)
Calls == Seq([num : Nat, args : Seq(Int), ret : Int])

ASSUME TraceAssumption ==
  /\ \A a \in Asked : /\ a.simple \in BOOLEAN /\ a.rebuild \in BOOLEAN
                      /\ a.calls \in Calls /\ a.signals \in Nat
  /\ NumberLines \in Seq([name : STRING, number : Nat]) /\ ErrorLines \in Seq([name : STRING, number : Nat])
  /\ Macros \in Seq([name : STRING, types : Seq(STRING)]) /\ \A m \in ToSet(Macros) : Len(m.types) <= 6
  /\ Names \in Seq(STRING) /\ ToSet(Names) = {l.name : l \in ToSet(NumberLines)}

VARIABLES
  cache,     \* .trace_signatures.txt: NoFile, or its lines
  asked,     \* what each trace was asked for
  pc,        \* where each tracer is
  sigs,      \* syscallSigs
  pos,       \* where a tracer reads or writes the cache
  part,      \* the line of which a tracer has read only a part so far, if any
  misread,   \* the calls whose lines were lost while they were read
  tracee,    \* what the traced process is doing
  made,      \* how many calls it has entered
  signals,   \* how many signals it will still get
  exitNum,   \* the status to be reported
  printed    \* the lines printed: a call and, once it has returned, its result

compileVars == <<cache, sigs, pos, part, misread>>
traceeVars == <<tracee, made, signals>>
traceVars == <<compileVars, traceeVars, asked, pc, exitNum, printed>>

(* The last of the lines that define a number counts; others have no name. *)
Defined(lines, number) ==
  LET n == SelectLastInSeq(lines, LAMBDA l : l.number = number)
  IN  IF n = 0 THEN "" ELSE lines[n].name

syscallNums(num) == Defined(NumberLines, num)
errConsts(errno) == Defined(ErrorLines, errno)

-------------------------------------------------------------------------------
(* trace-system-calls.cc.  Any other type with a star in it is a pointer too;  *)
(* the macros of an instance use these two.                                    *)
normalizeType(type) ==
  CASE type \in {"const char __user *", "const char *"} -> "string"
    [] type \in {"unsigned long", "struct stat *", "void *"} -> "pointer"
    [] OTHER -> "integer"

Signature(macro) == [i \in 1 .. Len(macro.types) |-> normalizeType(macro.types[i])]

(* A map of signatures; a name that is not in it has an empty one when it is looked up. *)
Empty == [name \in {} |-> <<>>]
Put(map, name, sig) == [x \in DOMAIN map \cup {name} |-> IF x = name THEN sig ELSE map[x]]
Lookup(map, name) == IF name \in DOMAIN map THEN map[name] ELSE <<>>

\* Slip: a macro that was already processed adds its parameters to the signature.
processEverySignature(map, macro) ==
  IF macro.name \in ToSet(Names)
  THEN Put(map, macro.name, Lookup(map, macro.name) \o Signature(macro)) ELSE map

processSystemCallSignature(map, macro) ==
  IF macro.name \in ToSet(Names) \ DOMAIN map THEN Put(map, macro.name, Signature(macro)) ELSE map

Extracted == FoldLeft(processSystemCallSignature, Empty, Macros)

(* The lines of the cache. *)
AddLine(lines, name) ==
  IF name \in DOMAIN Extracted THEN Append(lines, [name |-> name, sig |-> Extracted[name]]) ELSE lines
Lines == FoldLeft(AddLine, <<>>, Names)

(* main up to compileSystemCallData: without a program there is nothing to trace. *)
Nothing(t) ==
  /\ pc[t] = "main" /\ asked[t].calls = <<>>
  /\ pc' = [pc EXCEPT ![t] = "end"]
  /\ UNCHANGED <<compileVars, traceeVars, asked, exitNum, printed>>

OpenToLoad(t) ==
  /\ pc[t] = "main" /\ asked[t].calls # <<>>
  /\ ~asked[t].rebuild /\ cache # NoFile
  /\ pc' = [pc EXCEPT ![t] = "load"]
  /\ UNCHANGED <<compileVars, traceeVars, asked, exitNum, printed>>

(* A hole is taken for the beginning of the next line's name, which no call has. *)
Read(lines, from, to, map) ==
  LET Load(m, i) == IF lines[i] = Nowhere \/ (i > from + 1 /\ lines[i - 1] = Nowhere)
                    THEN m ELSE Put(m, lines[i].name, lines[i].sig)
  IN  FoldLeft(Load, map, [k \in 1 .. to - from |-> from + k])

(* The stream reads blocks of some 8000 bytes, wherever these end: after a line or *)
(* inside one, whose rest comes with the next block if it is still there.          *)
FindsTheRest(t) == part[t] # <<>> => pos[t] < Len(cache) /\ cache[pos[t] + 1] = part[t][1]

Load(t) ==
  /\ pc[t] = "load" /\ FindsTheRest(t) /\ pos[t] < Len(cache)
  /\ \E to \in pos[t] .. Len(cache), inLine \in BOOLEAN :
       /\ IF to = pos[t] THEN inLine ELSE cache[to] # Nowhere
       /\ inLine => to < Len(cache)
       /\ sigs' = [sigs EXCEPT ![t] = Read(cache, pos[t], to, sigs[t])]
       /\ pos' = [pos EXCEPT ![t] = to]
       /\ part' = [part EXCEPT ![t] = IF inLine THEN <<cache[to + 1]>> ELSE <<>>]
  /\ UNCHANGED <<cache, misread, traceeVars, asked, pc, exitNum, printed>>

EndOfCache(t) ==
  /\ pc[t] = "load" /\ part[t] = <<>> /\ pos[t] >= Len(cache)
  /\ pc' = [pc EXCEPT ![t] = "fork"]
  /\ UNCHANGED <<compileVars, traceeVars, asked, exitNum, printed>>

(* Without its end a line has unknown types.  Where it goes on with something else  *)
(* the types may come from there, or it is the name that no call has.               *)
Cut(sig) == {[i \in DOMAIN sig |-> IF i <= n THEN sig[i] ELSE "unknown"] : n \in 0 .. Len(sig)}
Garbled(sig) == [DOMAIN sig -> {"string", "pointer", "integer", "unknown"}]

(* Another trace has emptied the file since the beginning of the line was read.     *)
LosesTheRest(t) == pc[t] = "load" /\ ~FindsTheRest(t)
Misread(t, sig) ==
  /\ sigs' = [sigs EXCEPT ![t] = Put(sigs[t], part[t][1].name, sig)]
  /\ misread' = [misread EXCEPT ![t] = @ \cup {part[t][1].name}]

(* stoi throws where it is given no number. *)
Throw(t) ==
  /\ LosesTheRest(t)
  /\ pc' = [pc EXCEPT ![t] = "threw"]
  /\ UNCHANGED <<compileVars, traceeVars, asked, exitNum, printed>>

EndInLine(t) ==
  /\ LosesTheRest(t) /\ pos[t] >= Len(cache)
  /\ \/ part[t][1] = Nowhere /\ UNCHANGED <<sigs, misread>>
     \/ part[t][1] # Nowhere /\ \E sig \in Cut(part[t][1].sig) : Misread(t, sig)
  /\ part' = [part EXCEPT ![t] = <<>>]
  /\ pc' = [pc EXCEPT ![t] = "fork"]
  /\ UNCHANGED <<cache, pos, traceeVars, asked, exitNum, printed>>

ReadOn(t) ==
  /\ LosesTheRest(t)
  /\ \E to \in pos[t] + 1 .. Len(cache) :
       cache[to] # Nowhere /\ pos' = [pos EXCEPT ![t] = to]
  /\ \/ UNCHANGED <<sigs, misread>>
     \/ part[t][1] # Nowhere /\ \E sig \in Garbled(part[t][1].sig) : Misread(t, sig)
  /\ part' = [part EXCEPT ![t] = <<>>]
  /\ UNCHANGED <<cache, traceeVars, asked, pc, exitNum, printed>>

(* All the sources are read, which takes a minute; then the cache is emptied. *)
Extract(t) ==
  /\ pc[t] = "main" /\ asked[t].calls # <<>>
  /\ asked[t].rebuild \/ cache = NoFile
  /\ sigs' = [sigs EXCEPT ![t] = Extracted]
  /\ pc' = [pc EXCEPT ![t] = "truncate"]
  /\ UNCHANGED <<cache, pos, part, misread, traceeVars, asked, exitNum, printed>>

Truncate(t) ==
  /\ pc[t] = "truncate"
  /\ cache' = <<>>
  /\ pc' = [pc EXCEPT ![t] = "cache"]
  /\ UNCHANGED <<sigs, pos, part, misread, traceeVars, asked, exitNum, printed>>

(* A line is written at once, where the tracer's last one ended, even if       *)
(* another has emptied the file since.                                         *)
WriteLine(t) ==
  /\ pc[t] = "cache"
  /\ LET n == pos[t] + 1
         length == IF n > Len(cache) THEN n ELSE Len(cache)
     IN  IF pos[t] < Len(Lines)
         THEN /\ cache' = [i \in 1 .. length |->
                             CASE i = n -> Lines[n]
                               [] i # n /\ i <= Len(cache) -> cache[i]
                               [] OTHER -> Nowhere]
              /\ pos' = [pos EXCEPT ![t] = n]
              /\ UNCHANGED pc
         ELSE /\ pc' = [pc EXCEPT ![t] = "fork"]
              /\ UNCHANGED <<cache, pos>>
  /\ UNCHANGED <<sigs, part, misread, traceeVars, asked, exitNum, printed>>

(* The user does not wait for the signatures. *)
Interrupt(t) ==
  /\ pc[t] \in {"load", "truncate", "cache"}
  /\ pc' = [pc EXCEPT ![t] = "interrupted"]
  /\ UNCHANGED <<compileVars, traceeVars, asked, exitNum, printed>>

-------------------------------------------------------------------------------
(* The traced process: in its program ("user") or in a call ("kernel"), held   *)
(* at a call's "entry" or "exit" or by a signal ("signal"), or gone.  The      *)
(* registers show the call that it is in, if it is in one.                     *)
NoCall == [num |-> -1, args |-> <<>>, ret |-> 0]
Call(t) == IF tracee[t] \in {"entry", "kernel", "exit"} THEN asked[t].calls[made[t]] ELSE NoCall
IsExit(num) == syscallNums(num) \in {"exit", "exit_group"}

\* Only its last call ends a program; calls come with what their macros name.
ASSUME ProgramAssumption ==
  \A a \in Asked : \A n \in 1 .. Len(a.calls) :
    /\ IsExit(a.calls[n].num) <=> n = Len(a.calls)
    /\ \A m \in ToSet(Macros) : m.name = syscallNums(a.calls[n].num) => Len(m.types) <= Len(a.calls[n].args)

EnterCall(t) ==
  /\ tracee[t] = "user"
  /\ tracee' = [tracee EXCEPT ![t] = "entry"]
  /\ made' = [made EXCEPT ![t] = @ + 1]
  /\ UNCHANGED <<compileVars, signals, asked, pc, exitNum, printed>>

ReturnOrExit(t) ==
  /\ tracee[t] = "kernel"
  /\ tracee' = [tracee EXCEPT ![t] = IF IsExit(Call(t).num) THEN "exited" ELSE "exit"]
  /\ UNCHANGED <<compileVars, made, signals, asked, pc, exitNum, printed>>

(* The signals include the one that follows a successful execve. *)
GetSignal(t) ==
  /\ tracee[t] = "user" /\ signals[t] > 0
  /\ tracee' = [tracee EXCEPT ![t] = "signal"]
  /\ signals' = [signals EXCEPT ![t] = @ - 1]
  /\ UNCHANGED <<compileVars, made, asked, pc, exitNum, printed>>

Kill(t) ==
  /\ tracee[t] \notin {"none", "exited", "killed"}
  /\ tracee' = [tracee EXCEPT ![t] = "killed"]
  /\ UNCHANGED <<compileVars, made, signals, asked, pc, exitNum, printed>>

-------------------------------------------------------------------------------
(* trace.cc.  The child stops itself before execvp. *)
ForkTracee(t) ==
  /\ pc[t] = "fork"
  /\ tracee' = [tracee EXCEPT ![t] = "signal"]
  /\ pc' = [pc EXCEPT ![t] = "begin"]
  /\ UNCHANGED <<compileVars, made, signals, asked, exitNum, printed>>

(* The parent asserts that what it waited for is that stop. *)
Begin(t) ==
  /\ pc[t] = "begin"
  /\ pc' = [pc EXCEPT ![t] = IF tracee[t] = "signal" THEN "enter" ELSE "aborted"]
  /\ UNCHANGED <<compileVars, traceeVars, asked, exitNum, printed>>

(* PTRACE_SYSCALL lets a held process go on, without its signal. *)
Waiting(loop) == IF loop = "enter" THEN "enterwait" ELSE "leavewait"
Resume(t) ==
  /\ pc[t] \in {"enter", "leave"}
  /\ tracee' = [tracee EXCEPT ![t] = CASE @ \in {"signal", "exit"} -> "user"
                                       [] @ = "entry" -> "kernel"
                                       [] OTHER -> @]
  /\ pc' = [pc EXCEPT ![t] = Waiting(@)]
  /\ UNCHANGED <<compileVars, made, signals, asked, exitNum, printed>>

(* waitpid returns when the process is held or gone; once it is gone waitpid   *)
(* fails and the status is what it was.  Entry and exit look the same.         *)
Reported(t) == tracee[t] \notin {"user", "kernel"}
\* Slip: every stop is taken for a system call's.
IsStopped(t) == tracee[t] \in {"entry", "exit", "signal"}
IsCallStop(t) == tracee[t] \in {"entry", "exit"}

EntryStop(t) ==
  /\ pc[t] = "enterwait" /\ IsCallStop(t)
  /\ pc' = [pc EXCEPT ![t] = "print"]
  /\ UNCHANGED <<compileVars, traceeVars, asked, exitNum, printed>>

(* What a line needs of the process is read in this order, by one PTRACE_PEEK call *)
(* each: the call's number, the status given to exit_group, the arguments.  Those  *)
(* that come after its death get -1.                                               *)
AllReads == 9
Reads(t) == IF tracee[t] = "killed" THEN {0} ELSE 0 .. AllReads
Peek(reads, nth, value) == IF nth <= reads THEN value ELSE -1
DiesAfter(t, reads) ==
  tracee' = IF reads < AllReads THEN [tracee EXCEPT ![t] = "killed"] ELSE tracee

Number(t, reads) == Peek(reads, 1, Call(t).num)

(* printSig: an argument as its parameter's type has it, all of them missing   *)
(* without a signature.  Whoever reads a string where there is none gets bytes *)
(* that never end until memory does, or some that do.                          *)
Sig(t, reads) == IF asked[t].simple THEN <<>> ELSE Lookup(sigs[t], syscallNums(Number(t, reads)))
Args(t, reads) ==
  LET sig == Sig(t, reads)
  IN  [i \in 1 .. Len(sig) |-> <<sig[i], Peek(reads, 2 + i, Call(t).args[i])>>]
Strings(t, reads) == {i \in 1 .. Len(Sig(t, reads)) : Sig(t, reads)[i] = "string"}

printSyscall(t) ==
  /\ pc[t] = "print"
  /\ \E reads \in Reads(t) :
       /\ \A i \in Strings(t, reads) : 2 + i <= reads
       /\ printed' = [printed EXCEPT ![t] =
            Append(@, [num |-> Number(t, reads), args |-> Args(t, reads), result |-> <<>>])]
       /\ exitNum' = [exitNum EXCEPT ![t] =
            IF syscallNums(Number(t, reads)) = "exit_group" THEN Peek(reads, 2, Call(t).args[1]) ELSE @]
       /\ DiesAfter(t, reads)
  /\ pc' = [pc EXCEPT ![t] = "leave"]
  /\ UNCHANGED <<compileVars, made, signals, asked>>

(* Without the memory for such a string the tracer is gone, and the process, if it *)
(* lives, runs on alone.                                                           *)
RunOutOfMemory(t) ==
  /\ pc[t] = "print"
  /\ \E reads \in Reads(t) :
       /\ \E i \in Strings(t, reads) : reads <= 2 + i \/ Call(t).args[i] \notin Readable
       /\ tracee' = [tracee EXCEPT ![t] = IF reads < AllReads THEN "killed" ELSE "free"]
  /\ pc' = [pc EXCEPT ![t] = "aborted"]
  /\ UNCHANGED <<compileVars, made, signals, asked, exitNum, printed>>

EnterAgain(t) ==
  /\ pc[t] = "enterwait" /\ Reported(t) /\ ~IsCallStop(t)
  /\ pc' = [pc EXCEPT ![t] = "enter"]
  /\ UNCHANGED <<compileVars, traceeVars, asked, exitNum, printed>>

ExitStop(t) ==
  /\ pc[t] = "leavewait" /\ IsCallStop(t)
  /\ pc' = [pc EXCEPT ![t] = "result"]
  /\ UNCHANGED <<compileVars, traceeVars, asked, exitNum, printed>>

(* endSyscall: the result, which in full mode tells an error by its name; -1 again *)
(* if the process has been killed meanwhile.                                       *)
Result(t, ret) == IF ~asked[t].simple /\ ret < 0 THEN <<-1, errConsts(-ret)>> ELSE <<ret>>

endSyscall(t) ==
  /\ pc[t] = "result"
  /\ printed' = [printed EXCEPT ![t][Len(printed[t])].result =
       Result(t, IF tracee[t] = "killed" THEN -1 ELSE Call(t).ret)]
  /\ pc' = [pc EXCEPT ![t] = "enter"]
  /\ UNCHANGED <<compileVars, traceeVars, asked, exitNum>>

\* Slip: the exit is looked for before a call is entered.
ExitBeforeCall(t) == pc[t] = "enterwait" /\ tracee[t] = "exited"
SeesExit(t) == pc[t] = "leavewait" /\ tracee[t] = "exited"

ProgramExited(t) ==
  /\ SeesExit(t)
  /\ pc' = [pc EXCEPT ![t] = "end"]
  /\ UNCHANGED <<compileVars, traceeVars, asked, exitNum, printed>>

LeaveAgain(t) ==
  /\ pc[t] = "leavewait" /\ Reported(t) /\ ~IsCallStop(t) /\ tracee[t] # "exited"
  /\ pc' = [pc EXCEPT ![t] = "leave"]
  /\ UNCHANGED <<compileVars, traceeVars, asked, exitNum, printed>>

-------------------------------------------------------------------------------
(* An earlier trace may have left its cache. *)
TraceInit ==
  /\ cache \in {NoFile, Lines}
  /\ asked \in [Tracer -> Asked]
  /\ pc = [t \in Tracer |-> "main"]
  /\ sigs = [t \in Tracer |-> Empty] /\ pos = [t \in Tracer |-> 0]
  /\ part = [t \in Tracer |-> <<>>] /\ misread = [t \in Tracer |-> {}]
  /\ tracee = [t \in Tracer |-> "none"] /\ made = [t \in Tracer |-> 0]
  /\ signals = [t \in Tracer |-> asked[t].signals]
  /\ exitNum = [t \in Tracer |-> 0] /\ printed = [t \in Tracer |-> <<>>]

TracerStep(t) ==
  \/ Nothing(t) \/ OpenToLoad(t) \/ Load(t) \/ EndOfCache(t)
  \/ Throw(t) \/ EndInLine(t) \/ ReadOn(t)
  \/ Extract(t) \/ Truncate(t) \/ WriteLine(t)
  \/ ForkTracee(t) \/ Begin(t) \/ Resume(t)
  \/ EntryStop(t) \/ printSyscall(t) \/ RunOutOfMemory(t) \/ EnterAgain(t)
  \/ ExitStop(t) \/ endSyscall(t) \/ ProgramExited(t) \/ LeaveAgain(t)

TraceeStep(t) == EnterCall(t) \/ ReturnOrExit(t) \/ GetSignal(t)

TraceNext == \E t \in Tracer : TracerStep(t) \/ TraceeStep(t) \/ Kill(t) \/ Interrupt(t)

(* Processes run; nobody has to interrupt or kill one. *)
TraceFair == \A t \in Tracer : WF_traceVars(TracerStep(t)) /\ WF_traceVars(TraceeStep(t))

-------------------------------------------------------------------------------
(* The calls printed are those made, in their order, each with its own         *)
(* arguments and result: the tracer, which only counts stops, is never one     *)
(* stop ahead or behind, whatever signals hold the process in between.  Only   *)
(* the last line of a process that was killed may have a -1 in place of what   *)
(* could no longer be read.  When the tracer reports the exit, it has printed  *)
(* every call, and the status that exit_group was given; a process that was    *)
(* killed or a string that cannot be read ends it early.                       *)
CallsAreReported ==
  \A t \in Tracer :
    LET calls == asked[t].calls
        lines == printed[t]
        Returned(n) == lines[n].result # <<>>
        Lost(n) == n = Len(lines) /\ tracee[t] = "killed"
    IN  /\ Len(lines) <= made[t] /\ made[t] <= Len(lines) + 1
        /\ \A n \in 1 .. Len(lines) :
             /\ lines[n].num = calls[n].num \/ (Lost(n) /\ lines[n].num = -1)
             /\ \A i \in 1 .. Len(lines[n].args) :
                  \/ lines[n].args[i][2] = calls[n].args[i]
                  \/ Lost(n) /\ lines[n].args[i][2] = -1
             /\ Returned(n) => \/ lines[n].result = Result(t, calls[n].ret)
                               \/ Lost(n) /\ lines[n].result = Result(t, -1)
             /\ ~Returned(n) => n = Len(lines)
        /\ pc[t] = "end" /\ calls # <<>> =>
             /\ tracee[t] = "exited" /\ Len(lines) = Len(calls) /\ ~Returned(Len(lines))
             /\ syscallNums(Last(calls).num) = "exit_group" => exitNum[t] = Last(calls).args[1]
        /\ pc[t] = "aborted" =>
             tracee[t] = "killed" \/ \E n \in 1 .. Len(calls) : ~ToSet(calls[n].args) \subseteq Readable

(* Whoever else writes the cache, or is killed at it, a signature is the one    *)
(* the sources have or is missing, except where another trace emptied the file  *)
(* between two reads of one line: then it still has as many parameters.  And    *)
(* once all writers have come to their end the cache is whole, whatever they    *)
(* overwrote of each other's.                                                   *)
SignaturesAreRight ==
  /\ \A t \in Tracer : \A name \in DOMAIN sigs[t] :
       \E m \in 1 .. Len(Macros) :
         /\ Macros[m].name = name /\ \A l \in 1 .. m - 1 : Macros[l].name # name
         /\ Len(sigs[t][name]) = Len(Macros[m].types)
         /\ name \notin misread[t] => sigs[t][name] = Signature(Macros[m])
  /\ \A t \in Tracer : misread[t] # {} =>
       \E u \in Tracer \ {t} : pc[u] \notin {"main", "load", "truncate"}
  /\ cache # NoFile /\ (\A t \in Tracer : pc[t] \notin {"cache", "interrupted"}) => cache = Lines

(* A trace that has begun comes to its end, unless the traced process is       *)
(* killed or the tracer first ran out of memory.                               *)
TraceEnds ==
  \A t \in Tracer : (pc[t] = "enter") ~> (pc[t] \in {"end", "aborted"} \/ tracee[t] = "killed")
===============================================================================

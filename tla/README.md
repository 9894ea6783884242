# A TLA+ verification of sys_exploration

The repository holds six systems-programming projects that share no code: a job-control shell, a farm of
factoring processes with a system-call tracer, a caching HTTP proxy, a reader of the Unix v6 file system, a
search over a film database, and an empty directory. This directory holds TLA+ models of them, TLC
configurations that check the models on small instances, and TLAPS proofs of the results that matter most.
`PROJECT.json` lists the runs, the mutants, the source lines every definition translates, the hazards and the
theorems.

## The system

| component | state | operations | what is hard |
|---|---|---|---|
| shell: job list (`stsh-job-list`, `stsh-job`, `stsh-process`) | map from job numbers to jobs; a job's state and its processes in pipeline order | addJob, getForegroundJob, getJobWithProcess, addProcess, setState, synchronize | the list must say what the kernel will only report later |
| shell: loop, builtins, launching, waiting (`stsh.cc`) | the job list; the signal mask and the uninitialised set `addSigs`; the terminal's owner | createJob, fg, bg, slay, halt, cont, jobs, quit, waitSigs, waitChildSigs | children, signals, terminal and list interleave; blocked, pending and lost signals |
| shell: pipes and redirections (`stsh.cc`) | open descriptors of the shell and each child | pipe2, dup2, close, open | who holds which end; descriptors leaked by the shell |
| farm (`farm.cc`, `factor.py`) | the workers and their input pipes; each worker's place in its loop; the stops and ends waitpid has yet to report | spawn, broadcast, wait for all, close all; halt, input, factor | a halted, a dead and a busy worker look alike to waitpid(-1); a SIGCONT too early is lost |
| trace (`trace.cc`) | the tracee's stop, the system call in progress | ptrace, waitpid loops | entry and exit stops, signals and exits in between |
| proxy: request handler, cache, scheduler | 997 mutexes, a directory per cache entry, the thread pool | serviceRequest, handleRequest, forwardRequest, containsCacheEntry, cacheEntry | threads on one entry; several file operations per cache operation; expiry |
| proxy: tunnel (`manageClientServerBridge`) | two byte streams with their buffers and flags, a watch set | wait, read, write, remove | half-closed streams, timeouts, bytes already buffered |
| proxy: server (`proxy.cc`, `main.cc`) | the listening socket, `isRunning` | runServer, stopServer from the signal thread | shutdown racing accept |
| file_dir | a disk image (read only) | inode_iget, inode_indexlookup, file_getblock, directory_findname, pathname_lookup | direct, indirect and doubly indirect blocks; name comparison |
| imdb | two memory-mapped tables, the search's queue | getCredits, getCast, breadth-first search | padding and offsets; shortest path, degree bound |
| rss_thread | none | none | the directory holds a README only |

How they interact: the shell and the farm interact with their children through the kernel: fork, waitpid, signals,
process groups, the terminal, pipes. The proxy's threads interact through the mutexes and the file system.
trace and its tracee interact through ptrace stops. file_dir and imdb are sequential.

What makes each component correct:

* **shell** the job list agrees with the process table but for changes not yet reported; the user is prompted
  exactly when no foreground job runs; no child is forgotten; the keyboard's signals reach the foreground job
  and never the shell.
* **farm** every number read is given to one idle worker and answered once; the pipes are closed only after the
  last answer; no zombie remains.
* **trace** every system call is printed once with its own result; the tracee's exit ends the tracer.
* **proxy** a cached response is one the origin gave to that request, complete and unexpired; every connection is
  answered; the tunnel delivers every byte in order, or is torn down.
* **file_dir, imdb** every lookup equals a reference definition over the data.

## Modules

| module | models |
|---|---|
| `JobList` | the methods of `STSHJobList`, `STSHJob` and `STSHProcess` as operators on job-list values |
| `Shell` | `stsh.cc` and the kernel beneath it: process table, wait reports, the shell's signals, the terminal |
| `MCShell` | constants and symmetry for TLC |
| `ShellProofs` | theorems about `Shell`, with the lemmas about `JobList` |
| `TaskFarm` | the abstract farm: numbers are supplied, assigned to idle workers, answered, and the farm closes |
| `Farm` | `farm.cc`, `factor.py` and the kernel between them |
| `MCFarm`, `FarmProofs` | for TLC; theorems about `Farm` |
| `ProxyCache` | `serviceRequest`, `handleRequest` and the response cache on disk |
| `MCProxyCache`, `ProxyProofs` | for TLC; theorems about `ProxyCache` |
| `Tunnel` | `handleConnectRequest`, `manageClientServerBridge`, the watch set and the two peers of every tunnel |
| `ProxyServer` | `main`, the options, `runServer`, `stopServer`, the pool; extends and composes the tunnels |
| `MCProxyServer`, `ServerProofs` | for TLC; theorems about `ProxyServer` and its tunnels |
| `Pipeline` | createJob's pipes and redirections, and the bytes that flow between conduits |
| `Trace` | trace: the signatures and their cache, the tracer's two loops, the tracee |
| `Processes`, `MCProcesses` | one specification for `Pipeline` and `Trace`; for TLC |
| `PipelineProofs`, `TraceProofs` | theorems about `Pipeline` and about `Trace` |
| `UnixV6` | what a disk image holds: the layout that the writer of an image gives to a tree of files |
| `FileSystem` | `diskimageaccess` and the layers below it, from sectors to paths |
| `Imdb` | the two data files of the film database, their readers, and imdbtest's listings |
| `ImdbSearch` | `search.cc` and `path.cc`: the breadth-first search and the path it prints |
| `Listing` | the entries a long list shows at each end, shared by the listing programs |
| `Lookups`, `MCLookups` | one specification for `FileSystem`, `Imdb` and `ImdbSearch`; for TLC |
| `LookupProofs` | theorems about `ImdbSearch`, `Imdb` and `FileSystem` |
| `Inductions` | the lemmas by induction that the proofs share |

`Processes` and `Lookups` put programs that share no state next to each other: a behaviour is one of them at work,
and the variables of the others keep an idle value. Whatever is said of one of them is said in its own module.

### JobList and Shell

`jobs` is the class's map: a function from the numbers of the listed jobs to records of a state and a sequence of
processes. `Synchronize`, `AddJob`, `SetProcessState` and the others are named after the methods.

The shell's place is `pc`: at the prompt, in createJob's loop (`fork`), in sigwait (`wait`), in the loop of
waitChildSigs (`reap`), and in the four stretches of `fg` that signals or children can come between (`fgGrant`,
`fgCont`, `fgBlock`, and `stopped` by a Ctrl-Z). Everything the code does between two system calls that others can
observe is one action: `CreateJob`, then one `Fork` per process, `Launched`, one `SigWait` per signal, one `Reap`
per report, `ReapDone`. The builtins are `Bg`, `Fg`/`FgGrant`/`FgContinue`/`FgWait`, `Slay`, `Halt`, `Cont`,
`JobsOrQuit`, and `EndOfInput`.

The kernel's side: `proc` and `pgid` are the process table, `report` the one stop or continue a child has pending
for waitpid (a later one replaces it, as in Linux), `owes` the SIGCHLD of a continued child, raised when that child
is next scheduled; `mask`, `pending` and `tty` the shell's signals and the terminal. `addSigs` is a variable of its
own because the code never initialises the set with sigemptyset: any further signal may be in it, here SIGQUIT
(`AddedSigs`).

Assumed of the environment: standard input is a terminal; pids are not handed out again; nobody but the shell
continues its children; fork and the parent's setpgid are one step (the child sets the same group itself); what a
Ctrl-C or Ctrl-Z does to a job is among the steps of its processes (`ChildExits`, `ChildStops`).

### Farm and TaskFarm

`pc` names the function of `farm.cc` that runs and `count` its loop counter. `supplyfd` is the set of workers whose
pipe is open, `pipe`, `at` and `held` are a worker's unread input, its place in the loop of `factor.py` and the
number it is factoring. `halts` are the stops waitpid(WUNTRACED) has yet to report. `WaitUntraced` and `Continue`
are waitpid and kill(SIGCONT): the first returns *any* stopped or dead child, the second discards a stop that was
not reported, and does nothing to a worker that runs.

Assumed: `subprocess()` (outside the repository) forks a worker on a close-on-exec pipe; its failures are not modelled. `Kill` lets
something outside the program kill a worker at any moment, `MaxKills` times. A worker dies with the farm
(`prctl`, factor.py:14), so `Over` ends every worker. Bad input ends the farm: trailing characters stop the reading
(`StopReading`), a line that is no number throws (`NotANumber`).

### ProxyCache

A thread of the pool is at `pc[t]` in serviceRequest and the functions it calls; `req`, `index`, `name`, `own`,
`todo` and `asof` (the time it read) are its locals. `req` is the HTTPRequest object, which `Forward` changes in place (`AddHeaders`). `locked`
are the indices of the locked mutexes, `dirs` and `files` the disk. Each system call on the cache directory is an
action (`Stat`, `Exists`, `FindName`, `RemoveExpired`, `RemoveDirectory`, `Read`; `Ensure`, `MakeDirectory`,
`OpenToClear`, one `Clear` per file, `Create`, `Write`), so that threads can come between any two of them. So is each
reading of the clock for a new file's name (`FirstClock`, `SecondClock`: getCurrentTime and getExpirationTime, in
either order, as the compiler may evaluate them), and the clock may move before, between and after them. A call
that fails throws: serviceRequest catches it and answers nothing (`Drop`, `GiveUp`), and the lock is released by
the destructor of `ul`. `Tick` and `Crash` move the clock and restart the proxy; the disk stays.

A request is its method, the server of its URL, its Host header, whether it has x-forwarded-proto, the addresses of
x-forwarded-for, and the client's address; a response is its server and max-age, where 0 stands for everything that
must not be cached, an unreachable server included. Its time in the cache is counted from the creation of its file
(`stored`), in which cache.h:42 counts the proxy's own max-age; how old it was by then nobody looks at. An entry's directory is identified with the serialised request:
collisions of the 64-bit hash are not modelled, collisions of the mutexes are (`Stripe`).

Four of the properties hold under `Separate`: requests that lead to a common entry, by lookup or by store, share a
mutex. handleRequest does not ensure it. It locks the mutex of the request as it came in and stores under the hash
of the request it forwarded, so a client's request and the same one that comes through another proxy can work on one
entry under two mutexes, and the instance has such requests (`Plain` and `Twin`): file operations then fail, and
clients get no answer. The properties say what the code gives when the mutexes happen to agree, and break
without the locks.

### Tunnel and ProxyServer

`main`, `stopping` and `stage` are the places of the three kinds of threads: the main thread in the constructor,
`accept`, the test of `isRunning`, the scheduling of what accept returned, and the destructors; the signal thread in
stopServer, one assignment at a time (`stopServer`); each connection in the backlog, in the main thread's hand, in
the pool's queue, being served, in its tunnel, or over. The backlog and the pool (`Dispatch`) come from the kernel and
a library and do what `proxy.cc` and `scheduler.cc` rely on. The constructor's exceptions are caught by nobody
(`Start`). A connection that is not a tunnel is one step here (`Answer`); ProxyCache looks into it.

A tunnel has three places for a byte on its way: the socket (`net`), the stream's buffer (`inbuf`), and what
manageClientServerBridge holds between read and write (`buffer`, while `bridge` is "relay"). One iostream serves both
directions of a socket, so its end of file and its errors are one set of flags (`broken`). `ReadOne` is the read of
one byte that tells whether there is any, `Relay` the rest and the flush, `RemoveStream` the end of file, `TimeOut`
the watch set's five seconds without an event. The 64 KiB buffer is refilled until the stream has nothing left, and
is not bounded in the model. A peer numbers its bytes up to `Bytes`; when these have come through, or are lost, it may
begin again (`PeerGoesOn`), so a tunnel can be kept busy for ever.

### Pipeline and Trace

In `Pipeline` a descriptor is named for what it refers to: the ends of the pipe after a command (`R`, `W`), the files
of a redirection (`In`, `Out`), the terminal. `held` and `std` are what the shell and each child have open; fork copies
the shell's, `ClosedAfter` is what the loop of createJob closes in each turn, `Redirect` a child's dup2 and close,
`Exec` the closing of pipes (they are made with O_CLOEXEC, the files are not). Children then run: every command is a
`conduit` (`ReadFile`, `ReadPipe`, `Write`, which blocks on a full pipe or is killed by a broken one) or one that
cannot be executed. Without an opened input file the first command reads the terminal: what the user types
(`ReadTyped`, up to `MaxTyped` characters a pipeline) and its end (`EndTyped`), if they ever come. Job control is Shell's; here a foreground pipeline is waited for until its commands are gone.

In `Trace` several traces run in one directory. `compileSystemCallData` either reads the cache (`OpenToLoad`, `Load`)
or extracts the signatures, empties the file and writes them out a line at a time (`Extract`, `Truncate`, `WriteLine`),
with no lock; `Interrupt` leaves it half written. The cache (16170 bytes in the repository) is longer than what an
ifstream reads at once, so a `Load` takes a block of it that ends anywhere, also inside a line (`part`). If another trace
has emptied the file before the next block, the line goes on with nothing or with something else (`LosesTheRest`): its
types come out unknown or as those of another line (`EndInLine`, `ReadOn`), or `stoi` throws (`Throw`). The tracee is in its program, in a call, held at a call's entry or exit or by a signal, or
gone; `Resume` is PTRACE_SYSCALL, which always passes 0 and so drops the signal of a stop (a SIGTERM sent to a traced
program does nothing; no line promises otherwise). `EntryStop` and `ExitStop` are waitpid's return at a stop of a system
call, `printSyscall` and `endSyscall` the reads of registers and memory that follow, between any two of which the
tracee may be killed: the reads after its death answer -1.
`EnterAgain` and `LeaveAgain` what they do at any other, `ProgramExited` the only way out. The regular expressions
that find a line in a source are not modelled: a line is what it matches.

### FileSystem, Imdb and ImdbSearch

`UnixV6` and the first half of `Imdb` are writers: they lay a tree of files out on a disk, and a database in two
files, with the offsets and paddings the readers expect. `FileSystem` and the second half of `Imdb` are the
readers of the repository, an operator per function, which see the image and never the tree. A name
of an entry that fills its array has no terminator (`pathname_lookup`'s parameter `terminated` is what happens to lie
behind it). diskimageaccess's two traversals are actions, the recursion of DumpPathAndChildren the sequence `todo`.

`ImdbSearch` takes one actor, one film or one costar at a time. `dist` and `pred` are the maps of search.cc, `queue`
its queue, and `credits` and `cast` what is left of the loops over the films of `u` and the cast of `movie`. It works on
the answers of the database rather than on the files: `FilesAnswer` states that they are the same. A count is a short
(`Short`), as the file has it in two bytes. Where the code goes on from the end of an index (`PastTheEnd`), what it reads
there is not defined, and the reader answers `Undefined`.

## Runs

| run | bounds | what it shows |
|---|---|---|
| `shell_safety` | 3 pids, pipelines of up to 2, Ctrl-C; symmetric in the pids | seven properties over every interleaving (1.26 million states) |
| `shell_live` | 2 pids, Ctrl-Z and Ctrl-\ | `LaunchWaitEnds`: the wait of createJob ends; `KeyboardHitsShellInFgOnly` |
| `shell_fg_wait` | 1 pid | **violated**: `fg` loses the SIGCHLD that would end its wait |
| `shell_fg_demotes` | 2 pids | **violated**: a job that `fg` continued leaves the foreground while one of its processes runs |
| `shell_forward` | 1 pid, Ctrl-C | **violated**: a SIGINT that sigwait returns is not forwarded to the job |
| `farm` | 3 workers, 4 numbers, up to 2 kills, fairness | six invariants, whoever is killed, whatever the input; until a worker is killed `Farm` implements `TaskFarm`, every number is answered and the farm ends |
| `proxy_cache` | 2 threads, up to 3 connections of 5 forms of a request, 2 seconds, 1 crash, restricted by `Fewer`, fairness | seven invariants and `EveryConnectionEnds` |
| `proxy_server` | a tunnel whose peers send without end, counted by twos, and an exchange, 1 thread, a backlog of 1, 7 command lines, fairness | tunnels keep the bytes, accepted connections are served, a stopped server ends if its peers do their part (`StopEnds`) |
| `processes` | 2 pipelines of up to 3 commands, 2 bytes of input or one typed, each repeated twice; 2 traces at one cache of 4 lines, of 3 programs, with signals and kills; fairness | which descriptors stay open, what is written, and that pipelines end; the signatures are right but for lines emptied while they were read, the calls printed are those made, and traces end |
| `lookups` | images with sectors of 4 bytes and files of every size up to 32, trees of 3 or 4 files; 4 actors, 3 films, paths of up to 3 | every file, path, film and cast is found; distances and answers of the search are right |
| `proxy_misses` | 1 thread, 1 request | **violated**: a cached response is not found for the request it was cached for |
| `absent_actor` | the databases of `lookups` | **violated**: `getCredits` of a name after all others reads outside the index |

The bounds. Three pids give two jobs at once of which one is a pipeline of two: the smallest instance in which the
changes of one job's processes and another job's interleave. More keys than one multiply the states without new
control: Ctrl-C, Ctrl-Z and Ctrl-\ differ only in the shell's own reaction, which the second run covers. Four
numbers for three workers make one worker take a second number while the others are busy, halted, or dead; two
kills of three workers leave a farm in which the surviving worker is not the one `count` expects. pids are handed
out once, so `Cardinality(Pid)` bounds a behaviour's jobs. Three connections are the fewest in which one fills an
entry and two others meet over it; two seconds let a response with a max-age of one expire before the proxy's own
limit; the fifth request is one that went in a loop. `Fewer` takes out what only repeats such meetings: of three
connections the last sends a request that was sent before, another server's request and one that looped come in twos
(they meet an entry by its key, or not at all), and the crash comes before the clock shows two seconds and without `Twin`, whose
requests are under another mutex: most of the properties say nothing where mutexes do not agree.

One thread and one place in the backlog for two connections make one wait in the queue, or be refused a place, while
the other is served; the pool's limit and the backlog's are reached. Two bytes each way let a stream hold one while
the other is written, and let a side end between them; with `PeerGoesOn` they stand for any number that follow one another. The command lines are one for every way an option is taken or
refused. Three commands are the first pipeline with one in the middle, whose two pipes the shell closes in different
turns; two pipelines show what the second inherits of the first; a pipe that holds two bytes makes writers wait;
a character typed where no file was opened, an `x` or a newline, takes the place of the file's. The cache may be there from an earlier
trace, so that one trace reads it while another empties it and writes it again.
One traced program gets a signal between its calls, one passes an address that is no string, and one only exits. Sectors
of 4 bytes have two block numbers in a sector and two singly indirect blocks, so that sizes 16 and 17 lie on either
side of the doubly indirect one; a name of two letters fills its entry. Films have two or three actors, so that the
search meets a film a second time from someone else; 3 and 0 are the longest path and a length that is refused.

`CHECK_DEADLOCK FALSE` everywhere, because the programs really stop: the shell exits or is killed, the farm is done
or aborted, the proxy returns from main, a pipeline and a trace end, a lookup is answered. Beyond that, `farm.cc` may wait for ever after a worker was killed: waitForAllWorkers counts a worker
that halted *and* was killed twice, so closeAllWorkers can continue a worker before its last stop, which then never
ends. The models keep these states; `FarmEnds`, `NumbersAreAnswered` and `ImplementsTaskFarm` speak of what happens until a
worker is killed.

Fairness. `Shell`: weak fairness of the shell's own steps (`Run`): the operating system schedules the shell. None is
assumed of the children, the keyboard or the user's typing, and none is needed: `LaunchWaitEnds` starts from a
state in which the kernel runs no process of the job. `Farm`: weak fairness of the farm's steps but for reading input, and of
each worker's steps; a stopped worker has none enabled, so no fairness forces a stopped process to run.
`ProxyCache`: weak fairness of the proxy's own steps (`Works`), which the operating system schedules; none of the clients
and origins. No read or write of the proxy has a time limit, so the premise of `EveryConnectionEnds` says what a
connection needs: that its own origin answers and its own client reads, and that every client that is sent a *cached*
response under the same mutex reads it (request-handler.cc:126 writes while it holds the mutex). Peers of connections
that are not served from the cache hold no mutex and are not in the premise. A mutex is not fair, but between
`MaxConnections` connections nobody can be overtaken for ever.
`ProxyServer`: weak fairness of the main thread's steps (not of accept failing), of stopServer's, of the pool, and of a
tunnel's watch set and teardown: where nothing is sent `TimeOut` is enabled, and its clock fires. The tunnel's loop does
not look at `isRunning` and nobody tells the threads at work that the server was stopped, so the premise of `StopEnds`
says what it takes: requests and responses come and are taken (`Answer`, `OpenTunnel`), what a tunnel writes is read
(`Takes`), and one day neither side of a tunnel sends any more. Without any one of the three the run finds a server that
never ends.
`Processes`: weak fairness of the shell's steps, of each child but where it reads the terminal, of each tracer and each
tracee; nobody has to type, to end what is typed, to kill or to interrupt. `PipelineEnds` is about pipelines whose first
command reads a file or is gone.

Every property of a passing run is violated by a mutant of a definition it depends on: the operators commented
"Slip" in the modules.

## What the violated runs say

* `fg` blocks SIGCHLD and at once unblocks it (stsh.cc:157-158). A child that exited while the shell was at the
  prompt, or exits before line 169, raises a SIGCHLD with its default disposition: it is discarded, and waitSigs
  sleeps though "child processes" (stsh.cc:121) have something to report. In the same window a Ctrl-C kills the
  shell: `KeyboardHitsShellInFgOnly` shows that it is the only one.
* `synchronize` moves a job to the background when no *recorded* process runs; after `fg` the records are stale
  until the continue reports arrive, and reports arrive one by one.
* `WIFSTOPPED(sig)` (stsh.cc:131) tests a wait status; for SIGINT and SIGTSTP it is false.
* forwardRequest adds headers to the request (request-handler.cc:104) before cacheEntry hashes it (143): the entry is
  not where the next lookup of that request goes. A lookup finds it only for a request that already has the headers.
* `getCredits` promises to return "true if and only if the specified actor/actress appeared in the database, and false
  otherwise" (imdb.h:47). For a name that comes after all others `lower_bound` answers the end of the index, and
  imdb.cc:90-93 takes it for an entry: it reads bytes of the first name as an offset and compares whatever is there.
  `getCast` does the same for a film after all others.

## What else the models record

These are in the models as the code has them. No line of the repository promises otherwise, so no run refutes one, but
a reader of the properties meets them as exceptions.

* `directory_findname` compares as many letters as the name looked for has: it finds an entry that merely begins
  with it, and the empty name finds the first. `PathsAreFound` says when the right one is found: `Distinct` asks
  that names are not empty, that none stands before one whose name it begins with, that a directory's name leaves room
  for a terminator (one of 14 letters fills its array in `pathname_lookup`), and that a directory has no more than
  the 10000 entries that are listed. An entry for an inode that was
  freed fails an assertion (diskimageaccess.c:169).
* `getCount` answers a short: an actor with 32768 films or more, or a film with such a cast, comes back with none. The
  files cannot hold such counts otherwise; `FilesAssumption` excludes them.
* Stopping the proxy does not end the connections at work (see Fairness, `StopEnds`), and a client that does not read a
  cached response holds up all connections of its mutex (`EveryConnectionEnds`).
* A response's own max-age counts from its storing, which may come long after its arrival when its mutex is held.
* A half-closed tunnel loses the bytes of the other direction: the end of file sets the flags of the stream that is
  written to. The client is told OK though the server could not be connected. What the client sent so early that
  it was read with the request shows no event: it waits for the next byte or is lost at the timeout.
* One failure of accept ends the proxy (`Throw`), and what the constructor throws ends it with no message (`Start`).
* The shell keeps the descriptor of every redirection, and all later children inherit them (`OnlyRedirectionsLeak`
  allows exactly these).
* A pipeline whose input file cannot be opened reads the terminal instead (stsh.cc:300 looks at no error): what the user
  types goes where the file should have gone, and nobody ends it but the user.
* trace loops for ever when the tracee is killed, and the last line it printed may have -1 for what it could no longer
  read; it drops every signal of the tracee; it reports the status of `exit_group`'s argument, which is not the
  exit status for a program that calls `exit` or passes 256 or more; reading a string argument at an address
  that is no memory ends when the memory of the tracer does (`RunOutOfMemory`). While one trace rebuilds the cache,
  another that reads it may print a call with `<unknown>` or another call's types, or end with an exception (`Misread`,
  `Throw`).

## Proofs

The theorems hold for every value of the constants under the modules' assumptions:

* `ShellAssumption` (the shell is not one of its own children, pipelines are not empty), `FarmAssumption` (at least
  one CPU), `ProxyAssumption` (types, and that `None` is not a file's name: any number of threads, any requests, any
  assignment of mutexes), `SearchAssumption` (types only: any database), `ServerAssumption` and `TunnelAssumption` (a
  pool of at least one thread; any connections and any number of bytes).
* `PipelineAssumption`: types, and that a pipe has room for what a conduit writes of one character at once
  (`PipeSize >= Count`). Any input, any number of pipelines of any length, any text typed (`MaxTyped` bounds its length,
  by any number).
* `TraceAssumption` and `ProgramAssumption`: types; that a macro names at most as many arguments as trace has
  registers for (it would read past the table `REG`, trace.cc:31, otherwise); and what the kernel gives: an exit ends a
  program, nothing else does, and a call has the arguments its macro names.
* `FilesAssumption`: a database has finitely many actors and films, texts have a length, and its two files refer only to
  records that they hold (a film in somebody's credits has a cast, an actor in a cast has credits), and no count exceeds
  the short that getCount returns (`FitsShort`).
* `SizesAreNat` and `TreesFit`: a sector holds a whole number of inodes, block numbers and entries; a file that is small
  has no more blocks than an inode has addresses, a large one no more than its indirect blocks can number, and the
  inodes have room before the first file. Any geometry and any trees that an image of it can hold. `DirectoriesFit`:
  there is a root, a directory's size is that of its entries, and an entry has an inode of the tree or, deleted, none.
  Entries may be in any directories, also in cycles, and have any names. TLC evaluates all of these on the instances.

**Shell.** `IInv` is `TypeOK`, `Places` (what the shell is doing and on whose behalf, which signals it blocks),
`Forking`, `Kernel`, `Entries` (every entry is a child of its own in its job's group, marked terminated exactly when
reaped), `Listing` (every listed job has a process left; every child is listed) and `ForegroundIsAttended`.
`JobGroupsAreLive` is not inductive: that a listed job has an unreaped process needs the records to agree with the
kernel on terminations, which needs that no pid is in two entries. `Invariance` proves `Spec => []IInv`, one lemma
per conjunct; `TypeCorrectness`, `ForegroundDiscipline`, `GroupsAreLive`, `ChildrenStayListed` follow, and
`KeyboardIsDeferred` proves the action property from `Places`. Three more invariants are inductive beside `IInv`:

* `Follows`: a child without a report is what its entry says. Every step but a fork and a reap leaves each child as it
  was or reportable (`ChangesAreReported`), a reap writes what the kernel says. `ListIsCurrent` follows.
* `NeverContinued`: no process of a job that createJob waits for was continued, as only builtins continue. With
  `Follows`, a process of that job whose entry is not running does not run, and `synchronize` takes a job out of the
  foreground only when no entry runs (`SynchronizeDemotes`): `LaunchedLeavesIdle`.
* `Wakeups`: SIGCHLD is blocked wherever a child's change must not be lost, up to the window of `fg`; what is lost there
  is reaped before the shell is back at the prompt, as `fg` always comes to a wait (its job's group is live, and its job
  is in the foreground). `WaitIsWoken` follows.

**Farm.** `IInv` is `TypeOK`, `Hand` (the number in hand), `Workers` (a worker stops, and has a number in its pipe,
only at its input; a stopped worker with a number is the one about to be continued), `Reported` (which stops and
ends waitpid has already returned), `NumbersConserved`, `Counted` (the reaping loop reaped one worker per turn or
none is left), and `Undisturbed` (while nobody is killed, the collecting loop has counted distinct halted workers,
and the pipes are closed when all halted with nothing to do). The counting arguments are the point where small
instances say little: a loop that runs `kNumCPUs` times and meets a different worker each time has met all of them
(`AllWorkers`, `ReapTurn`, `CollectTurn`). From `Invariance` follow the six safety properties, among them that
`assert(false)` and the assertion at the end of closeAllWorkers never fail, even with workers killed. `Refinement`
proves `Spec => ImplementsTaskFarm`, that every step up to the first kill is one of `TaskFarm` or a stutter: `ReadNumber` is Supply, `WriteNumber` Assign, `Factor`
Answer, the last turn of `WaitForAllWorkers` Close, and every other step stutters.

**ProxyCache.** `IInv` is `TypeOK`, `Places` (what a thread has where it needs it), `Mutexes` (the locked mutexes are
those of the threads that work on an entry, each its own), `Origins` (which request a thread's mutex and entry come
from) and `Fresh` (no file's name promises more than its response permits, counted from the file's creation: both readings of the
clock for the name come before it, so an expiration one second beyond creation time and max-age *as the name has them* is
not one beyond the time in the cache). `MutualExclusion` follows from `Mutexes`
and `Origins`: two threads on one entry would, under `Separate`, have locked the same mutex. `Freshness` follows
from `Fresh` without any assumption on the mutexes: whoever wrote a file wrote its expiration into its name first.
`Owned` (if every request names its server, what is stored under a host came from it) is inductive beside `IInv`, and
`OwnResponses` follows. `Disk` says, under `Separate`, that an entry has at most one file, that only a file being
written is not whole (`Halves`, until a crash), and what each thread may rely on between two file operations (`OnDisk`:
the directory and the file it found are still there, a directory it emptied is still empty). `Separate` only ever gets
stronger as requests come in, so `Disk` needs no other premise; it is inductive because a step touches the entry of
its own thread only (`ServiceLeaves`) and no other thread works on that entry (`Locked`). `NoExceptions`,
`OneFileEach` and `WholeResponses` follow; a crash in the middle of any of the steps is among the steps.

**ImdbSearch.** That every distance is right is no invariant by itself, because a film is looked at once, for the first
actor whose credits name it, and its cast is then skipped for all others. `IInv` adds to `SearchTypeOK` why this is
enough: `QueueInOrder` (the queue is sorted by distance and spans at most two, `u` not beyond them), `EvaluatedFirst`
(who was evaluated is not beyond anyone in the queue), `FilmsLookedAt` (a film looked at was looked at for somebody who is
not beyond those to come, and all its cast is within one step of him), `Loops` (what the two loops no longer hold was
done), `Neighbours` (the whole neighbourhood of an evaluated actor has a distance within one step), `Predecessors` and
`Walk` (the path printed goes back by one distance with each connection). `DistancesAreRight` follows.
`AnswersAreShortest` compares the path with every chain of films: by `ChainsAreVisited`, actor i of a chain from the
source has a distance of at most i, as long as everyone nearer than the chain is long was evaluated. That is an
induction over the natural numbers, taken from `LeastNatural` of `Inductions`.

**Imdb.** `CountsAreFound`: `getCount` works out from the length of a text, by its parity and by the remainder of four,
the same places that the layout gives to the count and the offsets. `FilesAreRight` takes this to whole files. A file is
the union of its pieces (the index, and of each record its text, its count and its references). `RecordsFollow`, an
induction over the records, says that each begins where the one before ends, at whatever length; so no two pieces
overlap and each is read as it was written (`RecordsAreRead`, `FilesAreRead`). `Enumeration` shows that the records can be
in order, which the binary search needs: it finds the record that is there, and for an actor who is not it finds the
end or somebody else's record (`ActorIsFound`, `MovieIsFound`). `getCredits`, `getCast` and imdbtest's listing of
costars follow (`CreditsAnswer`, `CastAnswers`, `CostarsAnswer`). Of a name or a film after all those of the file nothing
is said: the code reads what lies behind the index (`Undefined`; `absent_actor` is the run). That a count comes back as it
was written is where `FitsShort` is needed.

**FileSystem.** `DumpInv` is `InodesAreDumped` with what the image is: the sectors that `UnixV6` lays out for the tree.
It is inductive as soon as one line is known to be right, and the work is in that: `Division` and `Unique` (a number has
one quotient and one remainder), `SectorOf` (the spans of two files do not overlap), from these what a sector of an image
holds (`InodeSector`, `DataSector`, `SingleSector`, `DoubleSector`), `BlockFound` (inode_indexlookup finds the block
that was written, in each of its three cases and at the boundary between the last two), `SizeInBlocks` and `BlockIsRead`
(where a file ends in its last block, none for an empty file), `FileIsSummed`, `FileIsMapped`, `RightIsPrinted`. That all
inodes are listed when the traversal is over needs `Room`: the sectors of the i list hold at least as many inodes as
there are files. `InodesAreRight` is the result.

For -p, the entries of a directory are read as they were written (`BlocksCover`, `InBlock`, `EntriesAreRead`: a sector
holds a whole number of them, and none is lost or read twice where one block ends and the next begins), and a name is
found at its own entry (`NameIsFound`). A `Trail` is the files that a path leads through; `LookupFollows` shows, by
induction along it, that `pathname_lookup` ends where the trail does, whatever lies behind an array without terminator.
`WalkInv` is about the stack of DumpPathAndChildren, `todo`: every call on it and every line printed has a trail to its
inode (`Resolved`) and stands below a file printed before (`Reached`), no path is met twice (`Once`, `Apart`), and
what is below a printed file is printed or on the stack (`Complete`). The trail is needed for the step: it makes the two
checksums those of one inode, so the walk goes on below every directory. That no path is met twice is inductive because
a path determines the directory above it (`PathsBelow`), whose own path was met once (`NothingTwice`). At the end the
stack is empty, and `PathsAreRight` follows.

**ProxyServer.** `SInv` is `Types`, `Queues` (nobody waits twice, and exactly those wait whose stage says so), `Pool`,
`Accepted` (what accept returned is with the main thread and nowhere else), `Stops` (a socket shut down, a dropped
connection and a failure each have their cause) and `Ended`. The order of stopServer's two assignments is in
`Stops`: once the socket is shut down `isRunning` is false, so a woken accept is never taken for a failed one.
`ConnectionsAreServed` follows.

**Tunnel.** `TunnelInv` says of each tunnel that what a side was given and what is on the way to it make up what the
other sent (`Carried`), that a stream breaks only when its peer has ended or never was there (`Breaks`), that a stream
holds nothing between two reads but what came with the request (`Early`), that a side no longer watched is broken and
has ended (`Watched`), and what is left in a tunnel that went down (`Left`). `Early` is the step that makes `Left`
inductive: a timeout sees that the sockets are empty, and nothing but `Early` says that the streams are. The tunnel's
theorem `BytesAreKept` is about the whole proxy's `Spec`, whose other steps leave the tunnels alone.

**Pipeline.** `Descriptors` says for every point of the forks which descriptors the shell holds: at most the pipe ends
that a later child needs (`EndsToPass`) and the files of redirections; and that a running child has none but its
standard ones. `NoPipeEndLeaks` follows by counting the descriptors of one job. For the bytes, `FlowInv` adds that the
shell holds *at least* what the next child needs (`ShellPasses`), that children are forked in order (`InOrder`), that
each takes its own ends (`ChildUses`), and two invariants of the data: `Ends` (a command that came to the end of its
input had read everything, and the one before it is gone) and `Flows`. What a first command is given (`Given`) is the
input file or, where none was opened, what has been typed so far; the file's part not yet read is `Rest`. `Flows` is stated with what each command has
read and passed on, which no variable records: these exist such that what a command has read is what it has passed on
and the character it holds, and what it has passed on, each character as often as `conduit` repeats it, is what the
next has read and what is still in their pipe. A step shows its new ones from the old. `OutputsAreWhole` composes this
along the pipeline: the prefix of one command is repeated to the prefix of the next (`RepeatedConcat`,
`RepeatedTwice`: a chain of n conduits repeats as one whose count is the n-th power), so the file holds a prefix of
what the chain makes of the input, and all of it if every one came to its end.

**Trace.** `CompileInv` is about the cache file that any number of traces share without a lock: it holds right
lines and holes (`CacheHasRightLines`: who opens it for writing empties it under another that then writes on behind its
end), and one of its writers has found everything before its own place right (`CacheHasAWriter`), or nobody has emptied
the cache that was there from the start (`Untouched`), so that it is whole when all of them are through. It holds because all write the same lines from the same sources, each from the start, and
a reader takes nothing from a hole. What a reader knows is right but for the names of the lines it lost (`KnownMaps`,
`misread`), and a line is lost only to another trace that has emptied the file (`NotAlone`). `RightSignatures` follows. `TracerInv` relates the tracer's place to the tracee's:
`InStep` (at which stop of which call the two meet), `Counted` (how many of the calls made have been printed) and
`Printed` (the lines are the calls made, with their own results, but for the last line of a killed process, where what was
to be read after its death is -1). Signals come at any point in between and stop the tracee
without a system call; that `EnterAgain` and `LeaveAgain` leave the two in step is what the invariant shows.
`CallsAreTraced` follows.

**Inductions.** The library's theorems about induction have an operator for a parameter, which the provers cannot
instantiate. These lemmas give the formula as the *set* of the values it holds of: `LeastNatural` (a set of naturals has
a least element), `UpTo` and `OnSequences` (a set that contains the first value and with each value the next contains
all), `LastPosition`, and from them that the functions chosen by a fold or a recursive definition exist and satisfy
their equations (`FoldExists`, `RecursionExists`). A definition such as `Repeated` is then reasoned about by its
equations.

Only model-checked: liveness (`LaunchWaitEnds`, `NumbersAreAnswered`, `FarmEnds`, `EveryConnectionEnds`, `StopEnds`,
`PipelineEnds`, `TraceEnds`: fairness and ENABLED are beyond the prover) and the properties the code violates.
Every other property of a passing run, the refinement of `TaskFarm` included, is a theorem.

## Plan

Done: the shell, the farm, the proxy's cache, its tunnels and its server, pipelines, trace, file system and imdb.
What would add most next:

1. `JobControl`, an abstract shell (jobs launched, resumed, reported, forgotten) that `Shell` implements.
2. A tunnel whose peers wait for each other's bytes, over a proxy chain.

## Not modelled

* rss_thread has no code.
* shell: turning a line into a pipeline is a library; `split` only prints its arguments; what the shell prints.
* trace: the regular expressions, the exceptions for header files that are not there, how a result is written.
* proxy: the text of requests, responses and payloads (`request.cc`, `response.cc`, `header.cc`, `payload.cc`), of which
  `ProxyCache` keeps what the cache and the forwarding look at; `strike-set.cc`'s regular expressions, of which it keeps
  the set of blocked servers; the empty `setProxy`.
* file_dir: `PrintDirectory` and `diskimg_writesector` are never called; failures of read on the image; the array of
  1024 characters that DumpPathAndChildren writes a path to, and the depth of its recursion (for directories in a cycle
  the walk has no end, so `PathsAreFound`, which speaks of its end, says nothing).
* imdb: `undoConnection` is never called; database files that are missing or damaged.
* The thread pool, `subprocess()`, the sockets and the streams come from libraries outside the repository; the
  models have what the code relies on.

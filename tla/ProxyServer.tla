------------------------------ MODULE ProxyServer -----------------------------
(* The proxy from main to the threads of its pool: the listening socket, the   *)
(* loop that accepts, the thread that waits for signals and stops the server,  *)
(* and the connections being served.  A connection is a tunnel (see Tunnel) or *)
(* an exchange of one request and its response, which ProxyCache looks into.   *)
EXTENDS Tunnel, FiniteSets

CONSTANTS
  NumThreads,         \* threads in the pool (64)
  kMaxQueuedRequests, \* connections that wait for accept (128)
  Arguments,          \* command lines: sequences of options
  DefaultPort, MaxPort

ASSUME ServerAssumption ==
  /\ NumThreads \in Nat \ {0} /\ kMaxQueuedRequests \in Nat \ {0}
  /\ MaxPort \in Nat /\ DefaultPort \in 1 .. MaxPort
  /\ Conn \cap {"nothing", "shut down", "error"} = {}

VARIABLES
  main,        \* where the main thread is
  options,     \* what the command line sets
  got,         \* what accept returned: a connection, or why there is none
  isRunning,
  listening,   \* the listening socket has not been shut down
  backlog,     \* connections that accept has not returned
  queue,       \* the thunks scheduled that no thread has begun
  stopping,    \* how far the signal thread is in stopServer; 0 before a signal
  stage,       \* where each connection is
  status       \* what main returns

serverVars == <<main, options, got, isRunning, listening, backlog, queue, stopping, stage, status>>
vars == <<serverVars, tunnelVars>>

-------------------------------------------------------------------------------
(* configureFromArgumentList.  An option is its flag and its value; one that   *)
(* is no number, or no name, is like one out of range: 0, or -2 for an age.    *)
Defaults == [port |-> DefaultPort, proxyPort |-> DefaultPort, usingProxy |-> FALSE,
             specific |-> FALSE, clear |-> FALSE, thrown |-> FALSE]

extractPortNumber(o, option, field) ==
  IF option.value \in 1 .. MaxPort THEN [o EXCEPT ![field] = option.value] ELSE [o EXCEPT !.thrown = TRUE]

NoServer(option) == option.value = 0                 \* extractProxyServer
OutOfRange(option) == option.value < -1              \* extractLongInRange

WithOption(o, option) ==
  CASE o.thrown -> o
    [] ~o.thrown /\ option.flag = "port" -> extractPortNumber(o, option, "port")
    [] ~o.thrown /\ option.flag = "proxy-port" -> [extractPortNumber(o, option, "proxyPort") EXCEPT !.specific = TRUE]
    [] ~o.thrown /\ option.flag = "proxy-server" ->
         IF NoServer(option) THEN [o EXCEPT !.thrown = TRUE] ELSE [o EXCEPT !.usingProxy = TRUE]
    [] ~o.thrown /\ option.flag = "clear-cache" -> [o EXCEPT !.clear = TRUE]
    [] ~o.thrown /\ option.flag = "max-age" -> [o EXCEPT !.thrown = OutOfRange(option)]
    [] OTHER -> [o EXCEPT !.thrown = TRUE]

Configured(arguments) ==
  LET o == FoldLeft(WithOption, Defaults, arguments)
  IN  [o EXCEPT !.thrown = @ \/ (o.specific /\ ~o.usingProxy),
                !.proxyPort = IF o.specific THEN @ ELSE o.port]

ServerInit ==
  /\ main = "start" /\ options = Defaults /\ got = "nothing"
  /\ isRunning = TRUE /\ listening = FALSE
  /\ backlog = <<>> /\ queue = <<>> /\ stopping = 0
  /\ stage = [c \in Conn |-> "away"] /\ status = 0

Init == ServerInit /\ TunnelInit

(* createServerSocket and configureServerSocket. *)
Listens(works) == works["socket"] /\ works["bind"] /\ works["listen"]

(* The constructor.  What it throws nobody catches. *)
Start ==
  /\ main = "start"
  /\ \E arguments \in Arguments, works \in [{"socket", "bind", "listen"} -> BOOLEAN] :
       LET o == Configured(arguments)
       IN  /\ options' = o
           /\ listening' = (~o.thrown /\ Listens(works))
           /\ main' = IF listening' THEN "accept" ELSE "terminated"
  /\ UNCHANGED <<got, isRunning, backlog, queue, stopping, stage, status, tunnelVars>>

Connect(c) ==
  /\ stage[c] = "away" /\ listening /\ Len(backlog) < kMaxQueuedRequests
  /\ backlog' = Append(backlog, c)
  /\ stage' = [stage EXCEPT ![c] = "backlog"]
  /\ UNCHANGED <<main, options, got, isRunning, listening, queue, stopping, status, tunnelVars>>

-------------------------------------------------------------------------------
(* runServer *)
Accept ==
  /\ main = "accept" /\ listening /\ backlog # <<>>
  /\ got' = Head(backlog) /\ backlog' = Tail(backlog)
  /\ stage' = [stage EXCEPT ![Head(backlog)] = "accepted"]
  /\ main' = "check"
  /\ UNCHANGED <<options, isRunning, listening, queue, stopping, status, tunnelVars>>

AcceptReturns(why) ==
  /\ main = "accept"
  /\ got' = why /\ main' = "check"
  /\ UNCHANGED <<options, isRunning, listening, backlog, queue, stopping, stage, status, tunnelVars>>

(* accept on a socket that was shut down fails at once; on another it may fail *)
(* for reasons of its own.                                                     *)
AcceptIsWoken == ~listening /\ AcceptReturns("shut down")
AcceptFails == listening /\ AcceptReturns("error")

(* A stopped server returns; what was accepted meanwhile is left unanswered. *)
Stopped ==
  /\ main = "check" /\ ~isRunning
  /\ main' = "drain"
  /\ stage' = [c \in Conn |-> IF stage[c] = "accepted" THEN "dropped" ELSE stage[c]]
  /\ UNCHANGED <<options, got, isRunning, listening, backlog, queue, stopping, status, tunnelVars>>

Throw ==
  /\ main = "check" /\ isRunning /\ got \notin Conn
  /\ status' = 1
  /\ main' = "drain"
  /\ UNCHANGED <<options, got, isRunning, listening, backlog, queue, stopping, stage, tunnelVars>>

Schedule ==
  /\ main = "check" /\ isRunning /\ got \in Conn
  /\ main' = "schedule"
  /\ UNCHANGED <<options, got, isRunning, listening, backlog, queue, stopping, stage, status, tunnelVars>>

ScheduleRequest ==
  /\ main = "schedule"
  /\ queue' = Append(queue, got)
  /\ stage' = [stage EXCEPT ![got] = "queued"]
  /\ main' = "accept"
  /\ UNCHANGED <<options, got, isRunning, listening, backlog, stopping, status, tunnelVars>>

(* The destructor of the pool waits for its threads and all that was scheduled. *)
Busy == {c \in Conn : stage[c] \in {"serving", "tunnel"}}

PoolEnds ==
  /\ main = "drain" /\ queue = <<>> /\ Busy = {}
  /\ main' = "ended"
  /\ listening' = FALSE /\ backlog' = <<>>
  /\ stage' = [c \in Conn |-> IF stage[c] = "backlog" THEN "dropped" ELSE stage[c]]
  /\ UNCHANGED <<options, got, isRunning, queue, stopping, status, tunnelVars>>

-------------------------------------------------------------------------------
(* The signal thread: SIGINT or SIGTSTP, then the steps of stopServer.         *)
\* Slip: accept is woken before it can know why.
ShutdownFirst == <<"shutdown", "isRunning">>
\* Slip: accept is not woken.
NoShutdown == <<"isRunning">>
stopServer == <<"isRunning", "shutdown">>

Signal ==
  /\ main \notin {"start", "terminated", "ended"} /\ stopping = 0
  /\ stopping' = 1
  /\ UNCHANGED <<main, options, got, isRunning, listening, backlog, queue, stage, status, tunnelVars>>

StopStep ==
  /\ stopping \in 1 .. Len(stopServer) /\ main # "ended"
  /\ stopping' = stopping + 1
  /\ \/ /\ stopServer[stopping] = "isRunning"
        /\ isRunning' = FALSE
        /\ UNCHANGED <<listening, backlog, stage>>
     \/ /\ stopServer[stopping] = "shutdown"
        /\ listening' = FALSE /\ backlog' = <<>>
        /\ stage' = [c \in Conn |-> IF stage[c] = "backlog" THEN "dropped" ELSE stage[c]]
        /\ UNCHANGED isRunning
  /\ UNCHANGED <<main, options, got, queue, status, tunnelVars>>

-------------------------------------------------------------------------------
(* The pool's threads take the thunks in order; serviceRequest reads a request *)
(* as long as the client takes to send one.                                    *)
Dispatch ==
  /\ queue # <<>> /\ Cardinality(Busy) < NumThreads
  /\ queue' = Tail(queue)
  /\ stage' = [stage EXCEPT ![Head(queue)] = "serving"]
  /\ UNCHANGED <<main, options, got, isRunning, listening, backlog, stopping, status, tunnelVars>>

ToStage(c, s) ==
  /\ stage' = [stage EXCEPT ![c] = s]
  /\ UNCHANGED <<main, options, got, isRunning, listening, backlog, queue, stopping, status>>

(* The request is refused, or answered from the cache or the origin server. *)
Answer(c) == stage[c] = "serving" /\ ToStage(c, "over") /\ UNCHANGED tunnelVars

OpenTunnel(c) == stage[c] = "serving" /\ c \in IsConnect /\ HandleConnect(c) /\ ToStage(c, "tunnel")

InTunnel(c) == stage[c] = "tunnel" /\ bridge[c] # "down" /\ TunnelStep(c) /\ UNCHANGED serverVars

CloseTunnel(c) == stage[c] = "tunnel" /\ bridge[c] = "down" /\ ToStage(c, "over") /\ UNCHANGED tunnelVars

Peers(c) == c \in IsConnect /\ stage[c] \in {"backlog", "accepted", "queued", "serving", "tunnel"} /\ PeerStep(c) /\ UNCHANGED serverVars

-------------------------------------------------------------------------------
MainStep ==
  \/ Accept \/ AcceptIsWoken \/ Stopped \/ Throw \/ Schedule \/ ScheduleRequest \/ PoolEnds

ThreadStep(c) == OpenTunnel(c) \/ InTunnel(c) \/ CloseTunnel(c)

Next ==
  \/ Start \/ MainStep \/ AcceptFails
  \/ Signal \/ StopStep
  \/ Dispatch
  \/ \E c \in Conn : Connect(c) \/ Answer(c) \/ ThreadStep(c) \/ Peers(c)

(* The threads run where nothing but the operating system is waited for.  That *)
(* a client sends its request, that an origin server answers, and that either  *)
(* reads what is written to it is up to them: no read or write has a limit.    *)
Watches(c) == stage[c] = "tunnel" /\ WatchStep(c) /\ UNCHANGED serverVars

Fairness ==
  /\ WF_vars(MainStep) /\ WF_vars(StopStep) /\ WF_vars(Dispatch)
  /\ \A c \in Conn : WF_vars(Watches(c) \/ CloseTunnel(c))

Spec == Init /\ [][Next]_vars /\ Fairness

-------------------------------------------------------------------------------
(* Every connection that accept returned waits in the queue once, is served by *)
(* one of the threads or is over; those left out are the ones still waiting    *)
(* when the server stops, however the signal falls between accept and the      *)
(* test.  The server ends with a failure only if accept itself failed, and     *)
(* never leaves a thread at work.                                              *)
AcceptedAreServed ==
  /\ IsInjective(queue) /\ ToSet(queue) = {c \in Conn : stage[c] = "queued"}
  /\ ToSet(backlog) = {c \in Conn : stage[c] = "backlog"}
  /\ Cardinality(Busy) <= NumThreads
  /\ \A c \in Conn :
       /\ stage[c] = "accepted" <=> got = c /\ main \in {"check", "schedule"}
       /\ stage[c] = "dropped" => ~isRunning \/ main = "ended"
  /\ status = 1 => got = "error"
  /\ main = "ended" => \A c \in Conn : stage[c] \in {"away", "dropped", "over"}

(* A stopped server ends: accept is woken, what was accepted is served to its  *)
(* end, and every tunnel comes down, at the latest when it times out.  But     *)
(* nobody tells the threads at work, so this takes peers that do their part on *)
(* every connection: the request and its response come and are taken, what the *)
(* tunnel passes on is read, and one day neither side sends any more.          *)
Takes(c) == stage[c] = "tunnel" /\ Relay(c) /\ UNCHANGED serverVars

PeersDoTheirPart(c) ==
  /\ WF_vars(Answer(c) \/ OpenTunnel(c))
  /\ WF_vars(Takes(c))
  /\ <>[][~SomeoneSends(c)]_vars

StopEnds == (\A c \in Conn : PeersDoTheirPart(c)) => ((stopping > 0) ~> (main = "ended"))
===============================================================================

---------------------------- MODULE ServerProofs -----------------------------
(* The proxy's server for any number of connections, threads and waiting       *)
(* connections: no connection that accept returned is lost, whenever the       *)
(* signal falls (AcceptedAreServed).                                           *)
EXTENDS ProxyServer, FiniteSetTheorems, SequenceTheorems, TLAPS

Types ==
  /\ main \in {"start", "terminated", "accept", "check", "schedule", "drain", "ended"}
  /\ got \in Conn \cup {"nothing", "shut down", "error"}
  /\ isRunning \in BOOLEAN /\ listening \in BOOLEAN
  /\ backlog \in Seq(Conn) /\ queue \in Seq(Conn)
  /\ stopping \in {0, 1, 2, 3} /\ status \in {0, 1}
  /\ stage \in [Conn -> {"away", "backlog", "accepted", "dropped", "queued", "serving", "tunnel", "over"}]

(* Who waits, waits once. *)
Queues ==
  /\ IsInjective(queue) /\ ToSet(queue) = {c \in Conn : stage[c] = "queued"}
  /\ IsInjective(backlog) /\ ToSet(backlog) = {c \in Conn : stage[c] = "backlog"}

Pool == IsFiniteSet(Busy) /\ Cardinality(Busy) <= NumThreads

Accepted == \A c \in Conn : stage[c] = "accepted" <=> got = c /\ main \in {"check", "schedule"}

(* Only a server told to stop stops listening, drops connections or finds its  *)
(* socket shut down; only a failure of accept ends it otherwise.               *)
Stops ==
  /\ stopping >= 2 => ~isRunning
  /\ main \in {"accept", "check", "schedule", "drain"} /\ ~listening => ~isRunning
  /\ got = "shut down" => ~isRunning
  /\ main \in {"check", "schedule"} => got # "nothing"
  /\ main = "schedule" => got \in Conn
  /\ \A c \in Conn : stage[c] = "dropped" => ~isRunning \/ main = "ended"
  /\ status = 1 => got = "error" /\ main \in {"drain", "ended"}

Ended ==
  main = "ended" => ~listening /\ \A c \in Conn : stage[c] \in {"away", "dropped", "over"}

SInv == Types /\ Queues /\ Pool /\ Accepted /\ Stops /\ Ended
------------------------------------------------------------------------------
\* One who joins the end of a queue without being in it waits once.
LEMMA Joins ==
  ASSUME NEW S, NEW s \in Seq(S), NEW e \in S, IsInjective(s), e \notin ToSet(s)
  PROVE  /\ Append(s, e) \in Seq(S) /\ IsInjective(Append(s, e))
         /\ ToSet(Append(s, e)) = ToSet(s) \cup {e}
<1>. DEFINE t == Append(s, e)
            n == Len(s)
<1>1. /\ n \in Nat /\ DOMAIN s = 1 .. n
      /\ t \in Seq(S) /\ DOMAIN t = 1 .. n + 1 /\ t[n + 1] = e /\ \A i \in 1 .. n : t[i] = s[i]
  BY AppendProperties, LenProperties
<1>2. \A i \in 1 .. n : t[i] # e
  BY <1>1 DEF ToSet
<1>3. IsInjective(t)
  <2>. SUFFICES ASSUME NEW i \in 1 .. n + 1, NEW j \in 1 .. n + 1, t[i] = t[j] PROVE i = j
    BY <1>1 DEF IsInjective
  <2>1. CASE i = n + 1 \/ j = n + 1
    BY <1>1, <1>2, <2>1
  <2>2. CASE i # n + 1 /\ j # n + 1
    BY <1>1, <2>2 DEF IsInjective
  <2>. QED
    BY <2>1, <2>2
<1>4. ToSet(t) = ToSet(s) \cup {e}
  <2>1. \A i \in 1 .. n + 1 : i \in 1 .. n \/ i = n + 1
    BY <1>1
  <2>2. n + 1 \in 1 .. n + 1 /\ \A i \in 1 .. n : i \in 1 .. n + 1
    BY <1>1
  <2>. HIDE DEF t
  <2>. QED
    BY <1>1, <2>1, <2>2 DEF ToSet
<1>. QED
  BY <1>1, <1>3, <1>4

\* The first of a queue, where all wait once, leaves the others.
LEMMA Leaves ==
  ASSUME NEW S, NEW s \in Seq(S), s # <<>>, IsInjective(s)
  PROVE  /\ Head(s) \in S /\ Head(s) \in ToSet(s)
         /\ Tail(s) \in Seq(S) /\ IsInjective(Tail(s)) /\ ToSet(Tail(s)) = ToSet(s) \ {Head(s)}
<1>. DEFINE t == Tail(s)
            n == Len(s)
<1>1. /\ n \in Nat \ {0} /\ DOMAIN s = 1 .. n /\ s[1] = Head(s) /\ Head(s) \in S
      /\ t \in Seq(S) /\ Len(t) = n - 1 /\ DOMAIN t = 1 .. n - 1 /\ \A i \in 1 .. n - 1 : t[i] = s[i + 1]
  BY EmptySeq, HeadTailProperties, LenProperties
<1>. HIDE DEF t, n
<1>2. \A i, j \in 1 .. n : s[i] = s[j] => i = j
  BY <1>1 DEF IsInjective
<1>3. \A i \in 1 .. n - 1 : i + 1 \in 1 .. n /\ i + 1 # 1
  BY <1>1
<1>4. IsInjective(t)
  <2>. SUFFICES ASSUME NEW i \in 1 .. n - 1, NEW j \in 1 .. n - 1, t[i] = t[j] PROVE i = j
    BY <1>1 DEF IsInjective
  <2>1. s[i + 1] = s[j + 1] /\ i + 1 \in 1 .. n /\ j + 1 \in 1 .. n
    BY <1>1, <1>3
  <2>2. i + 1 = j + 1
    BY <1>2, <2>1
  <2>. QED
    BY <1>1, <2>2
<1>5. ToSet(t) \subseteq ToSet(s) \ {Head(s)}
  <2>. SUFFICES ASSUME NEW i \in 1 .. n - 1 PROVE t[i] \in ToSet(s) \ {Head(s)}
    BY <1>1 DEF ToSet
  <2>1. t[i] = s[i + 1] /\ i + 1 \in 1 .. n /\ i + 1 # 1 /\ 1 \in 1 .. n
    BY <1>1, <1>3
  <2>2. s[i + 1] # s[1]
    BY <1>2, <2>1
  <2>. QED
    BY <1>1, <2>1, <2>2 DEF ToSet
<1>6. ToSet(s) \ {Head(s)} \subseteq ToSet(t)
  <2>. SUFFICES ASSUME NEW i \in 1 .. n, s[i] # Head(s) PROVE s[i] \in ToSet(t)
    BY <1>1 DEF ToSet
  <2>1. i - 1 \in 1 .. n - 1 /\ (i - 1) + 1 = i
    BY <1>1
  <2>2. t[i - 1] = s[i]
    BY <1>1, <2>1
  <2>. QED
    BY <1>1, <2>1, <2>2 DEF ToSet
<1>7. Head(s) \in ToSet(s)
  BY <1>1 DEF ToSet
<1>. QED
  BY <1>1, <1>4, <1>5, <1>6, <1>7 DEF t

\* A queue that is empty.
LEMMA EmptyQueue == ToSet(<<>>) = {} /\ IsInjective(<<>>)
BY DEF ToSet, IsInjective

\* The pool has threads.
LEMMA NumThreadsType == NumThreads \in Nat \ {0}
BY ServerAssumption

\* The steps of stopServer.
LEMMA StopSteps ==
  ASSUME NEW i \in 1 .. Len(stopServer)
  PROVE  i \in {1, 2} /\ stopServer[1] = "isRunning" /\ stopServer[2] = "shutdown"
BY DEF stopServer

------------------------------------------------------------------------------
\* Every step keeps the variables' types.
LEMMA TypesStep == SInv /\ [Next]_vars => Types'
<1>. SUFFICES ASSUME SInv, [Next]_vars PROVE Types'
  OBVIOUS
<1>1. CASE Start
  BY <1>1 DEF Start, SInv, Types
<1>2. CASE Accept
  BY <1>2, Leaves DEF Accept, SInv, Types, Queues
<1>3. CASE AcceptIsWoken
  BY <1>3 DEF AcceptIsWoken, AcceptReturns, SInv, Types
<1>4. CASE AcceptFails
  BY <1>4 DEF AcceptFails, AcceptReturns, SInv, Types
<1>5. CASE Stopped
  BY <1>5 DEF Stopped, SInv, Types
<1>6. CASE Throw
  BY <1>6 DEF Throw, SInv, Types
<1>7. CASE Schedule
  BY <1>7 DEF Schedule, SInv, Types
<1>8. CASE ScheduleRequest
  BY <1>8, AppendProperties DEF ScheduleRequest, SInv, Types, Stops
<1>9. CASE PoolEnds
  BY <1>9 DEF PoolEnds, SInv, Types
<1>10. CASE Signal
  BY <1>10 DEF Signal, SInv, Types
<1>11. CASE StopStep
  <2>1. stopping \in {1, 2}
    BY <1>11, StopSteps DEF StopStep
  <2>2. stopping' \in {2, 3} /\ UNCHANGED <<main, got, queue, status>>
    BY <1>11, <2>1 DEF StopStep
  <2>3. /\ isRunning' = FALSE \/ UNCHANGED isRunning
        /\ (listening' = FALSE /\ backlog' = <<>>) \/ UNCHANGED <<listening, backlog>>
    BY <1>11 DEF StopStep
  <2>4. stage' \in [Conn -> {"away", "backlog", "accepted", "dropped", "queued", "serving", "tunnel", "over"}]
    BY <1>11 DEF StopStep, SInv, Types
  <2>5. isRunning' \in BOOLEAN /\ listening' \in BOOLEAN
    BY <2>3 DEF SInv, Types
  <2>6. backlog' \in Seq(Conn)
    BY <2>3, EmptySeq DEF SInv, Types
  <2>. QED
    BY <2>2, <2>4, <2>5, <2>6 DEF SInv, Types
<1>12. CASE Dispatch
  BY <1>12, Leaves DEF Dispatch, SInv, Types, Queues
<1>13. ASSUME NEW c \in Conn, Connect(c) PROVE Types'
  BY <1>13, AppendProperties DEF Connect, SInv, Types
<1>14. ASSUME NEW c \in Conn, Answer(c) PROVE Types'
  BY <1>14 DEF Answer, ToStage, SInv, Types
<1>15. ASSUME NEW c \in Conn, OpenTunnel(c) PROVE Types'
  BY <1>15 DEF OpenTunnel, ToStage, SInv, Types
<1>16. ASSUME NEW c \in Conn, InTunnel(c) PROVE Types'
  BY <1>16 DEF InTunnel, SInv, Types, serverVars
<1>17. ASSUME NEW c \in Conn, CloseTunnel(c) PROVE Types'
  BY <1>17 DEF CloseTunnel, ToStage, SInv, Types
<1>18. ASSUME NEW c \in Conn, Peers(c) PROVE Types'
  BY <1>18 DEF Peers, SInv, Types, serverVars
<1>19. CASE UNCHANGED vars
  BY <1>19 DEF vars, serverVars, SInv, Types
<1>. QED
  BY <1>1, <1>2, <1>3, <1>4, <1>5, <1>6, <1>7, <1>8, <1>9, <1>10, <1>11, <1>12, <1>13, <1>14, <1>15, <1>16, <1>17, <1>18, <1>19
     DEF Next, MainStep, ThreadStep

\* Every step keeps the queues to those who wait in them.
LEMMA QueuesStep == SInv /\ [Next]_vars => Queues'
<1>. SUFFICES ASSUME SInv, [Next]_vars PROVE Queues'
  OBVIOUS
<1>1. CASE Start
  BY <1>1 DEF Start, SInv, Types, Queues
<1>2. CASE Accept
  BY <1>2, Leaves DEF Accept, SInv, Types, Queues
<1>3. CASE AcceptIsWoken
  BY <1>3 DEF AcceptIsWoken, AcceptReturns, SInv, Types, Queues
<1>4. CASE AcceptFails
  BY <1>4 DEF AcceptFails, AcceptReturns, SInv, Types, Queues
<1>5. CASE Stopped
  BY <1>5 DEF Stopped, SInv, Types, Queues
<1>6. CASE Throw
  BY <1>6 DEF Throw, SInv, Types, Queues
<1>7. CASE Schedule
  BY <1>7 DEF Schedule, SInv, Types, Queues
<1>8. CASE ScheduleRequest
  <2>1. got \in Conn /\ stage[got] = "accepted"
    BY <1>8 DEF ScheduleRequest, SInv, Stops, Accepted
  <2>2. got \notin ToSet(queue) /\ queue \in Seq(Conn) /\ IsInjective(queue)
    BY <2>1 DEF SInv, Types, Queues
  <2>3. IsInjective(Append(queue, got)) /\ ToSet(Append(queue, got)) = ToSet(queue) \cup {got}
    BY <2>1, <2>2, Joins
  <2>. QED
    BY <1>8, <2>1, <2>3, ZenonT(30) DEF ScheduleRequest, SInv, Types, Queues
<1>9. CASE PoolEnds
  BY <1>9, EmptyQueue DEF PoolEnds, SInv, Types, Queues
<1>10. CASE Signal
  BY <1>10 DEF Signal, SInv, Types, Queues
<1>11. CASE StopStep
  BY <1>11, EmptyQueue, ZenonT(30) DEF StopStep, SInv, Types, Queues
<1>12. CASE Dispatch
  BY <1>12, Leaves DEF Dispatch, SInv, Types, Queues
<1>13. ASSUME NEW c \in Conn, Connect(c) PROVE Queues'
  <2>1. c \notin ToSet(backlog) /\ backlog \in Seq(Conn) /\ IsInjective(backlog)
    BY <1>13 DEF Connect, SInv, Types, Queues
  <2>2. IsInjective(Append(backlog, c)) /\ ToSet(Append(backlog, c)) = ToSet(backlog) \cup {c}
    BY <2>1, Joins
  <2>. QED
    BY <1>13, <2>2, ZenonT(30) DEF Connect, SInv, Types, Queues
<1>14. ASSUME NEW c \in Conn, Answer(c) PROVE Queues'
  BY <1>14 DEF Answer, ToStage, SInv, Types, Queues
<1>15. ASSUME NEW c \in Conn, OpenTunnel(c) PROVE Queues'
  BY <1>15 DEF OpenTunnel, ToStage, SInv, Types, Queues
<1>16. ASSUME NEW c \in Conn, InTunnel(c) PROVE Queues'
  BY <1>16 DEF InTunnel, SInv, Types, Queues, serverVars
<1>17. ASSUME NEW c \in Conn, CloseTunnel(c) PROVE Queues'
  BY <1>17 DEF CloseTunnel, ToStage, SInv, Types, Queues
<1>18. ASSUME NEW c \in Conn, Peers(c) PROVE Queues'
  BY <1>18 DEF Peers, SInv, Types, Queues, serverVars
<1>19. CASE UNCHANGED vars
  BY <1>19 DEF vars, serverVars, SInv, Types, Queues
<1>. QED
  BY <1>1, <1>2, <1>3, <1>4, <1>5, <1>6, <1>7, <1>8, <1>9, <1>10, <1>11, <1>12, <1>13, <1>14, <1>15, <1>16, <1>17, <1>18, <1>19
     DEF Next, MainStep, ThreadStep

\* Every step keeps the threads at work to those of the pool.
LEMMA PoolStep == SInv /\ [Next]_vars => Pool'
<1>. SUFFICES ASSUME SInv, [Next]_vars PROVE Pool'
  OBVIOUS
<1>1. CASE Start
  <2>1. Busy' = Busy
    BY <1>1 DEF Start, Busy, SInv, Types
  <2>. QED
    BY <2>1 DEF SInv, Pool
<1>2. CASE Accept
  <2>1. Head(backlog) \in Conn /\ stage[Head(backlog)] = "backlog"
    BY <1>2, Leaves DEF Accept, SInv, Types, Queues
  <2>2. Busy' = Busy
    BY <1>2, <2>1 DEF Accept, Busy, SInv, Types
  <2>. QED
    BY <2>2 DEF SInv, Pool
<1>3. CASE AcceptIsWoken
  <2>1. Busy' = Busy
    BY <1>3 DEF AcceptIsWoken, AcceptReturns, Busy, SInv, Types
  <2>. QED
    BY <2>1 DEF SInv, Pool
<1>4. CASE AcceptFails
  <2>1. Busy' = Busy
    BY <1>4 DEF AcceptFails, AcceptReturns, Busy, SInv, Types
  <2>. QED
    BY <2>1 DEF SInv, Pool
<1>5. CASE Stopped
  <2>1. Busy' = Busy
    BY <1>5 DEF Stopped, Busy, SInv, Types
  <2>. QED
    BY <2>1 DEF SInv, Pool
<1>6. CASE Throw
  <2>1. Busy' = Busy
    BY <1>6 DEF Throw, Busy, SInv, Types
  <2>. QED
    BY <2>1 DEF SInv, Pool
<1>7. CASE Schedule
  <2>1. Busy' = Busy
    BY <1>7 DEF Schedule, Busy, SInv, Types
  <2>. QED
    BY <2>1 DEF SInv, Pool
<1>8. CASE ScheduleRequest
  <2>1. stage[got] = "accepted"
    BY <1>8 DEF ScheduleRequest, SInv, Stops, Accepted
  <2>2. Busy' = Busy
    BY <1>8, <2>1 DEF ScheduleRequest, Busy, SInv, Types
  <2>. QED
    BY <2>2 DEF SInv, Pool
<1>9. CASE PoolEnds
  <2>1. Busy' = Busy
    BY <1>9 DEF PoolEnds, Busy, SInv, Types
  <2>. QED
    BY <2>1 DEF SInv, Pool
<1>10. CASE Signal
  <2>1. Busy' = Busy
    BY <1>10 DEF Signal, Busy, SInv, Types
  <2>. QED
    BY <2>1 DEF SInv, Pool
<1>11. CASE StopStep
  <2>1. Busy' = Busy
    BY <1>11 DEF StopStep, Busy, SInv, Types
  <2>. QED
    BY <2>1 DEF SInv, Pool
<1>12. CASE Dispatch
  <2>1. Head(queue) \in Conn /\ stage[Head(queue)] = "queued"
    BY <1>12, Leaves DEF Dispatch, SInv, Types, Queues
  <2>2. Busy' = Busy \cup {Head(queue)} /\ Head(queue) \notin Busy
    BY <1>12, <2>1 DEF Dispatch, Busy, SInv, Types
  <2>3. IsFiniteSet(Busy) /\ Cardinality(Busy) < NumThreads
    BY <1>12 DEF Dispatch, SInv, Pool
  <2>4. IsFiniteSet(Busy') /\ Cardinality(Busy') = Cardinality(Busy) + 1 /\ Cardinality(Busy) \in Nat
    BY <2>2, <2>3, FS_AddElement, FS_CardinalityType
  <2>. QED
    BY <2>3, <2>4, NumThreadsType DEF Pool
<1>13. ASSUME NEW c \in Conn, Connect(c) PROVE Pool'
  <2>1. Busy' = Busy
    BY <1>13 DEF Connect, Busy, SInv, Types
  <2>. QED
    BY <2>1 DEF SInv, Pool
<1>14. ASSUME NEW c \in Conn, Answer(c) PROVE Pool'
  <2>1. Busy' \subseteq Busy
    BY <1>14 DEF Answer, ToStage, Busy, SInv, Types
  <2>2. /\ IsFiniteSet(Busy') /\ Cardinality(Busy') <= Cardinality(Busy)
        /\ Cardinality(Busy') \in Nat /\ Cardinality(Busy) \in Nat /\ Cardinality(Busy) <= NumThreads
    BY <2>1, FS_Subset, FS_CardinalityType DEF SInv, Pool
  <2>. QED
    BY <2>2, NumThreadsType DEF Pool
<1>15. ASSUME NEW c \in Conn, OpenTunnel(c) PROVE Pool'
  <2>1. Busy' = Busy
    BY <1>15 DEF OpenTunnel, ToStage, Busy, SInv, Types
  <2>. QED
    BY <2>1 DEF SInv, Pool
<1>16. ASSUME NEW c \in Conn, InTunnel(c) PROVE Pool'
  <2>1. Busy' = Busy
    BY <1>16 DEF InTunnel, Busy, SInv, Types, serverVars
  <2>. QED
    BY <2>1 DEF SInv, Pool
<1>17. ASSUME NEW c \in Conn, CloseTunnel(c) PROVE Pool'
  <2>1. Busy' \subseteq Busy
    BY <1>17 DEF CloseTunnel, ToStage, Busy, SInv, Types
  <2>2. /\ IsFiniteSet(Busy') /\ Cardinality(Busy') <= Cardinality(Busy)
        /\ Cardinality(Busy') \in Nat /\ Cardinality(Busy) \in Nat /\ Cardinality(Busy) <= NumThreads
    BY <2>1, FS_Subset, FS_CardinalityType DEF SInv, Pool
  <2>. QED
    BY <2>2, NumThreadsType DEF Pool
<1>18. ASSUME NEW c \in Conn, Peers(c) PROVE Pool'
  <2>1. Busy' = Busy
    BY <1>18 DEF Peers, Busy, SInv, Types, serverVars
  <2>. QED
    BY <2>1 DEF SInv, Pool
<1>19. CASE UNCHANGED vars
  BY <1>19 DEF vars, serverVars, SInv, Types, Pool, Busy
<1>. QED
  BY <1>1, <1>2, <1>3, <1>4, <1>5, <1>6, <1>7, <1>8, <1>9, <1>10, <1>11, <1>12, <1>13, <1>14, <1>15, <1>16, <1>17, <1>18, <1>19
     DEF Next, MainStep, ThreadStep

\* Every step keeps what accept returned with the main thread.
LEMMA AcceptedStep == SInv /\ [Next]_vars => Accepted'
<1>. SUFFICES ASSUME SInv, [Next]_vars PROVE Accepted'
  OBVIOUS
<1>1. CASE Start
  BY <1>1 DEF Start, SInv, Types, Accepted
<1>2. CASE Accept
  BY <1>2, Leaves DEF Accept, SInv, Types, Accepted, Queues
<1>3. CASE AcceptIsWoken
  BY <1>3, ServerAssumption DEF AcceptIsWoken, AcceptReturns, SInv, Types, Accepted
<1>4. CASE AcceptFails
  BY <1>4, ServerAssumption DEF AcceptFails, AcceptReturns, SInv, Types, Accepted
<1>5. CASE Stopped
  BY <1>5 DEF Stopped, SInv, Types, Accepted
<1>6. CASE Throw
  BY <1>6 DEF Throw, SInv, Types, Accepted
<1>7. CASE Schedule
  BY <1>7 DEF Schedule, SInv, Types, Accepted
<1>8. CASE ScheduleRequest
  BY <1>8 DEF ScheduleRequest, SInv, Types, Accepted, Stops
<1>9. CASE PoolEnds
  BY <1>9 DEF PoolEnds, SInv, Types, Accepted
<1>10. CASE Signal
  BY <1>10 DEF Signal, SInv, Types, Accepted
<1>11. CASE StopStep
  BY <1>11 DEF StopStep, SInv, Types, Accepted
<1>12. CASE Dispatch
  <2>1. Head(queue) \in Conn /\ stage[Head(queue)] = "queued"
    BY <1>12, Leaves DEF Dispatch, SInv, Types, Queues
  <2>. QED
    BY <1>12, <2>1 DEF Dispatch, SInv, Types, Accepted
<1>13. ASSUME NEW c \in Conn, Connect(c) PROVE Accepted'
  BY <1>13 DEF Connect, SInv, Types, Accepted
<1>14. ASSUME NEW c \in Conn, Answer(c) PROVE Accepted'
  BY <1>14 DEF Answer, ToStage, SInv, Types, Accepted
<1>15. ASSUME NEW c \in Conn, OpenTunnel(c) PROVE Accepted'
  BY <1>15 DEF OpenTunnel, ToStage, SInv, Types, Accepted
<1>16. ASSUME NEW c \in Conn, InTunnel(c) PROVE Accepted'
  BY <1>16 DEF InTunnel, SInv, Types, Accepted, serverVars
<1>17. ASSUME NEW c \in Conn, CloseTunnel(c) PROVE Accepted'
  BY <1>17 DEF CloseTunnel, ToStage, SInv, Types, Accepted
<1>18. ASSUME NEW c \in Conn, Peers(c) PROVE Accepted'
  BY <1>18 DEF Peers, SInv, Types, Accepted, serverVars
<1>19. CASE UNCHANGED vars
  BY <1>19 DEF vars, serverVars, SInv, Types, Accepted
<1>. QED
  BY <1>1, <1>2, <1>3, <1>4, <1>5, <1>6, <1>7, <1>8, <1>9, <1>10, <1>11, <1>12, <1>13, <1>14, <1>15, <1>16, <1>17, <1>18, <1>19
     DEF Next, MainStep, ThreadStep

\* Every step keeps a server that was not told to stop as it is.
LEMMA StopsStep == SInv /\ [Next]_vars => Stops'
<1>. SUFFICES ASSUME SInv, [Next]_vars PROVE Stops'
  OBVIOUS
<1>1. CASE Start
  BY <1>1 DEF Start, SInv, Types, Stops
<1>2. CASE Accept
  <2>1. Head(backlog) \in Conn
    BY <1>2, Leaves DEF Accept, SInv, Types, Queues
  <2>2. got' \in Conn /\ got' \notin {"nothing", "shut down", "error"}
    BY <1>2, <2>1, ServerAssumption DEF Accept
  <2>. QED
    BY <1>2, <2>2 DEF Accept, SInv, Types, Stops
<1>3. CASE AcceptIsWoken
  BY <1>3 DEF AcceptIsWoken, AcceptReturns, SInv, Types, Stops
<1>4. CASE AcceptFails
  BY <1>4 DEF AcceptFails, AcceptReturns, SInv, Types, Stops
<1>5. CASE Stopped
  BY <1>5 DEF Stopped, SInv, Types, Stops
<1>6. CASE Throw
  BY <1>6 DEF Throw, SInv, Types, Stops
<1>7. CASE Schedule
  BY <1>7 DEF Schedule, SInv, Types, Stops
<1>8. CASE ScheduleRequest
  BY <1>8 DEF ScheduleRequest, SInv, Types, Stops
<1>9. CASE PoolEnds
  BY <1>9 DEF PoolEnds, SInv, Types, Stops
<1>10. CASE Signal
  <2>1. stopping' = 1 /\ UNCHANGED <<main, isRunning, listening, got, stage, status>>
    BY <1>10 DEF Signal
  <2>2. ~(stopping' >= 2)
    BY <2>1
  <2>. QED
    BY <2>1, <2>2 DEF SInv, Stops
<1>11. CASE StopStep
  <2>1. stopping \in {1, 2} /\ stopServer[1] = "isRunning" /\ stopServer[2] = "shutdown"
    BY <1>11, StopSteps DEF StopStep
  <2>2. (stopping = 1 /\ isRunning' = FALSE) \/ (stopping = 2 /\ isRunning' = isRunning)
    BY <1>11, <2>1 DEF StopStep
  <2>3. UNCHANGED <<main, got, status>>
    BY <1>11 DEF StopStep
  <2>4. stopping = 2 => ~isRunning
    <3>1. stopping >= 2 => ~isRunning
      BY DEF SInv, Stops
    <3>. QED
      BY <3>1
  <2>5. ~isRunning'
    BY <2>2, <2>4
  <2>. QED
    BY <2>3, <2>5 DEF SInv, Stops
<1>12. CASE Dispatch
  BY <1>12 DEF Dispatch, SInv, Types, Stops
<1>13. ASSUME NEW c \in Conn, Connect(c) PROVE Stops'
  BY <1>13 DEF Connect, SInv, Types, Stops
<1>14. ASSUME NEW c \in Conn, Answer(c) PROVE Stops'
  BY <1>14 DEF Answer, ToStage, SInv, Types, Stops
<1>15. ASSUME NEW c \in Conn, OpenTunnel(c) PROVE Stops'
  BY <1>15 DEF OpenTunnel, ToStage, SInv, Types, Stops
<1>16. ASSUME NEW c \in Conn, InTunnel(c) PROVE Stops'
  BY <1>16 DEF InTunnel, SInv, Types, Stops, serverVars
<1>17. ASSUME NEW c \in Conn, CloseTunnel(c) PROVE Stops'
  BY <1>17 DEF CloseTunnel, ToStage, SInv, Types, Stops
<1>18. ASSUME NEW c \in Conn, Peers(c) PROVE Stops'
  BY <1>18 DEF Peers, SInv, Types, Stops, serverVars
<1>19. CASE UNCHANGED vars
  BY <1>19 DEF vars, serverVars, SInv, Types, Stops
<1>. QED
  BY <1>1, <1>2, <1>3, <1>4, <1>5, <1>6, <1>7, <1>8, <1>9, <1>10, <1>11, <1>12, <1>13, <1>14, <1>15, <1>16, <1>17, <1>18, <1>19
     DEF Next, MainStep, ThreadStep

\* Every step keeps a server that has ended without connections.
LEMMA EndedStep == SInv /\ [Next]_vars => Ended'
<1>. SUFFICES ASSUME SInv, [Next]_vars PROVE Ended'
  OBVIOUS
<1>1. CASE Start
  BY <1>1 DEF Start, SInv, Types, Ended
<1>2. CASE Accept
  BY <1>2 DEF Accept, SInv, Types, Ended
<1>3. CASE AcceptIsWoken
  BY <1>3 DEF AcceptIsWoken, AcceptReturns, SInv, Types, Ended
<1>4. CASE AcceptFails
  BY <1>4 DEF AcceptFails, AcceptReturns, SInv, Types, Ended
<1>5. CASE Stopped
  BY <1>5 DEF Stopped, SInv, Types, Ended
<1>6. CASE Throw
  BY <1>6 DEF Throw, SInv, Types, Ended
<1>7. CASE Schedule
  BY <1>7 DEF Schedule, SInv, Types, Ended
<1>8. CASE ScheduleRequest
  BY <1>8 DEF ScheduleRequest, SInv, Types, Ended
<1>9. CASE PoolEnds
  <2>1. /\ main = "drain" /\ listening' = FALSE /\ queue = <<>> /\ Busy = {}
        /\ stage' = [c \in Conn |-> IF stage[c] = "backlog" THEN "dropped" ELSE stage[c]]
    BY <1>9 DEF PoolEnds
  <2>2. ASSUME NEW c \in Conn PROVE stage[c] \in {"away", "backlog", "dropped", "over"}
    <3>1. stage[c] # "queued"
      BY <2>1, EmptyQueue DEF SInv, Queues
    <3>2. stage[c] \notin {"serving", "tunnel"}
      BY <2>1 DEF Busy
    <3>3. stage[c] # "accepted"
      BY <2>1 DEF SInv, Accepted
    <3>. QED
      BY <3>1, <3>2, <3>3 DEF SInv, Types
  <2>. QED
    BY <2>1, <2>2 DEF Ended
<1>10. CASE Signal
  BY <1>10 DEF Signal, SInv, Types, Ended
<1>11. CASE StopStep
  BY <1>11 DEF StopStep, SInv, Types, Ended
<1>12. CASE Dispatch
  <2>1. Head(queue) \in Conn /\ stage[Head(queue)] = "queued"
    BY <1>12, Leaves DEF Dispatch, SInv, Types, Queues
  <2>. QED
    BY <1>12, <2>1 DEF Dispatch, SInv, Types, Ended
<1>13. ASSUME NEW c \in Conn, Connect(c) PROVE Ended'
  BY <1>13 DEF Connect, SInv, Types, Ended
<1>14. ASSUME NEW c \in Conn, Answer(c) PROVE Ended'
  BY <1>14 DEF Answer, ToStage, SInv, Types, Ended
<1>15. ASSUME NEW c \in Conn, OpenTunnel(c) PROVE Ended'
  BY <1>15 DEF OpenTunnel, ToStage, SInv, Types, Ended
<1>16. ASSUME NEW c \in Conn, InTunnel(c) PROVE Ended'
  BY <1>16 DEF InTunnel, SInv, Types, Ended, serverVars
<1>17. ASSUME NEW c \in Conn, CloseTunnel(c) PROVE Ended'
  BY <1>17 DEF CloseTunnel, ToStage, SInv, Types, Ended
<1>18. ASSUME NEW c \in Conn, Peers(c) PROVE Ended'
  BY <1>18 DEF Peers, SInv, Types, Ended, serverVars
<1>19. CASE UNCHANGED vars
  BY <1>19 DEF vars, serverVars, SInv, Types, Ended
<1>. QED
  BY <1>1, <1>2, <1>3, <1>4, <1>5, <1>6, <1>7, <1>8, <1>9, <1>10, <1>11, <1>12, <1>13, <1>14, <1>15, <1>16, <1>17, <1>18, <1>19
     DEF Next, MainStep, ThreadStep
------------------------------------------------------------------------------
\* The server's invariant holds in every state.
THEOREM ServerInvariance == Spec => []SInv
<1>1. Init => SInv
  <2>. SUFFICES ASSUME ServerInit PROVE SInv
    BY DEF Init
  <2>1. IsFiniteSet(Busy) /\ Cardinality(Busy) = 0
    <3>1. Busy = {}
      BY DEF ServerInit, Busy
    <3>. QED
      BY <3>1, FS_EmptySet
  <2>2. Pool
    BY <2>1, NumThreadsType DEF Pool
  <2>3. Types
    <3>1. <<>> \in Seq(Conn)
      BY EmptySeq
    <3>. QED
      BY <3>1, Zenon DEF ServerInit, Types
  <2>4. Accepted /\ Ended
    BY ServerAssumption DEF ServerInit, Accepted, Ended
  <2>5. Stops
    BY DEF ServerInit, Stops
  <2>6. Queues
    BY EmptyQueue DEF ServerInit, Queues
  <2>. QED
    BY <2>2, <2>3, <2>4, <2>5, <2>6 DEF SInv
<1>2. SInv /\ [Next]_vars => SInv'
  BY TypesStep, QueuesStep, PoolStep, AcceptedStep, StopsStep, EndedStep DEF SInv
<1>. QED
  BY <1>1, <1>2, PTL DEF Spec

\* For any number of connections and threads: whoever accept returned is with the main
\* thread, waits once, is served or over, wherever stopServer is; only a stop leaves any out.
THEOREM ConnectionsAreServed == Spec => []AcceptedAreServed
<1>1. SInv => AcceptedAreServed
  BY DEF SInv, Queues, Pool, Accepted, Stops, Ended, AcceptedAreServed
<1>. QED
  BY <1>1, ServerInvariance, PTL

-------------------------------------------------------------------------------
(* The proxy's tunnels for any number of connections and of bytes: what a side *)
(* is given is what the other sent, and what a tunnel leaves when it goes down *)
(* (TunnelKeepsBytes).  The bytes of one direction pass through three places,  *)
(* a socket, a stream and a buffer; what keeps them together is that a stream  *)
(* is empty whenever the loop waits, but for what came with the request.       *)

TunnelTypes ==
  /\ sent \in [Conn -> [Side -> Nat]] /\ closed \in [Conn -> SUBSET Side]
  /\ net \in [Conn -> [Side -> Seq(Nat)]]
  /\ bridge \in [Conn -> {"none", "wait", "relay", "down"}]
  /\ streams \in [Conn -> SUBSET Side] /\ from \in [Conn -> Side]
  /\ inbuf \in [Conn -> [Side -> Seq(Nat)]] /\ buffer \in [Conn -> Seq(Nat)]
  /\ broken \in [Conn -> SUBSET Side] /\ delivered \in [Conn -> [Side -> Seq(Nat)]]
  /\ timedOut \subseteq Conn

InOrder(d, n) == Len(d) <= n /\ \A i \in 1 .. Len(d) : d[i] = i

(* What a side has been given comes first, the rest is on the way to it. *)
Carried(c) ==
  \A s \in Side :
    /\ InOrder(delivered[c][Other(s)], sent[c][s])
    /\ Other(s) \notin broken[c] => delivered[c][Other(s)] \o OnTheWay(c, s) = FirstBytes(sent[c][s])

(* A stream breaks when its peer has ended, or there never was one. *)
Breaks(c) ==
  \A s \in broken[c] : s \in closed[c] \/ (s = "server" /\ sent[c][s] = 0 /\ net[c][s] = <<>>)

Phases(c) ==
  /\ bridge[c] = "none" =>
       /\ broken[c] = {} /\ sent[c]["server"] = 0 /\ net[c]["server"] = <<>> /\ "server" \notin closed[c]
       /\ \A s \in Side : inbuf[c][s] = <<>> /\ delivered[c][s] = <<>>
  /\ bridge[c] # "relay" => buffer[c] = <<>>

(* Between two reads a stream holds at most what came with the request. *)
Early(c) ==
  \A s \in Side : inbuf[c][s] # <<>> =>
    (bridge[c] = "relay" /\ from[c] = s) \/ (s = "client" /\ delivered[c]["server"] = <<>>)

Watched(c) ==
  bridge[c] # "none" => \A s \in Side : s \notin streams[c] => s \in broken[c] \cap closed[c]

(* What a tunnel that went down leaves. *)
Left(c) ==
  bridge[c] = "down" =>
    \A s \in Side : Other(s) \notin broken[c] /\ OnTheWay(c, s) # <<>> =>
      \/ s \in broken[c] \cap closed[c]
      \/ s = "client" /\ c \in timedOut /\ delivered[c][Other(s)] = <<>> /\ net[c][s] = <<>>

CInv(c) == Carried(c) /\ Breaks(c) /\ Phases(c) /\ Early(c) /\ Watched(c) /\ Left(c)

TunnelInv == TunnelTypes /\ \A c \in Conn : CInv(c)

\* Nothing of a tunnel changes.
Same(c) ==
  /\ sent'[c] = sent[c] /\ closed'[c] = closed[c] /\ net'[c] = net[c]
  /\ bridge'[c] = bridge[c] /\ streams'[c] = streams[c] /\ from'[c] = from[c]
  /\ inbuf'[c] = inbuf[c] /\ buffer'[c] = buffer[c] /\ broken'[c] = broken[c]
  /\ delivered'[c] = delivered[c] /\ (c \in timedOut' <=> c \in timedOut)
------------------------------------------------------------------------------
\* A tunnel has two sides.
LEMMA SideLemma ==
  ASSUME NEW s \in Side
  PROVE  /\ Other(s) \in Side /\ Other(s) # s /\ Other(Other(s)) = s
         /\ \A t \in Side : t = s \/ t = Other(s)
BY DEF Side, Other

\* A byte appended to the second of two sequences is appended to both.
LEMMA ConcatAppend ==
  ASSUME NEW s \in Seq(Nat), NEW t \in Seq(Nat), NEW e \in Nat
  PROVE  s \o Append(t, e) = Append(s \o t, e)
<1>1. <<e>> \in Seq(Nat) /\ s \o t \in Seq(Nat)
  BY ConcatProperties
<1>2. Append(t, e) = t \o <<e>> /\ Append(s \o t, e) = (s \o t) \o <<e>>
  BY <1>1, AppendIsConcat
<1>3. (s \o t) \o <<e>> = s \o (t \o <<e>>)
  BY <1>1, ConcatAssociative
<1>. QED
  BY <1>2, <1>3

\* Three sequences of bytes in a row.
LEMMA Regroup ==
  ASSUME NEW x \in Seq(Nat), NEW y \in Seq(Nat), NEW z \in Seq(Nat)
  PROVE  (x \o y) \o z = x \o (y \o z)
BY ConcatAssociative, SMTT(30)

\* The first n bytes, and the one after them.
LEMMA FirstBytesNext ==
  ASSUME NEW n \in Nat
  PROVE  /\ FirstBytes(n) \in Seq(Nat) /\ Len(FirstBytes(n)) = n
         /\ \A i \in 1 .. n : FirstBytes(n)[i] = i
         /\ FirstBytes(n + 1) = Append(FirstBytes(n), n + 1)
<1>. DEFINE F == FirstBytes(n)
            G == FirstBytes(n + 1)
            H == Append(F, n + 1)
<1>1. F \in Seq(Nat) /\ Len(F) = n /\ \A i \in 1 .. n : F[i] = i
  BY SeqDef DEF FirstBytes
<1>2. G \in Seq(Nat) /\ Len(G) = n + 1 /\ \A i \in 1 .. n + 1 : G[i] = i
  BY SeqDef DEF FirstBytes
<1>3. /\ H \in Seq(Nat) /\ Len(H) = n + 1 /\ H[n + 1] = n + 1
      /\ \A i \in 1 .. n : H[i] = i
  BY <1>1, AppendProperties
<1>4. \A i \in 1 .. n + 1 : G[i] = H[i]
  <2>1. \A i \in 1 .. n + 1 : i \in 1 .. n \/ i = n + 1
    OBVIOUS
  <2>. HIDE DEF G, H
  <2>. QED
    BY <1>2, <1>3, <2>1
<1>5. G = H
  <2>. HIDE DEF G, H
  <2>. QED
    BY <1>2, <1>3, <1>4, SeqEqual
<1>. QED
  BY <1>1, <1>5

\* What comes before the rest of the first n bytes comes in order.
LEMMA GivenFirst ==
  ASSUME NEW d \in Seq(Nat), NEW w \in Seq(Nat), NEW n \in Nat, d \o w = FirstBytes(n)
  PROVE  InOrder(d, n)
<1>1. Len(d) \in Nat /\ Len(w) \in Nat /\ Len(d \o w) = Len(d) + Len(w)
      /\ \A i \in 1 .. Len(d) + Len(w) : (d \o w)[i] = IF i <= Len(d) THEN d[i] ELSE w[i - Len(d)]
  BY ConcatProperties, LenProperties
<1>2. Len(d \o w) = n /\ \A i \in 1 .. n : (d \o w)[i] = i
  BY FirstBytesNext
<1>3. \A i \in 1 .. Len(d) : i \in 1 .. n /\ i \in 1 .. Len(d) + Len(w) /\ i <= Len(d)
  BY <1>1, <1>2
<1>. QED
  BY <1>1, <1>2, <1>3 DEF InOrder

\* What is read of a sequence and what is not make it up.
LEMMA TakenApart ==
  ASSUME NEW s \in Seq(Nat), NEW k \in 0 .. Len(s)
  PROVE  /\ SubSeq(s, 1, k) \in Seq(Nat) /\ SubSeq(s, k + 1, Len(s)) \in Seq(Nat)
         /\ SubSeq(s, 1, k) \o SubSeq(s, k + 1, Len(s)) = s
         /\ k = 0 => SubSeq(s, 1, k) = <<>>
<1>1. Len(s) \in Nat /\ \A i \in 1 .. Len(s) : s[i] \in Nat
  BY LenProperties, ElementOfSeq
<1>2. SubSeq(s, 1, k) \in Seq(Nat)
  BY <1>1, SubSeqProperties
<1>3. SubSeq(s, k + 1, Len(s)) \in Seq(Nat)
  BY <1>1, SubSeqProperties
<1>4. SubSeq(s, 1, k) \o SubSeq(s, k + 1, Len(s)) = SubSeq(s, 1, Len(s))
  <2>1. 1 \in 1 .. Len(s) + 1 /\ k \in 1 - 1 .. Len(s) /\ Len(s) \in k .. Len(s)
    BY <1>1
  <2>. QED
    BY <2>1, ConcatAdjacentSubSeq
<1>5. SubSeq(s, 1, Len(s)) = s
  BY SubSeqFull
<1>6. k = 0 => SubSeq(s, 1, k) = <<>>
  BY SubSeqEmpty
<1>. QED
  BY <1>2, <1>3, <1>4, <1>5, <1>6

\* A sequence is its first byte and the rest.
LEMMA HeadFirst ==
  ASSUME NEW s \in Seq(Nat), s # <<>>
  PROVE  <<Head(s)>> \in Seq(Nat) /\ Tail(s) \in Seq(Nat) /\ <<Head(s)>> \o Tail(s) = s
<1>1. Len(s) \in Nat \ {0} /\ 1 \in 1 .. Len(s) /\ Len(s) \in 1 .. Len(s) /\ s[1] = Head(s)
  BY EmptySeq
<1>2. SubSeq(s, 1, Len(s)) = <<s[1]>> \o SubSeq(s, 2, Len(s))
  BY <1>1, SubSeqRecursiveFirst
<1>3. Head(s) \in Nat /\ Tail(s) \in Seq(Nat) /\ Tail(s) = SubSeq(s, 2, Len(s))
  BY HeadTailProperties, TailIsSubSeq
<1>. QED
  BY <1>1, <1>2, <1>3, SubSeqFull

\* A tunnel nothing of which changes keeps its invariant.
LEMMA SameLemma ==
  ASSUME NEW c \in Conn, CInv(c), Same(c)
  PROVE  CInv(c)'
<1>1. \A s \in Side : OnTheWay(c, s)' = OnTheWay(c, s)
  BY DEF Same, OnTheWay
<1>2. Carried(c)'
  BY <1>1 DEF CInv, Same, Carried
<1>3. Left(c)'
  BY <1>1 DEF CInv, Same, Left
<1>4. Breaks(c)' /\ Phases(c)'
  BY DEF CInv, Same, Breaks, Phases
<1>5. Early(c)' /\ Watched(c)'
  BY DEF CInv, Same, Early, Watched
<1>. QED
  BY <1>2, <1>3, <1>4, <1>5 DEF CInv

\* A step at one tunnel leaves the others.
LEMMA OneTunnel ==
  ASSUME TunnelInv, TunnelTypes', NEW c \in Conn, CInv(c)', \A d \in Conn \ {c} : Same(d)
  PROVE  TunnelInv'
<1>1. ASSUME NEW d \in Conn PROVE CInv(d)'
  <2>1. CASE d = c
    BY <2>1
  <2>2. CASE d # c
    BY <2>2, SameLemma DEF TunnelInv
  <2>. QED
    BY <2>1, <2>2
<1>. QED
  BY <1>1 DEF TunnelInv

\* The types at one tunnel.
LEMMA At ==
  ASSUME TunnelInv, NEW c \in Conn
  PROVE  /\ CInv(c)
         /\ closed[c] \subseteq Side /\ broken[c] \subseteq Side /\ streams[c] \subseteq Side
         /\ from[c] \in Side /\ buffer[c] \in Seq(Nat)
         /\ \A s \in Side : sent[c][s] \in Nat /\ net[c][s] \in Seq(Nat) /\ inbuf[c][s] \in Seq(Nat)
                            /\ delivered[c][s] \in Seq(Nat) /\ OnTheWay(c, s) \in Seq(Nat)
<1>1. /\ CInv(c)
      /\ closed[c] \subseteq Side /\ broken[c] \subseteq Side /\ streams[c] \subseteq Side
      /\ from[c] \in Side /\ buffer[c] \in Seq(Nat)
      /\ \A s \in Side : sent[c][s] \in Nat /\ net[c][s] \in Seq(Nat) /\ inbuf[c][s] \in Seq(Nat)
                         /\ delivered[c][s] \in Seq(Nat)
  BY DEF TunnelInv, TunnelTypes
<1>2. ASSUME NEW s \in Side PROVE OnTheWay(c, s) \in Seq(Nat)
  <2>1. (IF from[c] = s THEN buffer[c] ELSE <<>>) \in Seq(Nat)
    BY <1>1, EmptySeq
  <2>. QED
    BY <1>1, <2>1, ConcatProperties DEF OnTheWay
<1>. QED
  BY <1>1, <1>2

\* A byte sent is the next on the way.
LEMMA PeerSendsKeeps ==
  ASSUME TunnelInv, NEW c \in Conn, NEW s \in Side, PeerSends(c, s)
  PROVE  TunnelInv'
<1>. DEFINE n == sent[c][s] + 1
<1>1. /\ Present(c, s) /\ s \notin closed[c]
      /\ sent' = [sent EXCEPT ![c][s] = n]
      /\ UNCHANGED <<closed, bridge, streams, from, inbuf, buffer, broken, delivered, timedOut>>
  BY DEF PeerSends, bridgeVars, TunnelInv, TunnelTypes
<1>2. n \in Nat /\ sent'[c][s] = n
  BY <1>1, At DEF TunnelInv, TunnelTypes
<1>3. net' = [net EXCEPT ![c][s] = Append(net[c][s], n)]
  BY <1>2 DEF PeerSends, TunnelInv, TunnelTypes
<1>4. TunnelTypes'
  <2>1. Append(net[c][s], n) \in Seq(Nat)
    BY <1>2, At, AppendProperties
  <2>. QED
    BY <1>1, <1>2, <1>3, <2>1 DEF TunnelInv, TunnelTypes
<1>5. \A d \in Conn \ {c} : Same(d)
  BY <1>1, <1>3 DEF Same, TunnelInv, TunnelTypes
<1>6. /\ sent'[c][Other(s)] = sent[c][Other(s)] /\ net'[c][Other(s)] = net[c][Other(s)]
      /\ net'[c][s] = Append(net[c][s], n)
  BY <1>1, <1>3, SideLemma, ZenonT(30) DEF TunnelInv, TunnelTypes
<1>7. /\ OnTheWay(c, s)' = Append(OnTheWay(c, s), n) /\ OnTheWay(c, Other(s))' = OnTheWay(c, Other(s))
  <2>1. (IF from[c] = s THEN buffer[c] ELSE <<>>) \o inbuf[c][s] \in Seq(Nat)
    BY At, EmptySeq, ConcatProperties
  <2>2. ((IF from[c] = s THEN buffer[c] ELSE <<>>) \o inbuf[c][s]) \o Append(net[c][s], n)
          = Append(((IF from[c] = s THEN buffer[c] ELSE <<>>) \o inbuf[c][s]) \o net[c][s], n)
    BY <2>1, <1>2, At, ConcatAppend, ZenonT(30)
  <2>. QED
    BY <1>1, <1>6, <2>2 DEF OnTheWay
<1>8. Carried(c)'
  <2>1. ASSUME Other(s) \notin broken[c]
        PROVE  delivered[c][Other(s)] \o Append(OnTheWay(c, s), n) = FirstBytes(n)
    <3>1. delivered[c][Other(s)] \o OnTheWay(c, s) = FirstBytes(sent[c][s])
      BY <2>1, At DEF CInv, Carried
    <3>2. delivered[c][Other(s)] \o Append(OnTheWay(c, s), n)
            = Append(delivered[c][Other(s)] \o OnTheWay(c, s), n)
      <4>1. delivered[c][Other(s)] \in Seq(Nat) /\ OnTheWay(c, s) \in Seq(Nat)
        BY At, SideLemma
      <4>. QED
        BY <1>2, <4>1, ConcatAppend
    <3>. QED
      BY <3>1, <3>2, At, FirstBytesNext
  <2>2. InOrder(delivered[c][Other(s)], n)
    <3>1. InOrder(delivered[c][Other(s)], sent[c][s])
      BY At DEF CInv, Carried
    <3>2. Len(delivered[c][Other(s)]) \in Nat /\ sent[c][s] \in Nat
      BY At, SideLemma, LenProperties
    <3>. QED
      BY <3>1, <3>2 DEF InOrder
  <2>3. /\ InOrder(delivered[c][Other(Other(s))], sent[c][Other(s)])
        /\ Other(Other(s)) \notin broken[c] =>
             delivered[c][Other(Other(s))] \o OnTheWay(c, Other(s)) = FirstBytes(sent[c][Other(s)])
    BY At, SideLemma DEF CInv, Carried
  <2>. QED
    BY <1>1, <1>2, <1>6, <1>7, <2>1, <2>2, <2>3, SideLemma DEF Carried
<1>9. s \notin broken[c] /\ (bridge[c] # "none" \/ s # "server") /\ bridge[c] # "down"
  BY <1>1, At DEF Present, CInv, Breaks
<1>10. Breaks(c)' /\ Phases(c)'
  <2>1. CInv(c)
    BY At
  <2>2. Breaks(c)'
    BY <1>1, <1>6, <1>9, <2>1, At, SideLemma DEF CInv, Breaks
  <2>3. \A t \in Side : t # s => sent'[c][t] = sent[c][t] /\ net'[c][t] = net[c][t]
    BY <1>6, SideLemma
  <2>4. "server" \in Side
    BY DEF Side
  <2>. QED
    BY <1>1, <1>9, <2>1, <2>2, <2>3, <2>4 DEF CInv, Phases
<1>11. Early(c)' /\ Watched(c)' /\ Left(c)'
  BY <1>1, <1>9, At DEF CInv, Early, Watched, Left
<1>. QED
  BY <1>4, <1>5, <1>8, <1>10, <1>11, OneTunnel DEF CInv

\* Of three sequences that make none when put in a row each is empty.
LEMMA NothingInARow ==
  ASSUME NEW x \in Seq(Nat), NEW y \in Seq(Nat), NEW z \in Seq(Nat), (x \o y) \o z = <<>>
  PROVE  x = <<>> /\ y = <<>>
<1>. DEFINE i == Len(x)  j == Len(y)  k == Len(z)
<1>1. x \o y \in Seq(Nat) /\ Len(x \o y) = i + j
  BY ConcatProperties
<1>2. Len((x \o y) \o z) = Len(x \o y) + k
  BY <1>1, ConcatProperties
<1>3. Len(<<>>) = 0
  BY EmptySeq
<1>4. i \in Nat /\ j \in Nat /\ k \in Nat
  BY LenProperties
<1>5. (i = 0 => x = <<>>) /\ (j = 0 => y = <<>>)
  BY EmptySeq
<1>6. (i + j) + k = 0
  BY <1>1, <1>2, <1>3
<1>. HIDE DEF i, j, k
<1>7. i = 0 /\ j = 0
  BY <1>4, <1>6
<1>. QED
  BY <1>5, <1>7

\* A peer that starts anew has nothing on the way and nothing delivered but the one byte.
LEMMA PeerGoesOnKeeps ==
  ASSUME TunnelInv, NEW c \in Conn, NEW s \in Side, PeerGoesOn(c, s)
  PROVE  TunnelInv'
<1>1. /\ Present(c, s) /\ s \notin closed[c] /\ OnTheWay(c, s) = <<>>
      /\ sent' = [sent EXCEPT ![c][s] = 1] /\ net' = [net EXCEPT ![c][s] = <<1>>]
      /\ delivered' = [delivered EXCEPT ![c][Other(s)] = <<>>]
      /\ UNCHANGED <<closed, bridge, streams, from, inbuf, buffer, broken, timedOut>>
  BY DEF PeerGoesOn
<1>2. <<1>> \in Seq(Nat) /\ Other(s) \in Side
  BY SideLemma
<1>3. TunnelTypes'
  BY <1>1, <1>2, EmptySeq DEF TunnelInv, TunnelTypes
<1>4. \A d \in Conn \ {c} : Same(d)
  BY <1>1 DEF Same, TunnelInv, TunnelTypes
<1>5. /\ sent'[c][s] = 1 /\ net'[c][s] = <<1>> /\ delivered'[c][Other(s)] = <<>>
      /\ sent'[c][Other(s)] = sent[c][Other(s)] /\ net'[c][Other(s)] = net[c][Other(s)]
      /\ delivered'[c][s] = delivered[c][s]
  BY <1>1, SideLemma, ZenonT(30) DEF TunnelInv, TunnelTypes
<1>. DEFINE B == IF from[c] = s THEN buffer[c] ELSE <<>>
<1>6. B = <<>> /\ inbuf[c][s] = <<>>
  <2>1. B \in Seq(Nat) /\ inbuf[c][s] \in Seq(Nat) /\ net[c][s] \in Seq(Nat)
    BY At, EmptySeq
  <2>2. (B \o inbuf[c][s]) \o net[c][s] = <<>>
    BY <1>1 DEF OnTheWay
  <2>. HIDE DEF B
  <2>. QED
    BY <2>1, <2>2, NothingInARow
<1>7. OnTheWay(c, s)' = <<1>> /\ OnTheWay(c, Other(s))' = OnTheWay(c, Other(s))
  <2>1. OnTheWay(c, s)' = (B \o inbuf[c][s]) \o net'[c][s]
    BY <1>1 DEF OnTheWay
  <2>2. (<<>> \o <<>>) \o <<1>> = <<1>>
    OBVIOUS
  <2>3. OnTheWay(c, s)' = <<1>>
    BY <1>5, <1>6, <2>1, <2>2
  <2>. QED
    BY <1>1, <1>5, <2>3 DEF OnTheWay
<1>8. Carried(c)'
  <2>1. InOrder(<<>>, 1) /\ <<>> \o <<1>> = FirstBytes(1)
    <3>1. FirstBytes(0) = <<>> /\ FirstBytes(1) = Append(FirstBytes(0), 1)
      <4>1. FirstBytes(0) \in Seq(Nat) /\ Len(FirstBytes(0)) = 0 /\ FirstBytes(0 + 1) = Append(FirstBytes(0), 0 + 1)
        BY FirstBytesNext
      <4>. QED
        BY <4>1, EmptySeq
    <3>2. Append(<<>>, 1) = <<1>> /\ <<>> \o <<1>> = <<1>>
      OBVIOUS
    <3>3. InOrder(<<>>, 1)
      BY EmptySeq DEF InOrder
    <3>. QED
      BY <3>1, <3>2, <3>3
  <2>2. /\ InOrder(delivered[c][Other(Other(s))], sent[c][Other(s)])
        /\ Other(Other(s)) \notin broken[c] =>
             delivered[c][Other(Other(s))] \o OnTheWay(c, Other(s)) = FirstBytes(sent[c][Other(s)])
    BY At, SideLemma DEF CInv, Carried
  <2>. QED
    BY <1>1, <1>5, <1>7, <2>1, <2>2, SideLemma DEF Carried
<1>9. s \notin broken[c] /\ (bridge[c] # "none" \/ s # "server") /\ bridge[c] # "down"
  BY <1>1, At DEF Present, CInv, Breaks
<1>10. Breaks(c)' /\ Phases(c)'
  <2>1. CInv(c)
    BY At
  <2>2. Breaks(c)'
    BY <1>1, <1>5, <1>9, <2>1, At, SideLemma DEF CInv, Breaks
  <2>3. \A t \in Side : t # s => sent'[c][t] = sent[c][t] /\ net'[c][t] = net[c][t]
    BY <1>5, SideLemma
  <2>4. "server" \in Side
    BY DEF Side
  <2>5. \A t \in Side : delivered[c][t] = <<>> => delivered'[c][t] = <<>>
    BY <1>5, SideLemma
  <2>. QED
    BY <1>1, <1>9, <2>1, <2>2, <2>3, <2>4, <2>5 DEF CInv, Phases
<1>11. Early(c)' /\ Watched(c)' /\ Left(c)'
  <2>1. \A t \in Side : delivered[c][t] = <<>> => delivered'[c][t] = <<>>
    BY <1>5, SideLemma
  <2>2. "server" \in Side
    BY DEF Side
  <2>. QED
    BY <1>1, <1>9, <2>1, <2>2, At DEF CInv, Early, Watched, Left
<1>. QED
  BY <1>3, <1>4, <1>8, <1>10, <1>11, OneTunnel DEF CInv

\* A side that ends sends no more.
LEMMA PeerClosesKeeps ==
  ASSUME TunnelInv, NEW c \in Conn, NEW s \in Side, PeerCloses(c, s)
  PROVE  TunnelInv'
<1>1. /\ Present(c, s)
      /\ closed' = [closed EXCEPT ![c] = closed[c] \cup {s}]
      /\ UNCHANGED <<sent, net, bridge, streams, from, inbuf, buffer, broken, delivered, timedOut>>
  BY DEF PeerCloses, bridgeVars
<1>2. TunnelTypes'
  BY <1>1 DEF TunnelInv, TunnelTypes
<1>3. \A d \in Conn \ {c} : Same(d)
  BY <1>1 DEF Same, TunnelInv, TunnelTypes
<1>4. closed'[c] = closed[c] \cup {s} /\ \A t \in Side : OnTheWay(c, t)' = OnTheWay(c, t)
  BY <1>1 DEF TunnelInv, TunnelTypes, OnTheWay
<1>5. (bridge[c] # "none" \/ s # "server") /\ bridge[c] # "down"
  BY <1>1 DEF Present
<1>6. Carried(c)' /\ Early(c)'
  BY <1>1, <1>4, At DEF CInv, Carried, Early
<1>7. Breaks(c)' /\ Phases(c)' /\ Watched(c)' /\ Left(c)'
  BY <1>1, <1>4, <1>5, At DEF CInv, Breaks, Phases, Watched, Left
<1>. QED
  BY <1>2, <1>3, <1>6, <1>7, OneTunnel DEF CInv

\* Outside a relay only the stream and the socket hold bytes.
LEMMA NoBuffer ==
  ASSUME TunnelInv, NEW c \in Conn, bridge[c] # "relay", NEW s \in Side
  PROVE  buffer[c] = <<>> /\ OnTheWay(c, s) = inbuf[c][s] \o net[c][s]
<1>1. buffer[c] = <<>> /\ inbuf[c][s] \in Seq(Nat) /\ net[c][s] \in Seq(Nat)
  BY At DEF CInv, Phases
<1>2. <<>> \o inbuf[c][s] = inbuf[c][s]
  BY <1>1, ConcatEmptySeq
<1>. QED
  BY <1>1, <1>2 DEF OnTheWay

\* Opening a tunnel moves what came with the request from the socket to the stream.
LEMMA HandleConnectKeeps ==
  ASSUME TunnelInv, NEW c \in Conn, HandleConnect(c)
  PROVE  TunnelInv'
<1>. DEFINE N == net[c]["client"]
<1>1. PICK k \in 0 .. Len(N), fails \in SUBSET Side :
        /\ "client" \in fails => "client" \in closed[c]
        /\ inbuf' = [inbuf EXCEPT ![c]["client"] = SubSeq(N, 1, k)]
        /\ net' = [net EXCEPT ![c]["client"] = SubSeq(net[c]["client"], k + 1, Len(net[c]["client"]))]
        /\ broken' = [broken EXCEPT ![c] = fails]
  BY DEF HandleConnect, TunnelInv, TunnelTypes
<1>2. /\ bridge[c] = "none" /\ bridge' = [bridge EXCEPT ![c] = "wait"]
      /\ streams' = [streams EXCEPT ![c] = Side]
      /\ UNCHANGED <<sent, closed, from, buffer, delivered, timedOut>>
  BY DEF HandleConnect
<1>3. "client" \in Side /\ "server" \in Side /\ \A t \in Side : t = "client" \/ t = "server"
  BY DEF Side
<1>4. /\ N \in Seq(Nat) /\ SubSeq(N, 1, k) \in Seq(Nat) /\ SubSeq(N, k + 1, Len(N)) \in Seq(Nat)
      /\ SubSeq(N, 1, k) \o SubSeq(N, k + 1, Len(N)) = N
  <2>1. N \in Seq(Nat)
    BY <1>3, At
  <2>. QED
    BY <2>1, TakenApart
<1>5. TunnelTypes'
  BY <1>1, <1>2, <1>4 DEF TunnelInv, TunnelTypes
<1>6. \A d \in Conn \ {c} : Same(d)
  BY <1>1, <1>2 DEF Same, TunnelInv, TunnelTypes
<1>7. /\ inbuf'[c]["client"] = SubSeq(N, 1, k) /\ net'[c]["client"] = SubSeq(N, k + 1, Len(N))
      /\ inbuf'[c]["server"] = inbuf[c]["server"] /\ net'[c]["server"] = net[c]["server"]
      /\ broken'[c] = fails /\ bridge'[c] = "wait" /\ streams'[c] = Side
  BY <1>1, <1>2, <1>3 DEF TunnelInv, TunnelTypes
<1>8. /\ broken[c] = {} /\ sent[c]["server"] = 0 /\ net[c]["server"] = <<>>
      /\ \A t \in Side : inbuf[c][t] = <<>> /\ delivered[c][t] = <<>>
      /\ buffer[c] = <<>>
  BY <1>2, At DEF CInv, Phases
<1>9. ASSUME NEW t \in Side PROVE OnTheWay(c, t)' = OnTheWay(c, t)
  <2>1. OnTheWay(c, t)' = (<<>> \o inbuf'[c][t]) \o net'[c][t]
    BY <1>2, <1>8 DEF OnTheWay
  <2>2. OnTheWay(c, t) = inbuf[c][t] \o net[c][t]
    BY <1>2, NoBuffer
  <2>3. CASE t = "server"
    <3>1. <<>> \o inbuf[c][t] = inbuf[c][t]
      BY At, ConcatEmptySeq
    <3>. QED
      BY <1>7, <2>1, <2>2, <2>3, <3>1
  <2>4. CASE t = "client"
    <3>1. <<>> \o SubSeq(N, 1, k) = SubSeq(N, 1, k)
      BY <1>4, ConcatEmptySeq
    <3>2. OnTheWay(c, t)' = N
      BY <1>4, <1>7, <2>1, <2>4, <3>1
    <3>3. <<>> \o N = N
      BY <1>4, ConcatEmptySeq
    <3>. QED
      BY <1>8, <2>2, <2>4, <3>2, <3>3
  <2>. QED
    BY <1>3, <2>3, <2>4
<1>10. Carried(c)'
  BY <1>2, <1>8, <1>9, At DEF CInv, Carried
<1>11. Breaks(c)'
  BY <1>1, <1>2, <1>3, <1>7, <1>8 DEF Breaks
<1>12. Phases(c)' /\ Early(c)' /\ Watched(c)' /\ Left(c)'
  BY <1>2, <1>3, <1>7, <1>8 DEF Phases, Early, Watched, Left
<1>. QED
  BY <1>5, <1>6, <1>10, <1>11, <1>12, OneTunnel DEF CInv

\* A byte read is the first on the way, and stays it.
LEMMA ReadOneKeeps ==
  ASSUME TunnelInv, NEW c \in Conn, NEW s \in Side, ReadOne(c, s)
  PROVE  TunnelInv'
<1>. DEFINE N == net[c][s]
            I == inbuf[c][s]
<1>1. /\ bridge[c] = "wait" /\ s \notin broken[c] /\ (I # <<>> \/ N # <<>>)
      /\ from' = [from EXCEPT ![c] = s] /\ bridge' = [bridge EXCEPT ![c] = "relay"]
      /\ UNCHANGED <<sent, closed, streams, broken, delivered, timedOut>>
  BY DEF ReadOne
<1>2. PICK n \in 0 .. Len(N) :
        /\ n = 0 <=> I # <<>>
        /\ buffer' = [buffer EXCEPT ![c] = <<Head(I \o SubSeq(N, 1, n))>>]
        /\ inbuf' = [inbuf EXCEPT ![c][s] = Tail(I \o SubSeq(N, 1, n))]
        /\ net' = [net EXCEPT ![c][s] = SubSeq(net[c][s], n + 1, Len(net[c][s]))]
  BY DEF ReadOne, TunnelInv, TunnelTypes
<1>. DEFINE A == SubSeq(N, 1, n)
            M == SubSeq(N, n + 1, Len(N))
            all == I \o A
<1>3. N \in Seq(Nat) /\ I \in Seq(Nat) /\ A \in Seq(Nat) /\ M \in Seq(Nat) /\ A \o M = N
  <2>1. N \in Seq(Nat) /\ I \in Seq(Nat)
    BY At
  <2>. QED
    BY <2>1, TakenApart
<1>4. all \in Seq(Nat) /\ all # <<>>
  <2>1. n # 0 => A # <<>>
    <3>1. Len(N) \in Nat /\ \A i \in 1 .. Len(N) : N[i] \in Nat
      BY <1>3, LenProperties, ElementOfSeq
    <3>2. n # 0 => Len(A) = n
      BY <3>1, SubSeqProperties
    <3>. QED
      BY <1>3, <3>2, EmptySeq
  <2>. QED
    BY <1>2, <1>3, <2>1, ConcatProperties, ConcatEqualIffEmpty
<1>5. <<Head(all)>> \in Seq(Nat) /\ Tail(all) \in Seq(Nat) /\ <<Head(all)>> \o Tail(all) = all
  BY <1>4, HeadFirst
<1>6. TunnelTypes'
  BY <1>1, <1>2, <1>3, <1>5 DEF TunnelInv, TunnelTypes
<1>7. \A d \in Conn \ {c} : Same(d)
  BY <1>1, <1>2 DEF Same, TunnelInv, TunnelTypes
<1>8. /\ inbuf'[c][s] = Tail(all) /\ net'[c][s] = M /\ buffer'[c] = <<Head(all)>>
      /\ inbuf'[c][Other(s)] = inbuf[c][Other(s)] /\ net'[c][Other(s)] = net[c][Other(s)]
      /\ from'[c] = s /\ bridge'[c] = "relay"
  <2>1. from'[c] = s /\ bridge'[c] = "relay" /\ buffer'[c] = <<Head(all)>>
    BY <1>1, <1>2 DEF TunnelInv, TunnelTypes
  <2>2. inbuf'[c][s] = Tail(all) /\ inbuf'[c][Other(s)] = inbuf[c][Other(s)]
    <3>1. inbuf' = [inbuf EXCEPT ![c][s] = Tail(all)] /\ inbuf \in [Conn -> [Side -> Seq(Nat)]]
      BY <1>2 DEF TunnelInv, TunnelTypes
    <3>. HIDE DEF all
    <3>. QED
      BY <3>1, SideLemma
  <2>3. net'[c][s] = M /\ net'[c][Other(s)] = net[c][Other(s)]
    <3>1. net' = [net EXCEPT ![c][s] = M] /\ net \in [Conn -> [Side -> Seq(Nat)]]
      BY <1>2 DEF TunnelInv, TunnelTypes
    <3>. HIDE DEF M
    <3>. QED
      BY <3>1, SideLemma
  <2>. QED
    BY <2>1, <2>2, <2>3
<1>9. OnTheWay(c, s)' = OnTheWay(c, s)
  <2>1. OnTheWay(c, s)' = (<<Head(all)>> \o Tail(all)) \o M
    BY <1>8 DEF OnTheWay
  <2>2. OnTheWay(c, s) = I \o N
    BY <1>1, NoBuffer
  <2>3. (I \o A) \o M = I \o (A \o M)
    BY <1>3, Regroup, Zenon
  <2>. QED
    BY <1>3, <1>5, <2>1, <2>2, <2>3
<1>10. OnTheWay(c, Other(s))' = OnTheWay(c, Other(s))
  <2>1. OnTheWay(c, Other(s))' = (<<>> \o inbuf[c][Other(s)]) \o net[c][Other(s)]
    BY <1>8, SideLemma DEF OnTheWay
  <2>2. OnTheWay(c, Other(s)) = inbuf[c][Other(s)] \o net[c][Other(s)]
    BY <1>1, NoBuffer, SideLemma
  <2>3. inbuf[c][Other(s)] \in Seq(Nat)
    BY At, SideLemma
  <2>4. <<>> \o inbuf[c][Other(s)] = inbuf[c][Other(s)]
    BY <2>3, ConcatEmptySeq
  <2>. QED
    BY <2>1, <2>2, <2>4
<1>11. Carried(c)'
  <2>1. \A t \in Side : OnTheWay(c, t)' = OnTheWay(c, t)
    BY <1>9, <1>10, SideLemma
  <2>. QED
    BY <1>1, <2>1, At DEF CInv, Carried
<1>12. Breaks(c)'
  <2>1. \A t \in broken[c] : t \in Side /\ t = Other(s)
    BY <1>1, At, SideLemma
  <2>. QED
    BY <1>1, <1>8, <2>1, At DEF CInv, Breaks
<1>13. Early(c)'
  <2>1. \A t \in Side : t = s \/ inbuf'[c][t] = inbuf[c][t]
    BY <1>8, SideLemma
  <2>. QED
    BY <1>1, <1>8, <2>1, At DEF CInv, Early
<1>14. Phases(c)' /\ Watched(c)' /\ Left(c)'
  BY <1>1, <1>8, At DEF CInv, Phases, Watched, Left
<1>. QED
  BY <1>6, <1>7, <1>11, <1>12, <1>13, <1>14, OneTunnel DEF CInv

\* A stream at its end, or broken, is not watched any more: its peer has ended.
LEMMA RemoveStreamKeeps ==
  ASSUME TunnelInv, NEW c \in Conn, NEW s \in Side, RemoveStream(c, s)
  PROVE  TunnelInv'
<1>1. /\ bridge[c] = "wait" /\ (net[c][s] # <<>> \/ s \in closed[c])
      /\ s \in broken[c] \/ net[c][s] = <<>>
      /\ streams' = [streams EXCEPT ![c] = streams[c] \ {s}]
      /\ broken' = [broken EXCEPT ![c] = broken[c] \cup {s}]
      /\ UNCHANGED <<sent, closed, net, bridge, from, inbuf, buffer, delivered, timedOut>>
  BY DEF RemoveStream, HasEvent, peerVars
<1>2. TunnelTypes'
  BY <1>1 DEF TunnelInv, TunnelTypes
<1>3. \A d \in Conn \ {c} : Same(d)
  BY <1>1 DEF Same, TunnelInv, TunnelTypes
<1>4. /\ streams'[c] = streams[c] \ {s} /\ broken'[c] = broken[c] \cup {s}
      /\ \A t \in Side : OnTheWay(c, t)' = OnTheWay(c, t)
  BY <1>1 DEF TunnelInv, TunnelTypes, OnTheWay
<1>5. s \in closed[c]
  BY <1>1, At DEF CInv, Breaks
<1>6. Carried(c)' /\ Breaks(c)'
  BY <1>1, <1>4, <1>5, At DEF CInv, Carried, Breaks
<1>7. Phases(c)' /\ Early(c)' /\ Watched(c)' /\ Left(c)'
  BY <1>1, <1>4, <1>5, At DEF CInv, Phases, Early, Watched, Left
<1>. QED
  BY <1>2, <1>3, <1>6, <1>7, OneTunnel DEF CInv

\* What is relayed was the first on the way.
LEMMA RelayKeeps ==
  ASSUME TunnelInv, NEW c \in Conn, Relay(c)
  PROVE  TunnelInv'
<1>0. PICK f \in Side : f = from[c]
  BY At
<1>. DEFINE to == Other(f)
            D == delivered[c][to]
            B == buffer[c]
            I == inbuf[c][f]
            N == net[c][f]
<1>1. /\ bridge[c] = "relay"
      /\ buffer' = [buffer EXCEPT ![c] = <<>>] /\ inbuf' = [inbuf EXCEPT ![c][f] = <<>>]
      /\ bridge' = [bridge EXCEPT ![c] = "wait"]
      /\ UNCHANGED <<sent, closed, net, streams, from, timedOut>>
  BY <1>0 DEF Relay, peerVars
<1>2. \/ /\ to \notin broken[c] /\ delivered' = [delivered EXCEPT ![c][to] = delivered[c][to] \o (B \o I)]
         /\ UNCHANGED broken
      \/ /\ to \in broken[c] \cup closed[c] /\ broken' = [broken EXCEPT ![c] = broken[c] \cup {to}]
         /\ UNCHANGED delivered
  BY <1>0 DEF Relay, Relayed, TunnelInv, TunnelTypes
<1>3. f \in Side /\ to \in Side /\ to # f /\ Other(to) = f /\ \A t \in Side : t = f \/ t = to
  BY At, SideLemma
<1>4. /\ D \in Seq(Nat) /\ B \in Seq(Nat) /\ I \in Seq(Nat) /\ N \in Seq(Nat)
      /\ B \o I \in Seq(Nat) /\ D \o (B \o I) \in Seq(Nat) /\ <<>> \in Seq(Nat)
  <2>1. D \in Seq(Nat) /\ B \in Seq(Nat) /\ I \in Seq(Nat) /\ N \in Seq(Nat)
    BY <1>3, At
  <2>2. B \o I \in Seq(Nat)
    BY <2>1, ConcatProperties
  <2>. QED
    BY <2>1, <2>2, ConcatProperties, EmptySeq
<1>5. TunnelTypes'
  <2>1. /\ buffer' \in [Conn -> Seq(Nat)] /\ inbuf' \in [Conn -> [Side -> Seq(Nat)]]
        /\ bridge' \in [Conn -> {"none", "wait", "relay", "down"}]
    BY <1>1, <1>3, <1>4 DEF TunnelInv, TunnelTypes
  <2>2. broken' \in [Conn -> SUBSET Side]
    <3>1. broken[c] \cup {to} \in SUBSET Side /\ broken \in [Conn -> SUBSET Side]
      BY <1>3 DEF TunnelInv, TunnelTypes
    <3>. HIDE DEF to, D
    <3>. QED
      BY <1>2, <3>1
  <2>3. delivered' \in [Conn -> [Side -> Seq(Nat)]]
    <3>. DEFINE E == D \o (B \o I)
    <3>1. delivered \in [Conn -> [Side -> Seq(Nat)]] /\ E \in Seq(Nat) /\ to \in Side
      BY <1>3, <1>4 DEF TunnelInv, TunnelTypes
    <3>2. delivered' = [delivered EXCEPT ![c][to] = E] \/ UNCHANGED delivered
      BY <1>2
    <3>. HIDE DEF E, to
    <3>3. [delivered EXCEPT ![c][to] = E] \in [Conn -> [Side -> Seq(Nat)]]
      BY <3>1
    <3>4. CASE delivered' = [delivered EXCEPT ![c][to] = E]
      BY <3>3, <3>4, Zenon
    <3>5. CASE UNCHANGED delivered
      BY <3>1, <3>5
    <3>. QED
      BY <3>2, <3>4, <3>5
  <2>. QED
    BY <1>1, <2>1, <2>2, <2>3 DEF TunnelInv, TunnelTypes
<1>6. \A d \in Conn \ {c} : Same(d)
  BY <1>1, <1>2 DEF Same, TunnelInv, TunnelTypes
<1>7. /\ buffer'[c] = <<>> /\ inbuf'[c][f] = <<>> /\ bridge'[c] = "wait"
      /\ inbuf'[c][to] = inbuf[c][to] /\ delivered'[c][f] = delivered[c][f]
      /\ broken[c] \subseteq broken'[c]
      /\ \A t \in broken'[c] : t \in broken[c] \/ (t = to /\ t \in closed[c])
      /\ to \notin broken'[c] => to \notin broken[c] /\ delivered'[c][to] = D \o (B \o I)
      /\ \/ to \notin broken[c] /\ delivered'[c][to] = D \o (B \o I)
         \/ to \in broken'[c] /\ delivered'[c][to] = D
  <2>1. buffer'[c] = <<>> /\ inbuf'[c][f] = <<>> /\ bridge'[c] = "wait" /\ inbuf'[c][to] = inbuf[c][to]
    BY <1>1, <1>3 DEF TunnelInv, TunnelTypes
  <2>2. CASE /\ to \notin broken[c] /\ delivered' = [delivered EXCEPT ![c][to] = delivered[c][to] \o (B \o I)]
             /\ UNCHANGED broken
    <3>1. delivered'[c][f] = delivered[c][f] /\ delivered'[c][to] = D \o (B \o I)
      BY <1>3, <2>2 DEF TunnelInv, TunnelTypes
    <3>. QED
      BY <2>1, <2>2, <3>1
  <2>3. CASE /\ to \in broken[c] \cup closed[c] /\ broken' = [broken EXCEPT ![c] = broken[c] \cup {to}]
             /\ UNCHANGED delivered
    <3>1. broken'[c] = broken[c] \cup {to}
      BY <2>3 DEF TunnelInv, TunnelTypes
    <3>. QED
      BY <2>1, <2>3, <3>1
  <2>. QED
    BY <1>2, <2>2, <2>3
<1>8. OnTheWay(c, f) = (B \o I) \o N /\ OnTheWay(c, f)' = N
  <2>1. OnTheWay(c, f)' = (<<>> \o <<>>) \o N
    BY <1>0, <1>1, <1>7 DEF OnTheWay
  <2>2. <<>> \o <<>> = <<>> /\ <<>> \o N = N
    BY <1>4, ConcatEmptySeq
  <2>. QED
    BY <1>0, <2>1, <2>2 DEF OnTheWay
<1>9. OnTheWay(c, to)' = OnTheWay(c, to)
  BY <1>0, <1>1, <1>3, <1>7 DEF OnTheWay
<1>10. ASSUME to \notin broken[c]
       PROVE  (D \o (B \o I)) \o N = FirstBytes(sent[c][f]) /\ InOrder(D \o (B \o I), sent[c][f])
  <2>1. D \o ((B \o I) \o N) = FirstBytes(sent[c][f])
    BY <1>3, <1>8, <1>10, At DEF CInv, Carried
  <2>2. (D \o (B \o I)) \o N = D \o ((B \o I) \o N)
    <3>. DEFINE X == B \o I
    <3>1. D \in Seq(Nat) /\ X \in Seq(Nat) /\ N \in Seq(Nat)
      BY <1>4
    <3>2. (D \o X) \o N = D \o (X \o N)
      <4>. HIDE DEF D, X, N
      <4>. QED
        BY <3>1, Regroup, Zenon
    <3>. QED
      BY <3>2
  <2>3. sent[c][f] \in Nat
    BY <1>3, At
  <2>. QED
    BY <1>4, <2>1, <2>2, <2>3, GivenFirst
<1>11. Carried(c)'
  <2>1. /\ InOrder(D, sent[c][f]) /\ InOrder(delivered[c][f], sent[c][to])
        /\ f \notin broken[c] => delivered[c][f] \o OnTheWay(c, to) = FirstBytes(sent[c][to])
    BY <1>3, At DEF CInv, Carried
  <2>2. InOrder(delivered'[c][to], sent'[c][f])
    BY <1>1, <1>2, <1>7, <1>10, <2>1
  <2>3. to \notin broken'[c] => delivered'[c][to] \o OnTheWay(c, f)' = FirstBytes(sent'[c][f])
    BY <1>1, <1>7, <1>8, <1>10
  <2>4. /\ InOrder(delivered'[c][f], sent'[c][to])
        /\ f \notin broken'[c] => delivered'[c][f] \o OnTheWay(c, to)' = FirstBytes(sent'[c][to])
    BY <1>1, <1>7, <1>9, <2>1
  <2>5. ASSUME NEW t \in Side
        PROVE  /\ InOrder(delivered'[c][Other(t)], sent'[c][t])
               /\ Other(t) \notin broken'[c] =>
                    delivered'[c][Other(t)] \o OnTheWay(c, t)' = FirstBytes(sent'[c][t])
    <3>1. CASE t = f
      BY <2>2, <2>3, <3>1
    <3>2. CASE t = to
      <4>1. Other(t) = f
        BY <1>3, <3>2
      <4>. HIDE DEF to
      <4>. QED
        BY <2>4, <3>2, <4>1
    <3>. QED
      BY <1>3, <3>1, <3>2
  <2>. QED
    BY <2>5 DEF Carried
<1>12. Breaks(c)'
  BY <1>1, <1>7, At DEF CInv, Breaks
<1>13. Early(c)'
  <2>1. ASSUME inbuf[c][to] # <<>> PROVE to = "client" /\ delivered[c]["server"] = <<>> /\ f = "server"
    BY <1>0, <1>3, <2>1, At DEF CInv, Early, Side
  <2>2. ASSUME NEW t \in Side, inbuf'[c][t] # <<>> PROVE t = "client" /\ delivered'[c]["server"] = <<>>
    BY <1>3, <1>7, <2>1, <2>2
  <2>. QED
    BY <2>2 DEF Early
<1>14. Watched(c)'
  BY <1>1, <1>7, At DEF CInv, Watched
<1>15. Phases(c)' /\ Left(c)'
  BY <1>7 DEF Phases, Left
<1>. QED
  BY <1>5, <1>6, <1>11, <1>12, <1>13, <1>14, <1>15, OneTunnel DEF CInv

\* When nothing comes, a watched stream has at most what came with the request.
LEMMA TimeOutKeeps ==
  ASSUME TunnelInv, NEW c \in Conn, TimeOut(c)
  PROVE  TunnelInv'
<1>1. /\ bridge[c] = "wait" /\ \A s \in streams[c] \cap Side : net[c][s] = <<>>
      /\ bridge' = [bridge EXCEPT ![c] = "down"] /\ timedOut' = timedOut \cup {c}
      /\ UNCHANGED <<sent, closed, net, streams, from, inbuf, buffer, broken, delivered>>
  BY DEF TimeOut, HasEvent, peerVars
<1>2. TunnelTypes'
  BY <1>1 DEF TunnelInv, TunnelTypes
<1>3. \A d \in Conn \ {c} : Same(d)
  BY <1>1 DEF Same, TunnelInv, TunnelTypes
<1>4. bridge'[c] = "down" /\ \A t \in Side : OnTheWay(c, t)' = OnTheWay(c, t)
  BY <1>1 DEF TunnelInv, TunnelTypes, OnTheWay
<1>5. Carried(c)' /\ Breaks(c)' /\ Phases(c)' /\ Watched(c)'
  <2>1. Carried(c)'
    BY <1>1, <1>4, At DEF CInv, Carried
  <2>2. Breaks(c)' /\ Phases(c)'
    BY <1>1, <1>4, At DEF CInv, Breaks, Phases
  <2>. QED
    BY <1>1, <1>4, <2>1, <2>2, At DEF CInv, Watched
<1>6. ASSUME NEW s \in Side, inbuf[c][s] # <<>> PROVE s = "client" /\ delivered[c]["server"] = <<>>
  BY <1>1, <1>6, At DEF CInv, Early
<1>7. Early(c)'
  BY <1>1, <1>6 DEF Early
<1>8. Left(c)'
  <2>. SUFFICES ASSUME NEW s \in Side, Other(s) \notin broken[c], OnTheWay(c, s) # <<>>
                PROVE  \/ s \in broken[c] \cap closed[c]
                       \/ s = "client" /\ c \in timedOut' /\ delivered[c][Other(s)] = <<>> /\ net[c][s] = <<>>
    BY <1>1, <1>4 DEF Left
  <2>1. CASE s \notin streams[c]
    BY <1>1, <2>1, At DEF CInv, Watched
  <2>2. CASE s \in streams[c]
    <3>1. net[c][s] = <<>>
      BY <1>1, <2>2
    <3>2. OnTheWay(c, s) = inbuf[c][s] \o <<>>
      BY <1>1, <3>1, NoBuffer
    <3>3. inbuf[c][s] # <<>>
      <4>1. <<>> \o <<>> = <<>>
        BY ConcatEmptySeq, EmptySeq
      <4>. QED
        BY <3>2, <4>1
    <3>. QED
      BY <1>1, <1>6, <3>1, <3>3 DEF Other
  <2>. QED
    BY <2>1, <2>2
<1>. QED
  BY <1>2, <1>3, <1>5, <1>7, <1>8, OneTunnel DEF CInv

\* When no stream is watched both are broken.
LEMMA TearDownKeeps ==
  ASSUME TunnelInv, NEW c \in Conn, TearDown(c)
  PROVE  TunnelInv'
<1>1. /\ bridge[c] = "wait" /\ streams[c] = {} /\ bridge' = [bridge EXCEPT ![c] = "down"]
      /\ UNCHANGED <<sent, closed, net, streams, from, inbuf, buffer, broken, delivered, timedOut>>
  BY DEF TearDown, peerVars
<1>2. TunnelTypes'
  BY <1>1 DEF TunnelInv, TunnelTypes
<1>3. \A d \in Conn \ {c} : Same(d)
  BY <1>1 DEF Same, TunnelInv, TunnelTypes
<1>4. bridge'[c] = "down" /\ \A t \in Side : OnTheWay(c, t)' = OnTheWay(c, t)
  BY <1>1 DEF TunnelInv, TunnelTypes, OnTheWay
<1>5. \A s \in Side : s \in broken[c]
  BY <1>1, At DEF CInv, Watched
<1>6. Left(c)'
  BY <1>1, <1>4, <1>5, SideLemma DEF Left
<1>7. Carried(c)' /\ Breaks(c)' /\ Phases(c)' /\ Early(c)' /\ Watched(c)'
  <2>1. Carried(c)'
    BY <1>1, <1>4, At DEF CInv, Carried
  <2>2. Breaks(c)' /\ Phases(c)'
    BY <1>1, <1>4, At DEF CInv, Breaks, Phases
  <2>3. Early(c)' /\ Watched(c)'
    BY <1>1, <1>4, At DEF CInv, Early, Watched
  <2>. QED
    BY <2>1, <2>2, <2>3
<1>. QED
  BY <1>2, <1>3, <1>6, <1>7, OneTunnel DEF CInv
------------------------------------------------------------------------------
\* At first no tunnel holds anything.
LEMMA TunnelInitial == TunnelInit => TunnelInv
<1>. SUFFICES ASSUME TunnelInit PROVE TunnelInv
  OBVIOUS
<1>1. TunnelTypes
  <2>1. <<>> \in Seq(Nat) /\ "client" \in Side
    BY EmptySeq DEF Side
  <2>. QED
    BY <2>1 DEF TunnelInit, TunnelTypes, Both
<1>2. ASSUME NEW c \in Conn PROVE CInv(c)
  <2>1. /\ closed[c] = {} /\ bridge[c] = "none" /\ streams[c] = {} /\ from[c] = "client"
        /\ buffer[c] = <<>> /\ broken[c] = {}
        /\ \A s \in Side : sent[c][s] = 0 /\ net[c][s] = <<>> /\ inbuf[c][s] = <<>> /\ delivered[c][s] = <<>>
    BY DEF TunnelInit, Both
  <2>2. <<>> \o <<>> = <<>>
    BY ConcatEmptySeq, EmptySeq
  <2>3. FirstBytes(0) = <<>> /\ InOrder(<<>>, 0)
    <3>1. FirstBytes(0) \in Seq(Nat) /\ Len(FirstBytes(0)) = 0
      BY FirstBytesNext
    <3>2. Len(<<>>) = 0
      BY EmptySeq
    <3>. QED
      BY <3>1, <3>2, EmptySeq DEF InOrder
  <2>4. \A s \in Side : OnTheWay(c, s) = <<>>
    BY <2>1, <2>2 DEF OnTheWay
  <2>5. Carried(c)
    BY <2>1, <2>2, <2>3, <2>4, SideLemma DEF Carried
  <2>6. Breaks(c) /\ Phases(c) /\ Early(c) /\ Watched(c) /\ Left(c)
    BY <2>1 DEF Breaks, Phases, Early, Watched, Left, Side
  <2>. QED
    BY <2>5, <2>6 DEF CInv
<1>. QED
  BY <1>1, <1>2 DEF TunnelInv

\* The server's own steps do nothing to a tunnel.
LEMMA Untouched ==
  ASSUME TunnelInv, UNCHANGED tunnelVars
  PROVE  TunnelInv'
<1>1. TunnelTypes' /\ \A c \in Conn : Same(c)
  BY DEF tunnelVars, peerVars, bridgeVars, TunnelInv, TunnelTypes, Same
<1>. QED
  BY <1>1, SameLemma DEF TunnelInv

\* Every step keeps the tunnels' invariant.
LEMMA TunnelInvStep == TunnelInv /\ [Next]_vars => TunnelInv'
<1>. SUFFICES ASSUME TunnelInv, [Next]_vars PROVE TunnelInv'
  OBVIOUS
<1>1. CASE Start \/ MainStep \/ AcceptFails \/ Signal \/ StopStep \/ Dispatch
  <2>1. UNCHANGED tunnelVars
    BY <1>1 DEF Start, MainStep, Accept, AcceptIsWoken, AcceptFails, AcceptReturns, Stopped, Throw,
                Schedule, ScheduleRequest, PoolEnds, Signal, StopStep, Dispatch
  <2>. QED
    BY <2>1, Untouched
<1>2. ASSUME NEW c \in Conn, Connect(c) \/ Answer(c) \/ CloseTunnel(c) PROVE TunnelInv'
  <2>1. UNCHANGED tunnelVars
    BY <1>2 DEF Connect, Answer, CloseTunnel
  <2>. QED
    BY <2>1, Untouched
<1>3. ASSUME NEW c \in Conn, OpenTunnel(c) PROVE TunnelInv'
  BY <1>3, HandleConnectKeeps DEF OpenTunnel
<1>4. ASSUME NEW c \in Conn, InTunnel(c) PROVE TunnelInv'
  BY <1>4, ReadOneKeeps, RemoveStreamKeeps, RelayKeeps, TimeOutKeeps, TearDownKeeps DEF InTunnel, TunnelStep, WatchStep
<1>5. ASSUME NEW c \in Conn, Peers(c) PROVE TunnelInv'
  BY <1>5, PeerSendsKeeps, PeerGoesOnKeeps, PeerClosesKeeps DEF Peers, PeerStep, SomeoneSends
<1>6. CASE UNCHANGED vars
  BY <1>6, Untouched DEF vars
<1>. QED
  BY <1>1, <1>2, <1>3, <1>4, <1>5, <1>6 DEF Next, ThreadStep

\* What comes in order is the first of what was sent.
LEMMA PrefixLemma ==
  ASSUME NEW d \in Seq(Nat), NEW n \in Nat, InOrder(d, n)
  PROVE  IsPrefix(d, FirstBytes(n))
<1>. DEFINE F == FirstBytes(n)
            G == SubSeq(F, 1, Len(d))
<1>1. F \in Seq(Nat) /\ Len(F) = n /\ \A i \in 1 .. n : F[i] = i
  BY FirstBytesNext
<1>2. Len(d) \in Nat /\ Len(d) <= n /\ \A i \in 1 .. Len(d) : d[i] = i
  BY LenProperties DEF InOrder
<1>. HIDE DEF F
<1>3. G \in Seq(Nat) /\ Len(G) = Len(d) /\ \A i \in 1 .. Len(d) : G[i] = F[i]
  <2>1. \A i \in 1 .. Len(d) : F[i] \in Nat
    BY <1>1, <1>2
  <2>2. \A i \in 1 .. Len(d) : 1 + i - 1 = i
    BY <1>2
  <2>. QED
    BY <1>1, <1>2, <2>1, <2>2, SubSeqProperties
<1>4. G = d
  <2>. HIDE DEF G
  <2>. QED
    BY <1>1, <1>2, <1>3, SeqEqual
<1>5. SubSeq(d, 1, Len(d)) = d
  BY SubSeqFull
<1>. QED
  BY <1>1, <1>2, <1>4, <1>5 DEF IsPrefix, F

\* The tunnels' invariant holds in every state.
THEOREM TunnelInvariance == Spec => []TunnelInv
<1>1. Init => TunnelInv
  BY TunnelInitial DEF Init
<1>. QED
  BY <1>1, TunnelInvStep, PTL DEF Spec

\* For any number of connections and bytes: a side is given what the other has sent, in
\* order and without gaps; a tunnel that is down lost only what TunnelKeepsBytes allows.
THEOREM BytesAreKept == Spec => []TunnelKeepsBytes
<1>1. ASSUME TunnelInv PROVE TunnelKeepsBytes
  <2>. SUFFICES ASSUME NEW c \in Conn, NEW s \in Side
                PROVE  /\ IsPrefix(delivered[c][Other(s)], FirstBytes(sent[c][s]))
                       /\ Other(s) \notin broken[c] =>
                            delivered[c][Other(s)] \o OnTheWay(c, s) = FirstBytes(sent[c][s])
                       /\ Other(s) \in broken[c] => Other(s) \in closed[c] \/ Other(s) = "server"
                       /\ bridge[c] = "down" /\ Other(s) \notin broken[c] /\ OnTheWay(c, s) # <<>> =>
                            \/ s \in broken[c] \cap closed[c]
                            \/ /\ s = "client" /\ c \in timedOut
                               /\ delivered[c][Other(s)] = <<>> /\ net[c][s] = <<>>
    BY DEF TunnelKeepsBytes, OnTheWay
  <2>1. IsPrefix(delivered[c][Other(s)], FirstBytes(sent[c][s]))
    BY <1>1, At, SideLemma, PrefixLemma DEF CInv, Carried
  <2>2. CInv(c)
    BY <1>1, At
  <2>. QED
    BY <2>1, <2>2 DEF CInv, Carried, Breaks, Left
<1>. QED
  BY <1>1, TunnelInvariance, PTL
==============================================================================

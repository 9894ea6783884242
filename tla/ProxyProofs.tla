----------------------------- MODULE ProxyProofs -----------------------------
(* The cache for any number of threads, requests and mutexes: one lemma per    *)
(* part of the inductive invariants IInv, Owned and Disk, and the properties   *)
(* as consequences.                                                            *)
EXTENDS ProxyCache, SequenceTheorems, TLAPS

USE DEF locals, disk, world

\* What a request is serialised to and forwarded as.
LEMMA FormType ==
  ASSUME NEW r \in Form
  PROVE  KeyOf(r) \in Key /\ AddHeaders(r) \in Form
<1>1. KeyOf(r) \in Key
  BY DEF Form, Key, KeyOf
<1>2. Append(r.via, r.ip) \in Seq(Ip)
  BY AppendProperties DEF Form
<1>3. AddHeaders(r) \in Form
  BY <1>2 DEF Form, AddHeaders
<1>. QED
  BY <1>1, <1>3

\* Files are removed; only the name of a thread that writes may be.
LEMMA UnlinkType ==
  ASSUME NEW k, NEW n, Unlink(k, n)
  PROVE  /\ files' \subseteq files
         /\ name' \in [Thread -> {name[u] : u \in Thread} \cup {None}]
         /\ \A u \in Thread : name'[u] = name[u] \/ (pc[u] = "write" /\ name'[u] = None)
BY DEF Unlink

\* When a file's name says the response expires.
LEMMA ExpirationType ==
  ASSUME NEW ttl \in Nat, NEW time \in Nat
  PROVE  /\ Expiration(ttl, time) \in Nat /\ Expiration(ttl, time) <= time + ttl
         /\ MaxAge > 0 => Expiration(ttl, time) <= time + MaxAge
BY ProxyAssumption DEF Expiration, Least

\* What the second reading of the clock makes of the first.
LEMMA SecondClockNames ==
  ASSUME IInv, NEW t \in Thread, SecondClock(t)
  PROVE  \E n \in Name : /\ name' = [name EXCEPT ![t] = n]
                       /\ FreshName(n, now, own[t].body.ttl)
<1>1. own[t].body.ttl \in Nat /\ asof[t] \in Nat /\ asof[t] <= now /\ now \in Nat /\ MaxAge \in Int
  BY ProxyAssumption DEF SecondClock, IInv, TypeOK, Places, Storing, Response, Body, Fresh,
     FreshThread
<1>. DEFINE ttl == own[t].body.ttl
            a   == [create |-> asof[t], expires |-> Expiration(ttl, now)]
            b   == [create |-> now, expires |-> Expiration(ttl, asof[t])]
<1>2. /\ Expiration(ttl, now) \in Nat /\ Expiration(ttl, now) <= now + ttl
      /\ MaxAge > 0 => Expiration(ttl, now) <= now + MaxAge
  BY <1>1, ExpirationType
<1>3. /\ Expiration(ttl, asof[t]) \in Nat /\ Expiration(ttl, asof[t]) <= now + ttl
      /\ MaxAge > 0 => Expiration(ttl, asof[t]) <= now + MaxAge
  <2>1. /\ Expiration(ttl, asof[t]) \in Nat /\ Expiration(ttl, asof[t]) <= asof[t] + ttl
        /\ MaxAge > 0 => Expiration(ttl, asof[t]) <= asof[t] + MaxAge
    BY <1>1, ExpirationType
  <2>. HIDE DEF ttl
  <2>. QED
    BY <1>1, <2>1 DEF ttl
<1>4. a \in Name /\ b \in Name
  BY <1>1, <1>2, <1>3 DEF Name
<1>5. name' = [name EXCEPT ![t] = a] \/ name' = [name EXCEPT ![t] = b]
  BY DEF SecondClock
<1>6. a.expires = Expiration(ttl, now) /\ b.expires = Expiration(ttl, asof[t])
  OBVIOUS
<1>. QED
  BY <1>2, <1>3, <1>4, <1>5, <1>6 DEF FreshName
------------------------------------------------------------------------------
\* Every step keeps the mutexes with the threads that locked them.
LEMMA MutexesStep == IInv /\ [Next]_vars => Mutexes'
<1>. SUFFICES ASSUME IInv, [Next]_vars PROVE Mutexes'
  OBVIOUS
<1>. USE DEF IInv, TypeOK, Mutexes, InCache, Looking, Storing, Goto, Unlock, Drop, Return, Miss, Forget
<1>1. ASSUME NEW t \in Thread, NEW r \in Request, Accept(t, r) PROVE Mutexes'
  BY <1>1 DEF Accept
<1>2. ASSUME NEW t \in Thread, Refuse(t) PROVE Mutexes'
  BY <1>2 DEF Refuse
<1>3. ASSUME NEW t \in Thread, LookUp(t) PROVE Mutexes'
  BY <1>3 DEF LookUp
<1>4. ASSUME NEW t \in Thread, Stat(t) PROVE Mutexes'
  BY <1>4 DEF Stat
<1>5. ASSUME NEW t \in Thread, Exists(t) PROVE Mutexes'
  BY <1>5 DEF Exists
<1>6. ASSUME NEW t \in Thread, FindName(t) PROVE Mutexes'
  BY <1>6 DEF FindName
<1>7. ASSUME NEW t \in Thread, Check(t) PROVE Mutexes'
  BY <1>7 DEF Check
<1>8. ASSUME NEW t \in Thread, RemoveExpired(t) PROVE Mutexes'
  BY <1>8, UnlinkType DEF RemoveExpired
<1>9. ASSUME NEW t \in Thread, RemoveDirectory(t) PROVE Mutexes'
  BY <1>9 DEF RemoveDirectory
<1>10. ASSUME NEW t \in Thread, Read(t) PROVE Mutexes'
  BY <1>10 DEF Read
<1>11. ASSUME NEW t \in Thread, SendHit(t) PROVE Mutexes'
  BY <1>11 DEF SendHit
<1>12. ASSUME NEW t \in Thread, Forward(t) PROVE Mutexes'
  BY <1>12 DEF Forward
<1>13. ASSUME NEW t \in Thread, Relock(t) PROVE Mutexes'
  BY <1>13 DEF Relock
<1>14. ASSUME NEW t \in Thread, Ensure(t) PROVE Mutexes'
  BY <1>14 DEF Ensure
<1>15. ASSUME NEW t \in Thread, MakeDirectory(t) PROVE Mutexes'
  BY <1>15 DEF MakeDirectory
<1>16. ASSUME NEW t \in Thread, OpenToClear(t) PROVE Mutexes'
  BY <1>16 DEF OpenToClear
<1>17. ASSUME NEW t \in Thread, Clear(t) PROVE Mutexes'
  BY <1>17, UnlinkType DEF Clear
<1>18. ASSUME NEW t \in Thread, FirstClock(t) PROVE Mutexes'
  BY <1>18 DEF FirstClock
<1>19. ASSUME NEW t \in Thread, SecondClock(t) PROVE Mutexes'
  BY <1>19 DEF SecondClock
<1>20. ASSUME NEW t \in Thread, Create(t) PROVE Mutexes'
  BY <1>20 DEF Create
<1>21. ASSUME NEW t \in Thread, Write(t) PROVE Mutexes'
  BY <1>21 DEF Write
<1>22. ASSUME NEW t \in Thread, Send(t) PROVE Mutexes'
  BY <1>22 DEF Send
<1>23. ASSUME NEW t \in Thread, GiveUp(t) PROVE Mutexes'
  BY <1>23 DEF GiveUp
<1>24. CASE Tick
  BY <1>24 DEF Tick
<1>25. CASE Crash
  BY <1>25 DEF Crash
<1>26. CASE UNCHANGED vars
  BY <1>26 DEF vars
<1>. QED
  BY <1>1, <1>2, <1>3, <1>4, <1>5, <1>6, <1>7, <1>8, <1>9, <1>10, <1>11, <1>12, <1>13, <1>14,
     <1>15, <1>16, <1>17, <1>18, <1>19, <1>20, <1>21, <1>22, <1>23, <1>24, <1>25, <1>26
     DEF Next, Service, Works, Peers

\* Every step leaves the threads with what they need.
LEMMA PlacesStep == IInv /\ [Next]_vars => Places'
<1>. SUFFICES ASSUME IInv, [Next]_vars PROVE Places'
  OBVIOUS
<1>. USE DEF IInv, TypeOK, Places, Storing, Goto, Drop, Return, Miss, Forget, NameOf, File, Response
<1>1. ASSUME NEW t \in Thread, NEW r \in Request, Accept(t, r) PROVE Places'
  BY <1>1, ProxyAssumption DEF Accept
<1>2. ASSUME NEW t \in Thread, Refuse(t) PROVE Places'
  BY <1>2 DEF Refuse
<1>3. ASSUME NEW t \in Thread, LookUp(t) PROVE Places'
  BY <1>3 DEF LookUp
<1>4. ASSUME NEW t \in Thread, Stat(t) PROVE Places'
  BY <1>4 DEF Stat
<1>5. ASSUME NEW t \in Thread, Exists(t) PROVE Places'
  BY <1>5 DEF Exists
<1>6. ASSUME NEW t \in Thread, FindName(t) PROVE Places'
  BY <1>6 DEF FindName, FilesIn, Name
<1>7. ASSUME NEW t \in Thread, Check(t) PROVE Places'
  BY <1>7 DEF Check
<1>8. ASSUME NEW t \in Thread, RemoveExpired(t) PROVE Places'
  BY <1>8, UnlinkType DEF RemoveExpired
<1>9. ASSUME NEW t \in Thread, RemoveDirectory(t) PROVE Places'
  BY <1>9 DEF RemoveDirectory
<1>10. ASSUME NEW t \in Thread, Read(t) PROVE Places'
  BY <1>10 DEF Read, Called, FilesIn
<1>11. ASSUME NEW t \in Thread, SendHit(t) PROVE Places'
  BY <1>11 DEF SendHit
<1>12. ASSUME NEW t \in Thread, Forward(t) PROVE Places'
  BY <1>12, FormType, ProxyAssumption DEF Forward, Form, Body
<1>13. ASSUME NEW t \in Thread, Relock(t) PROVE Places'
  BY <1>13 DEF Relock
<1>14. ASSUME NEW t \in Thread, Ensure(t) PROVE Places'
  BY <1>14 DEF Ensure
<1>15. ASSUME NEW t \in Thread, MakeDirectory(t) PROVE Places'
  BY <1>15 DEF MakeDirectory
<1>16. ASSUME NEW t \in Thread, OpenToClear(t) PROVE Places'
  BY <1>16 DEF OpenToClear
<1>17. ASSUME NEW t \in Thread, Clear(t) PROVE Places'
  BY <1>17, UnlinkType DEF Clear
<1>18. ASSUME NEW t \in Thread, FirstClock(t) PROVE Places'
  BY <1>18 DEF FirstClock
<1>19. ASSUME NEW t \in Thread, SecondClock(t) PROVE Places'
  <2>1. PICK n \in Name : name' = [name EXCEPT ![t] = n]
    BY <1>19, SecondClockNames
  <2>2. /\ pc' = [pc EXCEPT ![t] = "create"] /\ pc[t] = "time" /\ UNCHANGED <<req, own>>
    BY <1>19 DEF SecondClock
  <2>. QED
    BY <2>1, <2>2
<1>20. ASSUME NEW t \in Thread, Create(t) PROVE Places'
  BY <1>20 DEF Create
<1>21. ASSUME NEW t \in Thread, Write(t) PROVE Places'
  BY <1>21 DEF Write
<1>22. ASSUME NEW t \in Thread, Send(t) PROVE Places'
  BY <1>22 DEF Send
<1>23. ASSUME NEW t \in Thread, GiveUp(t) PROVE Places'
  BY <1>23 DEF GiveUp
<1>24. CASE Tick
  BY <1>24 DEF Tick
<1>25. CASE Crash
  BY <1>25 DEF Crash
<1>26. CASE UNCHANGED vars
  BY <1>26 DEF vars
<1>. QED
  BY <1>1, <1>2, <1>3, <1>4, <1>5, <1>6, <1>7, <1>8, <1>9, <1>10, <1>11, <1>12, <1>13, <1>14,
     <1>15, <1>16, <1>17, <1>18, <1>19, <1>20, <1>21, <1>22, <1>23, <1>24, <1>25, <1>26
     DEF Next, Service, Works, Peers

\* Every step keeps the types.
LEMMA TypeStep == IInv /\ Mutexes' /\ [Next]_vars => TypeOK'
<1>. SUFFICES ASSUME IInv, Mutexes', [Next]_vars PROVE TypeOK'
  OBVIOUS
<1>. locked' \subseteq {index'[t] : t \in Thread}
  BY DEF Mutexes
<1>. USE DEF IInv, TypeOK, Places, Place, Storing, Goto, Drop, Return, Miss, Forget
<1>1. ASSUME NEW t \in Thread, NEW r \in Request, Accept(t, r) PROVE TypeOK'
  BY <1>1, ProxyAssumption DEF Accept
<1>2. ASSUME NEW t \in Thread, Refuse(t) PROVE TypeOK'
  BY <1>2 DEF Refuse
<1>3. ASSUME NEW t \in Thread, LookUp(t) PROVE TypeOK'
  <2>1. Entry(t) = KeyOf(req[t]) /\ req[t] \in Request
    BY <1>3 DEF LookUp, Origins, Entry
  <2>2. index' \in [Thread -> {Stripe(KeyOf(r)) : r \in Request} \cup {None}]
    BY <1>3, <2>1 DEF LookUp
  <2>. QED
    BY <1>3, <2>2 DEF LookUp
<1>4. ASSUME NEW t \in Thread, Stat(t) PROVE TypeOK'
  BY <1>4 DEF Stat
<1>5. ASSUME NEW t \in Thread, Exists(t) PROVE TypeOK'
  BY <1>5 DEF Exists
<1>6. ASSUME NEW t \in Thread, FindName(t) PROVE TypeOK'
  <2>1. name' \in [Thread -> Name \cup {None}]
    BY <1>6 DEF FindName, FilesIn, NameOf, Name, File
  <2>. QED
    BY <1>6, <2>1 DEF FindName
<1>7. ASSUME NEW t \in Thread, Check(t) PROVE TypeOK'
  BY <1>7 DEF Check
<1>8. ASSUME NEW t \in Thread, RemoveExpired(t) PROVE TypeOK'
  BY <1>8, UnlinkType DEF RemoveExpired
<1>9. ASSUME NEW t \in Thread, RemoveDirectory(t) PROVE TypeOK'
  <2>1. dirs' \subseteq Key /\ \A f \in files' : f.key \in dirs'
    BY <1>9 DEF RemoveDirectory, FilesIn
  <2>. QED
    BY <1>9, <2>1 DEF RemoveDirectory
<1>10. ASSUME NEW t \in Thread, Read(t) PROVE TypeOK'
  <2>1. own' \in [Thread -> Response \cup {None}]
    BY <1>10 DEF Read, Called, FilesIn, File, Response
  <2>. QED
    BY <1>10, <2>1 DEF Read
<1>11. ASSUME NEW t \in Thread, SendHit(t) PROVE TypeOK'
  BY <1>11 DEF SendHit
<1>12. ASSUME NEW t \in Thread, Forward(t) PROVE TypeOK'
  <2>1. req[t] \in Form
    BY <1>12 DEF Forward
  <2>2. req' \in [Thread -> Form \cup {None}]
    BY <1>12, <2>1, FormType DEF Forward
  <2>3. PICK ttl \in TTL :
          own' = [own EXCEPT ![t] = [whole |-> TRUE, stored |-> 0,
                                     body |-> [server |-> req[t].server, ttl |-> ttl]]]
    BY <1>12 DEF Forward
  <2>4. [whole |-> TRUE, stored |-> 0,
         body |-> [server |-> req[t].server, ttl |-> ttl]] \in Response
    BY <2>1, ProxyAssumption DEF Response, Body, Form
  <2>5. own' \in [Thread -> Response \cup {None}]
    BY <2>3, <2>4
  <2>. QED
    BY <1>12, <2>2, <2>5 DEF Forward
<1>13. ASSUME NEW t \in Thread, Relock(t) PROVE TypeOK'
  BY <1>13 DEF Relock
<1>14. ASSUME NEW t \in Thread, Ensure(t) PROVE TypeOK'
  BY <1>14 DEF Ensure
<1>15. ASSUME NEW t \in Thread, MakeDirectory(t) PROVE TypeOK'
  <2>1. Entry(t) \in Key
    BY <1>15, FormType DEF MakeDirectory, Entry
  <2>2. dirs' \subseteq Key /\ \A f \in files' : f.key \in dirs'
    BY <1>15, <2>1 DEF MakeDirectory
  <2>. QED
    BY <1>15, <2>2 DEF MakeDirectory
<1>16. ASSUME NEW t \in Thread, OpenToClear(t) PROVE TypeOK'
  <2>1. {NameOf(f) : f \in FilesIn(Entry(t))} \subseteq Name
    BY DEF FilesIn, NameOf, Name, File
  <2>2. todo' \in [Thread -> SUBSET Name]
    BY <1>16, <2>1 DEF OpenToClear
  <2>. QED
    BY <1>16, <2>2 DEF OpenToClear
<1>17. ASSUME NEW t \in Thread, Clear(t) PROVE TypeOK'
  BY <1>17, UnlinkType DEF Clear
<1>18. ASSUME NEW t \in Thread, FirstClock(t) PROVE TypeOK'
  BY <1>18 DEF FirstClock
<1>19. ASSUME NEW t \in Thread, SecondClock(t) PROVE TypeOK'
  <2>1. name' \in [Thread -> Name \cup {None}]
    <3>1. PICK n \in Name : name' = [name EXCEPT ![t] = n]
      BY <1>19, SecondClockNames
    <3>. QED
      BY <3>1
  <2>. QED
    BY <1>19, <2>1 DEF SecondClock
<1>20. ASSUME NEW t \in Thread, Create(t) PROVE TypeOK'
  <2>1. own[t] \in Response /\ Entry(t) \in Key /\ name[t] \in Name
    BY <1>20, FormType DEF Create, Entry
  <2>. DEFINE file == [key |-> Entry(t), create |-> name[t].create, expires |-> name[t].expires,
                       whole |-> FALSE, body |-> own[t].body, stored |-> now]
  <2>2. file \in File /\ file.key = Entry(t)
    BY <2>1 DEF File, Response, Name
  <2>3. Entry(t) \in dirs => \A f \in files' : f = file \/ f \in files
    BY <1>20 DEF Create
  <2>4. Entry(t) \notin dirs => files' = files
    BY <1>20 DEF Create
  <2>5. files' \subseteq File /\ \A f \in files' : f.key \in dirs
    BY <2>2, <2>3, <2>4
  <2>6. [own[t] EXCEPT !.stored = now] \in Response
    BY <2>1 DEF Response
  <2>7. own' \in [Thread -> Response \cup {None}]
    BY <1>20, <2>6 DEF Create
  <2>. QED
    BY <1>20, <2>5, <2>7 DEF Create
<1>21. ASSUME NEW t \in Thread, Write(t) PROVE TypeOK'
  <2>1. own[t].body \in Body /\ own[t].stored \in Nat
    BY <1>21 DEF Write, Response
  <2>2. \A f \in files : Written(f, own[t]) \in File /\ Written(f, own[t]).key = f.key
    BY <2>1 DEF File, Written
  <2>3. files' \subseteq File /\ \A f \in files' : f.key \in dirs
    BY <1>21, <2>2 DEF Write, FilesIn
  <2>. QED
    BY <1>21, <2>3 DEF Write
<1>22. ASSUME NEW t \in Thread, Send(t) PROVE TypeOK'
  BY <1>22 DEF Send
<1>23. ASSUME NEW t \in Thread, GiveUp(t) PROVE TypeOK'
  BY <1>23 DEF GiveUp
<1>24. CASE Tick
  BY <1>24 DEF Tick
<1>25. CASE Crash
  BY <1>25 DEF Crash
<1>26. CASE UNCHANGED vars
  BY <1>26 DEF vars
<1>. QED
  BY <1>1, <1>2, <1>3, <1>4, <1>5, <1>6, <1>7, <1>8, <1>9, <1>10, <1>11, <1>12, <1>13, <1>14,
     <1>15, <1>16, <1>17, <1>18, <1>19, <1>20, <1>21, <1>22, <1>23, <1>24, <1>25, <1>26
     DEF Next, Service, Works, Peers

\* Every step leaves a thread with the mutex of the request it was sent.
LEMMA OriginsStep == IInv /\ [Next]_vars => Origins'
<1>. SUFFICES ASSUME IInv, [Next]_vars PROVE Origins'
  OBVIOUS
<1>. USE DEF IInv, TypeOK, Origins, Looking, Storing, Goto, Drop, Return, Miss, Forget, Entry
<1>1. ASSUME NEW t \in Thread, NEW r \in Request, Accept(t, r) PROVE Origins'
  BY <1>1 DEF Accept
<1>2. ASSUME NEW t \in Thread, Refuse(t) PROVE Origins'
  BY <1>2 DEF Refuse
<1>3. ASSUME NEW t \in Thread, LookUp(t) PROVE Origins'
  BY <1>3 DEF LookUp
<1>4. ASSUME NEW t \in Thread, Stat(t) PROVE Origins'
  BY <1>4 DEF Stat
<1>5. ASSUME NEW t \in Thread, Exists(t) PROVE Origins'
  BY <1>5 DEF Exists
<1>6. ASSUME NEW t \in Thread, FindName(t) PROVE Origins'
  BY <1>6 DEF FindName
<1>7. ASSUME NEW t \in Thread, Check(t) PROVE Origins'
  BY <1>7 DEF Check
<1>8. ASSUME NEW t \in Thread, RemoveExpired(t) PROVE Origins'
  BY <1>8 DEF RemoveExpired
<1>9. ASSUME NEW t \in Thread, RemoveDirectory(t) PROVE Origins'
  BY <1>9 DEF RemoveDirectory
<1>10. ASSUME NEW t \in Thread, Read(t) PROVE Origins'
  BY <1>10 DEF Read
<1>11. ASSUME NEW t \in Thread, SendHit(t) PROVE Origins'
  BY <1>11 DEF SendHit
<1>12. ASSUME NEW t \in Thread, Forward(t) PROVE Origins'
  BY <1>12 DEF Forward
<1>13. ASSUME NEW t \in Thread, Relock(t) PROVE Origins'
  BY <1>13 DEF Relock
<1>14. ASSUME NEW t \in Thread, Ensure(t) PROVE Origins'
  BY <1>14 DEF Ensure
<1>15. ASSUME NEW t \in Thread, MakeDirectory(t) PROVE Origins'
  BY <1>15 DEF MakeDirectory
<1>16. ASSUME NEW t \in Thread, OpenToClear(t) PROVE Origins'
  BY <1>16 DEF OpenToClear
<1>17. ASSUME NEW t \in Thread, Clear(t) PROVE Origins'
  BY <1>17 DEF Clear
<1>18. ASSUME NEW t \in Thread, FirstClock(t) PROVE Origins'
  BY <1>18 DEF FirstClock
<1>19. ASSUME NEW t \in Thread, SecondClock(t) PROVE Origins'
  BY <1>19 DEF SecondClock
<1>20. ASSUME NEW t \in Thread, Create(t) PROVE Origins'
  BY <1>20 DEF Create
<1>21. ASSUME NEW t \in Thread, Write(t) PROVE Origins'
  BY <1>21 DEF Write
<1>22. ASSUME NEW t \in Thread, Send(t) PROVE Origins'
  BY <1>22 DEF Send
<1>23. ASSUME NEW t \in Thread, GiveUp(t) PROVE Origins'
  BY <1>23 DEF GiveUp
<1>24. CASE Tick
  BY <1>24 DEF Tick
<1>25. CASE Crash
  BY <1>25 DEF Crash
<1>26. CASE UNCHANGED vars
  BY <1>26 DEF vars
<1>. QED
  BY <1>1, <1>2, <1>3, <1>4, <1>5, <1>6, <1>7, <1>8, <1>9, <1>10, <1>11, <1>12, <1>13, <1>14,
     <1>15, <1>16, <1>17, <1>18, <1>19, <1>20, <1>21, <1>22, <1>23, <1>24, <1>25, <1>26
     DEF Next, Service, Works, Peers

\* No step makes a file's name promise more than its response permits.
LEMMA FreshStep == IInv /\ [Next]_vars => Fresh'
<1>. SUFFICES ASSUME IInv, [Next]_vars PROVE Fresh'
  OBVIOUS
<1>. USE DEF IInv, TypeOK, Places, Fresh, Storing, Goto, Drop, Return, Miss, Forget, Response, Body, Name, File,
         FreshThread
<1>1. ASSUME NEW t \in Thread, NEW r \in Request, Accept(t, r) PROVE Fresh'
  BY <1>1 DEF Accept
<1>2. ASSUME NEW t \in Thread, Refuse(t) PROVE Fresh'
  BY <1>2 DEF Refuse
<1>3. ASSUME NEW t \in Thread, LookUp(t) PROVE Fresh'
  BY <1>3 DEF LookUp
<1>4. ASSUME NEW t \in Thread, Stat(t) PROVE Fresh'
  BY <1>4 DEF Stat
<1>5. ASSUME NEW t \in Thread, Exists(t) PROVE Fresh'
  BY <1>5 DEF Exists
<1>6. ASSUME NEW t \in Thread, FindName(t) PROVE Fresh'
  BY <1>6 DEF FindName
<1>7. ASSUME NEW t \in Thread, Check(t) PROVE Fresh'
  <2>1. /\ now <= ValidUntil(name[t]) => now <= name[t].expires
        /\ pc[t] = "check" /\ UNCHANGED <<name, own, files, now>>
        /\ pc' = [pc EXCEPT ![t] = IF now <= ValidUntil(name[t]) THEN "read" ELSE "remove"]
        /\ asof' = [asof EXCEPT ![t] = now]
    BY <1>7, ProxyAssumption DEF Check, ValidUntil, Least
  <2>. QED
    BY <2>1
<1>8. ASSUME NEW t \in Thread, RemoveExpired(t) PROVE Fresh'
  BY <1>8, UnlinkType DEF RemoveExpired
<1>9. ASSUME NEW t \in Thread, RemoveDirectory(t) PROVE Fresh'
  BY <1>9 DEF RemoveDirectory
<1>10. ASSUME NEW t \in Thread, Read(t) PROVE Fresh'
  <2>1. CASE Called(Entry(t), name[t]) = {}
    BY <1>10, <2>1 DEF Read
  <2>2. ASSUME NEW g \in Called(Entry(t), name[t]),
               own' = [own EXCEPT ![t] = [whole |-> g.whole, body |-> g.body, stored |-> g.stored]],
               pc' = [pc EXCEPT ![t] = "hit"]
        PROVE  Fresh'
    <3>1. g \in files /\ name[t].expires = g.expires
      BY DEF Called, FilesIn, NameOf
    <3>2. FreshName(name[t], g.stored, g.body.ttl)
      BY <3>1 DEF FreshFile, FreshName
    <3>3. own'[t].stored = g.stored /\ own'[t].body.ttl = g.body.ttl
      BY <2>2
    <3>4. pc[t] = "read" /\ UNCHANGED <<name, files, now, asof>>
      BY <1>10 DEF Read
    <3>5. FreshThread(t)'
      BY <2>2, <3>2, <3>3, <3>4 DEF FreshName
    <3>. QED
      BY <2>2, <3>4, <3>5
  <2>. QED
    BY <1>10, <2>1, <2>2 DEF Read
<1>11. ASSUME NEW t \in Thread, SendHit(t) PROVE Fresh'
  BY <1>11 DEF SendHit
<1>12. ASSUME NEW t \in Thread, Forward(t) PROVE Fresh'
  BY <1>12 DEF Forward
<1>13. ASSUME NEW t \in Thread, Relock(t) PROVE Fresh'
  BY <1>13 DEF Relock
<1>14. ASSUME NEW t \in Thread, Ensure(t) PROVE Fresh'
  BY <1>14 DEF Ensure
<1>15. ASSUME NEW t \in Thread, MakeDirectory(t) PROVE Fresh'
  BY <1>15 DEF MakeDirectory
<1>16. ASSUME NEW t \in Thread, OpenToClear(t) PROVE Fresh'
  BY <1>16 DEF OpenToClear
<1>17. ASSUME NEW t \in Thread, Clear(t) PROVE Fresh'
  BY <1>17, UnlinkType DEF Clear
<1>18. ASSUME NEW t \in Thread, FirstClock(t) PROVE Fresh'
  BY <1>18 DEF FirstClock
<1>19. ASSUME NEW t \in Thread, SecondClock(t) PROVE Fresh'
  BY <1>19, SecondClockNames DEF SecondClock
<1>20. ASSUME NEW t \in Thread, Create(t) PROVE Fresh'
  <2>. DEFINE file == [key |-> Entry(t), create |-> name[t].create, expires |-> name[t].expires,
                       whole |-> FALSE, body |-> own[t].body, stored |-> now]
  <2>1. FreshName(name[t], now, own[t].body.ttl) /\ pc[t] = "create"
    BY <1>20 DEF Create
  <2>2. FreshFile(file)
    BY <2>1 DEF FreshFile, FreshName
  <2>3. CASE Entry(t) \notin dirs
    BY <1>20, <2>3 DEF Create
  <2>4. CASE Entry(t) \in dirs
    <3>1. /\ files' = (files \ Called(Entry(t), name[t])) \cup {file}
          /\ own' = [own EXCEPT ![t] = [own[t] EXCEPT !.stored = now]]
          /\ pc' = [pc EXCEPT ![t] = "write"] /\ UNCHANGED <<name, asof, now>>
      BY <1>20, <2>4 DEF Create
    <3>2. own[t] \in Response
      BY <2>1
    <3>3. own'[t].stored = now /\ own'[t].body = own[t].body
      BY <3>1, <3>2
    <3>4. FreshThread(t)'
      BY <2>1, <3>1, <3>3 DEF FreshName
    <3>5. \A f \in files' : FreshFile(f)
      BY <2>2, <3>1
    <3>. HIDE DEF file
    <3>. QED
      BY <3>1, <3>4, <3>5
  <2>. QED
    BY <2>3, <2>4
<1>21. ASSUME NEW t \in Thread, Write(t) PROVE Fresh'
  <2>. DEFINE here == {f \in FilesIn(Entry(t)) : name[t] # None /\ NameOf(f) = name[t]}
  <2>1. ASSUME NEW f \in here PROVE FreshFile(Written(f, own[t]))
    <3>1. f \in File /\ name[t] = [create |-> f.create, expires |-> f.expires] /\ name[t] # None
      BY DEF NameOf, FilesIn
    <3>2. name[t].expires = f.expires
      BY <3>1
    <3>3. FreshName(name[t], own[t].stored, own[t].body.ttl)
      BY <1>21, <3>1 DEF Write, FreshThread
    <3>4. /\ Written(f, own[t]).expires = f.expires /\ Written(f, own[t]).body = own[t].body
          /\ Written(f, own[t]).stored = own[t].stored
      BY <3>1 DEF Written
    <3>. QED
      BY <3>2, <3>3, <3>4 DEF FreshFile, FreshName
  <2>2. \A f \in files' : FreshFile(f)
    BY <1>21, <2>1 DEF Write
  <2>. QED
    BY <1>21, <2>2 DEF Write
<1>22. ASSUME NEW t \in Thread, Send(t) PROVE Fresh'
  BY <1>22 DEF Send
<1>23. ASSUME NEW t \in Thread, GiveUp(t) PROVE Fresh'
  BY <1>23 DEF GiveUp
<1>24. CASE Tick
  <2>1. now \in Nat /\ now' = now + 1 /\ UNCHANGED <<pc, name, own, asof, files>> /\ MaxAge \in Int
    BY <1>24, ProxyAssumption DEF Tick
  <2>2. ASSUME NEW t \in Thread, pc[t] = "create" PROVE FreshName(name[t], now', own[t].body.ttl)
    <3>1. name[t].expires \in Nat /\ own[t].body.ttl \in Nat
      BY <2>2
    <3>2. FreshName(name[t], now, own[t].body.ttl)
      BY <2>2
    <3>. QED
      BY <2>1, <3>1, <3>2 DEF FreshName
  <2>. QED
    BY <2>1, <2>2
<1>25. CASE Crash
  BY <1>25 DEF Crash
<1>26. CASE UNCHANGED vars
  BY <1>26 DEF vars
<1>. QED
  BY <1>1, <1>2, <1>3, <1>4, <1>5, <1>6, <1>7, <1>8, <1>9, <1>10, <1>11, <1>12, <1>13, <1>14,
     <1>15, <1>16, <1>17, <1>18, <1>19, <1>20, <1>21, <1>22, <1>23, <1>24, <1>25, <1>26
     DEF Next, Service, Works, Peers
------------------------------------------------------------------------------
\* Where every request names its server, every step keeps the responses with it.
LEMMA OwnedStep == IInv /\ Owned /\ [Next]_vars => Owned'
<1>. SUFFICES ASSUME IInv, Owned, [Next]_vars, \A r \in seen' : r.host = r.server
              PROVE  (/\ \A f \in files : f.body.server = f.key.host
                      /\ \A t \in Thread : pc[t] \in {"relock", "hit"} \cup Storing =>
                                            own[t].body.server = req[t].host)'
  BY DEF Owned
<1>. DEFINE Own == /\ \A f \in files : f.body.server = f.key.host
                   /\ \A t \in Thread : pc[t] \in {"relock", "hit"} \cup Storing =>
                                         own[t].body.server = req[t].host
<1>0. seen \subseteq seen'
  BY DEF Next, Service, Works, Peers, Accept, Refuse, LookUp, Stat, Exists, FindName, Check, RemoveExpired,
         RemoveDirectory, Read, SendHit, Forward, Relock, Ensure, MakeDirectory, OpenToClear, Clear,
         FirstClock, SecondClock, Create, Write, Send, GiveUp, Tick, Crash, vars
<1>. Own
  BY <1>0 DEF Owned
<1>. USE DEF IInv, TypeOK, Storing, Goto, Drop, Return, Miss, Forget, Entry, KeyOf
<1>1. ASSUME NEW t \in Thread, NEW r \in Request, Accept(t, r) PROVE Own'
  BY <1>1 DEF Accept
<1>2. ASSUME NEW t \in Thread, Refuse(t) PROVE Own'
  BY <1>2 DEF Refuse
<1>3. ASSUME NEW t \in Thread, LookUp(t) PROVE Own'
  BY <1>3 DEF LookUp
<1>4. ASSUME NEW t \in Thread, Stat(t) PROVE Own'
  BY <1>4 DEF Stat
<1>5. ASSUME NEW t \in Thread, Exists(t) PROVE Own'
  BY <1>5 DEF Exists
<1>6. ASSUME NEW t \in Thread, FindName(t) PROVE Own'
  BY <1>6 DEF FindName
<1>7. ASSUME NEW t \in Thread, Check(t) PROVE Own'
  BY <1>7 DEF Check
<1>8. ASSUME NEW t \in Thread, RemoveExpired(t) PROVE Own'
  BY <1>8, UnlinkType DEF RemoveExpired
<1>9. ASSUME NEW t \in Thread, RemoveDirectory(t) PROVE Own'
  BY <1>9 DEF RemoveDirectory
<1>10. ASSUME NEW t \in Thread, Read(t) PROVE Own'
  BY <1>10 DEF Read, Called, FilesIn
<1>11. ASSUME NEW t \in Thread, SendHit(t) PROVE Own'
  BY <1>11 DEF SendHit
<1>12. ASSUME NEW t \in Thread, Forward(t) PROVE Own'
  <2>1. req[t] \in seen /\ req[t] \in Form /\ seen' = seen
    BY <1>12 DEF Forward, Origins, Places
  <2>2. req[t].server = req[t].host /\ AddHeaders(req[t]).host = req[t].host
    BY <2>1 DEF AddHeaders, Form
  <2>3. req'[t] = AddHeaders(req[t]) /\ own'[t].body.server = req[t].server
    BY <1>12 DEF Forward
  <2>. QED
    BY <1>12, <2>2, <2>3 DEF Forward
<1>13. ASSUME NEW t \in Thread, Relock(t) PROVE Own'
  BY <1>13 DEF Relock
<1>14. ASSUME NEW t \in Thread, Ensure(t) PROVE Own'
  BY <1>14 DEF Ensure
<1>15. ASSUME NEW t \in Thread, MakeDirectory(t) PROVE Own'
  BY <1>15 DEF MakeDirectory
<1>16. ASSUME NEW t \in Thread, OpenToClear(t) PROVE Own'
  BY <1>16 DEF OpenToClear
<1>17. ASSUME NEW t \in Thread, Clear(t) PROVE Own'
  BY <1>17, UnlinkType DEF Clear
<1>18. ASSUME NEW t \in Thread, FirstClock(t) PROVE Own'
  BY <1>18 DEF FirstClock
<1>19. ASSUME NEW t \in Thread, SecondClock(t) PROVE Own'
  BY <1>19 DEF SecondClock
<1>20. ASSUME NEW t \in Thread, Create(t) PROVE Own'
  <2>1. own'[t].body = own[t].body /\ own[t].body.server = req[t].host
    BY <1>20 DEF Create, Places, Response
  <2>. QED
    BY <1>20, <2>1 DEF Create, Called, FilesIn
<1>21. ASSUME NEW t \in Thread, Write(t) PROVE Own'
  <2>1. own[t].body.server = req[t].host
    BY <1>21 DEF Write
  <2>2. ASSUME NEW f \in FilesIn(Entry(t))
        PROVE  Written(f, own[t]).body.server = Written(f, own[t]).key.host
    BY <2>1, <2>2 DEF FilesIn, File, Written
  <2>3. \A g \in files' : \/ g \in files
                          \/ \E f \in FilesIn(Entry(t)) :
                               g = Written(f, own[t])
    BY <1>21 DEF Write
  <2>4. ASSUME NEW g \in files' PROVE g.body.server = g.key.host
    <3>1. CASE g \in files
      BY <3>1
    <3>2. CASE g \notin files
      <4>1. PICK f \in FilesIn(Entry(t)) : g = Written(f, own[t])
        BY <2>3, <3>2
      <4>. QED
        BY <2>2, <4>1
    <3>. QED
      BY <3>1, <3>2
  <2>. QED
    BY <1>21, <2>4 DEF Write
<1>22. ASSUME NEW t \in Thread, Send(t) PROVE Own'
  BY <1>22 DEF Send
<1>23. ASSUME NEW t \in Thread, GiveUp(t) PROVE Own'
  BY <1>23 DEF GiveUp
<1>24. CASE Tick
  BY <1>24 DEF Tick
<1>25. CASE Crash
  BY <1>25 DEF Crash
<1>26. CASE UNCHANGED vars
  BY <1>26 DEF vars
<1>. QED
  BY <1>1, <1>2, <1>3, <1>4, <1>5, <1>6, <1>7, <1>8, <1>9, <1>10, <1>11, <1>12, <1>13, <1>14,
     <1>15, <1>16, <1>17, <1>18, <1>19, <1>20, <1>21, <1>22, <1>23, <1>24, <1>25, <1>26
     DEF Next, Service, Works, Peers
------------------------------------------------------------------------------
\* What a thread leaves to another one: its place and its locals, but for the name
\* of a file of the same entry that it writes; the other entries' files and directories.
Leaves(t, u) ==
  /\ pc'[u] = pc[u] /\ req'[u] = req[u] /\ own'[u] = own[u] /\ todo'[u] = todo[u]
  /\ name'[u] = name[u] \/ (InCache(t) /\ InCache(u) /\ Entry(u) = Entry(t))
  /\ \A k : ~(InCache(t) /\ k = Entry(t)) =>
             (k \in dirs' <=> k \in dirs) /\ {f \in files' : f.key = k} = FilesIn(k)

\* Under the mutexes, no two threads work on an entry.
LEMMA Locked ==
  ASSUME IInv, Separate, NEW t \in Thread, NEW u \in Thread, t # u, InCache(t), InCache(u)
  PROVE  Entry(t) # Entry(u)
<1>1. index[t] # index[u]
  BY DEF IInv, Mutexes
<1>2. \A v \in Thread : InCache(v) =>
        \E r \in seen : Entry(v) \in Touched(r) /\ index[v] = Stripe(KeyOf(r))
  BY DEF IInv, Origins, InCache, Entry, Touched
<1>. QED
  BY <1>1, <1>2 DEF Separate

\* No operation of a thread touches more than its own entry.
LEMMA ServiceLeaves ==
  ASSUME IInv, NEW t \in Thread, NEW u \in Thread, t # u, Service(t)
  PROVE  Leaves(t, u)
<1>. USE DEF IInv, TypeOK, Leaves, Goto, Drop, Return, Miss, Forget, FilesIn
<1>1. CASE Refuse(t)
  BY <1>1 DEF Refuse
<1>2. CASE LookUp(t)
  BY <1>2 DEF LookUp
<1>3. CASE Stat(t)
  BY <1>3 DEF Stat
<1>4. CASE Exists(t)
  BY <1>4 DEF Exists
<1>5. CASE FindName(t)
  BY <1>5 DEF FindName
<1>6. CASE Check(t)
  BY <1>6 DEF Check
<1>7. CASE RemoveExpired(t)
  BY <1>7 DEF RemoveExpired, Unlink, Called, InCache, Looking, Storing
<1>8. CASE RemoveDirectory(t)
  BY <1>8 DEF RemoveDirectory, InCache, Looking
<1>9. CASE Read(t)
  BY <1>9 DEF Read
<1>10. CASE SendHit(t)
  BY <1>10 DEF SendHit
<1>11. CASE Forward(t)
  BY <1>11 DEF Forward
<1>12. CASE Relock(t)
  BY <1>12 DEF Relock
<1>13. CASE Ensure(t)
  BY <1>13 DEF Ensure
<1>14. CASE MakeDirectory(t)
  BY <1>14 DEF MakeDirectory, InCache, Storing
<1>15. CASE OpenToClear(t)
  BY <1>15 DEF OpenToClear
<1>16. CASE Clear(t)
  BY <1>16 DEF Clear, Unlink, Called, InCache, Looking, Storing
<1>17. CASE FirstClock(t)
  BY <1>17 DEF FirstClock
<1>18. CASE SecondClock(t)
  BY <1>18 DEF SecondClock
<1>19. CASE Create(t)
  BY <1>19 DEF Create, Called, InCache, Storing
<1>20. CASE Write(t)
  BY <1>20 DEF Write, Written, InCache, Storing, File
<1>21. CASE Send(t)
  BY <1>21 DEF Send
<1>22. CASE GiveUp(t)
  BY <1>22 DEF GiveUp
<1>. QED
  BY <1>1, <1>2, <1>3, <1>4, <1>5, <1>6, <1>7, <1>8, <1>9, <1>10, <1>11, <1>12, <1>13, <1>14,
     <1>15, <1>16, <1>17, <1>18, <1>19, <1>20, <1>21, <1>22 DEF Service, Works, Peers

\* No thread that serves a request takes another, or kills the proxy.
LEMMA ServiceWorld ==
  ASSUME NEW t \in Thread, Service(t)
  PROVE  UNCHANGED <<seen, crashes>>
BY DEF Service, Works, Peers, Refuse, LookUp, Stat, Exists, FindName, Check, RemoveExpired, RemoveDirectory, Read,
       SendHit, Forward, Relock, Ensure, MakeDirectory, OpenToClear, Clear,
       FirstClock, SecondClock, Create, Write, Send, GiveUp

\* Another thread's entry stays as it saw it.
LEMMA OthersStay ==
  ASSUME IInv, Separate, NEW t \in Thread, NEW u \in Thread, t # u, Leaves(t, u), crashes' = crashes,
         OnDisk(u)
  PROVE  OnDisk(u)'
<1>1. CASE InCache(u)
  <2>1. Entry(u)' = Entry(u)
    BY DEF Leaves, Entry
  <2>2. ~(InCache(t) /\ Entry(u) = Entry(t))
    BY <1>1, Locked
  <2>3. name'[u] = name[u] /\ (Entry(u) \in dirs' <=> Entry(u) \in dirs)
    BY <2>2 DEF Leaves
  <2>4. FilesIn(Entry(u))' = FilesIn(Entry(u))
    BY <2>1, <2>2 DEF Leaves, FilesIn
  <2>5. Called(Entry(u), name[u])' = Called(Entry(u), name[u])
    BY <2>3, <2>4 DEF Called
  <2>6. {NameOf(f) : f \in FilesIn(Entry(u))}' = {NameOf(f) : f \in FilesIn(Entry(u))}
    BY <2>4 DEF NameOf
  <2>7. pc'[u] = pc[u] /\ own'[u] = own[u] /\ todo'[u] = todo[u]
    BY DEF Leaves
  <2>. QED
    BY <2>1, <2>3, <2>4, <2>5, <2>6, <2>7 DEF OnDisk
<1>2. CASE ~InCache(u)
  BY <1>2 DEF OnDisk, Leaves, InCache, Looking, Storing
<1>. QED
  BY <1>1, <1>2

\* Which files there are when a response was written.
LEMMA WrittenFiles ==
  ASSUME IInv, NEW t \in Thread, Write(t), OnDisk(t), NEW g \in files'
  PROVE  \/ g \in files /\ g \notin Called(Entry(t), name[t])
         \/ g.whole /\ \E f \in Called(Entry(t), name[t]) : g = Written(f, own[t]) /\ g.key = f.key
<1>1. name[t] # None
  BY DEF Write, OnDisk
<1>2. \A f \in files : Written(f, own[t]).whole /\ Written(f, own[t]).key = f.key
  BY DEF IInv, TypeOK, File, Written
<1>3. Called(Entry(t), name[t]) = {f \in FilesIn(Entry(t)) : name[t] # None /\ NameOf(f) = name[t]}
  BY <1>1 DEF Called
<1>4. Called(Entry(t), name[t]) \subseteq files
  BY DEF Called, FilesIn
<1>5. files' = (files \ Called(Entry(t), name[t])) \cup
               {Written(f, own[t]) : f \in Called(Entry(t), name[t])}
  BY <1>3 DEF Write, Written
<1>. QED
  BY <1>2, <1>4, <1>5

\* Every step leaves an entry with at most one file.
LEMMA SingleStays ==
  ASSUME IInv, Single, NEW t \in Thread, OnDisk(t), Service(t)
  PROVE  Single'
<1>. USE DEF Single
<1>1. CASE Refuse(t)
  BY <1>1 DEF Refuse
<1>2. CASE LookUp(t)
  BY <1>2 DEF LookUp
<1>3. CASE Stat(t)
  BY <1>3 DEF Stat
<1>4. CASE Exists(t)
  BY <1>4 DEF Exists
<1>5. CASE FindName(t)
  BY <1>5 DEF FindName
<1>6. CASE Check(t)
  BY <1>6 DEF Check
<1>7. CASE RemoveExpired(t)
  BY <1>7 DEF RemoveExpired, Unlink
<1>8. CASE RemoveDirectory(t)
  BY <1>8 DEF RemoveDirectory
<1>9. CASE Read(t)
  BY <1>9 DEF Read
<1>10. CASE SendHit(t)
  BY <1>10 DEF SendHit
<1>11. CASE Forward(t)
  BY <1>11 DEF Forward
<1>12. CASE Relock(t)
  BY <1>12 DEF Relock
<1>13. CASE Ensure(t)
  BY <1>13 DEF Ensure
<1>14. CASE MakeDirectory(t)
  BY <1>14 DEF MakeDirectory
<1>15. CASE OpenToClear(t)
  BY <1>15 DEF OpenToClear
<1>16. CASE Clear(t)
  BY <1>16 DEF Clear, Unlink
<1>17. CASE FirstClock(t)
  BY <1>17 DEF FirstClock
<1>18. CASE SecondClock(t)
  BY <1>18 DEF SecondClock
<1>19. CASE Create(t)
  <2>1. CASE Entry(t) \notin dirs
    BY <1>19, <2>1 DEF Create
  <2>2. CASE Entry(t) \in dirs
    <3>. DEFINE file == [key |-> Entry(t), create |-> name[t].create,
                         expires |-> name[t].expires, whole |-> FALSE, body |-> own[t].body,
                         stored |-> now]
    <3>1. file.key = Entry(t)
      OBVIOUS
    <3>2. \A f \in files : f.key # Entry(t)
      BY <1>19 DEF Create, OnDisk, FilesIn
    <3>3. \A f \in files' : f \in files \/ f = file
      BY <1>19, <2>2 DEF Create
    <3>. HIDE DEF file
    <3>. QED
      BY <3>1, <3>2, <3>3
  <2>. QED
    BY <2>1, <2>2
<1>20. CASE Write(t)
  <2>1. ASSUME NEW f \in files', NEW g \in files', f.key = g.key PROVE f = g
    <3>1. \A h \in Called(Entry(t), name[t]) : h \in files
      BY DEF Called, FilesIn
    <3>. QED
      BY <1>20, <2>1, <3>1, WrittenFiles
  <2>. QED
    BY <2>1
<1>21. CASE Send(t)
  BY <1>21 DEF Send
<1>22. CASE GiveUp(t)
  BY <1>22 DEF GiveUp
<1>. QED
  BY <1>1, <1>2, <1>3, <1>4, <1>5, <1>6, <1>7, <1>8, <1>9, <1>10, <1>11, <1>12, <1>13, <1>14,
     <1>15, <1>16, <1>17, <1>18, <1>19, <1>20, <1>21, <1>22 DEF Service, Works, Peers

\* What a thread finds in its entry is what it left there: no operation fails.
LEMMA OwnStays ==
  ASSUME IInv, Separate, Single, Halves, NEW t \in Thread, OnDisk(t), Service(t)
  PROVE  OnDisk(t)'
<1>. USE DEF IInv, TypeOK, OnDisk, Goto, Drop, Return, Miss, Forget, Entry, FilesIn, Called, NameOf
<1>1. CASE Refuse(t)
  BY <1>1 DEF Refuse
<1>2. CASE LookUp(t)
  BY <1>2 DEF LookUp
<1>3. CASE Stat(t)
  BY <1>3 DEF Stat
<1>4. CASE Exists(t)
  BY <1>4 DEF Exists
<1>5. CASE FindName(t)
  BY <1>5 DEF FindName
<1>6. CASE Check(t)
  BY <1>6 DEF Check
<1>7. CASE RemoveExpired(t)
  BY <1>7 DEF RemoveExpired, Unlink, Single
<1>8. CASE RemoveDirectory(t)
  BY <1>8 DEF RemoveDirectory
<1>9. CASE Read(t)
  <2>1. PICK g \in Called(Entry(t), name[t]) : own'[t].whole = g.whole
    BY <1>9 DEF Read, Response
  <2>2. crashes = 0 => g.whole
    <3>1. SUFFICES ASSUME crashes = 0, ~g.whole PROVE FALSE
      OBVIOUS
    <3>2. PICK u \in Thread : pc[u] = "write" /\ Entry(u) = g.key
      BY <2>1, <3>1 DEF Halves
    <3>3. InCache(t) /\ InCache(u) /\ t # u /\ Entry(u) = Entry(t)
      BY <1>9, <2>1, <3>2 DEF Read, InCache, Looking, Storing
    <3>. QED
      BY <3>3, Locked
  <2>. QED
    BY <1>9, <2>1, <2>2 DEF Read
<1>10. CASE SendHit(t)
  BY <1>10 DEF SendHit
<1>11. CASE Forward(t)
  BY <1>11 DEF Forward
<1>12. CASE Relock(t)
  BY <1>12 DEF Relock
<1>13. CASE Ensure(t)
  BY <1>13 DEF Ensure
<1>14. CASE MakeDirectory(t)
  BY <1>14 DEF MakeDirectory
<1>15. CASE OpenToClear(t)
  BY <1>15 DEF OpenToClear
<1>16. CASE Clear(t)
  <2>1. CASE todo[t] = {}
    <3>1. FilesIn(Entry(t)) = {}
      <4>1. \A f \in FilesIn(Entry(t)) : NameOf(f) \in todo[t]
        BY <1>16 DEF Clear
      <4>. QED
        BY <2>1, <4>1
    <3>2. pc' = [pc EXCEPT ![t] = "clock"] /\ UNCHANGED <<req, files, dirs>>
      BY <1>16, <2>1 DEF Clear
    <3>3. Entry(t) \in dirs
      BY <1>16 DEF Clear
    <3>. QED
      BY <3>1, <3>2, <3>3
  <2>2. ASSUME NEW n \in todo[t], todo' = [todo EXCEPT ![t] = @ \ {n}],
               Called(Entry(t), n) # {}, Unlink(Entry(t), n), UNCHANGED <<pc, req, dirs>>
        PROVE  OnDisk(t)'
    <3>1. todo'[t] = {NameOf(f) : f \in FilesIn(Entry(t))} \ {n}
      BY <1>16, <2>2 DEF Clear
    <3>2. FilesIn(Entry(t))' = {f \in FilesIn(Entry(t)) : NameOf(f) # n}
      BY <2>2 DEF Unlink
    <3>3. todo'[t] = {NameOf(f) : f \in FilesIn(Entry(t))}'
      BY <3>1, <3>2
    <3>. QED
      BY <1>16, <2>2, <3>3 DEF Clear
  <2>3. ASSUME NEW n \in todo[t] PROVE Called(Entry(t), n) # {}
    BY <1>16 DEF Clear
  <2>. QED
    BY <1>16, <2>1, <2>2, <2>3 DEF Clear
<1>17. CASE FirstClock(t)
  BY <1>17 DEF FirstClock
<1>18. CASE SecondClock(t)
  BY <1>18 DEF SecondClock
<1>19. CASE Create(t)
  <2>. DEFINE file == [key |-> Entry(t), create |-> name[t].create, expires |-> name[t].expires,
                       whole |-> FALSE, body |-> own[t].body, stored |-> now]
  <2>1. name[t] \in [create : Nat, expires : Nat]
    BY <1>19 DEF Create, Places, Name
  <2>2. name[t] # None
    BY <2>1, ProxyAssumption
  <2>3. file.key = Entry(t) /\ NameOf(file) = name[t]
    BY <2>1
  <2>4. /\ file \in files' /\ pc' = [pc EXCEPT ![t] = "write"]
        /\ UNCHANGED <<req, name, todo, dirs>>
    BY <1>19 DEF Create, OnDisk
  <2>. HIDE DEF file
  <2>5. file \in Called(Entry(t), name[t])'
    BY <2>3, <2>4
  <2>. QED
    BY <1>19, <2>2, <2>4, <2>5 DEF Create
<1>20. CASE Write(t)
  BY <1>20 DEF Write
<1>21. CASE Send(t)
  BY <1>21 DEF Send
<1>22. CASE GiveUp(t)
  BY <1>22 DEF GiveUp
<1>. QED
  BY <1>1, <1>2, <1>3, <1>4, <1>5, <1>6, <1>7, <1>8, <1>9, <1>10, <1>11, <1>12, <1>13, <1>14,
     <1>15, <1>16, <1>17, <1>18, <1>19, <1>20, <1>21, <1>22 DEF Service, Works, Peers

\* A file that is not whole keeps its writer.
LEMMA HalvesStay ==
  ASSUME IInv, Separate, Single, Halves, NEW t \in Thread, OnDisk(t), Service(t),
         \A u \in Thread : t # u => Leaves(t, u)
  PROVE  Halves'
<1>. USE DEF IInv, TypeOK, Halves, Goto, Drop, Return, Miss, Forget
<1>1. CASE Refuse(t)
  BY <1>1 DEF Refuse, Entry
<1>2. CASE LookUp(t)
  BY <1>2 DEF LookUp, Entry
<1>3. CASE Stat(t)
  BY <1>3 DEF Stat, Entry
<1>4. CASE Exists(t)
  BY <1>4 DEF Exists, Entry
<1>5. CASE FindName(t)
  BY <1>5 DEF FindName, Entry
<1>6. CASE Check(t)
  BY <1>6 DEF Check, Entry
<1>7. CASE RemoveExpired(t)
  BY <1>7 DEF RemoveExpired, Entry, Unlink
<1>8. CASE RemoveDirectory(t)
  BY <1>8 DEF RemoveDirectory, Entry
<1>9. CASE Read(t)
  BY <1>9 DEF Read, Entry
<1>10. CASE SendHit(t)
  BY <1>10 DEF SendHit, Entry
<1>11. CASE Forward(t)
  BY <1>11 DEF Forward, Entry
<1>12. CASE Relock(t)
  BY <1>12 DEF Relock, Entry
<1>13. CASE Ensure(t)
  BY <1>13 DEF Ensure, Entry
<1>14. CASE MakeDirectory(t)
  BY <1>14 DEF MakeDirectory, Entry
<1>15. CASE OpenToClear(t)
  BY <1>15 DEF OpenToClear, Entry
<1>16. CASE Clear(t)
  BY <1>16 DEF Clear, Entry, Unlink
<1>17. CASE FirstClock(t)
  BY <1>17 DEF FirstClock, Entry
<1>18. CASE SecondClock(t)
  BY <1>18 DEF SecondClock, Entry
<1>19. CASE Create(t)
  BY <1>19 DEF Create, Entry
<1>20. CASE Write(t)
  <2>1. ASSUME crashes = 0, NEW f \in files', ~f.whole
        PROVE  \E u \in Thread : pc'[u] = "write" /\ Entry(u)' = f.key
    <3>1. f \in files /\ f \notin Called(Entry(t), name[t])
      BY <1>20, <2>1, WrittenFiles
    <3>2. PICK u \in Thread : pc[u] = "write" /\ Entry(u) = f.key
      BY <2>1, <3>1
    <3>3. u # t
      <4>1. PICK h \in files : h.key = Entry(t) /\ h \in Called(Entry(t), name[t])
        BY <1>20 DEF Write, OnDisk, FilesIn, Called
      <4>. QED
        BY <3>1, <3>2, <4>1 DEF Single
    <3>4. pc'[u] = "write" /\ Entry(u)' = Entry(u)
      BY <3>2, <3>3 DEF Leaves, Entry
    <3>. QED
      BY <3>2, <3>4
  <2>. QED
    BY <1>20, <2>1 DEF Write
<1>21. CASE Send(t)
  BY <1>21 DEF Send, Entry
<1>22. CASE GiveUp(t)
  BY <1>22 DEF GiveUp, Entry
<1>. QED
  BY <1>1, <1>2, <1>3, <1>4, <1>5, <1>6, <1>7, <1>8, <1>9, <1>10, <1>11, <1>12, <1>13, <1>14,
     <1>15, <1>16, <1>17, <1>18, <1>19, <1>20, <1>21, <1>22 DEF Service, Works, Peers

\* A request that comes in finds the disk as it was.
LEMMA AcceptStays ==
  ASSUME IInv, Disk, NEW t \in Thread, NEW r \in Request, Accept(t, r)
  PROVE  Disk'
<1>. SUFFICES ASSUME Separate' PROVE Single' /\ Halves' /\ \A u \in Thread : OnDisk(u)'
  BY DEF Disk
<1>1. Separate
  BY DEF Accept, Separate, Touched, KeyOf, AddHeaders
<1>2. Single' /\ crashes' = crashes
  BY <1>1 DEF Disk, Single, Accept
<1>3. Halves'
  BY <1>1 DEF Disk, Halves, Accept, Goto, IInv, TypeOK, Entry
<1>4. ASSUME NEW u \in Thread, t # u PROVE OnDisk(u)'
  <2>1. Leaves(t, u)
    BY <1>4 DEF Accept, Goto, Leaves, FilesIn, IInv, TypeOK
  <2>. QED
    BY <1>1, <1>2, <1>4, <2>1, OthersStay DEF Disk
<1>5. OnDisk(t)'
  BY DEF Accept, Goto, OnDisk, IInv, TypeOK
<1>. QED
  BY <1>2, <1>3, <1>4, <1>5

\* Every step keeps what the threads know of the disk.
LEMMA DiskStep == IInv /\ Disk /\ [Next]_vars => Disk'
<1>. SUFFICES ASSUME IInv, Disk, [Next]_vars PROVE Disk'
  OBVIOUS
<1>1. ASSUME NEW t \in Thread, NEW r \in Request, Accept(t, r) PROVE Disk'
  BY <1>1, AcceptStays
<1>2. ASSUME NEW t \in Thread, Service(t) PROVE Disk'
  <2>1. \A u \in Thread : t # u => Leaves(t, u)
    BY <1>2, ServiceLeaves
  <2>2. crashes' = crashes /\ (Separate' => Separate)
    BY <1>2, ServiceWorld DEF Separate
  <2>3. ASSUME Separate, NEW u \in Thread PROVE OnDisk(u)'
    BY <1>2, <2>1, <2>2, <2>3, OthersStay, OwnStays DEF Disk
  <2>4. ASSUME Separate PROVE Single' /\ Halves'
    BY <1>2, <2>1, <2>4, SingleStays, HalvesStay DEF Disk
  <2>. QED
    BY <2>2, <2>3, <2>4 DEF Disk
<1>3. CASE Tick
  BY <1>3 DEF Tick, Disk, Separate, Single, Halves, OnDisk, Entry, FilesIn, Called
<1>4. CASE Crash
  <2>1. \A t \in Thread : pc'[t] = "idle"
    BY <1>4 DEF Crash
  <2>2. crashes' # 0 /\ UNCHANGED <<files, seen>>
    BY <1>4 DEF Crash, IInv, TypeOK
  <2>. QED
    BY <2>1, <2>2 DEF Disk, Separate, Single, Halves, OnDisk
<1>5. CASE UNCHANGED vars
  BY <1>5 DEF vars, Disk, Separate, Single, Halves, OnDisk, Entry, FilesIn, Called
<1>. QED
  BY <1>1, <1>2, <1>3, <1>4, <1>5 DEF Next
------------------------------------------------------------------------------
\* In the beginning nobody is served and the cache is empty.
LEMMA InitInvariant == Init => IInv
<1>. SUFFICES ASSUME Init PROVE IInv
  OBVIOUS
<1>1. TypeOK
  BY DEF Init, TypeOK, Place
<1>2. Places /\ Mutexes /\ Origins /\ Fresh
  BY DEF Init, Places, Mutexes, Origins, Fresh, FreshThread, InCache, Looking, Storing
<1>. QED
  BY <1>1, <1>2 DEF IInv

\* The invariant holds in every reachable state.
THEOREM Invariance == Spec => []IInv
<1>1. IInv /\ [Next]_vars => IInv'
  BY MutexesStep, PlacesStep, TypeStep, OriginsStep, FreshStep DEF IInv
<1>. QED
  BY InitInvariant, <1>1, PTL DEF Spec

\* The threads' locals, the mutexes and the disk keep their types.
THEOREM TypeCorrectness == Spec => []TypeOK
<1>1. IInv => TypeOK
  BY DEF IInv
<1>. QED
  BY Invariance, <1>1, PTL

\* Where requests that lead to a common entry share a mutex, the entry is only
\* worked on by the thread that has it: lookups, fills and clean-ups of handleRequest.
THEOREM MutualExclusion == Spec => []EntriesAreLocked
<1>1. IInv => EntriesAreLocked
  BY Locked DEF EntriesAreLocked
<1>. QED
  BY Invariance, <1>1, PTL

\* No response is served that had outlived its max-age, or the proxy's, when it
\* was looked up, whatever threads, crashes and the clock do in between.
THEOREM Freshness == Spec => []HitIsFresh
<1>1. ASSUME IInv, NEW t \in Thread, pc[t] = "hit"
      PROVE  /\ asof[t] <= own[t].stored + own[t].body.ttl
             /\ MaxAge > 0 => asof[t] <= own[t].stored + MaxAge
  <2>1. /\ asof[t] \in Nat /\ name[t].expires \in Nat
        /\ own[t].body.ttl \in Nat /\ own[t].stored \in Nat /\ MaxAge \in Int
    BY <1>1, ProxyAssumption DEF IInv, TypeOK, Places, Response, Body, Name
  <2>2. /\ asof[t] <= name[t].expires
        /\ name[t].expires <= own[t].stored + own[t].body.ttl
        /\ MaxAge > 0 => name[t].expires <= own[t].stored + MaxAge
    BY <1>1 DEF IInv, Fresh, FreshThread, FreshName
  <2>. QED
    BY <2>1, <2>2
<1>2. IInv => HitIsFresh
  BY <1>1 DEF HitIsFresh
<1>. QED
  BY Invariance, <1>2, PTL

\* What the threads know of the disk holds in every reachable state.
THEOREM DiskInvariance == Spec => []Disk
<1>1. Init => Disk
  BY DEF Init, Disk, Single, Halves, OnDisk
<1>. QED
  BY Invariance, <1>1, DiskStep, PTL DEF Spec

\* Where requests that lead to a common entry share a mutex, no file operation of
\* handleRequest fails, and every client gets an answer.
THEOREM NoExceptions == Spec => []NobodyIsDropped
<1>1. Disk => NobodyIsDropped
  BY DEF Disk, OnDisk, NobodyIsDropped
<1>. QED
  BY DiskInvariance, <1>1, PTL

\* There, an entry's directory holds a single file (cache.cc), whatever fills,
\* clean-ups and crashes come in between.
THEOREM OneFileEach == Spec => []SingleFile
<1>1. Disk => SingleFile
  BY DEF Disk, SingleFile
<1>. QED
  BY DiskInvariance, <1>1, PTL

\* There, no response is served from a file that is being written, as long as the
\* proxy was not killed.
THEOREM WholeResponses == Spec => []HitIsWhole
<1>1. Disk => HitIsWhole
  BY DEF Disk, OnDisk, HitIsWhole
<1>. QED
  BY DiskInvariance, <1>1, PTL

\* If every request names its server in the Host header, a response from the cache
\* comes from the server that was asked, though the key leaves the server out.
THEOREM OwnResponses == Spec => []HitIsOwn
<1>1. Init => Owned
  BY DEF Init, Owned, Storing
<1>2. ASSUME IInv, Owned, \A r \in seen : r.host = r.server, NEW t \in Thread, pc[t] = "hit"
      PROVE  own[t].body.server = req[t].server
  <2>1. own[t].body.server = req[t].host
    BY <1>2 DEF Owned
  <2>2. req[t] \in seen
    BY <1>2 DEF IInv, Origins, Looking
  <2>. QED
    BY <1>2, <2>1, <2>2
<1>3. IInv /\ Owned => HitIsOwn
  BY <1>2 DEF HitIsOwn
<1>. QED
  BY Invariance, <1>1, <1>3, OwnedStep, PTL DEF Spec
==============================================================================

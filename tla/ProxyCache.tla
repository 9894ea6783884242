------------------------------ MODULE ProxyCache ------------------------------
(* The proxy's threads in serviceRequest and handleRequest, and the response   *)
(* cache on disk, one file-system call at a time.  Every entry is a directory  *)
(* named by the hash of a request, with a file that is named by the times of   *)
(* its creation and expiration.                                                *)
EXTENDS Integers, Sequences, FiniteSets

CONSTANTS
  Thread,          \* the threads of the pool (scheduler.cc: nt)
  Server, Ip,      \* origin servers; addresses of clients
  None,            \* no Host header, no response
  Request,         \* the requests that come in
  Stripe(_),       \* hash of a serialised request % mutexes.size()
  Blocked,         \* blocked-domains.txt
  MaxAge,          \* --max-age: -1 not given, 0 never cache, else seconds
  TTL,             \* the max-age values origins answer with, 0: do not cache
  MaxTime,         \* bound: seconds
  MaxConnections,  \* bound: connections accepted
  MaxCrashes       \* bound: crashes of the proxy

Method == {"GET", "HEAD", "POST", "PUT"}       \* PUT stands for what is not supported
Key    == [method : Method, host : Server \cup {None}, proto : BOOLEAN, via : Seq(Ip)]
Form   == [method : Method, server : Server, host : Server \cup {None}, proto : BOOLEAN,
           via : Seq(Ip), ip : Ip]

ASSUME ProxyAssumption ==
  /\ Request \subseteq Form /\ MaxAge \in Int /\ TTL \subseteq Nat /\ Blocked \subseteq Server
  /\ MaxTime \in Nat /\ MaxConnections \in Nat /\ MaxCrashes \in Nat
  /\ None \notin [create : Nat, expires : Nat]

VARIABLES
  pc,              \* where each thread is
  req,             \* its request; forwardRequest adds headers to it
  index,           \* handleRequest's local: the mutex it locks
  name,            \* the name of the file it found or created
  own,             \* the response it has, whether the response is whole, and (history)
                   \* when it came into the cache, 0 if it is not from there
  todo,            \* the directory entries it has yet to remove
  asof,            \* the time it read when it judged the entry's validity, or first
                   \* read for the name of a new file
  locked,          \* the mutexes that are locked
  dirs,            \* disk: the entries' directories
  files,           \* disk: the files in them
  now,             \* the clock, in seconds
  seen,            \* history: the requests that came in
  accepted,        \* history: how many connections were accepted
  crashes          \* history: how often the proxy was killed

locals == <<req, index, name, own, todo, asof>>
disk   == <<dirs, files>>
world  == <<now, seen, accepted, crashes>>
vars   == <<pc, locals, locked, disk, world>>
------------------------------------------------------------------------------
\* Slip: the Host header is not part of the serialisation.
KeyWithoutHost(r) == [method |-> r.method, host |-> None, proto |-> r.proto, via |-> r.via]

\* serializeRequest: method, path and headers; neither the server of the URL
\* nor the client's address.
KeyOf(r) == [method |-> r.method, host |-> r.host, proto |-> r.proto, via |-> r.via]

AddHeaders(r) == [r EXCEPT !.proto = TRUE, !.via = Append(@, r.ip)]

\* The last address of x-forwarded-for is not compared.
ContainsLoop(r) == \E i \in 1 .. Len(r.via) - 1 : r.via[i] = r.ip

Least(a, b) == IF a <= b THEN a ELSE b

\* getExpirationTime, at the time that it reads, and cachedEntryIsValid's reading
\* of the file's name.
Expiration(ttl, time) == time + (IF MaxAge >= 0 THEN Least(MaxAge, ttl) ELSE ttl)
ValidUntil(n) == IF MaxAge > 0 THEN Least(n.create + MaxAge, n.expires) ELSE n.expires

Entry(t)     == KeyOf(req[t])               \* the directory a thread works on
FilesIn(k)   == {f \in files : f.key = k}
NameOf(f)    == [create |-> f.create, expires |-> f.expires]
Called(k, n) == {f \in FilesIn(k) : NameOf(f) = n}

\* unlink: a thread that is writing the file writes on, unseen by anybody.
Unlink(k, n) ==
  /\ files' = files \ Called(k, n)
  /\ name' = [u \in Thread |->
                IF pc[u] = "write" /\ Entry(u) = k /\ name[u] = n THEN None ELSE name[u]]

Goto(t, place) == pc' = [pc EXCEPT ![t] = place]
Unlock(t)      == locked' = locked \ {index[t]}
\* A thread of the pool that is done with its connection.
Forget(t) ==
  /\ Goto(t, "idle")
  /\ req' = [req EXCEPT ![t] = None] /\ index' = [index EXCEPT ![t] = None]
  /\ name' = [name EXCEPT ![t] = None] /\ own' = [own EXCEPT ![t] = None]
  /\ todo' = [todo EXCEPT ![t] = {}] /\ asof' = [asof EXCEPT ![t] = 0]
\* An exception: the lock is released, serviceRequest answers nothing.
Drop(t)        == Goto(t, "dropped") /\ Unlock(t)
\* The end of containsCacheEntry's and cacheEntry's locals.
Return(t)      == name' = [name EXCEPT ![t] = None] /\ asof' = [asof EXCEPT ![t] = 0]
\* containsCacheEntry returns false.
Miss(t)        == Goto(t, "forward") /\ Unlock(t) /\ Return(t)
------------------------------------------------------------------------------
Init ==
  /\ pc = [t \in Thread |-> "idle"]
  /\ req = [t \in Thread |-> None] /\ index = [t \in Thread |-> None]
  /\ name = [t \in Thread |-> None] /\ own = [t \in Thread |-> None]
  /\ todo = [t \in Thread |-> {}] /\ asof = [t \in Thread |-> 0]
  /\ locked = {} /\ dirs = {} /\ files = {}
  /\ now = 0 /\ seen = {} /\ accepted = 0 /\ crashes = 0
------------------------------------------------------------------------------
(* serviceRequest. *)

\* A thread of the pool takes the next connection and reads its request.
Accept(t, r) ==
  /\ pc[t] = "idle" /\ accepted < MaxConnections
  /\ accepted' = accepted + 1 /\ seen' = seen \cup {r}
  /\ req' = [req EXCEPT ![t] = r]
  /\ Goto(t, "service")
  /\ UNCHANGED <<index, name, own, todo, asof, locked, disk, now, crashes>>

Refused(r) == r.server \in Blocked \/ ContainsLoop(r) \/ r.method = "PUT"

\* Forbidden, Loop Detected, or Method Not Allowed.
Refuse(t) ==
  /\ pc[t] = "service" /\ Refused(req[t])
  /\ Forget(t)
  /\ UNCHANGED <<locked, disk, world>>

\* Slip: handleRequest looks into the cache without the lock.
LookUpUnlocked(t) ==
  /\ pc[t] = "service" /\ ~Refused(req[t])
  /\ index' = [index EXCEPT ![t] = Stripe(Entry(t))]
  /\ Goto(t, "stat")
  /\ UNCHANGED <<req, name, own, todo, asof, locked, disk, world>>

\* handleRequest: lock the mutex of the request as it came in.
LookUp(t) ==
  LET i == Stripe(Entry(t)) IN
  /\ pc[t] = "service" /\ ~Refused(req[t])
  /\ i \notin locked
  /\ locked' = locked \cup {i}
  /\ index' = [index EXCEPT ![t] = i]
  /\ Goto(t, "stat")
  /\ UNCHANGED <<req, name, own, todo, asof, disk, world>>

\* What failed with an exception is not answered.
GiveUp(t) ==
  /\ pc[t] = "dropped"
  /\ Forget(t)
  /\ UNCHANGED <<locked, disk, world>>
------------------------------------------------------------------------------
(* containsCacheEntry *)

\* cacheEntryExists: stat
Stat(t) ==
  /\ pc[t] = "stat"
  /\ \/ /\ MaxAge = 0 \/ req[t].method # "GET" \/ Entry(t) \notin dirs
        /\ Miss(t)
     \/ /\ MaxAge # 0 /\ req[t].method = "GET" /\ Entry(t) \in dirs
        /\ Goto(t, "exists") /\ UNCHANGED <<name, asof, locked>>
  /\ UNCHANGED <<req, index, own, todo, disk, world>>

\* cacheEntryExists: opendir, readdir
Exists(t) ==
  /\ pc[t] = "exists"
  /\ \/ Entry(t) \notin dirs /\ Drop(t) /\ UNCHANGED <<name, asof>>
     \/ Entry(t) \in dirs /\ FilesIn(Entry(t)) = {} /\ Miss(t)
     \/ FilesIn(Entry(t)) # {} /\ Goto(t, "name") /\ UNCHANGED <<name, asof, locked>>
  /\ UNCHANGED <<req, index, own, todo, disk, world>>

\* getRequestHashCacheEntryName: the first file that readdir surfaces.
FindName(t) ==
  /\ pc[t] = "name"
  /\ \/ FilesIn(Entry(t)) = {} /\ Miss(t)
     \/ /\ \E f \in FilesIn(Entry(t)) : name' = [name EXCEPT ![t] = NameOf(f)]
        /\ Goto(t, "check") /\ UNCHANGED <<asof, locked>>
  /\ UNCHANGED <<req, index, own, todo, disk, world>>

\* Slip: the expiration the origin asked for is not looked at.
CheckMaxAgeOnly(t) ==
  /\ pc[t] = "check"
  /\ asof' = [asof EXCEPT ![t] = now]
  /\ Goto(t, IF now <= name[t].create + MaxAge THEN "read" ELSE "remove")
  /\ UNCHANGED <<req, index, name, own, todo, locked, disk, world>>

\* cachedEntryIsValid
Check(t) ==
  /\ pc[t] = "check"
  /\ asof' = [asof EXCEPT ![t] = now]
  /\ Goto(t, IF now <= ValidUntil(name[t]) THEN "read" ELSE "remove")
  /\ UNCHANGED <<req, index, name, own, todo, locked, disk, world>>

\* The expired file is removed,
RemoveExpired(t) ==
  /\ pc[t] = "remove"
  /\ LET f == Called(Entry(t), name[t]) IN
       \/ f = {} /\ Drop(t) /\ UNCHANGED <<files, name>>
       \/ f # {} /\ Unlink(Entry(t), name[t]) /\ Goto(t, "rmdir") /\ UNCHANGED locked
  /\ UNCHANGED <<req, index, own, todo, asof, dirs, world>>

\* and then its directory, which has to be there and empty.
RemoveDirectory(t) ==
  /\ pc[t] = "rmdir"
  /\ IF Entry(t) \in dirs /\ FilesIn(Entry(t)) = {}
     THEN dirs' = dirs \ {Entry(t)} /\ Miss(t)
     ELSE Drop(t) /\ UNCHANGED <<name, asof, dirs>>
  /\ UNCHANGED <<req, index, own, todo, files, world>>

\* The file is opened and its response read: whole, or as far as it is written.
Read(t) ==
  /\ pc[t] = "read"
  /\ LET f == Called(Entry(t), name[t]) IN
       \/ f = {} /\ Drop(t) /\ UNCHANGED own
       \/ /\ \E g \in f : own' = [own EXCEPT ![t] = [whole |-> g.whole, body |-> g.body,
                                                    stored |-> g.stored]]
          /\ Goto(t, "hit") /\ UNCHANGED locked
  /\ UNCHANGED <<req, index, name, todo, asof, disk, world>>

\* Slip: the lock outlives the return.
SendHitLocked(t) ==
  /\ pc[t] = "hit"
  /\ Forget(t)
  /\ UNCHANGED <<locked, disk, world>>

\* handleRequest sends the cached response, and returns.
SendHit(t) ==
  /\ pc[t] = "hit"
  /\ Forget(t) /\ Unlock(t)
  /\ UNCHANGED <<disk, world>>
------------------------------------------------------------------------------
(* forwardRequest and cacheEntry *)

\* The request, with headers added to it, is sent to the server of its URL.
\* An error and a response that must not be cached have a ttl of 0.
Forward(t) ==
  /\ pc[t] = "forward"
  /\ req' = [req EXCEPT ![t] = AddHeaders(@)]
  /\ \E ttl \in TTL :
       own' = [own EXCEPT ![t] = [whole |-> TRUE, stored |-> 0,
                                  body |-> [server |-> req[t].server, ttl |-> ttl]]]
  /\ Goto(t, "relock")
  /\ UNCHANGED <<index, name, todo, asof, locked, disk, world>>

ShouldCache(t) == MaxAge # 0 /\ req[t].method = "GET" /\ own[t].body.ttl > 0

\* The mutex is locked again: the one of the request as it came in.
Relock(t) ==
  /\ pc[t] = "relock"
  /\ index[t] \notin locked
  /\ IF ShouldCache(t) THEN locked' = locked \cup {index[t]} /\ Goto(t, "ensure")
                       ELSE Goto(t, "send") /\ UNCHANGED locked
  /\ UNCHANGED <<locals, disk, world>>

\* ensureDirectoryExists: lstat,
Ensure(t) ==
  /\ pc[t] = "ensure"
  /\ Goto(t, IF Entry(t) \in dirs THEN "opendir" ELSE "mkdir")
  /\ UNCHANGED <<locals, locked, disk, world>>

\* mkdir, which fails if the directory is there by now,
MakeDirectory(t) ==
  /\ pc[t] = "mkdir"
  /\ IF Entry(t) \in dirs THEN Drop(t) /\ UNCHANGED dirs
                          ELSE dirs' = dirs \cup {Entry(t)} /\ Goto(t, "opendir") /\ UNCHANGED locked
  /\ UNCHANGED <<locals, files, world>>

\* Slip: what is in the directory is not listed, so nothing will be removed.
OpenToKeep(t) ==
  /\ pc[t] = "opendir"
  /\ IF Entry(t) \notin dirs THEN Drop(t) ELSE Goto(t, "clear") /\ UNCHANGED locked
  /\ UNCHANGED <<locals, disk, world>>

\* opendir and readdir: the names of the files that are to be removed,
OpenToClear(t) ==
  /\ pc[t] = "opendir"
  /\ IF Entry(t) \notin dirs THEN Drop(t) /\ UNCHANGED todo
     ELSE /\ todo' = [todo EXCEPT ![t] = {NameOf(f) : f \in FilesIn(Entry(t))}]
          /\ Goto(t, "clear") /\ UNCHANGED locked
  /\ UNCHANGED <<req, index, name, own, asof, disk, world>>

\* and one lstat and remove for each of them.
Clear(t) ==
  /\ pc[t] = "clear"
  /\ \/ /\ todo[t] = {}
        /\ Goto(t, "clock") /\ UNCHANGED <<todo, files, name, locked>>
     \/ \E n \in todo[t] :
          /\ todo' = [todo EXCEPT ![t] = @ \ {n}]
          /\ IF Called(Entry(t), n) = {} THEN Drop(t) /\ UNCHANGED <<files, name>>
                                        ELSE Unlink(Entry(t), n) /\ UNCHANGED <<pc, locked>>
  /\ UNCHANGED <<req, index, own, asof, dirs, world>>

\* cacheEntry composes the file's name of two readings of the clock, getCurrentTime's
\* and getExpirationTime's: one of them,
FirstClock(t) ==
  /\ pc[t] = "clock"
  /\ asof' = [asof EXCEPT ![t] = now]
  /\ Goto(t, "time")
  /\ UNCHANGED <<req, index, name, own, todo, locked, disk, world>>

\* and then the other, as the operands of + may be evaluated in either order.
SecondClock(t) ==
  LET ttl == own[t].body.ttl IN
  /\ pc[t] = "time"
  /\ \E n \in {[create |-> asof[t], expires |-> Expiration(ttl, now)],
              [create |-> now, expires |-> Expiration(ttl, asof[t])]} :
       name' = [name EXCEPT ![t] = n]
  /\ Goto(t, "create")
  /\ UNCHANGED <<req, index, own, todo, asof, locked, disk, world>>

\* The file is created under that name, or truncated if it is there.
Create(t) ==
  LET file == [key |-> Entry(t), create |-> name[t].create, expires |-> name[t].expires,
               whole |-> FALSE, body |-> own[t].body, stored |-> now]
  IN
  /\ pc[t] = "create"
  /\ IF Entry(t) \notin dirs THEN Drop(t) /\ UNCHANGED <<own, files>>
     ELSE /\ files' = (files \ Called(Entry(t), name[t])) \cup {file}
          /\ own' = [own EXCEPT ![t] = [@ EXCEPT !.stored = now]]
          /\ Goto(t, "write") /\ UNCHANGED locked
  /\ UNCHANGED <<req, index, name, todo, asof, dirs, world>>

Written(f, r) == [f EXCEPT !.whole = TRUE, !.body = r.body, !.stored = r.stored]

\* The response is written, and the mutex unlocked.
Write(t) ==
  /\ pc[t] = "write"
  /\ LET here == {f \in FilesIn(Entry(t)) : name[t] # None /\ NameOf(f) = name[t]} IN
       files' = (files \ here) \cup {Written(f, own[t]) : f \in here}
  /\ Goto(t, "send") /\ Unlock(t) /\ Return(t)
  /\ UNCHANGED <<req, index, own, todo, dirs, world>>

\* The response is sent to the client.
Send(t) ==
  /\ pc[t] = "send"
  /\ Forget(t)
  /\ UNCHANGED <<locked, disk, world>>
------------------------------------------------------------------------------
Tick ==
  /\ now < MaxTime
  /\ now' = now + 1
  /\ UNCHANGED <<pc, locals, locked, disk, seen, accepted, crashes>>

\* The proxy is killed and started again: what is on disk stays.
Crash ==
  /\ crashes < MaxCrashes
  /\ crashes' = crashes + 1
  /\ pc' = [t \in Thread |-> "idle"]
  /\ req' = [t \in Thread |-> None] /\ index' = [t \in Thread |-> None]
  /\ name' = [t \in Thread |-> None] /\ own' = [t \in Thread |-> None]
  /\ todo' = [t \in Thread |-> {}] /\ asof' = [t \in Thread |-> 0]
  /\ locked' = {}
  /\ UNCHANGED <<disk, now, seen, accepted>>

\* The steps that are the proxy's own,
Works(t) ==
  \/ Refuse(t) \/ LookUp(t) \/ Stat(t) \/ Exists(t) \/ FindName(t) \/ Check(t) \/ RemoveExpired(t)
  \/ RemoveDirectory(t) \/ Read(t) \/ Relock(t) \/ Ensure(t) \/ MakeDirectory(t) \/ OpenToClear(t)
  \/ Clear(t) \/ FirstClock(t) \/ SecondClock(t) \/ Create(t) \/ Write(t) \/ GiveUp(t)

\* and those that end only if a peer does its part: a client that reads what it is
\* sent, or an origin that answers.  None of them has a time limit.
Peers(t) == SendHit(t) \/ Forward(t) \/ Send(t)

Service(t) == Works(t) \/ Peers(t)

Next ==
  \/ \E t \in Thread : Service(t) \/ \E r \in Request : Accept(t, r)
  \/ Tick \/ Crash

Spec == Init /\ [][Next]_vars

\* Every thread is scheduled; nothing is assumed of clients and origins.
FairSpec == Spec /\ \A t \in Thread : WF_vars(Works(t))
------------------------------------------------------------------------------
Place == {"idle", "service", "stat", "exists", "name", "check", "remove", "rmdir", "read", "hit",
          "forward", "relock", "ensure", "mkdir", "opendir", "clear", "clock", "time", "create",
          "write", "send", "dropped"}
Name  == [create : Nat, expires : Nat]
Body  == [server : Server, ttl : Nat]
Response == [whole : BOOLEAN, body : Body, stored : Nat]
File  == [key : Key, create : Nat, expires : Nat, whole : BOOLEAN, body : Body, stored : Nat]

\* The types of the threads' locals, the mutexes and the disk.
TypeOK ==
  /\ pc \in [Thread -> Place]
  /\ req \in [Thread -> Form \cup {None}]
  /\ index \in [Thread -> {Stripe(KeyOf(r)) : r \in Request} \cup {None}]
  /\ name \in [Thread -> Name \cup {None}] /\ own \in [Thread -> Response \cup {None}]
  /\ todo \in [Thread -> SUBSET Name] /\ asof \in [Thread -> Nat]
  /\ locked \subseteq {index[t] : t \in Thread}
  /\ dirs \subseteq Key /\ files \subseteq File /\ \A f \in files : f.key \in dirs
  /\ now \in Nat /\ seen \subseteq Request /\ accepted \in Nat /\ crashes \in Nat

\* Where a thread works on its entry, under the mutex it locked.
Looking == {"stat", "exists", "name", "check", "remove", "rmdir", "read", "hit"}
Storing == {"ensure", "mkdir", "opendir", "clear", "clock", "time", "create", "write"}
InCache(t) == pc[t] \in Looking \cup Storing

\* The entries a request leads to: it is looked up as it came in, and stored as
\* it was forwarded.  The mutex is that of the first.
Touched(r) == {KeyOf(r), KeyOf(AddHeaders(r))}
Separate ==
  \A q, r \in seen : Touched(q) \cap Touched(r) # {} => Stripe(KeyOf(q)) = Stripe(KeyOf(r))

Single == \A f, g \in files : f.key = g.key => f = g

\* Where requests that lead to a common entry share a mutex, no two threads work
\* on an entry at the same time (cache.h: "you should acquire the lock on the
\* relevant request before calling").
EntriesAreLocked ==
  Separate =>
    \A t, u \in Thread : t # u /\ InCache(t) /\ InCache(u) => Entry(t) # Entry(u)

\* There, no file operation fails, and every client gets an answer,
NobodyIsDropped == Separate => \A t \in Thread : pc[t] # "dropped"

\* every entry is a single file (cache.cc: "contains a single file"),
SingleFile == Separate => Single

\* and, unless the proxy was killed while it wrote, every hit is a whole response.
HitIsWhole ==
  Separate /\ crashes = 0 => \A t \in Thread : pc[t] = "hit" => own[t].whole

\* If every request names its server in the Host header, a response from the
\* cache comes from the server that was asked.
HitIsOwn ==
  (\A r \in seen : r.host = r.server) =>
    \A t \in Thread : pc[t] = "hit" => own[t].body.server = req[t].server

\* However threads and the clock interleave, also between the readings of the clock
\* and the creation of the file they name, no response is served that had been in
\* the cache for longer than its origin's max-age when it was looked up, or than
\* the proxy's (cache.h: "how many seconds a cacheable item is allowed to remain in
\* the cache from the time it was placed there").
HitIsFresh ==
  \A t \in Thread : pc[t] = "hit" =>
    /\ asof[t] <= own[t].stored + own[t].body.ttl
    /\ MaxAge > 0 => asof[t] <= own[t].stored + MaxAge

\* A connection ends if its own peers do their part, and the clients that are sent
\* a cached response under its mutex: threads that wait for a mutex get it, and
\* peers of other connections do not matter.
EveryConnectionEnds ==
  \A t \in Thread, i \in {Stripe(KeyOf(r)) : r \in Request} :
    /\ WF_vars(Forward(t) \/ Send(t))
    /\ WF_vars(\E u \in Thread : index[u] = i /\ SendHit(u))
    => (pc[t] = "service" /\ Stripe(Entry(t)) = i ~> pc[t] = "idle")
------------------------------------------------------------------------------
(* The inductive invariant, in parts. *)

\* What a thread has where it needs it.
Places ==
  \A t \in Thread :
    /\ pc[t] # "idle" => req[t] \in Form
    /\ pc[t] \in {"check", "remove", "read", "hit", "create"} => name[t] \in Name
    /\ pc[t] \in {"hit", "relock", "send"} \cup Storing => own[t] \in Response

\* The locked mutexes are those of the threads that work on an entry.
Mutexes ==
  /\ \A i \in locked : \E t \in Thread : InCache(t) /\ index[t] = i
  /\ \A t \in Thread : InCache(t) => index[t] \in locked
  /\ \A t, u \in Thread : t # u /\ InCache(t) /\ InCache(u) => index[t] # index[u]

\* Whose mutex a thread locks, and on which entry it works.
Origins ==
  \A t \in Thread :
    /\ pc[t] = "service" => req[t] \in seen
    /\ pc[t] \in Looking \cup {"forward"} => req[t] \in seen /\ index[t] = Stripe(Entry(t))
    /\ pc[t] \in {"relock"} \cup Storing =>
         \E r \in seen : req[t] = AddHeaders(r) /\ index[t] = Stripe(KeyOf(r))

\* No file's name promises more than its response permits, counted from when the
\* file was created.
FreshName(n, time, ttl) ==
  /\ n.expires <= time + ttl
  /\ MaxAge > 0 => n.expires <= time + MaxAge
FreshFile(f) == FreshName(f, f.stored, f.body.ttl)
FreshThread(t) ==
  /\ pc[t] = "time" => asof[t] <= now
  /\ pc[t] = "create" => FreshName(name[t], now, own[t].body.ttl)
  /\ pc[t] = "write" /\ name[t] # None => FreshName(name[t], own[t].stored, own[t].body.ttl)
  /\ pc[t] \in {"read", "hit"} => asof[t] <= name[t].expires
  /\ pc[t] = "hit" => FreshName(name[t], own[t].stored, own[t].body.ttl)
Fresh == (\A f \in files : FreshFile(f)) /\ \A t \in Thread : FreshThread(t)

IInv == TypeOK /\ Places /\ Mutexes /\ Origins /\ Fresh

\* Where every request names its server, what is stored under a host is from it.
Owned ==
  (\A r \in seen : r.host = r.server) =>
    /\ \A f \in files : f.body.server = f.key.host
    /\ \A t \in Thread :
         pc[t] \in {"relock", "hit"} \cup Storing => own[t].body.server = req[t].host

\* What a thread has seen of its entry, nobody has changed since.
OnDisk(t) ==
  /\ pc[t] # "dropped"
  /\ pc[t] \in {"exists", "name", "check", "remove", "rmdir", "read", "opendir", "clear", "clock",
                "time", "create", "write"} => Entry(t) \in dirs
  /\ pc[t] = "mkdir" => Entry(t) \notin dirs
  /\ pc[t] = "name" => FilesIn(Entry(t)) # {}
  /\ pc[t] \in {"check", "remove", "read", "write"} => Called(Entry(t), name[t]) # {}
  /\ pc[t] \in {"rmdir", "clock", "time", "create"} => FilesIn(Entry(t)) = {}
  /\ pc[t] = "clear" => todo[t] = {NameOf(f) : f \in FilesIn(Entry(t))}
  /\ pc[t] = "write" => name[t] # None
  /\ pc[t] = "hit" /\ crashes = 0 => own[t].whole

\* Only a file that is being written is not whole, unless the proxy was killed.
Halves ==
  crashes = 0 =>
    \A f \in files : ~f.whole => \E t \in Thread : pc[t] = "write" /\ Entry(t) = f.key

Disk == Separate => Single /\ Halves /\ \A t \in Thread : OnDisk(t)
------------------------------------------------------------------------------
\* cache.cc:13-16: an entry is named by the hash "of the entire HTTP request,
\* because that's easily produced from just the HTTPRequest before attempting to
\* download the file": what was stored for a request is found for it.
CachedIsFound ==
  [][\A t \in Thread :
       pc[t] = "stat" /\ pc'[t] = "forward" =>
         \A f \in files : f.key = KeyOf(AddHeaders(req[t])) => ~f.whole \/ now > ValidUntil(NameOf(f))]_vars
==============================================================================

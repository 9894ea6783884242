---------------------------- MODULE LookupProofs ----------------------------
(* The programs of Lookups for all their inputs.  The search first, for any    *)
(* database, source, target and length; then what imdb.cc reads of the data    *)
(* files of any database; then diskimageaccess, -i and -m and then -p, for any *)
(* image its sizes allow.                                                      *)
EXTENDS Lookups, Inductions, FiniteSetTheorems

-------------------------------------------------------------------------------
(* The search: distances are noted in order, so a film looked at for one of its *)
(* cast need not be for another.                                                *)
Searching == step \in {"actors", "films", "cast", "none"}
Evaluating == step \in {"films", "cast"}

\* The cast of f is visited and within d.
CastWithin(f, d) ==
  \A b \in Actor : InSeq(b, db.cast[f]) => b \in DOMAIN dist /\ dist[b] <= d

\* No one still to be evaluated, or being evaluated, is nearer to the source than e.
NotBeyond(e) ==
  /\ e \in DOMAIN dist
  /\ \A i \in 1 .. Len(queue) : dist[e] <= dist[queue[i]]
  /\ Evaluating => dist[e] <= dist[u]

Evaluated(a) == a \in DOMAIN dist /\ ~InSeq(a, queue) /\ ~(Evaluating /\ a = u)

(* Predecessors are one step nearer, over the film noted. *)
Predecessors ==
  step \notin {"main", "refused"} =>
    /\ source \in DOMAIN dist /\ dist[source] = 0
    /\ \A a \in DOMAIN dist \ {source} :
         /\ a \in DOMAIN pred /\ pred[a].actor \in DOMAIN dist
         /\ dist[a] = dist[pred[a].actor] + 1
         /\ InSeq(pred[a].film, db.credits[pred[a].actor]) /\ InSeq(a, db.cast[pred[a].film])

(* The queue is sorted by distance and spans two distances at most. *)
QueueInOrder ==
  Searching =>
    /\ \A i \in 1 .. Len(queue) : queue[i] \in DOMAIN dist
    /\ \A i, j \in 1 .. Len(queue) :
         (i <= j => dist[queue[i]] <= dist[queue[j]]) /\ dist[queue[j]] <= dist[queue[i]] + 1
    /\ Evaluating =>
         /\ u \in DOMAIN dist
         /\ \A i \in 1 .. Len(queue) : dist[u] <= dist[queue[i]] /\ dist[queue[i]] <= dist[u] + 1

EvaluatedFirst == Searching => \A a \in Actor : Evaluated(a) => NotBeyond(a)

(* Whoever a film was looked at for was not beyond the actors who come later. *)
FilmsLookedAt ==
  /\ step = "main" => visited_films = {}
  /\ Searching =>
       \A f \in visited_films :
         \/ step = "cast" /\ f = movie
         \/ \E e \in Actor : NotBeyond(e) /\ CastWithin(f, dist[e] + 1)

(* The loops over the credits and the cast have done what they no longer hold. *)
Loops ==
  /\ Evaluating =>
       /\ \A i \in 1 .. Len(credits) : InSeq(credits[i], db.credits[u])
       /\ \A f \in Film :
            InSeq(f, db.credits[u]) => \/ InSeq(f, credits)
                                       \/ step = "cast" /\ f = movie
                                       \/ CastWithin(f, dist[u] + 1)
  /\ step = "cast" =>
       /\ InSeq(movie, db.credits[u])
       /\ \A i \in 1 .. Len(cast) : InSeq(cast[i], db.cast[movie])
       /\ \A b \in Actor : InSeq(b, db.cast[movie]) =>
            InSeq(b, cast) \/ (b \in DOMAIN dist /\ dist[b] <= dist[u] + 1)

Neighbours ==
  Searching =>
    \A a \in Actor, f \in Film :
      Evaluated(a) /\ InSeq(f, db.credits[a]) => CastWithin(f, dist[a] + 1)

(* The path printed is walked back by one distance with each connection. *)
Walk ==
  /\ step \notin {"found", "printed"} => thisActor = target /\ thisPath.links = <<>>
  /\ step = "found" =>
       /\ target \in DOMAIN dist /\ thisActor \in DOMAIN dist
       /\ dist[thisActor] + Len(thisPath.links) = dist[target]

IInv ==
  /\ SearchTypeOK /\ Predecessors /\ Walk
  /\ QueueInOrder /\ EvaluatedFirst /\ FilmsLookedAt /\ Loops /\ Neighbours
-----------------------------------------------------------------------------
\* A sequence holds its head and what its tail holds.
LEMMA InTail ==
  ASSUME NEW S, NEW s \in Seq(S), s # <<>>
  PROVE  /\ Head(s) \in S /\ Tail(s) \in Seq(S) /\ Len(Tail(s)) = Len(s) - 1 /\ Len(s) \in Nat \ {0}
         /\ s[1] = Head(s)
         /\ \A i \in 1 .. Len(Tail(s)) : i + 1 \in 1 .. Len(s) /\ Tail(s)[i] = s[i + 1]
         /\ \A x : InSeq(x, s) <=> x = Head(s) \/ InSeq(x, Tail(s))
<1>1. /\ Head(s) \in S /\ Tail(s) \in Seq(S) /\ Len(Tail(s)) = Len(s) - 1 /\ Len(s) \in Nat \ {0}
      /\ s[1] = Head(s)
      /\ \A i \in 1 .. Len(Tail(s)) : i + 1 \in 1 .. Len(s) /\ Tail(s)[i] = s[i + 1]
  BY HeadTailProperties
<1>2. ASSUME NEW x, InSeq(x, s) PROVE x = Head(s) \/ InSeq(x, Tail(s))
  <2>1. PICK i \in 1 .. Len(s) : s[i] = x
    BY <1>2 DEF InSeq
  <2>2. CASE i = 1
    BY <2>1, <2>2, <1>1
  <2>3. CASE i # 1
    <3>1. i - 1 \in 1 .. Len(Tail(s)) /\ Tail(s)[i - 1] = s[(i - 1) + 1] /\ (i - 1) + 1 = i
      BY <2>3, <1>1
    <3>. QED
      BY <3>1, <2>1 DEF InSeq
  <2>. QED
    BY <2>2, <2>3
<1>3. ASSUME NEW x, x = Head(s) \/ InSeq(x, Tail(s)) PROVE InSeq(x, s)
  <2>1. CASE x = Head(s)
    BY <2>1, <1>1 DEF InSeq
  <2>2. CASE InSeq(x, Tail(s))
    BY <2>2, <1>1 DEF InSeq
  <2>. QED
    BY <1>3, <2>1, <2>2
<1>. QED
  BY <1>1, <1>2, <1>3

\* Appending adds one member, in the last place.
LEMMA InAppend ==
  ASSUME NEW S, NEW s \in Seq(S), NEW e \in S
  PROVE  /\ Append(s, e) \in Seq(S) /\ Len(Append(s, e)) = Len(s) + 1 /\ Len(s) \in Nat
         /\ Append(s, e)[Len(s) + 1] = e
         /\ \A i \in 1 .. Len(s) : Append(s, e)[i] = s[i]
         /\ \A x : InSeq(x, Append(s, e)) <=> InSeq(x, s) \/ x = e
<1>1. /\ Append(s, e) \in Seq(S) /\ Len(Append(s, e)) = Len(s) + 1 /\ Len(s) \in Nat
      /\ Append(s, e)[Len(s) + 1] = e
      /\ \A i \in 1 .. Len(s) : Append(s, e)[i] = s[i]
  BY AppendProperties
<1>2. ASSUME NEW x, InSeq(x, Append(s, e)) PROVE InSeq(x, s) \/ x = e
  <2>1. PICK i \in 1 .. Len(s) + 1 : Append(s, e)[i] = x
    BY <1>1, <1>2 DEF InSeq
  <2>. QED
    BY <2>1, <1>1 DEF InSeq
<1>3. ASSUME NEW x, InSeq(x, s) \/ x = e PROVE InSeq(x, Append(s, e))
  <2>1. CASE x = e
    BY <2>1, <1>1 DEF InSeq
  <2>2. CASE InSeq(x, s)
    BY <2>2, <1>1 DEF InSeq
  <2>. QED
    BY <1>3, <2>1, <2>2
<1>. QED
  BY <1>1, <1>2, <1>3

\* A path reversed is a path.
LEMMA ReverseType ==
  ASSUME NEW p \in [startPlayer : Actor, links : Seq([movie : Film, player : Actor])]
  PROVE  reverse(p) \in [startPlayer : Actor, links : Seq([movie : Film, player : Actor])]
<1>. DEFINE n == Len(p.links)
            link(i) == [movie |-> p.links[n + 1 - i].movie,
                        player |-> IF i = n THEN p.startPlayer ELSE p.links[n - i].player]
<1>1. n \in Nat /\ \A i \in 1 .. n : p.links[i] \in [movie : Film, player : Actor]
  BY ElementOfSeq, LenProperties
<1>2. getLastPlayer(p) \in Actor
  <2>1. CASE p.links = <<>>
    BY <2>1 DEF getLastPlayer
  <2>2. CASE p.links # <<>>
    <3>1. n \in 1 .. n
      BY <2>2, <1>1, EmptySeq
    <3>. QED
      BY <3>1, <2>2, <1>1 DEF getLastPlayer
  <2>. QED
    BY <2>1, <2>2
<1>3. ASSUME NEW i \in 1 .. n PROVE link(i) \in [movie : Film, player : Actor]
  <2>1. n + 1 - i \in 1 .. n /\ (i # n => n - i \in 1 .. n)
    BY <1>1, <1>3
  <2>. QED
    BY <2>1, <1>1
<1>4. [i \in 1 .. n |-> link(i)] \in Seq([movie : Film, player : Actor])
  BY <1>1, <1>3, SeqDef
<1>. QED
  BY <1>2, <1>4 DEF reverse
-----------------------------------------------------------------------------
\* A costar not seen before is noted one step from the actor evaluated.
LEMMA Visit ==
  ASSUME IInv, NextCostar, ~Visited(Head(cast))
  PROVE  /\ Head(cast) \in Actor /\ Head(cast) \notin DOMAIN dist
         /\ u \in DOMAIN dist /\ dist[u] \in Nat
         /\ InSeq(movie, db.credits[u]) /\ InSeq(Head(cast), db.cast[movie])
         /\ DOMAIN dist' = DOMAIN dist \cup {Head(cast)} /\ dist'[Head(cast)] = dist[u] + 1
         /\ \A x \in DOMAIN dist : dist'[x] = dist[x]
         /\ DOMAIN pred' = DOMAIN pred \cup {Head(cast)}
         /\ pred'[Head(cast)].actor = u /\ pred'[Head(cast)].film = movie
         /\ \A x \in DOMAIN pred : x # Head(cast) => pred'[x] = pred[x]
<1>. DEFINE c == Head(cast)
            entry == [actor |-> u, film |-> movie]
<1>1. cast \in Seq(Actor) /\ cast # <<>> /\ step = "cast"
  BY DEF NextCostar, IInv, SearchTypeOK
<1>2. c \in Actor /\ c = cast[1] /\ 1 \in 1 .. Len(cast)
  BY <1>1, InTail
<1>3. InSeq(movie, db.credits[u]) /\ InSeq(c, db.cast[movie])
  BY <1>1, <1>2 DEF IInv, Loops
<1>4. u \in DOMAIN dist /\ dist[u] \in Nat
  BY <1>1 DEF IInv, QueueInOrder, Searching, Evaluating, SearchTypeOK
<1>5. c \notin DOMAIN dist
  BY DEF Visited
<1>6. dist' = Extend(dist, c, dist[u] + 1) /\ pred' = Extend(pred, c, entry)
  BY DEF NextCostar
<1>7. /\ DOMAIN dist' = DOMAIN dist \cup {c} /\ dist'[c] = dist[u] + 1
      /\ \A x \in DOMAIN dist : x # c => dist'[x] = dist[x]
  BY <1>6 DEF Extend
<1>8. /\ DOMAIN pred' = DOMAIN pred \cup {c} /\ pred'[c] = entry
      /\ \A x \in DOMAIN pred : x # c => pred'[x] = pred[x]
  <2>. HIDE DEF entry
  <2>. QED
    BY <1>6 DEF Extend
<1>. QED
  BY <1>2, <1>3, <1>4, <1>5, <1>7, <1>8

\* The search begins with nothing visited.
LEMMA Initially == SearchInit => IInv
BY SearchAssumption, EmptySeq
DEF SearchInit, NoLinks, IInv, SearchTypeOK, Predecessors, Walk, QueueInOrder, EvaluatedFirst,
    FilmsLookedAt, Loops, Neighbours, Searching, Evaluating

\* Every step keeps the variables' types.
LEMMA TypeStep == IInv /\ [SearchNext]_searchVars => SearchTypeOK'
<1>. SUFFICES ASSUME IInv, [SearchNext]_searchVars PROVE SearchTypeOK'
  OBVIOUS
<1>. USE DEF SearchTypeOK, IInv, inputs, Goto
<1>1. CASE Refuse
  BY <1>1 DEF Refuse
<1>2. CASE BeginSearch
  <2>1. queue' \in Seq(Actor) /\ DOMAIN dist' \subseteq Actor /\ dist' \in [DOMAIN dist' -> Nat]
    BY <1>2 DEF BeginSearch
  <2>. QED
    BY <1>2, <2>1 DEF BeginSearch
<1>3. CASE NextActor
  <2>1. queue' \in Seq(Actor) /\ u' \in Actor
    BY <1>3, InTail DEF NextActor, InReach
  <2>. QED
    BY <1>3, <2>1 DEF NextActor
<1>4. CASE ReadPastTheEnd
  BY <1>4 DEF ReadPastTheEnd
<1>5. CASE NoPath
  BY <1>5 DEF NoPath
<1>6. CASE NextFilm
  <2>1. credits' \in Seq(Film) /\ Head(credits) \in Film
    BY <1>6, InTail DEF NextFilm
  <2>2. visited_films' \subseteq Film /\ movie' \in Film /\ cast' \in Seq(Actor) /\ step' \in {"films", "cast"}
    BY <1>6, <2>1 DEF NextFilm
  <2>3. UNCHANGED <<db, source, target, maxLength, queue, dist, pred, u, thisPath, thisActor>>
    BY <1>6 DEF NextFilm
  <2>. QED
    BY <2>1, <2>2, <2>3
<1>7. CASE EndOfFilms
  BY <1>7 DEF EndOfFilms
<1>8. CASE NextCostar
  <2>1. cast' \in Seq(Actor) /\ Head(cast) \in Actor
    BY <1>8, InTail DEF NextCostar
  <2>2. CASE Visited(Head(cast))
    BY <1>8, <2>1, <2>2 DEF NextCostar
  <2>3. CASE ~Visited(Head(cast))
    <3>1. u \in DOMAIN dist
      BY <1>8 DEF NextCostar, QueueInOrder, Searching, Evaluating
    <3>2. DOMAIN dist' \subseteq Actor /\ dist' \in [DOMAIN dist' -> Nat]
      <4>1. dist' = Extend(dist, Head(cast), dist[u] + 1)
        BY <1>8, <2>3 DEF NextCostar
      <4>2. dist[u] + 1 \in Nat
        BY <3>1
      <4>. QED
        BY <2>1, <4>1, <4>2 DEF Extend
    <3>3. DOMAIN pred' \subseteq Actor /\ pred' \in [DOMAIN pred' -> [actor : Actor, film : Film]]
      BY <1>8, <2>1, <2>3 DEF NextCostar, Extend
    <3>4. queue' \in Seq(Actor)
      <4>1. Append(queue, Head(cast)) \in Seq(Actor)
        BY <2>1, InAppend
      <4>. QED
        BY <1>8, <2>3, <4>1 DEF NextCostar
    <3>5. step' \in {"cast", "found"}
      BY <1>8, <2>3 DEF NextCostar
    <3>6. UNCHANGED <<db, source, target, maxLength, visited_films, u, credits, movie, thisPath, thisActor>>
      BY <1>8 DEF NextCostar
    <3>. QED
      BY <2>1, <3>2, <3>3, <3>4, <3>5, <3>6
  <2>. QED
    BY <2>2, <2>3
<1>9. CASE EndOfCast
  BY <1>9 DEF EndOfCast
<1>10. CASE AddConnection
  <2>1. thisActor \in DOMAIN pred
    BY <1>10, LenProperties DEF AddConnection, Walk, Predecessors
  <2>2. pred[thisActor].actor \in Actor /\ pred[thisActor].film \in Film
    BY <2>1
  <2>3. Append(thisPath.links, [movie |-> pred[thisActor].film, player |-> pred[thisActor].actor])
          \in Seq([movie : Film, player : Actor])
    BY <2>2, AppendProperties
  <2>. QED
    BY <1>10, <2>2, <2>3 DEF AddConnection, addConnection
<1>11. CASE PrintPath
  BY <1>11, ReverseType DEF PrintPath
<1>12. CASE UNCHANGED searchVars
  BY <1>12 DEF searchVars
<1>. QED
  BY <1>1, <1>2, <1>3, <1>4, <1>5, <1>6, <1>7, <1>8, <1>9, <1>10, <1>11, <1>12 DEF SearchNext

\* Every step keeps a predecessor one step nearer.
LEMMA PredecessorsStep == IInv /\ [SearchNext]_searchVars => Predecessors'
<1>. SUFFICES ASSUME IInv, [SearchNext]_searchVars PROVE Predecessors'
  OBVIOUS
<1>. USE DEF Predecessors, IInv, inputs, Goto
<1>1. CASE Refuse
  BY <1>1 DEF Refuse
<1>2. CASE BeginSearch
  BY <1>2 DEF BeginSearch
<1>3. CASE NextActor
  BY <1>3 DEF NextActor
<1>4. CASE ReadPastTheEnd
  BY <1>4 DEF ReadPastTheEnd
<1>5. CASE NoPath
  BY <1>5 DEF NoPath
<1>6. CASE NextFilm
  BY <1>6 DEF NextFilm
<1>7. CASE EndOfFilms
  BY <1>7 DEF EndOfFilms
<1>8. CASE NextCostar
  <2>. DEFINE c == Head(cast)
  <2>1. CASE Visited(c)
    BY <1>8, <2>1 DEF NextCostar
  <2>2. CASE ~Visited(c)
    <3>1. UNCHANGED <<db, source>> /\ step = "cast"
      BY <1>8 DEF NextCostar
    <3>2. source \in DOMAIN dist' /\ dist'[source] = 0 /\ source # c
      BY <3>1, <1>8, <2>2, Visit
    <3>3. ASSUME NEW a \in DOMAIN dist' \ {source}
          PROVE  /\ a \in DOMAIN pred' /\ pred'[a].actor \in DOMAIN dist'
                 /\ dist'[a] = dist'[pred'[a].actor] + 1
                 /\ InSeq(pred'[a].film, db.credits[pred'[a].actor]) /\ InSeq(a, db.cast[pred'[a].film])
      <4>1. CASE a = c
        BY <1>8, <2>2, <4>1, Visit
      <4>2. CASE a # c
        <5>1. a \in DOMAIN dist \ {source} /\ dist'[a] = dist[a]
          BY <1>8, <2>2, <4>2, Visit
        <5>2. /\ a \in DOMAIN pred /\ pred[a].actor \in DOMAIN dist
              /\ dist[a] = dist[pred[a].actor] + 1
              /\ InSeq(pred[a].film, db.credits[pred[a].actor]) /\ InSeq(a, db.cast[pred[a].film])
          BY <3>1, <5>1
        <5>3. a \in DOMAIN pred' /\ pred'[a] = pred[a]
          BY <1>8, <2>2, <4>2, <5>2, Visit
        <5>4. pred[a].actor \in DOMAIN dist' /\ dist'[pred[a].actor] = dist[pred[a].actor]
          BY <1>8, <2>2, <5>2, Visit
        <5>. QED
          BY <5>1, <5>2, <5>3, <5>4
      <4>. QED
        BY <4>1, <4>2
    <3>. QED
      BY <3>1, <3>2, <3>3
  <2>. QED
    BY <2>1, <2>2
<1>9. CASE EndOfCast
  BY <1>9 DEF EndOfCast
<1>10. CASE AddConnection
  BY <1>10 DEF AddConnection
<1>11. CASE PrintPath
  BY <1>11 DEF PrintPath
<1>12. CASE UNCHANGED searchVars
  BY <1>12 DEF searchVars
<1>. QED
  BY <1>1, <1>2, <1>3, <1>4, <1>5, <1>6, <1>7, <1>8, <1>9, <1>10, <1>11, <1>12 DEF SearchNext

\* Every step leaves the walk back where the distances say.
LEMMA WalkStep == IInv /\ [SearchNext]_searchVars => Walk'
<1>. SUFFICES ASSUME IInv, [SearchNext]_searchVars PROVE Walk'
  OBVIOUS
<1>. USE DEF Walk, IInv, inputs, Goto
<1>1. CASE Refuse
  BY <1>1 DEF Refuse
<1>2. CASE BeginSearch
  BY <1>2 DEF BeginSearch
<1>3. CASE NextActor
  BY <1>3 DEF NextActor
<1>4. CASE ReadPastTheEnd
  BY <1>4 DEF ReadPastTheEnd
<1>5. CASE NoPath
  BY <1>5 DEF NoPath
<1>6. CASE NextFilm
  BY <1>6 DEF NextFilm
<1>7. CASE EndOfFilms
  BY <1>7 DEF EndOfFilms
<1>8. CASE NextCostar
  <2>1. UNCHANGED <<target, thisPath, thisActor>> /\ thisActor = target /\ thisPath.links = <<>>
    BY <1>8 DEF NextCostar
  <2>2. CASE step' = "found"
    <3>1. target = Head(cast) /\ ~Visited(target)
      BY <1>8, <2>2 DEF NextCostar
    <3>2. target \in DOMAIN dist' /\ dist'[target] \in Nat
      BY <1>8, <3>1, Visit
    <3>. QED
      BY <2>1, <3>2, EmptySeq
  <2>3. CASE step' # "found"
    BY <2>1, <2>3, <1>8 DEF NextCostar
  <2>. QED
    BY <2>2, <2>3
<1>9. CASE EndOfCast
  BY <1>9 DEF EndOfCast
<1>10. CASE AddConnection
  <2>. DEFINE before == pred[thisActor].actor
  <2>0. /\ step = "found" /\ Len(thisPath.links) \in Nat /\ Len(thisPath.links) < dist[target]
        /\ target \in DOMAIN dist /\ thisActor \in DOMAIN dist
        /\ dist[thisActor] + Len(thisPath.links) = dist[target]
        /\ dist[target] \in Nat /\ dist[thisActor] \in Nat
    BY <1>10, LenProperties DEF AddConnection, SearchTypeOK
  <2>1. thisActor \in DOMAIN pred /\ before \in DOMAIN dist /\ dist[thisActor] = dist[before] + 1
    BY <2>0 DEF Predecessors
  <2>2. thisPath.links \in Seq([movie : Film, player : Actor])
        /\ [movie |-> pred[thisActor].film, player |-> before] \in [movie : Film, player : Actor]
    BY <2>1 DEF SearchTypeOK
  <2>3. /\ Len(Append(thisPath.links, [movie |-> pred[thisActor].film, player |-> before]))
             = Len(thisPath.links) + 1
        /\ Len(thisPath.links) \in Nat
    BY <2>2, InAppend
  <2>4. /\ thisPath'.links = Append(thisPath.links, [movie |-> pred[thisActor].film, player |-> before])
        /\ thisActor' = before /\ UNCHANGED <<dist, target, step>> /\ step = "found"
    BY <1>10, <2>2 DEF AddConnection, addConnection, SearchTypeOK
  <2>5. dist[before] \in Nat
    BY <2>1 DEF SearchTypeOK
  <2>6. PICK n \in Nat, d \in Nat : n = Len(thisPath.links) /\ d = dist[before]
    BY <2>0, <2>5
  <2>7. Len(thisPath'.links) = n + 1
    BY <2>3, <2>4, <2>6, Zenon
  <2>8. d + (n + 1) = dist[target]
    BY <2>0, <2>1, <2>6
  <2>. QED
    BY <2>0, <2>1, <2>4, <2>6, <2>7, <2>8, Zenon DEF Walk
<1>11. CASE PrintPath
  BY <1>11 DEF PrintPath
<1>12. CASE UNCHANGED searchVars
  BY <1>12 DEF searchVars
<1>. QED
  BY <1>1, <1>2, <1>3, <1>4, <1>5, <1>6, <1>7, <1>8, <1>9, <1>10, <1>11, <1>12 DEF SearchNext
-----------------------------------------------------------------------------
\* While an actor is evaluated no one visited is more than a step further.
LEMMA OneStepFurther ==
  ASSUME IInv, Evaluating
  PROVE  NotBeyond(u) /\ \A a \in DOMAIN dist : dist[a] <= dist[u] + 1
<1>1. u \in DOMAIN dist /\ dist[u] \in Nat /\ Searching /\ queue \in Seq(Actor)
      /\ \A i \in 1 .. Len(queue) : dist[u] <= dist[queue[i]] /\ dist[queue[i]] <= dist[u] + 1
  BY DEF IInv, SearchTypeOK, QueueInOrder, Evaluating, Searching
<1>2. ASSUME NEW a \in DOMAIN dist PROVE dist[a] <= dist[u] + 1
  <2>1. CASE Evaluated(a)
    <3>1. a \in Actor /\ dist[a] \in Nat
      BY DEF IInv, SearchTypeOK
    <3>. QED
      BY <1>1, <2>1, <3>1 DEF IInv, EvaluatedFirst, NotBeyond
  <2>2. CASE InSeq(a, queue)
    BY <1>1, <2>2 DEF InSeq
  <2>3. CASE a = u
    BY <1>1, <2>3
  <2>. QED
    BY <2>1, <2>2, <2>3 DEF Evaluated
<1>. QED
  BY <1>1, <1>2 DEF NotBeyond

\* A step of the search keeps what was noted, and who is not beyond the rest.
LEMMA Kept ==
  ASSUME IInv, [SearchNext]_searchVars, Searching, Searching'
  PROVE  /\ db' = db
         /\ \A x \in DOMAIN dist : x \in DOMAIN dist' /\ dist'[x] = dist[x]
         /\ \A a \in Actor : NotBeyond(a) => NotBeyond(a)'
         /\ \A a \in Actor : Evaluated(a)' => Evaluated(a) \/ (EndOfFilms /\ a = u)
<1>. DEFINE Goal == /\ db' = db
                    /\ \A x \in DOMAIN dist : x \in DOMAIN dist' /\ dist'[x] = dist[x]
                    /\ \A a \in Actor : NotBeyond(a) => NotBeyond(a)'
                    /\ \A a \in Actor : Evaluated(a)' => Evaluated(a) \/ (EndOfFilms /\ a = u)
<1>0. queue \in Seq(Actor) /\ cast \in Seq(Actor) /\ dist \in [DOMAIN dist -> Nat]
  BY DEF IInv, SearchTypeOK
<1>1. CASE NextActor
  <2>. DEFINE h == Head(queue)
  <2>1. /\ step = "actors" /\ queue # <<>> /\ u' = h /\ queue' = Tail(queue) /\ step' = "films"
        /\ UNCHANGED <<db, dist>>
    BY <1>1 DEF NextActor, InReach, inputs, Goto
  <2>2. /\ h = queue[1] /\ 1 \in 1 .. Len(queue)
        /\ \A i \in 1 .. Len(queue') : i + 1 \in 1 .. Len(queue) /\ queue'[i] = queue[i + 1]
        /\ \A x : InSeq(x, queue) <=> x = h \/ InSeq(x, queue')
    BY <1>0, <2>1, InTail
  <2>3. \A a \in Actor : NotBeyond(a) => NotBeyond(a)'
    BY <2>1, <2>2 DEF NotBeyond, Evaluating
  <2>4. \A a \in Actor : Evaluated(a)' => Evaluated(a)
    BY <2>1, <2>2 DEF Evaluated, Evaluating
  <2>. QED
    BY <2>1, <2>3, <2>4
<1>2. CASE NoPath
  BY <1>2 DEF NoPath, NotBeyond, Evaluated, Evaluating, inputs, Goto
<1>3. CASE NextFilm
  BY <1>3 DEF NextFilm, NotBeyond, Evaluated, Evaluating, inputs, Goto
<1>4. CASE EndOfFilms
  BY <1>4 DEF EndOfFilms, NotBeyond, Evaluated, Evaluating, inputs, Goto
<1>5. CASE NextCostar
  <2>. DEFINE c == Head(cast)
  <2>1. step = "cast" /\ step' = "cast" /\ UNCHANGED <<db, u>>
    BY <1>5 DEF NextCostar, Searching, inputs, Goto
  <2>2. CASE Visited(c)
    <3>1. UNCHANGED <<queue, dist>>
      BY <1>5, <2>2 DEF NextCostar
    <3>. QED
      BY <2>1, <3>1 DEF NotBeyond, Evaluated, Evaluating
  <2>3. CASE ~Visited(c)
    <3>1. /\ c \in Actor /\ u \in DOMAIN dist /\ dist[u] \in Nat /\ c \notin DOMAIN dist
          /\ DOMAIN dist' = DOMAIN dist \cup {c} /\ dist'[c] = dist[u] + 1
          /\ \A x \in DOMAIN dist : dist'[x] = dist[x]
      BY <1>5, <2>3, Visit
    <3>2. queue' = Append(queue, c)
      BY <1>5, <2>1, <2>3 DEF NextCostar, Goto
    <3>3. /\ Len(queue') = Len(queue) + 1 /\ Len(queue) \in Nat /\ queue'[Len(queue) + 1] = c
          /\ \A i \in 1 .. Len(queue) : queue'[i] = queue[i]
          /\ \A x : InSeq(x, queue') <=> InSeq(x, queue) \/ x = c
      BY <1>0, <3>1, <3>2, InAppend
    <3>4. \A i \in 1 .. Len(queue) : queue[i] \in DOMAIN dist
      BY <2>1 DEF IInv, QueueInOrder, Searching
    <3>5. ASSUME NEW a \in Actor, NotBeyond(a) PROVE NotBeyond(a)'
      <4>1. a \in DOMAIN dist' /\ dist'[a] = dist[a] /\ dist[a] \in Nat /\ dist[a] <= dist[u]
        BY <1>0, <2>1, <3>1, <3>5 DEF NotBeyond, Evaluating
      <4>2. ASSUME NEW i \in 1 .. Len(queue') PROVE dist'[a] <= dist'[queue'[i]]
        <5>1. CASE i = Len(queue) + 1
          BY <3>1, <3>3, <4>1, <5>1
        <5>2. CASE i # Len(queue) + 1
          <6>1. i \in 1 .. Len(queue)
            BY <3>3, <5>2
          <6>. QED
            BY <3>1, <3>3, <3>4, <3>5, <4>1, <6>1 DEF NotBeyond
        <5>. QED
          BY <5>1, <5>2
      <4>. QED
        BY <2>1, <3>1, <4>1, <4>2 DEF NotBeyond
    <3>6. \A a \in Actor : Evaluated(a)' => Evaluated(a)
      BY <2>1, <3>1, <3>3 DEF Evaluated, Evaluating
    <3>. QED
      BY <2>1, <3>1, <3>5, <3>6
  <2>. QED
    BY <2>2, <2>3
<1>6. CASE EndOfCast
  BY <1>6 DEF EndOfCast, NotBeyond, Evaluated, Evaluating, inputs, Goto
<1>7. CASE UNCHANGED searchVars
  BY <1>7 DEF searchVars, NotBeyond, Evaluated, Evaluating, inputs
<1>8. CASE Refuse \/ BeginSearch \/ ReadPastTheEnd \/ AddConnection \/ PrintPath
  BY <1>8 DEF Refuse, BeginSearch, ReadPastTheEnd, AddConnection, PrintPath, Searching, Goto
<1>. QED
  BY <1>1, <1>2, <1>3, <1>4, <1>5, <1>6, <1>7, <1>8 DEF SearchNext

\* A cast that was within a step of someone stays within it.
LEMMA CastKept ==
  ASSUME IInv, [SearchNext]_searchVars, Searching, Searching',
         NEW f, NEW e \in DOMAIN dist, CastWithin(f, dist[e] + 1)
  PROVE  CastWithin(f, dist[e] + 1)'
BY Kept DEF CastWithin
-----------------------------------------------------------------------------
\* A search goes on, or begins with the source alone.
LEMMA Begins ==
  ASSUME [SearchNext]_searchVars, Searching', ~Searching
  PROVE  BeginSearch
BY DEF SearchNext, searchVars, Searching, Goto,
       Refuse, NextActor, ReadPastTheEnd, NoPath, NextFilm, EndOfFilms, NextCostar, EndOfCast,
       AddConnection, PrintPath

LEMMA Beginning ==
  ASSUME BeginSearch
  PROVE  /\ step' = "actors" /\ queue' = <<source>> /\ source' = source /\ DOMAIN dist' = {source}
         /\ dist'[source] = 0 /\ visited_films' = visited_films /\ step = "main"
BY DEF BeginSearch, Goto, inputs

\* Every step keeps the queue in order.
LEMMA QueueStep == IInv /\ [SearchNext]_searchVars => QueueInOrder'
<1>. SUFFICES ASSUME IInv, [SearchNext]_searchVars, Searching' PROVE QueueInOrder'
  BY DEF QueueInOrder
<1>0. queue \in Seq(Actor) /\ cast \in Seq(Actor) /\ dist \in [DOMAIN dist -> Nat]
  BY DEF IInv, SearchTypeOK
<1>1. CASE ~Searching
  <2>1. Len(queue') = 1 /\ queue'[1] = source /\ step' = "actors"
        /\ DOMAIN dist' = {source} /\ dist'[source] = 0
    BY <1>1, Begins, Beginning
  <2>. QED
    BY <2>1 DEF QueueInOrder, Evaluating
<1>. SUFFICES ASSUME Searching PROVE QueueInOrder'
  BY <1>1
<1>2. /\ \A i \in 1 .. Len(queue) : queue[i] \in DOMAIN dist
      /\ \A i, j \in 1 .. Len(queue) :
           (i <= j => dist[queue[i]] <= dist[queue[j]]) /\ dist[queue[j]] <= dist[queue[i]] + 1
      /\ Evaluating =>
           /\ u \in DOMAIN dist
           /\ \A i \in 1 .. Len(queue) : dist[u] <= dist[queue[i]] /\ dist[queue[i]] <= dist[u] + 1
  BY DEF IInv, QueueInOrder
<1>3. CASE NextActor
  <2>1. /\ queue # <<>> /\ u' = Head(queue) /\ queue' = Tail(queue) /\ UNCHANGED dist
    BY <1>3 DEF NextActor, InReach
  <2>2. /\ u' = queue[1] /\ 1 \in 1 .. Len(queue) /\ Len(queue) \in Nat /\ Len(queue') = Len(queue) - 1
        /\ \A i \in 1 .. Len(queue') : i + 1 \in 1 .. Len(queue) /\ queue'[i] = queue[i + 1]
    BY <1>0, <2>1, InTail
  <2>. QED
    BY <1>2, <2>1, <2>2 DEF QueueInOrder
<1>4. CASE NextCostar /\ ~Visited(Head(cast))
  <2>. DEFINE c == Head(cast)
  <2>1. step = "cast" /\ UNCHANGED u /\ queue' = Append(queue, c)
    BY <1>4 DEF NextCostar, Searching, Goto
  <2>2. /\ c \in Actor /\ u \in DOMAIN dist /\ dist[u] \in Nat /\ c \notin DOMAIN dist
        /\ DOMAIN dist' = DOMAIN dist \cup {c} /\ dist'[c] = dist[u] + 1
        /\ \A x \in DOMAIN dist : dist'[x] = dist[x]
    BY <1>4, Visit
  <2>3. /\ Len(queue') = Len(queue) + 1 /\ Len(queue) \in Nat /\ queue'[Len(queue) + 1] = c
        /\ \A i \in 1 .. Len(queue) : queue'[i] = queue[i]
    BY <1>0, <2>1, <2>2, InAppend
  <2>4. ASSUME NEW i \in 1 .. Len(queue')
        PROVE  /\ queue'[i] \in DOMAIN dist' /\ dist'[queue'[i]] \in Nat
               /\ dist[u] <= dist'[queue'[i]] /\ dist'[queue'[i]] <= dist[u] + 1
               /\ i = Len(queue) + 1 => dist'[queue'[i]] = dist[u] + 1
               /\ i # Len(queue) + 1 => i \in 1 .. Len(queue) /\ dist'[queue'[i]] = dist[queue[i]]
    <3>1. CASE i = Len(queue) + 1
      BY <2>2, <2>3, <3>1
    <3>2. CASE i # Len(queue) + 1
      <4>1. i \in 1 .. Len(queue)
        BY <2>3, <3>2
      <4>2. queue'[i] = queue[i] /\ queue[i] \in DOMAIN dist
        BY <1>2, <2>3, <4>1
      <4>. QED
        BY <1>0, <1>2, <2>1, <2>2, <3>2, <4>1, <4>2 DEF Evaluating
    <3>. QED
      BY <3>1, <3>2
  <2>5. ASSUME NEW i \in 1 .. Len(queue'), NEW j \in 1 .. Len(queue')
        PROVE  (i <= j => dist'[queue'[i]] <= dist'[queue'[j]]) /\ dist'[queue'[j]] <= dist'[queue'[i]] + 1
    <3>1. dist'[queue'[j]] <= dist'[queue'[i]] + 1
      BY <2>2, <2>4
    <3>2. ASSUME i <= j PROVE dist'[queue'[i]] <= dist'[queue'[j]]
      <4>1. CASE j = Len(queue) + 1
        BY <2>2, <2>4, <4>1
      <4>2. CASE j # Len(queue) + 1
        <5>1. i # Len(queue) + 1
          BY <2>3, <3>2, <4>2
        <5>. QED
          BY <1>2, <2>4, <3>2, <4>2, <5>1
      <4>. QED
        BY <4>1, <4>2
    <3>. QED
      BY <3>1, <3>2
  <2>. QED
    BY <2>1, <2>2, <2>4, <2>5 DEF QueueInOrder
<1>5. CASE NextCostar /\ Visited(Head(cast))
  BY <1>2, <1>5 DEF NextCostar, QueueInOrder, Evaluating
<1>6. CASE NextFilm \/ NoPath \/ EndOfFilms \/ EndOfCast
  BY <1>2, <1>6 DEF NextFilm, NoPath, EndOfFilms, EndOfCast, QueueInOrder, Evaluating, Goto
<1>7. CASE UNCHANGED searchVars
  BY <1>2, <1>7 DEF searchVars, QueueInOrder, Evaluating
<1>8. CASE Refuse \/ BeginSearch \/ ReadPastTheEnd \/ AddConnection \/ PrintPath
  BY <1>8 DEF Refuse, BeginSearch, ReadPastTheEnd, AddConnection, PrintPath, Searching, Goto
<1>. QED
  BY <1>3, <1>4, <1>5, <1>6, <1>7, <1>8 DEF SearchNext

\* Every step evaluates the nearest first.
LEMMA EvaluatedStep == IInv /\ [SearchNext]_searchVars => EvaluatedFirst'
<1>. SUFFICES ASSUME IInv, [SearchNext]_searchVars, Searching', NEW a \in Actor, Evaluated(a)'
              PROVE  NotBeyond(a)'
  BY DEF EvaluatedFirst
<1>1. CASE ~Searching
  <2>1. queue' = <<source>> /\ DOMAIN dist' = {source}
    BY <1>1, Begins, Beginning
  <2>2. Len(queue') = 1 /\ queue'[1] = source
    BY <2>1
  <2>. QED
    BY <2>1, <2>2 DEF Evaluated, InSeq
<1>2. CASE Searching /\ Evaluated(a)
  BY <1>2, Kept DEF IInv, EvaluatedFirst
<1>3. CASE Searching /\ EndOfFilms /\ a = u
  BY <1>3, Kept, OneStepFurther DEF EndOfFilms, Evaluating
<1>. QED
  BY <1>1, <1>2, <1>3, Kept

\* What the loop over a cast that has ended leaves behind.
LEMMA CastEnded ==
  ASSUME IInv, EndOfCast
  PROVE  CastWithin(movie, dist[u] + 1) /\ NotBeyond(u) /\ u \in Actor
<1>1. step = "cast" /\ cast = <<>>
  BY DEF EndOfCast
<1>2. \A b \in Actor : ~InSeq(b, cast)
  BY <1>1 DEF InSeq
<1>. QED
  BY <1>1, <1>2, OneStepFurther DEF IInv, Loops, CastWithin, Evaluating, SearchTypeOK

\* Every step leaves a film looked at with someone near it was looked at for.
LEMMA FilmsStep == IInv /\ [SearchNext]_searchVars => FilmsLookedAt'
<1>. SUFFICES ASSUME IInv, [SearchNext]_searchVars, Searching', NEW f \in visited_films',
                     ~(step' = "cast" /\ f = movie')
              PROVE  \E e \in Actor : NotBeyond(e)' /\ CastWithin(f, dist[e] + 1)'
  <2>1. IInv /\ [SearchNext]_searchVars => step' # "main" \/ visited_films' = {}
    BY DEF SearchNext, searchVars, Goto, IInv, FilmsLookedAt,
         Refuse, BeginSearch, NextActor, ReadPastTheEnd, NoPath, NextFilm, EndOfFilms, NextCostar,
         EndOfCast, AddConnection, PrintPath
  <2>. QED
    BY <2>1 DEF FilmsLookedAt
<1>1. CASE ~Searching
  <2>1. visited_films' = visited_films /\ step = "main"
    BY <1>1, Begins, Beginning
  <2>. QED
    BY <2>1 DEF IInv, FilmsLookedAt
<1>2. CASE Searching /\ \E e \in Actor : NotBeyond(e) /\ CastWithin(f, dist[e] + 1)
  <2>1. PICK e \in Actor : NotBeyond(e) /\ CastWithin(f, dist[e] + 1)
    BY <1>2
  <2>2. e \in DOMAIN dist
    BY <2>1 DEF NotBeyond
  <2>. QED
    BY <1>2, <2>1, <2>2, Kept, CastKept
<1>3. CASE Searching /\ EndOfCast /\ f = movie
  <2>1. PICK e \in Actor : NotBeyond(e) /\ CastWithin(f, dist[e] + 1)
    BY <1>3, CastEnded
  <2>2. e \in DOMAIN dist
    BY <2>1 DEF NotBeyond
  <2>. QED
    BY <1>3, <2>1, <2>2, Kept, CastKept
<1>4. Searching => f \in visited_films \/ (step' = "cast" /\ f = movie')
  BY DEF SearchNext, searchVars, Searching, Goto,
       Refuse, BeginSearch, NextActor, ReadPastTheEnd, NoPath, NextFilm, EndOfFilms, NextCostar,
       EndOfCast, AddConnection, PrintPath
<1>5. Searching /\ step = "cast" /\ f = movie => EndOfCast
  BY DEF SearchNext, searchVars, Searching, Goto,
       Refuse, BeginSearch, NextActor, ReadPastTheEnd, NoPath, NextFilm, EndOfFilms, NextCostar,
       EndOfCast, AddConnection, PrintPath
<1>. QED
  BY <1>1, <1>2, <1>3, <1>4, <1>5 DEF IInv, FilmsLookedAt

\* Every step leaves the loops where their remaining credits and cast say.
LEMMA LoopsStep == IInv /\ [SearchNext]_searchVars => Loops'
<1>. SUFFICES ASSUME IInv, [SearchNext]_searchVars PROVE Loops'
  OBVIOUS
<1>0. /\ credits \in Seq(Film) /\ cast \in Seq(Actor) /\ queue \in Seq(Actor)
      /\ dist \in [DOMAIN dist -> Nat] /\ u \in Actor
  BY DEF IInv, SearchTypeOK
<1>1. CASE NextActor
  BY <1>1 DEF NextActor, Loops, InSeq, inputs, Goto
<1>2. CASE NextFilm
  <2>. DEFINE h == Head(credits)
  <2>1. /\ step = "films" /\ credits # <<>> /\ credits' = Tail(credits)
        /\ UNCHANGED <<db, dist, u>>
    BY <1>2 DEF NextFilm, inputs
  <2>2. /\ h \in Film /\ h = credits[1] /\ 1 \in 1 .. Len(credits)
        /\ \A i \in 1 .. Len(credits') : i + 1 \in 1 .. Len(credits) /\ credits'[i] = credits[i + 1]
        /\ \A x : InSeq(x, credits) <=> x = h \/ InSeq(x, credits')
    BY <1>0, <2>1, InTail
  <2>3. /\ \A i \in 1 .. Len(credits) : InSeq(credits[i], db.credits[u])
        /\ \A f \in Film : InSeq(f, db.credits[u]) => InSeq(f, credits) \/ CastWithin(f, dist[u] + 1)
    BY <2>1 DEF IInv, Loops, Evaluating
  <2>4. \A i \in 1 .. Len(credits') : InSeq(credits'[i], db'.credits[u'])
    BY <2>1, <2>2, <2>3
  <2>5. CASE h \in visited_films
    <3>1. step' = "films"
      BY <1>2, <2>1, <2>5 DEF NextFilm
    <3>2. PICK e \in Actor : NotBeyond(e) /\ CastWithin(h, dist[e] + 1)
      BY <2>1, <2>5 DEF IInv, FilmsLookedAt, Searching
    <3>3. e \in DOMAIN dist /\ u \in DOMAIN dist /\ dist[e] <= dist[u]
      BY <2>1, <3>2, OneStepFurther DEF NotBeyond, Evaluating
    <3>4. CastWithin(h, dist[u] + 1)
      BY <1>0, <3>2, <3>3 DEF CastWithin
    <3>5. \A f \in Film : InSeq(f, db.credits[u]) => InSeq(f, credits') \/ CastWithin(f, dist[u] + 1)
      BY <2>2, <2>3, <3>4
    <3>. QED
      BY <2>1, <2>4, <3>1, <3>5 DEF Loops, Evaluating, CastWithin
  <2>6. CASE h \notin visited_films
    <3>1. step' = "cast" /\ movie' = h /\ cast' = db.cast[h]
      BY <1>2, <2>6 DEF NextFilm, Goto
    <3>2. InSeq(h, db.credits[u])
      BY <2>2, <2>3
    <3>3. \A f \in Film : InSeq(f, db.credits[u]) => InSeq(f, credits') \/ f = h \/ CastWithin(f, dist[u] + 1)
      BY <2>2, <2>3
    <3>. QED
      BY <2>1, <2>4, <3>1, <3>2, <3>3 DEF Loops, Evaluating, CastWithin, InSeq
  <2>. QED
    BY <2>5, <2>6
<1>3. CASE NextCostar
  <2>. DEFINE c == Head(cast)
  <2>1. /\ step = "cast" /\ cast # <<>> /\ cast' = Tail(cast)
        /\ UNCHANGED <<db, u, credits, movie>> /\ step' \in {"cast", "found"}
    BY <1>3 DEF NextCostar, inputs, Goto
  <2>2. /\ c \in Actor /\ \A x : InSeq(x, cast) <=> x = c \/ InSeq(x, cast')
        /\ \A i \in 1 .. Len(cast') : i + 1 \in 1 .. Len(cast) /\ cast'[i] = cast[i + 1]
    BY <1>0, <2>1, InTail
  <2>3. u \in DOMAIN dist /\ dist[u] \in Nat
    BY <1>0, <2>1, OneStepFurther DEF NotBeyond, Evaluating
  <2>4. /\ \A x \in DOMAIN dist : x \in DOMAIN dist' /\ dist'[x] = dist[x]
        /\ c \in DOMAIN dist' /\ dist'[c] <= dist[u] + 1
    <3>1. CASE Visited(c)
      BY <1>3, <2>1, <3>1, OneStepFurther DEF NextCostar, Visited, Evaluating
    <3>2. CASE ~Visited(c)
      BY <1>3, <2>3, <3>2, Visit
    <3>. QED
      BY <3>1, <3>2
  <2>5. /\ \A i \in 1 .. Len(credits) : InSeq(credits[i], db.credits[u])
        /\ \A f \in Film : InSeq(f, db.credits[u]) =>
             InSeq(f, credits) \/ f = movie \/ CastWithin(f, dist[u] + 1)
        /\ InSeq(movie, db.credits[u])
        /\ \A i \in 1 .. Len(cast) : InSeq(cast[i], db.cast[movie])
        /\ \A b \in Actor : InSeq(b, db.cast[movie]) =>
             InSeq(b, cast) \/ (b \in DOMAIN dist /\ dist[b] <= dist[u] + 1)
    BY <2>1 DEF IInv, Loops, Evaluating
  <2>6. \A f \in Film : InSeq(f, db.credits[u]) =>
          InSeq(f, credits) \/ f = movie \/ CastWithin(f, dist[u] + 1)'
    BY <2>1, <2>3, <2>4, <2>5 DEF CastWithin
  <2>7. \A b \in Actor : InSeq(b, db.cast[movie]) =>
          InSeq(b, cast') \/ (b \in DOMAIN dist' /\ dist'[b] <= dist'[u] + 1)
    BY <2>2, <2>3, <2>4, <2>5
  <2>8. \A i \in 1 .. Len(cast') : InSeq(cast'[i], db.cast[movie])
    BY <2>2, <2>5
  <2>. QED
    BY <2>1, <2>5, <2>6, <2>7, <2>8 DEF Loops, Evaluating
<1>4. CASE EndOfCast
  <2>1. step = "cast" /\ step' = "films" /\ UNCHANGED <<db, dist, u, credits>>
    BY <1>4 DEF EndOfCast, inputs, Goto
  <2>2. \A f \in Film : InSeq(f, db.credits[u]) => InSeq(f, credits) \/ CastWithin(f, dist[u] + 1)
    BY <1>4, <2>1, CastEnded DEF IInv, Loops, Evaluating
  <2>. QED
    BY <2>1, <2>2 DEF IInv, Loops, Evaluating, CastWithin
<1>5. CASE Refuse \/ BeginSearch \/ ReadPastTheEnd \/ NoPath \/ EndOfFilms \/ AddConnection \/ PrintPath
  BY <1>5 DEF Refuse, BeginSearch, ReadPastTheEnd, NoPath, EndOfFilms, AddConnection, PrintPath,
              Loops, Evaluating, Goto
<1>6. CASE UNCHANGED searchVars
  BY <1>6 DEF searchVars, inputs, IInv, Loops, Evaluating, CastWithin
<1>. QED
  BY <1>1, <1>2, <1>3, <1>4, <1>5, <1>6 DEF SearchNext

\* Every step leaves the costars of who was evaluated within a step.
LEMMA NeighboursStep == IInv /\ [SearchNext]_searchVars => Neighbours'
<1>. SUFFICES ASSUME IInv, [SearchNext]_searchVars, Searching',
                     NEW a \in Actor, NEW f \in Film, Evaluated(a)', InSeq(f, db'.credits[a])
              PROVE  CastWithin(f, dist[a] + 1)'
  BY DEF Neighbours
<1>1. CASE ~Searching
  <2>1. queue' = <<source>> /\ DOMAIN dist' = {source}
    BY <1>1, Begins, Beginning
  <2>2. Len(queue') = 1 /\ queue'[1] = source
    BY <2>1
  <2>. QED
    BY <2>1, <2>2 DEF Evaluated, InSeq
<1>2. CASE Searching
  <2>1. a \in DOMAIN dist /\ CastWithin(f, dist[a] + 1)
    <3>1. CASE Evaluated(a)
      BY <1>2, <3>1, Kept DEF IInv, Neighbours, Evaluated
    <3>2. CASE EndOfFilms /\ a = u
      <4>1. step = "films" /\ ~InSeq(f, credits)
        BY <3>2 DEF EndOfFilms, InSeq
      <4>2. InSeq(f, db.credits[u])
        BY <1>2, <3>2, Kept
      <4>. QED
        BY <3>2, <4>1, <4>2, OneStepFurther DEF IInv, Loops, Evaluating, NotBeyond
    <3>. QED
      BY <1>2, <3>1, <3>2, Kept
  <2>. QED
    BY <1>2, <2>1, CastKept
<1>. QED
  BY <1>1, <1>2
-----------------------------------------------------------------------------
\* The invariant holds in every state of every search.
THEOREM Invariance == SearchSpec => []IInv
<1>1. IInv /\ [SearchNext]_searchVars => IInv'
  BY TypeStep, PredecessorsStep, WalkStep, QueueStep, EvaluatedStep, FilmsStep, LoopsStep,
     NeighboursStep DEF IInv
<1>. QED
  BY <1>1, Initially, PTL DEF SearchSpec

\* Every variable keeps its type: the walk back of printShortestPath never asks for
\* the predecessor of an actor who has none.
THEOREM TypeCorrectness == SearchSpec => []SearchTypeOK
<1>1. IInv => SearchTypeOK
  BY DEF IInv
<1>. QED
  BY <1>1, Invariance, PTL

\* Every distance is one more than the predecessor's, over a film they share, and
\* costars of an actor evaluated are at most a step further than he is.
THEOREM DistancesAreRight == SearchSpec => []NoShortcut
<1>1. IInv => NoShortcut
  <2>. SUFFICES ASSUME IInv, step \notin {"main", "refused"} PROVE NoShortcut
    BY DEF NoShortcut
  <2>1. ASSUME step \in {"actors", "none"}, NEW a \in DOMAIN dist, ~InSeq(a, queue),
               NEW f \in Film, NEW b \in Actor, InSeq(f, db.credits[a]), InSeq(b, db.cast[f])
        PROVE  b \in DOMAIN dist /\ dist[b] <= dist[a] + 1
    <3>1. a \in Actor /\ Evaluated(a) /\ Searching
      BY <2>1 DEF IInv, SearchTypeOK, Evaluated, Evaluating, Searching
    <3>. QED
      BY <2>1, <3>1 DEF IInv, Neighbours, CastWithin
  <2>. QED
    BY <2>1 DEF IInv, Predecessors, NoShortcut
<1>. QED
  BY <1>1, Invariance, PTL

-----------------------------------------------------------------------------
(* What the search answers: the path it prints is a path, no shorter one       *)
(* exists, and none is missed.                                                 *)

(* The length asked for bounds every distance, and the target ends the search. *)
Bounds ==
  /\ step \notin {"main", "refused"} => LengthIsLegal
  /\ Evaluating => dist[u] < maxLength
  /\ Searching => target \notin DOMAIN dist
  /\ step \in {"found", "printed"} => target \in DOMAIN dist /\ dist[target] \in 1 .. maxLength

Shortest ==
  /\ step = "none" => \A k \in 0 .. maxLength : ~Connected(k)
  /\ step \in {"found", "printed"} => \A k \in 0 .. dist[target] - 1 : ~Connected(k)

Player(p, i) == IF i = 0 THEN p.startPlayer ELSE p.links[i].player

\* Film i of the path has player i in its credits and the one before him in its cast.
Backwards(p) ==
  \A i \in 1 .. Len(p.links) :
    InSeq(p.links[i].movie, db.credits[Player(p, i)]) /\ InSeq(Player(p, i - 1), db.cast[p.links[i].movie])

\* The same with the path turned round.
Forwards(p) ==
  \A i \in 1 .. Len(p.links) :
    InSeq(p.links[i].movie, db.credits[Player(p, i - 1)]) /\ InSeq(Player(p, i), db.cast[p.links[i].movie])

PathLinks ==
  /\ step # "printed" =>
       /\ thisPath.startPlayer = target /\ getLastPlayer(thisPath) = thisActor
       /\ Backwards(thisPath)
  /\ step = "printed" =>
       /\ Len(thisPath.links) = dist[target]
       /\ thisPath.startPlayer = source /\ Player(thisPath, Len(thisPath.links)) = target
       /\ Forwards(thisPath)

AInv == Bounds /\ Shortest /\ PathLinks
-------------------------------------------------------------------------------
\* If all who are nearer than d were evaluated, a chain of up to d films leads to
\* someone visited: its first actor who breaks that would be a costar of one who does not.
LEMMA ChainsAreVisited ==
  ASSUME IInv, Searching, NEW d \in Nat,
         \A a \in DOMAIN dist : dist[a] < d => Evaluated(a),
         NEW k \in 0 .. d, Connected(k)
  PROVE  target \in DOMAIN dist
<1>1. PICK p \in [0 .. k -> Actor] :
        p[0] = source /\ p[k] = target /\ \A i \in 1 .. k : Share(p[i - 1], p[i])
  BY DEF Connected
<1>. DEFINE Good(i) == p[i] \in DOMAIN dist /\ dist[p[i]] <= i
            T == {i \in 0 .. k : ~Good(i)}
<1>2. k \in Nat /\ k <= d /\ \A a \in DOMAIN dist : a \in Actor /\ dist[a] \in Nat
  BY DEF IInv, SearchTypeOK
<1>3. CASE T = {}
  <2>1. k \in 0 .. k
    BY <1>2
  <2>. QED
    BY <1>1, <1>3, <2>1
<1>4. CASE T # {}
  <2>1. T \subseteq Nat
    BY <1>2
  <2>2. PICK x \in T : \A y \in T : x <= y
    <3>. HIDE DEF T
    <3>. QED
      BY <1>4, <2>1, LeastNatural
  <2>3. x # 0
    <3>1. source \in DOMAIN dist /\ dist[source] = 0
      BY DEF IInv, Predecessors, Searching
    <3>. QED
      BY <1>1, <2>2, <3>1
  <2>4. x \in 1 .. k /\ x - 1 \in 0 .. k /\ ~(x <= x - 1)
    BY <1>2, <2>2, <2>3
  <2>5. Good(x - 1)
    BY <2>2, <2>4
  <2>6. dist[p[x - 1]] < d /\ dist[p[x - 1]] \in Nat /\ p[x - 1] \in DOMAIN dist /\ dist[p[x - 1]] <= x - 1
    BY <1>2, <2>4, <2>5
  <2>7. Evaluated(p[x - 1]) /\ p[x - 1] \in Actor /\ p[x] \in Actor
    BY <1>2, <2>4, <2>6
  <2>8. PICK f \in Film : InSeq(f, db.credits[p[x - 1]]) /\ InSeq(p[x], db.cast[f])
    BY <1>1, <2>4 DEF Share
  <2>9. p[x] \in DOMAIN dist /\ dist[p[x]] <= dist[p[x - 1]] + 1
    BY <2>7, <2>8 DEF IInv, Neighbours, CastWithin
  <2>10. Good(x)
    BY <1>2, <2>4, <2>6, <2>9
  <2>. QED
    BY <2>2, <2>10
<1>. QED
  BY <1>3, <1>4

\* When a costar is noted, all who are nearer than the actor evaluated were evaluated.
LEMMA NearerWhileEvaluating ==
  ASSUME IInv, Evaluating
  PROVE  u \in DOMAIN dist /\ dist[u] \in Nat /\ \A a \in DOMAIN dist : dist[a] < dist[u] => Evaluated(a)
<1>1. u \in DOMAIN dist /\ \A a \in DOMAIN dist : dist[a] \in Nat
  BY OneStepFurther DEF NotBeyond, IInv, SearchTypeOK
<1>2. \A i \in 1 .. Len(queue) : dist[u] <= dist[queue[i]]
  BY OneStepFurther DEF NotBeyond
<1>3. ASSUME NEW a \in DOMAIN dist, dist[a] < dist[u] PROVE Evaluated(a)
  <2>1. a # u
    BY <1>1, <1>3
  <2>2. ~InSeq(a, queue)
    BY <1>1, <1>2, <1>3 DEF InSeq
  <2>. QED
    BY <2>1, <2>2 DEF Evaluated
<1>. QED
  BY <1>1, <1>3

\* When the search gives up, all who are nearer than the length asked for were evaluated.
LEMMA NearerAtTheEnd ==
  ASSUME IInv, Bounds, NoPath
  PROVE  \A a \in DOMAIN dist : dist[a] < maxLength => Evaluated(a)
<1>1. step = "actors" /\ ~InReach
  BY DEF NoPath
<1>2. /\ queue \in Seq(Actor) /\ maxLength \in Nat
      /\ \A a \in DOMAIN dist : dist[a] \in Nat
      /\ \A i \in 1 .. Len(queue) : queue[i] \in DOMAIN dist
      /\ \A i, j \in 1 .. Len(queue) : i <= j => dist[queue[i]] <= dist[queue[j]]
  <2>1. maxLength \in Nat
    BY <1>1, SearchAssumption DEF Bounds, LengthIsLegal
  <2>2. /\ \A i \in 1 .. Len(queue) : queue[i] \in DOMAIN dist
        /\ \A i, j \in 1 .. Len(queue) : i <= j => dist[queue[i]] <= dist[queue[j]]
    BY <1>1 DEF IInv, QueueInOrder, Searching
  <2>. QED
    BY <2>1, <2>2 DEF IInv, SearchTypeOK
<1>3. ASSUME NEW i \in 1 .. Len(queue) PROVE dist[queue[i]] >= maxLength
  <2>1. queue # <<>> /\ Len(queue) \in Nat
    BY <1>2, <1>3
  <2>2. queue[1] = Head(queue) /\ 1 \in 1 .. Len(queue) /\ 1 <= i
    BY <1>2, <2>1, InTail
  <2>3. dist[queue[1]] >= maxLength /\ dist[queue[1]] <= dist[queue[i]]
    BY <1>1, <1>2, <2>1, <2>2 DEF InReach
  <2>4. dist[queue[1]] \in Nat /\ dist[queue[i]] \in Nat
    BY <1>2, <2>2
  <2>. QED
    BY <1>2, <2>3, <2>4
<1>4. ASSUME NEW a \in DOMAIN dist, dist[a] < maxLength PROVE Evaluated(a)
  <2>1. ~InSeq(a, queue)
    BY <1>2, <1>3, <1>4 DEF InSeq
  <2>. QED
    BY <1>1, <2>1 DEF Evaluated, Evaluating
<1>. QED
  BY <1>4
-------------------------------------------------------------------------------
\* No step changes what was asked.
LEMMA InputsKept ==
  ASSUME [SearchNext]_searchVars
  PROVE  /\ db' = db /\ source' = source /\ target' = target /\ maxLength' = maxLength
         /\ \A k : Connected(k)' <=> Connected(k)
<1>1. db' = db /\ source' = source /\ target' = target /\ maxLength' = maxLength
  BY DEF SearchNext, searchVars, inputs,
         Refuse, BeginSearch, NextActor, ReadPastTheEnd, NoPath, NextFilm, EndOfFilms, NextCostar,
         EndOfCast, AddConnection, PrintPath
<1>. QED
  BY <1>1 DEF Connected, Share

\* Every step keeps the distances within the length asked for.
LEMMA BoundsStep == IInv /\ AInv /\ [SearchNext]_searchVars => Bounds'
<1>. SUFFICES ASSUME IInv, AInv, [SearchNext]_searchVars PROVE Bounds'
  OBVIOUS
<1>. USE DEF AInv, Bounds, Evaluating, Searching, LengthIsLegal, inputs, Goto
<1>1. CASE Refuse
  BY <1>1 DEF Refuse
<1>2. CASE BeginSearch
  BY <1>2 DEF BeginSearch
<1>3. CASE NextActor
  BY <1>3 DEF NextActor, InReach
<1>4. CASE ReadPastTheEnd
  BY <1>4 DEF ReadPastTheEnd
<1>5. CASE NoPath
  BY <1>5 DEF NoPath
<1>6. CASE NextFilm
  BY <1>6 DEF NextFilm
<1>7. CASE EndOfFilms
  BY <1>7 DEF EndOfFilms
<1>8. CASE NextCostar
  <2>. DEFINE c == Head(cast)
  <2>1. step = "cast" /\ step' \in {"cast", "found"} /\ UNCHANGED <<u, target, maxLength>>
    BY <1>8 DEF NextCostar
  <2>2. CASE Visited(c)
    BY <1>8, <2>1, <2>2 DEF NextCostar
  <2>3. CASE ~Visited(c)
    <3>1. /\ u \in DOMAIN dist /\ dist[u] \in Nat /\ dist[u] < maxLength /\ maxLength \in Int
          /\ DOMAIN dist' = DOMAIN dist \cup {c} /\ dist'[c] = dist[u] + 1 /\ dist'[u] = dist[u]
      BY <1>8, <2>1, <2>3, Visit DEF IInv, SearchTypeOK
    <3>2. step' = "found" <=> c = target
      BY <1>8, <2>1, <2>3 DEF NextCostar
    <3>3. target \notin DOMAIN dist /\ maxLength \in 1 .. kMaxDegreeOfSeparation
      BY <2>1
    <3>. QED
      BY <2>1, <3>1, <3>2, <3>3
  <2>. QED
    BY <2>2, <2>3
<1>9. CASE EndOfCast
  BY <1>9 DEF EndOfCast
<1>10. CASE AddConnection
  BY <1>10 DEF AddConnection
<1>11. CASE PrintPath
  BY <1>11 DEF PrintPath
<1>12. CASE UNCHANGED searchVars
  BY <1>12 DEF searchVars
<1>. QED
  BY <1>1, <1>2, <1>3, <1>4, <1>5, <1>6, <1>7, <1>8, <1>9, <1>10, <1>11, <1>12 DEF SearchNext

\* A target is found, or given up, only when no chain as short leads to it.
LEMMA ShortestStep == IInv /\ AInv /\ [SearchNext]_searchVars => Shortest'
<1>. SUFFICES ASSUME IInv, AInv, [SearchNext]_searchVars PROVE Shortest'
  OBVIOUS
<1>1. CASE NoPath
  <2>1. step = "actors" /\ step' = "none"
    BY <1>1 DEF NoPath, Goto
  <2>2. maxLength \in Nat /\ target \notin DOMAIN dist
    BY <2>1, SearchAssumption DEF AInv, Bounds, LengthIsLegal, Searching
  <2>3. \A k \in 0 .. maxLength : ~Connected(k)
    BY <1>1, <2>1, <2>2, ChainsAreVisited, NearerAtTheEnd DEF AInv, Searching
  <2>. QED
    BY <2>1, <2>3, InputsKept DEF Shortest
<1>2. CASE NextCostar
  <2>. DEFINE c == Head(cast)
  <2>1. step = "cast" /\ step' \in {"cast", "found"}
    BY <1>2 DEF NextCostar, Goto
  <2>2. CASE step' = "found"
    <3>1. c = target /\ ~Visited(c)
      BY <1>2, <2>1, <2>2 DEF NextCostar, Goto
    <3>2. dist'[target] = dist[u] + 1 /\ dist[u] \in Nat /\ target \notin DOMAIN dist
      BY <1>2, <3>1, Visit
    <3>3. \A k \in 0 .. dist[u] : ~Connected(k)
      BY <2>1, <3>2, ChainsAreVisited, NearerWhileEvaluating DEF Searching, Evaluating
    <3>4. 0 .. dist'[target] - 1 = 0 .. dist[u]
      BY <3>2
    <3>. QED
      BY <2>2, <3>3, <3>4, InputsKept DEF Shortest
  <2>3. CASE step' = "cast"
    BY <2>3 DEF Shortest
  <2>. QED
    BY <2>1, <2>2, <2>3
<1>3. CASE \/ Refuse \/ BeginSearch \/ NextActor \/ ReadPastTheEnd \/ NextFilm \/ EndOfFilms \/ EndOfCast
  BY <1>3 DEF Refuse, BeginSearch, NextActor, ReadPastTheEnd, NextFilm, EndOfFilms, EndOfCast,
              Goto, Shortest
<1>4. CASE \/ AddConnection \/ PrintPath \/ UNCHANGED searchVars
  <2>1. dist' = dist /\ target' = target /\ maxLength' = maxLength
        /\ (step' = "none" => step = "none")
        /\ (step' \in {"found", "printed"} => step \in {"found", "printed"})
    BY <1>4, InputsKept DEF AddConnection, PrintPath, searchVars, Goto
  <2>. QED
    BY <2>1, InputsKept DEF AInv, Shortest
<1>. QED
  BY <1>1, <1>2, <1>3, <1>4 DEF SearchNext

\* A connection appended goes on from the last player.
LEMMA AppendLink ==
  ASSUME NEW p \in [startPlayer : Actor, links : Seq([movie : Film, player : Actor])],
         NEW a \in Actor, NEW f \in Film, Backwards(p),
         InSeq(f, db.credits[a]), InSeq(getLastPlayer(p), db.cast[f])
  PROVE  LET q == addConnection(p, f, a)
         IN  q.startPlayer = p.startPlayer /\ getLastPlayer(q) = a /\ Backwards(q)
<1>. DEFINE q == addConnection(p, f, a)
            n == Len(p.links)
            link == [movie |-> f, player |-> a]
<1>1. q.startPlayer = p.startPlayer /\ q.links = Append(p.links, link)
  BY DEF addConnection
<1>2. /\ n \in Nat /\ Len(q.links) = n + 1 /\ q.links[n + 1] = link
      /\ \A i \in 1 .. n : q.links[i] = p.links[i]
  BY <1>1, InAppend
<1>3. q.links # <<>> /\ getLastPlayer(q) = a
  BY <1>2, EmptySeq DEF getLastPlayer
<1>4. ASSUME NEW i \in 0 .. n PROVE Player(q, i) = Player(p, i)
  BY <1>1, <1>2 DEF Player
<1>5. Player(p, n) = getLastPlayer(p)
  BY <1>2, EmptySeq DEF Player, getLastPlayer
<1>6. ASSUME NEW i \in 1 .. n + 1
      PROVE  InSeq(q.links[i].movie, db.credits[Player(q, i)])
             /\ InSeq(Player(q, i - 1), db.cast[q.links[i].movie])
  <2>1. CASE i = n + 1
    <3>1. n \in 0 .. n /\ i - 1 = n /\ i # 0
      BY <1>2, <2>1
    <3>. QED
      BY <1>2, <1>4, <1>5, <2>1, <3>1 DEF Player
  <2>2. CASE i # n + 1
    <3>1. i \in 1 .. n /\ i \in 0 .. n /\ i - 1 \in 0 .. n
      BY <1>2, <2>2
    <3>. QED
      BY <1>2, <1>4, <3>1 DEF Backwards
  <2>. QED
    BY <2>1, <2>2
<1>7. Backwards(q)
  <2>. HIDE DEF q
  <2>. QED
    BY <1>2, <1>6 DEF Backwards
<1>. QED
  BY <1>1, <1>3, <1>7

\* A path reversed leads the other way.
LEMMA ReverseLinks ==
  ASSUME NEW p \in [startPlayer : Actor, links : Seq([movie : Film, player : Actor])],
         p.links # <<>>, Backwards(p)
  PROVE  LET q == reverse(p)
         IN  /\ Len(q.links) = Len(p.links) /\ q.startPlayer = getLastPlayer(p)
             /\ Player(q, Len(q.links)) = p.startPlayer /\ Forwards(q)
<1>. DEFINE q == reverse(p)
            n == Len(p.links)
<1>1. n \in Nat \ {0}
  BY EmptySeq
<1>2. /\ q.startPlayer = getLastPlayer(p)
      /\ q.links = [i \in 1 .. n |->
                      [movie |-> p.links[n + 1 - i].movie,
                       player |-> IF i = n THEN p.startPlayer ELSE p.links[n - i].player]]
  BY DEF reverse
<1>3. Len(q.links) = n
  BY <1>1, <1>2, LenProperties
<1>4. ASSUME NEW i \in 0 .. n PROVE Player(q, i) = Player(p, n - i)
  <2>1. CASE i = 0
    BY <1>1, <1>2, <2>1 DEF Player, getLastPlayer
  <2>2. CASE i # 0
    <3>1. i \in 1 .. n /\ (i = n <=> n - i = 0)
      BY <1>1, <2>2
    <3>2. q.links[i].player = IF i = n THEN p.startPlayer ELSE p.links[n - i].player
      BY <1>2, <3>1
    <3>. QED
      BY <2>2, <3>1, <3>2 DEF Player
  <2>. QED
    BY <2>1, <2>2
<1>5. ASSUME NEW i \in 1 .. n
      PROVE  InSeq(q.links[i].movie, db.credits[Player(q, i - 1)])
             /\ InSeq(Player(q, i), db.cast[q.links[i].movie])
  <2>. DEFINE j == n + 1 - i
  <2>1. j \in 1 .. n /\ i \in 0 .. n /\ i - 1 \in 0 .. n /\ n - i = j - 1 /\ n - (i - 1) = j
    BY <1>1
  <2>2. q.links[i].movie = p.links[j].movie
    BY <1>2
  <2>3. Player(q, i) = Player(p, j - 1) /\ Player(q, i - 1) = Player(p, j)
    BY <1>4, <2>1
  <2>. QED
    BY <2>1, <2>2, <2>3 DEF Backwards
<1>6. Player(q, n) = p.startPlayer
  <2>1. n \in 0 .. n /\ n - n = 0
    BY <1>1
  <2>. QED
    BY <1>4, <2>1 DEF Player
<1>. QED
  BY <1>2, <1>3, <1>5, <1>6 DEF Forwards

\* The walk back adds a film at a time; the path printed is the walk reversed.
LEMMA PathLinksStep == IInv /\ AInv /\ [SearchNext]_searchVars => PathLinks'
<1>. SUFFICES ASSUME IInv, AInv, [SearchNext]_searchVars PROVE PathLinks'
  OBVIOUS
<1>0. /\ thisPath \in [startPlayer : Actor, links : Seq([movie : Film, player : Actor])]
      /\ \A a \in DOMAIN dist : dist[a] \in Nat
  BY DEF IInv, SearchTypeOK
<1>1. CASE AddConnection
  <2>. DEFINE a == pred[thisActor].actor
              f == pred[thisActor].film
  <2>1. /\ step = "found" /\ step' = "found" /\ UNCHANGED <<db, target>>
        /\ thisPath' = addConnection(thisPath, f, a) /\ thisActor' = a
        /\ Len(thisPath.links) < dist[target]
    BY <1>1 DEF AddConnection, inputs
  <2>2. /\ thisActor \in DOMAIN dist /\ target \in DOMAIN dist
        /\ dist[thisActor] + Len(thisPath.links) = dist[target]
    BY <2>1 DEF IInv, Walk
  <2>3. Len(thisPath.links) \in Nat
    BY <1>0
  <2>4. thisActor # source
    BY <1>0, <2>1, <2>2, <2>3 DEF IInv, Predecessors
  <2>5. /\ thisActor \in DOMAIN pred /\ InSeq(f, db.credits[a]) /\ InSeq(thisActor, db.cast[f])
    BY <2>1, <2>2, <2>4 DEF IInv, Predecessors
  <2>6. a \in Actor /\ f \in Film
    BY <2>5 DEF IInv, SearchTypeOK
  <2>7. thisPath.startPlayer = target /\ getLastPlayer(thisPath) = thisActor /\ Backwards(thisPath)
    BY <2>1 DEF AInv, PathLinks
  <2>8. /\ thisPath'.startPlayer = target /\ getLastPlayer(thisPath') = a /\ Backwards(thisPath')
    BY <1>0, <2>1, <2>5, <2>6, <2>7, AppendLink
  <2>9. Backwards(thisPath)'
    BY <2>1, <2>8 DEF Backwards, Player
  <2>. QED
    BY <2>1, <2>8, <2>9 DEF PathLinks, getLastPlayer
<1>2. CASE PrintPath
  <2>1. /\ step = "found" /\ step' = "printed" /\ UNCHANGED <<db, source, target, dist>>
        /\ thisPath' = reverse(thisPath) /\ Len(thisPath.links) = dist[target]
    BY <1>2 DEF PrintPath, inputs, Goto
  <2>2. /\ thisActor \in DOMAIN dist /\ target \in DOMAIN dist /\ dist[target] \in 1 .. maxLength
        /\ dist[thisActor] + Len(thisPath.links) = dist[target]
    BY <2>1 DEF IInv, Walk, AInv, Bounds
  <2>3. dist[thisActor] = 0 /\ thisPath.links # <<>>
    BY <1>0, <2>1, <2>2
  <2>4. thisActor = source
    <3>1. ASSUME thisActor # source PROVE FALSE
      <4>1. pred[thisActor].actor \in DOMAIN dist /\ dist[thisActor] = dist[pred[thisActor].actor] + 1
        BY <2>1, <2>2, <3>1 DEF IInv, Predecessors
      <4>. QED
        BY <1>0, <2>3, <4>1
    <3>. QED
      BY <3>1
  <2>5. thisPath.startPlayer = target /\ getLastPlayer(thisPath) = thisActor /\ Backwards(thisPath)
    BY <2>1 DEF AInv, PathLinks
  <2>6. /\ Len(thisPath'.links) = Len(thisPath.links) /\ thisPath'.startPlayer = source
        /\ Player(thisPath', Len(thisPath'.links)) = target /\ Forwards(thisPath')
    BY <1>0, <2>1, <2>3, <2>4, <2>5, ReverseLinks
  <2>7. Forwards(thisPath)' /\ Player(thisPath, Len(thisPath.links))' = target
    BY <2>1, <2>6 DEF Forwards, Player
  <2>. QED
    BY <2>1, <2>6, <2>7 DEF PathLinks
<1>3. CASE ~AddConnection /\ ~PrintPath
  <2>1. /\ UNCHANGED <<thisPath, thisActor>> /\ (step' = "printed" <=> step = "printed")
        /\ (step = "printed" => UNCHANGED dist)
    BY <1>3 DEF SearchNext, searchVars, Goto,
         Refuse, BeginSearch, NextActor, ReadPastTheEnd, NoPath, NextFilm, EndOfFilms, NextCostar,
         EndOfCast
  <2>2. UNCHANGED <<db, source, target>>
    BY InputsKept
  <2>. QED
    BY <2>1, <2>2 DEF AInv, PathLinks, Backwards, Forwards, Player, getLastPlayer
<1>. QED
  BY <1>1, <1>2, <1>3
-------------------------------------------------------------------------------
\* For every database, the path printed leads from source to target over films they and
\* those between share, is within the length asked for and as short as any; and when the
\* search says there is none, there is none that short.
THEOREM AnswersAreShortest == SearchSpec => []AnswerIsShortest
<1>1. SearchInit => AInv
  BY EmptySeq DEF SearchInit, NoLinks, AInv, Bounds, Shortest, PathLinks, Evaluating, Searching,
                  getLastPlayer, Backwards
<1>2. IInv /\ AInv /\ [SearchNext]_searchVars => AInv'
  BY BoundsStep, ShortestStep, PathLinksStep DEF AInv
<1>3. IInv /\ AInv => AnswerIsShortest
  <2>. SUFFICES ASSUME IInv, AInv PROVE AnswerIsShortest
    OBVIOUS
  <2>. DEFINE n == Len(thisPath.links)
  <2>1. CASE step = "printed"
    <3>1. /\ n = dist[target] /\ n \in 1 .. maxLength
          /\ thisPath.startPlayer = source /\ Player(thisPath, n) = target /\ Forwards(thisPath)
          /\ \A k \in 0 .. n - 1 : ~Connected(k)
      BY <2>1 DEF AInv, Bounds, Shortest, PathLinks
    <3>. QED
      BY <2>1, <3>1 DEF AnswerIsShortest, Player, Forwards
  <2>2. CASE step # "printed"
    BY <2>2 DEF AInv, Shortest, AnswerIsShortest
  <2>. QED
    BY <2>1, <2>2
<1>. QED
  BY <1>1, <1>2, <1>3, Invariance, PTL DEF SearchSpec

-------------------------------------------------------------------------------
(* imdb.cc: the padding of a record.                                            *)
\* The next multiple of 2 or 4, where there is room for just one.
LEMMA UpIs ==
  ASSUME NEW n \in Nat, NEW m \in {2, 4}, NEW k \in n .. n + m - 1, k % m = 0
  PROVE  Up(n, m) = k
<1>1. \A j \in n .. n + m - 1 : j % m = 0 => j = k
  <2>1. CASE m = 2
    BY <2>1
  <2>2. CASE m = 4
    BY <2>2
  <2>. QED
    BY <2>1, <2>2
<1>. QED
  BY <1>1, Zenon DEF Up

\* However long a name or a title is, getCount reads the count and finds the offsets
\* at the bytes where the layout of the data files puts them.
THEOREM CountsAreFound ==
  ASSUME NEW file, NEW pos, NEW payload \in Nat
  PROVE  getCount(file, pos, payload)
           = [count |-> Short(At(file, pos + CountAt(payload))), payload |-> RefsAt(payload)]
<1>1. PICK even \in Nat : even = IF payload % 2 = 1 THEN payload + 1 ELSE payload
  OBVIOUS
<1>2. even % 2 = 0 /\ even \in payload .. payload + 2 - 1
  BY <1>1
<1>3. CountAt(payload) = even
  BY <1>1, <1>2, UpIs DEF CountAt
<1>4. PICK after \in Nat : after = even + 2
  OBVIOUS
<1>5. PICK aligned \in Nat : aligned = IF after % 4 = 2 THEN after + 2 ELSE after
  OBVIOUS
<1>6. aligned % 4 = 0 /\ aligned \in after .. after + 4 - 1
  BY <1>2, <1>4, <1>5
<1>7. RefsAt(payload) = aligned
  BY <1>3, <1>4, <1>6, UpIs DEF RefsAt
<1>. QED
  BY <1>1, <1>3, <1>4, <1>5, <1>7 DEF getCount

-------------------------------------------------------------------------------
(* The data files: whatever is written to them is read.  First lists of all     *)
(* that is in a finite set, in order.                                           *)

\* A strict order that compares any two elements.
IsStrictOrder(S, R) ==
  /\ \A x \in S : <<x, x>> \notin R
  /\ \A x, y, z \in S : <<x, y>> \in R /\ <<y, z>> \in R => <<x, z>> \in R
  /\ \A x, y \in S : x # y => <<x, y>> \in R \/ <<y, x>> \in R

Enumerates(S, R, s) ==
  /\ s \in [1 .. Cardinality(S) -> S]
  /\ \A i, j \in 1 .. Cardinality(S) : i < j => <<s[i], s[j]>> \in R

\* The elements of a finite set can be put in order: each at the place after as
\* many as come before it.
LEMMA Enumeration ==
  ASSUME NEW S, IsFiniteSet(S), NEW R, IsStrictOrder(S, R)
  PROVE  \E s : Enumerates(S, R, s)
<1>. DEFINE N == Cardinality(S)
            Below(x) == {y \in S : <<y, x>> \in R}
            rank == [x \in S |-> Cardinality(Below(x)) + 1]
<1>1. N \in Nat /\ IsFiniteSet(1 .. N) /\ Cardinality(1 .. N) = N
  BY FS_CardinalityType, FS_Interval
<1>2. \A x \in S : IsFiniteSet(Below(x)) /\ Cardinality(Below(x)) \in Nat /\ Cardinality(Below(x)) < N
  <2>. TAKE x \in S
  <2>1. IsFiniteSet(S \ {x}) /\ Cardinality(S \ {x}) = N - 1
    BY FS_RemoveElement, Zenon
  <2>2. Below(x) \in SUBSET (S \ {x})
    BY DEF IsStrictOrder
  <2>. HIDE DEF Below
  <2>3. IsFiniteSet(Below(x)) /\ Cardinality(Below(x)) <= Cardinality(S \ {x})
    BY <2>1, <2>2, FS_Subset, Zenon
  <2>4. Cardinality(Below(x)) \in Nat
    BY <2>3, FS_CardinalityType, Zenon
  <2>. QED
    BY <1>1, <2>1, <2>3, <2>4
<1>3. \A x, y \in S : <<x, y>> \in R => rank[x] < rank[y]
  <2>. SUFFICES ASSUME NEW x \in S, NEW y \in S, <<x, y>> \in R PROVE rank[x] < rank[y]
    OBVIOUS
  <2>1. Below(x) \in SUBSET Below(y) /\ x \in Below(y) /\ x \notin Below(x)
    BY DEF IsStrictOrder
  <2>2. IsFiniteSet(Below(x)) /\ IsFiniteSet(Below(y))
    BY <1>2, Zenon
  <2>3. Cardinality(Below(x)) \in Nat /\ Cardinality(Below(y)) \in Nat
    BY <1>2, Zenon
  <2>4. rank[x] = Cardinality(Below(x)) + 1 /\ rank[y] = Cardinality(Below(y)) + 1
    OBVIOUS
  <2>. HIDE DEF Below, rank
  <2>5. Cardinality(Below(x)) <= Cardinality(Below(y)) /\ Cardinality(Below(x)) # Cardinality(Below(y))
    BY <2>1, <2>2, FS_Subset
  <2>. QED
    BY <2>3, <2>4, <2>5
<1>4. rank \in [S -> 1 .. N]
  <2>. HIDE DEF Below, N
  <2>1. \A x \in S : Cardinality(Below(x)) + 1 \in 1 .. N
    BY <1>1, <1>2
  <2>. QED
    BY <2>1
<1>. HIDE DEF rank
<1>5. rank \in Injection(S, 1 .. N)
  <2>1. \A x \in S : rank[x] \in Int
    BY <1>1, <1>4
  <2>2. \A x, y \in S : <<x, y>> \in R => rank[x] # rank[y]
    <3>. HIDE DEF N
    <3>. QED
      BY <1>3, <2>1
  <2>3. \A x, y \in S : rank[x] = rank[y] => x = y
    BY <2>2, Zenon DEF IsStrictOrder
  <2>. QED
    BY <1>4, <2>3 DEF Injection, IsInjective
<1>6. \A n \in 1 .. N : \E x \in S : rank[x] = n
  <2>1. rank \in Surjection(S, 1 .. N)
    BY <1>1, <1>5, FS_Injection, Zenon
  <2>. QED
    BY <2>1 DEF Surjection
<1>. DEFINE s == [n \in 1 .. N |-> CHOOSE x \in S : rank[x] = n]
<1>7. \A n \in 1 .. N : s[n] \in S /\ rank[s[n]] = n
  BY <1>6
<1>8. s \in [1 .. N -> S]
  BY <1>7
<1>9. \A i, j \in 1 .. N : i < j => <<s[i], s[j]>> \in R
  <2>. HIDE DEF s
  <2>. SUFFICES ASSUME NEW i \in 1 .. N, NEW j \in 1 .. N, i < j PROVE <<s[i], s[j]>> \in R
    OBVIOUS
  <2>1. s[i] # s[j] /\ ~(<<s[j], s[i]>> \in R)
    BY <1>1, <1>3, <1>7
  <2>. QED
    BY <1>7, <2>1 DEF IsStrictOrder
<1>. HIDE DEF s
<1>. QED
  BY <1>8, <1>9 DEF Enumerates

\* As many elements, each once, are all there are.
LEMMA AllReached ==
  ASSUME NEW S, IsFiniteSet(S), NEW s \in [1 .. Cardinality(S) -> S],
         \A i, j \in 1 .. Cardinality(S) : s[i] = s[j] => i = j
  PROVE  \A x \in S : \E i \in 1 .. Cardinality(S) : s[i] = x
<1>1. LET N == Cardinality(S) IN N \in Nat /\ IsFiniteSet(1 .. N) /\ Cardinality(1 .. N) = N
  BY FS_CardinalityType, FS_Interval
<1>2. s \in Injection(1 .. Cardinality(S), S)
  BY DEF Injection, IsInjective
<1>3. s \in Surjection(1 .. Cardinality(S), S)
  BY <1>1, <1>2, FS_Injection, Zenon
<1>. QED
  BY <1>3 DEF Surjection

\* The list of a set of numbers or of films holds all its elements, each once.
LEMMA NumbersReached ==
  ASSUME NEW S, S \subseteq Int, IsFiniteSet(S), NEW s \in [1 .. Cardinality(S) -> S],
         \A i, j \in 1 .. Len(s) : i < j => s[i] < s[j]
  PROVE  Len(s) = Cardinality(S) /\ \A x \in S : \E i \in 1 .. Len(s) : s[i] = x
<1>1. Cardinality(S) \in Nat /\ Len(s) = Cardinality(S)
  BY FS_CardinalityType
<1>2. \A i, j \in 1 .. Cardinality(S) : s[i] = s[j] => i = j
  <2>1. \A i \in 1 .. Cardinality(S) : s[i] \in Int
    OBVIOUS
  <2>2. \A i, j \in 1 .. Cardinality(S) : i < j => s[i] # s[j]
    <3>1. \A x, y \in Int \X Int : Before(x, y) => x # y
      BY DEF Before
    <3>. QED
      BY <1>1, <2>1, <3>1
  <2>. QED
    BY <1>1, <2>2
<1>. QED
  BY <1>1, <1>2, AllReached

LEMMA FilmsReached ==
  ASSUME NEW S, S \subseteq Int \X Int, IsFiniteSet(S), NEW s \in [1 .. Cardinality(S) -> S],
         \A i, j \in 1 .. Len(s) : i < j => Before(s[i], s[j])
  PROVE  Len(s) = Cardinality(S) /\ \A x \in S : \E i \in 1 .. Len(s) : s[i] = x
<1>1. Cardinality(S) \in Nat /\ Len(s) = Cardinality(S)
  BY FS_CardinalityType
<1>2. \A i, j \in 1 .. Cardinality(S) : s[i] = s[j] => i = j
  <2>1. \A i \in 1 .. Cardinality(S) : s[i] \in Int \X Int
    OBVIOUS
  <2>2. \A i, j \in 1 .. Cardinality(S) : i < j => s[i] # s[j]
    <3>1. \A x, y \in Int \X Int : Before(x, y) => x # y
      BY DEF Before
    <3>. QED
      BY <1>1, <2>1, <3>1
  <2>. QED
    BY <1>1, <2>2
<1>. QED
  BY <1>1, <1>2, AllReached

LEMMA NumbersExist ==
  ASSUME NEW S, S \subseteq Int, IsFiniteSet(S)
  PROVE  \E s \in [1 .. Cardinality(S) -> S] : \A i, j \in 1 .. Len(s) : i < j => s[i] < s[j]
<1>. DEFINE R == {p \in S \X S : p[1] < p[2]}
<1>1. \A x, y \in S : <<x, y>> \in R <=> (x < y)
  OBVIOUS
<1>. HIDE DEF R
<1>2. IsStrictOrder(S, R)
  <2>1. \A x \in S : <<x, x>> \notin R
    BY <1>1 DEF Before
  <2>2. \A x, y, z \in S : <<x, y>> \in R /\ <<y, z>> \in R => <<x, z>> \in R
    BY <1>1 DEF Before
  <2>3. \A x, y \in S : x # y => <<x, y>> \in R \/ <<y, x>> \in R
    BY <1>1 DEF Before
  <2>. QED
    BY <2>1, <2>2, <2>3 DEF IsStrictOrder
<1>3. PICK s : Enumerates(S, R, s)
  BY <1>2, Enumeration
<1>4. Len(s) = Cardinality(S)
  BY <1>3, FS_CardinalityType DEF Enumerates
<1>. QED
  BY <1>1, <1>3, <1>4 DEF Enumerates

LEMMA NumbersInOrder ==
  ASSUME NEW S, S \subseteq Int, IsFiniteSet(S)
  PROVE  \E s \in [1 .. Cardinality(S) -> S] :
           /\ s = InOrder(S, <) /\ Len(s) = Cardinality(S)
           /\ \A i, j \in 1 .. Len(s) : i < j => s[i] < s[j]
           /\ \A x \in S : \E i \in 1 .. Len(s) : s[i] = x
<1>1. PICK s \in [1 .. Cardinality(S) -> S] : /\ s = InOrder(S, <)
                                            /\ \A i, j \in 1 .. Len(s) : i < j => s[i] < s[j]
  BY NumbersExist, Zenon DEF InOrder, IsSorted
<1>2. \A i, j \in 1 .. Len(s) : i < j => s[i] < s[j]
  BY <1>1
<1>3. Len(s) = Cardinality(S) /\ \A x \in S : \E i \in 1 .. Len(s) : s[i] = x
  BY <1>2, NumbersReached
<1>. QED
  BY <1>1, <1>3, Zenon

LEMMA FilmsExist ==
  ASSUME NEW S, S \subseteq Int \X Int, IsFiniteSet(S)
  PROVE  \E s \in [1 .. Cardinality(S) -> S] : \A i, j \in 1 .. Len(s) : i < j => Before(s[i], s[j])
<1>. DEFINE R == {p \in S \X S : Before(p[1], p[2])}
<1>1. \A x, y \in S : <<x, y>> \in R <=> Before(x, y)
  OBVIOUS
<1>. HIDE DEF R
<1>2. IsStrictOrder(S, R)
  <2>1. \A x \in S : <<x, x>> \notin R
    BY <1>1 DEF Before
  <2>2. \A x, y, z \in S : <<x, y>> \in R /\ <<y, z>> \in R => <<x, z>> \in R
    BY <1>1 DEF Before
  <2>3. \A x, y \in S : x # y => <<x, y>> \in R \/ <<y, x>> \in R
    BY <1>1 DEF Before
  <2>. QED
    BY <2>1, <2>2, <2>3 DEF IsStrictOrder
<1>3. PICK s : Enumerates(S, R, s)
  BY <1>2, Enumeration
<1>4. Len(s) = Cardinality(S)
  BY <1>3, FS_CardinalityType DEF Enumerates
<1>. QED
  BY <1>1, <1>3, <1>4 DEF Enumerates

LEMMA FilmsInOrder ==
  ASSUME NEW S, S \subseteq Int \X Int, IsFiniteSet(S)
  PROVE  \E s \in [1 .. Cardinality(S) -> S] :
           /\ s = InOrder(S, Before) /\ Len(s) = Cardinality(S)
           /\ \A i, j \in 1 .. Len(s) : i < j => Before(s[i], s[j])
           /\ \A x \in S : \E i \in 1 .. Len(s) : s[i] = x
<1>1. PICK s \in [1 .. Cardinality(S) -> S] : /\ s = InOrder(S, Before)
                                            /\ \A i, j \in 1 .. Len(s) : i < j => Before(s[i], s[j])
  BY FilmsExist, Zenon DEF InOrder, IsSorted
<1>2. \A i, j \in 1 .. Len(s) : i < j => Before(s[i], s[j])
  BY <1>1
<1>3. Len(s) = Cardinality(S) /\ \A x \in S : \E i \in 1 .. Len(s) : s[i] = x
  BY <1>2, FilmsReached
<1>. QED
  BY <1>1, <1>3, Zenon

-------------------------------------------------------------------------------
(* The layout: the count follows the text, the offsets follow the count. *)
LEMMA Layout ==
  ASSUME NEW n \in Nat
  PROVE  /\ CountAt(n) \in Nat /\ RefsAt(n) \in Nat
         /\ n <= CountAt(n) /\ CountAt(n) < RefsAt(n)
<1>1. PICK k \in n .. n + 1 : k % 2 = 0
  <2>1. n % 2 = 0 \/ (n + 1) % 2 = 0
    OBVIOUS
  <2>. QED
    BY <2>1
<1>2. CountAt(n) = k
  <2>1. k \in n .. n + 2 - 1
    BY <1>1
  <2>. QED
    BY <1>1, <2>1, UpIs DEF CountAt
<1>3. PICK m \in k + 2 .. k + 5 : m % 4 = 0
  <2>1. (k + 2) % 4 = 0 \/ (k + 3) % 4 = 0 \/ (k + 4) % 4 = 0 \/ (k + 5) % 4 = 0
    OBVIOUS
  <2>2. {k + 2, k + 3, k + 4, k + 5} \subseteq k + 2 .. k + 5
    OBVIOUS
  <2>. QED
    BY <2>1, <2>2
<1>4. RefsAt(n) = m
  <2>1. m \in k + 2 .. k + 2 + 4 - 1 /\ k + 2 \in Nat
    BY <1>3
  <2>. QED
    BY <1>2, <1>3, <2>1, UpIs DEF RefsAt
<1>. QED
  BY <1>2, <1>4

\* The records follow the index and one another.
Follow(N, begin, texts, counts) ==
  /\ \A k \in 1 .. N : begin[k] >= 4 * (N + 1)
  /\ \A j, k \in 1 .. N : j < k => begin[j] + RefsAt(texts[j]) + 4 * counts[j] <= begin[k]

LEMMA RecordsFollow ==
  ASSUME NEW N \in Nat, NEW texts \in [1 .. N -> Nat], NEW counts \in [1 .. N -> Nat]
  PROVE  \E begin \in [1 .. N -> Nat] :
           begin = Offsets(texts, counts) /\ Follow(N, begin, texts, counts)
<1>. DEFINE size == [k \in 1 .. N |-> RefsAt(texts[k]) + 4 * counts[k]]
            next == [x \in Nat \X (1 .. N) |-> IF x[2] = 1 THEN 4 * (N + 1) ELSE x[1] + size[x[2] - 1]]
            IsOffsets(g) == g = [k \in 1 .. N |-> IF k = 1 THEN 4 * (N + 1)
                                                  ELSE g[k - 1] + RefsAt(texts[k - 1]) + 4 * counts[k - 1]]
<1>1. \A k \in 1 .. N : RefsAt(texts[k]) \in Nat /\ counts[k] \in Nat
  <2>1. \A n \in Nat : RefsAt(n) \in Nat
    BY Layout, Zenon
  <2>. QED
    BY <2>1
<1>2. size \in [1 .. N -> Nat] /\ \A k \in 1 .. N : size[k] = RefsAt(texts[k]) + 4 * counts[k]
  BY <1>1
<1>. HIDE DEF size
<1>3. \A v \in Nat, n \in 1 .. N :
        next[<<v, n>>] = (IF n = 1 THEN 4 * (N + 1) ELSE v + size[n - 1]) /\ next[<<v, n>>] \in Nat
  <2>. TAKE v \in Nat, n \in 1 .. N
  <2>1. n # 1 => size[n - 1] \in Nat
    BY <1>2
  <2>2. next[<<v, n>>] = IF n = 1 THEN 4 * (N + 1) ELSE v + size[n - 1]
    OBVIOUS
  <2>. HIDE DEF next
  <2>. QED
    BY <2>1, <2>2, SMTT(30)
<1>4. PICK f : IsRecursive(N, 0, next, f) /\ \A n \in 0 .. N : f[n] \in Nat
  <2>. HIDE DEF next
  <2>. QED
    BY <1>3, RecursionExists
<1>5. \A n \in 1 .. N : f[n] = IF n = 1 THEN 4 * (N + 1) ELSE f[n - 1] + size[n - 1]
  <2>. TAKE n \in 1 .. N
  <2>1. n \in 0 .. N /\ n # 0 /\ n - 1 \in 0 .. N
    OBVIOUS
  <2>2. f[n] = next[<<f[n - 1], n>>] /\ f[n - 1] \in Nat
    <3>. HIDE DEF next
    <3>. QED
      BY <1>4, <2>1 DEF IsRecursive
  <2>. HIDE DEF next
  <2>. QED
    BY <1>3, <2>2
<1>. DEFINE begin == [k \in 1 .. N |-> f[k]]
<1>6. begin \in [1 .. N -> Nat]
  BY <1>4
<1>7. IsOffsets(begin)
  <2>. DEFINE h == [k \in 1 .. N |-> IF k = 1 THEN 4 * (N + 1)
                                     ELSE begin[k - 1] + RefsAt(texts[k - 1]) + 4 * counts[k - 1]]
  <2>1. ASSUME NEW k \in 1 .. N PROVE begin[k] = h[k]
    <3>1. CASE k = 1
      BY <1>5, <3>1
    <3>2. CASE k # 1
      <4>1. k - 1 \in 1 .. N
        BY <3>2
      <4>2. begin[k - 1] = f[k - 1] /\ begin[k - 1] \in Nat
        BY <1>4, <4>1
      <4>. QED
        BY <1>1, <1>2, <1>5, <3>2, <4>1, <4>2, SMTT(30)
    <3>. QED
      BY <3>1, <3>2
  <2>. QED
    BY <2>1
<1>. HIDE DEF begin
<1>. DEFINE begins == Offsets(texts, counts)
<1>8. IsOffsets(begins)
  <2>1. Len(texts) = N
    OBVIOUS
  <2>2. begins = CHOOSE g : IsOffsets(g)
    BY <2>1 DEF Offsets
  <2>. HIDE DEF IsOffsets, begins
  <2>. QED
    BY <1>7, <2>2
<1>. HIDE DEF begins
<1>9. N # 0 => begins[1] = 4 * (N + 1)
  BY <1>8
<1>10. \A k \in 1 .. N : k + 1 \in 1 .. N => begins[k + 1] = begins[k] + RefsAt(texts[k]) + 4 * counts[k]
  BY <1>8
<1>. HIDE DEF IsOffsets
<1>. DEFINE S == {n \in 0 .. N : \A k \in 1 .. n : begins[k] \in Nat /\ begins[k] >= 4 * (N + 1)}
<1>11. N \in S
  <2>1. 0 \in S
    OBVIOUS
  <2>2. ASSUME NEW n \in 0 .. N, n < N, n \in S PROVE n + 1 \in S
    <3>1. CASE n = 0
      BY <1>9, <2>2, <3>1
    <3>2. CASE n # 0
      <4>1. n \in 1 .. N /\ n + 1 \in 1 .. N /\ begins[n] \in Nat /\ begins[n] >= 4 * (N + 1)
        BY <2>2, <3>2
      <4>2. begins[n + 1] \in Nat /\ begins[n + 1] >= 4 * (N + 1)
        <5>1. begins[n + 1] = begins[n] + RefsAt(texts[n]) + 4 * counts[n]
          BY <1>10, <4>1
        <5>2. PICK r \in Nat, c \in Nat : r = RefsAt(texts[n]) /\ c = counts[n]
          BY <1>1, <4>1
        <5>3. begins[n + 1] = begins[n] + r + 4 * c
          BY <5>1, <5>2, Zenon
        <5>4. PICK b \in Nat : b = begins[n] /\ b >= 4 * (N + 1)
          BY <4>1
        <5>5. begins[n + 1] = b + r + 4 * c
          BY <5>3, <5>4, Zenon
        <5>6. b + r + 4 * c \in Nat /\ b + r + 4 * c >= 4 * (N + 1)
          BY <5>4
        <5>. QED
          BY <5>5, <5>6, Zenon
      <4>. QED
        BY <2>2, <4>1, <4>2, SMTT(30)
    <3>. QED
      BY <3>1, <3>2
  <2>. HIDE DEF S
  <2>3. \A n \in 0 .. N : n \in S
    BY <2>1, <2>2, UpTo
  <2>. QED
    BY <2>3
<1>12. \A k \in 1 .. N : begins[k] \in Nat /\ begins[k] >= 4 * (N + 1)
  BY <1>11
<1>13. DOMAIN begins = 1 .. N /\ begins = [k \in 1 .. N |-> begins[k]]
  BY <1>8 DEF IsOffsets
<1>14. begins \in [1 .. N -> Nat]
  BY <1>12, <1>13
<1>15. ASSUME NEW j \in 1 .. N, NEW k \in 1 .. N, j < k
       PROVE  begins[j] + RefsAt(texts[j]) + 4 * counts[j] <= begins[k]
  <2>. DEFINE T == {n \in 0 .. N - j : n = 0 \/ begins[j] + RefsAt(texts[j]) + 4 * counts[j] <= begins[j + n]}
  <2>1. 0 \in T /\ N - j \in Nat
    OBVIOUS
  <2>2. ASSUME NEW n \in 0 .. N - j, n < N - j, n \in T PROVE n + 1 \in T
    <3>1. j + n \in 1 .. N /\ j + n + 1 \in 1 .. N /\ j + n + 1 = j + (n + 1)
      BY <2>2
    <3>2. begins[j + (n + 1)] = begins[j + n] + RefsAt(texts[j + n]) + 4 * counts[j + n]
      BY <1>10, <3>1
    <3>3. CASE n = 0
      <4>1. j + n = j
        BY <3>3
      <4>2. begins[j + (n + 1)] = begins[j] + RefsAt(texts[j]) + 4 * counts[j] /\ begins[j + (n + 1)] \in Nat
        BY <1>12, <3>1, <3>2, <4>1
      <4>. QED
        BY <2>2, <4>2
    <3>4. CASE n # 0
      <4>1. begins[j] + RefsAt(texts[j]) + 4 * counts[j] <= begins[j + n]
        BY <2>2, <3>4
      <4>2. begins[j] \in Nat /\ RefsAt(texts[j]) \in Nat /\ counts[j] \in Nat /\ begins[j + n] \in Nat
        BY <1>1, <1>12, <3>1
      <4>3. RefsAt(texts[j + n]) \in Nat /\ counts[j + n] \in Nat
        BY <1>1, <3>1
      <4>4. begins[j] + RefsAt(texts[j]) + 4 * counts[j] <= begins[j + (n + 1)]
        <5>1. PICK r \in Nat, c \in Nat : r = RefsAt(texts[j + n]) /\ c = counts[j + n]
          BY <4>3
        <5>2. begins[j + (n + 1)] = begins[j + n] + r + 4 * c
          BY <3>2, <5>1, Zenon
        <5>3. begins[j + n] <= begins[j + (n + 1)] /\ begins[j + (n + 1)] \in Nat
          BY <4>2, <5>1, <5>2, SMTT(30)
        <5>4. PICK x \in Nat : x = begins[j] + RefsAt(texts[j]) + 4 * counts[j]
          BY <4>2
        <5>. QED
          BY <4>1, <4>2, <5>3, <5>4, SMTT(30)
      <4>. QED
        BY <2>2, <4>4
    <3>. QED
      BY <3>3, <3>4
  <2>3. \A n \in 0 .. N - j : n \in T
    <3>. HIDE DEF T
    <3>. QED
      BY <2>1, <2>2, UpTo
  <2>4. k - j \in 0 .. N - j /\ k - j # 0 /\ j + (k - j) = k
    BY <1>15
  <2>. QED
    BY <2>3, <2>4
<1>. QED
  BY <1>12, <1>14, <1>15, Zenon DEF begins, Follow
\* What a piece of a file says is read, if no other piece says something else.
LEMMA PieceIsRead ==
  ASSUME NEW pieces, NEW p \in pieces, NEW o \in DOMAIN p, \A q \in pieces : o \in DOMAIN q => q = p
  PROVE  At(FileOf(pieces), o) = p[o]
<1>1. (CHOOSE q \in pieces : o \in DOMAIN q) = p
  OBVIOUS
<1>2. o \in UNION {DOMAIN q : q \in pieces}
  OBVIOUS
<1>. QED
  BY <1>1, <1>2, Zenon DEF At, FileOf

LEMMA NumbersAreRead ==
  ASSUME NEW a \in Nat, NEW s, NEW n \in Nat, Len(s) = n
  PROVE  /\ DOMAIN Numbers(a, s) = {a + 4 * (k - 1) : k \in 1 .. n}
         /\ \A k \in 1 .. n : Numbers(a, s)[a + 4 * (k - 1)] = s[k]
         /\ \A o \in DOMAIN Numbers(a, s) : a <= o /\ o < a + 4 * n
<1>1. DOMAIN Numbers(a, s) = {a + 4 * (k - 1) : k \in 1 .. n}
  BY DEF Numbers
<1>2. ASSUME NEW k \in 1 .. n PROVE Numbers(a, s)[a + 4 * (k - 1)] = s[k]
  <2>1. a + 4 * (k - 1) - a = 4 * (k - 1) /\ (4 * (k - 1)) \div 4 = k - 1 /\ k - 1 + 1 = k
    OBVIOUS
  <2>2. PICK o : o = a + 4 * (k - 1) /\ (o - a) \div 4 + 1 = k
    BY <2>1
  <2>3. o \in {a + 4 * (j - 1) : j \in 1 .. Len(s)}
    BY <2>2
  <2>. QED
    BY <2>2, <2>3, Zenon DEF Numbers
<1>. QED
  BY <1>1, <1>2

(* What a data file says where its readers look. *)
Holds(file, begin, records, texts, refs) ==
  /\ At(file, 0) = Len(begin)
  /\ \A k \in 1 .. Len(begin) :
       /\ At(file, 4 * k) = begin[k]
       /\ \A o \in DOMAIN records[k] : At(file, o) = records[k][o]
       /\ At(file, begin[k] + CountAt(texts[k])) = Len(refs[k])
       /\ \A r \in 1 .. Len(refs[k]) : At(file, begin[k] + RefsAt(texts[k]) + 4 * (r - 1)) = refs[k][r]

\* The pieces of a data file do not overlap.
LEMMA RecordsAreRead ==
  ASSUME NEW N \in Nat, NEW begin \in [1 .. N -> Nat], NEW texts \in [1 .. N -> Nat],
         NEW counts \in [1 .. N -> Nat], NEW records, NEW refs,
         \A k \in 1 .. N : Len(refs[k]) = counts[k],
         Follow(N, begin, texts, counts),
         \A k \in 1 .. N : DOMAIN records[k] \subseteq begin[k] .. begin[k] + CountAt(texts[k]) - 1
  PROVE  Holds(DataFile(begin, records, texts, refs), begin, records, texts, refs)
<1>. DEFINE index == Numbers(0, <<N>> \o begin)
            count(k) == Numbers(begin[k] + CountAt(texts[k]), <<counts[k]>>)
            list(k) == Numbers(begin[k] + RefsAt(texts[k]), refs[k])
            End(k) == begin[k] + RefsAt(texts[k]) + 4 * counts[k]
            pieces == {index} \cup {records[k] : k \in 1 .. N} \cup {count(k) : k \in 1 .. N}
                              \cup {list(k) : k \in 1 .. N}
<1>1. \A k \in 1 .. N : /\ begin[k] \in Nat /\ counts[k] \in Nat
                        /\ CountAt(texts[k]) \in Nat /\ RefsAt(texts[k]) \in Nat
                        /\ CountAt(texts[k]) < RefsAt(texts[k])
  BY Layout
<1>0. \A k \in 1 .. N : /\ End(k) \in Nat /\ begin[k] + CountAt(texts[k]) < End(k)
                        /\ begin[k] + RefsAt(texts[k]) <= End(k)
  <2>. TAKE k \in 1 .. N
  <2>1. PICK b, r, c, t : b = begin[k] /\ r = RefsAt(texts[k]) /\ c = counts[k] /\ t = CountAt(texts[k])
    OBVIOUS
  <2>2. b \in Nat /\ r \in Nat /\ c \in Nat /\ t \in Nat /\ t < r
    BY <1>1, <2>1, Zenon
  <2>3. b + r + 4 * c \in Nat /\ b + t < b + r + 4 * c /\ b + r <= b + r + 4 * c
    BY <2>2
  <2>. QED
    BY <2>1, <2>3, Zenon
<1>2. Len(begin) = N /\ Len(<<N>> \o begin) = N + 1
      /\ \A k \in 1 .. N + 1 : (<<N>> \o begin)[k] = IF k = 1 THEN N ELSE begin[k - 1]
  OBVIOUS
<1>3. DataFile(begin, records, texts, refs) = FileOf(pieces)
  <2>1. \A k \in 1 .. N : count(k) = Numbers(begin[k] + CountAt(texts[k]), <<Len(refs[k])>>)
    OBVIOUS
  <2>2. {count(k) : k \in 1 .. N}
          = {Numbers(begin[k] + CountAt(texts[k]), <<Len(refs[k])>>) : k \in 1 .. N}
    BY <2>1
  <2>. QED
    BY <1>2, <2>2, Zenon DEF DataFile
<1>4. /\ \A k \in 1 .. N + 1 : 4 * (k - 1) \in DOMAIN index /\ index[4 * (k - 1)] = (<<N>> \o begin)[k]
      /\ \A o \in DOMAIN index : o \in Int /\ o < 4 * (N + 1)
  <2>1. LET n == N + 1 IN
          /\ DOMAIN index = {0 + 4 * (k - 1) : k \in 1 .. n}
          /\ \A k \in 1 .. n : index[0 + 4 * (k - 1)] = (<<N>> \o begin)[k]
          /\ \A o \in DOMAIN index : 0 <= o /\ o < 0 + 4 * n
    <3>. HIDE DEF index
    <3>1. N + 1 \in Nat /\ 0 \in Nat
      OBVIOUS
    <3>. QED
      BY <1>2, <3>1, NumbersAreRead DEF index
  <2>. HIDE DEF index
  <2>2. \A k \in 1 .. N + 1 : 0 + 4 * (k - 1) = 4 * (k - 1)
    OBVIOUS
  <2>3. DOMAIN index = {4 * (k - 1) : k \in 1 .. N + 1}
    BY <2>1, <2>2
  <2>4. \A k \in 1 .. N + 1 : 4 * (k - 1) \in DOMAIN index
    BY <2>3
  <2>5. \A k \in 1 .. N + 1 : index[4 * (k - 1)] = (<<N>> \o begin)[k]
    <3>. TAKE k \in 1 .. N + 1
    <3>1. index[0 + 4 * (k - 1)] = (<<N>> \o begin)[k]
      BY <2>1
    <3>. QED
      BY <2>2, <3>1, Zenon
  <2>6. \A o \in DOMAIN index : o \in Int /\ o < 4 * (N + 1)
    BY <2>1, <2>3
  <2>. QED
    BY <2>4, <2>5, <2>6
<1>5. \A k \in 1 .. N :
        /\ begin[k] + CountAt(texts[k]) \in DOMAIN count(k) /\ count(k)[begin[k] + CountAt(texts[k])] = counts[k]
        /\ \A o \in DOMAIN count(k) : o = begin[k] + CountAt(texts[k])
  <2>. TAKE k \in 1 .. N
  <2>. DEFINE a == begin[k] + CountAt(texts[k])
  <2>1. a \in Nat /\ Len(<<counts[k]>>) = 1 /\ <<counts[k]>>[1] = counts[k]
    BY <1>1, SMTT(30)
  <2>. HIDE DEF a
  <2>2. /\ DOMAIN Numbers(a, <<counts[k]>>) = {a + 4 * (n - 1) : n \in 1 .. 1}
        /\ \A n \in 1 .. 1 : Numbers(a, <<counts[k]>>)[a + 4 * (n - 1)] = <<counts[k]>>[n]
    <3>1. PICK t : t = <<counts[k]>>
      OBVIOUS
    <3>2. PICK m \in Nat : m = 1 /\ Len(t) = m
      BY <3>1
    <3>3. /\ DOMAIN Numbers(a, t) = {a + 4 * (n - 1) : n \in 1 .. m}
          /\ \A n \in 1 .. m : Numbers(a, t)[a + 4 * (n - 1)] = t[n]
      <4>1. Len(t) = m
        BY <3>2
      <4>. QED
        BY <2>1, <4>1, NumbersAreRead
    <3>. QED
      BY <3>1, <3>2, <3>3, Zenon
  <2>3. a + 4 * (1 - 1) = a /\ 1 \in 1 .. 1 /\ \A n \in 1 .. 1 : a + 4 * (n - 1) = a
    BY <2>1
  <2>4. count(k) = Numbers(a, <<counts[k]>>)
    BY DEF a
  <2>. HIDE DEF count
  <2>5. DOMAIN count(k) = {a} /\ count(k)[a] = counts[k]
    BY <2>1, <2>2, <2>3, <2>4
  <2>. QED
    BY <2>5 DEF a
<1>6. \A k \in 1 .. N :
        /\ \A r \in 1 .. counts[k] :
             LET o == begin[k] + RefsAt(texts[k]) + 4 * (r - 1)
             IN  o \in DOMAIN list(k) /\ list(k)[o] = refs[k][r]
        /\ \A o \in DOMAIN list(k) : o \in Int /\ begin[k] + RefsAt(texts[k]) <= o /\ o < End(k)
  <2>. TAKE k \in 1 .. N
  <2>. DEFINE a == begin[k] + RefsAt(texts[k])
  <2>1. a \in Nat
    BY <1>1, SMTT(30)
  <2>. HIDE DEF a
  <2>2. /\ DOMAIN Numbers(a, refs[k]) = {a + 4 * (n - 1) : n \in 1 .. counts[k]}
        /\ \A n \in 1 .. counts[k] : Numbers(a, refs[k])[a + 4 * (n - 1)] = refs[k][n]
        /\ \A o \in DOMAIN Numbers(a, refs[k]) : a <= o /\ o < a + 4 * counts[k]
    <3>1. Len(refs[k]) = counts[k] /\ counts[k] \in Nat
      OBVIOUS
    <3>. QED
      BY <2>1, <3>1, NumbersAreRead
  <2>3. list(k) = Numbers(a, refs[k])
    BY DEF a
  <2>4. \A o \in DOMAIN list(k) : o \in Int
    <3>. HIDE DEF list
    <3>. QED
      BY <2>1, <2>2, <2>3
  <2>5. \A o \in DOMAIN list(k) : a <= o /\ o < a + 4 * counts[k]
    BY <2>2, <2>3
  <2>6. \A n \in 1 .. counts[k] : a + 4 * (n - 1) \in DOMAIN list(k) /\ list(k)[a + 4 * (n - 1)] = refs[k][n]
    BY <2>2, <2>3, Zenon
  <2>. HIDE DEF list
  <2>. QED
    BY <2>4, <2>5, <2>6 DEF a
<1>. HIDE DEF index, count, list
<1>7. \A p \in pieces : \A o \in DOMAIN p :
        \/ p = index /\ o < 4 * (N + 1)
        \/ \E k \in 1 .. N :
             /\ o \in Int /\ begin[k] <= o /\ o < End(k)
             /\ \/ p = records[k] /\ o < begin[k] + CountAt(texts[k])
                \/ p = count(k) /\ o = begin[k] + CountAt(texts[k])
                \/ p = list(k) /\ o >= begin[k] + RefsAt(texts[k])
  <2>. SUFFICES ASSUME NEW p \in pieces, NEW o \in DOMAIN p
                PROVE  \/ p = index /\ o < 4 * (N + 1)
                       \/ \E k \in 1 .. N :
                            /\ o \in Int /\ begin[k] <= o /\ o < End(k)
                            /\ \/ p = records[k] /\ o < begin[k] + CountAt(texts[k])
                               \/ p = count(k) /\ o = begin[k] + CountAt(texts[k])
                               \/ p = list(k) /\ o >= begin[k] + RefsAt(texts[k])
    BY Zenon
  <2>1. CASE p = index
    BY <1>4, <2>1
  <2>2. CASE \E k \in 1 .. N : p = records[k]
    <3>1. PICK k \in 1 .. N : p = records[k]
      BY <2>2
    <3>2. o \in begin[k] .. begin[k] + CountAt(texts[k]) - 1
      BY <3>1
    <3>3. o \in Int /\ begin[k] <= o /\ o < End(k) /\ o < begin[k] + CountAt(texts[k])
      <4>. HIDE DEF End
      <4>1. PICK b \in Nat, r \in Nat, c \in Nat, e \in Nat :
                b = begin[k] /\ r = RefsAt(texts[k]) /\ c = CountAt(texts[k]) /\ e = End(k)
        BY <1>0, <1>1
      <4>2. b + c < e /\ b + r <= e
        BY <1>0, <4>1, Zenon
      <4>3. o \in b .. b + c - 1
        BY <3>2, <4>1, Zenon
      <4>4. o \in Int /\ b <= o /\ o < e /\ o < b + c
        BY <4>2, <4>3
      <4>. QED
        BY <4>1, <4>4, Zenon
    <3>. QED
      BY <3>1, <3>3
  <2>3. CASE \E k \in 1 .. N : p = count(k)
    <3>1. PICK k \in 1 .. N : p = count(k)
      BY <2>3
    <3>2. o = begin[k] + CountAt(texts[k])
      BY <1>5, <3>1
    <3>3. o \in Int /\ begin[k] <= o /\ o < End(k)
      <4>. HIDE DEF End
      <4>1. PICK b \in Nat, r \in Nat, c \in Nat, e \in Nat :
                b = begin[k] /\ r = RefsAt(texts[k]) /\ c = CountAt(texts[k]) /\ e = End(k)
        BY <1>0, <1>1
      <4>2. b + c < e /\ b + r <= e
        BY <1>0, <4>1, Zenon
      <4>3. o = b + c
        BY <3>2, <4>1, Zenon
      <4>4. o \in Int /\ b <= o /\ o < e
        BY <4>2, <4>3
      <4>. QED
        BY <4>1, <4>4, Zenon
    <3>. QED
      BY <3>1, <3>2, <3>3
  <2>4. CASE \E k \in 1 .. N : p = list(k)
    <3>1. PICK k \in 1 .. N : p = list(k)
      BY <2>4
    <3>2. o \in Int /\ begin[k] + RefsAt(texts[k]) <= o /\ o < End(k)
      BY <1>6, <3>1
    <3>3. begin[k] <= o /\ o >= begin[k] + RefsAt(texts[k])
      BY <1>1, <3>2
    <3>. QED
      BY <3>1, <3>2, <3>3
  <2>. QED
    BY <2>1, <2>2, <2>3, <2>4
<1>8. ASSUME NEW o, NEW j \in 1 .. N, NEW k \in 1 .. N,
             o \in Int, begin[j] <= o, o < End(j), begin[k] <= o, o < End(k)
      PROVE  j = k
  <2>1. \A i, l \in 1 .. N : i < l => End(i) <= begin[l]
    BY DEF Follow
  <2>. HIDE DEF End
  <2>2. ~(j < k) /\ ~(k < j)
    <3>1. PICK b \in Nat, c \in Nat, d \in Nat, e \in Nat :
              b = begin[j] /\ c = begin[k] /\ d = End(j) /\ e = End(k)
      BY <1>0, <1>1
    <3>2. b <= o /\ o < d /\ c <= o /\ o < e
      BY <1>8, <3>1, Zenon
    <3>3. (j < k => d <= c) /\ (k < j => e <= b)
      BY <2>1, <3>1, Zenon
    <3>. QED
      BY <1>8, <3>2, <3>3, SMTT(30)
  <2>. QED
    BY <2>2
<1>9. ASSUME NEW p \in pieces, NEW q \in pieces, NEW o, o \in DOMAIN p, o \in DOMAIN q PROVE q = p
  <2>. HIDE DEF End, pieces
  <2>. DEFINE In(k) == o \in Int /\ begin[k] <= o /\ o < End(k)
              OfRecord(x, k) == \/ x = records[k] /\ o < begin[k] + CountAt(texts[k])
                                \/ x = count(k) /\ o = begin[k] + CountAt(texts[k])
                                \/ x = list(k) /\ o >= begin[k] + RefsAt(texts[k])
  <2>1. \A x \in {p, q} : \/ x = index /\ o < 4 * (N + 1)
                          \/ \E k \in 1 .. N : In(k) /\ OfRecord(x, k)
    <3>1. \A x \in {p, q} : x \in pieces /\ o \in DOMAIN x
      BY <1>9
    <3>. QED
      BY <1>7, <3>1, Zenon
  <2>2. \A k \in 1 .. N : In(k) => ~(o < 4 * (N + 1))
    <3>1. \A k \in 1 .. N : begin[k] >= 4 * (N + 1)
      BY SMTT(30) DEF Follow
    <3>. QED
      <4>. SUFFICES ASSUME NEW k \in 1 .. N, In(k) PROVE ~(o < 4 * (N + 1))
        BY Zenon
      <4>1. PICK b : b = begin[k]
        OBVIOUS
      <4>2. b \in Nat /\ b >= 4 * (N + 1) /\ b <= o /\ o \in Int
        BY <1>1, <3>1, <4>1, Zenon
      <4>. QED
        BY <4>2
  <2>3. \A j, k \in 1 .. N : In(j) /\ In(k) => j = k
    BY <1>8
  <2>4. \A k \in 1 .. N : In(k) /\ OfRecord(p, k) /\ OfRecord(q, k) => p = q
    <3>. SUFFICES ASSUME NEW k \in 1 .. N, In(k), OfRecord(p, k), OfRecord(q, k) PROVE p = q
      BY Zenon
    <3>1. PICK b, c, r : b = begin[k] /\ c = CountAt(texts[k]) /\ r = RefsAt(texts[k])
      OBVIOUS
    <3>2. b \in Nat /\ c \in Nat /\ r \in Nat /\ c < r /\ o \in Int
      BY <1>1, <3>1, Zenon
    <3>4. \/ p = records[k] /\ o < b + c
          \/ p = count(k) /\ o = b + c
          \/ p = list(k) /\ o >= b + r
      BY <3>1, Zenon
    <3>5. \/ q = records[k] /\ o < b + c
          \/ q = count(k) /\ o = b + c
          \/ q = list(k) /\ o >= b + r
      BY <3>1, Zenon
    <3>6. CASE o < b + c
      BY <3>2, <3>4, <3>5, <3>6
    <3>7. CASE o = b + c
      BY <3>2, <3>4, <3>5, <3>7
    <3>8. CASE o >= b + r
      BY <3>2, <3>4, <3>5, <3>8
    <3>. QED
      BY <3>4, <3>6, <3>7, <3>8, Zenon
  <2>. HIDE DEF In, OfRecord
  <2>. QED
    BY <2>1, <2>2, <2>3, <2>4
<1>10. \A p \in pieces : \A o \in DOMAIN p : At(FileOf(pieces), o) = p[o]
  <2>. HIDE DEF pieces
  <2>. QED
    BY <1>9, PieceIsRead
<1>. DEFINE file == DataFile(begin, records, texts, refs)
<1>11. At(file, 0) = N
  <2>1. 0 \in DOMAIN index /\ index[0] = N
    <3>1. 1 \in 1 .. N + 1 /\ 4 * (1 - 1) = 0
      OBVIOUS
    <3>. QED
      BY <1>2, <1>4, <3>1
  <2>2. index \in pieces
    OBVIOUS
  <2>. HIDE DEF pieces
  <2>. QED
    BY <1>3, <1>10, <2>1, <2>2, Zenon
<1>12. ASSUME NEW k \in 1 .. N PROVE At(file, 4 * k) = begin[k]
  <2>1. k + 1 \in 1 .. N + 1 /\ 4 * ((k + 1) - 1) = 4 * k /\ (<<N>> \o begin)[k + 1] = begin[k]
    OBVIOUS
  <2>2. 4 * k \in DOMAIN index /\ index[4 * k] = begin[k]
    BY <1>4, <2>1, Zenon
  <2>3. index \in pieces
    OBVIOUS
  <2>. HIDE DEF pieces
  <2>. QED
    BY <1>3, <1>10, <2>2, <2>3, Zenon
<1>13. ASSUME NEW k \in 1 .. N, NEW o \in DOMAIN records[k] PROVE At(file, o) = records[k][o]
  <2>1. records[k] \in pieces
    OBVIOUS
  <2>. HIDE DEF pieces
  <2>. QED
    BY <1>3, <1>10, <2>1, Zenon
<1>14. ASSUME NEW k \in 1 .. N PROVE At(file, begin[k] + CountAt(texts[k])) = counts[k]
  <2>1. count(k) \in pieces
    OBVIOUS
  <2>. HIDE DEF pieces
  <2>. QED
    BY <1>3, <1>5, <1>10, <2>1, Zenon
<1>15. ASSUME NEW k \in 1 .. N, NEW r \in 1 .. counts[k]
       PROVE  At(file, begin[k] + RefsAt(texts[k]) + 4 * (r - 1)) = refs[k][r]
  <2>1. list(k) \in pieces
    OBVIOUS
  <2>. HIDE DEF pieces
  <2>. QED
    <3>1. begin[k] + RefsAt(texts[k]) + 4 * (r - 1) \in DOMAIN list(k)
          /\ list(k)[begin[k] + RefsAt(texts[k]) + 4 * (r - 1)] = refs[k][r]
      BY <1>6, Zenon
    <3>. QED
      BY <1>3, <1>10, <2>1, <3>1, Zenon
<1>. HIDE DEF file
<1>16. \A k \in 1 .. N : Len(refs[k]) = counts[k]
  OBVIOUS
<1>17. Holds(file, begin, records, texts, refs)
  BY <1>2, <1>11, <1>12, <1>13, <1>14, <1>15, <1>16, Zenon DEF Holds
<1>. QED
  BY <1>17 DEF file
\* The references of a record are found from its payload.
LEMMA ReferencesAreRead ==
  ASSUME NEW file, NEW begin, NEW records, NEW texts, NEW refs, Holds(file, begin, records, texts, refs),
         NEW k \in 1 .. Len(begin), NEW n \in Nat, NEW list \in [1 .. n -> Nat], FitsShort(n),
         texts[k] \in Nat, refs[k] = list
  PROVE  Referred(file, begin[k], texts[k]) = list
<1>1. getCount(file, begin[k], texts[k]) = [count |-> Len(list), payload |-> RefsAt(texts[k])]
  <2>1. At(file, begin[k] + CountAt(texts[k])) = Len(list)
    BY Zenon DEF Holds
  <2>2. Short(Len(list)) = Len(list)
    <3>1. Len(list) = n
      OBVIOUS
    <3>2. n % 65536 = n /\ n < 32768
      BY DEF FitsShort
    <3>. QED
      BY <3>1, <3>2 DEF Short
  <2>. QED
    BY <2>1, <2>2, CountsAreFound
<1>2. \A r \in 1 .. Len(list) : At(file, begin[k] + RefsAt(texts[k]) + 4 * (r - 1)) = list[r]
  BY Zenon DEF Holds
<1>3. Referred(file, begin[k], texts[k])
        = [r \in 1 .. Len(list) |-> At(file, begin[k] + RefsAt(texts[k]) + 4 * (r - 1))]
  BY <1>1 DEF Referred
<1>4. Referred(file, begin[k], texts[k]) = [r \in 1 .. Len(list) |-> list[r]]
  BY <1>2, <1>3, Zenon
<1>5. list = [r \in 1 .. Len(list) |-> list[r]]
  OBVIOUS
<1>. QED
  BY <1>4, <1>5

\* What lower_bound chooses: the first that does not come before.
LEMMA FirstNotBefore ==
  ASSUME NEW n \in Nat, NEW T
  PROVE  \E k \in 1 .. n + 1 : /\ k <= n => k \notin T
                               /\ \A j \in 1 .. k - 1 : j \in T
<1>. DEFINE S == {k \in 1 .. n + 1 : k <= n => k \notin T}
<1>1. S \subseteq Nat /\ n + 1 \in S
  OBVIOUS
<1>2. PICK k \in S : \A x \in S : k <= x
  <2>. HIDE DEF S
  <2>. QED
    BY <1>1, LeastNatural
<1>3. ASSUME NEW j \in 1 .. k - 1 PROVE j \in T
  <2>1. j \in 1 .. n + 1 /\ j <= n /\ ~(k <= j)
    BY <1>2
  <2>. QED
    BY <1>2, <2>1
<1>. QED
  BY <1>2, <1>3

\* The list of offsets of what is all in order.
Lead(refs, m, s, n, order, begin) ==
  \A r \in 1 .. m : \E k \in 1 .. n : order[k] = s[r] /\ refs[r] = begin[k]

LEMMA ReferencesLead ==
  ASSUME NEW n \in Nat, NEW order, DOMAIN order = 1 .. n, Len(order) = n, NEW begin \in [1 .. n -> Nat],
         NEW m \in Nat, NEW s, Len(s) = m, \A r \in 1 .. m : \E k \in 1 .. n : order[k] = s[r]
  PROVE  /\ RefsTo(s, order, begin) \in [1 .. m -> Nat]
         /\ Lead(RefsTo(s, order, begin), m, s, n, order, begin)
<1>. DEFINE which(r) == CHOOSE k \in 1 .. n : order[k] = s[r]
<1>1. \A r \in 1 .. m : which(r) \in 1 .. n /\ order[which(r)] = s[r]
  OBVIOUS
<1>2. RefsTo(s, order, begin) = [r \in 1 .. m |-> begin[which(r)]]
  BY DEF RefsTo
<1>. HIDE DEF which
<1>3. \A r \in 1 .. m : RefsTo(s, order, begin)[r] = begin[which(r)]
  BY <1>2
<1>4. RefsTo(s, order, begin) \in [1 .. m -> Nat]
  BY <1>1, <1>2
<1>5. Lead(RefsTo(s, order, begin), m, s, n, order, begin)
  BY <1>1, <1>3, Zenon DEF Lead
<1>. QED
  BY <1>4, <1>5, Zenon

(* The files of a database, record by record: what imdb.cc reads at the k-th of  *)
(* the offsets in each index.                                                    *)
Reads(d, f, n, actors, actorAt, m, films, filmAt) ==
  /\ n \in Nat /\ actors \in [1 .. n -> InFile(d.credits)] /\ actorAt \in [1 .. n -> Nat]
  /\ \A i, j \in 1 .. n : i < j => actors[i] < actors[j]
  /\ \A a \in InFile(d.credits) : \E k \in 1 .. n : actors[k] = a
  /\ At(f.actorFile, 0) = n
  /\ \A k \in 1 .. n :
       /\ At(f.actorFile, 4 * k) = actorAt[k] /\ At(f.actorFile, actorAt[k]) = actors[k]
       /\ Referred(f.actorFile, actorAt[k], Length(actors[k]) + 1) = RefsTo(d.credits[actors[k]], films, filmAt)
  /\ m \in Nat /\ films \in [1 .. m -> InFile(d.cast)] /\ filmAt \in [1 .. m -> Nat]
  /\ \A i, j \in 1 .. m : i < j => Before(films[i], films[j])
  /\ \A x \in InFile(d.cast) : \E k \in 1 .. m : films[k] = x
  /\ At(f.movieFile, 0) = m
  /\ \A k \in 1 .. m :
       /\ At(f.movieFile, 4 * k) = filmAt[k] /\ FilmAt(f.movieFile, filmAt[k]) = films[k]
       /\ Referred(f.movieFile, filmAt[k], Length(films[k][1]) + 2) = RefsTo(d.cast[films[k]], actors, actorAt)

LEMMA FilesAreRead ==
  ASSUME NEW d \in Database
  PROVE  \E n, actors, actorAt, m, films, filmAt : Reads(d, Files(d), n, actors, actorAt, m, films, filmAt)
<1>1. d.credits \in [Actor -> Seq(Film)] /\ d.cast \in [Film -> Seq(Actor)] /\ Actor \subseteq Int
  BY SearchAssumption
<1>2. /\ InFile(d.credits) \subseteq Actor /\ InFile(d.cast) \subseteq Film
      /\ Film \subseteq Int \X Int
      /\ \A a \in Actor : a \in InFile(d.credits) <=> d.credits[a] # <<>>
      /\ \A x \in Film : x \in InFile(d.cast) <=> d.cast[x] # <<>>
  BY <1>1, FilesAssumption DEF InFile
<1>3. IsFiniteSet(InFile(d.credits)) /\ IsFiniteSet(InFile(d.cast))
  BY <1>2, FilesAssumption, FS_Subset
<1>4. PICK n, actors : /\ n \in Nat /\ actors \in [1 .. n -> InFile(d.credits)]
                       /\ actors = Actors(d) /\ Len(actors) = n
                       /\ \A i, j \in 1 .. n : i < j => actors[i] < actors[j]
                       /\ \A a \in InFile(d.credits) : \E k \in 1 .. n : actors[k] = a
  <2>1. InFile(d.credits) \subseteq Int
    BY <1>1, <1>2
  <2>2. PICK s \in [1 .. Cardinality(InFile(d.credits)) -> InFile(d.credits)] :
           /\ s = InOrder(InFile(d.credits), <) /\ Len(s) = Cardinality(InFile(d.credits))
           /\ \A i, j \in 1 .. Len(s) : i < j => s[i] < s[j]
           /\ \A x \in InFile(d.credits) : \E i \in 1 .. Len(s) : s[i] = x
    BY <1>3, <2>1, NumbersInOrder, Zenon
  <2>3. s = Actors(d)
    BY <2>2, Zenon DEF Actors
  <2>4. PICK c \in Nat : c = Cardinality(InFile(d.credits))
    BY <1>3, FS_CardinalityType
  <2>5. /\ s \in [1 .. c -> InFile(d.credits)] /\ s = Actors(d) /\ Len(s) = c
        /\ \A i, j \in 1 .. c : i < j => (s[i] < s[j])
        /\ \A x \in InFile(d.credits) : \E k \in 1 .. c : s[k] = x
    BY <2>2, <2>3, <2>4, Zenon
  <2>. QED
    BY <2>4, <2>5
<1>5. PICK m, films : /\ m \in Nat /\ films \in [1 .. m -> InFile(d.cast)]
                      /\ films = Films(d) /\ Len(films) = m
                      /\ \A i, j \in 1 .. m : i < j => Before(films[i], films[j])
                      /\ \A x \in InFile(d.cast) : \E k \in 1 .. m : films[k] = x
  <2>1. InFile(d.cast) \subseteq Int \X Int
    BY <1>2
  <2>2. PICK s \in [1 .. Cardinality(InFile(d.cast)) -> InFile(d.cast)] :
           /\ s = InOrder(InFile(d.cast), Before) /\ Len(s) = Cardinality(InFile(d.cast))
           /\ \A i, j \in 1 .. Len(s) : i < j => Before(s[i], s[j])
           /\ \A x \in InFile(d.cast) : \E i \in 1 .. Len(s) : s[i] = x
    BY <1>3, <2>1, FilmsInOrder, Zenon
  <2>3. s = Films(d)
    BY <2>2, Zenon DEF Films
  <2>4. PICK c \in Nat : c = Cardinality(InFile(d.cast))
    BY <1>3, FS_CardinalityType
  <2>5. /\ s \in [1 .. c -> InFile(d.cast)] /\ s = Films(d) /\ Len(s) = c
        /\ \A i, j \in 1 .. c : i < j => Before(s[i], s[j])
        /\ \A x \in InFile(d.cast) : \E k \in 1 .. c : s[k] = x
    BY <2>2, <2>3, <2>4, Zenon
  <2>. QED
    BY <2>4, <2>5
<1>6. \A k \in 1 .. n : /\ actors[k] \in Actor /\ d.credits[actors[k]] \in Seq(Film)
                        /\ Length(actors[k]) \in Nat
  BY <1>1, <1>2, <1>4, FilesAssumption
<1>7. \A k \in 1 .. m : /\ films[k] \in Film /\ d.cast[films[k]] \in Seq(Actor)
                        /\ Length(films[k][1]) \in Nat
  BY <1>1, <1>2, <1>5, FilesAssumption
<1>. DEFINE nameTexts == NameTexts(actors)
            nameCounts == Counts(actors, d.credits)
            filmTexts == FilmTexts(films)
            filmCounts == Counts(films, d.cast)
<1>8. nameTexts \in [1 .. n -> Nat] /\ nameCounts \in [1 .. n -> Nat]
  <2>1. \A k \in 1 .. n : Length(actors[k]) + 1 \in Nat /\ Len(d.credits[actors[k]]) \in Nat
    <3>. SUFFICES ASSUME NEW k \in 1 .. n
                  PROVE  Length(actors[k]) + 1 \in Nat /\ Len(d.credits[actors[k]]) \in Nat
      OBVIOUS
    <3>1. Length(actors[k]) \in Nat /\ d.credits[actors[k]] \in Seq(Film)
      BY <1>6
    <3>. QED
      BY <3>1
  <2>2. nameTexts = [k \in 1 .. n |-> Length(actors[k]) + 1]
    BY <1>4, Zenon DEF NameTexts
  <2>3. nameCounts = [k \in 1 .. n |-> Len(d.credits[actors[k]])]
    BY <1>4, Zenon DEF Counts
  <2>. HIDE DEF nameTexts, nameCounts
  <2>. QED
    BY <2>1, <2>2, <2>3, Zenon
<1>9. filmTexts \in [1 .. m -> Nat] /\ filmCounts \in [1 .. m -> Nat]
  <2>1. \A k \in 1 .. m : Length(films[k][1]) + 2 \in Nat /\ Len(d.cast[films[k]]) \in Nat
    <3>. SUFFICES ASSUME NEW k \in 1 .. m
                  PROVE  Length(films[k][1]) + 2 \in Nat /\ Len(d.cast[films[k]]) \in Nat
      OBVIOUS
    <3>1. Length(films[k][1]) \in Nat /\ d.cast[films[k]] \in Seq(Actor)
      BY <1>7
    <3>. QED
      BY <3>1
  <2>2. filmTexts = [k \in 1 .. m |-> Length(films[k][1]) + 2]
    BY <1>5, Zenon DEF FilmTexts
  <2>3. filmCounts = [k \in 1 .. m |-> Len(d.cast[films[k]])]
    BY <1>5, Zenon DEF Counts
  <2>. HIDE DEF filmTexts, filmCounts
  <2>. QED
    BY <2>1, <2>2, <2>3, Zenon
<1>10. PICK actorAt \in [1 .. n -> Nat] :
         actorAt = Offsets(nameTexts, nameCounts) /\ Follow(n, actorAt, nameTexts, nameCounts)
  <2>. HIDE DEF nameTexts, nameCounts
  <2>. QED
    BY <1>4, <1>8, RecordsFollow
<1>11. PICK filmAt \in [1 .. m -> Nat] :
         filmAt = Offsets(filmTexts, filmCounts) /\ Follow(m, filmAt, filmTexts, filmCounts)
  <2>. HIDE DEF filmTexts, filmCounts
  <2>. QED
    BY <1>5, <1>9, RecordsFollow
<1>. DEFINE names == [k \in 1 .. n |-> NameAt(actorAt[k], actors[k])]
            titles == [k \in 1 .. m |-> TitleAt(filmAt[k], films[k])]
            nameRefs == RefsOf(actors, d.credits, films, filmAt)
            filmRefs == RefsOf(films, d.cast, actors, actorAt)
            f == Files(d)
<1>12. /\ f.actorFile = DataFile(actorAt, names, nameTexts, nameRefs)
       /\ f.movieFile = DataFile(filmAt, titles, filmTexts, filmRefs)
  BY <1>4, <1>5, <1>10, <1>11, ZenonT(30) DEF Files
<1>13. \A k \in 1 .. n :
         /\ nameRefs[k] = RefsTo(d.credits[actors[k]], films, filmAt)
         /\ nameTexts[k] = Length(actors[k]) + 1 /\ nameCounts[k] = Len(d.credits[actors[k]])
         /\ names[k] = NameAt(actorAt[k], actors[k])
  BY <1>4 DEF RefsOf, NameTexts, Counts
<1>14. \A k \in 1 .. m :
         /\ filmRefs[k] = RefsTo(d.cast[films[k]], actors, actorAt)
         /\ filmTexts[k] = Length(films[k][1]) + 2 /\ filmCounts[k] = Len(d.cast[films[k]])
         /\ titles[k] = TitleAt(filmAt[k], films[k])
  BY <1>5 DEF RefsOf, FilmTexts, Counts
<1>. HIDE DEF nameTexts, nameCounts, filmTexts, filmCounts, names, titles, nameRefs, filmRefs, f
<1>15. ASSUME NEW k \in 1 .. n PROVE nameRefs[k] \in [1 .. nameCounts[k] -> Nat] /\ Len(nameRefs[k]) = nameCounts[k]
  <2>1. d.credits[actors[k]] \in Seq(Film) /\ nameCounts[k] = Len(d.credits[actors[k]])
    BY <1>6, <1>13
  <2>2. PICK s \in Seq(Film), c \in Nat : s = d.credits[actors[k]] /\ c = nameCounts[k] /\ Len(s) = c
    BY <2>1
  <2>3. \A r \in 1 .. c : s[r] \in ToSet(s) /\ s[r] \in Film
    BY <2>2 DEF ToSet
  <2>4. \A r \in 1 .. c : \E j \in 1 .. m : films[j] = s[r]
    <3>1. \A x \in ToSet(s) : d.cast[x] # <<>>
      BY <1>6, <2>2, FilesAssumption, Zenon
    <3>. QED
      BY <1>2, <1>5, <2>3, <3>1, Zenon
  <2>5. RefsTo(s, films, filmAt) \in [1 .. c -> Nat]
    <3>1. m \in Nat /\ DOMAIN films = 1 .. m /\ Len(films) = m /\ filmAt \in [1 .. m -> Nat]
      BY <1>5
    <3>2. c \in Nat /\ Len(s) = c
      BY <2>2
    <3>. QED
      BY <2>4, <3>1, <3>2, ReferencesLead, Zenon
  <2>6. nameRefs[k] = RefsTo(s, films, filmAt)
    BY <1>13, <2>2, Zenon
  <2>. QED
    BY <2>2, <2>5, <2>6
<1>16. ASSUME NEW k \in 1 .. m PROVE filmRefs[k] \in [1 .. filmCounts[k] -> Nat] /\ Len(filmRefs[k]) = filmCounts[k]
  <2>1. d.cast[films[k]] \in Seq(Actor) /\ filmCounts[k] = Len(d.cast[films[k]])
    BY <1>7, <1>14
  <2>2. PICK s \in Seq(Actor), c \in Nat : s = d.cast[films[k]] /\ c = filmCounts[k] /\ Len(s) = c
    BY <2>1
  <2>3. \A r \in 1 .. c : s[r] \in ToSet(s) /\ s[r] \in Actor
    BY <2>2 DEF ToSet
  <2>4. \A r \in 1 .. c : \E j \in 1 .. n : actors[j] = s[r]
    <3>1. \A a \in ToSet(s) : d.credits[a] # <<>>
      BY <1>7, <2>2, FilesAssumption, Zenon
    <3>. QED
      BY <1>2, <1>4, <2>3, <3>1, Zenon
  <2>5. RefsTo(s, actors, actorAt) \in [1 .. c -> Nat]
    <3>1. n \in Nat /\ DOMAIN actors = 1 .. n /\ Len(actors) = n /\ actorAt \in [1 .. n -> Nat]
      BY <1>4
    <3>2. c \in Nat /\ Len(s) = c
      BY <2>2
    <3>. QED
      BY <2>4, <3>1, <3>2, ReferencesLead, Zenon
  <2>6. filmRefs[k] = RefsTo(s, actors, actorAt)
    BY <1>14, <2>2, Zenon
  <2>. QED
    BY <2>2, <2>5, <2>6
<1>17. Holds(f.actorFile, actorAt, names, nameTexts, nameRefs)
  <2>1. ASSUME NEW k \in 1 .. n
        PROVE  DOMAIN names[k] \subseteq actorAt[k] .. actorAt[k] + CountAt(nameTexts[k]) - 1
    <3>1. nameTexts[k] \in Nat /\ nameTexts[k] >= 1
      BY <1>6, <1>13
    <3>2. CountAt(nameTexts[k]) \in Nat /\ nameTexts[k] <= CountAt(nameTexts[k])
      BY <3>1, Layout
    <3>3. DOMAIN names[k] = {actorAt[k]}
      BY <1>13 DEF NameAt
    <3>4. PICK b \in Nat, c \in Nat : b = actorAt[k] /\ c = CountAt(nameTexts[k]) /\ c >= 1
      BY <3>1, <3>2
    <3>5. {b} \subseteq b .. b + c - 1
      BY <3>4
    <3>6. DOMAIN names[k] = {b}
      BY <3>3, <3>4
    <3>7. DOMAIN names[k] \subseteq b .. b + c - 1
      BY <3>5, <3>6
    <3>8. b .. b + c - 1 = actorAt[k] .. actorAt[k] + CountAt(nameTexts[k]) - 1
      BY <3>4, Zenon
    <3>. QED
      BY <3>7, <3>8
  <2>2. \A k \in 1 .. n : Len(nameRefs[k]) = nameCounts[k]
    BY <1>15
  <2>. QED
    <3>1. Holds(DataFile(actorAt, names, nameTexts, nameRefs), actorAt, names, nameTexts, nameRefs)
      BY <1>4, <1>8, <1>10, <2>1, <2>2, RecordsAreRead
    <3>. QED
      BY <1>12, <3>1, Zenon
<1>18. Holds(f.movieFile, filmAt, titles, filmTexts, filmRefs)
  <2>1. ASSUME NEW k \in 1 .. m
        PROVE  DOMAIN titles[k] \subseteq filmAt[k] .. filmAt[k] + CountAt(filmTexts[k]) - 1
    <3>1. filmTexts[k] \in Nat /\ filmTexts[k] = Length(films[k][1]) + 2 /\ Length(films[k][1]) \in Nat
      BY <1>7, <1>14
    <3>2. CountAt(filmTexts[k]) \in Nat /\ filmTexts[k] <= CountAt(filmTexts[k])
      BY <3>1, Layout
    <3>3. DOMAIN titles[k] = {filmAt[k], filmAt[k] + Length(films[k][1]) + 1}
      BY <1>14 DEF TitleAt
    <3>4. PICK b \in Nat, c \in Nat, l \in Nat :
              b = filmAt[k] /\ c = CountAt(filmTexts[k]) /\ l = Length(films[k][1]) /\ l + 2 <= c
      BY <3>1, <3>2
    <3>5. {b, b + l + 1} \subseteq b .. b + c - 1
      BY <3>4
    <3>6. DOMAIN titles[k] = {b, b + l + 1}
      BY <3>3, <3>4
    <3>7. DOMAIN titles[k] \subseteq b .. b + c - 1
      BY <3>5, <3>6
    <3>8. b .. b + c - 1 = filmAt[k] .. filmAt[k] + CountAt(filmTexts[k]) - 1
      BY <3>4, Zenon
    <3>. QED
      BY <3>7, <3>8
  <2>2. \A k \in 1 .. m : Len(filmRefs[k]) = filmCounts[k]
    BY <1>16
  <2>. QED
    <3>1. Holds(DataFile(filmAt, titles, filmTexts, filmRefs), filmAt, titles, filmTexts, filmRefs)
      BY <1>5, <1>9, <1>11, <2>1, <2>2, RecordsAreRead
    <3>. QED
      BY <1>12, <3>1, Zenon
<1>19. ASSUME NEW k \in 1 .. n
       PROVE  /\ At(f.actorFile, 4 * k) = actorAt[k] /\ At(f.actorFile, actorAt[k]) = actors[k]
              /\ Referred(f.actorFile, actorAt[k], Length(actors[k]) + 1)
                   = RefsTo(d.credits[actors[k]], films, filmAt)
  <2>1. Len(actorAt) = n
    BY <1>4
  <2>2. /\ At(f.actorFile, 4 * k) = actorAt[k]
        /\ \A o \in DOMAIN names[k] : At(f.actorFile, o) = names[k][o]
    BY <1>17, <2>1, Zenon DEF Holds
  <2>3. actorAt[k] \in DOMAIN names[k] /\ names[k][actorAt[k]] = actors[k]
    BY <1>13 DEF NameAt
  <2>4. PICK c \in Nat : c = nameCounts[k] /\ FitsShort(c)
    <3>1. nameCounts[k] = Len(d.credits[actors[k]]) /\ FitsShort(Len(d.credits[actors[k]]))
      <4>1. FitsShort(Len(d.credits[actors[k]]))
        BY <1>6, FilesAssumption, Zenon
      <4>2. nameCounts[k] = Len(d.credits[actors[k]])
        BY <1>4 DEF nameCounts, Counts
      <4>. QED
        BY <4>1, <4>2, Zenon
    <3>. QED
      BY <1>8, <3>1
  <2>5. PICK list \in [1 .. c -> Nat] : list = nameRefs[k]
    BY <1>15, <2>4
  <2>6. nameTexts[k] \in Nat
    BY <1>8
  <2>7. k \in 1 .. Len(actorAt)
    BY <2>1
  <2>8. Referred(f.actorFile, actorAt[k], nameTexts[k]) = list
    BY <1>17, <2>4, <2>5, <2>6, <2>7, ReferencesAreRead
  <2>9. At(f.actorFile, actorAt[k]) = actors[k]
    BY <2>2, <2>3, Zenon
  <2>. QED
    BY <1>13, <2>2, <2>5, <2>8, <2>9, Zenon
<1>20. ASSUME NEW k \in 1 .. m
       PROVE  /\ At(f.movieFile, 4 * k) = filmAt[k] /\ FilmAt(f.movieFile, filmAt[k]) = films[k]
              /\ Referred(f.movieFile, filmAt[k], Length(films[k][1]) + 2)
                   = RefsTo(d.cast[films[k]], actors, actorAt)
  <2>1. Len(filmAt) = m
    BY <1>5
  <2>2. /\ At(f.movieFile, 4 * k) = filmAt[k]
        /\ \A o \in DOMAIN titles[k] : At(f.movieFile, o) = titles[k][o]
    BY <1>18, <2>1, Zenon DEF Holds
  <2>3. /\ filmAt[k] \in DOMAIN titles[k] /\ filmAt[k] + Length(films[k][1]) + 1 \in DOMAIN titles[k]
        /\ titles[k][filmAt[k]] = films[k][1] /\ titles[k][filmAt[k] + Length(films[k][1]) + 1] = films[k][2]
    <3>1. PICK b \in Nat, l \in Nat : b = filmAt[k] /\ l = Length(films[k][1])
      BY <1>7
    <3>2. b # b + l + 1
      OBVIOUS
    <3>3. titles[k] = [o \in {b, b + l + 1} |-> IF o = b + l + 1 THEN films[k][2] ELSE films[k][1]]
      BY <1>14, <3>1, Zenon DEF TitleAt
    <3>4. /\ b \in DOMAIN titles[k] /\ b + l + 1 \in DOMAIN titles[k]
          /\ titles[k][b] = films[k][1] /\ titles[k][b + l + 1] = films[k][2]
      BY <3>2, <3>3
    <3>. QED
      BY <3>1, <3>4, Zenon
  <2>4. PICK c \in Nat : c = filmCounts[k] /\ FitsShort(c)
    <3>1. filmCounts[k] = Len(d.cast[films[k]]) /\ FitsShort(Len(d.cast[films[k]]))
      <4>1. FitsShort(Len(d.cast[films[k]]))
        BY <1>7, FilesAssumption, Zenon
      <4>2. filmCounts[k] = Len(d.cast[films[k]])
        BY <1>5 DEF filmCounts, Counts
      <4>. QED
        BY <4>1, <4>2, Zenon
    <3>. QED
      BY <1>9, <3>1
  <2>5. PICK list \in [1 .. c -> Nat] : list = filmRefs[k]
    BY <1>16, <2>4
  <2>6. filmTexts[k] \in Nat
    BY <1>9
  <2>7. k \in 1 .. Len(filmAt)
    BY <2>1
  <2>8. Referred(f.movieFile, filmAt[k], filmTexts[k]) = list
    BY <1>18, <2>4, <2>5, <2>6, <2>7, ReferencesAreRead
  <2>9. At(f.movieFile, filmAt[k]) = films[k][1]
        /\ At(f.movieFile, filmAt[k] + Length(films[k][1]) + 1) = films[k][2]
    BY <2>2, <2>3, Zenon
  <2>10. films[k] = <<films[k][1], films[k][2]>>
    BY <1>2, <1>7
  <2>11. FilmAt(f.movieFile, filmAt[k]) = films[k]
    BY <2>9, <2>10, Zenon DEF FilmAt
  <2>. QED
    BY <1>14, <2>2, <2>5, <2>8, <2>11, Zenon
<1>21. At(f.actorFile, 0) = n /\ At(f.movieFile, 0) = m
  <2>1. Len(actorAt) = n /\ Len(filmAt) = m
    BY <1>4, <1>5
  <2>. QED
    BY <1>17, <1>18, <2>1, Zenon DEF Holds
<1>22. Reads(d, f, n, actors, actorAt, m, films, filmAt)
  BY <1>4, <1>5, <1>19, <1>20, <1>21, Zenon DEF Reads
<1>. QED
  BY <1>22, Zenon DEF f
\* lower_bound finds the record of an actor who is in the file, and for one who is
\* not the end or the record of someone else.
LEMMA ActorIsFound ==
  ASSUME NEW d \in Database, NEW f, NEW n, NEW actors, NEW actorAt, NEW m, NEW films, NEW filmAt,
         Reads(d, f, n, actors, actorAt, m, films, filmAt), NEW player \in Actor
  PROVE  \E k \in Nat :
           /\ k = ActorFound(f, player)
           /\ player \in InFile(d.credits) => k \in 1 .. n /\ actors[k] = player
           /\ player \notin InFile(d.credits) => k = n + 1 \/ (k \in 1 .. n /\ actors[k] # player)
<1>1. n \in Nat /\ \A k \in 1 .. n : actors[k] \in Int /\ actors[k] \in InFile(d.credits)
  BY SearchAssumption DEF Reads, InFile
<1>. DEFINE Precedes(k) == At(f.actorFile, At(f.actorFile, 4 * k)) < player
            First(k) == /\ k <= n => ~Precedes(k)
                        /\ \A j \in 1 .. k - 1 : Precedes(j)
<1>2. ActorFound(f, player) = CHOOSE k \in 1 .. n + 1 : First(k)
  BY DEF ActorFound, lower_bound, Reads
<1>3. \A k \in 1 .. n : Precedes(k) <=> (actors[k] < player)
  BY DEF Reads
<1>. HIDE DEF Precedes
<1>4. \E k \in 1 .. n + 1 : First(k)
  <2>. DEFINE T == {k \in 1 .. n : Precedes(k)}
  <2>1. PICK k \in 1 .. n + 1 : /\ k <= n => k \notin T
                                /\ \A j \in 1 .. k - 1 : j \in T
    <3>. HIDE DEF T
    <3>. QED
      BY <1>1, FirstNotBefore
  <2>. QED
    BY <1>1, <2>1
<1>5. PICK k \in 1 .. n + 1 : k = ActorFound(f, player) /\ First(k)
  <2>. HIDE DEF First
  <2>. QED
    BY <1>2, <1>4, Zenon
<1>6. ASSUME player \in InFile(d.credits) PROVE k \in 1 .. n /\ actors[k] = player
  <2>1. PICK i \in 1 .. n : actors[i] = player
    BY <1>6 DEF Reads
  <2>2. player \in Int
    BY SearchAssumption
  <2>3. ~(i < k)
    BY <1>1, <1>3, <1>5, <2>1, <2>2
  <2>4. ~(k < i)
    <3>1. \A j, l \in 1 .. n : j < l => actors[j] < actors[l]
      BY DEF Reads
    <3>. QED
      BY <1>1, <1>3, <1>5, <2>1, <3>1
  <2>5. k = i
    BY <1>1, <2>3, <2>4
  <2>. QED
    BY <2>1, <2>5
<1>7. ASSUME player \notin InFile(d.credits) PROVE k = n + 1 \/ (k \in 1 .. n /\ actors[k] # player)
  BY <1>1, <1>7
<1>8. k \in Nat
  BY <1>1
<1>. QED
  BY <1>5, <1>6, <1>7, <1>8, Zenon

LEMMA MovieIsFound ==
  ASSUME NEW d \in Database, NEW f, NEW n, NEW actors, NEW actorAt, NEW m, NEW films, NEW filmAt,
         Reads(d, f, n, actors, actorAt, m, films, filmAt), NEW film \in Film
  PROVE  \E k \in Nat :
           /\ k = MovieFound(f, film)
           /\ film \in InFile(d.cast) => k \in 1 .. m /\ films[k] = film
           /\ film \notin InFile(d.cast) => k = m + 1 \/ (k \in 1 .. m /\ films[k] # film)
<1>1. m \in Nat /\ \A k \in 1 .. m : films[k] \in Int \X Int /\ films[k] \in InFile(d.cast)
  BY SearchAssumption, FilesAssumption DEF Reads, InFile
<1>. DEFINE Precedes(k) == Before(FilmAt(f.movieFile, At(f.movieFile, 4 * k)), film)
            First(k) == /\ k <= m => ~Precedes(k)
                        /\ \A j \in 1 .. k - 1 : Precedes(j)
<1>2. MovieFound(f, film) = CHOOSE k \in 1 .. m + 1 : First(k)
  BY DEF MovieFound, lower_bound, Reads
<1>3. \A k \in 1 .. m : Precedes(k) <=> Before(films[k], film)
  BY Zenon DEF Reads
<1>. HIDE DEF Precedes
<1>4. \E k \in 1 .. m + 1 : First(k)
  <2>. DEFINE T == {k \in 1 .. m : Precedes(k)}
  <2>1. PICK k \in 1 .. m + 1 : /\ k <= m => k \notin T
                                /\ \A j \in 1 .. k - 1 : j \in T
    <3>. HIDE DEF T
    <3>. QED
      BY <1>1, FirstNotBefore
  <2>. QED
    BY <1>1, <2>1
<1>5. PICK k \in 1 .. m + 1 : k = MovieFound(f, film) /\ First(k)
  <2>. HIDE DEF First
  <2>. QED
    BY <1>2, <1>4, Zenon
<1>6. ASSUME film \in InFile(d.cast) PROVE k \in 1 .. m /\ films[k] = film
  <2>1. PICK i \in 1 .. m : films[i] = film
    BY <1>6 DEF Reads
  <2>2. film \in Int \X Int
    BY FilesAssumption
  <2>3. \A x \in Int \X Int : ~Before(x, x)
    BY DEF Before
  <2>4. ~(i < k)
    <3>1. i < k => Precedes(i)
      BY <1>1, <1>5
    <3>. QED
      BY <1>3, <2>1, <2>2, <2>3, <3>1
  <2>5. ~(k < i)
    <3>1. \A j, l \in 1 .. m : j < l => Before(films[j], films[l])
      BY DEF Reads
    <3>2. k < i => k \in 1 .. m /\ ~Precedes(k)
      BY <1>1, <1>5
    <3>. QED
      BY <1>3, <2>1, <3>1, <3>2
  <2>6. k = i
    BY <1>1, <2>4, <2>5
  <2>. QED
    BY <2>1, <2>6
<1>7. ASSUME film \notin InFile(d.cast) PROVE k = m + 1 \/ (k \in 1 .. m /\ films[k] # film)
  BY <1>1, <1>7
<1>8. k \in Nat
  BY <1>1
<1>. QED
  BY <1>5, <1>6, <1>7, <1>8, Zenon
\* getCredits answers what the database says of an actor.
LEMMA CreditsAnswer ==
  ASSUME NEW d \in Database, NEW f, NEW n, NEW actors, NEW actorAt, NEW m, NEW films, NEW filmAt,
         Reads(d, f, n, actors, actorAt, m, films, filmAt), NEW player \in Actor
  PROVE  /\ \/ /\ HasActor(f, player) = (d.credits[player] # <<>>)
               /\ getCredits(f, player) = d.credits[player]
            \/ d.credits[player] = <<>> /\ PastTheEnd(f.actorFile, ActorFound(f, player))
         /\ d.credits[player] # <<>> => getCredits(f, player) = d.credits[player]
<1>1. PICK k \in Nat :
           /\ k = ActorFound(f, player)
           /\ player \in InFile(d.credits) => k \in 1 .. n /\ actors[k] = player
           /\ player \notin InFile(d.credits) => k = n + 1 \/ (k \in 1 .. n /\ actors[k] # player)
  BY ActorIsFound
<1>2. n \in Nat /\ At(f.actorFile, 0) = n
      /\ \A j \in 1 .. n : At(f.actorFile, 4 * j) = actorAt[j] /\ At(f.actorFile, actorAt[j]) = actors[j]
  BY Zenon DEF Reads
<1>3. d.credits \in [Actor -> Seq(Film)] /\ (player \in InFile(d.credits) <=> d.credits[player] # <<>>)
  BY SearchAssumption DEF InFile
<1>4. PastTheEnd(f.actorFile, ActorFound(f, player)) <=> k > n
  BY <1>1, <1>2, Zenon DEF PastTheEnd
<1>7. ASSUME k \in 1 .. n
      PROVE  /\ IsNamed(f, At(f.actorFile, 4 * ActorFound(f, player)), player) <=> actors[k] = player
             /\ HasActor(f, player) = IsNamed(f, At(f.actorFile, 4 * ActorFound(f, player)), player)
  <2>1. ~(k > n)
    BY <1>2, <1>7
  <2>. QED
    BY <1>1, <1>2, <1>4, <1>7, <2>1, Zenon DEF IsNamed, HasActor, Answer
<1>5. CASE d.credits[player] = <<>>
  <2>1. CASE k = n + 1
    <3>1. k > n
      BY <1>2, <2>1
    <3>. QED
      BY <1>4, <1>5, <3>1
  <2>2. CASE k \in 1 .. n /\ actors[k] # player
    <3>1. ~IsNamed(f, At(f.actorFile, 4 * ActorFound(f, player)), player) /\ ~HasActor(f, player)
      BY <1>7, <2>2
    <3>2. ~PastTheEnd(f.actorFile, ActorFound(f, player))
      BY <1>2, <1>4, <2>2
    <3>3. getCredits(f, player) = <<>>
      BY <3>1, <3>2, Zenon DEF getCredits, Answer
    <3>4. HasActor(f, player) = (d.credits[player] # <<>>)
      <4>1. HasActor(f, player) = IsNamed(f, At(f.actorFile, 4 * ActorFound(f, player)), player)
        BY <1>7, <2>2, Zenon
      <4>2. IsNamed(f, At(f.actorFile, 4 * ActorFound(f, player)), player) = (d.credits[player] # <<>>)
        BY <1>5, <3>1, Zenon DEF IsNamed
      <4>. QED
        BY <4>1, <4>2, Zenon
    <3>. QED
      BY <1>5, <3>3, <3>4, Zenon
  <2>. QED
    BY <1>1, <1>3, <1>5, <2>1, <2>2
<1>6. CASE d.credits[player] # <<>>
  <2>1. /\ k \in 1 .. n /\ actors[k] = player
        /\ IsNamed(f, At(f.actorFile, 4 * ActorFound(f, player)), player) /\ HasActor(f, player)
    BY <1>1, <1>3, <1>6, <1>7, Zenon
  <2>2. PICK s \in Seq(Film), c \in Nat : s = d.credits[player] /\ c = Len(s)
    BY <1>3
  <2>3. \A r \in 1 .. c : \E j \in 1 .. m : films[j] = s[r]
    <3>1. \A r \in 1 .. c : s[r] \in ToSet(s) /\ s[r] \in Film
      BY <2>2 DEF ToSet
    <3>2. \A x \in ToSet(s) : d.cast[x] # <<>>
      BY <2>2, FilesAssumption, Zenon
    <3>3. \A x \in Film : x \in InFile(d.cast) <=> d.cast[x] # <<>>
      BY SearchAssumption DEF InFile
    <3>. QED
      BY <3>1, <3>2, <3>3, Zenon DEF Reads
  <2>. DEFINE refs == RefsTo(s, films, filmAt)
  <2>4. refs \in [1 .. c -> Nat] /\ \A r \in 1 .. c : \E j \in 1 .. m : films[j] = s[r] /\ refs[r] = filmAt[j]
    <3>1. m \in Nat /\ DOMAIN films = 1 .. m /\ Len(films) = m /\ filmAt \in [1 .. m -> Nat]
      BY DEF Reads
    <3>2. c \in Nat /\ Len(s) = c
      BY <2>2
    <3>3. RefsTo(s, films, filmAt) \in [1 .. c -> Nat]
      BY <2>3, <3>1, <3>2, ReferencesLead, Zenon
    <3>4. Lead(RefsTo(s, films, filmAt), c, s, m, films, filmAt)
      BY <2>3, <3>1, <3>2, ReferencesLead, Zenon
    <3>. QED
      BY <3>3, <3>4, Zenon DEF Lead
  <2>. HIDE DEF refs
  <2>5. Referred(f.actorFile, At(f.actorFile, 4 * ActorFound(f, player)), Length(player) + 1) = refs
    <3>1. Referred(f.actorFile, actorAt[k], Length(actors[k]) + 1) = RefsTo(d.credits[actors[k]], films, filmAt)
      BY <2>1, Zenon DEF Reads
    <3>. QED
      BY <1>1, <1>2, <2>1, <2>2, <3>1, Zenon DEF refs
  <2>6. getCredits(f, player) = [r \in 1 .. Len(refs) |-> FilmAt(f.movieFile, refs[r])]
    <3>1. ~(k > n)
      BY <1>2, <2>1
    <3>. QED
      BY <1>4, <2>1, <2>5, <3>1, Zenon DEF getCredits, Answer
  <2>7. Len(refs) = c /\ s = [r \in 1 .. c |-> s[r]]
    <3>1. Len(refs) = c
      BY <2>4
    <3>2. s = [r \in 1 .. Len(s) |-> s[r]]
      OBVIOUS
    <3>. QED
      BY <2>2, <3>1, <3>2, Zenon
  <2>8. \A r \in 1 .. c : FilmAt(f.movieFile, refs[r]) = s[r]
    <3>1. \A j \in 1 .. m : FilmAt(f.movieFile, filmAt[j]) = films[j]
      BY Zenon DEF Reads
    <3>. QED
      BY <2>4, <3>1, Zenon
  <2>. QED
    <3>1. getCredits(f, player) = d.credits[player]
      BY <2>2, <2>6, <2>7, <2>8, Zenon
    <3>2. HasActor(f, player) = (d.credits[player] # <<>>)
      <4>1. HasActor(f, player) = IsNamed(f, At(f.actorFile, 4 * ActorFound(f, player)), player)
            /\ (IsNamed(f, At(f.actorFile, 4 * ActorFound(f, player)), player) <=> actors[k] = player)
        BY <1>7, <2>1, Zenon
      <4>2. IsNamed(f, At(f.actorFile, 4 * ActorFound(f, player)), player) = (d.credits[player] # <<>>)
        BY <1>6, <2>1, <4>1, Zenon DEF IsNamed
      <4>. QED
        BY <4>1, <4>2, Zenon
    <3>. QED
      BY <3>1, <3>2, Zenon
<1>. QED
  BY <1>5, <1>6

\* getCast answers what the database says of a film, if there is a film from it on.
LEMMA CastAnswers ==
  ASSUME NEW d \in Database, NEW f, NEW n, NEW actors, NEW actorAt, NEW m, NEW films, NEW filmAt,
         Reads(d, f, n, actors, actorAt, m, films, filmAt), NEW film \in Film
  PROVE  /\ \/ getCast(f, film) = d.cast[film]
            \/ d.cast[film] = <<>> /\ PastTheEnd(f.movieFile, MovieFound(f, film))
         /\ d.cast[film] # <<>> => getCast(f, film) = d.cast[film]
<1>1. PICK k \in Nat :
           /\ k = MovieFound(f, film)
           /\ film \in InFile(d.cast) => k \in 1 .. m /\ films[k] = film
           /\ film \notin InFile(d.cast) => k = m + 1 \/ (k \in 1 .. m /\ films[k] # film)
  BY MovieIsFound
<1>2. m \in Nat /\ At(f.movieFile, 0) = m
      /\ \A j \in 1 .. m : At(f.movieFile, 4 * j) = filmAt[j] /\ FilmAt(f.movieFile, filmAt[j]) = films[j]
  BY Zenon DEF Reads
<1>3. d.cast \in [Film -> Seq(Actor)] /\ (film \in InFile(d.cast) <=> d.cast[film] # <<>>)
  BY SearchAssumption DEF InFile
<1>4. PastTheEnd(f.movieFile, MovieFound(f, film)) <=> k > m
  BY <1>1, <1>2, Zenon DEF PastTheEnd
<1>5. ASSUME d.cast[film] = <<>> PROVE k > m \/ getCast(f, film) = <<>>
  <2>1. CASE k = m + 1
    BY <1>2, <2>1
  <2>2. CASE k \in 1 .. m /\ films[k] # film
    <3>1. FilmAt(f.movieFile, At(f.movieFile, 4 * MovieFound(f, film))) = films[k]
      BY <1>1, <1>2, <2>2, Zenon
    <3>2. ~PastTheEnd(f.movieFile, MovieFound(f, film))
      BY <1>2, <1>4, <2>2
    <3>. QED
      BY <2>2, <3>1, <3>2, Zenon DEF getCast, Answer
  <2>. QED
    BY <1>1, <1>3, <1>5, <2>1, <2>2
<1>6. ASSUME d.cast[film] # <<>> PROVE getCast(f, film) = d.cast[film]
  <2>1. k \in 1 .. m /\ films[k] = film
    BY <1>1, <1>3, <1>6, Zenon
  <2>2. PICK s \in Seq(Actor), c \in Nat : s = d.cast[film] /\ c = Len(s)
    BY <1>3
  <2>3. \A r \in 1 .. c : \E j \in 1 .. n : actors[j] = s[r]
    <3>1. \A r \in 1 .. c : s[r] \in ToSet(s) /\ s[r] \in Actor
      BY <2>2 DEF ToSet
    <3>2. \A a \in ToSet(s) : d.credits[a] # <<>>
      BY <2>2, FilesAssumption, Zenon
    <3>3. \A a \in Actor : a \in InFile(d.credits) <=> d.credits[a] # <<>>
      BY SearchAssumption DEF InFile
    <3>. QED
      BY <3>1, <3>2, <3>3, Zenon DEF Reads
  <2>. DEFINE refs == RefsTo(s, actors, actorAt)
  <2>4. refs \in [1 .. c -> Nat] /\ \A r \in 1 .. c : \E j \in 1 .. n : actors[j] = s[r] /\ refs[r] = actorAt[j]
    <3>1. n \in Nat /\ DOMAIN actors = 1 .. n /\ Len(actors) = n /\ actorAt \in [1 .. n -> Nat]
      BY DEF Reads
    <3>2. c \in Nat /\ Len(s) = c
      BY <2>2
    <3>3. RefsTo(s, actors, actorAt) \in [1 .. c -> Nat]
      BY <2>3, <3>1, <3>2, ReferencesLead, Zenon
    <3>4. Lead(RefsTo(s, actors, actorAt), c, s, n, actors, actorAt)
      BY <2>3, <3>1, <3>2, ReferencesLead, Zenon
    <3>. QED
      BY <3>3, <3>4, Zenon DEF Lead
  <2>. HIDE DEF refs
  <2>5. Referred(f.movieFile, At(f.movieFile, 4 * MovieFound(f, film)), Length(film[1]) + 2) = refs
    <3>1. Referred(f.movieFile, filmAt[k], Length(films[k][1]) + 2) = RefsTo(d.cast[films[k]], actors, actorAt)
      BY <2>1, Zenon DEF Reads
    <3>. QED
      BY <1>1, <1>2, <2>1, <2>2, <3>1, Zenon DEF refs
  <2>6. getCast(f, film) = [r \in 1 .. Len(refs) |-> At(f.actorFile, refs[r])]
    <3>1. FilmAt(f.movieFile, At(f.movieFile, 4 * MovieFound(f, film))) = film
      BY <1>1, <1>2, <2>1, Zenon
    <3>2. ~PastTheEnd(f.movieFile, MovieFound(f, film))
      BY <1>2, <1>4, <2>1
    <3>. QED
      BY <2>5, <3>1, <3>2, Zenon DEF getCast, Answer
  <2>7. Len(refs) = c /\ s = [r \in 1 .. c |-> s[r]]
    <3>1. Len(refs) = c
      BY <2>4
    <3>2. s = [r \in 1 .. Len(s) |-> s[r]]
      OBVIOUS
    <3>. QED
      BY <2>2, <3>1, <3>2, Zenon
  <2>8. \A r \in 1 .. c : At(f.actorFile, refs[r]) = s[r]
    <3>1. \A j \in 1 .. n : At(f.actorFile, actorAt[j]) = actors[j]
      BY Zenon DEF Reads
    <3>. QED
      BY <2>4, <3>1, Zenon
  <2>. QED
    BY <2>2, <2>6, <2>7, <2>8, Zenon
<1>. QED
  BY <1>4, <1>5, <1>6, Zenon

\* A list that is short enough is shown whole.
LEMMA AllShown ==
  ASSUME NEW n \in Nat, NEW k \in Nat, n <= 2 * k
  PROVE  FirstAndLast(n, k) = [i \in 1 .. n |-> i]
<1>1. PICK first \in 0 .. n : first = IF n < k THEN n ELSE k
  OBVIOUS
<1>2. ~(n - k > first)
  BY <1>1
<1>3. FirstAndLast(n, k) = FromTo(1, first) \o FromTo(first + 1, n)
  BY <1>1, <1>2, Zenon DEF FirstAndLast
<1>4. PICK r \in Nat : r = n - first
  BY <1>1
<1>5. FromTo(1, first) = [i \in 1 .. first |-> i] /\ FromTo(first + 1, n) = [i \in 1 .. r |-> first + i]
  BY <1>1, <1>4 DEF FromTo
<1>6. [i \in 1 .. first |-> i] \o [i \in 1 .. r |-> first + i] = [i \in 1 .. n |-> i]
  BY <1>4
<1>. QED
  BY <1>3, <1>5, <1>6

\* The costars of an actor, with the films they share, as the files give them.
CostarsOf(d, player) ==
  [c \in UNION {ToSet(d.cast[x]) : x \in ToSet(d.credits[player])} \ {player} |->
     {x \in ToSet(d.credits[player]) : c \in ToSet(d.cast[x])}]

LEMMA CostarsAnswer ==
  ASSUME NEW d \in Database, NEW f, NEW n, NEW actors, NEW actorAt, NEW m, NEW films, NEW filmAt,
         Reads(d, f, n, actors, actorAt, m, films, filmAt), NEW player \in Actor, d.credits[player] # <<>>
  PROVE  Costars(f, player) = CostarsOf(d, player)
<1>1. PICK list \in Seq(Film) : list = d.credits[player]
  BY SearchAssumption
<1>2. getCredits(f, player) = list
  BY <1>1, CreditsAnswer, Zenon
<1>3. \A i \in 1 .. Len(list) : getCast(f, list[i]) = d.cast[list[i]]
  <2>. TAKE i \in 1 .. Len(list)
  <2>1. list[i] \in ToSet(list) /\ list[i] \in Film
    BY DEF ToSet
  <2>2. d.cast[list[i]] # <<>>
    BY <1>1, <2>1, FilesAssumption, Zenon
  <2>. QED
    BY <2>1, <2>2, CastAnswers
<1>. DEFINE casts == [i \in 1 .. Len(list) |-> ToSet(d.cast[list[i]])]
<1>4. Costars(f, player) = [c \in UNION ToSet(casts) \ {player} |->
                              {list[i] : i \in {j \in DOMAIN casts : c \in casts[j]}}]
  <2>1. [i \in 1 .. Len(list) |-> ToSet(getCast(f, list[i]))] = casts
    BY <1>3
  <2>. HIDE DEF casts
  <2>. QED
    BY <1>2, <2>1, Zenon DEF Costars
<1>5. DOMAIN casts = 1 .. Len(list) /\ \A i \in 1 .. Len(list) : casts[i] = ToSet(d.cast[list[i]])
  OBVIOUS
<1>6. \A x : x \in ToSet(list) <=> \E i \in 1 .. Len(list) : x = list[i]
  BY DEF ToSet
<1>. HIDE DEF casts
<1>7. ToSet(casts) = {ToSet(d.cast[x]) : x \in ToSet(list)}
  <2>1. \A y : y \in ToSet(casts) <=> \E i \in 1 .. Len(list) : y = ToSet(d.cast[list[i]])
    <3>1. ToSet(casts) = {casts[i] : i \in 1 .. Len(list)}
      BY <1>5, Zenon DEF ToSet
    <3>. QED
      BY <1>5, <3>1, Zenon
  <2>2. \A y : y \in {ToSet(d.cast[x]) : x \in ToSet(list)} <=> \E i \in 1 .. Len(list) : y = ToSet(d.cast[list[i]])
    <3>1. ASSUME NEW y, NEW x \in ToSet(list), y = ToSet(d.cast[x])
          PROVE  \E i \in 1 .. Len(list) : y = ToSet(d.cast[list[i]])
      <4>1. PICK i \in 1 .. Len(list) : x = list[i]
        BY <1>6
      <4>. QED
        BY <3>1, <4>1, Zenon
    <3>2. ASSUME NEW y, NEW i \in 1 .. Len(list), y = ToSet(d.cast[list[i]])
          PROVE  \E x \in ToSet(list) : y = ToSet(d.cast[x])
      <4>1. list[i] \in ToSet(list)
        BY <1>6
      <4>. QED
        BY <3>2, <4>1, Zenon
    <3>. QED
      BY <3>1, <3>2, Zenon
  <2>. QED
    BY <2>1, <2>2, Zenon
<1>8. ASSUME NEW c
      PROVE  {list[i] : i \in {j \in DOMAIN casts : c \in casts[j]}} = {x \in ToSet(list) : c \in ToSet(d.cast[x])}
  <2>1. \A x : x \in {list[i] : i \in {j \in DOMAIN casts : c \in casts[j]}}
                <=> \E i \in 1 .. Len(list) : x = list[i] /\ c \in ToSet(d.cast[list[i]])
    BY <1>5, Zenon
  <2>2. \A x : x \in {y \in ToSet(list) : c \in ToSet(d.cast[y])}
                <=> \E i \in 1 .. Len(list) : x = list[i] /\ c \in ToSet(d.cast[list[i]])
    BY <1>6, Zenon
  <2>. QED
    BY <2>1, <2>2, Zenon
<1>. QED
  BY <1>1, <1>4, <1>7, <1>8, Zenon DEF CostarsOf

LEMMA FilesAgree ==
  ASSUME NEW d \in Database, NEW player \in Actor
  PROVE  ReadersAgree(d, player)
<1>. DEFINE f == Files(d)
<1>1. PICK n, actors, actorAt, m, films, filmAt : Reads(d, f, n, actors, actorAt, m, films, filmAt)
  BY FilesAreRead
<1>. HIDE DEF f
<1>2. \/ HasActor(f, player) = (d.credits[player] # <<>>) /\ getCredits(f, player) = d.credits[player]
      \/ ~(d.credits[player] # <<>>) /\ PastTheEnd(f.actorFile, ActorFound(f, player))
  BY <1>1, CreditsAnswer, Zenon
<1>3. d.credits[player] # <<>> => getCredits(f, player) = d.credits[player]
  BY <1>1, CreditsAnswer, Zenon
<1>4. \A film \in DOMAIN d.cast :
        \/ getCast(f, film) = d.cast[film]
        \/ d.cast[film] = <<>> /\ PastTheEnd(f.movieFile, MovieFound(f, film))
  <2>1. DOMAIN d.cast = Film
    BY SearchAssumption
  <2>. QED
    BY <1>1, <2>1, CastAnswers
<1>. DEFINE shared(c) == {x \in ToSet(d.credits[player]) : c \in ToSet(d.cast[x])}
            costars == UNION {ToSet(d.cast[x]) : x \in ToSet(d.credits[player])} \ {player}
            findings == Findings(f, player)
<1>5. ASSUME d.credits[player] # <<>>, Len(d.credits[player]) <= 2 * kNumToPrint
      PROVE  findings.movies = d.credits[player]
  <2>1. PICK list \in Seq(Film), c \in Nat : list = d.credits[player] /\ c = Len(list)
    BY SearchAssumption
  <2>2. FirstAndLast(c, kNumToPrint) = [i \in 1 .. c |-> i]
    <3>1. c <= 2 * kNumToPrint
      BY <1>5, <2>1
    <3>. QED
      BY <3>1, AllShown, FilesAssumption
  <2>3. findings.movies = [k \in 1 .. Len(FirstAndLast(c, kNumToPrint)) |-> list[FirstAndLast(c, kNumToPrint)[k]]]
    BY <1>3, <1>5, <2>1, Zenon DEF Findings
  <2>4. PICK whole : whole = [i \in 1 .. c |-> i]
    OBVIOUS
  <2>5. Len(whole) = c /\ \A k \in 1 .. c : whole[k] = k
    BY <2>4
  <2>. HIDE DEF findings
  <2>6. findings.movies = [k \in 1 .. c |-> list[k]]
    BY <2>2, <2>3, <2>4, <2>5
  <2>. QED
    BY <2>1, <2>6
<1>6. ASSUME d.credits[player] # <<>>, Cardinality(costars) <= 2 * kNumToPrint
      PROVE  /\ IsSorted(findings.people, LAMBDA x, y : x[1] <= y[1])
             /\ ToSet(findings.people) = {<<c, Cardinality(shared(c))>> : c \in costars}
  <2>1. IsFiniteSet(costars) /\ costars \subseteq Int
    <3>1. \A x \in ToSet(d.credits[player]) : ToSet(d.cast[x]) \subseteq Actor
      <4>1. d.credits[player] \in Seq(Film) /\ d.cast \in [Film -> Seq(Actor)]
        BY SearchAssumption
      <4>2. ToSet(d.credits[player]) \subseteq Film /\ \A s \in Seq(Actor) : ToSet(s) \subseteq Actor
        BY <4>1 DEF ToSet
      <4>. QED
        BY <4>1, <4>2
    <3>2. costars \subseteq Actor
      BY <3>1
    <3>. HIDE DEF costars
    <3>. QED
      BY <3>2, SearchAssumption, FilesAssumption, FS_Subset
  <2>. HIDE DEF costars, shared
  <2>2. PICK s, c : /\ c \in Nat /\ s \in [1 .. c -> costars] /\ s = InOrder(costars, <)
                    /\ Len(s) = c /\ c = Cardinality(costars)
                    /\ \A i, j \in 1 .. c : i < j => s[i] < s[j]
                    /\ \A x \in costars : \E k \in 1 .. c : s[k] = x
    <3>1. PICK s \in [1 .. Cardinality(costars) -> costars] :
             /\ s = InOrder(costars, <) /\ Len(s) = Cardinality(costars)
             /\ \A i, j \in 1 .. Len(s) : i < j => s[i] < s[j]
             /\ \A x \in costars : \E i \in 1 .. Len(s) : s[i] = x
      BY <2>1, NumbersInOrder, Zenon
    <3>2. PICK c \in Nat : c = Cardinality(costars)
      BY <2>1, FS_CardinalityType
    <3>3. /\ c \in Nat /\ s \in [1 .. c -> costars] /\ s = InOrder(costars, <)
          /\ Len(s) = c /\ c = Cardinality(costars)
          /\ \A i, j \in 1 .. c : i < j => s[i] < s[j]
          /\ \A x \in costars : \E k \in 1 .. c : s[k] = x
      BY <3>1, <3>2, Zenon
    <3>. QED
      BY <3>3, Zenon
  <2>7. /\ c \in Nat /\ s \in [1 .. c -> costars] /\ Len(s) = c
        /\ \A i, j \in 1 .. c : i < j => s[i] < s[j]
        /\ \A x \in costars : \E k \in 1 .. c : s[k] = x
    BY <2>2, Zenon
  <2>3. FirstAndLast(c, kNumToPrint) = [i \in 1 .. c |-> i]
    <3>1. c <= 2 * kNumToPrint
      BY <1>6, <2>2, Zenon
    <3>. QED
      BY <2>7, <3>1, AllShown, FilesAssumption
  <2>4. findings.people = [k \in 1 .. c |-> <<s[k], Cardinality(shared(s[k]))>>]
    <3>1. Costars(f, player) = [x \in costars |-> shared(x)]
      <4>1. Costars(f, player) = CostarsOf(d, player)
        BY <1>1, <1>6, CostarsAnswer
      <4>. QED
        BY <4>1, Zenon DEF CostarsOf, costars, shared
    <3>2. DOMAIN Costars(f, player) = costars /\ \A x \in costars : Costars(f, player)[x] = shared(x)
      BY <3>1
    <3>3. PICK whole : whole = FirstAndLast(c, kNumToPrint) /\ Len(whole) = c /\ \A k \in 1 .. c : whole[k] = k
      BY <2>3, <2>7
    <3>4. findings.people
            = [k \in 1 .. Len(whole) |-> <<s[whole[k]], Cardinality(Costars(f, player)[s[whole[k]]])>>]
      BY <2>2, <3>2, <3>3, Zenon DEF Findings
    <3>5. \A k \in 1 .. c : s[k] \in costars
      BY <2>7
    <3>. QED
      BY <3>2, <3>3, <3>4, <3>5
  <2>. HIDE DEF findings
  <2>5. IsSorted(findings.people, LAMBDA x, y : x[1] <= y[1])
    <3>1. Len(findings.people) = c /\ \A k \in 1 .. c : findings.people[k][1] = s[k]
      BY <2>4, <2>7
    <3>2. \A i, j \in 1 .. c : i < j => findings.people[i][1] <= findings.people[j][1]
      <4>1. \A k \in 1 .. c : s[k] \in Int
        BY <2>1, <2>7
      <4>2. \A i, j \in 1 .. c : i < j => s[i] <= s[j]
        BY <2>7, <4>1
      <4>. QED
        BY <3>1, <4>2
    <3>. QED
      BY <3>1, <3>2, Zenon DEF IsSorted
  <2>6. ToSet(findings.people) = {<<x, Cardinality(shared(x))>> : x \in costars}
    <3>1. ToSet(findings.people) = {<<s[k], Cardinality(shared(s[k]))>> : k \in 1 .. c}
      BY <2>4 DEF ToSet
    <3>2. \A x : x \in costars <=> \E k \in 1 .. c : s[k] = x
      BY <2>7
    <3>. QED
      BY <3>1, <3>2, Zenon
  <2>. QED
    BY <2>5, <2>6, Zenon
<1>. HIDE DEF findings, shared, costars
<1>. QED
  BY <1>2, <1>3, <1>4, <1>5, <1>6, Zenon DEF ReadersAgree, f, findings, shared, costars

\* For every database, the readers of imdb.cc find in its files the credits of every
\* actor and the cast of every film, and imdbtest lists the costars that these give.
THEOREM FilesAreRight == Spec => []FilesAnswer
<1>. DEFINE Starts == step = "main" => db \in Database /\ source \in Actor
<1>1. Init => Starts
  BY DEF Init, SearchInit, SearchIdle
<1>2. Starts /\ [Next]_vars => Starts'
  <2>. SUFFICES ASSUME Starts, [Next]_vars, step' = "main" PROVE (db \in Database /\ source \in Actor)'
    OBVIOUS
  <2>1. ~SearchNext
    BY DEF SearchNext, Refuse, BeginSearch, NextActor, ReadPastTheEnd, NoPath, NextFilm, EndOfFilms,
           NextCostar, EndOfCast, AddConnection, PrintPath, Goto
  <2>2. UNCHANGED searchVars
    BY <2>1 DEF Next, vars
  <2>. QED
    BY <2>2 DEF searchVars, inputs
<1>3. Starts => FilesAnswer
  BY FilesAgree DEF FilesAnswer
<1>. HIDE DEF Starts
<1>. QED
  BY <1>1, <1>2, <1>3, PTL DEF Spec

-------------------------------------------------------------------------------
(* diskimageaccess: what is read of an image is what was written to it.  First  *)
(* the arithmetic of block numbers.                                             *)
LEMMA Division ==
  ASSUME NEW d \in Nat, d # 0, NEW n \in Nat
  PROVE  \E q \in Nat, r \in 0 .. d - 1 : q = n \div d /\ r = n % d /\ n = q * d + r
<1>1. n % d \in 0 .. d - 1
  OBVIOUS
<1>2. n % d = n - d * (n \div d)
  BY Z3
<1>3. n \div d \in Int
  OBVIOUS
<1>4. n \div d >= 0
  OBVIOUS
<1>5. PICK q, r : q = n \div d /\ r = n % d
  OBVIOUS
<1>6. q \in Nat /\ r \in 0 .. d - 1
  <2>1. q \in Nat
    BY <1>3, <1>4, <1>5
  <2>. QED
    BY <1>1, <1>5, <2>1, Zenon
<1>7. r = n - d * q
  BY <1>2, <1>5, Zenon
<1>8. n = q * d + r
  BY <1>6, <1>7
<1>. QED
  BY <1>5, <1>6, <1>8

LEMMA Unique ==
  ASSUME NEW d \in Nat, d # 0, NEW q \in Nat, NEW r \in 0 .. d - 1, NEW n, n = q * d + r
  PROVE  n \div d = q /\ n % d = r
<1>1. n \in Nat
  OBVIOUS
<1>2. PICK a \in Nat, b \in 0 .. d - 1 : a = n \div d /\ b = n % d /\ n = a * d + b
  BY <1>1, Division
<1>3. a = q
  <2>1. CASE a > q
    <3>1. PICK k \in Nat : a = q + 1 + k
      <4>1. a - q - 1 \in Nat /\ a = q + 1 + (a - q - 1)
        BY <2>1
      <4>. QED
        BY <4>1
    <3>2. a * d = q * d + d + k * d /\ k * d \in Nat
      BY <3>1
    <3>. QED
      BY <1>2, <3>2
  <2>2. CASE a < q
    <3>1. PICK k \in Nat : q = a + 1 + k
      <4>1. q - a - 1 \in Nat /\ q = a + 1 + (q - a - 1)
        BY <2>2
      <4>. QED
        BY <4>1
    <3>2. q * d = a * d + d + k * d /\ k * d \in Nat
      BY <3>1
    <3>. QED
      BY <1>2, <3>2
  <2>. QED
    BY <2>1, <2>2
<1>. QED
  BY <1>2, <1>3

LEMMA Geometry ==
  /\ Singles \in Nat \ {0} /\ MaxBlocks \in Nat \ {0} /\ Span \in Nat \ {0}
  /\ MaxBlocks = Singles * BNUMS_PER_BLOCK /\ Span = MaxBlocks + Singles + 1
  /\ Singles = INDIR_ADDR + BNUMS_PER_BLOCK /\ Span > 2
<1>1. Singles \in Nat \ {0} /\ Singles = INDIR_ADDR + BNUMS_PER_BLOCK
  BY SizesAreNat DEF Singles
<1>2. MaxBlocks \in Nat \ {0} /\ MaxBlocks = Singles * BNUMS_PER_BLOCK
  <2>1. PICK a \in Nat, b \in Nat : a + 1 = Singles /\ b + 1 = BNUMS_PER_BLOCK
    <3>1. Singles - 1 \in Nat /\ BNUMS_PER_BLOCK - 1 \in Nat
      BY <1>1, SizesAreNat
    <3>2. (Singles - 1) + 1 = Singles /\ (BNUMS_PER_BLOCK - 1) + 1 = BNUMS_PER_BLOCK
      BY <1>1, SizesAreNat
    <3>. QED
      BY <3>1, <3>2
  <2>2. (a + 1) * (b + 1) = a * b + a + b + 1 /\ a * b \in Nat
    OBVIOUS
  <2>3. MaxBlocks = (a + 1) * (b + 1)
    BY <2>1 DEF MaxBlocks
  <2>4. MaxBlocks = Singles * BNUMS_PER_BLOCK
    BY DEF MaxBlocks
  <2>. QED
    BY <2>2, <2>3, <2>4
<1>. QED
  BY <1>1, <1>2 DEF Span

\* Which file, and what of it, a sector of an image belongs to.
LEMMA SectorOf ==
  ASSUME NEW t \in Tree, NEW i \in 0 .. Len(t), NEW r \in 0 .. Span - 1, NEW n, n = i * Span + r
  PROVE  /\ n \in 0 .. (Len(t) + 1) * Span /\ n \div Span = i /\ n % Span = r
         /\ i > 0 => n > 2
<1>1. Len(t) \in Nat /\ Span \in Nat /\ Span > 2
  BY TreesFit, Geometry
<1>2. n \div Span = i /\ n % Span = r
  <2>1. i \in Nat /\ Span # 0
    BY <1>1
  <2>. QED
    BY <1>1, <2>1, Unique
<1>3. n \in Nat /\ n <= (Len(t) + 1) * Span
  <2>1. PICK k \in Nat : Len(t) = i + k
    <3>1. Len(t) - i \in Nat /\ Len(t) = i + (Len(t) - i)
      BY <1>1
    <3>. QED
      BY <3>1
  <2>2. (Len(t) + 1) * Span = i * Span + k * Span + Span /\ k * Span \in Nat /\ i * Span \in Nat
    BY <1>1, <2>1
  <2>. QED
    BY <1>1, <2>2
<1>4. ASSUME i > 0 PROVE n > 2
  <2>1. PICK k \in Nat : i = k + 1
    <3>1. i - 1 \in Nat /\ i = (i - 1) + 1
      BY <1>4
    <3>. QED
      BY <3>1
  <2>2. i * Span = k * Span + Span /\ k * Span \in Nat
    BY <1>1, <2>1
  <2>. QED
    BY <1>1, <2>2
<1>. QED
  BY <1>1, <1>2, <1>3, <1>4

LEMMA DataSector ==
  ASSUME NEW t \in Tree, NEW i \in 1 .. Len(t), NEW k \in 0 .. MaxBlocks - 1
  PROVE  Disk(t)[Data(i, k)] = Content(t, i, k)
<1>1. PICK n : n = Data(i, k) /\ n = i * Span + k
  BY DEF Data
<1>2. k \in 0 .. Span - 1 /\ i \in 0 .. Len(t) /\ i > 0 /\ k < MaxBlocks
  BY Geometry, TreesFit
<1>3. n \in 0 .. (Len(t) + 1) * Span /\ n \div Span = i /\ n % Span = k /\ n > 2
  BY <1>1, <1>2, SectorOf
<1>4. Disk(t)[n] = Content(t, n \div Span, n % Span)
  <2>1. /\ n # BOOTBLOCK_SECTOR /\ n # SUPERBLOCK_SECTOR /\ ~(n >= INODE_START_SECTOR /\ n \div Span = 0)
        /\ n \div Span > 0 /\ n % Span < MaxBlocks /\ ~(n % Span >= MaxBlocks)
    <3>1. n \in Int /\ n > 2 /\ MaxBlocks \in Nat /\ k \in Int /\ ~(k >= MaxBlocks) /\ i # 0
      <4>1. MaxBlocks \in Nat
        BY Geometry
      <4>2. n \in Int /\ n > 2
        BY <1>3
      <4>3. k \in Int /\ ~(k >= MaxBlocks)
        BY <4>1
      <4>4. i # 0
        BY <1>2
      <4>. QED
        BY <4>1, <4>2, <4>3, <4>4
    <3>2. n # BOOTBLOCK_SECTOR /\ n # SUPERBLOCK_SECTOR
      BY <3>1 DEF BOOTBLOCK_SECTOR, SUPERBLOCK_SECTOR
    <3>. QED
      BY <1>2, <1>3, <3>1, <3>2, Zenon
  <2>. QED
    BY <1>3, <2>1, Zenon DEF Disk
<1>. QED
  BY <1>1, <1>3, <1>4, Zenon

LEMMA SingleSector ==
  ASSUME NEW t \in Tree, NEW i \in 1 .. Len(t), NEW j \in 0 .. Singles - 1, NEW e \in 1 .. BNUMS_PER_BLOCK
  PROVE  Disk(t)[Single(i, j)][e] = Data(i, j * BNUMS_PER_BLOCK + e - 1)
<1>1. PICK n, r : n = Single(i, j) /\ r = MaxBlocks + j /\ n = i * Span + r
  <2>1. \A a, m, b \in Int : a + m + b = a + (m + b)
    OBVIOUS
  <2>2. i * Span \in Int /\ MaxBlocks \in Int /\ j \in Int
    BY Geometry
  <2>3. i * Span + MaxBlocks + j = i * Span + (MaxBlocks + j)
    BY <2>1, <2>2, Zenon
  <2>. QED
    BY <2>3 DEF Single
<1>2. r \in 0 .. Span - 1 /\ i \in 0 .. Len(t) /\ i > 0 /\ r >= MaxBlocks /\ r < MaxBlocks + Singles /\ r - MaxBlocks = j
  <2>1. Len(t) \in Nat /\ r = MaxBlocks + j
    BY <1>1, TreesFit
  <2>2. Singles \in Nat /\ MaxBlocks \in Nat /\ Span = MaxBlocks + Singles + 1
    BY Geometry
  <2>3. j \in Nat /\ j < Singles
    BY <2>2
  <2>4. i \in 0 .. Len(t) /\ i > 0
    BY <2>1
  <2>. QED
    BY <2>1, <2>2, <2>3, <2>4
<1>3. n \in 0 .. (Len(t) + 1) * Span /\ n \div Span = i /\ n % Span = r /\ n > 2
  BY <1>1, <1>2, SectorOf
<1>4. ~(r < MaxBlocks)
  BY <1>2, Geometry
<1>. QED
  BY <1>1, <1>2, <1>3, <1>4 DEF Disk, BOOTBLOCK_SECTOR, SUPERBLOCK_SECTOR, INODE_START_SECTOR

LEMMA DoubleSector ==
  ASSUME NEW t \in Tree, NEW i \in 1 .. Len(t), NEW e \in 1 .. BNUMS_PER_BLOCK
  PROVE  Disk(t)[Double(i)][e] = Single(i, INDIR_ADDR + e - 1)
<1>1. PICK n, r : n = Double(i) /\ r = MaxBlocks + Singles /\ n = i * Span + r
  <2>1. i * Span + MaxBlocks + Singles = i * Span + (MaxBlocks + Singles)
    BY Geometry, TreesFit
  <2>. QED
    BY <2>1 DEF Double
<1>2. r \in 0 .. Span - 1 /\ i \in 0 .. Len(t) /\ i > 0 /\ ~(r < MaxBlocks) /\ ~(r < MaxBlocks + Singles)
  <2>1. i \in 0 .. Len(t) /\ i > 0
    BY TreesFit
  <2>2. PICK m \in Nat, s \in Nat : m = MaxBlocks /\ s = Singles /\ s > 0 /\ Span = m + s + 1
    BY Geometry
  <2>3. r = m + s
    BY <1>1, <2>2
  <2>. QED
    BY <2>1, <2>2, <2>3
<1>3. n \in 0 .. (Len(t) + 1) * Span /\ n \div Span = i /\ n % Span = r /\ n > 2
  BY <1>1, <1>2, SectorOf
<1>. QED
  BY <1>1, <1>2, <1>3 DEF Disk, BOOTBLOCK_SECTOR, SUPERBLOCK_SECTOR, INODE_START_SECTOR

\* What inode_iget reads is the inode that was written.
LEMMA InodeSector ==
  ASSUME NEW t \in Tree, NEW i \in 1 .. InodeSectors(t) * INO_PER_BLOCK
  PROVE  Disk(t)[INODE_START_SECTOR + (i - 1) \div INO_PER_BLOCK][((i - 1) % INO_PER_BLOCK) + 1] = Inode(t, i)
<1>1. INO_PER_BLOCK \in Nat \ {0} /\ Len(t) \in Nat /\ Span \in Nat /\ Span > 2
      /\ INODE_START_SECTOR + InodeSectors(t) <= Span
  BY SizesAreNat, TreesFit, Geometry
<1>2. PICK m : m = Len(t) + INO_PER_BLOCK - 1
  OBVIOUS
<1>3. m \in Nat /\ InodeSectors(t) = m \div INO_PER_BLOCK
  BY <1>1, <1>2 DEF InodeSectors
<1>4. PICK isize : isize = InodeSectors(t) /\ isize \in Nat
  BY <1>1, <1>3, Division
<1>5. i \in Nat /\ i > 0 /\ i <= isize * INO_PER_BLOCK
  BY <1>1, <1>4
<1>6. PICK q \in Nat, r \in 0 .. INO_PER_BLOCK - 1 :
        q = (i - 1) \div INO_PER_BLOCK /\ r = (i - 1) % INO_PER_BLOCK /\ i - 1 = q * INO_PER_BLOCK + r
  <2>1. i - 1 \in Nat
    BY <1>5
  <2>. QED
    BY <1>1, <2>1, Division
<1>7. q < isize
  <2>1. SUFFICES ASSUME q >= isize PROVE FALSE
    BY <1>4
  <2>2. PICK k \in Nat : q = isize + k
    <3>1. q - isize \in Nat /\ q = isize + (q - isize)
      BY <1>4, <2>1
    <3>. QED
      BY <3>1
  <2>3. q * INO_PER_BLOCK = isize * INO_PER_BLOCK + k * INO_PER_BLOCK /\ k * INO_PER_BLOCK \in Nat
    BY <1>1, <1>4, <2>2
  <2>4. isize * INO_PER_BLOCK \in Nat /\ r \in Nat
    BY <1>1, <1>4
  <2>. QED
    BY <1>5, <1>6, <2>3, <2>4
<1>8. PICK n : n = INODE_START_SECTOR + q
  OBVIOUS
<1>9. n \in 0 .. Span - 1 /\ n >= 2 /\ n - 2 = q
  BY <1>1, <1>4, <1>7, <1>8 DEF INODE_START_SECTOR
<1>10. n \in 0 .. (Len(t) + 1) * Span /\ n \div Span = 0
  <2>1. n = 0 * Span + n /\ 0 \in 0 .. Len(t)
    BY <1>1, <1>9
  <2>. QED
    BY <1>9, <2>1, SectorOf
<1>11. Disk(t)[n] = [e \in 1 .. INO_PER_BLOCK |-> Inode(t, (n - 2) * INO_PER_BLOCK + e)]
  BY <1>9, <1>10 DEF Disk, BOOTBLOCK_SECTOR, SUPERBLOCK_SECTOR, INODE_START_SECTOR
<1>12. r + 1 \in 1 .. INO_PER_BLOCK /\ q * INO_PER_BLOCK + (r + 1) = i
  BY <1>1, <1>5, <1>6
<1>13. Disk(t)[n][r + 1] = Inode(t, i)
  BY <1>9, <1>11, <1>12
<1>. QED
  BY <1>6, <1>8, <1>13, Zenon

-------------------------------------------------------------------------------
\* How many blocks a size takes, and how much of the last one.
LEMMA SizeInBlocks ==
  ASSUME NEW f, f.size \in Nat
  PROVE  /\ f.size = 0 => BlocksOf(f) = 0
         /\ f.size > 0 => /\ LastBlock(f.size) \in Nat /\ BlocksOf(f) = LastBlock(f.size) + 1
                          /\ f.size - LastBlock(f.size) * DISKIMG_SECTOR_SIZE
                               = ((f.size - 1) % DISKIMG_SECTOR_SIZE) + 1
<1>1. PICK size \in Nat, S \in Nat : size = f.size /\ S = DISKIMG_SECTOR_SIZE /\ S # 0
  BY SizesAreNat
<1>2. CASE size = 0
  <2>1. S - 1 \in Nat /\ S - 1 = 0 * S + (S - 1) /\ S - 1 \in 0 .. S - 1 /\ 0 + S - 1 = S - 1
    BY <1>1
  <2>0. PICK n : n = S - 1
    OBVIOUS
  <2>2. n \div S = 0
    BY <1>1, <2>0, <2>1, Unique
  <2>3. BlocksOf(f) = 0
    BY <1>1, <1>2, <2>0, <2>1, <2>2, Zenon DEF BlocksOf
  <2>. QED
    BY <1>1, <1>2, <2>3
<1>3. CASE size > 0
  <2>1. size - 1 \in Nat
    BY <1>3
  <2>2. PICK q \in Nat, r \in 0 .. S - 1 : q = (size - 1) \div S /\ r = (size - 1) % S /\ size - 1 = q * S + r
    BY <1>1, <2>1, Division
  <2>3. size + S - 1 = (q + 1) * S + r /\ q + 1 \in Nat
    BY <2>2
  <2>4. (size + S - 1) \div S = q + 1
    <3>1. PICK n, m : n = size + S - 1 /\ m = q + 1
      OBVIOUS
    <3>2. m \in Nat /\ n = m * S + r
      BY <2>3, <3>1, Zenon
    <3>3. n \div S = m
      BY <1>1, <3>2, Unique
    <3>. QED
      BY <3>1, <3>3, Zenon
  <2>5. BlocksOf(f) = q + 1
    BY <1>1, <2>4, Zenon DEF BlocksOf
  <2>6. LastBlock(size) = q
    <3>1. size # 0
      BY <1>3
    <3>. QED
      BY <1>1, <2>2, <3>1, Zenon DEF LastBlock
  <2>7. size - q * S = r + 1
    BY <2>2
  <2>8. size - LastBlock(size) * S = ((size - 1) % S) + 1
    BY <2>2, <2>6, <2>7, Zenon
  <2>9. BlocksOf(f) = LastBlock(size) + 1 /\ LastBlock(size) \in Nat
    BY <2>2, <2>5, <2>6
  <2>10. f.size # 0
    BY <1>1, <1>3
  <2>. QED
    BY <1>1, <2>8, <2>9, <2>10, Zenon
<1>. QED
  BY <1>1, <1>2, <1>3

LEMMA SizeIsRead ==
  ASSUME NEW t \in Tree, NEW i \in 1 .. Len(t)
  PROVE  inode_getsize(Inode(t, i)) = t[i].size
<1>1. PICK size \in Nat, base \in Nat \ {0} : size = t[i].size /\ base = SIZE_BASE
  BY TreesFit, SizesAreNat
<1>2. File(t, i) = t[i]
  BY TreesFit DEF File
<1>3. PICK q \in Nat, r \in 0 .. base - 1 : q = size \div base /\ r = size % base /\ size = q * base + r
  BY <1>1, Division
<1>4. Inode(t, i).size0 = q /\ Inode(t, i).size1 = r
  BY <1>1, <1>2, <1>3 DEF Inode
<1>5. inode_getsize(Inode(t, i)) = q * base + r
  BY <1>1, <1>4, Zenon DEF inode_getsize
<1>. QED
  BY <1>1, <1>3, <1>5

(* The block that inode_indexlookup finds is the one that was written, whether *)
(* the inode numbers it, a singly indirect block does, or a doubly indirect    *)
(* one numbers the block that does.                                            *)
LEMMA BlockFound ==
  ASSUME tree \in Tree, disk = Disk(tree), NEW i \in 1 .. Len(tree), NEW k \in 0 .. BlocksOf(tree[i]) - 1
  PROVE  inode_indexlookup(Inode(tree, i), k) = Data(i, k)
<1>15. PICK inp : inp = Inode(tree, i)
  OBVIOUS
<1>0. PICK B \in Nat, A \in Nat : B = BNUMS_PER_BLOCK /\ A = INDIR_ADDR /\ B # 0
  BY SizesAreNat
<1>1. PICK blocks : /\ blocks = BlocksOf(tree[i])
                    /\ B = BNUMS_PER_BLOCK /\ A = INDIR_ADDR /\ B # 0
  BY <1>0
<1>2. tree[i].size \in Nat /\ blocks <= (IF tree[i].large THEN MaxBlocks ELSE A + 1) /\ File(tree, i) = tree[i]
  BY <1>1, TreesFit DEF File
<1>3. PICK last : last = LastBlock(inode_getsize(inp)) /\ last \in Nat /\ blocks = last + 1
  <2>1. tree[i].size > 0
    BY <1>1, <1>2, SizeInBlocks
  <2>. QED
    BY <1>1, <1>2, <1>15, <2>1, SizeInBlocks, SizeIsRead
<1>4. k \in Nat /\ k >= 0 /\ k <= last /\ k < blocks
  BY <1>1, <1>3
<1>14. k >= 0 /\ k <= LastBlock(inode_getsize(inp))
  BY <1>3, <1>4, Zenon
<1>5. inp.large = tree[i].large /\ \A a \in 0 .. A :
        inp.addr[a] = CASE ~tree[i].large /\ a < blocks -> Data(i, a)
                        [] tree[i].large /\ a < A /\ a * B < blocks -> Single(i, a)
                        [] tree[i].large /\ a = A /\ A * B < blocks -> Double(i)
                        [] OTHER -> 0
  BY <1>1, <1>2, <1>15 DEF Inode
<1>6. max_sindir_blocks_size = A * B /\ A * B \in Nat
  BY <1>1 DEF max_sindir_blocks_size
<1>7. Singles = A + B /\ MaxBlocks = A * B + B * B
  <2>1. Singles = A + B
    BY <1>1 DEF Singles
  <2>2. MaxBlocks = (A + B) * B
    BY <1>1, <2>1 DEF MaxBlocks
  <2>. QED
    BY <2>1, <2>2
<1>8. CASE ~tree[i].large
  <2>1. k \in 0 .. A
    BY <1>1, <1>2, <1>3, <1>4, <1>8
  <2>2. inp.addr[k] = Data(i, k)
    BY <1>4, <1>5, <1>8, <2>1
  <2>. QED
    BY <1>15, <1>14, <1>5, <1>8, <2>2, Zenon DEF inode_indexlookup
<1>9. CASE tree[i].large /\ k < A * B
  <2>1. PICK a \in Nat, e \in 0 .. B - 1 : a = k \div B /\ e = k % B /\ k = a * B + e
    BY <1>1, <1>4, Division
  <2>2. a < A
    <3>1. SUFFICES ASSUME a >= A PROVE FALSE
      BY <1>1
    <3>2. PICK m \in Nat : a = A + m
      <4>1. a - A \in Nat /\ a = A + (a - A)
        BY <3>1
      <4>. QED
        BY <4>1
    <3>3. a * B = A * B + m * B /\ m * B \in Nat
      BY <3>2
    <3>. QED
      BY <1>6, <1>9, <2>1, <3>3
  <2>3. a * B < blocks
    <3>1. a * B \in Nat
      OBVIOUS
    <3>. QED
      BY <1>3, <1>4, <2>1, <3>1
  <2>4. inp.addr[a] = Single(i, a)
    BY <1>5, <1>9, <2>2, <2>3
  <2>5. Disk(tree)[Single(i, a)][e + 1] = Data(i, a * B + (e + 1) - 1)
    <3>1. a \in 0 .. Singles - 1 /\ e + 1 \in 1 .. BNUMS_PER_BLOCK
      BY <1>1, <1>7, <2>2
    <3>. QED
      BY <1>1, <3>1, SingleSector
  <2>6. a * B + (e + 1) - 1 = k
    BY <2>1
  <2>7. disk[inp.addr[k \div B]][(k % B) + 1] = Data(i, k)
    BY <2>1, <2>4, <2>5, <2>6, Zenon
  <2>8. SinglyIndirect(k)
    BY <1>6, <1>9 DEF SinglyIndirect
  <2>. QED
    BY <1>15, <1>1, <1>14, <1>5, <1>9, <2>7, <2>8, Zenon DEF inode_indexlookup, diskimg_readsector
<1>10. CASE tree[i].large /\ ~(k < A * B)
  <2>0. PICK n \in Nat : n = k - A * B /\ n < B * B /\ k = A * B + n
    <3>1. B * B \in Nat
      OBVIOUS
    <3>. QED
      BY <1>2, <1>3, <1>4, <1>6, <1>7, <1>10, <3>1
  <2>1. PICK a \in Nat, e \in 0 .. B - 1 : a = n \div B /\ e = n % B /\ n = a * B + e
    BY <1>1, Division
  <2>2. a < B
    <3>1. SUFFICES ASSUME a >= B PROVE FALSE
      BY <1>1
    <3>2. PICK m \in Nat : a = B + m
      <4>1. a - B \in Nat /\ a = B + (a - B)
        BY <3>1
      <4>. QED
        BY <4>1
    <3>3. a * B = B * B + m * B /\ m * B \in Nat /\ B * B \in Nat
      BY <3>2
    <3>. QED
      BY <2>0, <2>1, <3>3
  <2>3. A * B < blocks
    BY <1>3, <1>4, <1>6, <1>10
  <2>4. inp.addr[A] = Double(i)
    <3>1. A \in 0 .. A /\ ~(A < A)
      OBVIOUS
    <3>. QED
      BY <1>5, <1>10, <2>3, <3>1
  <2>5. Disk(tree)[Double(i)][a + 1] = Single(i, A + a)
    <3>1. a + 1 \in 1 .. BNUMS_PER_BLOCK /\ A + (a + 1) - 1 = A + a
      BY <1>1, <2>2
    <3>. QED
      BY <1>1, <3>1, DoubleSector
  <2>6. Disk(tree)[Single(i, A + a)][e + 1] = Data(i, k)
    <3>1. A + a \in 0 .. Singles - 1 /\ e + 1 \in 1 .. BNUMS_PER_BLOCK
      BY <1>1, <1>7, <2>2
    <3>2. Disk(tree)[Single(i, A + a)][e + 1] = Data(i, (A + a) * B + (e + 1) - 1)
      BY <1>1, <3>1, SingleSector
    <3>3. (A + a) * B = A * B + a * B /\ a * B \in Nat
      OBVIOUS
    <3>4. (A + a) * B + (e + 1) - 1 = k
      BY <1>6, <2>0, <2>1, <3>3
    <3>. QED
      BY <3>2, <3>4, Zenon
  <2>7. disk[disk[inp.addr[A]][(n \div B) + 1]][(n % B) + 1] = Data(i, k)
    BY <2>1, <2>4, <2>5, <2>6, Zenon
  <2>8. ~SinglyIndirect(k) /\ k - max_sindir_blocks_size = n
    BY <1>6, <1>10, <2>0 DEF SinglyIndirect
  <2>. QED
    BY <1>15, <1>1, <1>14, <1>5, <1>10, <2>7, <2>8, Zenon DEF inode_indexlookup, diskimg_readsector
<1>. QED
  BY <1>8, <1>9, <1>10

-------------------------------------------------------------------------------
\* The i list has room for every file.
LEMMA Room ==
  ASSUME NEW t \in Tree
  PROVE  InodeSectors(t) \in Nat /\ Len(t) <= InodeSectors(t) * INO_PER_BLOCK
<1>1. PICK ino \in Nat, len \in Nat : ino = INO_PER_BLOCK /\ len = Len(t) /\ ino # 0
  BY SizesAreNat, TreesFit
<1>2. PICK m \in Nat : m = len + ino - 1
  <2>1. len + ino - 1 \in Nat
    BY <1>1
  <2>. QED
    BY <2>1
<1>3. PICK q \in Nat, r \in 0 .. ino - 1 : q = m \div ino /\ r = m % ino /\ m = q * ino + r
  BY <1>1, <1>2, Division, Zenon
<1>4. q * ino \in Nat
  OBVIOUS
<1>5. len <= q * ino
  BY <1>1, <1>2, <1>3, <1>4
<1>6. InodeSectors(t) = q
  BY <1>1, <1>2, <1>3, Zenon DEF InodeSectors
<1>. QED
  BY <1>1, <1>5, <1>6, Zenon

LEMMA Superblock ==
  ASSUME tree \in Tree, disk = Disk(tree)
  PROVE  s_isize = InodeSectors(tree)
<1>1. Span \in Nat /\ Span > 2 /\ Len(tree) \in Nat
  BY Geometry, TreesFit
<1>2. PICK k : k = Len(tree) * Span
  OBVIOUS
<1>3. k \in Nat /\ (Len(tree) + 1) * Span = k + Span
  BY <1>1, <1>2
<1>4. 1 \in 0 .. (Len(tree) + 1) * Span
  BY <1>1, <1>3
<1>6. PICK n : n = 1
  OBVIOUS
<1>7. n \div Span = 0
  <2>1. n = 0 * Span + n /\ 0 \in 0 .. Len(tree) /\ n \in 0 .. Span - 1
    BY <1>1, <1>6
  <2>. QED
    BY <2>1, SectorOf
<1>5. Disk(tree)[1] = [s_isize |-> InodeSectors(tree)]
  BY <1>4, <1>6, <1>7 DEF Disk, BOOTBLOCK_SECTOR, SUPERBLOCK_SECTOR, INODE_START_SECTOR
<1>. QED
  BY <1>5 DEF s_isize, diskimg_readsector, SUPERBLOCK_SECTOR

\* What is read of an inode of the i list.
LEMMA InodeIsRead ==
  ASSUME tree \in Tree, disk = Disk(tree), NEW i \in 1 .. s_isize * INO_PER_BLOCK
  PROVE  inode_iget(i) = Inode(tree, i)
<1>1. i \in 1 .. InodeSectors(tree) * INO_PER_BLOCK
  BY Superblock
<1>2. Disk(tree)[INODE_START_SECTOR + (i - 1) \div INO_PER_BLOCK][((i - 1) % INO_PER_BLOCK) + 1] = Inode(tree, i)
  BY <1>1, InodeSector
<1>. QED
  BY <1>2, Zenon DEF inode_iget, diskimg_readsector

LEMMA FileIsRead ==
  ASSUME tree \in Tree, disk = Disk(tree), NEW i \in 1 .. Len(tree)
  PROVE  inode_iget(i) = Inode(tree, i) /\ inode_getsize(inode_iget(i)) = tree[i].size
<1>1. i \in 1 .. s_isize * INO_PER_BLOCK
  <2>1. PICK room \in Nat : room = s_isize * INO_PER_BLOCK
    <3>1. InodeSectors(tree) \in Nat /\ INO_PER_BLOCK \in Nat
      BY Room, SizesAreNat
    <3>. QED
      BY <3>1, Superblock
  <2>2. Len(tree) <= room /\ Len(tree) \in Nat
    BY <2>1, Room, Superblock, TreesFit
  <2>. QED
    BY <2>1, <2>2
<1>. QED
  BY <1>1, InodeIsRead, SizeIsRead, Zenon

\* A file's blocks have data sectors.
LEMMA BlocksFit ==
  ASSUME NEW t \in Tree, NEW i \in 1 .. Len(t)
  PROVE  BlocksOf(t[i]) \in Nat /\ BlocksOf(t[i]) <= MaxBlocks
<1>1. PICK A \in Nat, b \in Nat : A = INDIR_ADDR /\ BNUMS_PER_BLOCK = b + 1
  <2>1. BNUMS_PER_BLOCK - 1 \in Nat /\ BNUMS_PER_BLOCK = (BNUMS_PER_BLOCK - 1) + 1 /\ INDIR_ADDR \in Nat
    BY SizesAreNat
  <2>. QED
    BY <2>1
<1>2. (A + (b + 1)) * (b + 1) = A * b + A + b * b + 2 * b + 1 /\ A * b \in Nat /\ b * b \in Nat
  OBVIOUS
<1>3. MaxBlocks = (A + (b + 1)) * (b + 1)
  BY <1>1, Zenon DEF MaxBlocks, Singles
<1>4. A + 1 <= MaxBlocks
  BY <1>2, <1>3
<1>5. t[i].size \in Nat /\ BlocksOf(t[i]) <= (IF t[i].large THEN MaxBlocks ELSE A + 1)
  BY <1>1, TreesFit
<1>6. BlocksOf(t[i]) \in Nat
  BY <1>5, SizeInBlocks
<1>. QED
  BY <1>1, <1>4, <1>5, <1>6, Geometry

\* A block of a file is read as it was written, and up to where the file ends.
LEMMA BlockIsRead ==
  ASSUME tree \in Tree, disk = Disk(tree), NEW i \in 1 .. Len(tree), NEW b \in 1 .. BlocksOf(tree[i])
  PROVE  file_getblock(i, b - 1) = [buf |-> Content(tree, i, b - 1), bytes |-> Bytes(tree[i], b)]
<1>0. PICK k : k = b - 1
  OBVIOUS
<1>1. PICK size, last, blocks :
        /\ size = tree[i].size /\ size \in Nat /\ last = LastBlock(size) /\ blocks = BlocksOf(tree[i])
        /\ blocks \in Nat /\ blocks <= MaxBlocks
  BY TreesFit, BlocksFit
<1>2. k \in 0 .. blocks - 1 /\ k \in 0 .. MaxBlocks - 1 /\ blocks > 0
  <2>1. MaxBlocks \in Nat
    BY Geometry
  <2>. QED
    BY <1>0, <1>1, <2>1
<1>3. size > 0
  BY <1>1, <1>2, SizeInBlocks
<1>4. last \in Nat /\ blocks = last + 1 /\ size - last * DISKIMG_SECTOR_SIZE = ((size - 1) % DISKIMG_SECTOR_SIZE) + 1
  BY <1>1, <1>3, SizeInBlocks
<1>5. inode_iget(i) = Inode(tree, i) /\ inode_getsize(Inode(tree, i)) = size
  BY <1>1, FileIsRead
<1>6. inode_indexlookup(Inode(tree, i), k) = Data(i, k)
  BY <1>1, <1>2, BlockFound
<1>7. disk[Data(i, k)] = Content(tree, i, k)
  BY <1>2, DataSector
<1>8. CASE k = last
  <2>1. Bytes(tree[i], b) = size - last * DISKIMG_SECTOR_SIZE
    <3>1. ~(b < blocks)
      BY <1>0, <1>4, <1>8
    <3>. QED
      BY <1>0, <1>1, <1>8, <3>1, Zenon DEF Bytes
  <2>2. Bytes(tree[i], b) = ((size - 1) % DISKIMG_SECTOR_SIZE) + 1 /\ size # 0
    BY <1>3, <1>4, <2>1
  <2>3. file_getblock(i, k) = [buf |-> Content(tree, i, k), bytes |-> Bytes(tree[i], b)]
    BY <1>1, <1>3, <1>5, <1>6, <1>7, <1>8, <2>2, Zenon DEF file_getblock, diskimg_readsector
  <2>. QED
    BY <1>0, <2>3, Zenon
<1>9. CASE k # last
  <2>1. b < blocks
    BY <1>0, <1>2, <1>4, <1>9
  <2>2. Bytes(tree[i], b) = DISKIMG_SECTOR_SIZE
    BY <1>1, <2>1, Zenon DEF Bytes
  <2>3. file_getblock(i, k) = [buf |-> Content(tree, i, k), bytes |-> Bytes(tree[i], b)]
    BY <1>1, <1>5, <1>6, <1>7, <1>9, <2>2, Zenon DEF file_getblock, diskimg_readsector
  <2>. QED
    BY <1>0, <2>3, Zenon
<1>. QED
  BY <1>8, <1>9

LEMMA FileIsSummed ==
  ASSUME tree \in Tree, disk = Disk(tree), NEW i \in 1 .. Len(tree)
  PROVE  chksumfile_byinumber(i) =
           [b \in 1 .. BlocksOf(tree[i]) |-> [buf |-> Content(tree, i, b - 1), bytes |-> Bytes(tree[i], b)]]
<1>1. chksumfile_byinumber(i) = [b \in 1 .. BlocksOf(tree[i]) |-> file_getblock(i, b - 1)]
  BY FileIsRead, Zenon DEF chksumfile_byinumber, BlocksOf
<1>2. \A b \in 1 .. BlocksOf(tree[i]) :
        file_getblock(i, b - 1) = [buf |-> Content(tree, i, b - 1), bytes |-> Bytes(tree[i], b)]
  BY BlockIsRead
<1>. QED
  BY <1>1, <1>2, Zenon

\* Every number that is shown of a list is one of the list's.
LEMMA Shown ==
  ASSUME NEW n \in Nat, NEW k \in Nat
  PROVE  FirstAndLast(n, k) \in Seq(1 .. n)
<1>. DEFINE first == IF n < k THEN n ELSE k
            resume == IF n - k > first THEN n - k ELSE first
<1>1. first \in 0 .. n /\ resume \in 0 .. n
  OBVIOUS
<1>2. \A a \in 1 .. n + 1 : \A b \in 0 .. n : FromTo(a, b) \in Seq(1 .. n)
  BY DEF FromTo
<1>3. FromTo(1, first) \in Seq(1 .. n) /\ FromTo(resume + 1, n) \in Seq(1 .. n)
  <2>. HIDE DEF first, resume
  <2>. QED
    BY <1>1, <1>2
<1>4. FirstAndLast(n, k) = FromTo(1, first) \o FromTo(resume + 1, n)
  BY Zenon DEF FirstAndLast
<1>. HIDE DEF first, resume
<1>. QED
  BY <1>3, <1>4

LEMMA FileIsMapped ==
  ASSUME tree \in Tree, disk = Disk(tree), NEW i \in 1 .. Len(tree), NEW k \in 1 .. Len(Mappings(i))
  PROVE  Mappings(i)[k][2] = Data(i, Mappings(i)[k][1])
<1>1. PICK shown : shown = FirstAndLast(BlocksOf(tree[i]), Leading)
  OBVIOUS
<1>2. Mappings(i) = [j \in 1 .. Len(shown) |-> <<shown[j] - 1, inode_indexlookup(Inode(tree, i), shown[j] - 1)>>]
  BY <1>1, FileIsRead, Zenon DEF Mappings, BlocksOf
<1>3. BlocksOf(tree[i]) \in Nat /\ Leading \in Nat
  BY BlocksFit, TreesFit
<1>4. Len(shown) \in Nat /\ \A j \in 1 .. Len(shown) : shown[j] \in 1 .. BlocksOf(tree[i])
  <2>1. shown \in Seq(1 .. BlocksOf(tree[i]))
    BY <1>1, <1>3, Shown, Zenon
  <2>2. \A S : \A s \in Seq(S) : Len(s) \in Nat /\ \A j \in 1 .. Len(s) : s[j] \in S
    OBVIOUS
  <2>. QED
    BY <2>1, <2>2, Zenon
<1>5. k \in 1 .. Len(shown)
  BY <1>2, <1>4
<1>6. PICK b : b = shown[k] - 1 /\ b \in 0 .. BlocksOf(tree[i]) - 1
  BY <1>3, <1>4, <1>5
<1>7. inode_indexlookup(Inode(tree, i), b) = Data(i, b)
  BY <1>6, BlockFound
<1>8. Mappings(i)[k] = <<b, Data(i, b)>>
  BY <1>2, <1>5, <1>6, <1>7, Zenon
<1>. QED
  BY <1>8

\* The line of an inode that is in use says what was written to it.
LEMMA RightIsPrinted ==
  ASSUME tree \in Tree, disk = Disk(tree), NEW i \in 1 .. Len(tree)
  PROVE  InodeLine(i).inumber = i /\ RightLine(InodeLine(i))
<1>1. PICK line : line = InodeLine(i)
  OBVIOUS
<1>2. /\ line.inumber = i /\ line.size = tree[i].size
      /\ line.checksum = (IF "i" \in flags THEN chksumfile_byinumber(i) ELSE <<>>)
      /\ line.mappings = (IF "m" \in flags /\ "i" \notin flags THEN Mappings(i) ELSE <<>>)
  BY <1>1, FileIsRead DEF InodeLine
<1>3. File(tree, i) = tree[i]
  BY TreesFit DEF File
<1>4. ASSUME "i" \in flags
      PROVE  line.checksum =
               [b \in 1 .. BlocksOf(tree[i]) |-> [buf |-> Content(tree, i, b - 1), bytes |-> Bytes(tree[i], b)]]
  BY <1>2, <1>4, FileIsSummed, Zenon
<1>5. ASSUME NEW k \in 1 .. Len(line.mappings)
      PROVE  line.mappings[k][2] = Data(i, line.mappings[k][1])
  <2>1. CASE "m" \in flags /\ "i" \notin flags
    BY <1>2, <1>5, <2>1, FileIsMapped
  <2>2. CASE ~("m" \in flags /\ "i" \notin flags)
    BY <1>2, <1>5, <2>2
  <2>. QED
    BY <2>1, <2>2
<1>. QED
  BY <1>1, <1>2, <1>3, <1>4, <1>5, Zenon DEF RightLine

-------------------------------------------------------------------------------
(* What DumpInodeChecksum keeps: the lines so far are right, and they are those of *)
(* the inodes it has passed.                                                       *)
Lines == {dumped[n] : n \in 1 .. Len(dumped)}

DumpInv ==
  /\ tree \in Tree /\ disk = Disk(tree)
  /\ inumber \in Nat \ {0}
  /\ dumped \in Seq(Lines)
  /\ InodesAreDumped

LEMMA DumpInvInit == DiskInit => DumpInv
<1>. SUFFICES ASSUME DiskInit PROVE DumpInv
  OBVIOUS
<1>1. dumped = <<>> /\ inumber = 1 /\ tree \in Tree /\ disk = Disk(tree)
  BY DEF DiskInit
<1>2. at # "inodes" => flags \cap {"i", "m", "b"} = {}
  BY DEF DiskInit
<1>3. InodesAreDumped
  BY <1>1, <1>2 DEF InodesAreDumped
<1>. QED
  BY <1>1, <1>3 DEF DumpInv

LEMMA DumpInodeStep == DumpInv /\ DumpInode => DumpInv'
<1>. SUFFICES ASSUME DumpInv, DumpInode PROVE DumpInv'
  OBVIOUS
<1>1. PICK i \in Nat \ {0} : i = inumber
  BY DEF DumpInv
<1>2. /\ i \in 1 .. s_isize * INO_PER_BLOCK /\ inumber' = i + 1 /\ at' = "inodes"
      /\ UNCHANGED <<tree, disk, flags, at>>
  <2>1. s_isize * INO_PER_BLOCK \in Nat
    <3>1. InodeSectors(tree) \in Nat /\ INO_PER_BLOCK \in Nat
      BY Room, SizesAreNat DEF DumpInv
    <3>. QED
      BY <3>1, Superblock DEF DumpInv
  <2>. QED
    BY <1>1, <2>1 DEF DumpInode
<1>3. inode_iget(i).alloc = File(tree, i).alloc
  BY <1>2, InodeIsRead DEF DumpInv, Inode
<1>4. \A line : RightLine(line) <=> RightLine(line)'
  BY <1>2 DEF RightLine
<1>5. CASE ~File(tree, i).alloc
  <2>1. dumped' = dumped
    BY <1>1, <1>3, <1>5 DEF DumpInode
  <2>2. InodesAreDumped'
    BY <1>1, <1>2, <1>4, <1>5, <2>1 DEF DumpInv, InodesAreDumped
  <2>. QED
    BY <1>1, <1>2, <2>1, <2>2 DEF DumpInv, Lines
<1>6. CASE File(tree, i).alloc
  <2>1. PICK line : line = InodeLine(i)
    OBVIOUS
  <2>2. dumped' = Append(dumped, line)
    BY <1>1, <1>3, <1>6, <2>1 DEF DumpInode
  <2>3. i \in 1 .. Len(tree)
    BY <1>1, <1>6, TreesFit DEF DumpInv, File, Free
  <2>4. line.inumber = i /\ RightLine(line)
    BY <2>1, <2>3, RightIsPrinted DEF DumpInv
  <2>5. PICK n \in Nat : n = Len(dumped)
    BY DEF DumpInv
  <2>6. /\ Len(dumped') = n + 1 /\ dumped'[n + 1] = line
        /\ \A m \in 1 .. n : dumped'[m] = dumped[m]
    BY <2>2, <2>5 DEF DumpInv
  <2>7. dumped' \in Seq(Lines')
    <3>1. dumped' \in Seq(Lines \cup {line})
      BY <2>2 DEF DumpInv
    <3>2. \A m \in 1 .. n + 1 : dumped'[m] \in Lines'
      BY <2>6 DEF Lines
    <3>. QED
      BY <2>6, <3>1, <3>2
  <2>8. InodesAreDumped'
    <3>1. {dumped'[m].inumber : m \in 1 .. Len(dumped')} = {j \in 1 .. inumber' - 1 : File(tree, j).alloc}
      <4>1. {dumped[m].inumber : m \in 1 .. n} = {j \in 1 .. i - 1 : File(tree, j).alloc}
        BY <1>1, <2>5 DEF DumpInv, InodesAreDumped
      <4>2. {dumped'[m].inumber : m \in 1 .. n + 1} = {dumped[m].inumber : m \in 1 .. n} \cup {i}
        BY <2>4, <2>6
      <4>3. {j \in 1 .. i : File(tree, j).alloc} = {j \in 1 .. i - 1 : File(tree, j).alloc} \cup {i}
        BY <1>1, <1>6
      <4>4. inumber' - 1 = i
        BY <1>2
      <4>. QED
        BY <2>6, <4>1, <4>2, <4>3, <4>4, Zenon
    <3>2. \A a, b \in 1 .. n + 1 : a < b => dumped'[a].inumber < dumped'[b].inumber
      <4>1. \A a \in 1 .. n : dumped[a].inumber < i
        <5>1. \A a \in 1 .. n : dumped[a].inumber \in 1 .. i - 1
          BY <1>1, <2>5 DEF DumpInv, InodesAreDumped
        <5>. QED
          BY <1>1, <5>1
      <4>2. \A a, b \in 1 .. n : a < b => dumped[a].inumber < dumped[b].inumber
        BY <2>5 DEF DumpInv, InodesAreDumped
      <4>. SUFFICES ASSUME NEW a \in 1 .. n + 1, NEW b \in 1 .. n + 1, a < b
                    PROVE  dumped'[a].inumber < dumped'[b].inumber
        OBVIOUS
      <4>3. a \in 1 .. n /\ dumped'[a] = dumped[a]
        BY <2>6
      <4>4. CASE b = n + 1
        <5>1. dumped'[b].inumber = i
          BY <2>4, <2>6, <4>4
        <5>. QED
          BY <4>1, <4>3, <5>1
      <4>5. CASE b # n + 1
        <5>1. b \in 1 .. n /\ dumped'[b] = dumped[b]
          BY <2>6, <4>5
        <5>. QED
          BY <4>2, <4>3, <5>1
      <4>. QED
        BY <4>4, <4>5
    <3>3. \A m \in 1 .. n + 1 : RightLine(dumped[m])'
      <4>1. \A m \in 1 .. n : RightLine(dumped[m])
        BY <2>5 DEF DumpInv, InodesAreDumped
      <4>2. \A m \in 1 .. n + 1 : RightLine(dumped[m])' <=> RightLine(dumped'[m])
        BY <1>2 DEF RightLine
      <4>3. \A m \in 1 .. n + 1 : RightLine(dumped'[m])
        BY <2>4, <2>6, <4>1
      <4>. QED
        BY <4>2, <4>3
    <3>. QED
      BY <1>2, <2>6, <3>1, <3>2, <3>3 DEF InodesAreDumped
  <2>. QED
    BY <1>1, <1>2, <2>7, <2>8 DEF DumpInv
<1>. QED
  BY <1>5, <1>6

LEMMA OtherStep ==
  ASSUME DumpInv, UNCHANGED <<tree, disk, flags, inumber, dumped>>,
         at' # "inodes" /\ flags \cap {"i", "m", "b"} # {} => Len(tree) < inumber
  PROVE  DumpInv'
<1>1. \A line : RightLine(line) <=> RightLine(line)'
  BY DEF RightLine
<1>2. InodesAreDumped'
  BY <1>1 DEF DumpInv, InodesAreDumped
<1>. QED
  BY <1>2 DEF DumpInv, Lines

LEMMA DumpInvStep == DumpInv /\ [DiskNext]_diskVars => DumpInv'
<1>. SUFFICES ASSUME DumpInv, [DiskNext]_diskVars PROVE DumpInv'
  OBVIOUS
<1>0. at # "inodes" /\ flags \cap {"i", "m", "b"} # {} => Len(tree) < inumber
  BY DEF DumpInv, InodesAreDumped
<1>1. CASE DumpInode
  BY <1>1, DumpInodeStep
<1>2. CASE EndOfInodes
  <2>1. PICK room \in Nat : room = s_isize * INO_PER_BLOCK
    <3>1. InodeSectors(tree) \in Nat /\ INO_PER_BLOCK \in Nat
      BY Room, SizesAreNat DEF DumpInv
    <3>. QED
      BY <3>1, Superblock DEF DumpInv
  <2>2. Len(tree) \in Nat /\ Len(tree) <= room /\ inumber \in Nat
    BY <2>1, Room, Superblock, TreesFit DEF DumpInv
  <2>3. Len(tree) < inumber
    BY <1>2, <2>1, <2>2 DEF EndOfInodes
  <2>. QED
    BY <1>2, <2>3, OtherStep DEF EndOfInodes
<1>3. CASE DumpPath
  BY <1>0, <1>3, OtherStep DEF DumpPath
<1>4. CASE AssertFails
  BY <1>0, <1>4, OtherStep DEF AssertFails
<1>5. CASE EndOfPaths
  BY <1>0, <1>5, OtherStep DEF EndOfPaths
<1>6. CASE UNCHANGED diskVars
  BY <1>0, <1>6, OtherStep DEF diskVars
<1>. QED
  BY <1>1, <1>2, <1>3, <1>4, <1>5, <1>6 DEF DiskNext

\* The invariant of the inode lines, for every image.
THEOREM DumpInvariance == DiskSpec => []DumpInv
<1>. QED
  BY DumpInvInit, DumpInvStep, PTL DEF DiskSpec

\* diskimageaccess -i and -m print a line for each allocated inode, in order, and what
\* a line says of a file is what was written to it: its size, all its blocks in order up
\* to the last byte, and its block numbers, direct, singly or doubly indirect.
THEOREM InodesAreRight == DiskSpec => []InodesAreDumped
<1>1. DumpInv => InodesAreDumped
  BY DEF DumpInv
<1>. QED
  BY <1>1, DumpInvariance, PTL

-------------------------------------------------------------------------------
(* Directories.  What the readers find in an image is what was written to it: *)
(* which inodes are directories, their entries, one sector after the other,    *)
(* and for a path the file at its end.                                         *)
\* Multiples are in the order of their factors.
LEMMA Multiples ==
  ASSUME NEW d \in Nat, d # 0, NEW a \in Nat, NEW b \in Nat
  PROVE  (a < b <=> (a * d < b * d)) /\ a * d \in Nat /\ (a < b => a * d + d <= b * d)
<1>1. a * d \in Nat /\ b * d \in Nat
  OBVIOUS
<1>2. ASSUME a < b PROVE a * d + d <= b * d
  <2>1. PICK k \in Nat : b = a + 1 + k
    <3>1. b - a - 1 \in Nat /\ b = a + 1 + (b - a - 1)
      BY <1>2
    <3>. QED
      BY <3>1
  <2>2. b * d = a * d + d + k * d /\ k * d \in Nat
    BY <2>1
  <2>. QED
    BY <1>1, <2>2
<1>3. ASSUME b <= a PROVE b * d <= a * d
  <2>1. PICK k \in Nat : a = b + k
    <3>1. a - b \in Nat /\ a = b + (a - b)
      BY <1>3
    <3>. QED
      BY <3>1
  <2>2. a * d = b * d + k * d /\ k * d \in Nat
    BY <2>1
  <2>. QED
    BY <1>1, <2>2
<1>. QED
  BY <1>1, <1>2, <1>3

\* The inodes that can be read are those of the i list.
LEMMA IListIsReadable ==
  ASSUME tree \in Tree, disk = Disk(tree), NEW i \in Int
  PROVE  Readable(i) <=> i \in 1 .. s_isize * INO_PER_BLOCK
<1>1. PICK ino \in Nat, isize \in Nat : ino = INO_PER_BLOCK /\ ino # 0 /\ isize = s_isize
  BY SizesAreNat, Room, Superblock
<1>2. CASE i < 1
  BY <1>2 DEF Readable
<1>3. CASE i >= 1
  <2>1. i - 1 \in Nat
    BY <1>3
  <2>2. PICK q \in Nat, r \in 0 .. ino - 1 : q = (i - 1) \div ino /\ r = (i - 1) % ino /\ i - 1 = q * ino + r
    BY <1>1, <2>1, Division
  <2>3. Readable(i) <=> q < isize
    BY <1>1, <1>3, <2>2, Zenon DEF Readable
  <2>4. PICK a \in Nat, b \in Nat : a = q * ino /\ b = isize * ino
    BY <1>1
  <2>5. (q < isize => a + ino <= b) /\ (q >= isize => b <= a)
    <3>1. q < isize => a + ino <= b
      BY <1>1, <2>4, Multiples
    <3>2. q >= isize => ~(q * ino < isize * ino)
      BY <1>1, Multiples
    <3>. QED
      BY <2>4, <3>1, <3>2
  <2>6. q < isize <=> i <= b
    BY <1>1, <1>3, <2>2, <2>4, <2>5
  <2>. QED
    BY <1>1, <1>3, <2>3, <2>4, <2>6
<1>. QED
  BY <1>2, <1>3

\* What is a directory, and what has a checksum, is a file of the tree.
LEMMA FilesAreKnown ==
  ASSUME tree \in Tree, disk = Disk(tree), NEW i \in Int
  PROVE  /\ IsDirectory(i) <=> i \in 1 .. Len(tree) /\ tree[i].dir
         /\ HasChecksum(i) <=> i \in 1 .. Len(tree) /\ tree[i].alloc
         /\ i \in 1 .. Len(tree) => (IsFree(i) <=> ~tree[i].alloc)
<1>1. Readable(i) <=> i \in 1 .. s_isize * INO_PER_BLOCK
  BY IListIsReadable
<1>2. Len(tree) \in Nat /\ s_isize * INO_PER_BLOCK \in Nat /\ Len(tree) <= s_isize * INO_PER_BLOCK
  <2>1. PICK ino \in Nat, isize \in Nat : ino = INO_PER_BLOCK /\ isize = s_isize /\ isize = InodeSectors(tree)
    BY SizesAreNat, Room, Superblock
  <2>2. Len(tree) \in Nat /\ Len(tree) <= isize * ino
    BY <2>1, TreesFit, Room
  <2>. QED
    BY <2>1, <2>2
<1>3. i \in 1 .. Len(tree) => i \in 1 .. s_isize * INO_PER_BLOCK
  BY <1>2
<1>4. ASSUME i \in 1 .. s_isize * INO_PER_BLOCK
      PROVE  inode_iget(i).dir = File(tree, i).dir /\ inode_iget(i).alloc = File(tree, i).alloc
  BY <1>4, InodeIsRead DEF Inode
<1>5. i \in 1 .. Len(tree) => File(tree, i) = tree[i]
  BY DEF File
<1>6. i \in 1 .. s_isize * INO_PER_BLOCK /\ i \notin 1 .. Len(tree) => ~File(tree, i).dir /\ ~File(tree, i).alloc
  BY <1>2 DEF File, Free
<1>. QED
  BY <1>1, <1>3, <1>4, <1>5, <1>6, Zenon DEF IsDirectory, HasChecksum, IsFree

\* A file of n things of d bytes each, D of them in a block.
Packed(d, D, n, B, size, S) ==
  /\ d \in Nat /\ D \in Nat /\ n \in Nat /\ B \in Nat /\ d # 0 /\ D # 0
  /\ S = D * d /\ size = n * d
  /\ size = 0 => B = 0
  /\ size > 0 => B > 0 /\ size - (B - 1) * S \in 1 .. S

\* The last block begins within the file, and the file ends in it.
LEMMA BlocksCover ==
  ASSUME NEW d, NEW D, NEW n, NEW B, NEW size, NEW S, Packed(d, D, n, B, size, S)
  PROVE  n <= B * D /\ (B > 0 => (B - 1) * D < n)
<1>. USE DEF Packed
<1>1. CASE n = 0
  <2>1. B = 0
    BY <1>1
  <2>2. B * D = 0
    BY <2>1
  <2>. QED
    BY <1>1, <2>1, <2>2
<1>2. CASE n # 0
  <2>1. PICK m \in Nat, c \in Nat : n = m + 1 /\ d = c + 1
    <3>1. n - 1 \in Nat /\ n = (n - 1) + 1 /\ d - 1 \in Nat /\ d = (d - 1) + 1
      BY <1>2
    <3>. QED
      BY <3>1
  <2>2. size > 0
    <3>1. size = m * c + m + c + 1 /\ m * c \in Nat
      BY <2>1
    <3>. QED
      BY <3>1
  <2>3. PICK b \in Nat : B = b + 1 /\ B - 1 = b
    <3>1. B - 1 \in Nat /\ B = (B - 1) + 1
      BY <2>2
    <3>. QED
      BY <3>1
  <2>4. PICK x \in Nat, y \in Nat : x = b * D /\ y = B * D /\ y = x + D
    BY <2>3
  <2>5. PICK w, v : w = x * d /\ v = y * d
    OBVIOUS
  <2>6. w \in Nat /\ v = w + S /\ b * S = w
    BY <2>3, <2>4, <2>5
  <2>7. n * d - w \in 1 .. S
    BY <2>2, <2>3, <2>6
  <2>8. x * d < n * d /\ ~(y * d < n * d)
    <3>1. n * d \in Nat /\ S \in Nat
      OBVIOUS
    <3>2. w < n * d /\ ~(v < n * d)
      BY <2>6, <2>7, <3>1
    <3>. QED
      BY <2>5, <3>2
  <2>9. x < n
    BY <2>4, <2>8, Multiples
  <2>10. ~(y < n)
    BY <2>4, <2>8, Multiples
  <2>. QED
    BY <2>3, <2>4, <2>9, <2>10
<1>. QED
  BY <1>1, <1>2

\* What is in block k.
LEMMA InBlock ==
  ASSUME NEW d, NEW D, NEW n, NEW B, NEW size, NEW S, Packed(d, D, n, B, size, S),
         NEW k \in Nat, k < B, NEW r \in 0 .. D - 1, NEW bytes, NEW x, x = k * D,
         bytes = IF k + 1 < B THEN S ELSE size - k * S
  PROVE  /\ x \in Nat /\ (k + 1) * D = x + D
         /\ (r + 1 <= bytes \div d) <=> (x + r + 1 <= n)
<1>1. x \in Nat /\ (k + 1) * D = x + D
  BY DEF Packed
<1>2. CASE k + 1 < B
  <2>1. S = D * d + 0 /\ 0 \in 0 .. d - 1 /\ d \in Nat /\ d # 0 /\ D \in Nat
    BY DEF Packed
  <2>2. S \div d = D
    BY <2>1, Unique
  <2>3. PICK b \in Nat : b = B - 1 /\ k < b
    BY <1>2 DEF Packed
  <2>4. PICK z \in Nat : z = b * D
    BY DEF Packed
  <2>5. x + D <= z
    BY <2>3, <2>4, Multiples DEF Packed
  <2>6. z < n
    <3>1. B > 0
      BY <1>2 DEF Packed
    <3>2. (B - 1) * D < n
      BY <3>1, BlocksCover, Zenon
    <3>. QED
      BY <2>3, <2>4, <3>2, Zenon
  <2>7. x + r + 1 <= n /\ r + 1 <= D
    BY <1>1, <2>4, <2>5, <2>6 DEF Packed
  <2>8. bytes \div d = D
    BY <1>2, <2>2
  <2>. QED
    BY <1>1, <2>7, <2>8, Zenon
<1>3. CASE k + 1 = B
  <2>1. x < n /\ n <= x + D
    <3>1. B - 1 = k /\ B > 0
      BY <1>3
    <3>2. B * D = x + D
      BY <1>1, <1>3
    <3>. QED
      BY <3>1, <3>2, BlocksCover
  <2>2. PICK m \in Nat : n = x + m
    <3>1. n - x \in Nat /\ n = x + (n - x)
      BY <1>1, <2>1 DEF Packed
    <3>. QED
      BY <3>1
  <2>3. bytes = m * d + 0
    <3>1. k * S = x * d /\ size = x * d + m * d /\ x * d \in Nat /\ m * d \in Nat
      BY <1>1, <2>2 DEF Packed
    <3>2. bytes = size - k * S
      BY <1>3
    <3>. QED
      BY <3>1, <3>2
  <2>4. d \in Nat /\ d # 0 /\ 0 \in 0 .. d - 1
    BY DEF Packed
  <2>5. bytes \div d = m
    BY <2>3, <2>4, Unique
  <2>6. (r + 1 <= m) <=> (x + r + 1 <= n)
    BY <1>1, <2>2 DEF Packed
  <2>. QED
    BY <1>1, <2>5, <2>6, Zenon
<1>. QED
  BY <1>2, <1>3 DEF Packed

\* The entries of a directory fill its blocks.
LEMMA EntriesArePacked ==
  ASSUME NEW t \in Tree, NEW i \in 1 .. Len(t), t[i].dir
  PROVE  /\ Packed(DirentSize, DIR_PER_BLOCK, Len(t[i].entries), BlocksOf(t[i]), t[i].size, DISKIMG_SECTOR_SIZE)
         /\ BlocksOf(t[i]) = IF t[i].size = 0 THEN 0 ELSE (t[i].size - 1) \div DISKIMG_SECTOR_SIZE + 1
<1>1. PICK S \in Nat, D \in Nat : S = DISKIMG_SECTOR_SIZE /\ D = DIR_PER_BLOCK /\ S # 0 /\ D # 0 /\ S % D = 0
  BY SizesAreNat
<1>2. PICK q \in Nat, r \in 0 .. D - 1 : q = S \div D /\ r = S % D /\ S = q * D + r
  <2>1. S \in Nat /\ D \in Nat /\ D # 0
    BY <1>1
  <2>. QED
    BY <2>1, Division
<1>3. S = D * q /\ q # 0 /\ DirentSize = q
  <2>1. S = D * q /\ q # 0
    <3>1. PICK p \in Nat : p = q * D
      OBVIOUS
    <3>2. r = 0
      BY <1>1, <1>2, Zenon
    <3>3. S = p
      <4>1. S = p + r
        BY <1>2, <3>1, Zenon
      <4>. QED
        BY <3>2, <4>1
    <3>4. D * q = q * D /\ (q = 0 => q * D = 0)
      OBVIOUS
    <3>. QED
      BY <1>1, <3>1, <3>3, <3>4, Zenon
  <2>2. DirentSize = q
    BY <1>1, <1>2, Zenon DEF DirentSize
  <2>. QED
    BY <2>1, <2>2
<1>4. PICK n \in Nat : n = Len(t[i].entries) /\ t[i].size = DirentSize * n
  <2>1. t[i].entries \in Seq([d_name : Seq(STRING), d_inumber : 0 .. Len(t)]) /\ t[i].size = DirentSize * Len(t[i].entries)
    BY DirectoriesFit, Zenon
  <2>2. PICK C, E : E \in Seq(C) /\ E = t[i].entries
    BY <2>1, Zenon
  <2>3. Len(E) \in Nat
    BY <2>2
  <2>. QED
    BY <2>1, <2>2, <2>3, Zenon
<1>5. PICK B \in Nat, size \in Nat : B = BlocksOf(t[i]) /\ size = t[i].size
  BY BlocksFit, TreesFit
<1>6. size = n * q
  BY <1>3, <1>4, <1>5
<1>7. size = 0 => B = 0
  BY <1>5, SizeInBlocks
<1>8. size > 0 => LastBlock(size) \in Nat /\ B = LastBlock(size) + 1 /\ size - LastBlock(size) * S = ((size - 1) % S) + 1
  BY <1>1, <1>5, SizeInBlocks
<1>9. size > 0 => B > 0 /\ size - (B - 1) * S \in 1 .. S
  <2>. SUFFICES ASSUME size > 0 PROVE B > 0 /\ size - (B - 1) * S \in 1 .. S
    OBVIOUS
  <2>1. PICK b \in Nat : b = LastBlock(size) /\ B = b + 1 /\ B - 1 = b
    BY <1>8
  <2>2. (size - 1) % S \in 0 .. S - 1
    BY <1>1
  <2>3. size - b * S = ((size - 1) % S) + 1
    BY <1>8, <2>1, Zenon
  <2>4. size - b * S \in 1 .. S
    BY <1>1, <2>2, <2>3
  <2>. QED
    BY <2>1, <2>4
<1>10. B = IF size = 0 THEN 0 ELSE (size - 1) \div S + 1
  <2>1. CASE size = 0
    BY <1>7, <2>1
  <2>2. CASE size # 0
    <3>1. LastBlock(size) = (size - 1) \div S
      BY <1>1, <2>2, Zenon DEF LastBlock
    <3>2. B = LastBlock(size) + 1
      BY <1>8, <2>2
    <3>. QED
      BY <2>2, <3>1, <3>2, Zenon
  <2>. QED
    BY <2>1, <2>2
<1>11. Packed(q, D, n, B, size, S)
  BY <1>1, <1>3, <1>6, <1>7, <1>9, Zenon DEF Packed
<1>. QED
  BY <1>1, <1>3, <1>4, <1>5, <1>10, <1>11, Zenon

\* A piece of a sequence.
LEMMA PieceOfSequence ==
  ASSUME NEW C, NEW E \in Seq(C), NEW x \in Nat, NEW y \in Nat, y <= Len(E),
         NEW r \in Nat, x + r + 1 <= y
  PROVE  SubSeq(E, x + 1, y)[r + 1] = E[x + r + 1]
OBVIOUS

\* A directory's entries are read as they were written.
LEMMA EntriesAreRead ==
  ASSUME tree \in Tree, disk = Disk(tree), NEW i \in 1 .. Len(tree), tree[i].dir
  PROVE  Entries(i) = tree[i].entries
<1>1. PICK d, D, n, B, size, S, E, C :
        /\ Packed(d, D, n, B, size, S) /\ B = IF size = 0 THEN 0 ELSE (size - 1) \div S + 1
        /\ d = DirentSize /\ D = DIR_PER_BLOCK /\ S = DISKIMG_SECTOR_SIZE
        /\ size = tree[i].size /\ B = BlocksOf(tree[i])
        /\ E = tree[i].entries /\ n = Len(E) /\ E \in Seq(C)
  <2>1. tree[i].entries \in Seq([d_name : Seq(STRING), d_inumber : 0 .. Len(tree)])
    BY DirectoriesFit
  <2>. QED
    BY <2>1, EntriesArePacked, Zenon
<1>2. d \in Nat /\ D \in Nat /\ n \in Nat /\ B \in Nat /\ D # 0
  BY <1>1 DEF Packed
<1>. DEFINE Block(e) == file_getblock(i, (e - 1) \div D)
            Place(e) == ((e - 1) % D) + 1
            all == {e \in 1 .. B * D : Place(e) <= Block(e).bytes \div d}
<1>3. Entries(i) = [e \in all |-> Block(e).buf[Place(e)]]
  <2>1. inode_getsize(inode_iget(i)) = size
    BY <1>1, FileIsRead
  <2>. QED
    BY <1>1, <2>1, Zenon DEF Entries
<1>4. n <= B * D /\ B * D \in Nat
  <2>1. n <= B * D
    BY <1>1, BlocksCover, Zenon
  <2>. QED
    BY <1>2, <2>1
<1>5. ASSUME NEW e \in 1 .. B * D
      PROVE  /\ (Place(e) <= Block(e).bytes \div d) <=> (e <= n)
             /\ e <= n => Block(e).buf[Place(e)] = E[e]
  <2>1. e - 1 \in Nat
    BY <1>4
  <2>2. PICK k \in Nat, r \in 0 .. D - 1 : k = (e - 1) \div D /\ r = (e - 1) % D /\ e - 1 = k * D + r
    BY <1>2, <2>1, Division, Zenon
  <2>3. PICK x \in Nat : x = k * D /\ e = x + r + 1
    BY <1>2, <1>4, <2>2
  <2>4. k < B
    <3>1. k * D < B * D
      BY <1>2, <1>4, <2>3
    <3>. QED
      BY <1>2, <3>1, Multiples
  <2>5. PICK b, c : b = Content(tree, i, k) /\ c = Bytes(tree[i], k + 1) /\ Block(e) = [buf |-> b, bytes |-> c]
    <3>1. PICK a \in 1 .. B : a = k + 1 /\ a - 1 = k
      BY <1>2, <2>4
    <3>2. file_getblock(i, a - 1) = [buf |-> Content(tree, i, a - 1), bytes |-> Bytes(tree[i], a)]
      BY <1>1, BlockIsRead
    <3>. QED
      BY <2>2, <3>1, <3>2, Zenon
  <2>6. c = IF k + 1 < B THEN S ELSE size - k * S
    <3>1. (k + 1) - 1 = k
      OBVIOUS
    <3>. QED
      BY <1>1, <2>5, <3>1, Zenon DEF Bytes
  <2>7. (k + 1) * D = x + D /\ ((r + 1 <= c \div d) <=> (x + r + 1 <= n))
    BY <1>1, <2>3, <2>4, <2>6, InBlock
  <2>8. b = SubSeq(E, x + 1, IF x + D < n THEN x + D ELSE n)
    <3>1. File(tree, i) = tree[i]
      BY DEF File
    <3>. QED
      BY <1>1, <2>3, <2>5, <2>7, <3>1, Zenon DEF Content
  <2>9. e <= n => b[r + 1] = E[e]
    <3>. SUFFICES ASSUME e <= n PROVE b[r + 1] = E[e]
      OBVIOUS
    <3>1. PICK y \in Nat : y = (IF x + D < n THEN x + D ELSE n) /\ y <= n /\ x + r + 1 <= y
      BY <1>2, <2>3
    <3>2. SubSeq(E, x + 1, y)[r + 1] = E[x + r + 1]
      <4>1. y <= Len(E) /\ r \in Nat /\ E \in Seq(C) /\ x + r + 1 <= y
        BY <1>1, <1>2, <3>1
      <4>. QED
        BY <4>1, PieceOfSequence
    <3>. QED
      BY <2>3, <2>8, <3>1, <3>2, Zenon
  <2>10. Place(e) = r + 1
    BY <2>2
  <2>11. (r + 1 <= c \div d) <=> (e <= n)
    BY <2>3, <2>7, Zenon
  <2>. HIDE DEF Block, Place
  <2>12. Block(e).buf = b /\ Block(e).bytes = c
    BY <2>5
  <2>13. (Place(e) <= Block(e).bytes \div d) <=> (e <= n)
    BY <2>10, <2>11, <2>12
  <2>14. e <= n => Block(e).buf[Place(e)] = E[e]
    BY <2>9, <2>10, <2>12
  <2>. QED
    BY <2>13, <2>14, Zenon
<1>6. all = 1 .. n
  <2>. HIDE DEF Place, Block
  <2>1. \A e \in 1 .. B * D : e \in all <=> e <= n
    BY <1>5, Zenon
  <2>2. all \subseteq 1 .. B * D
    OBVIOUS
  <2>3. \A e \in 1 .. n : e \in 1 .. B * D /\ e <= n
    BY <1>2, <1>4
  <2>4. \A e \in 1 .. B * D : e <= n => e \in 1 .. n
    BY <1>2, <1>4
  <2>. HIDE DEF all
  <2>. QED
    BY <2>1, <2>2, <2>3, <2>4, Zenon
<1>7. \A e \in 1 .. n : Block(e).buf[Place(e)] = E[e]
  <2>. HIDE DEF Place, Block
  <2>1. \A e \in 1 .. n : e \in 1 .. B * D /\ e <= n
    BY <1>2, <1>4
  <2>. QED
    BY <1>5, <2>1, Zenon
<1>. HIDE DEF all, Place, Block
<1>8. [e \in all |-> Block(e).buf[Place(e)]] = [e \in 1 .. n |-> E[e]]
  BY <1>6, <1>7, Zenon
<1>9. E = [e \in 1 .. n |-> E[e]]
  BY <1>1
<1>. QED
  BY <1>1, <1>3, <1>8, <1>9, Zenon

\* A sequence is a prefix of itself.
LEMMA PrefixOfItself ==
  ASSUME NEW C, NEW s \in Seq(C)
  PROVE  IsPrefix(s, s)
BY DEF IsPrefix

\* A name is found at the entry that has it.
LEMMA NameIsFound ==
  ASSUME tree \in Tree, disk = Disk(tree), Distinct(tree),
         NEW i \in 1 .. Len(tree), tree[i].dir, NEW m \in 1 .. Len(tree[i].entries)
  PROVE  directory_findname(tree[i].entries[m].d_name, i) = tree[i].entries[m].d_inumber
<1>1. PICK E, n, name : E = tree[i].entries /\ n = Len(E) /\ name = E[m].d_name
  OBVIOUS
<1>2. n \in Nat /\ name \in Seq(STRING)
  <2>1. E \in Seq([d_name : Seq(STRING), d_inumber : 0 .. Len(tree)])
    BY <1>1, DirectoriesFit, Zenon
  <2>2. E[m] \in [d_name : Seq(STRING), d_inumber : 0 .. Len(tree)] /\ Len(E) \in Nat
    <3>1. PICK C : C = [d_name : Seq(STRING), d_inumber : 0 .. Len(tree)] /\ E \in Seq(C)
      BY <2>1, Zenon
    <3>2. E \in Seq(C) /\ m \in 1 .. Len(E)
      BY <1>1, <3>1, Zenon
    <3>3. E[m] \in C /\ Len(E) \in Nat
      BY <3>2
    <3>. QED
      BY <3>1, <3>3, Zenon
  <2>. QED
    BY <1>1, <2>2
<1>3. \A k \in 1 .. n : k < m => ~IsPrefix(name, E[k].d_name)
  <2>1. \A k, j \in 1 .. n : k < j => ~IsPrefix(E[j].d_name, E[k].d_name)
    BY <1>1, Zenon DEF Distinct
  <2>2. m \in 1 .. n
    BY <1>1
  <2>. QED
    BY <1>1, <2>1, <2>2, Zenon
<1>4. IsPrefix(name, E[m].d_name)
  <2>1. IsPrefix(name, name)
    BY <1>2, PrefixOfItself
  <2>. QED
    BY <1>1, <2>1, Zenon
<1>. DEFINE I == {k \in 1 .. Len(E) : Matches(name, E[k].d_name)}
<1>5. m \in I /\ \A k \in I : k \in Nat /\ m <= k
  <2>1. \A k \in I : k \in 1 .. n /\ IsPrefix(name, E[k].d_name)
    BY <1>1, Zenon DEF Matches
  <2>2. m \in I
    BY <1>1, <1>4, Zenon DEF Matches
  <2>. HIDE DEF I
  <2>. QED
    BY <1>2, <1>3, <2>1, <2>2
<1>6. Min(I) = m
  <2>. HIDE DEF I
  <2>1. Min(I) \in I /\ \A y \in I : Min(I) <= y
    BY <1>5, Zenon DEF Min
  <2>2. Min(I) \in Nat /\ m <= Min(I) /\ Min(I) <= m
    BY <1>5, <2>1
  <2>. QED
    BY <2>2
<1>7. SelectInSeq(E, LAMBDA d : Matches(name, d.d_name)) = m
  <2>1. SelectInSeq(E, LAMBDA d : Matches(name, d.d_name)) = IF I # {} THEN Min(I) ELSE 0
    BY Zenon DEF SelectInSeq
  <2>. HIDE DEF I
  <2>2. I # {}
    BY <1>5
  <2>. QED
    BY <1>6, <2>1, <2>2, Zenon
<1>8. IsDirectory(i) /\ Entries(i) = E
  BY <1>1, FilesAreKnown, EntriesAreRead
<1>9. SelectInSeq(Entries(i), LAMBDA d : Matches(name, d.d_name)) = m
  BY <1>7, <1>8, Zenon
<1>10. directory_findname(name, i) = IF m = 0 THEN -1 ELSE Entries(i)[m].d_inumber
  BY <1>8, <1>9, Zenon DEF directory_findname
<1>11. m # 0
  OBVIOUS
<1>. QED
  BY <1>1, <1>8, <1>10, <1>11, Zenon

\* A path that is walked: the files of t it leads through from the root.
Trail(t, path, r) ==
  /\ DOMAIN r = 0 .. Len(path) /\ r[0] = ROOT_INUMBER
  /\ \A n \in 1 .. Len(path) :
       /\ r[n - 1] \in 1 .. Len(t) /\ t[r[n - 1]].dir
       /\ \E m \in 1 .. Len(t[r[n - 1]].entries) :
            t[r[n - 1]].entries[m] = [d_name |-> path[n], d_inumber |-> r[n]]
       /\ path[n] \notin Hidden
       /\ n < Len(path) => Len(path[n]) \in Nat /\ Len(path[n]) < DIRNAME_MAX_LEN

\* pathname_lookup follows it.
LEMMA LookupFollows ==
  ASSUME tree \in Tree, disk = Disk(tree), Distinct(tree),
         NEW path, Len(path) \in Nat, NEW r, r = [n \in 0 .. Len(path) |-> r[n]], Trail(tree, path, r), NEW terminated
  PROVE  pathname_lookup(path, terminated) = r[Len(path)]
<1>. DEFINE Step(i, n) ==
              LET copied == n < Len(path)
              IN  IF copied /\ Len(path[n]) = DIRNAME_MAX_LEN /\ ~terminated THEN -1
                  ELSE directory_findname(path[n], i)
            IsLookup(g) == g = [n \in 0 .. Len(path) |-> IF n = 0 THEN ROOT_INUMBER ELSE Step(g[n - 1], n)]
            lookup == CHOOSE g : IsLookup(g)
<1>1. pathname_lookup(path, terminated) = lookup[Len(path)]
  BY Zenon DEF pathname_lookup
<1>2. PICK N \in Nat : N = Len(path)
  OBVIOUS
<1>3. \A n \in 1 .. N : Step(r[n - 1], n) = r[n]
  <2>. TAKE n \in 1 .. N
  <2>1. PICK i, m : /\ i = r[n - 1] /\ i \in 1 .. Len(tree) /\ tree[i].dir
                    /\ m \in 1 .. Len(tree[i].entries)
                    /\ tree[i].entries[m] = [d_name |-> path[n], d_inumber |-> r[n]]
                    /\ n < N => Len(path[n]) \in Nat /\ Len(path[n]) < DIRNAME_MAX_LEN
    BY <1>2, Zenon DEF Trail
  <2>2. directory_findname(tree[i].entries[m].d_name, i) = tree[i].entries[m].d_inumber
    BY <2>1, NameIsFound, Zenon
  <2>3. directory_findname(path[n], i) = r[n]
    BY <2>1, <2>2
  <2>4. n < N => Len(path[n]) # DIRNAME_MAX_LEN
    <3>1. \A x \in Nat : x < DIRNAME_MAX_LEN => x # DIRNAME_MAX_LEN
      BY DirectoriesFit
    <3>. QED
      BY <2>1, <3>1, Zenon
  <2>. QED
    BY <1>2, <2>1, <2>3, <2>4, Zenon
<1>. HIDE DEF Step
<1>4. IsLookup(r)
  <2>1. \A n \in 0 .. N : r[n] = IF n = 0 THEN ROOT_INUMBER ELSE Step(r[n - 1], n)
    <3>1. r[0] = ROOT_INUMBER
      BY DEF Trail
    <3>2. \A n \in 0 .. N : n = 0 \/ n \in 1 .. N
      OBVIOUS
    <3>. QED
      BY <1>3, <3>1, <3>2, Zenon
  <2>. QED
    BY <1>2, <2>1, Zenon
<1>5. IsLookup(lookup)
  <2>. HIDE DEF IsLookup
  <2>. QED
    BY <1>4, Zenon
<1>. HIDE DEF lookup
<1>6. \A n \in 0 .. N : lookup[n] = r[n]
  <2>. DEFINE S == {n \in 0 .. N : lookup[n] = r[n]}
  <2>1. \A n \in 0 .. N : lookup[n] = IF n = 0 THEN ROOT_INUMBER ELSE Step(lookup[n - 1], n)
    BY <1>2, <1>5, Zenon
  <2>2. \A n \in 0 .. N : r[n] = IF n = 0 THEN ROOT_INUMBER ELSE Step(r[n - 1], n)
    BY <1>2, <1>4, Zenon
  <2>3. 0 \in S
    <3>1. 0 \in 0 .. N
      OBVIOUS
    <3>. QED
      BY <2>1, <2>2, <3>1, Zenon
  <2>4. ASSUME NEW n \in 0 .. N, n < N, n \in S PROVE n + 1 \in S
    <3>1. n + 1 \in 0 .. N /\ n + 1 # 0 /\ (n + 1) - 1 = n
      BY <2>4
    <3>2. lookup[n] = r[n]
      BY <2>4
    <3>. QED
      BY <2>1, <2>2, <3>1, <3>2, Zenon
  <2>. HIDE DEF S
  <2>5. \A n \in 0 .. N : n \in S
    BY <2>3, <2>4, UpTo
  <2>. QED
    BY <2>5 DEF S
<1>. QED
  BY <1>1, <1>2, <1>6

-------------------------------------------------------------------------------
(* Sequences of calls, and those in which no path is twice. *)
\* What is in a sequence is at one of its positions.
LEMMA InSequence ==
  ASSUME NEW C, NEW q \in Seq(C), NEW n, n = Len(q)
  PROVE  \A x : x \in ToSet(q) <=> \E k \in 1 .. n : x = q[k]
<1>1. DOMAIN q = 1 .. n
  OBVIOUS
<1>. QED
  BY <1>1, Zenon DEF ToSet

\* What is in a sequence made of others.
LEMMA InJoined ==
  ASSUME NEW C, NEW s \in Seq(C), NEW t \in Seq(C)
  PROVE  s \o t \in Seq(C) /\ \A x : x \in ToSet(s \o t) <=> x \in ToSet(s) \/ x \in ToSet(t)
<1>1. PICK m \in Nat, n \in Nat : m = Len(s) /\ n = Len(t)
  OBVIOUS
<1>2. PICK q : q = s \o t
  OBVIOUS
<1>3. q \in Seq(C) /\ Len(q) = m + n /\ (\A k \in 1 .. m : q[k] = s[k]) /\ (\A k \in 1 .. n : q[m + k] = t[k])
  BY <1>1, <1>2
<1>4. \A k \in 1 .. m + n : k \in 1 .. m \/ (k - m \in 1 .. n /\ k = m + (k - m))
  OBVIOUS
<1>5. (\A k \in 1 .. m : k \in 1 .. m + n) /\ (\A k \in 1 .. n : m + k \in 1 .. m + n)
  OBVIOUS
<1>6. /\ \A x : x \in ToSet(s) <=> \E k \in 1 .. m : x = s[k]
      /\ \A x : x \in ToSet(t) <=> \E k \in 1 .. n : x = t[k]
      /\ \A x : x \in ToSet(q) <=> \E k \in 1 .. m + n : x = q[k]
  <2>1. \A x : x \in ToSet(s) <=> \E k \in 1 .. m : x = s[k]
    <3>1. s \in Seq(C) /\ m = Len(s)
      BY <1>1
    <3>. QED
      BY <3>1, InSequence
  <2>2. \A x : x \in ToSet(t) <=> \E k \in 1 .. n : x = t[k]
    <3>1. t \in Seq(C) /\ n = Len(t)
      BY <1>1
    <3>. QED
      BY <3>1, InSequence
  <2>3. \A x : x \in ToSet(q) <=> \E k \in 1 .. m + n : x = q[k]
    <3>1. q \in Seq(C) /\ m + n = Len(q)
      BY <1>3
    <3>. QED
      BY <3>1, InSequence
  <2>. QED
    BY <2>1, <2>2, <2>3
<1>7. \A x : x \in ToSet(q) <=> x \in ToSet(s) \/ x \in ToSet(t)
  <2>. TAKE x
  <2>1. ASSUME x \in ToSet(q) PROVE x \in ToSet(s) \/ x \in ToSet(t)
    <3>1. PICK k \in 1 .. m + n : x = q[k]
      BY <1>6, <2>1, Zenon
    <3>2. k \in 1 .. m \/ (k - m \in 1 .. n /\ q[k] = t[k - m])
      BY <1>3, <1>4, Zenon
    <3>. QED
      BY <1>3, <1>6, <3>1, <3>2, Zenon
  <2>2. ASSUME x \in ToSet(s) \/ x \in ToSet(t) PROVE x \in ToSet(q)
    <3>1. CASE x \in ToSet(s)
      <4>1. PICK k \in 1 .. m : x = s[k]
        BY <1>6, <3>1, Zenon
      <4>2. k \in 1 .. m + n /\ x = q[k]
        BY <1>3, <1>5, <4>1, Zenon
      <4>. QED
        BY <1>6, <4>2, Zenon
    <3>2. CASE x \in ToSet(t)
      <4>1. PICK k \in 1 .. n : x = t[k]
        BY <1>6, <3>2, Zenon
      <4>2. m + k \in 1 .. m + n /\ x = q[m + k]
        BY <1>3, <1>5, <4>1, Zenon
      <4>. QED
        BY <1>6, <4>2, Zenon
    <3>. QED
      BY <2>2, <3>1, <3>2, Zenon
  <2>. QED
    BY <2>1, <2>2, Zenon
<1>. QED
  BY <1>2, <1>3, <1>7, Zenon

\* What is in a sequence with one more element.
LEMMA InAppended ==
  ASSUME NEW C, NEW s \in Seq(C), NEW c \in C
  PROVE  Append(s, c) \in Seq(C) /\ \A x : x \in ToSet(Append(s, c)) <=> x \in ToSet(s) \/ x = c
<1>1. PICK m \in Nat : m = Len(s)
  OBVIOUS
<1>2. PICK q : q = Append(s, c)
  OBVIOUS
<1>3. q \in Seq(C) /\ Len(q) = m + 1 /\ (\A k \in 1 .. m : q[k] = s[k]) /\ q[m + 1] = c
  BY <1>1, <1>2
<1>4. \A k \in 1 .. m + 1 : k \in 1 .. m \/ k = m + 1
  OBVIOUS
<1>5. (\A k \in 1 .. m : k \in 1 .. m + 1) /\ m + 1 \in 1 .. m + 1
  OBVIOUS
<1>6. /\ \A x : x \in ToSet(s) <=> \E k \in 1 .. m : x = s[k]
      /\ \A x : x \in ToSet(q) <=> \E k \in 1 .. m + 1 : x = q[k]
  <2>1. \A x : x \in ToSet(s) <=> \E k \in 1 .. m : x = s[k]
    <3>1. s \in Seq(C) /\ m = Len(s)
      BY <1>1
    <3>. QED
      BY <3>1, InSequence
  <2>2. \A x : x \in ToSet(q) <=> \E k \in 1 .. m + 1 : x = q[k]
    <3>1. q \in Seq(C) /\ m + 1 = Len(q)
      BY <1>3
    <3>. QED
      BY <3>1, InSequence
  <2>. QED
    BY <2>1, <2>2
<1>7. \A x : x \in ToSet(q) <=> x \in ToSet(s) \/ x = c
  <2>. TAKE x
  <2>1. ASSUME x \in ToSet(q) PROVE x \in ToSet(s) \/ x = c
    <3>1. PICK k \in 1 .. m + 1 : x = q[k]
      BY <1>6, <2>1, Zenon
    <3>2. CASE k \in 1 .. m
      BY <1>3, <1>6, <3>1, <3>2, Zenon
    <3>3. CASE k = m + 1
      BY <1>3, <3>1, <3>3, Zenon
    <3>. QED
      BY <1>4, <3>2, <3>3, Zenon
  <2>2. ASSUME x \in ToSet(s) PROVE x \in ToSet(q)
    <3>1. PICK k \in 1 .. m : x = s[k]
      BY <1>6, <2>2, Zenon
    <3>2. k \in 1 .. m + 1 /\ x = q[k]
      BY <1>3, <1>5, <3>1, Zenon
    <3>. QED
      BY <1>6, <3>2, Zenon
  <2>3. c \in ToSet(q)
    BY <1>3, <1>5, <1>6, Zenon
  <2>. QED
    BY <2>1, <2>2, <2>3, Zenon
<1>. QED
  BY <1>2, <1>3, <1>7, Zenon

\* What is in a sequence is its head or in its tail.
LEMMA HeadAndTail ==
  ASSUME NEW C, NEW s \in Seq(C), s # <<>>
  PROVE  /\ Tail(s) \in Seq(C) /\ Head(s) \in C
         /\ \A x : x \in ToSet(s) <=> x \in ToSet(Tail(s)) \/ x = Head(s)
<1>1. PICK k \in Nat : Len(s) = k + 1
  <2>1. Len(s) - 1 \in Nat /\ Len(s) = (Len(s) - 1) + 1
    OBVIOUS
  <2>. QED
    BY <2>1
<1>2. PICK q : q = Tail(s)
  OBVIOUS
<1>3. q \in Seq(C) /\ Len(q) = k /\ \A j \in 1 .. k : q[j] = s[j + 1]
  BY <1>1, <1>2
<1>4. Head(s) \in C /\ Head(s) = s[1]
  BY <1>1
<1>5. \A j \in 1 .. k + 1 : j = 1 \/ (j - 1 \in 1 .. k /\ j = (j - 1) + 1)
  OBVIOUS
<1>6. 1 \in 1 .. k + 1 /\ \A j \in 1 .. k : j + 1 \in 1 .. k + 1
  OBVIOUS
<1>7. /\ \A x : x \in ToSet(s) <=> \E j \in 1 .. k + 1 : x = s[j]
      /\ \A x : x \in ToSet(q) <=> \E j \in 1 .. k : x = q[j]
  <2>1. \A x : x \in ToSet(s) <=> \E j \in 1 .. k + 1 : x = s[j]
    <3>1. k + 1 = Len(s)
      BY <1>1
    <3>. QED
      BY <3>1, InSequence
  <2>2. \A x : x \in ToSet(q) <=> \E j \in 1 .. k : x = q[j]
    <3>1. q \in Seq(C) /\ k = Len(q)
      BY <1>3
    <3>. QED
      BY <3>1, InSequence
  <2>. QED
    BY <2>1, <2>2
<1>8. \A x : x \in ToSet(s) <=> x \in ToSet(q) \/ x = s[1]
  <2>. TAKE x
  <2>1. ASSUME x \in ToSet(s) PROVE x \in ToSet(q) \/ x = s[1]
    <3>1. PICK j \in 1 .. k + 1 : x = s[j]
      BY <1>7, <2>1, Zenon
    <3>2. j = 1 \/ (j - 1 \in 1 .. k /\ q[j - 1] = s[j])
      <4>1. j = 1 \/ (j - 1 \in 1 .. k /\ j = (j - 1) + 1)
        BY <1>5
      <4>. QED
        BY <1>3, <4>1, Zenon
    <3>. QED
      BY <1>7, <3>1, <3>2, Zenon
  <2>2. ASSUME x \in ToSet(q) PROVE x \in ToSet(s)
    <3>1. PICK j \in 1 .. k : x = q[j]
      BY <1>7, <2>2, Zenon
    <3>2. j + 1 \in 1 .. k + 1 /\ x = s[j + 1]
      BY <1>3, <1>6, <3>1, Zenon
    <3>. QED
      BY <1>7, <3>2, Zenon
  <2>3. s[1] \in ToSet(s)
    BY <1>6, <1>7, Zenon
  <2>. QED
    BY <2>1, <2>2, <2>3, Zenon
<1>9. \A x : x \in ToSet(s) <=> x \in ToSet(Tail(s)) \/ x = Head(s)
  <2>1. s[1] = Head(s) /\ q = Tail(s)
    BY <1>2, <1>4
  <2>. QED
    BY <1>8, <2>1, Zenon
<1>10. Tail(s) \in Seq(C)
  BY <1>2, <1>3, Zenon
<1>. QED
  BY <1>4, <1>9, <1>10, Zenon

\* No path twice in a sequence of calls, none in both of two.
Once(s) == \A m, n \in 1 .. Len(s) : m # n => s[m].path # s[n].path
Apart(s, t) == \A c \in ToSet(s), d \in ToSet(t) : c.path # d.path

\* Sequences with no path twice, and none in both, have none twice when joined,
LEMMA JoinedOnce ==
  ASSUME NEW C, NEW s \in Seq(C), NEW t \in Seq(C), Once(s), Once(t), Apart(s, t)
  PROVE  Once(s \o t)
<1>1. PICK m \in Nat, n \in Nat : m = Len(s) /\ n = Len(t)
  OBVIOUS
<1>2. Len(s \o t) = m + n /\ (\A k \in 1 .. m : (s \o t)[k] = s[k]) /\ (\A k \in 1 .. n : (s \o t)[m + k] = t[k])
  BY <1>1
<1>3. PICK joined : joined = s \o t
  OBVIOUS
<1>4. \A k \in 1 .. m + n : k \in 1 .. m \/ (k - m \in 1 .. n /\ joined[k] = t[k - m])
  <2>1. \A k \in 1 .. m + n : k \in 1 .. m \/ (k - m \in 1 .. n /\ k = m + (k - m))
    OBVIOUS
  <2>. QED
    BY <1>2, <1>3, <2>1
<1>5. \A i \in 1 .. m, j \in 1 .. n : s[i].path # t[j].path
  <2>1. (\A i \in 1 .. m : s[i] \in ToSet(s)) /\ (\A j \in 1 .. n : t[j] \in ToSet(t))
    BY <1>1 DEF ToSet
  <2>. QED
    BY <2>1 DEF Apart
<1>6. \A i, j \in 1 .. m : i # j => s[i].path # s[j].path
  BY <1>1 DEF Once
<1>7. \A i, j \in 1 .. n : i # j => t[i].path # t[j].path
  BY <1>1 DEF Once
<1>8. \A i, j \in 1 .. m + n : i # j => joined[i].path # joined[j].path
  <2>. TAKE i, j \in 1 .. m + n
  <2>. HAVE i # j
  <2>1. i - m # j - m
    OBVIOUS
  <2>2. (i \in 1 .. m => joined[i] = s[i]) /\ (j \in 1 .. m => joined[j] = s[j])
    BY <1>2, <1>3
  <2>. QED
    BY <1>4, <1>5, <1>6, <1>7, <2>1, <2>2, Zenon
<1>. QED
  BY <1>2, <1>3, <1>8 DEF Once

\* nor when a new path is appended,
LEMMA AppendedOnce ==
  ASSUME NEW C, NEW s \in Seq(C), NEW c, Once(s), \A d \in ToSet(s) : c.path # d.path
  PROVE  Once(Append(s, c))
<1>1. PICK m \in Nat : m = Len(s)
  OBVIOUS
<1>2. Len(Append(s, c)) = m + 1 /\ (\A k \in 1 .. m : Append(s, c)[k] = s[k]) /\ Append(s, c)[m + 1] = c
  BY <1>1
<1>3. \A i \in 1 .. m : s[i].path # c.path
  <2>1. \A i \in 1 .. m : s[i] \in ToSet(s)
    BY <1>1 DEF ToSet
  <2>. QED
    BY <2>1, Zenon
<1>4. \A i, j \in 1 .. m : i # j => s[i].path # s[j].path
  BY <1>1 DEF Once
<1>5. \A k \in 1 .. m + 1 : k \in 1 .. m \/ k = m + 1
  OBVIOUS
<1>. QED
  BY <1>2, <1>3, <1>4, <1>5 DEF Once

\* nor in what is left of one, where the head is not any more.
LEMMA TailOnce ==
  ASSUME NEW C, NEW s \in Seq(C), s # <<>>, Once(s)
  PROVE  Once(Tail(s)) /\ \A d \in ToSet(Tail(s)) : d.path # Head(s).path
<1>1. PICK k \in Nat : Len(s) = k + 1
  <2>1. Len(s) - 1 \in Nat /\ Len(s) = (Len(s) - 1) + 1
    OBVIOUS
  <2>. QED
    BY <2>1
<1>2. Len(Tail(s)) = k /\ Head(s) = s[1] /\ \A j \in 1 .. k : Tail(s)[j] = s[j + 1]
  BY <1>1
<1>3. 1 \in 1 .. k + 1 /\ \A j \in 1 .. k : j + 1 \in 1 .. k + 1 /\ j + 1 # 1
  OBVIOUS
<1>4. \A i, j \in 1 .. k : i # j => i + 1 # j + 1
  OBVIOUS
<1>5. \A i, j \in 1 .. k + 1 : i # j => s[i].path # s[j].path
  BY <1>1, Zenon DEF Once
<1>6. Once(Tail(s))
  <2>1. \A i, j \in 1 .. k : i # j => s[i + 1].path # s[j + 1].path
    <3>. TAKE i, j \in 1 .. k
    <3>. HAVE i # j
    <3>1. PICK a \in 1 .. k + 1, b \in 1 .. k + 1 : a = i + 1 /\ b = j + 1 /\ a # b
      OBVIOUS
    <3>2. s[a].path # s[b].path
      BY <1>5, <3>1, Zenon
    <3>. QED
      BY <3>1, <3>2, Zenon
  <2>2. \A i, j \in 1 .. k : i # j => Tail(s)[i].path # Tail(s)[j].path
    <3>. TAKE i, j \in 1 .. k
    <3>. HAVE i # j
    <3>1. Tail(s)[i] = s[i + 1] /\ Tail(s)[j] = s[j + 1]
      BY <1>2
    <3>2. s[i + 1].path # s[j + 1].path
      BY <2>1, Zenon
    <3>. QED
      BY <3>1, <3>2, Zenon
  <2>. QED
    BY <1>2, <2>2 DEF Once
<1>7. \A d \in ToSet(Tail(s)) : d.path # Head(s).path
  <2>1. \A d \in ToSet(Tail(s)) : \E j \in 1 .. k : d = s[j + 1]
    <3>1. PICK q : q = Tail(s)
      OBVIOUS
    <3>2. q \in Seq(C) /\ Len(q) = k
      BY <1>2, <3>1
    <3>3. \A d \in ToSet(q) : \E j \in 1 .. k : d = q[j]
      <4>1. \A d : d \in ToSet(q) <=> \E j \in 1 .. k : d = q[j]
        <5>1. q \in Seq(C) /\ k = Len(q)
          BY <3>2
        <5>. QED
          BY <5>1, InSequence
      <4>. QED
        BY <4>1, Zenon
    <3>4. \A j \in 1 .. k : q[j] = s[j + 1]
      BY <1>2, <3>1, Zenon
    <3>5. \A d \in ToSet(q) : \E j \in 1 .. k : d = s[j + 1]
      BY <3>3, <3>4, Zenon
    <3>. QED
      BY <3>1, <3>5, Zenon
  <2>2. \A j \in 1 .. k : s[j + 1].path # s[1].path
    BY <1>3, <1>5, Zenon
  <2>. QED
    BY <1>2, <2>1, <2>2, Zenon
<1>. QED
  BY <1>6, <1>7

(* The calls of DumpPathAndChildren on an image of t, and those made for the  *)
(* entries of the directory that c is a path of.                              *)
Call(t) == [path : Seq(Seq(STRING)), inumber : 0 .. Len(t)]
Root == [path |-> <<>>, inumber |-> ROOT_INUMBER]

Below(t, c) ==
  LET e == t[c.inumber].entries
      shown == {n \in 1 .. Len(e) : e[n].d_name \notin Hidden}
  IN  IF c.inumber # 0 /\ t[c.inumber].dir
      THEN {[path |-> Append(c.path, e[n].d_name), inumber |-> e[n].d_inumber] : n \in shown}
      ELSE {}

\* Different names make different paths.
LEMMA NamesDiffer ==
  ASSUME NEW t \in Tree, Distinct(t), NEW i \in 1 .. Len(t),
         NEW m \in 1 .. Len(t[i].entries), NEW n \in 1 .. Len(t[i].entries), m # n
  PROVE  t[i].entries[m].d_name # t[i].entries[n].d_name
<1>1. PICK E, N : E = t[i].entries /\ N = Len(E)
  OBVIOUS
<1>2. PICK C : C = [d_name : Seq(STRING), d_inumber : 0 .. Len(t)] /\ E \in Seq(C)
  <2>1. E \in Seq([d_name : Seq(STRING), d_inumber : 0 .. Len(t)])
    BY <1>1, DirectoriesFit, Zenon
  <2>. QED
    BY <2>1, Zenon
<1>3. N \in Nat /\ m \in 1 .. N /\ n \in 1 .. N /\ E[m] \in C /\ E[n] \in C
  <2>1. m \in 1 .. Len(E) /\ n \in 1 .. Len(E)
    BY <1>1, Zenon
  <2>2. Len(E) \in Nat /\ E[m] \in C /\ E[n] \in C
    <3>1. E \in Seq(C)
      BY <1>2, Zenon
    <3>. QED
      BY <2>1, <3>1
  <2>. QED
    BY <1>1, <2>1, <2>2, Zenon
<1>4. E[m].d_name \in Seq(STRING) /\ E[n].d_name \in Seq(STRING)
  BY <1>2, <1>3
<1>5. IsPrefix(E[m].d_name, E[m].d_name)
  BY <1>4, PrefixOfItself
<1>6. \A k, j \in 1 .. N : k < j => ~IsPrefix(E[j].d_name, E[k].d_name)
  BY <1>1, Zenon DEF Distinct
<1>7. m < n \/ n < m
  BY <1>3
<1>8. E[m].d_name # E[n].d_name
  BY <1>3, <1>5, <1>6, <1>7, Zenon
<1>. QED
  BY <1>1, <1>8, Zenon

\* Children makes the calls below a directory, each once.
LEMMA ChildrenAreBelow ==
  ASSUME tree \in Tree, disk = Disk(tree), Distinct(tree),
         NEW c \in Call(tree), c.inumber \in 1 .. Len(tree), tree[c.inumber].dir
  PROVE  LET kids == Children(c.path, c.inumber)
         IN  kids \in Seq(Call(tree)) /\ (\A x : x \in ToSet(kids) <=> x \in Below(tree, c)) /\ Once(kids)
<1>1. PICK i, path, E, N : /\ i = c.inumber /\ path = c.path /\ E = tree[i].entries /\ N = Len(E)
                           /\ i \in 1 .. Len(tree) /\ tree[i].dir
  BY Zenon
<1>2. path \in Seq(Seq(STRING))
  BY <1>1 DEF Call
<1>3. PICK C : C = [d_name : Seq(STRING), d_inumber : 0 .. Len(tree)] /\ E \in Seq(C)
  <2>1. E \in Seq([d_name : Seq(STRING), d_inumber : 0 .. Len(tree)])
    BY <1>1, DirectoriesFit, Zenon
  <2>. QED
    BY <2>1, Zenon
<1>4. N \in Nat /\ DOMAIN E = 1 .. N /\ \A n \in 1 .. N : E[n] \in C
  <2>1. E \in Seq(C) /\ N = Len(E)
    BY <1>1, <1>3, Zenon
  <2>. QED
    BY <2>1
<1>5. \A n \in 1 .. N : E[n].d_name \in Seq(STRING) /\ E[n].d_inumber \in 0 .. Len(tree)
  BY <1>3, <1>4
<1>6. GetDirEntries(i) = E
  <2>1. Entries(i) = E
    BY <1>1, EntriesAreRead, Zenon
  <2>2. N <= MaxNumEntries
    BY <1>1, Zenon DEF Distinct
  <2>3. (IF N > MaxNumEntries THEN MaxNumEntries ELSE N) = N
    BY <1>4, <2>2, DirectoriesFit
  <2>4. SubSeq(E, 1, N) = E
    BY <1>1, <1>3, SubSeqFull, Zenon
  <2>. QED
    BY <1>1, <2>1, <2>3, <2>4, Zenon DEF GetDirEntries
<1>. DEFINE S == {n \in 1 .. N : E[n].d_name \notin Hidden}
            Kid(n) == [path |-> Append(path, E[n].d_name), inumber |-> E[n].d_inumber]
<1>7. S \subseteq Int /\ IsFiniteSet(S)
  <2>1. IsFiniteSet(1 .. N)
    BY <1>4, FS_Interval
  <2>2. S \subseteq 1 .. N
    OBVIOUS
  <2>. HIDE DEF S
  <2>3. IsFiniteSet(S)
    BY <2>1, <2>2, FS_Subset
  <2>. QED
    BY <2>2, <2>3
<1>8. Children(path, i) = [k \in 1 .. Len(InOrder(S, <)) |-> Kid(InOrder(S, <)[k])]
  <2>1. Children(path, i) =
          LET shown == InOrder({e \in 1 .. N : E[e].d_name \notin Hidden}, <)
          IN  [k \in 1 .. Len(shown) |-> [path |-> Append(path, E[shown[k]].d_name), inumber |-> E[shown[k]].d_inumber]]
    BY <1>4, <1>6, Zenon DEF Children
  <2>. QED
    BY <2>1, Zenon
<1>9. Below(tree, c) = {Kid(n) : n \in S}
  <2>1. i # 0
    BY <1>1
  <2>. QED
    BY <1>1, <2>1, Zenon DEF Below
<1>10. \A n \in S : n \in 1 .. N
  OBVIOUS
<1>11. \A n \in 1 .. N : Kid(n) \in Call(tree)
  <2>. TAKE n \in 1 .. N
  <2>1. Append(path, E[n].d_name) \in Seq(Seq(STRING))
    BY <1>2, <1>5, AppendProperties, Zenon
  <2>. QED
    BY <1>5, <2>1 DEF Call
<1>12. \A m, n \in 1 .. N : m # n => Kid(m).path # Kid(n).path
  <2>. TAKE m, n \in 1 .. N
  <2>. HAVE m # n
  <2>1. E[m].d_name # E[n].d_name
    BY <1>1, NamesDiffer, Zenon
  <2>2. Append(path, E[m].d_name) # Append(path, E[n].d_name)
    <3>1. PICK D, a, b : D = Seq(STRING) /\ a = E[m].d_name /\ b = E[n].d_name
      BY Zenon
    <3>2. path \in Seq(D) /\ a \in D /\ b \in D /\ a # b
      BY <1>2, <1>5, <2>1, <3>1, Zenon
    <3>3. Append(path, a) # Append(path, b)
      BY <3>2, AppendInjective
    <3>. QED
      BY <3>1, <3>3, Zenon
  <2>. QED
    BY <2>2
<1>. HIDE DEF S, Kid
<1>13. PICK s \in [1 .. Cardinality(S) -> S] :
             /\ s = InOrder(S, <) /\ Len(s) = Cardinality(S)
             /\ \A k, l \in 1 .. Len(s) : k < l => s[k] < s[l]
             /\ \A x \in S : \E k \in 1 .. Len(s) : s[k] = x
  BY <1>7, NumbersInOrder, Zenon
<1>14. PICK l \in Nat : l = Cardinality(S)
  BY <1>7, FS_CardinalityType
<1>15. /\ Len(s) = l /\ \A k \in 1 .. l : s[k] \in S /\ s[k] \in 1 .. N
       /\ \A k, j \in 1 .. l : k < j => s[k] < s[j]
       /\ \A x \in S : \E k \in 1 .. l : s[k] = x
  BY <1>10, <1>13, <1>14, Zenon
<1>16. PICK kids : kids = Children(path, i)
  OBVIOUS
<1>17. kids = [k \in 1 .. l |-> Kid(s[k])]
  BY <1>8, <1>13, <1>14, <1>16, Zenon
<1>18. kids \in Seq(Call(tree)) /\ Len(kids) = l /\ \A k \in 1 .. l : kids[k] = Kid(s[k])
  <2>1. \A k \in 1 .. l : Kid(s[k]) \in Call(tree)
    BY <1>11, <1>15, Zenon
  <2>. QED
    BY <1>14, <1>17, <2>1
<1>19. \A x : x \in ToSet(kids) <=> x \in Below(tree, c)
  <2>1. \A x : x \in ToSet(kids) <=> \E k \in 1 .. l : x = kids[k]
    <3>1. kids \in Seq(Call(tree)) /\ l = Len(kids)
      BY <1>18
    <3>. QED
      BY <3>1, InSequence
  <2>2. \A x : x \in Below(tree, c) <=> \E n \in S : x = Kid(n)
    BY <1>9, Zenon
  <2>. TAKE x
  <2>3. ASSUME x \in ToSet(kids) PROVE x \in Below(tree, c)
    <3>1. PICK k \in 1 .. l : x = kids[k]
      BY <2>1, <2>3, Zenon
    <3>2. s[k] \in S /\ x = Kid(s[k])
      BY <1>15, <1>18, <3>1, Zenon
    <3>. QED
      BY <2>2, <3>2, Zenon
  <2>4. ASSUME x \in Below(tree, c) PROVE x \in ToSet(kids)
    <3>1. PICK n \in S : x = Kid(n)
      BY <2>2, <2>4, Zenon
    <3>2. PICK k \in 1 .. l : s[k] = n
      BY <1>15, Zenon
    <3>3. x = kids[k]
      BY <1>18, <3>1, <3>2, Zenon
    <3>. QED
      BY <2>1, <3>3, Zenon
  <2>. QED
    BY <2>3, <2>4, Zenon
<1>20. Once(kids)
  <2>1. \A k, j \in 1 .. l : k # j => s[k] # s[j]
    <3>. TAKE k, j \in 1 .. l
    <3>. HAVE k # j
    <3>1. (k < j \/ j < k) /\ s[k] \in Int /\ s[j] \in Int
      BY <1>15
    <3>2. s[k] < s[j] \/ s[j] < s[k]
      BY <1>15, <3>1, Zenon
    <3>. QED
      BY <3>1, <3>2
  <2>2. \A k, j \in 1 .. l : k # j => kids[k].path # kids[j].path
    <3>. TAKE k, j \in 1 .. l
    <3>. HAVE k # j
    <3>1. s[k] \in 1 .. N /\ s[j] \in 1 .. N /\ s[k] # s[j]
      BY <1>15, <2>1, Zenon
    <3>2. Kid(s[k]).path # Kid(s[j]).path
      BY <1>12, <3>1, Zenon
    <3>. QED
      BY <1>18, <3>2, Zenon
  <2>. QED
    BY <1>18, <2>2, Zenon DEF Once
<1>. QED
  BY <1>1, <1>16, <1>18, <1>19, <1>20, Zenon

-------------------------------------------------------------------------------
(* The walk of diskimageaccess -p, one call of DumpPathAndChildren after the   *)
(* other.                                                                      *)
\* The path of a call leads to its inode.
Resolved(t, c) ==
  \E r : /\ r = [n \in 0 .. Len(c.path) |-> r[n]]
         /\ Trail(t, c.path, r) /\ r[Len(c.path)] = c.inumber

\* The path of the root does.
LEMMA RootIsResolved ==
  ASSUME NEW t \in Tree
  PROVE  Root \in Call(t) /\ Resolved(t, Root) /\ Root.inumber \in 1 .. Len(t)
<1>1. Root.path = <<>> /\ Len(Root.path) = 0 /\ Root.inumber = ROOT_INUMBER
  BY DEF Root
<1>2. PICK l \in Nat : l = Len(t) /\ l > 0
  BY TreesFit, DirectoriesFit
<1>3. 1 \in 0 .. l /\ 1 \in 1 .. l
  BY <1>2
<1>4. Root \in Call(t)
  <2>1. <<>> \in Seq(Seq(STRING))
    OBVIOUS
  <2>. QED
    BY <1>2, <1>3, <2>1 DEF Root, Call, ROOT_INUMBER
<1>5. PICK r : r = [n \in 0 .. 0 |-> ROOT_INUMBER]
  OBVIOUS
<1>6. r = [n \in 0 .. 0 |-> r[n]] /\ DOMAIN r = 0 .. 0 /\ r[0] = ROOT_INUMBER
  BY <1>5
<1>7. Trail(t, Root.path, r)
  <2>1. 1 .. Len(Root.path) = {}
    BY <1>1
  <2>. QED
    BY <1>1, <1>6, <2>1, Zenon DEF Trail
<1>8. Resolved(t, Root)
  BY <1>1, <1>6, <1>7, Zenon DEF Resolved
<1>. QED
  BY <1>1, <1>2, <1>3, <1>4, <1>8, Zenon DEF ROOT_INUMBER

\* So does that of a call below it: a directory's name leaves room for a zero.
LEMMA TrailsExtend ==
  ASSUME NEW t \in Tree, Distinct(t), NEW c \in Call(t), Resolved(t, c),
         c.inumber \in 1 .. Len(t), NEW d \in Below(t, c)
  PROVE  Resolved(t, d)
<1>1. PICK i, path : i = c.inumber /\ path = c.path /\ i \in 1 .. Len(t)
  BY Zenon
<1>2. path \in Seq(Seq(STRING))
  BY <1>1 DEF Call
<1>3. PICK L \in Nat : L = Len(path)
  BY <1>2
<1>4. \A n \in 1 .. L : path[n] \in Seq(STRING)
  BY <1>2, <1>3
<1>5. PICK r : r = [n \in 0 .. L |-> r[n]] /\ Trail(t, path, r) /\ r[L] = i
  BY <1>1, <1>3, Zenon DEF Resolved
<1>6. PICK m : /\ t[i].dir /\ m \in 1 .. Len(t[i].entries) /\ t[i].entries[m].d_name \notin Hidden
               /\ d = [path |-> Append(path, t[i].entries[m].d_name), inumber |-> t[i].entries[m].d_inumber]
  BY <1>1, Zenon DEF Below
<1>7. PICK x, y : /\ t[i].entries[m] = [d_name |-> x, d_inumber |-> y] /\ x \in Seq(STRING) /\ x \notin Hidden
                  /\ d.path = Append(path, x) /\ d.inumber = y
  <2>1. PICK E, C : E = t[i].entries /\ C = [d_name : Seq(STRING), d_inumber : 0 .. Len(t)] /\ E \in Seq(C)
    BY <1>1, DirectoriesFit, Zenon
  <2>2. E[m] \in C
    <3>1. E \in Seq(C) /\ m \in 1 .. Len(E)
      BY <1>6, <2>1, Zenon
    <3>. QED
      BY <3>1
  <2>3. E[m] = [d_name |-> E[m].d_name, d_inumber |-> E[m].d_inumber] /\ E[m].d_name \in Seq(STRING)
    BY <2>1, <2>2
  <2>4. d.path = Append(path, E[m].d_name) /\ d.inumber = E[m].d_inumber
    BY <1>6, <2>1
  <2>. QED
    BY <1>6, <2>1, <2>3, <2>4, Zenon
<1>8. PICK p : p = Append(path, x)
  OBVIOUS
<1>9. Len(p) = L + 1 /\ p[L + 1] = x /\ \A n \in 1 .. L : p[n] = path[n]
  BY <1>2, <1>3, <1>7, <1>8
<1>10. PICK q : q = [n \in 0 .. L + 1 |-> IF n = L + 1 THEN y ELSE r[n]]
  OBVIOUS
<1>11. q = [n \in 0 .. L + 1 |-> q[n]] /\ q[L + 1] = y /\ \A n \in 0 .. L : q[n] = r[n]
  BY <1>10
<1>12. \A n \in 1 .. L : /\ r[n - 1] \in 1 .. Len(t) /\ t[r[n - 1]].dir
                         /\ \E k \in 1 .. Len(t[r[n - 1]].entries) :
                              t[r[n - 1]].entries[k] = [d_name |-> path[n], d_inumber |-> r[n]]
                         /\ path[n] \notin Hidden
                         /\ n < L => Len(path[n]) \in Nat /\ Len(path[n]) < DIRNAME_MAX_LEN
  BY <1>3, <1>5, Zenon DEF Trail
<1>13. L \in 1 .. L => Len(path[L]) \in Nat /\ Len(path[L]) < DIRNAME_MAX_LEN
  <2>. HAVE L \in 1 .. L
  <2>1. PICK j, k : /\ j \in 1 .. Len(t) /\ k \in 1 .. Len(t[j].entries)
                    /\ t[j].entries[k] = [d_name |-> path[L], d_inumber |-> i] /\ path[L] \notin Hidden
    BY <1>5, <1>12, Zenon
  <2>2. t[j].entries[k].d_name = path[L] /\ t[j].entries[k].d_inumber = i
    BY <2>1
  <2>3. i # 0 /\ File(t, i) = t[i]
    <3>1. PICK l \in Nat : l = Len(t)
      BY TreesFit
    <3>2. i # 0 /\ i <= l
      BY <1>1, <3>1
    <3>. QED
      BY <3>1, <3>2, Zenon DEF File
  <2>4. Len(path[L]) < DIRNAME_MAX_LEN
    BY <1>6, <2>1, <2>2, <2>3, Zenon DEF Distinct
  <2>5. path[L] \in Seq(STRING)
    BY <1>4, Zenon
  <2>6. Len(path[L]) \in Nat
    BY <2>5
  <2>. QED
    BY <2>4, <2>6
<1>14. Trail(t, p, q)
  <2>1. DOMAIN q = 0 .. L + 1 /\ q[0] = ROOT_INUMBER
    <3>1. r[0] = ROOT_INUMBER
      BY <1>5, Zenon DEF Trail
    <3>2. 0 \in 0 .. L /\ DOMAIN q = 0 .. L + 1
      BY <1>10
    <3>. QED
      BY <1>11, <3>1, <3>2, Zenon
  <2>2. ASSUME NEW n \in 1 .. L + 1
        PROVE  /\ q[n - 1] \in 1 .. Len(t) /\ t[q[n - 1]].dir
               /\ \E k \in 1 .. Len(t[q[n - 1]].entries) :
                    t[q[n - 1]].entries[k] = [d_name |-> p[n], d_inumber |-> q[n]]
               /\ p[n] \notin Hidden
               /\ n < L + 1 => Len(p[n]) \in Nat /\ Len(p[n]) < DIRNAME_MAX_LEN
    <3>1. CASE n = L + 1
      <4>1. n - 1 = L /\ L \in 0 .. L /\ ~(n < L + 1)
        BY <3>1
      <4>2. q[n - 1] = i /\ q[n] = y /\ p[n] = x
        BY <1>5, <1>9, <1>11, <3>1, <4>1, Zenon
      <4>. QED
        BY <1>1, <1>6, <1>7, <4>1, <4>2, Zenon
    <3>2. CASE n # L + 1
      <4>1. n \in 1 .. L /\ n - 1 \in 0 .. L /\ n \in 0 .. L /\ (n < L \/ n = L)
        BY <3>2
      <4>2. q[n - 1] = r[n - 1] /\ q[n] = r[n] /\ p[n] = path[n]
        BY <1>9, <1>11, <4>1, Zenon
      <4>3. Len(path[n]) \in Nat /\ Len(path[n]) < DIRNAME_MAX_LEN
        BY <1>12, <1>13, <4>1, Zenon
      <4>. QED
        BY <1>12, <4>1, <4>2, <4>3, Zenon
    <3>. QED
      BY <3>1, <3>2
  <2>. QED
    BY <1>9, <2>1, <2>2, Zenon DEF Trail
<1>15. d.path = p /\ Len(d.path) = L + 1 /\ d.inumber = y
  BY <1>7, <1>8, <1>9, Zenon
<1>. QED
  BY <1>11, <1>14, <1>15, Zenon DEF Resolved

\* Of a call that resolves, the two checksums are the same unless there is no file.
LEMMA ChecksumsAgree ==
  ASSUME tree \in Tree, disk = Disk(tree), Distinct(tree),
         NEW c \in Call(tree), Resolved(tree, c), ~IsFree(c.inumber), NEW terminated
  PROVE  SamePathChecksum(c, terminated) <=> c.inumber # 0
<1>1. PICK i, path : i = c.inumber /\ path = c.path /\ i \in 0 .. Len(tree) /\ path \in Seq(Seq(STRING))
  BY DEF Call
<1>2. pathname_lookup(path, terminated) = i
  <2>1. PICK L \in Nat : L = Len(path)
    BY <1>1
  <2>2. PICK r : r = [n \in 0 .. Len(path) |-> r[n]] /\ Trail(tree, path, r) /\ r[Len(path)] = i
    BY <1>1, Zenon DEF Resolved
  <2>. QED
    BY <2>1, <2>2, LookupFollows, Zenon
<1>3. PICK l \in Nat : l = Len(tree)
  BY TreesFit
<1>4. i \in Int /\ (i # 0 => i \in 1 .. Len(tree)) /\ (i = 0 => i \notin 1 .. Len(tree))
  BY <1>1, <1>3
<1>5. HasChecksum(i) <=> i # 0
  <2>1. HasChecksum(i) <=> i \in 1 .. Len(tree) /\ tree[i].alloc
    BY <1>4, FilesAreKnown, Zenon
  <2>2. i \in 1 .. Len(tree) => (IsFree(i) <=> ~tree[i].alloc)
    BY <1>4, FilesAreKnown, Zenon
  <2>. QED
    BY <1>1, <1>4, <2>1, <2>2, Zenon
<1>. QED
  BY <1>1, <1>2, <1>5, Zenon DEF SamePathChecksum

\* What is below a directory has a path one name longer.
LEMMA PathsBelow ==
  ASSUME NEW t \in Tree, NEW c \in Call(t), NEW x \in Below(t, c)
  PROVE  x.path # <<>> /\ Front(x.path) = c.path
<1>1. PICK i, path : i = c.inumber /\ path = c.path /\ i \in 0 .. Len(t) /\ path \in Seq(Seq(STRING))
  BY DEF Call
<1>2. PICK l \in Nat : l = Len(t)
  BY TreesFit
<1>3. PICK n : i # 0 /\ n \in 1 .. Len(t[i].entries) /\ x.path = Append(path, t[i].entries[n].d_name)
  <2>1. PICK n : /\ i # 0 /\ n \in 1 .. Len(t[i].entries)
                 /\ x = [path |-> Append(path, t[i].entries[n].d_name), inumber |-> t[i].entries[n].d_inumber]
    BY <1>1, Zenon DEF Below
  <2>2. x.path = Append(path, t[i].entries[n].d_name)
    BY <2>1
  <2>. QED
    BY <2>1, <2>2, Zenon
<1>4. i \in 1 .. Len(t)
  BY <1>1, <1>2, <1>3
<1>5. PICK E, C : E = t[i].entries /\ C = [d_name : Seq(STRING), d_inumber : 0 .. Len(t)] /\ E \in Seq(C)
  BY <1>4, DirectoriesFit, Zenon
<1>6. E[n] \in C
  <2>1. E \in Seq(C) /\ n \in 1 .. Len(E)
    BY <1>3, <1>5, Zenon
  <2>. QED
    BY <2>1
<1>7. PICK a \in Seq(STRING) : a = t[i].entries[n].d_name
  <2>1. E[n].d_name \in Seq(STRING)
    BY <1>5, <1>6
  <2>. QED
    BY <1>5, <2>1, Zenon
<1>8. PICK D : D = Seq(STRING) /\ path \in Seq(D) /\ a \in D
  BY <1>1, <1>7, Zenon
<1>9. PICK k \in Nat : k = Len(path)
  BY <1>8
<1>10. Append(path, a) # <<>> /\ Len(Append(path, a)) = k + 1 /\ SubSeq(Append(path, a), 1, k) = path
  <2>1. PICK q : q = Append(path, a)
    OBVIOUS
  <2>2. q \in Seq(D) /\ Len(q) = k + 1 /\ q # <<>> /\ \A j \in 1 .. k : q[j] = path[j]
    <3>1. path \in Seq(D) /\ a \in D
      BY <1>8, Zenon
    <3>. QED
      BY <1>9, <2>1, <3>1
  <2>3. SubSeq(q, 1, k) = path
    <3>1. path \in Seq(D)
      BY <1>8, Zenon
    <3>. QED
      BY <1>9, <2>2, <3>1
  <2>. QED
    BY <2>1, <2>2, <2>3, Zenon
<1>11. Front(x.path) = path
  <2>1. (k + 1) - 1 = k
    OBVIOUS
  <2>2. x.path = Append(path, a)
    BY <1>3, <1>7, Zenon
  <2>. QED
    BY <1>10, <2>1, <2>2, Zenon DEF Front
<1>. QED
  BY <1>1, <1>3, <1>7, <1>10, <1>11, Zenon

(* The walk: the calls to come and the lines written have paths of the tree,   *)
(* below a file listed before them, and none twice; and what is below a listed *)
(* file is one of them.                                                        *)
Reached(t, next, done) ==
  \A c : c \in ToSet(next) \/ c \in ToSet(done) =>
    Resolved(t, c) /\ (c = Root \/ \E p \in ToSet(done) : c \in Below(t, p))

Complete(t, next, done) ==
  \A p \in ToSet(done) :
    /\ p.inumber # 0
    /\ \A c \in Below(t, p) : c.inumber = 0 \/ c \in ToSet(next) \/ c \in ToSet(done)

Walked(t, next, done) ==
  /\ next \in Seq(Call(t)) /\ done \in Seq(Call(t))
  /\ Reached(t, next, done) /\ Complete(t, next, done)
  /\ Once(next) /\ Once(done) /\ Apart(next, done)

\* What is below the next call has no path that was met before: its own is met once.
LEMMA NothingTwice ==
  ASSUME NEW t \in Tree, NEW next, NEW done, Walked(t, next, done), next # <<>>,
         NEW x \in Below(t, Head(next))
  PROVE  \A d : d \in ToSet(next) \/ d \in ToSet(done) => d.path # x.path
<1>1. PICK c : c = Head(next) /\ c \in Call(t) /\ c \in ToSet(next)
  <2>1. next \in Seq(Call(t))
    BY DEF Walked
  <2>. QED
    BY <2>1, HeadAndTail
<1>2. x.path # <<>> /\ Front(x.path) = c.path
  BY <1>1, PathsBelow, Zenon
<1>. SUFFICES ASSUME NEW d, d \in ToSet(next) \/ d \in ToSet(done), d.path = x.path PROVE FALSE
  BY Zenon
<1>3. d # Root
  BY <1>2 DEF Root
<1>4. PICK p \in ToSet(done) : d \in Below(t, p)
  BY <1>3, Zenon DEF Walked, Reached
<1>5. p \in Call(t)
  <2>1. done \in Seq(Call(t))
    BY DEF Walked
  <2>2. \A s \in Seq(Call(t)) : \A y \in ToSet(s) : y \in Call(t)
    BY DEF ToSet
  <2>. QED
    BY <2>1, <2>2, Zenon
<1>6. Front(d.path) = p.path
  BY <1>4, <1>5, PathsBelow, Zenon
<1>7. p.path = c.path
  BY <1>2, <1>6, Zenon
<1>8. c.path # p.path
  BY <1>1, <1>4, Zenon DEF Walked, Apart
<1>. QED
  BY <1>7, <1>8, Zenon

\* A call whose checksums agree: its line is written and the calls below it come next.
LEMMA ListedStep ==
  ASSUME NEW t \in Tree, NEW next, NEW done, Walked(t, next, done), next # <<>>, Head(next).inumber # 0,
         NEW kids \in Seq(Call(t)), Once(kids), \A x : x \in ToSet(kids) <=> x \in Below(t, Head(next)),
         \A x \in Below(t, Head(next)) : Resolved(t, x)
  PROVE  Walked(t, kids \o Tail(next), Append(done, Head(next)))
<1>1. PICK C : C = Call(t)
  OBVIOUS
<1>2. PICK c, rest : c = Head(next) /\ rest = Tail(next)
  OBVIOUS
<1>3. /\ next \in Seq(C) /\ done \in Seq(C) /\ kids \in Seq(C)
      /\ Reached(t, next, done) /\ Complete(t, next, done) /\ Once(next) /\ Once(done) /\ Apart(next, done)
  BY <1>1, Zenon DEF Walked
<1>4. rest \in Seq(C) /\ c \in C /\ (\A x : x \in ToSet(next) <=> x \in ToSet(rest) \/ x = c)
  BY <1>2, <1>3, HeadAndTail
<1>5. Once(rest) /\ \A d \in ToSet(rest) : d.path # c.path
  BY <1>2, <1>3, TailOnce
<1>6. PICK later : later = kids \o rest
  OBVIOUS
<1>7. later \in Seq(C) /\ \A x : x \in ToSet(later) <=> x \in ToSet(kids) \/ x \in ToSet(rest)
  BY <1>3, <1>4, <1>6, InJoined
<1>8. PICK listed : listed = Append(done, c)
  OBVIOUS
<1>9. listed \in Seq(C) /\ \A x : x \in ToSet(listed) <=> x \in ToSet(done) \/ x = c
  BY <1>3, <1>4, <1>8, InAppended
<1>10. \A x \in ToSet(kids) : x \in Below(t, c) /\ Resolved(t, x)
  BY <1>2, Zenon
<1>11. \A x \in ToSet(kids) : \A d : d \in ToSet(next) \/ d \in ToSet(done) => d.path # x.path
  BY <1>2, <1>10, NothingTwice, Zenon
<1>12. Reached(t, later, listed)
  <2>1. ASSUME NEW d, d \in ToSet(later) \/ d \in ToSet(listed)
        PROVE  Resolved(t, d) /\ (d = Root \/ \E p \in ToSet(listed) : d \in Below(t, p))
    <3>1. CASE d \in ToSet(kids)
      BY <1>9, <1>10, <3>1, Zenon
    <3>2. CASE d \in ToSet(next) \/ d \in ToSet(done)
      <4>1. Resolved(t, d) /\ (d = Root \/ \E p \in ToSet(done) : d \in Below(t, p))
        BY <1>3, <3>2, Zenon DEF Reached
      <4>. QED
        BY <1>9, <4>1, Zenon
    <3>. QED
      BY <1>4, <1>7, <1>9, <2>1, <3>1, <3>2, Zenon
  <2>. QED
    BY <2>1, Zenon DEF Reached
<1>13. Complete(t, later, listed)
  <2>1. ASSUME NEW p \in ToSet(listed)
        PROVE  p.inumber # 0 /\ \A d \in Below(t, p) : d.inumber = 0 \/ d \in ToSet(later) \/ d \in ToSet(listed)
    <3>1. CASE p = c
      <4>1. \A d \in Below(t, c) : d \in ToSet(later)
        BY <1>2, <1>7, Zenon
      <4>. QED
        BY <1>2, <3>1, <4>1, Zenon
    <3>2. CASE p \in ToSet(done)
      <4>1. p.inumber # 0 /\ \A d \in Below(t, p) : d.inumber = 0 \/ d \in ToSet(next) \/ d \in ToSet(done)
        BY <1>3, <3>2, Zenon DEF Complete
      <4>. QED
        BY <1>4, <1>7, <1>9, <4>1, Zenon
    <3>. QED
      BY <1>9, <2>1, <3>1, <3>2, Zenon
  <2>. QED
    BY <2>1, Zenon DEF Complete
<1>14. Once(later)
  <2>1. Apart(kids, rest)
    BY <1>4, <1>11, Zenon DEF Apart
  <2>. QED
    BY <1>3, <1>4, <1>5, <1>6, <2>1, JoinedOnce
<1>15. Once(listed)
  <2>1. \A d \in ToSet(done) : c.path # d.path
    BY <1>3, <1>4, Zenon DEF Apart
  <2>. QED
    BY <1>3, <1>8, <2>1, AppendedOnce
<1>16. Apart(later, listed)
  <2>1. ASSUME NEW x \in ToSet(later), NEW d \in ToSet(listed) PROVE x.path # d.path
    <3>1. d \in ToSet(next) \/ d \in ToSet(done)
      BY <1>4, <1>9, Zenon
    <3>2. CASE x \in ToSet(kids)
      BY <1>11, <3>1, <3>2, Zenon
    <3>3. CASE x \in ToSet(rest) /\ d = c
      BY <1>5, <3>3, Zenon
    <3>4. CASE x \in ToSet(rest) /\ d \in ToSet(done)
      BY <1>3, <1>4, <3>4, Zenon DEF Apart
    <3>. QED
      BY <1>7, <1>9, <3>2, <3>3, <3>4, Zenon
  <2>. QED
    BY <2>1, Zenon DEF Apart
<1>17. Walked(t, later, listed)
  BY <1>1, <1>7, <1>9, <1>12, <1>13, <1>14, <1>15, <1>16, Zenon DEF Walked
<1>. QED
  BY <1>2, <1>6, <1>8, <1>17, Zenon

\* A call for no file is complained of and left.
LEMMA LeftStep ==
  ASSUME NEW t \in Tree, NEW next, NEW done, Walked(t, next, done), next # <<>>, Head(next).inumber = 0
  PROVE  Walked(t, Tail(next), done)
<1>1. PICK c, rest : c = Head(next) /\ rest = Tail(next)
  OBVIOUS
<1>2. /\ next \in Seq(Call(t)) /\ done \in Seq(Call(t))
      /\ Reached(t, next, done) /\ Complete(t, next, done) /\ Once(next) /\ Once(done) /\ Apart(next, done)
  BY DEF Walked
<1>3. rest \in Seq(Call(t)) /\ (\A x : x \in ToSet(next) <=> x \in ToSet(rest) \/ x = c)
  BY <1>1, <1>2, HeadAndTail
<1>4. Once(rest)
  BY <1>1, <1>2, TailOnce
<1>5. Reached(t, rest, done)
  BY <1>2, <1>3, Zenon DEF Reached
<1>6. Complete(t, rest, done)
  BY <1>1, <1>2, <1>3, Zenon DEF Complete
<1>7. Apart(rest, done)
  BY <1>2, <1>3, Zenon DEF Apart
<1>. QED
  BY <1>1, <1>2, <1>3, <1>4, <1>5, <1>6, <1>7, Zenon DEF Walked

\* The walk begins with the root, which is the first file listed.
RootFirst(next, done) ==
  \/ done = <<>> /\ next = <<Root>>
  \/ done # <<>> /\ done[1] = Root

WalkInv ==
  /\ tree \in Tree /\ disk = Disk(tree)
  /\ at = "end" /\ "p" \in flags => todo = <<>>
  /\ Distinct(tree) => Walked(tree, todo, found) /\ ("p" \in flags => RootFirst(todo, found))

\* The walk begins as the invariant says,
LEMMA WalkInvInit == DiskInit => WalkInv
<1>. SUFFICES ASSUME DiskInit PROVE WalkInv
  OBVIOUS
<1>1. /\ tree \in Tree /\ disk = Disk(tree) /\ found = <<>>
      /\ todo = (IF "p" \in flags THEN <<Root>> ELSE <<>>)
  BY Zenon DEF DiskInit, Root
<1>2. at = "end" /\ "p" \in flags => todo = <<>>
  BY DEF DiskInit, PathsOrEnd
<1>3. PICK C : C = Call(tree)
  OBVIOUS
<1>4. Root \in C /\ Resolved(tree, Root)
  BY <1>1, <1>3, RootIsResolved, Zenon
<1>5. /\ todo \in Seq(C) /\ found \in Seq(C) /\ Len(todo) \in {0, 1}
      /\ (\A c : c \in ToSet(todo) => c = Root) /\ (\A c : c \notin ToSet(found))
  <2>1. found \in Seq(C) /\ \A c : c \notin ToSet(found)
    BY <1>1 DEF ToSet
  <2>2. CASE "p" \in flags
    <3>1. todo = <<Root>>
      BY <1>1, <2>2
    <3>2. todo \in Seq(C) /\ Len(todo) = 1 /\ todo[1] = Root
      BY <1>4, <3>1
    <3>3. \A c : c \in ToSet(todo) => c = Root
      BY <3>2 DEF ToSet
    <3>. QED
      BY <2>1, <3>2, <3>3
  <2>3. CASE "p" \notin flags
    <3>1. todo = <<>>
      BY <1>1, <2>3
    <3>2. \A c : c \notin ToSet(todo)
      BY <3>1 DEF ToSet
    <3>. QED
      BY <2>1, <3>1, <3>2
  <2>. QED
    BY <2>2, <2>3
<1>6. Once(todo) /\ Once(found)
  <2>1. \A m, n \in 1 .. Len(todo) : m = n
    <3>1. PICK k \in {0, 1} : k = Len(todo)
      BY <1>5, Zenon
    <3>2. \A m, n \in 1 .. k : m = n
      OBVIOUS
    <3>. QED
      BY <3>1, <3>2, Zenon
  <2>2. Len(found) = 0
    BY <1>1
  <2>3. \A m, n \in 1 .. Len(found) : m = n
    BY <2>2
  <2>. QED
    BY <2>1, <2>3, Zenon DEF Once
<1>7. Apart(todo, found) /\ Complete(tree, todo, found)
  BY <1>5, Zenon DEF Apart, Complete
<1>8. Reached(tree, todo, found)
  BY <1>4, <1>5, Zenon DEF Reached
<1>9. Walked(tree, todo, found)
  BY <1>3, <1>5, <1>6, <1>7, <1>8, Zenon DEF Walked
<1>10. "p" \in flags => RootFirst(todo, found)
  BY <1>1 DEF RootFirst
<1>. QED
  BY <1>1, <1>2, <1>9, <1>10, Zenon DEF WalkInv

\* What DumpPath does to a walk of distinct names.
LEMMA WalkOn ==
  ASSUME WalkInv, DumpPath, Distinct(tree)
  PROVE  Walked(tree, todo', found') /\ ("p" \in flags => RootFirst(todo', found'))
<1>1. PICK c : c = Head(todo) /\ ~IsFree(c.inumber) /\ todo # <<>>
  BY Zenon DEF DumpPath
<1>2. tree \in Tree /\ disk = Disk(tree) /\ Walked(tree, todo, found) /\ ("p" \in flags => RootFirst(todo, found))
  BY Zenon DEF WalkInv
<1>3. todo \in Seq(Call(tree)) /\ found \in Seq(Call(tree)) /\ Reached(tree, todo, found)
  BY <1>2, Zenon DEF Walked
<1>4. c \in Call(tree) /\ c \in ToSet(todo)
  BY <1>1, <1>3, HeadAndTail
<1>5. Resolved(tree, c)
  BY <1>3, <1>4, Zenon DEF Reached
<1>6. /\ found' = IF c.inumber # 0 THEN Append(found, c) ELSE found
      /\ todo' = IF c.inumber # 0 /\ IsDirectory(c.inumber)
                 THEN Children(c.path, c.inumber) \o Tail(todo) ELSE Tail(todo)
  <2>1. PICK terminated \in BOOLEAN :
           /\ found' = IF SamePathChecksum(c, terminated) THEN Append(found, c) ELSE found
           /\ todo' = IF SamePathChecksum(c, terminated) /\ IsDirectory(c.inumber)
                      THEN Children(c.path, c.inumber) \o Tail(todo) ELSE Tail(todo)
    BY <1>1, Zenon DEF DumpPath
  <2>2. SamePathChecksum(c, terminated) <=> c.inumber # 0
    BY <1>1, <1>2, <1>4, <1>5, ChecksumsAgree, Zenon
  <2>. QED
    BY <2>1, <2>2, Zenon
<1>7. CASE c.inumber = 0
  <2>1. Walked(tree, todo', found')
    BY <1>1, <1>2, <1>6, <1>7, LeftStep, Zenon
  <2>2. ASSUME "p" \in flags PROVE RootFirst(todo', found')
    <3>1. Root.inumber # 0
      BY DEF Root, ROOT_INUMBER
    <3>2. ~(todo = <<Root>>)
      <4>1. Head(<<Root>>) = Root
        OBVIOUS
      <4>. QED
        BY <1>1, <1>7, <3>1, <4>1, Zenon
    <3>. QED
      BY <1>2, <1>6, <1>7, <2>2, <3>2, Zenon DEF RootFirst
  <2>. QED
    BY <2>1, <2>2
<1>8. CASE c.inumber # 0
  <2>1. c.inumber \in 1 .. Len(tree)
    <3>1. Len(tree) \in Nat /\ c.inumber \in 0 .. Len(tree)
      BY <1>2, <1>4, TreesFit DEF Call
    <3>. QED
      BY <1>8, <3>1
  <2>2. PICK kids \in Seq(Call(tree)) :
           /\ todo' = kids \o Tail(todo) /\ Once(kids)
           /\ \A x : x \in ToSet(kids) <=> x \in Below(tree, c)
    <3>1. IsDirectory(c.inumber) <=> tree[c.inumber].dir
      <4>1. c.inumber \in Int
        BY <2>1
      <4>. QED
        BY <1>2, <2>1, <4>1, FilesAreKnown, Zenon
    <3>2. CASE tree[c.inumber].dir
      <4>1. PICK kids : kids = Children(c.path, c.inumber)
        OBVIOUS
      <4>2. kids \in Seq(Call(tree)) /\ Once(kids) /\ \A x : x \in ToSet(kids) <=> x \in Below(tree, c)
        BY <1>2, <1>4, <2>1, <3>2, <4>1, ChildrenAreBelow, Zenon
      <4>3. todo' = kids \o Tail(todo)
        BY <1>6, <1>8, <3>1, <3>2, <4>1, Zenon
      <4>. QED
        BY <4>2, <4>3, Zenon
    <3>3. CASE ~tree[c.inumber].dir
      <4>1. Below(tree, c) = {}
        BY <3>3, Zenon DEF Below
      <4>2. PICK kids : kids = <<>>
        OBVIOUS
      <4>3. kids \in Seq(Call(tree)) /\ Len(kids) = 0
        BY <4>2
      <4>4. Once(kids)
        <5>1. \A m, n \in 1 .. Len(kids) : m = n
          BY <4>3
        <5>. QED
          BY <5>1, Zenon DEF Once
      <4>5. \A x : x \in ToSet(kids) <=> x \in Below(tree, c)
        <5>1. \A x : x \notin ToSet(kids)
          BY <4>2 DEF ToSet
        <5>. QED
          BY <4>1, <5>1, Zenon
      <4>6. todo' = kids \o Tail(todo)
        <5>1. todo' = Tail(todo)
          BY <1>6, <3>1, <3>3, Zenon
        <5>2. Tail(todo) \in Seq(Call(tree))
          BY <1>1, <1>3, HeadAndTail
        <5>3. <<>> \o Tail(todo) = Tail(todo)
          BY <5>2
        <5>. QED
          BY <4>2, <5>1, <5>3, Zenon
      <4>. QED
        BY <4>3, <4>4, <4>5, <4>6, Zenon
    <3>. QED
      BY <3>2, <3>3
  <2>3. \A x \in Below(tree, c) : Resolved(tree, x)
    BY <1>2, <1>4, <1>5, <2>1, TrailsExtend, Zenon
  <2>4. found' = Append(found, c)
    BY <1>6, <1>8, Zenon
  <2>5. Walked(tree, todo', found')
    <3>1. /\ Walked(tree, todo, found) /\ todo # <<>> /\ Head(todo).inumber # 0
          /\ \A x : x \in ToSet(kids) <=> x \in Below(tree, Head(todo))
          /\ \A x \in Below(tree, Head(todo)) : Resolved(tree, x)
      BY <1>1, <1>2, <1>8, <2>2, <2>3, Zenon
    <3>2. Walked(tree, kids \o Tail(todo), Append(found, Head(todo)))
      BY <1>2, <2>2, <3>1, ListedStep
    <3>. QED
      BY <1>1, <2>2, <2>4, <3>2, Zenon
  <2>6. ASSUME "p" \in flags PROVE RootFirst(todo', found')
    <3>1. CASE found = <<>> /\ todo = <<Root>>
      <4>1. c = Root
        BY <1>1, <3>1
      <4>2. found' # <<>> /\ found'[1] = Root
        BY <2>4, <3>1, <4>1
      <4>. QED
        BY <4>2 DEF RootFirst
    <3>2. CASE found # <<>> /\ found[1] = Root
      <4>1. found' # <<>> /\ found'[1] = Root
        <5>1. PICK C : found \in Seq(C) /\ c \in C
          BY <1>3, <1>4, Zenon
        <5>. QED
          BY <2>4, <3>2, <5>1
      <4>. QED
        BY <4>1 DEF RootFirst
    <3>. QED
      BY <1>2, <2>6, <3>1, <3>2, Zenon DEF RootFirst
  <2>. QED
    BY <2>5, <2>6
<1>. QED
  BY <1>7, <1>8

\* every step of the program keeps it,
LEMMA WalkInvStep == WalkInv /\ [DiskNext]_diskVars => WalkInv'
<1>. SUFFICES ASSUME WalkInv, [DiskNext]_diskVars PROVE WalkInv'
  OBVIOUS
<1>1. CASE DumpPath
  <2>1. UNCHANGED <<tree, disk, flags, at>> /\ at = "paths"
    BY <1>1 DEF DumpPath
  <2>2. at' # "end"
    BY <2>1
  <2>3. Distinct(tree) => Walked(tree, todo', found') /\ ("p" \in flags => RootFirst(todo', found'))
    BY <1>1, WalkOn, Zenon
  <2>4. tree' \in Tree /\ disk' = Disk(tree')
    BY <2>1, Zenon DEF WalkInv
  <2>5. Distinct(tree') => Walked(tree', todo', found') /\ ("p" \in flags' => RootFirst(todo', found'))
    BY <2>1, <2>3, Zenon
  <2>. QED
    BY <2>2, <2>4, <2>5, Zenon DEF WalkInv
<1>2. CASE ~DumpPath
  <2>1. UNCHANGED <<tree, disk, flags, todo, found>> /\ (at' = "end" /\ "p" \in flags => todo = <<>>)
    <3>1. at = "end" /\ "p" \in flags => todo = <<>>
      BY Zenon DEF WalkInv
    <3>2. CASE DumpInode
      BY <3>1, <3>2 DEF DumpInode
    <3>3. CASE EndOfInodes
      BY <3>3 DEF EndOfInodes, PathsOrEnd
    <3>4. CASE AssertFails
      BY <3>4 DEF AssertFails
    <3>5. CASE EndOfPaths
      BY <3>5 DEF EndOfPaths
    <3>6. CASE UNCHANGED diskVars
      BY <3>1, <3>6 DEF diskVars
    <3>. QED
      BY <1>2, <3>2, <3>3, <3>4, <3>5, <3>6 DEF DiskNext
  <2>2. tree' \in Tree /\ disk' = Disk(tree')
    BY <2>1, Zenon DEF WalkInv
  <2>3. at' = "end" /\ "p" \in flags' => todo' = <<>>
    BY <2>1, Zenon
  <2>4. Distinct(tree') => Walked(tree', todo', found') /\ ("p" \in flags' => RootFirst(todo', found'))
    BY <2>1, Zenon DEF WalkInv
  <2>. QED
    BY <2>2, <2>3, <2>4, Zenon DEF WalkInv
<1>. QED
  BY <1>1, <1>2

\* and when the walk has ended it lists every path of the image.
LEMMA WalkEnds == WalkInv => PathsAreFound
<1>. SUFFICES ASSUME WalkInv, at = "end", "p" \in flags, Distinct(tree)
              PROVE  /\ found[1] = Root
                     /\ \A c \in ToSet(found) :
                          File(tree, c.inumber).dir =>
                            Named(tree, c.path, c.inumber) =
                              {d \in ToSet(found) : d.path # <<>> /\ Front(d.path) = c.path}
                     /\ IsInjective(found)
  BY Zenon DEF PathsAreFound, Root
<1>1. tree \in Tree /\ todo = <<>> /\ Walked(tree, todo, found) /\ RootFirst(todo, found)
  BY Zenon DEF WalkInv
<1>2. /\ found \in Seq(Call(tree)) /\ Reached(tree, todo, found) /\ Complete(tree, todo, found) /\ Once(found)
  BY <1>1, Zenon DEF Walked
<1>3. \A x : x \notin ToSet(todo)
  BY <1>1 DEF ToSet
<1>4. found[1] = Root
  <2>1. <<>> # <<Root>>
    OBVIOUS
  <2>. QED
    BY <1>1, <2>1, Zenon DEF RootFirst
<1>5. PICK N \in Nat : N = Len(found) /\ DOMAIN found = 1 .. N
  BY <1>2
<1>6. \A m, n \in 1 .. N : m # n => found[m].path # found[n].path
  BY <1>2, <1>5, Zenon DEF Once
<1>7. IsInjective(found)
  BY <1>5, <1>6, Zenon DEF IsInjective
<1>8. \A c : c \in ToSet(found) <=> \E n \in 1 .. N : c = found[n]
  BY <1>2, <1>5, InSequence
<1>9. \A c, d \in ToSet(found) : c.path = d.path => c = d
  <2>. TAKE c, d \in ToSet(found)
  <2>. HAVE c.path = d.path
  <2>1. PICK m \in 1 .. N : c = found[m]
    BY <1>8, Zenon
  <2>2. PICK n \in 1 .. N : d = found[n]
    BY <1>8, Zenon
  <2>. QED
    BY <1>6, <2>1, <2>2, Zenon
<1>10. ASSUME NEW c \in ToSet(found), File(tree, c.inumber).dir
       PROVE  Named(tree, c.path, c.inumber) =
                {d \in ToSet(found) : d.path # <<>> /\ Front(d.path) = c.path}
  <2>1. \A p \in ToSet(found) : p \in Call(tree)
    BY <1>2 DEF ToSet
  <2>2. c.inumber # 0 /\ tree[c.inumber].dir
    <3>1. PICK l \in Nat : l = Len(tree)
      BY <1>1, TreesFit
    <3>2. c.inumber \in 0 .. l
      BY <2>1, <3>1 DEF Call
    <3>3. c.inumber <= l
      BY <3>1, <3>2
    <3>4. c.inumber # 0
      BY <1>2, Zenon DEF Complete
    <3>. QED
      BY <1>10, <3>1, <3>3, <3>4, Zenon DEF File
  <2>3. \A x : x \in Named(tree, c.path, c.inumber) <=> x \in Below(tree, c) /\ x.inumber # 0
    <3>1. PICK e, i, path : e = tree[i].entries /\ i = c.inumber /\ path = c.path
      BY Zenon
    <3>. DEFINE Kid(n) == [path |-> Append(path, e[n].d_name), inumber |-> e[n].d_inumber]
    <3>2. \A x : x \in Named(tree, c.path, c.inumber) <=>
                   \E n \in 1 .. Len(e) : e[n].d_name \notin Hidden /\ e[n].d_inumber # 0 /\ x = Kid(n)
      BY <3>1, Zenon DEF Named
    <3>3. \A x : x \in Below(tree, c) <=> \E n \in 1 .. Len(e) : e[n].d_name \notin Hidden /\ x = Kid(n)
      BY <2>2, <3>1, Zenon DEF Below
    <3>4. \A n \in 1 .. Len(e) : Kid(n).inumber = e[n].d_inumber
      OBVIOUS
    <3>. HIDE DEF Kid
    <3>. QED
      BY <3>2, <3>3, <3>4, Zenon
  <2>4. ASSUME NEW x \in Below(tree, c), x.inumber # 0
        PROVE  x \in ToSet(found) /\ x.path # <<>> /\ Front(x.path) = c.path
    <3>1. x \in ToSet(found)
      BY <1>2, <1>3, <2>4, Zenon DEF Complete
    <3>. QED
      BY <1>1, <2>1, <3>1, PathsBelow, Zenon
  <2>5. ASSUME NEW x \in ToSet(found), x.path # <<>>, Front(x.path) = c.path
        PROVE  x \in Below(tree, c) /\ x.inumber # 0
    <3>1. x # Root
      BY <2>5 DEF Root
    <3>2. PICK p \in ToSet(found) : x \in Below(tree, p)
      BY <1>2, <3>1, Zenon DEF Reached
    <3>3. Front(x.path) = p.path
      BY <1>1, <2>1, <3>2, PathsBelow, Zenon
    <3>4. p = c
      BY <1>9, <2>5, <3>3, Zenon
    <3>5. x.inumber # 0
      BY <1>2, Zenon DEF Complete
    <3>. QED
      BY <3>2, <3>4, <3>5, Zenon
  <2>. QED
    BY <2>3, <2>4, <2>5, Zenon
<1>. QED
  BY <1>4, <1>7, <1>10, Zenon

\* diskimageaccess -p lists the root, then every file under every path it has, once,
\* with its own inode, in any image whose names are distinct: no entry of a directory is
\* missed, and no lookup by path ends at another file.
THEOREM PathsAreRight == DiskSpec => []PathsAreFound
<1>1. WalkInv => PathsAreFound
  BY WalkEnds
<1>. QED
  BY WalkInvInit, WalkInvStep, <1>1, PTL DEF DiskSpec
===============================================================================

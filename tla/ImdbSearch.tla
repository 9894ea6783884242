------------------------------ MODULE ImdbSearch ------------------------------
(* search.cc: the breadth-first search for a path of films between two actors, *)
(* one actor, film or costar at a time, and the path printed from it.  The     *)
(* database is what getCredits and getCast answer (module Imdb shows that the  *)
(* files give those answers); an actor without credits is not in it.           *)
EXTENDS Integers, Sequences

CONSTANTS
  Actor,                      \* names, in strcmp's order
  Film,
  Database,                   \* what the files may hold
  Requested,                  \* path lengths asked for on the command line
  kMaxDegreeOfSeparation      \* the longest allowed, and the default (6)

ASSUME SearchAssumption ==
  /\ Actor \subseteq Int
  /\ Requested \subseteq Int
  /\ kMaxDegreeOfSeparation \in Nat
  /\ \A d \in Database :
       /\ d.credits \in [Actor -> Seq(Film)]
       /\ d.cast \in [Film -> Seq(Actor)]

VARIABLES
  db, source, target, maxLength,
  step,             \* where the program is
  queue,            \* actors to evaluate
  dist,             \* defined for the actors visited
  pred,             \* pred_actor and pred_film, defined for the actors visited but the source
  visited_films,
  u, credits,       \* the actor evaluated and those of his films still to come
  movie, cast,      \* the film evaluated and those of its cast still to come
  thisPath, thisActor

inputs == <<db, source, target, maxLength>>
searchVars == <<inputs, step, queue, dist, pred, visited_films, u, credits, movie, cast,
                thisPath, thisActor>>

NoLinks(player) == [startPlayer |-> player, links |-> <<>>]

SearchInit ==
  /\ db \in Database /\ source \in Actor /\ target \in Actor /\ maxLength \in Requested
  /\ step = "main"
  /\ queue = <<>> /\ visited_films = {} /\ credits = <<>> /\ cast = <<>>
  /\ dist = [a \in {} |-> 0] /\ pred = [a \in {} |-> 0]
  /\ u = source /\ movie \in Film
  /\ thisPath = NoLinks(target) /\ thisActor = target

Goto(s) == step' = s

-------------------------------------------------------------------------------
(* main: a length out of bounds, or twice the same actor, ends the program. *)
LengthIsLegal == maxLength \in 1 .. kMaxDegreeOfSeparation

Refuse ==
  /\ step = "main"
  /\ ~LengthIsLegal \/ source = target
  /\ Goto("refused")
  /\ UNCHANGED <<inputs, queue, dist, pred, visited_films, u, credits, movie, cast, thisPath, thisActor>>

BeginSearch ==
  /\ step = "main" /\ LengthIsLegal /\ source # target
  /\ queue' = <<source>>
  /\ dist' = [a \in {source} |-> 0]
  /\ Goto("actors")
  /\ UNCHANGED <<inputs, pred, visited_films, u, credits, movie, cast, thisPath, thisActor>>

\* Slip: the actors at the longest length are evaluated as well.
InReachOfOneMore == queue # <<>> /\ dist[Head(queue)] <= maxLength

(* BFS.  Its outermost loop ends when every actor within maxLength - 1 was evaluated. *)
InReach == queue # <<>> /\ dist[Head(queue)] < maxLength

NextActor ==
  /\ step = "actors" /\ InReach
  /\ u' = Head(queue) /\ queue' = Tail(queue)
  /\ credits' = db.credits[Head(queue)]
  /\ Goto("films")
  /\ UNCHANGED <<inputs, dist, pred, visited_films, movie, cast, thisPath, thisActor>>

(* getCredits of one who comes after all the actors of the file takes an offset from *)
(* beyond the index and may read outside the file.                                   *)
ReadPastTheEnd ==
  /\ step = "actors" /\ InReach
  /\ \A a \in Actor : db.credits[a] # <<>> => a < Head(queue)
  /\ Goto("crashed")
  /\ UNCHANGED <<inputs, queue, dist, pred, visited_films, u, credits, movie, cast, thisPath, thisActor>>

NoPath ==
  /\ step = "actors" /\ ~InReach
  /\ Goto("none")
  /\ UNCHANGED <<inputs, queue, dist, pred, visited_films, u, credits, movie, cast, thisPath, thisActor>>

(* A film is evaluated once, for the first actor whose credits name it. *)
NextFilm ==
  /\ step = "films" /\ credits # <<>>
  /\ credits' = Tail(credits)
  /\ IF Head(credits) \in visited_films
     THEN UNCHANGED <<step, visited_films, movie, cast>>
     ELSE /\ visited_films' = visited_films \cup {Head(credits)}
          /\ movie' = Head(credits)
          /\ cast' = db.cast[Head(credits)]
          /\ Goto("cast")
  /\ UNCHANGED <<inputs, queue, dist, pred, u, thisPath, thisActor>>

EndOfFilms ==
  /\ step = "films" /\ credits = <<>>
  /\ Goto("actors")
  /\ UNCHANGED <<inputs, queue, dist, pred, visited_films, u, credits, movie, cast, thisPath, thisActor>>

\* Slip: the source is not marked as visited when the search begins.
VisitedFromAnother(a) == a \in DOMAIN pred
Visited(a) == a \in DOMAIN dist

Extend(f, a, v) == [x \in DOMAIN f \cup {a} |-> IF x = a THEN v ELSE f[x]]

NextCostar ==
  /\ step = "cast" /\ cast # <<>>
  /\ cast' = Tail(cast)
  /\ LET costar == Head(cast)
     IN  IF Visited(costar)
         THEN UNCHANGED <<step, queue, dist, pred>>
         ELSE /\ pred' = Extend(pred, costar, [actor |-> u, film |-> movie])
              /\ dist' = Extend(dist, costar, dist[u] + 1)
              /\ IF costar = target
                 THEN Goto("found") /\ UNCHANGED queue
                 ELSE UNCHANGED step /\ queue' = Append(queue, costar)
  /\ UNCHANGED <<inputs, visited_films, u, credits, movie, thisPath, thisActor>>

EndOfCast ==
  /\ step = "cast" /\ cast = <<>>
  /\ Goto("films")
  /\ UNCHANGED <<inputs, queue, dist, pred, visited_films, u, credits, movie, cast, thisPath, thisActor>>

-------------------------------------------------------------------------------
(* path.cc *)
addConnection(p, film, player) ==
  [p EXCEPT !.links = Append(p.links, [movie |-> film, player |-> player])]

getLastPlayer(p) == IF p.links = <<>> THEN p.startPlayer ELSE p.links[Len(p.links)].player

reverse(p) ==
  LET n == Len(p.links)
  IN  [startPlayer |-> getLastPlayer(p),
       links |-> [i \in 1 .. n |->
                    [movie |-> p.links[n + 1 - i].movie,
                     player |-> IF i = n THEN p.startPlayer ELSE p.links[n - i].player]]]

(* printShortestPath: back from the target over the predecessors, then reversed. *)
AddConnection ==
  /\ step = "found" /\ Len(thisPath.links) < dist[target]
  /\ thisPath' = addConnection(thisPath, pred[thisActor].film, pred[thisActor].actor)
  /\ thisActor' = pred[thisActor].actor
  /\ UNCHANGED <<inputs, step, queue, dist, pred, visited_films, u, credits, movie, cast>>

PrintPath ==
  /\ step = "found" /\ Len(thisPath.links) = dist[target]
  /\ thisPath' = reverse(thisPath)
  /\ Goto("printed")
  /\ UNCHANGED <<inputs, queue, dist, pred, visited_films, u, credits, movie, cast, thisActor>>

SearchNext ==
  \/ Refuse \/ BeginSearch
  \/ NextActor \/ ReadPastTheEnd \/ NoPath
  \/ NextFilm \/ EndOfFilms \/ NextCostar \/ EndOfCast
  \/ AddConnection \/ PrintPath

SearchSpec == SearchInit /\ [][SearchNext]_searchVars

-------------------------------------------------------------------------------
SearchTypeOK ==
  /\ db.credits \in [Actor -> Seq(Film)] /\ db.cast \in [Film -> Seq(Actor)]
  /\ source \in Actor /\ target \in Actor /\ maxLength \in Int
  /\ step \in {"main", "refused", "actors", "films", "cast", "none", "found", "printed", "crashed"}
  /\ queue \in Seq(Actor)
  /\ DOMAIN dist \subseteq Actor /\ dist \in [DOMAIN dist -> Nat]
  /\ DOMAIN pred \subseteq Actor /\ pred \in [DOMAIN pred -> [actor : Actor, film : Film]]
  /\ visited_films \subseteq Film
  /\ u \in Actor /\ credits \in Seq(Film)
  /\ movie \in Film /\ cast \in Seq(Actor)
  /\ thisPath \in [startPlayer : Actor, links : Seq([movie : Film, player : Actor])]
  /\ thisActor \in Actor

InSeq(x, s) == \E i \in 1 .. Len(s) : s[i] = x

Share(a, b) == \E f \in Film : InSeq(f, db.credits[a]) /\ InSeq(b, db.cast[f])

(* Some chain of k films leads from the source to the target. *)
Connected(k) ==
  \E p \in [0 .. k -> Actor] :
    p[0] = source /\ p[k] = target /\ \A i \in 1 .. k : Share(p[i - 1], p[i])

(* Every distance the search has noted is one that a shorter way cannot undercut: *)
(* it is one more than the predecessor's, who shares the noted film with him, and *)
(* an actor whose films were all evaluated has no costar who is further than one  *)
(* step from him, though each film was looked at for one of its cast only.        *)
NoShortcut ==
  step \notin {"main", "refused"} =>
    /\ source \in DOMAIN dist /\ dist[source] = 0
    /\ \A a \in DOMAIN dist \ {source} :
         /\ a \in DOMAIN pred /\ pred[a].actor \in DOMAIN dist
         /\ dist[a] = dist[pred[a].actor] + 1
         /\ InSeq(pred[a].film, db.credits[pred[a].actor]) /\ InSeq(a, db.cast[pred[a].film])
    /\ step \in {"actors", "none"} =>
         \A a \in DOMAIN dist : ~InSeq(a, queue) =>
           \A f \in Film, b \in Actor : InSeq(f, db.credits[a]) /\ InSeq(b, db.cast[f]) =>
             b \in DOMAIN dist /\ dist[b] <= dist[a] + 1

(* What is printed is a chain of films from source to target, as short as any and *)
(* not longer than asked for; no path is reported only if there is none that short. *)
AnswerIsShortest ==
  LET links == thisPath.links
      n == Len(links)
      player(i) == IF i = 0 THEN thisPath.startPlayer ELSE links[i].player
  IN  /\ step = "printed" =>
           /\ n \in 1 .. maxLength /\ player(0) = source /\ player(n) = target
           /\ \A i \in 1 .. n : /\ InSeq(links[i].movie, db.credits[player(i - 1)])
                                /\ InSeq(player(i), db.cast[links[i].movie])
           /\ \A k \in 0 .. n - 1 : ~Connected(k)
      /\ step = "none" => \A k \in 0 .. maxLength : ~Connected(k)
===============================================================================

------------------------------- MODULE Lookups --------------------------------
(* The programs that look things up in files others wrote: diskimageaccess     *)
(* with the layers below it, and search with the imdb.  A behaviour is one run *)
(* of one of them; the variables of the other keep an idle value.              *)
EXTENDS FileSystem, Imdb, ImdbSearch

(* The two data files refer only to records that they hold, and every list of *)
(* films or actors is one whose length a short can hold.                      *)
ASSUME FilesAssumption ==
  /\ kNumToPrint \in Nat
  /\ IsFiniteSet(Actor) /\ \A a \in Actor : Length(a) \in Nat
  /\ IsFiniteSet(Film) /\ \A f \in Film : f \in Int \X Int /\ Length(f[1]) \in Nat
  /\ \A d \in Database :
       /\ \A a \in Actor : FitsShort(Len(d.credits[a])) /\ \A f \in ToSet(d.credits[a]) : d.cast[f] # <<>>
       /\ \A f \in Film : FitsShort(Len(d.cast[f])) /\ \A a \in ToSet(d.cast[f]) : d.credits[a] # <<>>

vars == <<diskVars, searchVars>>

DiskIdle ==
  /\ tree = <<>> /\ disk = <<>> /\ flags = {} /\ at = "end"
  /\ inumber = 1 /\ todo = <<>> /\ dumped = <<>> /\ found = <<>>

SearchIdle ==
  /\ step = "refused"
  /\ db = [credits |-> [a \in Actor |-> <<>>], cast |-> [f \in Film |-> <<>>]]
  /\ source = CHOOSE a \in Actor : TRUE
  /\ target = source /\ maxLength = 0
  /\ queue = <<>> /\ visited_films = {} /\ credits = <<>> /\ cast = <<>>
  /\ dist = [a \in {} |-> 0] /\ pred = [a \in {} |-> 0]
  /\ u = source /\ movie = (CHOOSE f \in Film : TRUE)
  /\ thisPath = NoLinks(target) /\ thisActor = target

Init == (DiskInit /\ SearchIdle) \/ (SearchInit /\ DiskIdle)

Next ==
  \/ DiskNext /\ UNCHANGED searchVars
  \/ SearchNext /\ UNCHANGED diskVars

Spec == Init /\ [][Next]_vars

(* The search runs on the answers of the database, which the files of that    *)
(* database give through imdb.cc: see ReadersAgree.                           *)
FilesAnswer == step = "main" => ReadersAgree(db, source)

===============================================================================

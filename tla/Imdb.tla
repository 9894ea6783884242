--------------------------------- MODULE Imdb ---------------------------------
(* The two data files of the imdb and the lookups in them.  A file is a        *)
(* function from byte offsets to the number, name or title that begins there.  *)
(* Names and titles are naturals in strcmp's order; each has a length.  A film *)
(* is <<title, year>>.  A database gives every actor the sequence of his films *)
(* and every film the sequence of its cast, and the files are laid out from it *)
(* the way their readers expect.                                               *)
EXTENDS Listing

CONSTANTS
  Length(_),      \* the letters of a name or of a title
  Undefined,      \* what a reader answers that has read past the end of an index: anything
  kNumToPrint     \* how many entries imdbtest prints at each end of a list (10)

Before(a, b) == a[1] < b[1] \/ (a[1] = b[1] /\ a[2] < b[2])     \* film::operator<

InFile(f) == {x \in DOMAIN f : f[x] # <<>>}
Actors(db) == InOrder(InFile(db.credits), <)
Films(db) == InOrder(InFile(db.cast), Before)

-------------------------------------------------------------------------------
(* The layout: the number of records, their offsets in order, the records.  A  *)
(* record is its text with a zero byte and, for a film, the year; the count at *)
(* the next even byte; the offsets it refers to from the next multiple of 4.   *)
Up(n, m) == CHOOSE k \in n .. n + m - 1 : k % m = 0
CountAt(text) == Up(text, 2)
RefsAt(text) == Up(CountAt(text) + 2, 4)

(* Where each record begins, after texts of these sizes and so many references. *)
Offsets(texts, counts) ==
  LET begin[k \in 1 .. Len(texts)] ==
        IF k = 1 THEN 4 * (Len(texts) + 1)
        ELSE begin[k - 1] + RefsAt(texts[k - 1]) + 4 * counts[k - 1]
  IN  begin

\* Numbers that follow one another from an offset on.
Numbers(at, s) == [o \in {at + 4 * (k - 1) : k \in 1 .. Len(s)} |-> s[(o - at) \div 4 + 1]]

FileOf(pieces) == [o \in UNION {DOMAIN p : p \in pieces} |-> (CHOOSE p \in pieces : o \in DOMAIN p)[o]]

(* The file of records that begin at these offsets with these texts. *)
DataFile(at, beginnings, texts, refs) ==
  FileOf({Numbers(0, <<Len(at)>> \o at)}
           \cup {beginnings[k] : k \in 1 .. Len(at)}
           \cup {Numbers(at[k] + CountAt(texts[k]), <<Len(refs[k])>>) : k \in 1 .. Len(at)}
           \cup {Numbers(at[k] + RefsAt(texts[k]), refs[k]) : k \in 1 .. Len(at)})

\* Where the elements of s, which are all in order, begin.
RefsTo(s, order, at) == [r \in 1 .. Len(s) |-> at[CHOOSE k \in 1 .. Len(order) : order[k] = s[r]]]

NameTexts(actors) == [k \in 1 .. Len(actors) |-> Length(actors[k]) + 1]
FilmTexts(films) == [k \in 1 .. Len(films) |-> Length(films[k][1]) + 2]

NameAt(offset, actor) == [o \in {offset} |-> actor]
TitleAt(offset, film) ==
  LET year == offset + Length(film[1]) + 1
  IN  [o \in {offset, year} |-> IF o = year THEN film[2] ELSE film[1]]

Counts(order, lists) == [k \in 1 .. Len(order) |-> Len(lists[order[k]])]
RefsOf(order, lists, others, at) == [k \in 1 .. Len(order) |-> RefsTo(lists[order[k]], others, at)]

Files(db) ==
  LET actors == Actors(db)  films == Films(db)
      actorAt == Offsets(NameTexts(actors), Counts(actors, db.credits))
      filmAt == Offsets(FilmTexts(films), Counts(films, db.cast))
  IN  [actorFile |-> DataFile(actorAt, [k \in 1 .. Len(actors) |-> NameAt(actorAt[k], actors[k])],
                       NameTexts(actors), RefsOf(actors, db.credits, films, filmAt)),
       movieFile |-> DataFile(filmAt, [k \in 1 .. Len(films) |-> TitleAt(filmAt[k], films[k])],
                       FilmTexts(films), RefsOf(films, db.cast, actors, actorAt))]

-------------------------------------------------------------------------------
(* imdb.cc.  At reads zero where nothing begins. *)
At(file, offset) == IF offset \in DOMAIN file THEN file[offset] ELSE 0

\* What a short holds of a number, and the numbers that it can hold.
Short(n) == IF n % 65536 < 32768 THEN n % 65536 ELSE (n % 65536) - 65536
FitsShort(n) == n < 32768

\* Slip: the offsets are taken to follow the count at once.
getCountUnaligned(file, pos, payload) ==
  LET even == IF payload % 2 = 1 THEN payload + 1 ELSE payload
  IN  [count |-> Short(At(file, pos + even)), payload |-> even + 2]

(* getCount: the count after a payload of so many bytes, and where the offsets begin. *)
getCount(file, pos, payload) ==
  LET even == IF payload % 2 = 1 THEN payload + 1 ELSE payload
      after == even + 2
  IN  [count |-> Short(At(file, pos + even)), payload |-> IF after % 4 = 2 THEN after + 2 ELSE after]

FilmAt(movieFile, offset) ==
  <<At(movieFile, offset), At(movieFile, offset + Length(At(movieFile, offset)) + 1)>>

(* std::lower_bound: the first offset of the index that does not come before, or the end. *)
lower_bound(file, Less(_)) ==
  LET n == At(file, 0)
  IN  CHOOSE k \in 1 .. n + 1 : /\ k <= n => ~Less(At(file, 4 * k))
                                /\ \A j \in 1 .. k - 1 : Less(At(file, 4 * j))

ActorFound(f, player) == lower_bound(f.actorFile, LAMBDA o : At(f.actorFile, o) < player)
MovieFound(f, movie) == lower_bound(f.movieFile, LAMBDA o : Before(FilmAt(f.movieFile, o), movie))

(* The end of the index is no record.  The code does not look: what it takes for an *)
(* offset there are bytes of the first name or title, and where these lead there is *)
(* some text, or no memory at all.                                                  *)
PastTheEnd(file, found) == found > At(file, 0)
Answer(file, found, answer) == IF PastTheEnd(file, found) THEN Undefined ELSE answer

Referred(file, pos, payload) ==
  LET c == getCount(file, pos, payload)
  IN  [r \in 1 .. c.count |-> At(file, pos + c.payload + 4 * (r - 1))]

IsNamed(f, pos, player) == At(f.actorFile, pos) = player

(* getCredits returns whether the actor is there, and leaves his films. *)
HasActor(f, player) ==
  LET found == ActorFound(f, player)
  IN  Answer(f.actorFile, found, IsNamed(f, At(f.actorFile, 4 * found), player))

getCredits(f, player) ==
  LET found == ActorFound(f, player)
      pos == At(f.actorFile, 4 * found)
      refs == Referred(f.actorFile, pos, Length(player) + 1)
  IN  Answer(f.actorFile, found,
        IF IsNamed(f, pos, player) THEN [r \in 1 .. Len(refs) |-> FilmAt(f.movieFile, refs[r])] ELSE <<>>)

getCast(f, movie) ==
  LET found == MovieFound(f, movie)
      pos == At(f.movieFile, 4 * found)
      refs == Referred(f.movieFile, pos, Length(movie[1]) + 2)
  IN  Answer(f.movieFile, found,
        IF FilmAt(f.movieFile, pos) = movie THEN [r \in 1 .. Len(refs) |-> At(f.actorFile, refs[r])] ELSE <<>>)

-------------------------------------------------------------------------------
(* imdbtest.cc: the costars of an actor with the films they share. *)
Costars(f, player) ==
  LET credits == getCredits(f, player)
      casts == [i \in 1 .. Len(credits) |-> ToSet(getCast(f, credits[i]))]
  IN  [c \in UNION ToSet(casts) \ {player} |-> {credits[i] : i \in {j \in DOMAIN casts : c \in casts[j]}}]

(* publishFindings: nothing for an actor who is not there, or who has no films. *)
Findings(f, player) ==
  LET credits == getCredits(f, player)
      shared == Costars(f, player)
      costars == InOrder(DOMAIN shared, <)
      movies == FirstAndLast(Len(credits), kNumToPrint)
      people == FirstAndLast(Len(costars), kNumToPrint)
  IN  [movies |-> [k \in 1 .. Len(movies) |-> credits[movies[k]]],
       people |-> [k \in 1 .. Len(people) |->
                     <<costars[people[k]], Cardinality(shared[costars[people[k]]])>>]]

(* The files of a database answer what the database says, however the lengths *)
(* of names and titles move the counts and offsets in a record: every actor's  *)
(* films in order, every film's cast in order, nothing for an actor or a film  *)
(* that is not there, unless it would come after all that are.  What imdbtest  *)
(* prints of it is complete up to twice the number it prints at each end, and  *)
(* costars are counted by the films they share.                                *)
ReadersAgree(db, player) ==
  LET f == Files(db)
      here == db.credits[player] # <<>>
      shared(c) == {m \in ToSet(db.credits[player]) : c \in ToSet(db.cast[m])}
      findings == Findings(f, player)
      costars == UNION {ToSet(db.cast[m]) : m \in ToSet(db.credits[player])} \ {player}
  IN  /\ \/ HasActor(f, player) = here /\ getCredits(f, player) = db.credits[player]
         \/ ~here /\ PastTheEnd(f.actorFile, ActorFound(f, player))
      /\ \A movie \in DOMAIN db.cast :
           \/ getCast(f, movie) = db.cast[movie]
           \/ db.cast[movie] = <<>> /\ PastTheEnd(f.movieFile, MovieFound(f, movie))
      /\ here =>
           /\ Len(db.credits[player]) <= 2 * kNumToPrint => findings.movies = db.credits[player]
           /\ Cardinality(costars) <= 2 * kNumToPrint =>
                /\ IsSorted(findings.people, LAMBDA x, y : x[1] <= y[1])
                /\ ToSet(findings.people) = {<<c, Cardinality(shared(c))>> : c \in costars}
===============================================================================

------------------------------ MODULE MCLookups -------------------------------
(* Small images and small databases.                                           *)
EXTENDS Lookups

(* Images: a file of every size up to the largest that fits, small or large,   *)
(* beside a free inode, a deleted entry and other files; directories of two    *)
(* levels whose names may begin with one another or fill an entry; and an      *)
(* entry whose inode was freed.                                                *)
Entry(name, i) == [d_name |-> name, d_inumber |-> i]
Directory(i, parent, entries) ==
  LET all == <<Entry(<<".">>, i), Entry(<<".", ".">>, parent)>> \o entries
  IN  [alloc |-> TRUE, dir |-> TRUE, large |-> FALSE, size |-> DirentSize * Len(all), entries |-> all]
Plain(size, large) == [alloc |-> TRUE, dir |-> FALSE, large |-> large, size |-> size, entries |-> <<>>]

Name == {<<"a">>, <<"b">>, <<"a", "b">>}
SizedTree ==
  {<<Directory(1, 1, <<Entry(<<"a">>, 2), Entry(<<"b">>, 0), Entry(<<"c">>, 4)>>),
     Plain(file[1], file[2]), Free, Plain(3, FALSE)>> :
     file \in (0 .. 32) \X {TRUE} \cup (0 .. 12) \X {FALSE}}
NamedTree ==
  {<<Directory(1, 1, <<Entry(n[1], 2), Entry(n[2], deleted), Entry(n[3], 3)>>),
     Directory(2, 1, <<Entry(n[4], 4)>>), Plain(5, FALSE), Plain(2, FALSE)>> :
     n \in Name \X Name \X Name \X Name, deleted \in {0, 4}}
StaleTree == {<<Directory(1, 1, <<Entry(<<"a">>, 2), Entry(<<"b">>, 3)>>), Plain(3, FALSE), Free, Plain(2, FALSE)>>}
Trees == SizedTree \cup NamedTree \cup StaleTree

(* Databases: four actors and three films, two of them of the same title. *)
Actors4 == 1 .. 4
Films3 == {<<1, 0>>, <<1, 1>>, <<2, 1>>}
LengthOf(text) == text
Casts == {c \in SUBSET Actors4 : Cardinality(c) \in {0, 2, 3}}
DatabaseOf(casts) ==
  [credits |-> [a \in Actors4 |-> SelectSeq(<<<<1, 0>>, <<1, 1>>, <<2, 1>>>>, LAMBDA f : a \in casts[f])],
   cast |-> [f \in Films3 |-> SelectSeq(<<1, 2, 3, 4>>, LAMBDA a : a \in casts[f])]]
Databases == {DatabaseOf(casts) : casts \in [Films3 -> Casts]}

(* Searches start from the first or the last actor, to any but the second. *)
MCInit == Init /\ source \in {1, 4} /\ target # 2 /\ movie = <<1, 0>>
MCSpec == MCInit /\ [][Next]_vars
===============================================================================

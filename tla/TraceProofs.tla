----------------------------- MODULE TraceProofs ------------------------------
(* Trace, for any number of tracers, programs, macros and system calls, and    *)
(* any cache the directory may hold: the signatures a tracer comes to work     *)
(* with are those of the kernel's sources, but for lines that another trace    *)
(* emptied the file under (RightSignatures), and every call of the program is  *)
(* reported once, as it was made, but for what a killed process could not tell *)
(* any more (CallsAreTraced).  What a loop over a list of data computes is     *)
(* stated about the prefixes of the list and proved by counting them up        *)
(* (UpTo); a left fold is the last value of a function on those prefixes       *)
(* (FoldExists).                                                               *)
EXTENDS Processes, Inductions

-------------------------------------------------------------------------------
\* The maps of signatures, and those in which every signature is that of the
\* first macro of its name.
Types == {"string", "pointer", "integer", "unknown"}
Signatures == Seq(Types)
Maps == UNION {[D -> Signatures] : D \in SUBSET ToSet(Names)}
IsFirst(m, name) == Macros[m].name = name /\ \A l \in 1 .. m - 1 : Macros[l].name # name
IsSignature(name, sig) == \E m \in 1 .. Len(Macros) : IsFirst(m, name) /\ Signature(Macros[m]) = sig

LEMMA MacroTypes ==
  ASSUME NEW m \in 1 .. Len(Macros)
  PROVE  Macros[m].name \in STRING /\ Signature(Macros[m]) \in Signatures
<1>1. Macros[m] \in [name : STRING, types : Seq(STRING)]
  <2>1. Macros \in Seq([name : STRING, types : Seq(STRING)])
    BY TraceAssumption, Zenon
  <2>. QED
    BY <2>1, ElementOfSeq, Zenon
<1>2. Len(Macros[m].types) \in Nat
  BY <1>1
<1>3. \A i \in 1 .. Len(Macros[m].types) : normalizeType(Macros[m].types[i]) \in {"string", "pointer", "integer"}
  BY DEF normalizeType
<1>. QED
  BY <1>1, <1>2, <1>3 DEF Signature, Signatures, Types

\* A macro leaves a map or adds its signature under a name that had none.
LEMMA MacroStep ==
  ASSUME NEW map \in Maps, NEW m \in 1 .. Len(Macros)
  PROVE  processSystemCallSignature(map, Macros[m]) \in Maps
<1>1. PICK D \in SUBSET ToSet(Names) : map \in [D -> Signatures]
  BY DEF Maps
<1>2. CASE Macros[m].name \in ToSet(Names) \ DOMAIN map
  <2>. DEFINE E == DOMAIN map \cup {Macros[m].name}
  <2>1. Put(map, Macros[m].name, Signature(Macros[m])) \in [E -> Signatures]
    BY <1>1, MacroTypes DEF Put
  <2>2. E \in SUBSET ToSet(Names)
    BY <1>1, <1>2
  <2>. QED
    BY <1>2, <2>1, <2>2 DEF processSystemCallSignature, Maps
<1>3. CASE Macros[m].name \notin ToSet(Names) \ DOMAIN map
  BY <1>3 DEF processSystemCallSignature
<1>. QED
  BY <1>2, <1>3

\* Extracted is what the macros make of the empty map, one after the other.
LEMMA ExtractedFold ==
  \E f : /\ f[{}] = Empty
         /\ \A n \in 1 .. Len(Macros) :
              f[1 .. n] = processSystemCallSignature(f[1 .. n - 1], Macros[n])
         /\ Extracted = f[1 .. Len(Macros)]
<1>. DEFINE N == Len(Macros)
            Folds(f) == f = [s \in SUBSET DOMAIN Macros |->
                          IF s = {} THEN Empty
                          ELSE processSystemCallSignature(f[s \ {Max(s)}], Macros[Max(s)])]
            step == [x \in Maps \X (1 .. N) |-> processSystemCallSignature(x[1], Macros[x[2]])]
<1>1. N \in Nat /\ DOMAIN Macros = 1 .. N
  BY TraceAssumption
<1>2. Empty \in Maps
  BY DEF Empty, Maps
<1>3. \A v \in Maps, i \in 1 .. N : step[<<v, i>>] = processSystemCallSignature(v, Macros[i])
  OBVIOUS
<1>4. \A v \in Maps, i \in 1 .. N : step[<<v, i>>] \in Maps
  BY <1>3, MacroStep
<1>5. \E f : Folds(f)
  <2>. HIDE DEF step
  <2>1. PICK f : IsFold(N, Empty, step, f) /\ \A s \in SUBSET (1 .. N) : f[s] \in Maps
    <3>. HIDE DEF N
    <3>. QED
      BY <1>1, <1>2, <1>4, FoldExists
  <2>2. ASSUME NEW s \in SUBSET (1 .. N), s # {}
        PROVE  step[<<f[s \ {Max(s)}], Max(s)>>]
                 = processSystemCallSignature(f[s \ {Max(s)}], Macros[Max(s)])
    <3>1. Max(s) \in 1 .. N
      BY <1>1, <2>2, LastPosition
    <3>. QED
      BY <1>3, <2>1, <3>1
  <2>3. Folds(f)
    BY <1>1, <2>1, <2>2 DEF IsFold
  <2>. QED
    BY <2>3
<1>. DEFINE g == CHOOSE f : Folds(f)
<1>6. Folds(g)
  BY <1>5
<1>7. Extracted = g[DOMAIN Macros]
  BY DEF Extracted, FoldLeft, MapThenFoldSet
<1>8. g[{}] = Empty
  <2>. HIDE DEF g
  <2>. QED
    BY <1>6
<1>9. ASSUME NEW n \in 1 .. N
      PROVE  g[1 .. n] = processSystemCallSignature(g[1 .. n - 1], Macros[n])
  <2>1. 1 .. n \in SUBSET DOMAIN Macros /\ n \in Nat /\ n # 0
    BY <1>1
  <2>2. 1 .. n # {} /\ Max(1 .. n) = n /\ (1 .. n) \ {n} = 1 .. n - 1
    BY <2>1, Intervals
  <2>. HIDE DEF g
  <2>. QED
    BY <1>6, <2>1, <2>2
<1>. QED
  BY <1>1, <1>7, <1>8, <1>9

\* A map with the signatures of the first macros.
RightMaps == {map \in Maps : \A name \in DOMAIN map : IsSignature(name, map[name])}

LEMMA ExtractedIsRight == Extracted \in RightMaps
<1>. DEFINE N == Len(Macros)
<1>0. N \in Nat
  BY TraceAssumption
<1>1. PICK f : /\ f[{}] = Empty
               /\ \A n \in 1 .. N : f[1 .. n] = processSystemCallSignature(f[1 .. n - 1], Macros[n])
               /\ Extracted = f[1 .. N]
  BY ExtractedFold
<1>. DEFINE After(n, map) ==
              /\ map \in Maps
              /\ \A name \in DOMAIN map :
                   \E m \in 1 .. n : IsFirst(m, name) /\ Signature(Macros[m]) = map[name]
              /\ \A l \in 1 .. n : Macros[l].name \in ToSet(Names) => Macros[l].name \in DOMAIN map
            S == {n \in 0 .. N : After(n, f[1 .. n])}
<1>2. 0 \in S
  <2>1. Empty \in Maps /\ DOMAIN Empty = {} /\ 1 .. 0 = {}
    BY DEF Empty, Maps
  <2>2. f[1 .. 0] = Empty
    BY <1>1, <2>1
  <2>. QED
    BY <1>0, <2>1, <2>2
<1>3. ASSUME NEW n \in 0 .. N, n < N, n \in S PROVE n + 1 \in S
  <2>. DEFINE old == f[1 .. n]  macro == Macros[n + 1]  new == processSystemCallSignature(old, macro)
  <2>1. After(n, old) /\ n + 1 \in 1 .. N
    BY <1>0, <1>3
  <2>2. f[1 .. n + 1] = new
    <3>1. (n + 1) - 1 = n
      OBVIOUS
    <3>. QED
      BY <1>1, <2>1, <3>1
  <2>3. PICK D \in SUBSET ToSet(Names) : old \in [D -> Signatures]
    BY <2>1 DEF Maps
  <2>4. new \in Maps
    BY <2>1, MacroStep
  <2>5. CASE macro.name \in ToSet(Names) \ DOMAIN old
    <3>1. /\ DOMAIN new = DOMAIN old \cup {macro.name} /\ new[macro.name] = Signature(macro)
          /\ \A name \in DOMAIN old : new[name] = old[name]
      BY <2>5 DEF processSystemCallSignature, Put
    <3>2. IsFirst(n + 1, macro.name)
      <4>1. ASSUME NEW l \in 1 .. (n + 1) - 1 PROVE Macros[l].name # macro.name
        <5>1. l \in 1 .. n
          OBVIOUS
        <5>. QED
          BY <2>1, <2>5, <5>1
      <4>. QED
        BY <4>1 DEF IsFirst
    <3>3. ASSUME NEW name \in DOMAIN new
          PROVE  \E m \in 1 .. n + 1 : IsFirst(m, name) /\ Signature(Macros[m]) = new[name]
      <4>1. CASE name = macro.name
        BY <3>1, <3>2, <4>1, <2>1
      <4>2. CASE name \in DOMAIN old
        <5>1. PICK m \in 1 .. n : IsFirst(m, name) /\ Signature(Macros[m]) = old[name]
          BY <2>1, <4>2
        <5>2. m \in 1 .. n + 1
          OBVIOUS
        <5>. QED
          BY <3>1, <4>2, <5>1, <5>2
      <4>. QED
        BY <3>1, <4>1, <4>2
    <3>4. ASSUME NEW l \in 1 .. n + 1, Macros[l].name \in ToSet(Names)
          PROVE  Macros[l].name \in DOMAIN new
      <4>1. l = n + 1 \/ l \in 1 .. n
        OBVIOUS
      <4>. HIDE DEF new
      <4>. QED
        BY <2>1, <3>1, <3>4, <4>1
    <3>. QED
      BY <2>2, <2>4, <3>3, <3>4, <2>1
  <2>6. CASE macro.name \notin ToSet(Names) \ DOMAIN old
    <3>1. new = old
      BY <2>6 DEF processSystemCallSignature
    <3>2. ASSUME NEW name \in DOMAIN old
          PROVE  \E m \in 1 .. n + 1 : IsFirst(m, name) /\ Signature(Macros[m]) = old[name]
      <4>1. PICK m \in 1 .. n : IsFirst(m, name) /\ Signature(Macros[m]) = old[name]
        BY <2>1
      <4>2. m \in 1 .. n + 1
        OBVIOUS
      <4>. QED
        BY <4>1, <4>2
    <3>3. ASSUME NEW l \in 1 .. n + 1, Macros[l].name \in ToSet(Names)
          PROVE  Macros[l].name \in DOMAIN old
      <4>1. l = n + 1 \/ l \in 1 .. n
        OBVIOUS
      <4>. QED
        BY <2>1, <2>6, <3>3, <4>1
    <3>. QED
      BY <2>1, <2>2, <3>1, <3>2, <3>3
  <2>. QED
    BY <2>5, <2>6
<1>4. N \in S
  <2>1. \A n \in 0 .. N : n < N /\ n \in S => n + 1 \in S
    BY <1>3
  <2>. HIDE DEF S, N
  <2>2. \A n \in 0 .. N : n \in S
    BY <1>0, <1>2, <2>1, UpTo
  <2>. QED
    BY <1>0, <2>2
<1>5. After(N, Extracted)
  BY <1>1, <1>4
<1>. QED
  BY <1>5 DEF RightMaps, IsSignature

\* A signature with as many parameters as the first macro of its name has, and
\* the maps in which all but the misread ones are right.
HasParameters(name, sig) == \E m \in 1 .. Len(Macros) : IsFirst(m, name) /\ Len(sig) = Len(Macros[m].types)
KnownMaps(missed) ==
  {map \in Maps : \A name \in DOMAIN map :
     HasParameters(name, map[name]) /\ (name \notin missed => IsSignature(name, map[name]))}

LEMMA SignatureLength ==
  ASSUME NEW m \in 1 .. Len(Macros)
  PROVE  Len(Signature(Macros[m])) = Len(Macros[m].types)
<1>1. Macros \in Seq([name : STRING, types : Seq(STRING)])
  BY TraceAssumption, Zenon
<1>2. Macros[m] \in [name : STRING, types : Seq(STRING)]
  BY <1>1, ElementOfSeq, Zenon
<1>. QED
  BY <1>2 DEF Signature

LEMMA RightHasParameters ==
  ASSUME NEW name, NEW sig, IsSignature(name, sig)
  PROVE  HasParameters(name, sig)
<1>1. PICK m \in 1 .. Len(Macros) : IsFirst(m, name) /\ Signature(Macros[m]) = sig
  BY DEF IsSignature
<1>2. Len(sig) = Len(Macros[m].types)
  BY <1>1, SignatureLength
<1>. QED
  BY <1>1, <1>2 DEF HasParameters

LEMMA RightIsKnown ==
  ASSUME NEW map \in RightMaps, NEW missed
  PROVE  map \in KnownMaps(missed)
BY RightHasParameters DEF RightMaps, KnownMaps

\* A signature put into a map under a known name keeps the map known, if it is
\* right or the name is among those that were misread.
LEMMA PutIsKnown ==
  ASSUME NEW missed, NEW more, NEW map \in KnownMaps(missed), missed \subseteq more,
         NEW name \in ToSet(Names), NEW sig \in Signatures, HasParameters(name, sig),
         IsSignature(name, sig) \/ name \in more
  PROVE  Put(map, name, sig) \in KnownMaps(more)
<1>1. PICK D \in SUBSET ToSet(Names) : map \in [D -> Signatures]
  BY DEF KnownMaps, Maps
<1>2. D \cup {name} \in SUBSET ToSet(Names) /\ Put(map, name, sig) \in [D \cup {name} -> Signatures]
  BY <1>1 DEF Put
<1>3. ASSUME NEW x \in D \cup {name}
      PROVE  /\ HasParameters(x, Put(map, name, sig)[x])
             /\ x \notin more => IsSignature(x, Put(map, name, sig)[x])
  <2>1. CASE x = name
    <3>1. Put(map, name, sig)[x] = sig
      BY <1>1, <2>1 DEF Put
    <3>. QED
      BY <2>1, <3>1
  <2>2. CASE x # name
    <3>1. Put(map, name, sig)[x] = map[x] /\ x \in DOMAIN map
      BY <1>1, <1>3, <2>2 DEF Put
    <3>. QED
      BY <3>1 DEF KnownMaps
  <2>. QED
    BY <2>1, <2>2
<1>4. Put(map, name, sig) \in Maps /\ DOMAIN Put(map, name, sig) = D \cup {name}
  BY <1>2 DEF Maps
<1>. QED
  BY <1>3, <1>4 DEF KnownMaps

\* A line of the cache: a known name with its signature.
CacheLines == {l \in [name : ToSet(Names), sig : Signatures] : IsSignature(l.name, l.sig)}

\* The lines to be written are such lines.
LEMMA LinesAreRight == Lines \in Seq(CacheLines)
<1>. DEFINE N == Len(Names)
            V == Seq(CacheLines)
            Folds(f) == f = [s \in SUBSET DOMAIN Names |->
                          IF s = {} THEN <<>> ELSE AddLine(f[s \ {Max(s)}], Names[Max(s)])]
            step == [x \in V \X (1 .. N) |-> AddLine(x[1], Names[x[2]])]
<1>1. N \in Nat /\ DOMAIN Names = 1 .. N
  BY TraceAssumption
<1>2. <<>> \in V
  OBVIOUS
<1>3. \A v \in V, i \in 1 .. N : step[<<v, i>>] = AddLine(v, Names[i])
  OBVIOUS
<1>4. \A v \in V, i \in 1 .. N : step[<<v, i>>] \in V
  <2>. SUFFICES ASSUME NEW v \in V, NEW i \in 1 .. N PROVE AddLine(v, Names[i]) \in V
    BY <1>3
  <2>1. CASE Names[i] \in DOMAIN Extracted
    <3>1. PICK D \in SUBSET ToSet(Names) : Extracted \in [D -> Signatures]
      BY ExtractedIsRight DEF RightMaps, Maps
    <3>2. IsSignature(Names[i], Extracted[Names[i]])
      BY <2>1, ExtractedIsRight DEF RightMaps
    <3>3. [name |-> Names[i], sig |-> Extracted[Names[i]]] \in CacheLines
      BY <2>1, <3>1, <3>2 DEF CacheLines
    <3>. QED
      BY <2>1, <3>3 DEF AddLine
  <2>2. CASE Names[i] \notin DOMAIN Extracted
    BY <2>2 DEF AddLine
  <2>. QED
    BY <2>1, <2>2
<1>5. \E f : Folds(f)
  <2>. HIDE DEF step
  <2>1. PICK f : IsFold(N, <<>>, step, f) /\ \A s \in SUBSET (1 .. N) : f[s] \in V
    <3>. HIDE DEF N, V
    <3>. QED
      BY <1>1, <1>2, <1>4, FoldExists
  <2>2. ASSUME NEW s \in SUBSET (1 .. N), s # {}
        PROVE  step[<<f[s \ {Max(s)}], Max(s)>>] = AddLine(f[s \ {Max(s)}], Names[Max(s)])
    <3>1. Max(s) \in 1 .. N
      BY <1>1, <2>2, LastPosition
    <3>. HIDE DEF V
    <3>. QED
      BY <1>3, <2>1, <3>1
  <2>3. Folds(f)
    <3>. HIDE DEF V
    <3>. QED
      BY <1>1, <2>1, <2>2 DEF IsFold
  <2>. QED
    BY <2>3
<1>. DEFINE g == CHOOSE f : Folds(f)
<1>6. Folds(g)
  BY <1>5
<1>7. Lines = g[1 .. N]
  BY <1>1 DEF Lines, FoldLeft, MapThenFoldSet
<1>. HIDE DEF g, V
<1>8. g[{}] = <<>>
  BY <1>1, <1>6
<1>9. ASSUME NEW n \in 1 .. N
      PROVE  g[1 .. n] = AddLine(g[1 .. n - 1], Names[n])
  <2>1. 1 .. n \in SUBSET (1 .. N) /\ n \in Nat /\ n # 0
    BY <1>1
  <2>2. 1 .. n # {} /\ Max(1 .. n) = n /\ (1 .. n) \ {n} = 1 .. n - 1
    BY <2>1, Intervals
  <2>. QED
    BY <1>1, <1>6, <2>1, <2>2
<1>. DEFINE S == {n \in 0 .. N : g[1 .. n] \in V}
<1>10. 0 \in S
  <2>1. 1 .. 0 = {}
    OBVIOUS
  <2>. QED
    BY <1>1, <1>2, <1>8, <2>1
<1>11. ASSUME NEW n \in 0 .. N, n < N, n \in S PROVE n + 1 \in S
  <2>1. n + 1 \in 1 .. N /\ (n + 1) - 1 = n
    BY <1>1, <1>11
  <2>2. g[1 .. n + 1] = AddLine(g[1 .. n], Names[n + 1])
    BY <1>9, <2>1
  <2>3. AddLine(g[1 .. n], Names[n + 1]) \in V
    BY <1>3, <1>4, <1>11, <2>1
  <2>. QED
    BY <2>1, <2>2, <2>3
<1>12. N \in S
  <2>1. \A n \in 0 .. N : n < N /\ n \in S => n + 1 \in S
    BY <1>11
  <2>. HIDE DEF S, N
  <2>2. \A n \in 0 .. N : n \in S
    BY <1>1, <1>10, <2>1, UpTo
  <2>. QED
    BY <1>1, <2>2
<1>. QED
  BY <1>7, <1>12 DEF V

\* What a cache holds whose lines are right where they are not holes.
Caches == Seq(CacheLines \cup {Nowhere})

\* Reading it keeps a map of right signatures right.
LEMMA ReadIsRight ==
  ASSUME NEW lines \in Caches, NEW from \in 0 .. Len(lines), NEW to \in from .. Len(lines),
         NEW missed, NEW map \in KnownMaps(missed)
  PROVE  Read(lines, from, to, map) \in KnownMaps(missed)
<1>. DEFINE Step(m, i) == IF lines[i] = Nowhere \/ (i > from + 1 /\ lines[i - 1] = Nowhere)
                          THEN m ELSE Put(m, lines[i].name, lines[i].sig)
            order == [k \in 1 .. to - from |-> from + k]
            N == to - from
            V == KnownMaps(missed)
            Folds(f) == f = [s \in SUBSET DOMAIN order |->
                          IF s = {} THEN map ELSE Step(f[s \ {Max(s)}], order[Max(s)])]
            step == [x \in V \X (1 .. N) |-> Step(x[1], order[x[2]])]
<1>1. N \in Nat /\ DOMAIN order = 1 .. N
  BY DEF Caches
<1>2. map \in V
  OBVIOUS
<1>3. \A v \in V, i \in 1 .. N : step[<<v, i>>] = Step(v, order[i])
  OBVIOUS
<1>4. \A v \in V, i \in 1 .. N : step[<<v, i>>] \in V
  <2>. SUFFICES ASSUME NEW v \in V, NEW i \in 1 .. N, lines[order[i]] # Nowhere
                PROVE  Put(v, lines[order[i]].name, lines[order[i]].sig) \in V
    BY <1>3
  <2>. DEFINE l == lines[order[i]]
  <2>1. order[i] \in 1 .. Len(lines)
    BY DEF Caches
  <2>2. l \in [name : ToSet(Names), sig : Signatures] /\ IsSignature(l.name, l.sig)
    BY <2>1 DEF Caches, CacheLines
  <2>. HIDE DEF l, order
  <2>7. Put(v, l.name, l.sig) \in KnownMaps(missed)
    BY <2>2, RightHasParameters, PutIsKnown
  <2>. QED
    BY <2>7 DEF l
<1>5. \E f : Folds(f)
  <2>. HIDE DEF step
  <2>1. PICK f : IsFold(N, map, step, f) /\ \A s \in SUBSET (1 .. N) : f[s] \in V
    <3>. HIDE DEF N, V
    <3>. QED
      BY <1>1, <1>2, <1>4, FoldExists
  <2>2. ASSUME NEW s \in SUBSET (1 .. N), s # {}
        PROVE  step[<<f[s \ {Max(s)}], Max(s)>>] = Step(f[s \ {Max(s)}], order[Max(s)])
    <3>1. Max(s) \in 1 .. N
      BY <1>1, <2>2, LastPosition
    <3>. HIDE DEF V
    <3>. QED
      BY <1>3, <2>1, <3>1
  <2>3. Folds(f)
    <3>. HIDE DEF V
    <3>. QED
      BY <1>1, <2>1, <2>2 DEF IsFold
  <2>. QED
    BY <2>3
<1>. DEFINE g == CHOOSE f : Folds(f)
<1>6. Folds(g)
  BY <1>5
<1>7. Read(lines, from, to, map) = g[1 .. N]
  BY <1>1 DEF Read, FoldLeft, MapThenFoldSet
<1>. HIDE DEF g, V
<1>8. g[{}] = map
  BY <1>1, <1>6
<1>9. ASSUME NEW n \in 1 .. N
      PROVE  g[1 .. n] = Step(g[1 .. n - 1], order[n])
  <2>1. 1 .. n \in SUBSET (1 .. N) /\ n \in Nat /\ n # 0
    BY <1>1
  <2>2. 1 .. n # {} /\ Max(1 .. n) = n /\ (1 .. n) \ {n} = 1 .. n - 1
    BY <2>1, Intervals
  <2>3. 1 .. n \in SUBSET DOMAIN order
    BY <1>1, <2>1
  <2>. HIDE DEF Step, order
  <2>. QED
    BY <1>6, <2>2, <2>3
<1>. DEFINE S == {n \in 0 .. N : g[1 .. n] \in V}
<1>10. 0 \in S
  <2>1. 1 .. 0 = {}
    OBVIOUS
  <2>. QED
    BY <1>1, <1>2, <1>8, <2>1
<1>11. ASSUME NEW n \in 0 .. N, n < N, n \in S PROVE n + 1 \in S
  <2>1. n + 1 \in 1 .. N /\ (n + 1) - 1 = n
    BY <1>1, <1>11
  <2>2. g[1 .. n + 1] = Step(g[1 .. n], order[n + 1])
    BY <1>9, <2>1
  <2>3. Step(g[1 .. n], order[n + 1]) \in V
    BY <1>3, <1>4, <1>11, <2>1
  <2>. QED
    BY <2>1, <2>2, <2>3
<1>12. N \in S
  <2>1. \A n \in 0 .. N : n < N /\ n \in S => n + 1 \in S
    BY <1>11
  <2>. HIDE DEF S, N
  <2>2. \A n \in 0 .. N : n \in S
    BY <1>1, <1>10, <2>1, UpTo
  <2>. QED
    BY <1>1, <2>2
<1>. QED
  BY <1>7, <1>12 DEF V
-------------------------------------------------------------------------------
\* Where a tracer is once it has its signatures, and where it has not changed the cache.
Later == {"fork", "begin", "enter", "enterwait", "print", "leave", "leavewait", "result", "end", "aborted"}
Early == {"main", "load", "truncate"}

Parts == {<<>>} \cup {<<x>> : x \in CacheLines \cup {Nowhere}}

CompileTypeOK ==
  /\ asked \in [Tracer -> Asked \cup {NothingAsked}]
  /\ pc \in [Tracer -> Later \cup Early \cup {"cache", "interrupted", "threw"}]
  /\ pos \in [Tracer -> Nat] /\ part \in [Tracer -> Parts]
  /\ misread \in [Tracer -> SUBSET ToSet(Names)]
  /\ sigs \in [Tracer -> Maps] /\ \A t \in Tracer : sigs[t] \in KnownMaps(misread[t])
  /\ \A t \in Tracer : pc[t] \in {"main", "truncate"} => pos[t] = 0 /\ part[t] = <<>>
  /\ \A t \in Tracer : pc[t] = "cache" => pos[t] <= Len(Lines)

CacheHasRightLines ==
  \/ cache \in Caches /\ Len(cache) <= Len(Lines)
  \/ cache = NoFile /\ \A t \in Tracer : pc[t] \notin {"load", "cache"}

\* One of those who wrote has found nothing between its lines and the file's
\* beginning since the file was last emptied.
Wrote(t) ==
  /\ pc[t] \notin Early
  /\ pos[t] <= Len(cache) /\ \A i \in 1 .. pos[t] : cache[i] = Lines[i]
  /\ pc[t] \notin {"cache", "interrupted"} => pos[t] = Len(Lines)
\* Or nobody has emptied the cache that was there from the beginning.
Untouched == cache = Lines /\ \A t \in Tracer : pc[t] # "cache"
CacheHasAWriter ==
  (cache # NoFile \/ \E t \in Tracer : pc[t] = "cache") => Untouched \/ \E t \in Tracer : Wrote(t)

\* Who does not find the rest of a line, or did not, is not alone.
Disturbed(t) == LosesTheRest(t) \/ misread[t] # {}
NotAlone == \A t \in Tracer : Disturbed(t) => \E u \in Tracer \ {t} : pc[u] \notin Early

CompileInv == CompileTypeOK /\ CacheHasRightLines /\ CacheHasAWriter /\ NotAlone

\* What trace.cc does and what the traced process does leaves the signatures alone.
TraceProgram(t) ==
  \/ ForkTracee(t) \/ Begin(t) \/ Resume(t)
  \/ EntryStop(t) \/ printSyscall(t) \/ RunOutOfMemory(t) \/ EnterAgain(t)
  \/ ExitStop(t) \/ endSyscall(t) \/ ProgramExited(t) \/ LeaveAgain(t)

LEMMA ProgramKeepsSignatures ==
  ASSUME NEW t \in Tracer, TraceProgram(t) \/ TraceeStep(t) \/ Kill(t), CompileTypeOK
  PROVE  /\ UNCHANGED <<compileVars, asked>>
         /\ \/ pc' = pc
            \/ pc[t] \in Later /\ \E x \in Later : pc' = [pc EXCEPT ![t] = x]
<1>. USE DEF CompileTypeOK, Later
<1>1. CASE ForkTracee(t)
  BY <1>1 DEF ForkTracee
<1>2. CASE Begin(t)
  BY <1>2 DEF Begin
<1>3. CASE Resume(t)
  BY <1>3 DEF Resume, Waiting
<1>4. CASE printSyscall(t)
  BY <1>4 DEF printSyscall
<1>5. CASE RunOutOfMemory(t)
  BY <1>5 DEF RunOutOfMemory
<1>6. CASE EnterAgain(t)
  BY <1>6 DEF EnterAgain
<1>7. CASE endSyscall(t)
  BY <1>7 DEF endSyscall
<1>8. CASE ProgramExited(t)
  BY <1>8 DEF ProgramExited, SeesExit
<1>9. CASE LeaveAgain(t)
  BY <1>9 DEF LeaveAgain
<1>10. CASE TraceeStep(t)
  BY <1>10 DEF TraceeStep, EnterCall, ReturnOrExit, GetSignal
<1>11. CASE Kill(t)
  BY <1>11 DEF Kill
<1>12. CASE EntryStop(t) \/ ExitStop(t)
  BY <1>12 DEF EntryStop, ExitStop
<1>. QED
  BY <1>12, <1>1, <1>2, <1>3, <1>4, <1>5, <1>6, <1>7, <1>8, <1>9, <1>10, <1>11 DEF TraceProgram

\* A step of t leaves nobody else disturbed without another who wrote.
LEMMA StillNotAlone ==
  ASSUME CompileInv, NEW t \in Tracer, NEW x, pc' = [pc EXCEPT ![t] = x],
         pc[t] \notin Early => x \notin Early, cache' = cache \/ x \notin Early,
         \A u \in Tracer : u # t => pos'[u] = pos[u] /\ part'[u] = part[u] /\ misread'[u] = misread[u],
         Disturbed(t)' => Disturbed(t)
  PROVE  NotAlone'
<1>1. \A u \in Tracer : pc'[u] = IF u = t THEN x ELSE pc[u]
  BY DEF CompileInv, CompileTypeOK
<1>2. \A u \in Tracer : pc[u] \notin Early => pc'[u] \notin Early
  BY <1>1
<1>3. ASSUME NEW u \in Tracer, Disturbed(u) PROVE \E w \in Tracer \ {u} : pc'[w] \notin Early
  BY <1>2, <1>3 DEF CompileInv, NotAlone
<1>4. ASSUME NEW u \in Tracer, u # t, Disturbed(u)' PROVE \E w \in Tracer \ {u} : pc'[w] \notin Early
  <2>1. CASE cache' = cache
    <3>1. Disturbed(u)
      BY <1>1, <1>4, <2>1 DEF Disturbed, LosesTheRest, FindsTheRest
    <3>. QED
      BY <1>3, <3>1
  <2>2. CASE x \notin Early
    BY <1>1, <1>4, <2>2
  <2>. QED
    BY <2>1, <2>2
<1>. QED
  BY <1>3, <1>4 DEF NotAlone

\* A step that moves one tracer on and leaves the cache as it is keeps the invariant.
LEMMA SameCache ==
  ASSUME CompileInv, UNCHANGED <<cache, sigs, pos, part, misread, asked>>,
         NEW t \in Tracer, NEW x \in Later \cup {"load", "interrupted", "threw"}, pc' = [pc EXCEPT ![t] = x],
         x = "load" => pc[t] = "main" /\ cache # NoFile, x = "threw" => pc[t] = "load",
         pc[t] \in {"cache", "interrupted"} => x = "interrupted" \/ pos[t] = Len(Lines)
  PROVE  CompileInv'
<1>. USE DEF CompileInv, CompileTypeOK
<1>1. pc'[t] = x /\ \A u \in Tracer : u # t => pc'[u] = pc[u]
  OBVIOUS
<1>2. CompileTypeOK'
  BY <1>1 DEF Later, Early
<1>3. CacheHasRightLines'
  BY <1>1 DEF CacheHasRightLines, Later
<1>4. CacheHasAWriter'
  <2>1. ASSUME NEW u \in Tracer, Wrote(u) PROVE Wrote(u)'
    <3>1. CASE u = t
      <4>1. x # "load" /\ x # "threw"
        BY <2>1, <3>1 DEF Wrote, Early
      <4>. QED
        BY <1>1, <2>1, <3>1, <4>1 DEF Wrote, Later, Early
    <3>2. CASE u # t
      BY <1>1, <2>1, <3>2 DEF Wrote
    <3>. QED
      BY <3>1, <3>2
  <2>2. ASSUME NEW u \in Tracer, pc'[u] = "cache" PROVE pc[u] = "cache"
    BY <1>1, <2>2 DEF Later
  <2>. QED
    BY <2>1, <2>2 DEF CacheHasAWriter, Untouched
<1>5. NotAlone'
  <2>1. Disturbed(t)' => Disturbed(t)
    <3>1. LosesTheRest(t)' => part[t] = <<>>
      BY <1>1 DEF LosesTheRest, Later
    <3>2. ~LosesTheRest(t)'
      BY <3>1 DEF LosesTheRest, FindsTheRest
    <3>. QED
      BY <3>2 DEF Disturbed
  <2>2. pc[t] \notin Early => x \notin Early
    BY DEF Early, Later
  <2>. QED
    BY <2>1, <2>2, StillNotAlone
<1>. QED
  BY <1>2, <1>3, <1>4, <1>5

\* A tracer that reads the cache leaves those who wrote it as they are.
LEMMA ReaderStep ==
  ASSUME CompileInv, NEW t \in Tracer, pc[t] = "load", UNCHANGED <<cache, asked>>, CompileTypeOK',
         NEW x \in {"load", "fork"}, pc' = [pc EXCEPT ![t] = x],
         \A u \in Tracer : u # t => pos'[u] = pos[u] /\ part'[u] = part[u] /\ misread'[u] = misread[u],
         Disturbed(t)' => Disturbed(t)
  PROVE  CompileInv'
<1>. USE DEF CompileInv
<1>1. pc'[t] = x /\ \A u \in Tracer : u # t => pc'[u] = pc[u]
  BY DEF CompileTypeOK
<1>2. CacheHasRightLines'
  BY <1>1 DEF CacheHasRightLines
<1>3. CacheHasAWriter'
  <2>1. ASSUME NEW u \in Tracer, Wrote(u) PROVE Wrote(u)'
    <3>1. u # t
      BY <2>1 DEF Wrote, Early
    <3>. QED
      BY <1>1, <2>1, <3>1 DEF Wrote
  <2>2. ASSUME NEW u \in Tracer, pc'[u] = "cache" PROVE pc[u] = "cache"
    BY <1>1, <2>2
  <2>. QED
    BY <2>1, <2>2 DEF CacheHasAWriter, Untouched
<1>4. NotAlone'
  BY StillNotAlone DEF Early
<1>. QED
  BY <1>2, <1>3, <1>4

LEMMA LoadStep ==
  ASSUME CompileInv, NEW t \in Tracer, Load(t)
  PROVE  CompileInv'
<1>. USE DEF CompileInv, CompileTypeOK
<1>1. cache \in Caches /\ pc[t] = "load" /\ cache' = cache /\ asked' = asked /\ Len(cache) \in Nat /\ pos[t] \in Nat
  BY DEF Load, CacheHasRightLines, Caches
<1>2. PICK to \in pos[t] .. Len(cache), inLine \in BOOLEAN :
        /\ inLine => to < Len(cache)
        /\ sigs' = [sigs EXCEPT ![t] = Read(cache, pos[t], to, sigs[t])]
        /\ pos' = [pos EXCEPT ![t] = to]
        /\ part' = [part EXCEPT ![t] = IF inLine THEN <<cache[to + 1]>> ELSE <<>>]
  BY DEF Load
<1>3. pos[t] < Len(cache) /\ FindsTheRest(t) /\ UNCHANGED <<misread, pc>>
  BY DEF Load
<1>4. pos[t] \in 0 .. Len(cache) /\ to \in Nat
  BY <1>1, <1>2, <1>3
<1>5. Read(cache, pos[t], to, sigs[t]) \in KnownMaps(misread[t])
  BY <1>1, <1>2, <1>4, ReadIsRight
<1>6. (IF inLine THEN <<cache[to + 1]>> ELSE <<>>) \in Parts
  <2>1. CASE inLine
    <3>1. cache[to + 1] \in CacheLines \cup {Nowhere}
      BY <1>1, <1>2, <1>4, <2>1 DEF Caches
    <3>. QED
      BY <2>1, <3>1 DEF Parts
  <2>. QED
    BY <2>1 DEF Parts
<1>7. CompileTypeOK'
  <2>1. KnownMaps(misread[t]) \subseteq Maps
    BY DEF KnownMaps
  <2>. HIDE DEF KnownMaps, Maps, Parts
  <2>. QED
    BY <1>1, <1>2, <1>3, <1>4, <1>5, <1>6, <2>1
<1>8. ~LosesTheRest(t)'
  <2>1. part'[t] = (IF inLine THEN <<cache[to + 1]>> ELSE <<>>) /\ pos'[t] = to
    BY <1>2
  <2>. QED
    BY <1>1, <1>2, <2>1 DEF LosesTheRest, FindsTheRest
<1>9. pc' = [pc EXCEPT ![t] = "load"]
  BY <1>1, <1>3
<1>. HIDE DEF CompileTypeOK
<1>10. Disturbed(t)' => Disturbed(t)
  BY <1>3, <1>8 DEF Disturbed
<1>11. \A u \in Tracer : u # t => pos'[u] = pos[u] /\ part'[u] = part[u] /\ misread'[u] = misread[u]
  BY <1>2, <1>3 DEF CompileTypeOK
<1>. QED
  BY <1>1, <1>7, <1>9, <1>10, <1>11, ReaderStep

LEMMA EndOfCacheStep ==
  ASSUME CompileInv, NEW t \in Tracer, EndOfCache(t)
  PROVE  CompileInv'
BY SameCache DEF EndOfCache, compileVars, Later

\* What is left of a line that is read without its rest.
LEMMA LostLine ==
  ASSUME CompileInv, NEW t \in Tracer, LosesTheRest(t), part[t][1] # Nowhere,
         NEW sig \in Cut(part[t][1].sig) \cup Garbled(part[t][1].sig), Misread(t, sig)
  PROVE  /\ misread' = [misread EXCEPT ![t] = misread[t] \cup {part[t][1].name}]
         /\ misread' \in [Tracer -> SUBSET ToSet(Names)]
         /\ sigs' \in [Tracer -> Maps] /\ \A u \in Tracer : sigs'[u] \in KnownMaps(misread'[u])
<1>. USE DEF CompileInv, CompileTypeOK
<1>. DEFINE line == part[t][1]
            more == misread[t] \cup {line.name}
<1>1. line \in CacheLines
  BY DEF LosesTheRest, FindsTheRest, Parts
<1>2. line.name \in ToSet(Names) /\ line.sig \in Signatures /\ IsSignature(line.name, line.sig)
  BY <1>1 DEF CacheLines
<1>3. sig \in [1 .. Len(line.sig) -> Types] /\ Len(line.sig) \in Nat
  <2>1. Len(line.sig) \in Nat /\ DOMAIN line.sig = 1 .. Len(line.sig)
        /\ \A i \in 1 .. Len(line.sig) : line.sig[i] \in Types
    BY <1>2 DEF Signatures
  <2>2. CASE sig \in Garbled(line.sig)
    BY <2>1, <2>2 DEF Garbled, Types
  <2>3. CASE sig \in Cut(line.sig)
    <3>1. PICK n \in 0 .. Len(line.sig) :
            sig = [i \in DOMAIN line.sig |-> IF i <= n THEN line.sig[i] ELSE "unknown"]
      BY <2>3 DEF Cut
    <3>2. "unknown" \in Types
      BY DEF Types
    <3>. HIDE DEF line
    <3>. QED
      BY <2>1, <3>1, <3>2
  <2>. QED
    BY <2>1, <2>2, <2>3
<1>4. sig \in Signatures /\ Len(sig) = Len(line.sig)
  <2>. DEFINE L == Len(line.sig)
  <2>1. sig \in [1 .. L -> Types] /\ L \in Nat
    BY <1>3
  <2>. HIDE DEF L
  <2>2. sig \in Seq(Types) /\ Len(sig) = L
    BY <2>1
  <2>. QED
    BY <2>2 DEF Signatures, L
<1>5. HasParameters(line.name, sig)
  <2>1. HasParameters(line.name, line.sig)
    BY <1>2, RightHasParameters
  <2>. HIDE DEF line
  <2>. QED
    BY <1>4, <2>1 DEF HasParameters
<1>6. Put(sigs[t], line.name, sig) \in KnownMaps(more)
  <2>. HIDE DEF line
  <2>. QED
    BY <1>2, <1>4, <1>5, PutIsKnown
<1>7. sigs' = [sigs EXCEPT ![t] = Put(sigs[t], line.name, sig)] /\ misread' = [misread EXCEPT ![t] = more]
  BY DEF Misread
<1>8. KnownMaps(more) \subseteq Maps /\ more \in SUBSET ToSet(Names)
  BY <1>2 DEF KnownMaps
<1>. HIDE DEF more, line
<1>9. misread' \in [Tracer -> SUBSET ToSet(Names)] /\ sigs' \in [Tracer -> Maps]
  BY <1>6, <1>7, <1>8
<1>10. \A u \in Tracer : sigs'[u] \in KnownMaps(misread'[u])
  BY <1>6, <1>7
<1>. QED
  BY <1>7, <1>9, <1>10 DEF more, line

\* The reader gives up the line and comes to the end or to a later line.
LEMMA LosesLineStep ==
  ASSUME CompileInv, NEW t \in Tracer, EndInLine(t) \/ ReadOn(t)
  PROVE  CompileInv'
<1>. USE DEF CompileInv, CompileTypeOK
<1>1. LosesTheRest(t) /\ pc[t] = "load" /\ UNCHANGED <<cache, asked>>
      /\ part' = [part EXCEPT ![t] = <<>>]
  BY DEF EndInLine, ReadOn, LosesTheRest
<1>2. PICK x \in {"load", "fork"} : pc' = [pc EXCEPT ![t] = x]
  <2>1. CASE EndInLine(t)
    BY <2>1 DEF EndInLine
  <2>2. CASE ReadOn(t)
    <3>1. pc' = [pc EXCEPT ![t] = "load"]
      BY <1>1, <2>2 DEF ReadOn
    <3>. QED
      BY <3>1
  <2>. QED
    BY <2>1, <2>2
<1>3. cache \in Caches /\ Len(cache) \in Nat
  BY <1>1 DEF CacheHasRightLines, Caches
<1>4. PICK to \in Nat : pos' = [pos EXCEPT ![t] = to]
  <2>1. CASE EndInLine(t)
    <3>1. pos' = [pos EXCEPT ![t] = pos[t]]
      BY <2>1 DEF EndInLine
    <3>. QED
      BY <3>1
  <2>2. CASE ReadOn(t)
    <3>1. PICK to \in pos[t] + 1 .. Len(cache) : pos' = [pos EXCEPT ![t] = to]
      BY <2>2 DEF ReadOn
    <3>2. to \in Nat
      BY <1>3, <3>1
    <3>. QED
      BY <3>1, <3>2
  <2>. QED
    BY <2>1, <2>2
<1>5. \/ UNCHANGED <<sigs, misread>>
      \/ /\ part[t][1] # Nowhere
         /\ \E sig \in Cut(part[t][1].sig) \cup Garbled(part[t][1].sig) : Misread(t, sig)
  BY DEF EndInLine, ReadOn
<1>6. /\ misread' \in [Tracer -> SUBSET ToSet(Names)] /\ \A u \in Tracer : u # t => misread'[u] = misread[u]
      /\ sigs' \in [Tracer -> Maps] /\ \A u \in Tracer : sigs'[u] \in KnownMaps(misread'[u])
  <2>1. CASE UNCHANGED <<sigs, misread>>
    BY <2>1
  <2>2. ASSUME part[t][1] # Nowhere, NEW sig \in Cut(part[t][1].sig) \cup Garbled(part[t][1].sig), Misread(t, sig)
        PROVE  /\ misread' \in [Tracer -> SUBSET ToSet(Names)]
               /\ \A u \in Tracer : u # t => misread'[u] = misread[u]
               /\ sigs' \in [Tracer -> Maps] /\ \A u \in Tracer : sigs'[u] \in KnownMaps(misread'[u])
    <3>1. /\ misread' = [misread EXCEPT ![t] = misread[t] \cup {part[t][1].name}]
          /\ misread' \in [Tracer -> SUBSET ToSet(Names)]
          /\ sigs' \in [Tracer -> Maps] /\ \A u \in Tracer : sigs'[u] \in KnownMaps(misread'[u])
      BY <1>1, <2>2, LostLine
    <3>. QED
      BY <3>1
  <2>. QED
    BY <1>5, <2>1, <2>2
<1>7. CompileTypeOK'
  <2>1. <<>> \in Parts
    BY DEF Parts
  <2>2. pc' \in [Tracer -> Later \cup Early \cup {"cache", "interrupted", "threw"}]
    BY <1>2 DEF Later, Early
  <2>3. \A u \in Tracer : pc'[u] \in {"main", "truncate", "cache"} => u # t /\ pc[u] = pc'[u]
    BY <1>2
  <2>. HIDE DEF KnownMaps, Maps, Parts
  <2>. QED
    BY <1>1, <1>4, <1>6, <2>1, <2>2, <2>3
<1>8. Disturbed(t)' => Disturbed(t)
  BY <1>1 DEF Disturbed
<1>9. \A u \in Tracer : u # t => pos'[u] = pos[u] /\ part'[u] = part[u] /\ misread'[u] = misread[u]
  BY <1>1, <1>4, <1>6
<1>. HIDE DEF CompileTypeOK
<1>. QED
  BY <1>1, <1>2, <1>7, <1>8, <1>9, ReaderStep

LEMMA ThrowStep ==
  ASSUME CompileInv, NEW t \in Tracer, Throw(t)
  PROVE  CompileInv'
BY SameCache DEF Throw, LosesTheRest, compileVars

LEMMA ExtractStep ==
  ASSUME CompileInv, NEW t \in Tracer, Extract(t)
  PROVE  CompileInv'
<1>. USE DEF CompileInv, CompileTypeOK
<1>1. /\ pc[t] = "main" /\ pc' = [pc EXCEPT ![t] = "truncate"] /\ sigs' = [sigs EXCEPT ![t] = Extracted]
      /\ UNCHANGED <<cache, pos, part, misread, asked>>
  BY DEF Extract
<1>2. Extracted \in Maps /\ Extracted \in KnownMaps(misread[t])
  BY ExtractedIsRight, RightIsKnown DEF RightMaps
<1>3. CompileTypeOK'
  <2>1. pc' \in [Tracer -> Later \cup Early \cup {"cache", "interrupted", "threw"}]
    BY <1>1 DEF Early
  <2>. HIDE DEF KnownMaps, Maps, Parts
  <2>. QED
    BY <1>1, <1>2, <2>1
<1>4. pc'[t] = "truncate" /\ \A u \in Tracer : u # t => pc'[u] = pc[u]
  BY <1>1
<1>5. CacheHasRightLines'
  BY <1>1, <1>4 DEF CacheHasRightLines
<1>6. CacheHasAWriter'
  <2>1. ASSUME NEW u \in Tracer, Wrote(u) PROVE Wrote(u)'
    <3>1. u # t
      BY <1>1, <2>1 DEF Wrote, Early
    <3>. QED
      BY <1>1, <1>4, <2>1, <3>1 DEF Wrote
  <2>2. ASSUME NEW u \in Tracer, pc'[u] = "cache" PROVE pc[u] = "cache"
    BY <1>4, <2>2
  <2>. QED
    BY <1>1, <2>1, <2>2 DEF CacheHasAWriter, Untouched
<1>7. Disturbed(t)' => Disturbed(t)
  BY <1>1, <1>4 DEF Disturbed, LosesTheRest
<1>8. NotAlone'
  BY <1>1, <1>7, StillNotAlone DEF Early
<1>. QED
  BY <1>3, <1>5, <1>6, <1>8

LEMMA TruncateStep ==
  ASSUME CompileInv, NEW t \in Tracer, Truncate(t)
  PROVE  CompileInv'
<1>. USE DEF CompileInv, CompileTypeOK
<1>1. /\ pc[t] = "truncate" /\ pc' = [pc EXCEPT ![t] = "cache"] /\ cache' = <<>>
      /\ UNCHANGED <<sigs, pos, part, misread, asked>>
  BY DEF Truncate
<1>2. Len(Lines) \in Nat
  BY LinesAreRight
<1>3. pos[t] = 0 /\ pc'[t] = "cache" /\ \A u \in Tracer : u # t => pc'[u] = pc[u]
  BY <1>1
<1>4. CompileTypeOK'
  <2>1. pc' \in [Tracer -> Later \cup Early \cup {"cache", "interrupted", "threw"}]
    BY <1>1 DEF Early
  <2>. HIDE DEF KnownMaps, Maps, Parts
  <2>. QED
    BY <1>1, <1>2, <1>3, <2>1
<1>5. CacheHasRightLines'
  BY <1>1, <1>2 DEF CacheHasRightLines, Caches
<1>6. Wrote(t)'
  <2>1. pos'[t] = 0 /\ Len(cache') = 0
    BY <1>1, <1>3
  <2>. QED
    BY <1>3, <2>1 DEF Wrote, Early
<1>7. Disturbed(t)' => Disturbed(t)
  BY <1>1, <1>3 DEF Disturbed, LosesTheRest
<1>8. NotAlone'
  <2>1. "cache" \notin Early
    BY DEF Early
  <2>. QED
    BY <1>1, <1>7, <2>1, StillNotAlone
<1>. QED
  BY <1>4, <1>5, <1>6, <1>8 DEF CacheHasAWriter

LEMMA WriteLineStep ==
  ASSUME CompileInv, NEW t \in Tracer, WriteLine(t)
  PROVE  CompileInv'
<1>. USE DEF CompileInv, CompileTypeOK
<1>1. /\ pc[t] = "cache" /\ cache \in Caches /\ Len(cache) <= Len(Lines) /\ UNCHANGED <<sigs, part, misread, asked>>
      /\ Len(cache) \in Nat /\ Len(Lines) \in Nat /\ pos[t] \in Nat /\ pos[t] <= Len(Lines)
  <2>1. pc[t] = "cache" /\ UNCHANGED <<sigs, part, misread, asked>>
    BY DEF WriteLine
  <2>2. cache \in Caches /\ Len(cache) <= Len(Lines)
    BY <2>1 DEF CacheHasRightLines
  <2>3. Len(cache) \in Nat /\ Len(Lines) \in Nat
    BY <2>2, LinesAreRight DEF Caches
  <2>4. pos[t] \in Nat /\ pos[t] <= Len(Lines)
    BY <2>1, Zenon
  <2>. QED
    BY <2>1, <2>2, <2>3, <2>4, Zenon
<1>2. CASE pos[t] < Len(Lines)
  <2>. DEFINE n == pos[t] + 1
              length == IF n > Len(cache) THEN n ELSE Len(cache)
  <2>1. /\ cache' = [i \in 1 .. length |->
                        CASE i = n -> Lines[n]
                          [] i # n /\ i <= Len(cache) -> cache[i]
                          [] OTHER -> Nowhere]
        /\ pos' = [pos EXCEPT ![t] = n] /\ pc' = pc
    BY <1>2 DEF WriteLine
  <2>2. n \in 1 .. Len(Lines) /\ length \in Nat /\ length >= n /\ length >= Len(cache) /\ length <= Len(Lines)
    BY <1>1, <1>2
  <2>3. Lines[n] \in CacheLines
    BY <2>2, LinesAreRight, ElementOfSeq, Zenon
  <2>. HIDE DEF length, n
  <2>4. \A i \in 1 .. length : cache'[i] \in CacheLines \cup {Nowhere}
    BY <1>1, <2>1, <2>2, <2>3 DEF Caches
  <2>5. cache' \in Caches /\ Len(cache') = length
    <3>1. cache' = [i \in 1 .. length |-> cache'[i]]
      BY <2>1
    <3>2. cache' \in [1 .. length -> CacheLines \cup {Nowhere}]
      BY <2>4, <3>1
    <3>. QED
      BY <2>2, <3>2 DEF Caches
  <2>6. CompileTypeOK'
    <3>. HIDE DEF KnownMaps, Maps, Parts
    <3>. QED
      BY <1>1, <2>1, <2>2
  <2>10. NotAlone'
    <3>1. pc' = [pc EXCEPT ![t] = "cache"] /\ "cache" \notin Early
      BY <1>1, <2>1 DEF Early
    <3>2. Disturbed(t)' => Disturbed(t)
      BY <1>1, <2>1 DEF Disturbed, LosesTheRest
    <3>3. \A u \in Tracer : u # t => pos'[u] = pos[u] /\ part'[u] = part[u] /\ misread'[u] = misread[u]
      BY <1>1, <2>1
    <3>. QED
      BY <3>1, <3>2, <3>3, StillNotAlone
  <2>7. cache'[n] = Lines[n] /\ \A i \in 1 .. Len(cache) : i # n => cache'[i] = cache[i]
    BY <1>1, <2>1, <2>2
  <2>8. ASSUME NEW u \in Tracer, Wrote(u) PROVE Wrote(u)'
    <3>1. CASE u = t
      <4>1. pos'[u] = n /\ pos[u] = n - 1 /\ pos'[u] <= Len(cache')
        BY <2>1, <2>2, <2>5, <3>1 DEF n
      <4>2. \A i \in 1 .. n : cache'[i] = Lines[i]
        <5>. SUFFICES ASSUME NEW i \in 1 .. n, i # n PROVE cache'[i] = Lines[i]
          BY <2>7
        <5>1. i \in 1 .. pos[u] /\ i \in 1 .. Len(cache)
          BY <1>1, <2>2, <2>8, <4>1 DEF Wrote
        <5>. QED
          BY <2>7, <2>8, <5>1 DEF Wrote
      <4>3. pc'[u] = "cache" /\ pos'[u] <= Len(cache') /\ \A i \in 1 .. pos'[u] : cache'[i] = Lines[i]
        BY <1>1, <2>1, <3>1, <4>1, <4>2
      <4>. QED
        BY <4>3 DEF Wrote, Early
    <3>2. CASE u # t
      <4>1. pos'[u] = pos[u] /\ pc'[u] = pc[u] /\ pos[u] \in Nat
        BY <2>1, <3>2
      <4>2. pos[u] <= Len(cache')
        BY <1>1, <2>2, <2>5, <2>8, <4>1 DEF Wrote
      <4>3. \A i \in 1 .. pos[u] : cache'[i] = Lines[i]
        BY <1>1, <2>7, <2>8, <4>1 DEF Wrote
      <4>. QED
        BY <2>8, <4>1, <4>2, <4>3 DEF Wrote
    <3>. QED
      BY <3>1, <3>2
  <2>9. \E u \in Tracer : Wrote(u)
    BY <1>1 DEF CacheHasAWriter, Untouched
  <2>. QED
    BY <2>2, <2>5, <2>6, <2>8, <2>9, <2>10 DEF CacheHasRightLines, CacheHasAWriter
<1>3. CASE ~(pos[t] < Len(Lines))
  <2>1. pc' = [pc EXCEPT ![t] = "fork"] /\ UNCHANGED <<cache, sigs, pos, part, misread, asked>>
    BY <1>1, <1>3 DEF WriteLine
  <2>2. pos[t] = Len(Lines)
    BY <1>1, <1>3
  <2>. QED
    BY <1>1, <2>1, <2>2, SameCache DEF Later
<1>. QED
  BY <1>2, <1>3

LEMMA CompileStep == CompileInv /\ [Next]_vars => CompileInv'
<1>. SUFFICES ASSUME CompileInv, [Next]_vars PROVE CompileInv'
  OBVIOUS
<1>1. CASE UNCHANGED traceVars
  BY <1>1 DEF traceVars, compileVars, CompileInv, CompileTypeOK, CacheHasRightLines, CacheHasAWriter, Untouched, Wrote,
     NotAlone, Disturbed, LosesTheRest, FindsTheRest
<1>2. ASSUME NEW t \in Tracer, Nothing(t) \/ OpenToLoad(t) \/ Interrupt(t) PROVE CompileInv'
  BY <1>2, SameCache DEF Nothing, OpenToLoad, Interrupt, compileVars, Later
<1>3. ASSUME NEW t \in Tracer, TraceProgram(t) \/ TraceeStep(t) \/ Kill(t) PROVE CompileInv'
  <2>1. UNCHANGED <<cache, sigs, pos, part, misread, asked>>
    BY <1>3, ProgramKeepsSignatures DEF compileVars, CompileInv
  <2>2. CASE pc' = pc
    BY <2>1, <2>2 DEF CompileInv, CompileTypeOK, CacheHasRightLines, CacheHasAWriter, Untouched, Wrote,
         NotAlone, Disturbed, LosesTheRest, FindsTheRest
  <2>3. CASE pc[t] \in Later /\ \E x \in Later : pc' = [pc EXCEPT ![t] = x]
    BY <2>1, <2>3, SameCache DEF Later
  <2>. QED
    BY <1>3, <2>2, <2>3, ProgramKeepsSignatures DEF CompileInv
<1>4. ASSUME NEW t \in Tracer, TracerStep(t) \/ TraceeStep(t) \/ Kill(t) \/ Interrupt(t) PROVE CompileInv'
  BY <1>2, <1>3, <1>4, LoadStep, EndOfCacheStep, ThrowStep, LosesLineStep, ExtractStep,
     TruncateStep, WriteLineStep DEF TracerStep, TraceProgram
<1>. QED
  BY <1>1, <1>4 DEF Next, TraceNext, vars

LEMMA CompileInit == Init => CompileInv
<1>. SUFFICES ASSUME Init PROVE CompileInv
  OBVIOUS
<1>1. /\ cache \in {NoFile, Lines} /\ asked \in [Tracer -> Asked \cup {NothingAsked}]
      /\ pc = [t \in Tracer |-> "main"] \/ pc = [t \in Tracer |-> "end"]
      /\ sigs = [t \in Tracer |-> Empty] /\ pos = [t \in Tracer |-> 0]
      /\ part = [t \in Tracer |-> <<>>] /\ misread = [t \in Tracer |-> {}]
  BY DEF Init, TraceInit, TraceIdle
<1>2. Empty \in Maps /\ Empty \in KnownMaps({}) /\ <<>> \in Parts
  BY DEF Empty, KnownMaps, Maps, Parts
<1>3. Len(Lines) \in Nat /\ Lines \in Caches
  BY LinesAreRight DEF Caches
<1>4. CompileTypeOK
  <2>. HIDE DEF KnownMaps, Maps, Parts
  <2>. QED
    BY <1>1, <1>2, <1>3 DEF CompileTypeOK, Later, Early
<1>5. NotAlone
  BY <1>1 DEF NotAlone, Disturbed, LosesTheRest
<1>. QED
  BY <1>1, <1>3, <1>4, <1>5 DEF CompileInv, CacheHasRightLines, CacheHasAWriter, Untouched

\* Whoever reads, writes, is killed at or empties the cache keeps the invariant.
THEOREM SignatureInvariance == Spec => []CompileInv
BY CompileInit, CompileStep, PTL DEF Spec

(* Every trace knows a signature as the kernel's sources have it or not at all, *)
(* unless another trace emptied the cache while its line was read, and then it  *)
(* still knows how many parameters there are; the cache is whole whenever no    *)
(* writer is at it or was killed at it.                                         *)
THEOREM RightSignatures == Spec => []SignaturesAreRight
<1>1. CompileInv => SignaturesAreRight
  <2>. SUFFICES ASSUME CompileInv PROVE SignaturesAreRight
    OBVIOUS
  <2>1. ASSUME NEW t \in Tracer, NEW name \in DOMAIN sigs[t]
        PROVE  \E m \in 1 .. Len(Macros) :
                 /\ Macros[m].name = name /\ \A l \in 1 .. m - 1 : Macros[l].name # name
                 /\ Len(sigs[t][name]) = Len(Macros[m].types)
                 /\ name \notin misread[t] => sigs[t][name] = Signature(Macros[m])
    <3>1. HasParameters(name, sigs[t][name]) /\ (name \notin misread[t] => IsSignature(name, sigs[t][name]))
      BY <2>1 DEF CompileInv, CompileTypeOK, KnownMaps
    <3>2. CASE name \in misread[t]
      BY <3>1, <3>2 DEF HasParameters, IsFirst
    <3>3. CASE name \notin misread[t]
      <4>1. PICK m \in 1 .. Len(Macros) : IsFirst(m, name) /\ Signature(Macros[m]) = sigs[t][name]
        BY <3>1, <3>3 DEF IsSignature
      <4>2. Len(sigs[t][name]) = Len(Macros[m].types)
        BY <4>1, SignatureLength
      <4>. QED
        BY <4>1, <4>2 DEF IsFirst
    <3>. QED
      BY <3>2, <3>3
  <2>3. ASSUME NEW t \in Tracer, misread[t] # {}
        PROVE  \E u \in Tracer \ {t} : pc[u] \notin {"main", "load", "truncate"}
    BY <2>3 DEF CompileInv, NotAlone, Disturbed, Early
  <2>2. ASSUME cache # NoFile, \A t \in Tracer : pc[t] \notin {"cache", "interrupted"}
        PROVE  cache = Lines
    <3>1. cache \in Caches /\ Len(cache) <= Len(Lines)
      BY <2>2 DEF CompileInv, CacheHasRightLines
    <3>2. CASE Untouched
      BY <3>2 DEF Untouched
    <3>3. ASSUME NEW t \in Tracer, Wrote(t) PROVE cache = Lines
      <4>1. Len(cache) = Len(Lines) /\ \A i \in 1 .. Len(Lines) : cache[i] = Lines[i]
        BY <2>2, <3>1, <3>3, LinesAreRight DEF Wrote, Caches
      <4>. QED
        BY <3>1, <4>1, LinesAreRight, SeqEqual DEF Caches
    <3>. QED
      BY <2>2, <3>2, <3>3 DEF CompileInv, CacheHasAWriter
  <2>. QED
    BY <2>1, <2>2, <2>3 DEF SignaturesAreRight
<1>. QED
  BY <1>1, SignatureInvariance, PTL
-------------------------------------------------------------------------------
\* The names that a number may have: that of its definition, or none.
Text == STRING \cup {""}

\* What has been made and printed at each point of the tracer's loop.
Reports == [num : Int, args : Seq(Types \X Int), result : Seq(Int \cup Text)]
TracerTypeOK ==
  /\ tracee \in [Tracer -> {"none", "signal", "user", "entry", "kernel", "exit", "exited", "killed", "free"}]
  /\ made \in [Tracer -> Nat] /\ printed \in [Tracer -> Seq(Reports)] /\ DOMAIN exitNum = Tracer

Before == {"main", "load", "truncate", "cache", "interrupted", "threw", "fork"}
Unreadable(t) == \E n \in 1 .. Len(asked[t].calls) : ~ToSet(asked[t].calls[n].args) \subseteq Readable

\* The loop is where the traced process is.
InStep(t) ==
  /\ pc[t] \in Before => tracee[t] = "none"
  /\ pc[t] = "begin" => tracee[t] \in {"signal", "killed"}
  /\ pc[t] = "enter" => tracee[t] \in {"signal", "exit", "killed"}
  /\ pc[t] = "enterwait" => tracee[t] \in {"signal", "user", "entry", "killed"}
  /\ pc[t] \in {"print", "leave"} => tracee[t] \in {"entry", "killed"}
  /\ pc[t] = "leavewait" => tracee[t] \in {"kernel", "exit", "exited", "killed"}
  /\ pc[t] = "result" => tracee[t] \in {"exit", "killed"}
  /\ pc[t] = "end" => tracee[t] = IF asked[t].calls = <<>> THEN "none" ELSE "exited"
  /\ pc[t] = "aborted" => tracee[t] = "killed" \/ (tracee[t] = "free" /\ Unreadable(t))

\* Where a line is printed but its result is not.
Pending == {"leave", "leavewait", "result", "end"}

\* Every call made is printed, but for one that is at its entry.
Counted(t) ==
  LET n == Len(printed[t])
      calls == asked[t].calls
  IN  /\ pc[t] \in Before \cup {"begin"} => made[t] = 0
      /\ pc[t] \notin {"main", "end"} => calls # <<>>
      /\ made[t] <= Len(calls) /\ n <= made[t] /\ made[t] <= n + 1
      /\ pc[t] \in {"enter", "enterwait"} /\ tracee[t] \in {"signal", "exit", "user"} => made[t] = n
      /\ pc[t] = "print" \/ (pc[t] = "enterwait" /\ tracee[t] = "entry") => made[t] = n + 1
      /\ pc[t] \in Pending => made[t] = n
      /\ pc[t] \in {"leave", "leavewait", "result"} => n # 0
      /\ tracee[t] \in {"user", "signal", "exit"} => made[t] < Len(calls)
      /\ tracee[t] = "exited" => made[t] = Len(calls)

\* What is printed is right, but for what could not be read of a process that was
\* killed, which its last line has; only the last call's result may be missing.
Lost(t, k) == k = Len(printed[t]) /\ tracee[t] = "killed" /\ pc[t] # "print"
RightLine(t, k, line, lost) ==
  LET call == asked[t].calls[k]
  IN  /\ line.num = call.num \/ (lost /\ line.num = -1)
      /\ \A i \in 1 .. Len(line.args) :
           line.args[i][2] = call.args[i] \/ (lost /\ line.args[i][2] = -1)
      /\ line.result # <<>> =>
           line.result = Result(t, call.ret) \/ (lost /\ line.result = Result(t, -1))
Printed(t) ==
  LET n == Len(printed[t])
      calls == asked[t].calls
  IN  /\ \A k \in 1 .. n :
           /\ RightLine(t, k, printed[t][k], Lost(t, k))
           /\ printed[t][k].result = <<>> <=> (k = n /\ pc[t] \in Pending)
      /\ pc[t] \in Pending /\ tracee[t] # "killed" /\ n # 0 /\ syscallNums(calls[n].num) = "exit_group"
           => exitNum[t] = calls[n].args[1]

TracerInv == TracerTypeOK /\ \A t \in Tracer : InStep(t) /\ Counted(t) /\ Printed(t)

\* A program's calls, the last of which alone is its exit.
LEMMA CallFacts ==
  ASSUME CompileTypeOK, NEW t \in Tracer
  PROVE  /\ asked[t].calls \in Calls /\ Len(asked[t].calls) \in Nat
         /\ \A n \in 1 .. Len(asked[t].calls) :
              /\ asked[t].calls[n] \in [num : Nat, args : Seq(Int), ret : Int]
              /\ IsExit(asked[t].calls[n].num) <=> n = Len(asked[t].calls)
              /\ \A m \in 1 .. Len(Macros) : Macros[m].name = syscallNums(asked[t].calls[n].num) =>
                   Len(Macros[m].types) <= Len(asked[t].calls[n].args)
<1>1. asked[t] \in Asked \cup {NothingAsked}
  BY DEF CompileTypeOK
<1>2. CASE asked[t] = NothingAsked
  <2>1. asked[t].calls = <<>>
    BY <1>2 DEF NothingAsked
  <2>. QED
    BY <2>1 DEF Calls
<1>3. CASE asked[t] \in Asked
  <2>1. asked[t].calls \in Calls
    BY <1>3, TraceAssumption, Zenon
  <2>2. \A m \in 1 .. Len(Macros) : Macros[m] \in ToSet(Macros)
    <3>1. Macros \in Seq([name : STRING, types : Seq(STRING)])
      BY TraceAssumption, Zenon
    <3>. QED
      BY <3>1 DEF ToSet
  <2>3. \A n \in 1 .. Len(asked[t].calls) :
         /\ IsExit(asked[t].calls[n].num) <=> n = Len(asked[t].calls)
         /\ \A m \in ToSet(Macros) : m.name = syscallNums(asked[t].calls[n].num) =>
              Len(m.types) <= Len(asked[t].calls[n].args)
    BY <1>3, ProgramAssumption, Zenon
  <2>4. \A n \in 1 .. Len(asked[t].calls) :
         asked[t].calls[n] \in [num : Nat, args : Seq(Int), ret : Int]
    BY <2>1, ElementOfSeq, Zenon DEF Calls
  <2>. QED
    BY <2>1, <2>2, <2>3, <2>4 DEF Calls
<1>. QED
  BY <1>1, <1>2, <1>3

\* A tracer of which nothing changes is where it was.
LEMMA SameTracer ==
  ASSUME NEW t \in Tracer, asked' = asked, pc'[t] = pc[t], tracee'[t] = tracee[t], made'[t] = made[t],
         printed'[t] = printed[t], exitNum'[t] = exitNum[t], InStep(t), Counted(t), Printed(t)
  PROVE  InStep(t)' /\ Counted(t)' /\ Printed(t)'
<1>1. InStep(t)'
  BY DEF InStep, Unreadable
<1>2. Counted(t)'
  BY DEF Counted
<1>3. Printed(t)'
  BY DEF Printed, RightLine, Lost, Result
<1>. QED
  BY <1>1, <1>2, <1>3

\* What is printed stays right while nothing is printed.
LEMMA SamePrinted ==
  ASSUME NEW t \in Tracer, asked' = asked, printed'[t] = printed[t], exitNum'[t] = exitNum[t], Printed(t),
         Len(printed[t]) # 0 => (pc'[t] \in Pending <=> pc[t] \in Pending), Len(printed[t]) \in Nat,
         tracee[t] = "killed" => tracee'[t] = "killed" /\ (pc'[t] = "print" => pc[t] = "print")
  PROVE  Printed(t)'
<1>1. ASSUME NEW k \in 1 .. Len(printed[t])
      PROVE  /\ RightLine(t, k, printed[t][k], Lost(t, k))'
             /\ (printed[t][k].result = <<>> <=> (k = Len(printed[t]) /\ pc[t] \in Pending))'
  <2>1. RightLine(t, k, printed[t][k], Lost(t, k)) /\ (Lost(t, k) => Lost(t, k)')
    BY DEF Printed, Lost
  <2>2. RightLine(t, k, printed[t][k], Lost(t, k))'
    BY <2>1 DEF RightLine, Result
  <2>. QED
    BY <2>2 DEF Printed
<1>. QED
  BY <1>1 DEF Printed

\* What a step of t does to others.
LEMMA OtherTracers ==
  ASSUME CompileTypeOK, TracerTypeOK, NEW t \in Tracer,
         TracerStep(t) \/ TraceeStep(t) \/ Kill(t) \/ Interrupt(t),
         NEW u \in Tracer, u # t
  PROVE  /\ asked' = asked /\ pc'[u] = pc[u] /\ tracee'[u] = tracee[u] /\ made'[u] = made[u]
         /\ printed'[u] = printed[u] /\ exitNum'[u] = exitNum[u]
<1>. USE DEF CompileTypeOK, TracerTypeOK, compileVars, traceeVars
<1>1. CASE Nothing(t) \/ OpenToLoad(t) \/ Extract(t) \/ Truncate(t) \/ Interrupt(t)
  BY <1>1 DEF Nothing, OpenToLoad, Extract, Truncate, Interrupt
<1>2. CASE Load(t) \/ EndOfCache(t) \/ Throw(t) \/ EndInLine(t) \/ ReadOn(t) \/ WriteLine(t)
  BY <1>2 DEF Load, EndOfCache, Throw, EndInLine, ReadOn, WriteLine
<1>3. CASE ForkTracee(t) \/ Begin(t) \/ Resume(t)
  BY <1>3 DEF ForkTracee, Begin, Resume
<1>4. CASE printSyscall(t)
  BY <1>4 DEF printSyscall, DiesAfter
<1>5. CASE RunOutOfMemory(t) \/ EnterAgain(t) \/ LeaveAgain(t) \/ ProgramExited(t) \/ EntryStop(t) \/ ExitStop(t)
  BY <1>5 DEF RunOutOfMemory, EnterAgain, LeaveAgain, ProgramExited, EntryStop, ExitStop
<1>6. CASE endSyscall(t)
  BY <1>6 DEF endSyscall
<1>7. CASE TraceeStep(t) \/ Kill(t)
  BY <1>7 DEF TraceeStep, EnterCall, ReturnOrExit, GetSignal, Kill
<1>. QED
  BY <1>1, <1>2, <1>3, <1>4, <1>5, <1>6, <1>7 DEF TracerStep

LEMMA DefinedIsString ==
  ASSUME NEW lines \in Seq([name : STRING, number : Nat]), NEW number
  PROVE  Defined(lines, number) \in Text
<1>. DEFINE I == {i \in 1 .. Len(lines) : lines[i].number = number}
<1>1. SelectLastInSeq(lines, LAMBDA l : l.number = number) = IF I # {} THEN Max(I) ELSE 0
  BY DEF SelectLastInSeq
<1>2. CASE I = {}
  <2>1. SelectLastInSeq(lines, LAMBDA l : l.number = number) = 0
    BY <1>1, <1>2
  <2>. HIDE DEF I
  <2>. QED
    BY <2>1 DEF Defined, Text
<1>3. CASE I # {}
  <2>1. I \subseteq 1 .. Len(lines) /\ Len(lines) \in Nat
    OBVIOUS
  <2>2. Max(I) \in 1 .. Len(lines)
    <3>. HIDE DEF I
    <3>1. Max(I) \in I
      BY <1>3, <2>1, LastPosition
    <3>. QED
      BY <2>1, <3>1
  <2>3. lines[Max(I)] \in [name : STRING, number : Nat]
    <3>. HIDE DEF I
    <3>. QED
      BY <2>2, ElementOfSeq, Zenon
  <2>4. SelectLastInSeq(lines, LAMBDA l : l.number = number) = Max(I) /\ Max(I) # 0
    BY <1>1, <1>3, <2>2
  <2>. HIDE DEF I
  <2>. QED
    BY <2>3, <2>4 DEF Defined, Text
<1>. QED
  BY <1>2, <1>3

LEMMA ResultType ==
  ASSUME NEW t, NEW ret \in Int
  PROVE  Result(t, ret) \in Seq(Int \cup Text) /\ Result(t, ret) # <<>>
<1>1. errConsts(-ret) \in Text
  <2>1. ErrorLines \in Seq([name : STRING, number : Nat])
    BY TraceAssumption, Zenon
  <2>. QED
    BY <2>1, DefinedIsString, Zenon DEF errConsts
<1>2. <<-1, errConsts(-ret)>> \in Seq(Int \cup Text) /\ <<-1, errConsts(-ret)>> # <<>>
  BY <1>1
<1>3. <<ret>> \in Seq(Int \cup Text) /\ <<ret>> # <<>>
  OBVIOUS
<1>. QED
  BY <1>2, <1>3 DEF Result

\* A call has an argument for every parameter that the tracer knows of it.
LEMMA SigTypes ==
  ASSUME CompileInv, NEW t \in Tracer, NEW reads
  PROVE  Sig(t, reads) \in Signatures /\ Len(Sig(t, reads)) \in Nat
<1>1. \A name : Lookup(sigs[t], name) \in Signatures
  <2>1. PICK D \in SUBSET ToSet(Names) : sigs[t] \in [D -> Signatures]
    BY DEF CompileInv, CompileTypeOK, Maps
  <2>2. <<>> \in Signatures
    BY DEF Signatures
  <2>. QED
    BY <2>1, <2>2 DEF Lookup
<1>2. Sig(t, reads) \in Signatures
  <2>1. <<>> \in Signatures
    BY DEF Signatures
  <2>. QED
    BY <1>1, <2>1 DEF Sig
<1>. QED
  BY <1>2 DEF Signatures

LEMMA SigFits ==
  ASSUME CompileInv, NEW t \in Tracer, made[t] \in 1 .. Len(asked[t].calls), tracee[t] = "entry",
         NEW reads \in 1 .. AllReads
  PROVE  LET call == asked[t].calls[made[t]]
         IN  /\ Call(t) = call /\ Number(t, reads) = call.num
             /\ Len(Sig(t, reads)) <= Len(call.args) /\ Len(Sig(t, reads)) <= 6
<1>. DEFINE call == asked[t].calls[made[t]]
            name == syscallNums(call.num)
<1>1. Call(t) = call
  BY DEF Call
<1>2. call \in [num : Nat, args : Seq(Int), ret : Int] /\ Len(call.args) \in Nat
  BY CallFacts DEF CompileInv
<1>3. Number(t, reads) = call.num
  BY <1>1 DEF Number, Peek
<1>4. CASE asked[t].simple \/ name \notin DOMAIN sigs[t]
  <2>1. Sig(t, reads) = <<>>
    BY <1>3, <1>4 DEF Sig, Lookup
  <2>. QED
    BY <1>1, <1>2, <1>3, <2>1
<1>5. CASE ~asked[t].simple /\ name \in DOMAIN sigs[t]
  <2>1. Sig(t, reads) = sigs[t][name]
    BY <1>3, <1>5 DEF Sig, Lookup
  <2>6. sigs[t] \in KnownMaps(misread[t])
    BY DEF CompileInv, CompileTypeOK
  <2>7. HasParameters(name, sigs[t][name])
    BY <1>5, <2>6 DEF KnownMaps
  <2>2. PICK m \in 1 .. Len(Macros) : Macros[m].name = name /\ Len(sigs[t][name]) = Len(Macros[m].types)
    BY <2>7 DEF HasParameters, IsFirst
  <2>3. Len(Macros[m].types) <= Len(call.args)
    BY <2>2, CallFacts DEF CompileInv
  <2>4. Len(Macros[m].types) <= 6
    <3>1. Macros \in Seq([name : STRING, types : Seq(STRING)]) /\ \A x \in ToSet(Macros) : Len(x.types) <= 6
      BY TraceAssumption, Zenon
    <3>2. Macros[m] \in ToSet(Macros)
      BY <3>1 DEF ToSet
    <3>. QED
      BY <3>1, <3>2
  <2>. HIDE DEF name
  <2>. QED
    BY <1>1, <1>3, <2>1, <2>2, <2>3, <2>4
<1>. QED
  BY <1>4, <1>5

\* What is read of the call whose line is printed: what the call has, or, if the
\* process dies meanwhile, -1.
LEMMA WhatIsRead ==
  ASSUME CompileInv, NEW t \in Tracer, made[t] \in 1 .. Len(asked[t].calls),
         tracee[t] \in {"entry", "killed"}, NEW reads \in Reads(t)
  PROVE  LET call == asked[t].calls[made[t]]
         IN  /\ Number(t, reads) \in Int
             /\ Number(t, reads) = call.num \/ (reads < AllReads /\ Number(t, reads) = -1)
             /\ Args(t, reads) \in Seq(Types \X Int)
             /\ \A i \in 1 .. Len(Args(t, reads)) :
                  \/ Args(t, reads)[i][2] = call.args[i]
                  \/ reads < AllReads /\ Args(t, reads)[i][2] = -1
             /\ reads \in 0 .. AllReads /\ (reads = AllReads => tracee[t] = "entry")
<1>. DEFINE call == asked[t].calls[made[t]]
            sig == Sig(t, reads)
            Value(i) == Peek(reads, 2 + i, Call(t).args[i])
<1>0. reads \in 0 .. AllReads /\ (reads # 0 => tracee[t] = "entry")
  BY DEF Reads, AllReads
<1>1. call \in [num : Nat, args : Seq(Int), ret : Int]
  BY CallFacts DEF CompileInv
<1>2. sig \in Signatures /\ Len(sig) \in Nat
  BY SigTypes
<1>3. /\ Number(t, reads) \in Int
      /\ Number(t, reads) = call.num \/ (reads < AllReads /\ Number(t, reads) = -1)
  <2>1. CASE reads = 0
    BY <2>1 DEF Number, Peek, AllReads
  <2>2. CASE reads # 0
    <3>2. reads \in 1 .. AllReads /\ tracee[t] = "entry"
      BY <1>0, <2>2 DEF AllReads
    <3>1. Number(t, reads) = call.num
      BY <3>2, SigFits
    <3>. QED
      BY <1>1, <3>1
  <2>. QED
    BY <2>1, <2>2
<1>4. ASSUME NEW i \in 1 .. Len(sig)
      PROVE  /\ Value(i) \in Int
             /\ Value(i) = call.args[i] \/ (reads < AllReads /\ Value(i) = -1)
  <2>1. CASE reads = 0
    <3>1. Value(i) = -1
      BY <1>2, <2>1 DEF Peek
    <3>. QED
      BY <2>1, <3>1 DEF AllReads
  <2>2. CASE reads # 0
    <3>3. reads \in 1 .. AllReads /\ tracee[t] = "entry"
      BY <1>0, <2>2 DEF AllReads
    <3>1. Call(t) = call /\ Len(sig) <= Len(call.args) /\ Len(sig) <= 6
      BY <3>3, SigFits
    <3>4. i \in Nat /\ i <= Len(sig) /\ Len(sig) \in Nat
      <4>. HIDE DEF sig
      <4>. QED
        BY <1>2
    <3>5. 2 + i <= 8
      <4>. HIDE DEF sig, call
      <4>. QED
        BY <3>1, <3>4
    <3>6. call.args \in Seq(Int)
      BY <1>1
    <3>2. call.args[i] \in Int /\ 2 + i <= 8
      <4>. HIDE DEF sig, call
      <4>. QED
        BY <3>1, <3>4, <3>5, <3>6
    <3>. HIDE DEF call, sig
    <3>. QED
      BY <1>0, <3>1, <3>2 DEF Peek, AllReads
  <2>. QED
    BY <2>1, <2>2
<1>5. \A i \in 1 .. Len(sig) : sig[i] \in Types
  BY <1>2 DEF Signatures
<1>. HIDE DEF sig, Value, call
<1>6. Args(t, reads) = [i \in 1 .. Len(sig) |-> <<sig[i], Value(i)>>]
  BY DEF Args, sig, Value
<1>7. Args(t, reads) \in [1 .. Len(sig) -> Types \X Int]
  BY <1>4, <1>5, <1>6
<1>8. Args(t, reads) \in Seq(Types \X Int) /\ Len(Args(t, reads)) = Len(sig)
  BY <1>2, <1>7
<1>9. \A i \in 1 .. Len(sig) : Args(t, reads)[i][2] = Value(i)
  BY <1>6
<1>10. \A i \in 1 .. Len(Args(t, reads)) :
         Args(t, reads)[i][2] = call.args[i] \/ (reads < AllReads /\ Args(t, reads)[i][2] = -1)
  BY <1>4, <1>8, <1>9
<1>. QED
  BY <1>0, <1>3, <1>8, <1>10 DEF call, AllReads

\* The call that is at its entry when its line is printed.
LEMMA AtEntry ==
  ASSUME CompileInv, TracerInv, NEW t \in Tracer, pc[t] = "print"
  PROVE  /\ tracee[t] \in {"entry", "killed"} /\ made[t] = Len(printed[t]) + 1
         /\ made[t] \in 1 .. Len(asked[t].calls) /\ Len(printed[t]) \in Nat
<1>1. tracee[t] \in {"entry", "killed"}
  BY DEF TracerInv, InStep
<1>2. made[t] = Len(printed[t]) + 1 /\ made[t] <= Len(asked[t].calls) /\ Len(printed[t]) \in Nat
  BY DEF TracerInv, Counted, TracerTypeOK
<1>. QED
  BY <1>1, <1>2, CallFacts DEF CompileInv

\* The call that is at its exit when its result is printed.
LEMMA AtExit ==
  ASSUME CompileInv, TracerInv, NEW t \in Tracer, pc[t] \in {"leavewait", "result"}
  PROVE  /\ tracee[t] \in {"kernel", "exit", "exited", "killed"}
         /\ pc[t] = "result" => tracee[t] \in {"exit", "killed"}
         /\ made[t] = Len(printed[t]) /\ made[t] \in 1 .. Len(asked[t].calls)
<1>1. /\ tracee[t] \in {"kernel", "exit", "exited", "killed"}
      /\ pc[t] = "result" => tracee[t] \in {"exit", "killed"}
  BY DEF TracerInv, InStep
<1>2. made[t] = Len(printed[t]) /\ made[t] # 0 /\ made[t] <= Len(asked[t].calls) /\ made[t] \in Nat
  BY DEF TracerInv, Counted, TracerTypeOK, Pending
<1>. QED
  BY <1>1, <1>2, CallFacts DEF CompileInv

\* What endSyscall does to the lines printed.
LEMMA EndSyscallLines ==
  ASSUME CompileInv, TracerInv, NEW t \in Tracer, endSyscall(t)
  PROVE  LET n == Len(printed[t])
             r == Result(t, IF tracee[t] = "killed" THEN -1 ELSE asked[t].calls[n].ret)
             new == printed'[t]
         IN  /\ n \in 1 .. Len(asked[t].calls) /\ tracee[t] \in {"exit", "killed"}
             /\ printed' \in [Tracer -> Seq(Reports)] /\ Len(new) = n
             /\ r # <<>> /\ new[n].result = r
             /\ new[n].num = printed[t][n].num /\ new[n].args = printed[t][n].args
             /\ \A k \in 1 .. n : k # n => new[k] = printed[t][k]
<1>. DEFINE n == Len(printed[t])
            call == asked[t].calls[n]
            ret == IF tracee[t] = "killed" THEN -1 ELSE call.ret
            r == Result(t, ret)
            line == [num |-> printed[t][n].num, args |-> printed[t][n].args, result |-> r]
            lines == [k \in 1 .. n |-> IF k = n THEN line ELSE printed[t][k]]
<1>1. pc[t] = "result" /\ tracee[t] \in {"exit", "killed"}
  BY AtExit DEF endSyscall
<1>2. made[t] = n /\ n \in 1 .. Len(asked[t].calls)
  BY <1>1, AtExit
<1>3. tracee[t] = "killed" \/ Call(t) = call
  BY <1>1, <1>2 DEF Call
<1>4. r \in Seq(Int \cup Text) /\ r # <<>>
  <2>1. call \in [num : Nat, args : Seq(Int), ret : Int]
    BY <1>2, CallFacts DEF CompileInv
  <2>2. ret \in Int
    BY <2>1
  <2>. HIDE DEF ret
  <2>. QED
    BY <2>2, ResultType
<1>5. printed[t] \in Seq(Reports) /\ n \in Nat /\ n # 0
  BY <1>2 DEF TracerInv, TracerTypeOK
<1>6. printed[t][n] \in Reports
  BY <1>2, <1>5
<1>7. line \in Reports
  BY <1>4, <1>6 DEF Reports
<1>8. [printed[t][n] EXCEPT !.result = r] = line
  BY <1>6 DEF Reports
<1>9. printed' = [printed EXCEPT ![t] = [printed[t] EXCEPT ![n] = line]]
  <2>1. printed' = [printed EXCEPT ![t][n].result = r]
    BY <1>3 DEF endSyscall
  <2>. HIDE DEF n, r, line
  <2>2. [printed EXCEPT ![t][n].result = r]
          = [printed EXCEPT ![t] = [printed[t] EXCEPT ![n] = [printed[t][n] EXCEPT !.result = r]]]
    BY Zenon
  <2>. QED
    BY <1>8, <2>1, <2>2, Zenon
<1>10. [printed[t] EXCEPT ![n] = line] = lines
  BY <1>5
<1>11. lines \in Seq(Reports) /\ Len(lines) = n
  <2>. HIDE DEF n, line
  <2>1. lines \in [1 .. n -> Reports]
    <3>1. \A k \in 1 .. n : printed[t][k] \in Reports
      BY <1>5, ElementOfSeq, Zenon DEF n
    <3>. QED
      BY <1>7, <3>1
  <2>. HIDE DEF lines
  <2>. QED
    BY <1>5, <2>1
<1>12. printed' \in [Tracer -> Seq(Reports)] /\ printed'[t] = lines
  <2>. HIDE DEF lines
  <2>. QED
    BY <1>9, <1>10, <1>11 DEF TracerInv, TracerTypeOK
<1>13. lines[n] = line /\ \A k \in 1 .. n : k # n => lines[k] = printed[t][k]
  BY <1>5
<1>14. line.num = printed[t][n].num /\ line.args = printed[t][n].args /\ line.result = r
  OBVIOUS
<1>. HIDE DEF lines, line, r
<1>. QED
  BY <1>1, <1>2, <1>4, <1>11, <1>12, <1>13, <1>14 DEF r

\* What printSyscall does to the lines printed.
LEMMA PrintSyscallLines ==
  ASSUME CompileInv, TracerInv, NEW t \in Tracer, printSyscall(t)
  PROVE  LET n == Len(printed[t]) + 1
             call == asked[t].calls[n]
             new == printed'[t]
             died == tracee'[t] = "killed"
         IN  /\ n \in 1 .. Len(asked[t].calls) /\ made[t] = n
             /\ tracee' \in [Tracer -> {"none", "signal", "user", "entry", "kernel", "exit", "exited", "killed", "free"}]
             /\ died \/ (tracee[t] = "entry" /\ tracee'[t] = "entry")
             /\ printed' \in [Tracer -> Seq(Reports)] /\ Len(new) = n /\ new[n].result = <<>>
             /\ new[n].num = call.num \/ (died /\ new[n].num = -1)
             /\ \A i \in 1 .. Len(new[n].args) :
                  new[n].args[i][2] = call.args[i] \/ (died /\ new[n].args[i][2] = -1)
             /\ \A k \in 1 .. Len(printed[t]) : new[k] = printed[t][k]
             /\ ~died /\ syscallNums(call.num) = "exit_group" => exitNum'[t] = call.args[1]
<1>. DEFINE n == Len(printed[t]) + 1
            call == asked[t].calls[n]
            died == tracee'[t] = "killed"
<1>1. PICK reads \in Reads(t) :
        /\ printed' = [printed EXCEPT ![t] =
             Append(@, [num |-> Number(t, reads), args |-> Args(t, reads), result |-> <<>>])]
        /\ exitNum' = [exitNum EXCEPT ![t] =
             IF syscallNums(Number(t, reads)) = "exit_group" THEN Peek(reads, 2, Call(t).args[1]) ELSE @]
        /\ DiesAfter(t, reads)
  BY DEF printSyscall
<1>. DEFINE line == [num |-> Number(t, reads), args |-> Args(t, reads), result |-> <<>>]
<1>2. /\ tracee[t] \in {"entry", "killed"} /\ made[t] = n /\ n \in 1 .. Len(asked[t].calls)
      /\ Len(printed[t]) \in Nat
  BY AtEntry DEF printSyscall
<1>3. /\ Number(t, reads) \in Int
      /\ Number(t, reads) = call.num \/ (reads < AllReads /\ Number(t, reads) = -1)
      /\ Args(t, reads) \in Seq(Types \X Int)
      /\ \A i \in 1 .. Len(Args(t, reads)) :
           \/ Args(t, reads)[i][2] = call.args[i]
           \/ reads < AllReads /\ Args(t, reads)[i][2] = -1
      /\ reads \in 0 .. AllReads /\ (reads = AllReads => tracee[t] = "entry")
  <2>. HIDE DEF n
  <2>1. made[t] \in 1 .. Len(asked[t].calls) /\ call = asked[t].calls[made[t]]
    BY <1>2
  <2>. HIDE DEF call
  <2>. QED
    BY <1>2, <2>1, WhatIsRead
<1>4. /\ reads < AllReads => died
      /\ died \/ (tracee[t] = "entry" /\ tracee'[t] = "entry")
      /\ tracee' \in [Tracer -> {"none", "signal", "user", "entry", "kernel", "exit", "exited", "killed", "free"}]
  BY <1>1, <1>2, <1>3 DEF DiesAfter, AllReads, TracerInv, TracerTypeOK
<1>5. printed[t] \in Seq(Reports)
  BY DEF TracerInv, TracerTypeOK
<1>6. line \in Reports
  <2>1. <<>> \in Seq(Int \cup Text)
    OBVIOUS
  <2>. QED
    BY <1>3, <2>1 DEF Reports
<1>7. ASSUME ~died, syscallNums(call.num) = "exit_group" PROVE exitNum'[t] = call.args[1]
  <2>1. reads = AllReads /\ tracee[t] = "entry"
    BY <1>3, <1>4, <1>7 DEF AllReads
  <2>2. Call(t) = call /\ Number(t, reads) = call.num
    BY <1>2, <1>3, <2>1 DEF Call, AllReads
  <2>. HIDE DEF call
  <2>. QED
    BY <1>1, <1>7, <2>1, <2>2 DEF Peek, AllReads, TracerInv, TracerTypeOK
<1>8. line.num = Number(t, reads) /\ line.result = <<>> /\ line.args = Args(t, reads)
  OBVIOUS
<1>9. printed' = [printed EXCEPT ![t] = Append(printed[t], line)]
  BY <1>1
<1>. HIDE DEF line, call
<1>10. /\ Append(printed[t], line) \in Seq(Reports) /\ Len(Append(printed[t], line)) = n
       /\ Append(printed[t], line)[n] = line
       /\ \A k \in 1 .. Len(printed[t]) : Append(printed[t], line)[k] = printed[t][k]
  BY <1>5, <1>6
<1>11. printed' \in [Tracer -> Seq(Reports)] /\ printed'[t] = Append(printed[t], line)
  BY <1>9, <1>10 DEF TracerInv, TracerTypeOK
<1>12. /\ line.num = call.num \/ (died /\ line.num = -1)
       /\ \A i \in 1 .. Len(line.args) : line.args[i][2] = call.args[i] \/ (died /\ line.args[i][2] = -1)
  BY <1>3, <1>4, <1>8
<1>. HIDE DEF n
<1>. QED
  BY <1>2, <1>4, <1>7, <1>8, <1>10, <1>11, <1>12 DEF call, n

LEMMA TracerTypeStep == CompileInv /\ TracerInv /\ [Next]_vars => TracerTypeOK'
<1>. SUFFICES ASSUME CompileInv, TracerInv, [Next]_vars PROVE TracerTypeOK'
  OBVIOUS
<1>. USE DEF TracerInv, TracerTypeOK, compileVars, traceeVars
<1>1. ASSUME NEW t \in Tracer, Nothing(t) \/ OpenToLoad(t) \/ Extract(t) \/ Truncate(t) \/ Interrupt(t)
      PROVE  TracerTypeOK'
  BY <1>1 DEF Nothing, OpenToLoad, Extract, Truncate, Interrupt
<1>2. ASSUME NEW t \in Tracer, Load(t) \/ EndOfCache(t) \/ Throw(t) \/ EndInLine(t) \/ ReadOn(t) \/ WriteLine(t)
      PROVE  TracerTypeOK'
  BY <1>2 DEF Load, EndOfCache, Throw, EndInLine, ReadOn, WriteLine
<1>3. ASSUME NEW t \in Tracer, ForkTracee(t) \/ Begin(t) PROVE TracerTypeOK'
  BY <1>3 DEF ForkTracee, Begin
<1>4. ASSUME NEW t \in Tracer, Resume(t) PROVE TracerTypeOK'
  BY <1>4 DEF Resume
<1>5. ASSUME NEW t \in Tracer, printSyscall(t) PROVE TracerTypeOK'
  <2>1. /\ printed' \in [Tracer -> Seq(Reports)]
        /\ tracee' \in [Tracer -> {"none", "signal", "user", "entry", "kernel", "exit", "exited", "killed", "free"}]
    BY <1>5, PrintSyscallLines
  <2>. QED
    BY <1>5, <2>1 DEF printSyscall
<1>6. ASSUME NEW t \in Tracer,
             \/ RunOutOfMemory(t) \/ EnterAgain(t) \/ LeaveAgain(t) \/ ProgramExited(t)
             \/ EntryStop(t) \/ ExitStop(t)
      PROVE  TracerTypeOK'
  BY <1>6 DEF RunOutOfMemory, EnterAgain, LeaveAgain, ProgramExited, EntryStop, ExitStop
<1>7. ASSUME NEW t \in Tracer, endSyscall(t) PROVE TracerTypeOK'
  <2>1. printed' \in [Tracer -> Seq(Reports)]
    BY <1>7, EndSyscallLines
  <2>. QED
    BY <1>7, <2>1 DEF endSyscall
<1>8. ASSUME NEW t \in Tracer, TraceeStep(t) \/ Kill(t) PROVE TracerTypeOK'
  <2>1. CASE EnterCall(t)
    BY <2>1 DEF EnterCall
  <2>2. CASE ReturnOrExit(t)
    BY <2>2 DEF ReturnOrExit
  <2>3. CASE GetSignal(t) \/ Kill(t)
    BY <2>3 DEF GetSignal, Kill
  <2>. QED
    BY <1>8, <2>1, <2>2, <2>3 DEF TraceeStep
<1>9. CASE UNCHANGED traceVars
  BY <1>9 DEF traceVars
<1>. QED
  BY <1>1, <1>2, <1>3, <1>4, <1>5, <1>6, <1>7, <1>8, <1>9 DEF Next, TraceNext, TracerStep, vars

\* Before the program is started nothing is counted or printed.
LEMMA BeforeProgram ==
  ASSUME CompileInv, TracerInv, NEW t \in Tracer,
         \/ Nothing(t) \/ OpenToLoad(t) \/ Load(t) \/ EndOfCache(t) \/ Throw(t) \/ EndInLine(t) \/ ReadOn(t)
         \/ Extract(t) \/ Truncate(t) \/ WriteLine(t) \/ Interrupt(t) \/ ForkTracee(t)
  PROVE  InStep(t)' /\ Counted(t)' /\ Printed(t)'
<1>1. /\ UNCHANGED <<asked, made, printed, exitNum>>
      /\ pc[t] \in Before /\ pc'[t] \in Before \cup {"begin", "end"}
      /\ pc'[t] = "end" => asked[t].calls = <<>>
      /\ pc'[t] \notin {"main", "end"} => asked[t].calls # <<>>
      /\ tracee'[t] = IF pc'[t] = "begin" THEN "signal" ELSE tracee[t]
  <2>. USE DEF CompileInv, CompileTypeOK, TracerInv, TracerTypeOK, compileVars, traceeVars, Before, Counted
  <2>1. CASE Nothing(t) \/ OpenToLoad(t) \/ Extract(t) \/ Truncate(t) \/ Interrupt(t)
    BY <2>1 DEF Nothing, OpenToLoad, Extract, Truncate, Interrupt
  <2>2. CASE Load(t) \/ EndOfCache(t) \/ Throw(t) \/ EndInLine(t) \/ ReadOn(t)
    BY <2>2 DEF Load, EndOfCache, Throw, LosesTheRest, EndInLine, ReadOn
  <2>3. CASE WriteLine(t)
    BY <2>3 DEF WriteLine
  <2>4. CASE ForkTracee(t)
    BY <2>4 DEF ForkTracee
  <2>. QED
    BY <2>1, <2>2, <2>3, <2>4
<1>2. tracee[t] = "none" /\ made[t] = 0 /\ Len(printed[t]) = 0 /\ Len(asked[t].calls) \in Nat
  BY <1>1, CallFacts DEF TracerInv, TracerTypeOK, InStep, Counted, CompileInv
<1>3. asked[t].calls # <<>> => Len(asked[t].calls) # 0
  BY CallFacts DEF CompileInv, Calls
<1>4. InStep(t)'
  BY <1>1, <1>2 DEF InStep, Before
<1>5. Counted(t)'
  BY <1>1, <1>2, <1>3 DEF Counted, Before
<1>6. Printed(t)'
  BY <1>1, <1>2 DEF Printed
<1>. QED
  BY <1>4, <1>5, <1>6

\* A string that is not there is an argument that cannot be read.
LEMMA MemoryIsExhausted ==
  ASSUME CompileInv, TracerInv, NEW t \in Tracer, RunOutOfMemory(t)
  PROVE  tracee'[t] = "killed" \/ (tracee'[t] = "free" /\ Unreadable(t))
<1>. DEFINE call == asked[t].calls[made[t]]
<1>1. PICK reads \in Reads(t) :
        /\ \E i \in Strings(t, reads) : reads <= 2 + i \/ Call(t).args[i] \notin Readable
        /\ tracee' = [tracee EXCEPT ![t] = IF reads < AllReads THEN "killed" ELSE "free"]
  BY DEF RunOutOfMemory
<1>2. made[t] \in 1 .. Len(asked[t].calls) /\ tracee[t] \in {"entry", "killed"}
  BY AtEntry DEF RunOutOfMemory
<1>3. CASE reads < AllReads
  BY <1>1, <1>3 DEF TracerInv, TracerTypeOK
<1>4. CASE ~(reads < AllReads)
  <2>1. reads = AllReads /\ tracee[t] = "entry" /\ reads \in 1 .. AllReads
    BY <1>2, <1>4 DEF Reads, AllReads
  <2>2. Call(t) = call /\ Len(Sig(t, reads)) <= Len(call.args) /\ Len(Sig(t, reads)) <= 6
    BY <1>2, <2>1, SigFits
  <2>3. Len(Sig(t, reads)) \in Nat /\ call.args \in Seq(Int)
    BY <1>2, SigTypes, CallFacts DEF CompileInv
  <2>4. PICK i \in 1 .. Len(Sig(t, reads)) : reads <= 2 + i \/ Call(t).args[i] \notin Readable
    BY <1>1 DEF Strings
  <2>. HIDE DEF call
  <2>5. call.args[i] \notin Readable /\ i \in DOMAIN call.args
    BY <2>1, <2>2, <2>3, <2>4 DEF AllReads
  <2>6. ~ToSet(call.args) \subseteq Readable
    BY <2>5 DEF ToSet
  <2>7. tracee'[t] = "free"
    BY <1>1, <1>4 DEF TracerInv, TracerTypeOK
  <2>. QED
    BY <1>2, <2>6, <2>7 DEF Unreadable, call
<1>. QED
  BY <1>3, <1>4

\* While nothing is printed the loop and the process stay in step.
LEMMA SilentSteps ==
  ASSUME CompileInv, TracerInv, NEW t \in Tracer,
         \/ Begin(t) \/ Resume(t) \/ EntryStop(t) \/ RunOutOfMemory(t) \/ EnterAgain(t)
         \/ ExitStop(t) \/ ProgramExited(t) \/ LeaveAgain(t)
         \/ TraceeStep(t) \/ Kill(t)
  PROVE  InStep(t)' /\ Counted(t)' /\ Printed(t)'
<1>. DEFINE n == Len(printed[t])  calls == asked[t].calls
<1>1. /\ n \in Nat /\ made[t] \in Nat /\ Len(calls) \in Nat /\ InStep(t) /\ Counted(t) /\ Printed(t)
      /\ pc[t] \in Later \cup Early \cup {"cache", "interrupted", "threw"}
      /\ t \in DOMAIN pc /\ t \in DOMAIN tracee /\ t \in DOMAIN made
      /\ (calls = <<>> <=> Len(calls) = 0)
  BY CallFacts DEF TracerInv, TracerTypeOK, CompileInv, CompileTypeOK, Calls
<1>. USE DEF compileVars, traceeVars
<1>2. CASE Begin(t)
  <2>1. /\ UNCHANGED <<asked, made, tracee, printed, exitNum>>
        /\ pc[t] = "begin" /\ pc'[t] = IF tracee[t] = "signal" THEN "enter" ELSE "aborted"
    BY <1>1, <1>2 DEF Begin
  <2>2. n = 0
    BY <1>1, <2>1 DEF Counted
  <2>3. InStep(t)'
    BY <1>1, <2>1 DEF InStep, Before
  <2>4. Counted(t)'
    BY <1>1, <2>1, <2>2 DEF Counted, Before, Pending
  <2>5. Printed(t)'
    BY <2>1, <2>2 DEF Printed
  <2>. QED
    BY <2>3, <2>4, <2>5
<1>3. CASE Resume(t)
  <2>1. /\ UNCHANGED <<asked, made, printed, exitNum>>
        /\ pc[t] \in {"enter", "leave"} /\ pc'[t] = IF pc[t] = "enter" THEN "enterwait" ELSE "leavewait"
        /\ tracee'[t] = CASE tracee[t] \in {"signal", "exit"} -> "user"
                          [] tracee[t] = "entry" -> "kernel"
                          [] OTHER -> tracee[t]
    BY <1>1, <1>3 DEF Resume, Waiting
  <2>2. InStep(t)'
    BY <1>1, <2>1 DEF InStep, Before
  <2>3. Counted(t)'
    BY <1>1, <2>1 DEF Counted, InStep, Before, Pending
  <2>4. Printed(t)'
    BY <1>1, <2>1, SamePrinted DEF Pending
  <2>. QED
    BY <2>2, <2>3, <2>4
<1>4. CASE RunOutOfMemory(t)
  <2>1. /\ UNCHANGED <<asked, made, printed, exitNum>>
        /\ pc[t] = "print" /\ pc'[t] = "aborted"
    BY <1>1, <1>4 DEF RunOutOfMemory
  <2>2. tracee'[t] = "killed" \/ (tracee'[t] = "free" /\ Unreadable(t))
    BY <1>4, MemoryIsExhausted
  <2>3. InStep(t)'
    BY <2>1, <2>2 DEF InStep, Before, Unreadable
  <2>4. Counted(t)'
    BY <1>1, <2>1, <2>2 DEF Counted, Before, Pending
  <2>6. tracee[t] = "killed" => tracee'[t] = "killed"
    BY <1>4 DEF RunOutOfMemory, Reads, AllReads, TracerInv, TracerTypeOK
  <2>5. Printed(t)'
    BY <1>1, <2>1, <2>6, SamePrinted DEF Pending
  <2>. QED
    BY <2>3, <2>4, <2>5
<1>5. CASE EnterAgain(t)
  <2>1. /\ UNCHANGED <<asked, tracee, made, printed, exitNum>>
        /\ pc[t] = "enterwait" /\ pc'[t] = "enter" /\ tracee[t] \notin {"user", "kernel", "entry", "exit"}
    BY <1>1, <1>5 DEF EnterAgain, Reported, IsCallStop
  <2>2. InStep(t)'
    BY <1>1, <2>1 DEF InStep, Before
  <2>3. Counted(t)'
    BY <1>1, <2>1 DEF Counted, InStep, Before, Pending
  <2>4. Printed(t)'
    BY <1>1, <2>1, SamePrinted DEF Pending
  <2>. QED
    BY <2>2, <2>3, <2>4
<1>6. CASE LeaveAgain(t)
  <2>1. /\ UNCHANGED <<asked, tracee, made, printed, exitNum>>
        /\ pc[t] = "leavewait" /\ pc'[t] = "leave"
        /\ tracee[t] \notin {"user", "kernel", "entry", "exit", "exited"}
    BY <1>1, <1>6 DEF LeaveAgain, Reported, IsCallStop
  <2>2. InStep(t)'
    BY <1>1, <2>1 DEF InStep, Before
  <2>3. Counted(t)'
    BY <1>1, <2>1 DEF Counted, Before, Pending
  <2>4. Printed(t)'
    BY <1>1, <2>1, SamePrinted DEF Pending
  <2>. QED
    BY <2>2, <2>3, <2>4
<1>7. CASE ProgramExited(t)
  <2>1. /\ UNCHANGED <<asked, tracee, made, printed, exitNum>>
        /\ pc[t] = "leavewait" /\ pc'[t] = "end" /\ tracee[t] = "exited"
    BY <1>1, <1>7 DEF ProgramExited, SeesExit
  <2>2. InStep(t)'
    BY <1>1, <2>1 DEF InStep, Counted, Before
  <2>3. Counted(t)'
    BY <1>1, <2>1 DEF Counted, Before, Pending
  <2>4. Printed(t)'
    BY <1>1, <2>1, SamePrinted DEF Pending
  <2>. QED
    BY <2>2, <2>3, <2>4
<1>8. CASE EnterCall(t)
  <2>1. /\ UNCHANGED <<asked, pc, printed, exitNum>>
        /\ tracee[t] = "user" /\ tracee'[t] = "entry" /\ made'[t] = made[t] + 1
    BY <1>1, <1>8 DEF EnterCall
  <2>2. pc[t] = "enterwait" /\ made[t] = n /\ made[t] < Len(calls)
    <3>1. pc[t] = "enterwait"
      BY <1>1, <2>1 DEF InStep, Before, Later, Early
    <3>. QED
      BY <1>1, <2>1, <3>1 DEF Counted
  <2>3. InStep(t)'
    BY <1>1, <2>1, <2>2 DEF InStep, Before
  <2>4. Counted(t)'
    BY <1>1, <2>1, <2>2 DEF Counted, Before, Pending
  <2>5. Printed(t)'
    BY <1>1, <2>1, SamePrinted
  <2>. QED
    BY <2>3, <2>4, <2>5
<1>9. CASE ReturnOrExit(t)
  <2>1. /\ UNCHANGED <<asked, pc, made, printed, exitNum>>
        /\ tracee[t] = "kernel" /\ tracee'[t] = IF IsExit(Call(t).num) THEN "exited" ELSE "exit"
    BY <1>1, <1>9 DEF ReturnOrExit
  <2>2. pc[t] = "leavewait" /\ made[t] = n /\ made[t] \in 1 .. Len(calls)
    <3>1. pc[t] = "leavewait"
      BY <1>1, <2>1 DEF InStep, Before, Later, Early
    <3>. QED
      BY <3>1, AtExit
  <2>3. Call(t) = calls[made[t]]
    BY <2>1 DEF Call
  <2>4. IsExit(Call(t).num) <=> made[t] = Len(calls)
    BY <2>2, <2>3, CallFacts DEF CompileInv
  <2>5. InStep(t)'
    BY <1>1, <2>1, <2>2 DEF InStep, Before
  <2>6. Counted(t)'
    BY <1>1, <2>1, <2>2, <2>4 DEF Counted, Before, Pending
  <2>7. Printed(t)'
    BY <1>1, <2>1, SamePrinted
  <2>. QED
    BY <2>5, <2>6, <2>7
<1>10. CASE GetSignal(t)
  <2>1. /\ UNCHANGED <<asked, pc, made, printed, exitNum>>
        /\ tracee[t] = "user" /\ tracee'[t] = "signal"
    BY <1>1, <1>10 DEF GetSignal
  <2>2. pc[t] = "enterwait"
    BY <1>1, <2>1 DEF InStep, Before, Later, Early
  <2>3. InStep(t)'
    BY <1>1, <2>1, <2>2 DEF InStep, Before
  <2>4. Counted(t)'
    BY <1>1, <2>1, <2>2 DEF Counted, Before, Pending
  <2>5. Printed(t)'
    BY <1>1, <2>1, SamePrinted
  <2>. QED
    BY <2>3, <2>4, <2>5
<1>11. CASE Kill(t)
  <2>1. /\ UNCHANGED <<asked, pc, made, printed, exitNum>>
        /\ tracee[t] \notin {"none", "exited"} /\ tracee'[t] = "killed"
    BY <1>1, <1>11 DEF Kill
  <2>2. pc[t] \notin Before \cup {"end"}
    BY <1>1, <2>1 DEF InStep
  <2>3. InStep(t)'
    BY <1>1, <2>1, <2>2 DEF InStep
  <2>4. Counted(t)'
    BY <1>1, <2>1, <2>2 DEF Counted
  <2>5. Printed(t)'
    BY <1>1, <2>1, SamePrinted
  <2>. QED
    BY <2>3, <2>4, <2>5
<1>12. CASE EntryStop(t)
  <2>1. /\ UNCHANGED <<asked, tracee, made, printed, exitNum>>
        /\ pc[t] = "enterwait" /\ pc'[t] = "print" /\ tracee[t] = "entry"
    BY <1>1, <1>12 DEF EntryStop, IsCallStop, InStep
  <2>2. InStep(t)'
    BY <1>1, <2>1 DEF InStep, Before
  <2>3. Counted(t)'
    BY <1>1, <2>1 DEF Counted, Before, Pending
  <2>4. Printed(t)'
    BY <1>1, <2>1, SamePrinted DEF Pending
  <2>. QED
    BY <2>2, <2>3, <2>4
<1>13. CASE ExitStop(t)
  <2>1. /\ UNCHANGED <<asked, tracee, made, printed, exitNum>>
        /\ pc[t] = "leavewait" /\ pc'[t] = "result" /\ tracee[t] = "exit"
    BY <1>1, <1>13 DEF ExitStop, IsCallStop, InStep
  <2>2. InStep(t)'
    BY <1>1, <2>1 DEF InStep, Before
  <2>3. Counted(t)'
    BY <1>1, <2>1 DEF Counted, Before, Pending
  <2>4. Printed(t)'
    BY <1>1, <2>1, SamePrinted DEF Pending
  <2>. QED
    BY <2>2, <2>3, <2>4
<1>. QED
  BY <1>12, <1>13, <1>2, <1>3, <1>4, <1>5, <1>6, <1>7, <1>8, <1>9, <1>10, <1>11 DEF TraceeStep

\* The line of a call at its entry is added to those of the calls before it.
LEMMA PrintSyscallStep ==
  ASSUME CompileInv, TracerInv, NEW t \in Tracer, printSyscall(t)
  PROVE  InStep(t)' /\ Counted(t)' /\ Printed(t)'
<1>. DEFINE n == Len(printed[t]) + 1
            calls == asked[t].calls
            old == printed[t]
            new == printed'[t]
            died == tracee'[t] = "killed"
<1>1. /\ n \in 1 .. Len(calls) /\ made[t] = n /\ Len(new) = n /\ new[n].result = <<>>
      /\ died \/ (tracee[t] = "entry" /\ tracee'[t] = "entry")
      /\ new[n].num = calls[n].num \/ (died /\ new[n].num = -1)
      /\ \A i \in 1 .. Len(new[n].args) :
           new[n].args[i][2] = calls[n].args[i] \/ (died /\ new[n].args[i][2] = -1)
      /\ \A k \in 1 .. Len(old) : new[k] = old[k]
      /\ ~died /\ syscallNums(calls[n].num) = "exit_group" => exitNum'[t] = calls[n].args[1]
  BY PrintSyscallLines
<1>2. /\ UNCHANGED <<asked, made>> /\ pc[t] = "print" /\ pc'[t] = "leave"
      /\ Len(old) \in Nat /\ Len(calls) \in Nat /\ Counted(t) /\ Printed(t)
  BY CallFacts DEF printSyscall, TracerInv, TracerTypeOK, CompileInv, CompileTypeOK
<1>3. InStep(t)'
  BY <1>1, <1>2 DEF InStep, Before
<1>4. Counted(t)'
  BY <1>1, <1>2 DEF Counted, Before, Pending
<1>5. Printed(t)'
  <2>1. ASSUME NEW k \in 1 .. n
        PROVE  RightLine(t, k, new[k], Lost(t, k)') /\ (new[k].result = <<>> <=> k = n)
    <3>1. CASE k = n
      <4>1. died => Lost(t, k)'
        BY <1>1, <1>2, <3>1 DEF Lost
      <4>. HIDE DEF n, new, died
      <4>. QED
        BY <1>1, <3>1, <4>1 DEF RightLine
    <3>2. CASE k # n
      <4>1. k \in 1 .. Len(old) /\ new[k] = old[k]
        BY <1>1, <1>2, <3>2
      <4>2. RightLine(t, k, old[k], Lost(t, k)) /\ ~Lost(t, k) /\ old[k].result # <<>>
        BY <1>2, <4>1 DEF Printed, Lost, Pending
      <4>3. RightLine(t, k, old[k], Lost(t, k)')
        <5>. HIDE DEF old
        <5>. QED
          BY <4>2 DEF RightLine
      <4>. HIDE DEF new, old, n
      <4>. QED
        BY <3>2, <4>1, <4>2, <4>3
    <3>. QED
      BY <3>1, <3>2
  <2>2. \A k \in 1 .. n : RightLine(t, k, printed[t][k], Lost(t, k))'
    <3>. HIDE DEF n
    <3>. QED
      BY <1>2, <2>1 DEF RightLine, Result
  <2>. HIDE DEF n
  <2>. QED
    BY <1>1, <1>2, <2>1, <2>2 DEF Printed, Pending
<1>. QED
  BY <1>3, <1>4, <1>5

\* The result is added to the line of the call that is at its exit.
LEMMA EndSyscallStep ==
  ASSUME CompileInv, TracerInv, NEW t \in Tracer, endSyscall(t)
  PROVE  InStep(t)' /\ Counted(t)' /\ Printed(t)'
<1>. DEFINE n == Len(printed[t])
            calls == asked[t].calls
            old == printed[t]
            new == printed'[t]
            r == Result(t, IF tracee[t] = "killed" THEN -1 ELSE calls[n].ret)
<1>1. /\ n \in 1 .. Len(calls) /\ tracee[t] \in {"exit", "killed"} /\ Len(new) = n
      /\ r # <<>> /\ new[n].result = r
      /\ new[n].num = old[n].num /\ new[n].args = old[n].args
      /\ \A k \in 1 .. n : k # n => new[k] = old[k]
  BY EndSyscallLines
<1>2. /\ UNCHANGED <<asked, tracee, made, exitNum>> /\ pc[t] = "result" /\ pc'[t] = "enter"
      /\ Len(calls) \in Nat /\ Counted(t) /\ Printed(t)
  BY CallFacts DEF endSyscall, traceeVars, TracerInv, CompileInv, CompileTypeOK
<1>3. InStep(t)'
  BY <1>1, <1>2 DEF InStep, Before
<1>4. Counted(t)'
  BY <1>1, <1>2 DEF Counted, Before, Pending
<1>5. Printed(t)'
  <2>0. \A k : Lost(t, k)' <=> Lost(t, k)
    BY <1>1, <1>2 DEF Lost
  <2>1. ASSUME NEW k \in 1 .. n
        PROVE  RightLine(t, k, new[k], Lost(t, k)') /\ new[k].result # <<>>
    <3>0. RightLine(t, k, old[k], Lost(t, k)) /\ (k # n => old[k].result # <<>>)
      BY <1>2 DEF Printed
    <3>1. CASE k = n
      <4>1. Lost(t, k) <=> tracee[t] = "killed"
        BY <1>2, <3>1 DEF Lost
      <4>2. r = Result(t, calls[k].ret) \/ (Lost(t, k) /\ r = Result(t, -1))
        BY <3>1, <4>1
      <4>3. /\ new[k].num = old[k].num /\ new[k].args = old[k].args /\ new[k].result = r
            /\ new[k].result # <<>>
        BY <1>1, <3>1
      <4>. HIDE DEF n, r, new, old
      <4>. QED
        BY <2>0, <3>0, <4>2, <4>3 DEF RightLine
    <3>2. CASE k # n
      <4>1. new[k] = old[k]
        BY <1>1, <3>2
      <4>2. RightLine(t, k, old[k], Lost(t, k)')
        <5>. HIDE DEF old, n
        <5>. QED
          BY <2>0, <3>0 DEF RightLine
      <4>. HIDE DEF new, old, n
      <4>. QED
        BY <3>0, <3>2, <4>1, <4>2
    <3>. QED
      BY <3>1, <3>2
  <2>2. \A k \in 1 .. n : RightLine(t, k, printed[t][k], Lost(t, k))'
    <3>. HIDE DEF n
    <3>. QED
      BY <1>2, <2>1 DEF RightLine, Result
  <2>. HIDE DEF n, r
  <2>. QED
    BY <1>1, <1>2, <2>1, <2>2 DEF Printed, Pending
<1>. QED
  BY <1>3, <1>4, <1>5

LEMMA TracerStepPreserves == CompileInv /\ TracerInv /\ [Next]_vars => TracerInv'
<1>. SUFFICES ASSUME CompileInv, TracerInv, [Next]_vars PROVE TracerInv'
  OBVIOUS
<1>1. TracerTypeOK'
  BY TracerTypeStep
<1>2. CASE UNCHANGED traceVars
  BY <1>1, <1>2, SameTracer DEF TracerInv, traceVars, traceeVars
<1>3. ASSUME NEW t \in Tracer, TracerStep(t) \/ TraceeStep(t) \/ Kill(t) \/ Interrupt(t) PROVE TracerInv'
  <2>1. ASSUME NEW u \in Tracer, u # t PROVE InStep(u)' /\ Counted(u)' /\ Printed(u)'
    <3>1. /\ asked' = asked /\ pc'[u] = pc[u] /\ tracee'[u] = tracee[u] /\ made'[u] = made[u]
          /\ printed'[u] = printed[u] /\ exitNum'[u] = exitNum[u]
      BY <1>3, <2>1, OtherTracers DEF CompileInv, TracerInv
    <3>. QED
      BY <3>1, SameTracer DEF TracerInv
  <2>2. InStep(t)' /\ Counted(t)' /\ Printed(t)'
    BY <1>3, BeforeProgram, SilentSteps, PrintSyscallStep, EndSyscallStep DEF TracerStep
  <2>. QED
    BY <1>1, <2>1, <2>2 DEF TracerInv
<1>. QED
  BY <1>2, <1>3 DEF Next, TraceNext, vars

LEMMA TracerInit == Init => TracerInv
<1>. SUFFICES ASSUME Init PROVE TracerInv
  OBVIOUS
<1>1. /\ tracee = [t \in Tracer |-> "none"] /\ made = [t \in Tracer |-> 0]
      /\ exitNum = [t \in Tracer |-> 0] /\ printed = [t \in Tracer |-> <<>>]
      /\ \/ pc = [t \in Tracer |-> "main"]
         \/ pc = [t \in Tracer |-> "end"] /\ asked = [t \in Tracer |-> NothingAsked]
  BY DEF Init, TraceInit, TraceIdle
<1>2. TracerTypeOK
  BY <1>1 DEF TracerTypeOK
<1>3. ASSUME NEW t \in Tracer PROVE InStep(t) /\ Counted(t) /\ Printed(t)
  <2>1. Len(asked[t].calls) \in Nat
    BY CallFacts, CompileInit DEF CompileInv
  <2>2. /\ tracee[t] = "none" /\ made[t] = 0 /\ Len(printed[t]) = 0
        /\ pc[t] = "main" \/ (pc[t] = "end" /\ asked[t].calls = <<>>)
    BY <1>1 DEF NothingAsked
  <2>. QED
    BY <2>1, <2>2 DEF InStep, Counted, Printed, Before
<1>. QED
  BY <1>2, <1>3 DEF TracerInv

\* The tracer's loop stays in step with the traced process.
THEOREM TracerInvariance == Spec => []TracerInv
<1>1. Spec => []CompileInv
  BY SignatureInvariance
<1>. QED
  BY <1>1, TracerInit, TracerStepPreserves, PTL DEF Spec

(* The lines printed are the calls made, each with its own result, whatever    *)
(* signals stop the process in between, but for what the last line of a killed *)
(* process could not read any more; at the exit nothing is missing, and a      *)
(* trace that ends early was killed or met a string that cannot be read.       *)
THEOREM CallsAreTraced == Spec => []CallsAreReported
<1>1. CompileInv /\ TracerInv => CallsAreReported
  <2>. SUFFICES ASSUME CompileInv, TracerInv, NEW t \in Tracer
                PROVE  LET calls == asked[t].calls
                           lines == printed[t]
                           Returned(n) == lines[n].result # <<>>
                           LostLast(n) == n = Len(lines) /\ tracee[t] = "killed"
                       IN  /\ Len(lines) <= made[t] /\ made[t] <= Len(lines) + 1
                           /\ \A n \in 1 .. Len(lines) :
                                /\ lines[n].num = calls[n].num \/ (LostLast(n) /\ lines[n].num = -1)
                                /\ \A i \in 1 .. Len(lines[n].args) :
                                     \/ lines[n].args[i][2] = calls[n].args[i]
                                     \/ LostLast(n) /\ lines[n].args[i][2] = -1
                                /\ Returned(n) => \/ lines[n].result = Result(t, calls[n].ret)
                                                  \/ LostLast(n) /\ lines[n].result = Result(t, -1)
                                /\ ~Returned(n) => n = Len(lines)
                           /\ pc[t] = "end" /\ calls # <<>> =>
                                /\ tracee[t] = "exited" /\ Len(lines) = Len(calls) /\ ~Returned(Len(lines))
                                /\ syscallNums(Last(calls).num) = "exit_group" => exitNum[t] = Last(calls).args[1]
                           /\ pc[t] = "aborted" =>
                                tracee[t] = "killed" \/ \E n \in 1 .. Len(calls) : ~ToSet(calls[n].args) \subseteq Readable
    BY DEF CallsAreReported
  <2>. DEFINE n == Len(printed[t])  calls == asked[t].calls
  <2>1. /\ InStep(t) /\ Counted(t) /\ Printed(t) /\ n \in Nat /\ made[t] \in Nat /\ Len(calls) \in Nat
        /\ calls \in Calls
    BY CallFacts DEF TracerInv, TracerTypeOK, CompileInv
  <2>2. ASSUME pc[t] = "end", calls # <<>>
        PROVE  /\ tracee[t] = "exited" /\ n = Len(calls) /\ n \in 1 .. n /\ Last(calls) = calls[n]
    <3>1. tracee[t] = "exited"
      BY <2>1, <2>2 DEF InStep
    <3>2. n = made[t] /\ made[t] = Len(calls)
      BY <2>1, <2>2, <3>1 DEF Counted, Pending
    <3>3. Len(calls) # 0
      BY <2>1, <2>2 DEF Calls
    <3>. QED
      BY <2>1, <3>1, <3>2, <3>3 DEF Last
  <2>3. pc[t] = "aborted" => tracee[t] = "killed" \/ Unreadable(t)
    BY <2>1 DEF InStep
  <2>4. n <= made[t] /\ made[t] <= n + 1
    BY <2>1 DEF Counted
  <2>5. ASSUME NEW k \in 1 .. n
        PROVE  LET LostLast == k = n /\ tracee[t] = "killed"
                   line == printed[t][k]
               IN  /\ line.num = calls[k].num \/ (LostLast /\ line.num = -1)
                   /\ \A i \in 1 .. Len(line.args) :
                        line.args[i][2] = calls[k].args[i] \/ (LostLast /\ line.args[i][2] = -1)
                   /\ line.result # <<>> =>
                        line.result = Result(t, calls[k].ret) \/ (LostLast /\ line.result = Result(t, -1))
                   /\ ~(line.result # <<>>) => k = n
    BY <2>1 DEF Printed, RightLine, Lost
  <2>6. ASSUME pc[t] = "end", calls # <<>>
        PROVE  /\ ~(printed[t][n].result # <<>>)
               /\ syscallNums(Last(calls).num) = "exit_group" => exitNum[t] = Last(calls).args[1]
    BY <2>1, <2>2, <2>6 DEF Printed, Pending
  <2>. QED
    BY <2>2, <2>3, <2>4, <2>5, <2>6 DEF Unreadable
<1>. QED
  BY <1>1, SignatureInvariance, TracerInvariance, PTL
===============================================================================

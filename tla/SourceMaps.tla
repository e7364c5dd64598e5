------------------------------- MODULE SourceMaps -------------------------------
(* Stack frames of minified scripts, told in terms of their sources           *)
(* (source_map.go): a map is found in a directory by the name of the script,  *)
(* read once per modification time, and its segments, each the difference     *)
(* from the one before, are added up.                                         *)
(*                                                                            *)
(* Maps are exchanged while requests look frames up.                          *)
EXTENDS Integers, Sequences, FiniteSets, SequencesExt

CONSTANTS
    Lookups,    \* requests at work
    Maps,       \* contents a map may have: a sequence of lines, each of
                \* sequences of digits (with more to come or not), one per number
    Paths,      \* files of the directory
    Frames,     \* frames that are looked up: [candidates, line, col]
    MaxDeploys  \* bound on the exchanges

SourceMapsAssumption ==
    /\ Maps \subseteq Seq(Seq(Seq(Seq(0 .. 1)) \ {<<>>}))
    /\ \A f \in Frames : f.candidates \in Seq(Paths) /\ f.col \in Nat

VARIABLES
    files,      \* [Paths -> [mtime, map]]: mtime 0 when there is none
    mapCache,   \* sourceMapper.cache
    lookup,     \* [Lookups -> where it is]
    deploys

vars == <<files, mapCache, lookup, deploys>>
NoMap == <<>>
Missing == [mtime |-> 0, map |-> NoMap]
Init ==
    /\ files = [p \in Paths |-> Missing] /\ mapCache = <<>> /\ deploys = 0
    /\ lookup = [l \in Lookups |-> [at |-> "idle"]]

-----------------------------------------------------------------------------
(* Decoding.                                                                  *)

\* Digits of five bits, the lowest first, as long as they say more follow; the
\* lowest bit of the number is its sign.  (Here: digits of one bit.)
decodeVLQ(digits) ==
    LET n == SumFunction([i \in DOMAIN digits |-> digits[i] * 2 ^ (i - 1)])
    IN IF n % 2 = 0 THEN n \div 2 ELSE -(n \div 2)
decodeVLQSegment(segment) == [i \in DOMAIN segment |-> decodeVLQ(segment[i])]

Start == [genCol |-> 0, src |-> 0, line |-> 0, col |-> 0, segs |-> <<>>]
\* Faulty form: the source begins anew with each line, as the column does.
nextLineAnew(acc) == Start
nextLine(acc) == [acc EXCEPT !.genCol = 0, !.segs = <<>>]
addSegment(acc, segment) ==
    LET v == decodeVLQSegment(segment)
        gen == acc.genCol + v[1]
    IN IF Len(v) < 4
       THEN [acc EXCEPT !.genCol = gen,
                        !.segs = Append(@, [genCol |-> gen, src |-> -1, line |-> -1, col |-> -1])]
       ELSE [acc EXCEPT !.genCol = gen, !.src = @ + v[2], !.line = @ + v[3], !.col = @ + v[4],
                        !.segs = Append(@, [genCol |-> gen, src |-> acc.src + v[2],
                                            line |-> acc.line + v[3], col |-> acc.col + v[4]])]
parseMappings(map) ==
    LET After[i \in 0 .. Len(map)] ==
            IF i = 0 THEN Start ELSE FoldLeft(addSegment, nextLine(After[i - 1]), map[i])
    IN [i \in DOMAIN map |-> After[i].segs]

\* The last segment of the line that begins at or before the column.
NoSource == [src |-> -1, line |-> 0, col |-> 0]
NotFound == [src |-> -2, line |-> 0, col |-> 0]
LastSegment(segs, col) ==
    LET later == {i \in DOMAIN segs : segs[i].genCol > col}
    IN IF later = {} THEN Len(segs) ELSE (CHOOSE i \in later : \A k \in later : i <= k) - 1
lookupIn(lines, line, col) ==
    IF line \notin DOMAIN lines \/ LastSegment(lines[line], col) = 0 THEN NotFound
    ELSE LET s == lines[line][LastSegment(lines[line], col)]
         IN IF s.src < 0 THEN NoSource ELSE [src |-> s.src, line |-> s.line, col |-> s.col]

-----------------------------------------------------------------------------
(* Actions.                                                                   *)

\* The first of its candidates that exists.
Stat(l, f) ==
    /\ lookup[l].at \in {"idle", "done"} /\ UNCHANGED <<files, mapCache, deploys>>
    /\ LET there == {i \in DOMAIN f.candidates : files[f.candidates[i]].mtime > 0}
       IN lookup' = [lookup EXCEPT ![l] =
            IF there = {} THEN [at |-> "done", f |-> f, answer |-> NotFound, of |-> {}]
            ELSE LET p == f.candidates[CHOOSE i \in there : \A k \in there : i <= k]
                 IN [at |-> "found", f |-> f, path |-> p, mtime |-> files[p].mtime,
                     of |-> {files[p].map}]]
\* Faulty form: read once and for all.
CachedByName(l) == lookup[l].path \in DOMAIN mapCache
Cached(l) ==
    /\ lookup[l].path \in DOMAIN mapCache
    /\ mapCache[lookup[l].path].mtime = lookup[l].mtime
Answer(l, lines) ==
    lookup' = [lookup EXCEPT ![l] =
        [at |-> "done", f |-> @.f, of |-> @.of, answer |-> lookupIn(lines, @.f.line, @.f.col)]]
\* Under the lock; a file that is gone or has no map in it answers nothing.
Load(l) ==
    /\ lookup[l].at = "found" /\ UNCHANGED <<files, deploys>>
    /\ IF Cached(l) THEN Answer(l, mapCache[lookup[l].path].lines) /\ UNCHANGED mapCache
       ELSE LET file == files[lookup[l].path]
            IN IF file.map = NoMap THEN Answer(l, <<>>) /\ UNCHANGED mapCache
               ELSE /\ mapCache' = [p \in DOMAIN mapCache \cup {lookup[l].path} |->
                          IF p # lookup[l].path THEN mapCache[p]
                          ELSE [mtime |-> lookup[l].mtime, lines |-> parseMappings(file.map)]]
                    /\ Answer(l, parseMappings(file.map))
\* A file is exchanged or removed; what lookups under way may still answer.
Deploy(p, map) ==
    /\ deploys < MaxDeploys /\ map # files[p].map /\ deploys' = deploys + 1
    /\ files' = [files EXCEPT ![p] = IF map = NoMap THEN Missing ELSE [mtime |-> deploys + 1, map |-> map]]
    /\ lookup' = [l \in Lookups |-> IF lookup[l].at = "found" /\ lookup[l].path = p
                                    THEN [lookup[l] EXCEPT !.of = @ \cup {map}] ELSE lookup[l]]
    /\ UNCHANGED mapCache

Next ==
    \/ \E l \in Lookups : (\E f \in Frames : Stat(l, f)) \/ Load(l)
    \/ \E p \in Paths, map \in Maps \cup {NoMap} : Deploy(p, map)
Spec == Init /\ [][Next]_vars

-----------------------------------------------------------------------------
(* Property.                                                                  *)

\* The position a map gives, said without decoding in order: the sums of the
\* numbers of all segments with a source up to this one, over all lines, but for
\* the column of the script over those of its line.
UpTo(map, line, seg) ==
    {c \in UNION {{i} \X DOMAIN map[i] : i \in 1 .. line} :
        (c[1] < line \/ c[2] <= seg) /\ Len(map[c[1]][c[2]]) >= 4}
SumOf(map, line, seg, n) ==
    SumFunction([c \in UpTo(map, line, seg) |-> decodeVLQ(map[c[1]][c[2]][n])])
ColumnOf(map, line, seg) ==
    SumFunction([k \in 1 .. seg |-> decodeVLQ(map[line][k][1])])
\* The segment a frame lies in: the last of those that begin at or before it, as
\* do all before.
Position(map, f) ==
    LET upto == {k \in DOMAIN map[f.line] : \A i \in 1 .. k : ColumnOf(map, f.line, i) <= f.col}
        k == CHOOSE x \in upto : \A y \in upto : y <= x
    IN IF f.line \notin DOMAIN map \/ upto = {} THEN NotFound
       ELSE IF Len(map[f.line][k]) < 4 \/ SumOf(map, f.line, k, 2) < 0 THEN NoSource
       ELSE [src |-> SumOf(map, f.line, k, 2), line |-> SumOf(map, f.line, k, 3),
             col |-> SumOf(map, f.line, k, 4)]
\* A frame is told by a map that was in the directory during its lookup, never
\* by one that was exchanged before (source_map.go:210), and the position is
\* that of the segment it lies in, added up over the lines before
\* (source_map.go:331).
FramesAreMapped ==
    \A l \in Lookups :
        lookup[l].at = "done" =>
            \/ lookup[l].of = {} /\ lookup[l].answer = NotFound
            \/ \E map \in lookup[l].of :
                    lookup[l].answer = IF map = NoMap THEN NotFound ELSE Position(map, lookup[l].f)
===============================================================================

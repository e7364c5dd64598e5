----------------------------- MODULE CloseMatches -----------------------------
(***************************************************************************)
(* The names suggested for a table that is not on the list                  *)
(* (sql_validate.go getCloseMatches): how alike two names are is the size of *)
(* the blocks they share, found longest first, left and right of it in turn. *)
(***************************************************************************)
EXTENDS Integers, Sequences, FiniteSets

CONSTANTS
    Letters, MaxName    \* names are sequences over Letters of at most MaxName

VARIABLES
    a, b    \* a name on the list, and the one asked for
names == <<a, b>>

Names == UNION {[1 .. n -> Letters] : n \in 0 .. MaxName}

-----------------------------------------------------------------------------
\* j2len of the row before this one: how long the block is that ends at j.
\* Faulty form: the lengths of all rows above count.
RowAcrossRows(before, i, blo, bhi) ==
    [j \in 0 .. bhi |-> IF j >= blo /\ j < bhi /\ a[i + 1] = b[j + 1]
                        THEN (IF j > 0 THEN before[j - 1] ELSE 0) + 1 ELSE before[j]]
Row(before, i, blo, bhi) ==
    [j \in 0 .. bhi |-> IF j >= blo /\ j < bhi /\ a[i + 1] = b[j + 1]
                        THEN (IF j > 0 THEN before[j - 1] ELSE 0) + 1 ELSE 0]
\* The row's longest block, if longer than the best so far; of equal ones the first.
Better(best, row, i, blo, bhi) ==
    LET longer == {j \in blo .. bhi - 1 : row[j] > best.size}
        longest == {j \in longer : \A k \in longer : row[k] <= row[j]}
    IN IF longer = {} THEN best
       ELSE LET j == CHOOSE n \in longest : \A k \in longest : n <= k
            IN [i |-> i - row[j] + 1, j |-> j - row[j] + 1, size |-> row[j]]
findLongestMatch(alo, ahi, blo, bhi) ==
    LET Scan[i \in alo .. ahi] ==
            IF i = alo
            THEN [row |-> [j \in 0 .. bhi |-> 0], best |-> [i |-> alo, j |-> blo, size |-> 0]]
            ELSE LET row == Row(Scan[i - 1].row, i - 1, blo, bhi)
                 IN [row |-> row, best |-> Better(Scan[i - 1].best, row, i - 1, blo, bhi)]
    IN Scan[ahi].best

\* The blocks, largest first, then those of what is left of it and right of it.
RECURSIVE Blocks(_, _, _, _)
Blocks(alo, ahi, blo, bhi) ==
    LET m == findLongestMatch(alo, ahi, blo, bhi)
    IN IF m.size = 0 THEN {}
       ELSE {m} \cup (IF alo < m.i /\ blo < m.j THEN Blocks(alo, m.i, blo, m.j) ELSE {})
                \cup (IF m.i + m.size < ahi /\ m.j + m.size < bhi
                      THEN Blocks(m.i + m.size, ahi, m.j + m.size, bhi) ELSE {})
RECURSIVE Total(_)
Total(blocks) == IF blocks = {} THEN 0
                 ELSE LET one == CHOOSE m \in blocks : TRUE IN one.size + Total(blocks \ {one})
matchingBlocksTotal == Total(Blocks(0, Len(a), 0, Len(b)))

\* In hundredths, as the cutoff 0.45 is.
sequenceRatio == IF Len(a) + Len(b) = 0 THEN 100
                 ELSE (200 * matchingBlocksTotal) \div (Len(a) + Len(b))
getCloseMatches == sequenceRatio >= 45

\* Names are asked for one at a time, and each is compared with each of the list.
Init == a = <<>> /\ b = <<>>
Next == a = <<>> /\ b = <<>> /\ a' \in Names /\ b' \in Names
Spec == Init /\ [][Next]_names

-----------------------------------------------------------------------------
\* A block the names share, and how many letters one has of the other in their order.
Common(i, j, size) == \A k \in 1 .. size : a[i + k] = b[j + k]
RECURSIVE Subsequence(_, _)
Subsequence(s, t) ==
    IF s = <<>> \/ t = <<>> THEN 0
    ELSE IF Head(s) = Head(t) THEN 1 + Subsequence(Tail(s), Tail(t))
    ELSE LET l == Subsequence(Tail(s), t)
             r == Subsequence(s, Tail(t))
         IN IF l > r THEN l ELSE r

\* The block found is shared, no shared one is longer and none as long begins before
\* it; the blocks together are letters the names share in their order, all of them
\* only if the names are the same, and a name that is on the list suggests itself.
SuggestsTheLike ==
    LET m == findLongestMatch(0, Len(a), 0, Len(b))
    IN /\ Common(m.i, m.j, m.size)
       /\ \A i \in 0 .. Len(a), j \in 0 .. Len(b), size \in 1 .. MaxName :
            i + size <= Len(a) /\ j + size <= Len(b) /\ Common(i, j, size) =>
                size < m.size \/ (size = m.size /\ (m.i < i \/ (m.i = i /\ m.j <= j)))
       /\ matchingBlocksTotal <= Subsequence(a, b)
       /\ (sequenceRatio = 100) <=> (a = b)
       /\ a = b => getCloseMatches
=============================================================================

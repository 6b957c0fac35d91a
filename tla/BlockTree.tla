------------------------------ MODULE BlockTree ------------------------------
(***************************************************************************)
(* The blocks every component refers to: a tree above the configured begin *)
(* block.  A hash is abstracted to the identity of the block it names.     *)
(***************************************************************************)
EXTENDS Integers, Sequences

CONSTANTS
    Block,     \* the blocks above the configured begin block
    Begin,     \* log1.begin.block / log2.begin.block of the configuration
    Prev,      \* Prev[b]: hashPrevBlock
    Height     \* Height[b]: the block height

\* The heights of a chain are consecutive.
ASSUME BlockTreeAssumption ==
    /\ Begin \notin Block
    /\ Prev \in [Block -> Block \cup {Begin}]
    /\ Height \in [Block \cup {Begin} -> Nat]
    /\ \A b \in Block : Height[b] = Height[Prev[b]] + 1 /\ Height[b] > Height[Begin]

\* Chain[b]: the blocks from the begin block to b.
Chain[b \in Block \cup {Begin}] ==
    IF b = Begin THEN <<Begin>> ELSE Append(Chain[Prev[b]], b)

\* The number of blocks that two chains have in common.
CommonLen(c, d) ==
    CHOOSE k \in 1..Len(c) :
        /\ k <= Len(d) /\ c[k] = d[k]
        /\ (k < Len(c) /\ k < Len(d)) => c[k + 1] # d[k + 1]

\* The way from tip a to tip b: the block below every block that is undone,
\* then the blocks that are applied.
Way(a, b) ==
    LET c == Chain[a]
        d == Chain[b]
        k == CommonLen(c, d)
    IN  [i \in 1..(Len(c) - k) |-> c[Len(c) - i]] \o SubSeq(d, k + 1, Len(d))

\* b extends or undoes a: what the reader of a sequence of blocks expects.
Adjacent(a, b) == (b \in Block /\ Prev[b] = a) \/ (a \in Block /\ Prev[a] = b)
=============================================================================

------------------------------ MODULE FenwickTree ------------------------------
(***************************************************************************)
(* crates/ftree: a sequence of numbers kept as partial sums.  The code     *)
(* counts slots from 0, the sequence of a tree from 1: tree[j] is          *)
(* inner[j - 1], and holds the sum of the LowBit[j] values that end at the *)
(* j-th.  In these terms i | (i + 1) is j + LowBit[j], and j & (j - 1) is  *)
(* j - LowBit[j].  `pop` has no caller and is left out.                    *)
(***************************************************************************)
EXTENDS Integers, Sequences, FiniteSetsExt, SequencesExt

EmptyTree == <<>>

\* least_significant_bit: n & -n.
LowBit[n \in Nat] == IF n = 0 THEN 0 ELSE IF n % 2 = 1 THEN 1 ELSE 2 * LowBit[n \div 2]

\* most_significant_bit: 0 of 0.
HighBit[n \in Nat] == IF n < 2 THEN n ELSE 2 * HighBit[n \div 2]

\* What the sums of a tree are sums of: the total of the first values.
Sums(values) ==
    LET sum[n \in 0..Len(values)] == IF n = 0 THEN 0 ELSE sum[n - 1] + values[n] IN sum

\* from_iter: every slot is added to its parent, from left to right.
FromIter(values) ==
    LET added[i \in 0..Len(values)] ==
            IF i = 0 THEN values
            ELSE LET tree == added[i - 1]
                 IN  [k \in DOMAIN values |-> IF k = i + LowBit[i] THEN tree[k] + tree[i] ELSE tree[k]]
    IN  added[Len(values)]

\* add_at, and with a negative difference sub_at.
AddAt(tree, j, diff) ==
    LET parents[k \in 1..(2 * Len(tree))] ==
            IF k > Len(tree) THEN {} ELSE {k} \cup parents[k + LowBit[k]]
        changed == parents[j]
    IN  [k \in DOMAIN tree |-> IF k \in changed THEN tree[k] + diff ELSE tree[k]]

\* prefix_sum: the sum of the first j values.
PrefixSum(tree, j) ==
    LET sum[k \in 0..Len(tree)] == IF k = 0 THEN 0 ELSE tree[k] + sum[k - LowBit[k]]
    IN  sum[j]

\* push: the new slot takes the sums of its children, j less a lower power of two.
Push(tree, value) ==
    LET j == Len(tree) + 1
        children[k \in 0..Len(tree)] ==
            IF k <= j - LowBit[j] THEN 0 ELSE tree[k] + children[k - LowBit[k]]
    IN  Append(tree, value + children[Len(tree)])

\* Mutant: a sum that a slot holds to the end is in the next one.
IndexOfNext(tree, sum) ==
    LET found == {j \in 0..Len(tree) : PrefixSum(tree, j) <= sum}
    IN  [slots |-> Max(found), remainder |-> sum - PrefixSum(tree, Max(found))]

\* index_of_with_remainder: the slots before the one that holds the sum, and what
\* the sum has left in it.  A probe past the end is left like one too high.  The
\* loop ends at an odd probe, which is 0 from there on.
IndexOf(tree, prefixSum) ==
    LET first == 2 * HighBit[Len(tree)]
        Probed(at) ==
            LET half == LowBit[at.probe] \div 2
                below == at.probe \in DOMAIN tree /\ tree[at.probe] < at.remainder
            IN  [probe |-> IF half = 0 THEN 0 ELSE IF below THEN at.probe + half ELSE at.probe - half,
                 slots |-> IF below THEN at.probe ELSE at.slots,
                 remainder |-> IF below THEN at.remainder - tree[at.probe] ELSE at.remainder]
        loop[n \in 0..first] ==
            IF n = 0 THEN [probe |-> first, slots |-> 0, remainder |-> prefixSum]
            ELSE Probed(loop[n - 1])
    IN  loop[first]
=============================================================================

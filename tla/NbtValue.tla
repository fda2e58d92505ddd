------------------------------- MODULE NbtValue -------------------------------
(* What an NBT document promises: it is a nested value, whose compounds and lists *)
(* are changed one place at a time, and which a read or a clone replaces.         *)
EXTENDS Naturals, Sequences, FiniteSets

CONSTANTS TagList, TagCompound, Keys, Leaves, ListTypes

VARIABLES value, reads

Empties == {[tag |-> TagCompound, fields |-> [k \in {} |-> 0]]}
           \cup {[tag |-> TagList, of |-> t, values |-> <<>>] : t \in ListTypes}

Places(v) == IF v.tag = TagCompound THEN DOMAIN v.fields
             ELSE IF v.tag = TagList THEN DOMAIN v.values ELSE {}

Get(v, k) == IF v.tag = TagCompound THEN v.fields[k] ELSE v.values[k]

Put(v, k, w) ==
    IF v.tag = TagCompound
    THEN [v EXCEPT !.fields = [j \in DOMAIN v.fields \cup {k} |-> IF j = k THEN w ELSE v.fields[j]]]
    ELSE [v EXCEPT !.values = [j \in 1..Len(v.values) |-> IF j = k THEN w ELSE v.values[j]]]

Without(v, k) == [v EXCEPT !.fields = [j \in DOMAIN v.fields \ {k} |-> v.fields[j]]]

\* One place of v itself is changed.
ChangedHere(v) ==
    IF v.tag = TagCompound
    THEN {Put(v, k, w) : k \in Keys, w \in Leaves \cup Empties} \cup {Without(v, k) : k \in DOMAIN v.fields}
    ELSE IF v.tag = TagList
    THEN {[v EXCEPT !.values = Append(v.values, w)] : w \in {x \in Leaves \cup Empties : x.tag = v.of}}
         \cup {Put(v, k, w) : k \in DOMAIN v.values, w \in {x \in Leaves : x.tag = v.of}}
    ELSE {}

\* ... or one in a value below it.
RECURSIVE Changed(_)
Changed(v) == ChangedHere(v) \cup UNION {{Put(v, k, w) : w \in Changed(Get(v, k))} : k \in Places(v)}

RECURSIVE Within(_)
Within(v) == {v} \cup UNION {Within(Get(v, k)) : k \in Places(v)}

Init == value = [tag |-> TagCompound, fields |-> [k \in {} |-> 0]] /\ reads = 0

Next ==
    \/ value' \in Changed(value) /\ UNCHANGED reads
    \/ value' \in {v \in Within(value) : v.tag = TagCompound} /\ UNCHANGED reads
    \/ value'.tag = TagCompound /\ reads' = reads + 1

Spec == Init /\ [][Next]_<<value, reads>>
=============================================================================

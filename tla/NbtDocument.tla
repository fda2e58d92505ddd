------------------------------ MODULE NbtDocument ------------------------------
(***************************************************************************)
(* An NBT document (crates/nbt): a slab of nodes whose lists and compounds  *)
(* hold the indices of their children, its editing (reference.rs), and how  *)
(* it is written (encode.rs) and read (decode.rs), as the world and server  *)
(* lists read level.dat and servers.dat.                                    *)
(*                                                                          *)
(* Of the types without children two stand for all, a byte and a string.    *)
(* Bytes come in units: a tag, a number or a letter.  A string, a name of   *)
(* an entry too, is its length, and the order of names that of their        *)
(* lengths.                                                                 *)
(***************************************************************************)
EXTENDS Integers, Sequences, SequencesExt, FiniteSets

CONSTANTS
    Keys,      \* names of entries
    Leaves,    \* nodes without children that are inserted
    ListTypes, \* types of the lists that are created
    Files,     \* files that are read, besides those that were written
    MaxDepth,  \* 512 in the code
    Capacity,  \* DECODE_CAPACITY
    Width,     \* how many lengths of a string there are in a file: 2^16 in the code
    MaxNodes,  \* bound: nodes of a slab
    MaxReads   \* bound: files that are read

VARIABLES
    slab,     \* NBT::nodes
    root,     \* NBT::root_index
    reads,    \* how many files were read
    panicked  \* the process is gone

vars == <<slab, root, reads, panicked>>

TagEnd == 0
TagByte == 1
TagString == 8
TagList == 9
TagCompound == 10

Leaf(tag, v) == [tag |-> tag, value |-> v]
ListOf(tag, children) == [tag |-> TagList, of |-> tag, children |-> children]
Compound(entries) == [tag |-> TagCompound, entries |-> entries]
Vacant == [tag |-> TagEnd]

Empties == {Compound(<<>>)} \cup {ListOf(t, <<>>) : t \in ListTypes}

-----------------------------------------------------------------------------
(* The slab: an index that was given up is the next one to be used.          *)

NoNodes == [nodes |-> [i \in {} |-> Vacant], free |-> <<>>]

NextIndex(s) == IF s.free = <<>> THEN Cardinality(DOMAIN s.nodes) ELSE Head(s.free)

Replace(s, i, node) ==
    [s EXCEPT !.nodes = [j \in DOMAIN s.nodes \cup {i} |-> IF j = i THEN node ELSE s.nodes[j]]]

Insert(s, node) == [Replace(s, NextIndex(s), node) EXCEPT !.free = IF @ = <<>> THEN @ ELSE Tail(@)]

GiveUp(s, i) == [Replace(s, i, Vacant) EXCEPT !.free = <<i>> \o @]

-----------------------------------------------------------------------------
(* Compounds keep their entries sorted by name and search by halves.         *)

Place(entries, key) == 1 + Cardinality({e \in Range(entries) : e.key < key})

Has(entries, key) ==
    LET p == Place(entries, key) IN p \in DOMAIN entries /\ entries[p].key = key

\* Mutant: a new entry comes last.
AppendEntry(entries, key, i) == Append(entries, [key |-> key, child |-> i])

InsertEntry(entries, key, i) ==
    LET p == Place(entries, key)
        entry == [key |-> key, child |-> i]
    IN IF Has(entries, key) THEN ReplaceAt(entries, p, entry) ELSE InsertAt(entries, p, entry)

\* Mutant: the entry is only looked up.
LookUpEntry(entries, p) == entries

RemoveEntry(entries, p) == RemoveAt(entries, p)

\* The children of a node with their names, those of a list have none.
Elements(node) ==
    IF node.tag = TagCompound THEN node.entries
    ELSE IF node.tag = TagList THEN [k \in DOMAIN node.children |-> [key |-> 0, child |-> node.children[k]]]
    ELSE <<>>

\* insert_node of a compound or of a list.
Add(s, i, key, node) ==
    LET added == Insert(s, node)
        to == s.nodes[i]
        child == NextIndex(s)
    IN IF to.tag = TagCompound THEN Replace(added, i, Compound(InsertEntry(to.entries, key, child)))
       ELSE Replace(added, i, ListOf(to.of, Append(to.children, child)))

\* The nodes that the removal of one takes with it, in the order of remove_node.
RECURSIVE Subtree(_, _)
Subtree(s, i) ==
    LET items == Elements(s.nodes[i])
    IN <<i>> \o FlattenSeq([k \in DOMAIN items |-> Subtree(s, items[k].child)])

RemoveNode(s, i) == FoldLeft(GiveUp, s, Subtree(s, i))

-----------------------------------------------------------------------------
(* Writing, reading, cloning.                                                *)

\* A letter that a reader which is not where it should be takes for a tag.
Letter == TagEnd

\* write_string: all of the string, and as much of its length as two bytes hold.
WriteString(length) == <<length % Width>> \o [k \in 1..length |-> Letter]

RECURSIVE Encode(_, _)
Encode(s, i) ==
    LET node == s.nodes[i]
        items == Elements(node)
        child(k) == items[k].child
    IN IF node.tag = TagCompound
       THEN FlattenSeq([k \in DOMAIN items |->
                <<s.nodes[child(k)].tag>> \o WriteString(items[k].key) \o Encode(s, child(k))]) \o <<TagEnd>>
       ELSE IF node.tag = TagList
       THEN <<node.of, Len(items)>> \o FlattenSeq([k \in DOMAIN items |-> Encode(s, child(k))])
       ELSE IF node.tag = TagString THEN WriteString(node.value)
       ELSE <<node.value>>

RootName == 0

WriteNamed(s, i) == <<TagCompound>> \o WriteString(RootName) \o Encode(s, i)

\* A reader: what is left of the bytes, the nodes so far, the size so far, the
\* node that was read last and its index.
Reader(bytes) ==
    [bytes |-> bytes, slab |-> NoNodes, size |-> 0, node |-> Vacant, index |-> 0, ok |-> TRUE]

Fail(r) == [r EXCEPT !.ok = FALSE]
Skip(r) == [r EXCEPT !.bytes = Tail(@)]
Count(r, n) == [r EXCEPT !.size = @ + n]
Made(r, node) == [r EXCEPT !.node = node]

CheckSize(r) == IF r.size > Capacity THEN Fail(r) ELSE r

ReadByte(r) ==
    IF r.bytes = <<>> THEN Fail(r) ELSE Made(Skip(Count(r, 1)), Leaf(TagByte, Head(r.bytes)))

ReadString(r) ==
    LET length == Head(r.bytes)
        counted == CheckSize(Count(r, length + 24))
        rest == SubSeq(r.bytes, length + 2, Len(r.bytes))
    IN IF r.bytes = <<>> \/ Len(r.bytes) < length + 1 THEN Fail(r)
       ELSE Made([counted EXCEPT !.bytes = rest], Leaf(TagString, length))

\* Mutant: a level too early.
IsDeep(depth) == depth >= MaxDepth

TooDeep(depth) == depth > MaxDepth

RECURSIVE ReadNode(_, _, _)

\* The type of an entry comes next.
Expect(r) == IF r.bytes = <<>> THEN Fail(r) ELSE r

RECURSIVE ReadCompound(_, _, _)
ReadCompound(r, entries, depth) ==
    LET at == Expect(r)
        name == ReadString(Count(Skip(at), 8))
        entry == IF name.ok THEN ReadNode(name, Head(at.bytes), depth) ELSE name
    IN IF ~at.ok THEN at
       ELSE IF Head(at.bytes) = TagEnd THEN Made(Skip(at), Compound(entries))
       ELSE IF ~entry.ok \/ Has(entries, name.node.value) THEN Fail(entry)
       ELSE ReadCompound(entry, InsertEntry(entries, name.node.value, entry.index), depth)

RECURSIVE ReadChildren(_, _, _, _)
ReadChildren(r, list, n, depth) ==
    IF n = 0 \/ ~r.ok THEN Made(r, list)
    ELSE LET child == ReadNode(r, list.of, depth)
         IN ReadChildren(child, ListOf(list.of, Append(list.children, child.index)), n - 1, depth)

ReadList(r, depth) ==
    IF Len(r.bytes) < 2 THEN Fail(r)
    ELSE LET type == r.bytes[1]
             length == r.bytes[2]
             rest == Skip(Skip(r))
         IN IF length <= 0 THEN Made(rest, ListOf(type, <<>>))
            ELSE IF Len(rest.bytes) < length \/ type = TagEnd THEN Fail(rest)
            ELSE ReadChildren(CheckSize(Count(rest, length * 8)), ListOf(type, <<>>), length, depth)

ReadNode(r, tag, depth) ==
    LET read ==
            CASE tag = TagByte -> ReadByte(r)
              [] tag = TagString -> ReadString(r)
              [] tag = TagList /\ ~TooDeep(depth) -> ReadList(r, depth + 1)
              [] tag = TagCompound /\ ~TooDeep(depth) -> ReadCompound(r, <<>>, depth + 1)
              [] OTHER -> Fail(r)
    IN [read EXCEPT !.slab = Insert(@, read.node), !.index = NextIndex(read.slab)]

\* The root gets its index last.
ReadNamed(bytes) ==
    IF bytes = <<>> THEN Fail(Reader(bytes))
    ELSE IF Head(bytes) = TagEnd
    THEN [Reader(<<>>) EXCEPT !.slab = Insert(NoNodes, Compound(<<>>))]
    ELSE IF Head(bytes) # TagCompound THEN Fail(Reader(bytes))
    ELSE LET name == ReadString(Skip(Reader(bytes)))
             read == IF name.ok THEN ReadCompound(name, <<>>, 0) ELSE name
         IN [read EXCEPT !.slab = Insert(@, read.node), !.index = NextIndex(read.slab)]

RECURSIVE CloneInto(_, _, _, _)
CloneInto(from, i, into, j) ==
    LET blank(node) == IF node.tag = TagCompound THEN Compound(<<>>)
                       ELSE IF node.tag = TagList THEN ListOf(node.of, <<>>) ELSE node
    IN FoldLeft(LAMBDA s, item :
                    CloneInto(from, item.child, Add(s, j, item.key, blank(from.nodes[item.child])), NextIndex(s)),
                into, Elements(from.nodes[i]))

-----------------------------------------------------------------------------

Init ==
    /\ slab = Insert(NoNodes, Compound(<<>>)) /\ root = 0
    /\ reads = 0 /\ panicked = FALSE

InUse == Range(Subtree(slab, root))
Room == NextIndex(slab) < MaxNodes

Panic == panicked' = TRUE /\ UNCHANGED <<slab, root, reads>>
Becomes(s) == slab' = s /\ UNCHANGED <<root, reads, panicked>>

\* insert_byte and the others, create_list, create_compound: over the name of an
\* entry they put the new node in place of the old one, which nobody gives up.
InsertIntoCompound ==
    \E i \in InUse, key \in Keys, node \in Leaves \cup Empties :
        /\ slab.nodes[i].tag = TagCompound /\ Room
        /\ Becomes(Add(slab, i, key, node))

InsertIntoList ==
    \E i \in InUse, node \in Leaves \cup Empties :
        /\ slab.nodes[i].tag = TagList /\ Room
        /\ IF slab.nodes[i].of = node.tag THEN Becomes(Add(slab, i, 0, node)) ELSE Panic

\* set_node_at inside the list: its end is InsertIntoList, beyond it it panics.
SetInList ==
    \E i \in InUse, node \in Leaves :
        /\ slab.nodes[i].tag = TagList
        /\ \/ slab.nodes[i].of # node.tag /\ Panic
           \/ \E k \in DOMAIN slab.nodes[i].children :
                /\ slab.nodes[i].of = node.tag
                /\ Becomes(Replace(slab, slab.nodes[i].children[k], node))

\* find_mut: a value is written through the reference.
Assign ==
    \E i \in InUse, key \in Keys, node \in Leaves :
        /\ slab.nodes[i].tag = TagCompound
        /\ LET entries == slab.nodes[i].entries
               child == entries[Place(entries, key)].child
           IN /\ Has(entries, key)
              /\ slab.nodes[child].tag = node.tag
              /\ Becomes(Replace(slab, child, node))

RemoveKey ==
    \E i \in InUse, key \in Keys :
        /\ slab.nodes[i].tag = TagCompound
        /\ LET entries == slab.nodes[i].entries
               p == Place(entries, key)
           IN /\ Has(entries, key)
              /\ IF 0 \in Range(Subtree(slab, entries[p].child)) THEN Panic
                 ELSE Becomes(RemoveNode(Replace(slab, i, Compound(RemoveEntry(entries, p))), entries[p].child))

\* The document of a compound of this one takes its place.
CloneNbt ==
    \E i \in InUse :
        /\ slab.nodes[i].tag = TagCompound
        /\ slab' = CloneInto(slab, i, Insert(NoNodes, Compound(<<>>)), 0)
        /\ root' = 0
        /\ UNCHANGED <<reads, panicked>>

\* A file is read, or what is written of the document.
Read ==
    /\ reads < MaxReads
    /\ \E bytes \in Files \cup {WriteNamed(slab, root)} :
        LET read == ReadNamed(bytes)
        IN /\ read.ok
           /\ slab' = read.slab /\ root' = read.index
    /\ reads' = reads + 1
    /\ UNCHANGED panicked

Edit == InsertIntoCompound \/ InsertIntoList \/ SetInList \/ Assign \/ RemoveKey

Next == ~panicked /\ (Edit \/ CloneNbt \/ Read)

Spec == Init /\ [][Next]_vars

-----------------------------------------------------------------------------

\* What the references of a document return.
RECURSIVE Value(_, _)
Value(s, i) ==
    LET node == s.nodes[i]
        at(key) == node.entries[Place(node.entries, key)].child
    IN CASE node.tag = TagCompound ->
              [tag |-> TagCompound,
               fields |-> [key \in {k \in {e.key : e \in Range(node.entries)} : Has(node.entries, k)} |-> Value(s, at(key))]]
         [] node.tag = TagList ->
              [tag |-> TagList, of |-> node.of,
               values |-> [k \in DOMAIN node.children |-> Value(s, node.children[k])]]
         [] OTHER -> node

Tree == INSTANCE NbtValue WITH value <- Value(slab, root)

\* For its users a document is a nested value: an index that is used again, an
\* index for the root that is not the first, and sorted entries do not show
\* (reference.rs, lib.rs), and neither does that a clone or what is read back has
\* other indices.
ImplementsValue == Tree!Spec

\* The hazard of the unchecked accesses (get_self_node) and of the unwrap in
\* load_servers_summary: from the root every index is in use and is the child of
\* one node, the names of a compound are in order and none is there twice, and
\* the children of a list have its type, whatever was removed before or read.
DocumentIsWellFormed ==
    /\ IsInjective(Subtree(slab, root))
    /\ \A i \in InUse :
        LET node == slab.nodes[i]
        IN /\ node # Vacant
           /\ node.tag = TagCompound =>
                \A k \in 1..(Len(node.entries) - 1) : node.entries[k].key < node.entries[k + 1].key
           /\ node.tag = TagList => \A k \in DOMAIN node.children : slab.nodes[node.children[k]].tag = node.of

\* How deep a node is below the root, and what the whole counts as.
RECURSIVE Depth(_, _)
Depth(s, i) ==
    LET below == {Depth(s, item.child) : item \in Range(Elements(s.nodes[i]))}
    IN IF s.nodes[i].tag \notin {TagList, TagCompound} THEN 0
       ELSE 1 + (IF below = {} THEN 0 ELSE CHOOSE d \in below : \A e \in below : e <= d)

RECURSIVE Size(_, _)
Size(s, i) ==
    LET node == s.nodes[i]
        sizes == [k \in DOMAIN Elements(node) |-> Size(s, Elements(node)[k].child)]
        sum == FoldLeft(LAMBDA a, b : a + b, 0, sizes)
        names == FoldLeft(LAMBDA a, e : a + e.key + 32, 0, Elements(node))
    IN CASE node.tag = TagCompound -> sum + names
         [] node.tag = TagList -> sum + 8 * Len(sizes)
         [] node.tag = TagString -> node.value + 24
         [] OTHER -> 1

\* Some string or name is longer than its length in a file can say.
TooLong ==
    \E i \in InUse :
        \/ slab.nodes[i].tag = TagString /\ slab.nodes[i].value >= Width
        \/ \E item \in Range(Elements(slab.nodes[i])) : item.key >= Width

\* What is written is read back with the same value, or it is refused because it is
\* deeper or larger than decode.rs takes: encode.rs has no such limits.  A file that
\* is not written to its end yet is refused, not taken for one with fewer worlds or
\* servers in it (load_servers_summary reads servers.dat while the game may write it).
\* All this does not hold for a document with a string of 2^16 bytes or more, which
\* encode.rs writes whole, but with the length it has in two bytes (encode.rs:137).
WrittenIsReadBack ==
    LET bytes == WriteNamed(slab, root)
        back == ReadNamed(bytes)
    IN ~TooLong =>
        /\ IF back.ok THEN Value(back.slab, back.index) = Value(slab, root) /\ Depth(slab, root) <= MaxDepth + 2
           ELSE Depth(slab, root) > MaxDepth + 2 \/ Size(slab, root) + 24 > Capacity
        /\ \A n \in 0..(Len(bytes) - 1) : ~ReadNamed(SubSeq(bytes, 1, n)).ok
=============================================================================

-------------------------------- MODULE BTree --------------------------------
(***************************************************************************)
(* b-tree-storage-engine/btree.py: leaf and internal pages, page splits on *)
(* insertion, removal of empty leaves, the free list, the sibling chain.   *)
(*                                                                         *)
(* An operation is the sequence of the states of the data file after each  *)
(* of its page writes; the process may stop after any of them.  The log    *)
(* (class WAL) holds the page images that were written through it:         *)
(* recover() repeats those of an operation with its commit record and      *)
(* skips the others.  This changes no page of an operation that frees      *)
(* none; free_page writes past the log, so that after a stop behind the    *)
(* commit record the logged empty leaf would replace the free-list node.   *)
(* Repeating is left out; it matters only where StopInSplit is TRUE.       *)
(* A page's sorted lists are sets of integers and functions on them.       *)
(***************************************************************************)
EXTENDS Integers, Sequences, FiniteSets, FiniteSetsExt

CONSTANTS
    TreeKeys,       \* a set of integers
    Value, Absent,
    MaxKeys,        \* max_keys_per_page
    MaxPages,       \* bound: pages of the file
    MaxTreeOps,     \* bound: puts and deletes
    MaxStops,       \* bound: times the process stops
    StopInSplit     \* whether it may stop inside an operation that splits a page

VARIABLES
    disk,           \* the data file: pages and the fields of the metadata page
    ops, stops,     \* counts for the bounds
    stored          \* history: the map the callers have been told

btreeVars == <<disk, ops, stops, stored>>

NoPage == 0
Leaf(map, next) == [leaf |-> TRUE, map |-> map, next |-> next, keys |-> {}, kids |-> <<>>]
Internal(keys, kids) ==
    [leaf |-> FALSE, map |-> [k \in {} |-> Absent], next |-> NoPage, keys |-> keys, kids |-> kids]
FreeNode(next) ==
    [leaf |-> FALSE, map |-> [k \in {} |-> Absent], next |-> next, keys |-> {}, kids |-> <<>>]

Restricted(f, S) == [x \in S |-> f[x]]
Updated(f, k, v) == [x \in DOMAIN f \cup {k} |-> IF x = k THEN v ELSE f[x]]
Below(S, k) == {x \in S : x < k}
\* bisect_right: the child that a key belongs to.
ChildIndex(node, k) == Cardinality({x \in node.keys : x <= k}) + 1
\* keys[mid] of the sorted keys, mid = len(keys) // 2.
MidKey(S) == CHOOSE k \in S : Cardinality(Below(S, k)) = Cardinality(S) \div 2
InsertedAt(s, i, e) == SubSeq(s, 1, i - 1) \o <<e>> \o SubSeq(s, i, Len(s))
RemovedAt(s, i) == SubSeq(s, 1, i - 1) \o SubSeq(s, i + 1, Len(s))

(***************************************************************************)
(* An operation in progress: the states of the file so far                 *)
(***************************************************************************)

Now(t) == t[Len(t)]
WritePage(t, p, node) == Append(t, [Now(t) EXCEPT !.pages[p] = node])
WriteMeta(t, root, height, total) ==
    Append(t, [Now(t) EXCEPT !.root = root, !.height = height, !.total = total])

NextPage_Stale(t) == Now(t).nextFree
\* allocate_page: the head of the free list, or a new page at the end.
NextPage(t) == IF Now(t).freeHead # NoPage THEN Now(t).freeHead ELSE Now(t).nextFree
Allocate(t) ==
    LET d == Now(t)
    IN  IF d.freeHead # NoPage
        THEN Append(t, [d EXCEPT !.freeHead = d.pages[d.freeHead].next])
        ELSE Append(t, [d EXCEPT !.nextFree = @ + 1])

FreePage(t, p) ==
    LET t1 == WritePage(t, p, FreeNode(Now(t).freeHead))
    IN  Append(t1, [Now(t1) EXCEPT !.freeHead = p])

(***************************************************************************)
(* put                                                                     *)
(***************************************************************************)

Result(t, kind, key, page) == [t |-> t, kind |-> kind, key |-> key, page |-> page]

RightNext_Lost(node) == NoPage
\* The right half of a split leaf takes over the next sibling.
RightNext(node) == node.next

InsertLeaf(t, p, k, v) ==
    LET node == Now(t).pages[p]
        map  == Updated(node.map, k, v)
        mid  == MidKey(DOMAIN map)
        new  == NextPage(t)
        right == Leaf(Restricted(map, DOMAIN map \ Below(DOMAIN map, mid)), RightNext(node))
        left  == Leaf(Restricted(map, Below(DOMAIN map, mid)), new)
    IN  IF k \in DOMAIN node.map
        THEN Result(WritePage(t, p, Leaf(map, node.next)), "updated", k, p)
        ELSE IF Cardinality(DOMAIN map) <= MaxKeys
        THEN Result(WritePage(t, p, Leaf(map, node.next)), "inserted", k, p)
        ELSE Result(WritePage(WritePage(Allocate(t), new, right), p, left), "split", mid, new)

\* A child was split: its new sibling goes behind it, and the page may split too.
InsertChild(t, p, i, key, child) ==
    LET node == Now(t).pages[p]
        keys == node.keys \cup {key}
        kids == InsertedAt(node.kids, i + 1, child)
        mid  == MidKey(keys)
        n    == Cardinality(Below(keys, mid)) + 1
        new  == NextPage(t)
        right == Internal({x \in keys : x > mid}, SubSeq(kids, n + 1, Len(kids)))
        left  == Internal(Below(keys, mid), SubSeq(kids, 1, n))
    IN  IF Cardinality(keys) <= MaxKeys
        THEN Result(WritePage(t, p, Internal(keys, kids)), "inserted", key, p)
        ELSE Result(WritePage(WritePage(Allocate(t), new, right), p, left), "split", mid, new)

RECURSIVE Insert(_, _, _, _, _)
Insert(t, p, k, v, depth) ==
    IF depth = 1 THEN InsertLeaf(t, p, k, v)
    ELSE LET i == ChildIndex(Now(t).pages[p], k)
             r == Insert(t, Now(t).pages[p].kids[i], k, v, depth - 1)
         IN  IF r.kind = "split" THEN InsertChild(r.t, p, i, r.key, r.page) ELSE r

\* put: a split that reaches the root makes a new root.
PutStates(k, v) ==
    LET r == Insert(<<disk>>, disk.root, k, v, disk.height)
        new == NextPage(r.t)
    IN  CASE r.kind = "updated" -> r.t
          [] r.kind = "inserted" -> WriteMeta(r.t, disk.root, disk.height, disk.total + 1)
          [] r.kind = "split" ->
                WriteMeta(WritePage(Allocate(r.t), new, Internal({r.key}, <<disk.root, r.page>>)),
                          new, disk.height + 1, disk.total + 1)

(***************************************************************************)
(* delete                                                                  *)
(***************************************************************************)

RemoveFromLeaf(t, p, k) ==
    LET node == Now(t).pages[p]
        map  == Restricted(node.map, DOMAIN node.map \ {k})
    IN  IF k \notin DOMAIN node.map THEN Result(t, "missing", k, p)
        ELSE Result(WritePage(t, p, Leaf(map, node.next)),
                    IF map = <<>> THEN "empty" ELSE "deleted", k, p)

\* An empty leaf that is not its parent's first child leaves the chain and the
\* tree; its page goes to the free list.
Unlink(t, p, i) ==
    LET node == Now(t).pages[p]
        child == node.kids[i]
        prev  == node.kids[i - 1]
        sep == CHOOSE x \in node.keys : Cardinality(Below(node.keys, x)) = i - 2
        t1 == WritePage(t, prev, Leaf(Now(t).pages[prev].map, Now(t).pages[child].next))
    IN  WritePage(FreePage(t1, child), p, Internal(node.keys \ {sep}, RemovedAt(node.kids, i)))

RECURSIVE Remove(_, _, _, _)
Remove(t, p, k, depth) ==
    IF depth = 1 THEN RemoveFromLeaf(t, p, k)
    ELSE LET i == ChildIndex(Now(t).pages[p], k)
             r == Remove(t, Now(t).pages[p].kids[i], k, depth - 1)
         IN  CASE r.kind = "empty" /\ depth = 2 /\ i > 1 ->
                     Result(Unlink(r.t, p, i), "deleted", k, p)
               [] r.kind = "empty" -> [r EXCEPT !.kind = "deleted"]
               [] OTHER -> r

DeleteStates(k) ==
    LET r == Remove(<<disk>>, disk.root, k, disk.height)
    IN  IF r.kind = "missing" THEN r.t
        ELSE WriteMeta(r.t, disk.root, disk.height, disk.total - 1)

(***************************************************************************)
(* Reading                                                                 *)
(***************************************************************************)

RECURSIVE FindLeaf(_, _, _, _)
FindLeaf(d, p, k, depth) ==
    IF depth = 1 THEN p
    ELSE FindLeaf(d, d.pages[p].kids[ChildIndex(d.pages[p], k)], k, depth - 1)

BTreeGet(d, k) == LET map == d.pages[FindLeaf(d, d.root, k, d.height)].map
                  IN  IF k \in DOMAIN map THEN map[k] ELSE Absent
BTreeView(d) == [k \in TreeKeys |-> BTreeGet(d, k)]

\* range_scan follows the sibling chain from the leaf of the smallest key.
RECURSIVE Chain(_, _)
Chain(d, p) == IF p = NoPage THEN <<>> ELSE <<p>> \o Chain(d, d.pages[p].next)
ScanStart(d) == FindLeaf(d, d.root, Min(TreeKeys), d.height)

(***************************************************************************)
(* Actions                                                                 *)
(***************************************************************************)

Finished(states, told) ==
    /\ ops < MaxTreeOps
    /\ Now(states).nextFree <= MaxPages
    /\ disk' = Now(states)
    /\ stored' = told
    /\ ops' = ops + 1
    /\ UNCHANGED stops

\* The process stops after some page writes of an operation that did not return:
\* it counts as done or as not done, whichever the file shows.
Interrupted(states, told) ==
    /\ ops < MaxTreeOps /\ stops < MaxStops
    /\ Now(states).nextFree <= MaxPages
    /\ \/ StopInSplit
       \/ Now(states).nextFree = disk.nextFree /\ Now(states).freeHead = disk.freeHead
    /\ \E i \in DOMAIN states : disk' = states[i]
    /\ stored' = IF BTreeView(disk') = told THEN told ELSE stored
    /\ ops' = ops + 1 /\ stops' = stops + 1

BTreePut(k, v) == Finished(PutStates(k, v), [stored EXCEPT ![k] = v])
BTreeDelete(k) == stored[k] # Absent /\ Finished(DeleteStates(k), [stored EXCEPT ![k] = Absent])
BTreeStop ==
    \E k \in TreeKeys : \/ \E v \in Value : Interrupted(PutStates(k, v), [stored EXCEPT ![k] = v])
                        \/ Interrupted(DeleteStates(k), [stored EXCEPT ![k] = Absent])

EmptyFile == [pages |-> [p \in 1 .. MaxPages |-> Leaf([k \in {} |-> Absent], NoPage)],
              root |-> 1, height |-> 1, total |-> 0, nextFree |-> 2, freeHead |-> NoPage]

BTreeInit ==
    /\ disk = EmptyFile
    /\ ops = 0 /\ stops = 0
    /\ stored = [k \in TreeKeys |-> Absent]

BTreeNext ==
    \/ \E k \in TreeKeys, v \in Value : BTreePut(k, v)
    \/ \E k \in TreeKeys : BTreeDelete(k)
    \/ BTreeStop

BTreeSpec == BTreeInit /\ [][BTreeNext]_btreeVars

(***************************************************************************)
(* Properties                                                              *)
(***************************************************************************)

\* get finds what was stored and nothing else, after any splits, removals of
\* leaves and reuse of pages, and after a stop.
BTreeDurable == BTreeView(disk) = stored

RECURSIVE Below1(_, _, _)
Below1(d, p, depth) ==
    {p} \cup (IF depth = 1 THEN {}
              ELSE UNION {Below1(d, d.pages[p].kids[i], depth - 1) : i \in DOMAIN d.pages[p].kids})
RECURSIVE FreeList(_, _)
FreeList(d, p) == IF p = NoPage THEN {} ELSE {p} \cup FreeList(d, d.pages[p].next)

\* The shape of the file: the chain that a scan follows visits the keys in
\* ascending order and misses none; tree and free list share no page; without a
\* stop no page is lost and the count of keys is right.
BTreeShape ==
    LET chain == Chain(disk, ScanStart(disk))
        keysOf(i) == DOMAIN disk.pages[chain[i]].map
        tree == Below1(disk, disk.root, disk.height)
        free == FreeList(disk, disk.freeHead)
        present == {k \in TreeKeys : stored[k] # Absent}
    IN  /\ UNION {keysOf(i) : i \in DOMAIN chain} = present
        /\ \A i, j \in DOMAIN chain : i < j => \A a \in keysOf(i), b \in keysOf(j) : a < b
        /\ tree \cap free = {}
        /\ stops = 0 => tree \cup free = 1 .. disk.nextFree - 1 /\ disk.total = Cardinality(present)
=============================================================================

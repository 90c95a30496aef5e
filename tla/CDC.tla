---------------------------------- MODULE CDC ----------------------------------
(***************************************************************************)
(* change-data-capture/cdc.py: CDCDatabase and CDCLog with one table, a    *)
(* CDCConsumer, a MaterializedView, a SearchIndex and create_snapshot.     *)
(*                                                                         *)
(* A row is its value, which is also the only token of the row.  The       *)
(* database and its log are in memory; the consumer keeps its position in  *)
(* a file and may be restarted.  The view's transform drops the values     *)
(* that are not in Shown.  The log is a function from the sequence numbers *)
(* that compact has left to the changes.                                   *)
(***************************************************************************)
EXTENDS Integers, FiniteSetsExt

CONSTANTS
    CKey, CValue, NoRow,
    Shown,          \* values the view's transform keeps
    MaxSeq          \* bound: changes

VARIABLES
    rows,           \* the table
    changes,        \* CDCLog._events
    nextSeq,        \* CDCLog._next_seq
    overlooked,     \* history: keys of which compact removed a delete that the search
                    \*   index had not read
    cpos,           \* CDCConsumer._position, always that in its file
    handled,        \* history: changes the consumer's handlers finished with
    view,           \* MaterializedView: _data, _position
    index           \* SearchIndex: _rows, _index, _position

cdcVars == <<rows, changes, nextSeq, overlooked, cpos, handled, view, index>>

NoRows == [k \in CKey |-> NoRow]
NoTokens == [v \in CValue |-> {}]

\* _append; the change's value is its after.
Logged(k, op, v) ==
    [s \in DOMAIN changes \cup {nextSeq} |->
        IF s = nextSeq THEN [op |-> op, key |-> k, after |-> v] ELSE changes[s]]

\* insert, update and delete
Change(k, op, v) ==
    /\ nextSeq < MaxSeq
    /\ (op = "INSERT") <=> (rows[k] = NoRow)
    /\ rows' = [rows EXCEPT ![k] = v]
    /\ changes' = Logged(k, op, v)
    /\ nextSeq' = nextSeq + 1
    /\ UNCHANGED <<overlooked, cpos, handled, view, index>>

\* compact: the latest change of each key stays.
IsLast(s) == \A t \in DOMAIN changes : changes[t].key = changes[s].key => t <= s
Compact ==
    LET kept == {s \in DOMAIN changes : IsLast(s)}
        unread == {s \in DOMAIN changes \ kept : s >= index.pos /\ changes[s].op = "DELETE"}
    IN  /\ changes' = [s \in kept |-> changes[s]]
        /\ overlooked' = overlooked \cup {changes[s].key : s \in unread}
        /\ UNCHANGED <<rows, nextSeq, cpos, handled, view, index>>

ReadFrom(position) == {s \in DOMAIN changes : s >= position}
PositionAfter(position, read) == IF read = {} THEN position ELSE Max(read) + 1

\* CDCConsumer.poll: the position moves, and is saved, after the last handler.
Poll ==
    /\ handled' = handled \cup ReadFrom(cpos)
    /\ cpos' = PositionAfter(cpos, ReadFrom(cpos))
    /\ UNCHANGED <<rows, changes, nextSeq, overlooked, view, index>>

\* A handler raises, or the process stops, at change n.
PollCutShort(n) ==
    /\ n \in ReadFrom(cpos)
    /\ handled' = handled \cup {s \in ReadFrom(cpos) : s < n}
    /\ UNCHANGED <<rows, changes, nextSeq, overlooked, cpos, view, index>>

\* seek, back to changes already handled
Seek(position) ==
    /\ position < cpos
    /\ cpos' = position
    /\ UNCHANGED <<rows, changes, nextSeq, overlooked, handled, view, index>>

\* MaterializedView.refresh
Viewed(data, e) == [data EXCEPT ![e.key] = IF e.after \in Shown THEN e.after ELSE NoRow]
RefreshView ==
    LET read == ReadFrom(view.pos)
        after[s \in 0..nextSeq] ==
            IF s = 0 THEN view.data
            ELSE IF s - 1 \in read THEN Viewed(after[s - 1], changes[s - 1]) ELSE after[s - 1]
    IN  /\ view' = [data |-> after[nextSeq], pos |-> PositionAfter(view.pos, read)]
        /\ UNCHANGED <<rows, changes, nextSeq, overlooked, cpos, handled, index>>

\* create_snapshot hands over every row, and the position of the last change,
\* which the stream is then read from once more.
CurrentPosition == IF DOMAIN changes = {} THEN -1 ELSE Max(DOMAIN changes)
ShownRow(k) == IF rows[k] \in Shown THEN rows[k] ELSE NoRow
SnapshotView ==
    /\ view' = [data |-> [k \in CKey |-> ShownRow(k)], pos |-> CurrentPosition]
    /\ UNCHANGED <<rows, changes, nextSeq, overlooked, cpos, handled, index>>

\* SearchIndex.refresh: an insert removes nothing.
Unindexed_Kept(ix, k) == [ix EXCEPT !.rows[k] = NoRow]
Unindexed(ix, k) ==
    IF ix.rows[k] = NoRow THEN ix
    ELSE [ix EXCEPT !.rows[k] = NoRow, !.tokens[ix.rows[k]] = @ \ {k}]
Indexed(ix, e) ==
    LET old == IF e.op = "INSERT" THEN ix ELSE Unindexed(ix, e.key)
    IN  IF e.op = "DELETE" THEN old
        ELSE [old EXCEPT !.rows[e.key] = e.after, !.tokens[e.after] = @ \cup {e.key}]
RefreshIndex ==
    LET read == ReadFrom(index.pos)
        after[s \in 0..nextSeq] ==
            IF s = 0 THEN index
            ELSE IF s - 1 \in read THEN Indexed(after[s - 1], changes[s - 1]) ELSE after[s - 1]
    IN  /\ index' = [after[nextSeq] EXCEPT !.pos = PositionAfter(index.pos, read)]
        /\ UNCHANGED <<rows, changes, nextSeq, overlooked, cpos, handled, view>>

CdcInit ==
    /\ rows = NoRows /\ changes = <<>> /\ nextSeq = 0 /\ overlooked = {}
    /\ cpos = 0 /\ handled = {} /\ view = [data |-> NoRows, pos |-> 0]
    /\ index = [rows |-> NoRows, tokens |-> NoTokens, pos |-> 0]

CdcNext ==
    \/ \E k \in CKey : \/ \E v \in CValue, op \in {"INSERT", "UPDATE"} : Change(k, op, v)
                       \/ Change(k, "DELETE", NoRow)
    \/ Compact \/ Poll
    \/ \E n \in 0..MaxSeq : PollCutShort(n) \/ Seek(n)
    \/ RefreshView \/ SnapshotView \/ RefreshIndex

CdcSpec == CdcInit /\ [][CdcNext]_cdcVars

(***************************************************************************)
(* Properties                                                              *)
(***************************************************************************)

\* Whoever has read the log to its end shows the table, with compactions between
\* any two reads: the view, from the start or from a snapshot; the consumer, which
\* has handled the last change of every key; the rows of the search index, each
\* under its token.  A key is under no other token unless compact removed a delete
\* of it that the index had not read: the insert behind it then removes nothing, and
\* the token of the deleted row stays (cdc.py:290).
DerivedFromLog ==
    /\ view.pos = nextSeq =>
          \A k \in CKey : view.data[k] = ShownRow(k)
    /\ index.pos = nextSeq =>
          /\ index.rows = rows
          /\ \A k \in CKey, v \in CValue : rows[k] = v => k \in index.tokens[v]
          /\ \A k \in CKey \ overlooked, v \in CValue : k \in index.tokens[v] => rows[k] = v
    /\ \A s \in DOMAIN changes : s < cpos => s \in handled

(***************************************************************************)
(* The inductive invariant                                                 *)
(***************************************************************************)

Row == CValue \cup {NoRow}
ChangeEvent == [op : {"INSERT", "UPDATE", "DELETE"}, key : CKey, after : Row]

\* The last change of a key that is in the log says what its row is.  An insert follows
\* a delete, or nothing: compact leaves one change of a key.
LogInv ==
    /\ nextSeq \in Nat /\ DOMAIN changes \subseteq 0..(nextSeq - 1)
    /\ rows \in [CKey -> Row] /\ \A s \in DOMAIN changes : changes[s] \in ChangeEvent
    /\ \A s \in DOMAIN changes : (changes[s].op = "DELETE") <=> (changes[s].after = NoRow)
    /\ \A s \in DOMAIN changes : IsLast(s) => changes[s].after = rows[changes[s].key]
    /\ \A s, t \in DOMAIN changes :
          (/\ s < t /\ changes[s].key = changes[t].key /\ changes[t].op = "INSERT"
           /\ \A u \in DOMAIN changes : u \in (s + 1)..(t - 1) => changes[u].key # changes[s].key)
          => changes[s].after = NoRow

\* Key k has a change from sequence number s on.
Pending(k, s) == \E t \in DOMAIN changes : t >= s /\ changes[t].key = k

\* A reader at s is right about the keys without a change that it has still to read.
ViewAt(data, s) ==
    data \in [CKey -> Row] /\ \A k \in CKey : Pending(k, s) \/ data[k] = ShownRow(k)
IndexAt(ix, s) ==
    /\ ix \in [rows : [CKey -> Row], tokens : [CValue -> SUBSET CKey], pos : Int]
    /\ \A k \in CKey : Pending(k, s) \/ ix.rows[k] = rows[k]
    /\ \A k \in CKey : ix.rows[k] # NoRow => k \in ix.tokens[ix.rows[k]]
    /\ \A k \in CKey \ overlooked, v \in CValue : k \in ix.tokens[v] => ix.rows[k] = v
    /\ \A t \in DOMAIN changes :
          (/\ t >= s /\ changes[t].op = "INSERT" /\ changes[t].key \notin overlooked
           /\ \A u \in DOMAIN changes : u \in s..(t - 1) => changes[u].key # changes[t].key)
          => ix.rows[changes[t].key] = NoRow

CdcInv ==
    /\ LogInv
    /\ view.pos \in Int /\ view.pos <= nextSeq /\ ViewAt(view.data, view.pos)
    /\ index.pos <= nextSeq /\ IndexAt(index, index.pos)
    /\ cpos \in Int /\ cpos <= nextSeq /\ \A s \in DOMAIN changes : s < cpos => s \in handled
=============================================================================

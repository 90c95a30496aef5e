-------------------------------- MODULE WAL --------------------------------
(***************************************************************************)
(* write-ahead-log/wal.py: a log of records in size-limited files, single  *)
(* records and batches between BEGIN and COMMIT, three sync modes,         *)
(* truncation, reopening after a crash, replay.                            *)
(*                                                                         *)
(* A crash may cut the unsynced tail of the last file anywhere and leave a *)
(* torn record.  Keys and values play no part in the log: a record is its  *)
(* sequence number and its type, and PUT stands for DELETE too.            *)
(***************************************************************************)
EXTENDS Integers, Sequences, FiniteSets, SequencesExt

CONSTANTS
    SyncModes,      \* sync modes the log may be opened with
    MaxSeq,         \* bound: highest sequence number
    MaxFileSize,    \* records that fill a file
    SyncEvery,      \* batch_sync_count
    MaxCrashes      \* bound: crashes and reopenings

VARIABLES
    syncMode,       \* _sync_mode
    walFiles,       \* the .wal files in the order of their names
    walUp,          \* the log is open
    seqNum,         \* _seq_num
    writeCount,     \* _write_count
    synced,         \* how many records of the last file have been fsynced
    truncating,     \* truncate in progress: its bound and the next file
    crashes,        \* crashes and closings so far (bound)
    batchCount,     \* history: batches written, also by a call that crashed
    acked,          \* history: single records acknowledged, but for those truncated
                    \*   and those a crash took before they were due to be synced
    damaged         \* history: a crash left a torn record or an open batch

walVars == <<syncMode, walFiles, walUp, seqNum, writeCount, synced, truncating,
             crashes, batchCount, acked, damaged>>

Idle == [upTo |-> 0, file |-> 0]
\* What is left of a record that a crash cut: within its key or value ("TORN"),
\* within the fields before them, so that lengths are garbage ("HEAD"), or within
\* the record's own length, which then claims more bytes than any file has ("SHORT").
CutKinds == {"TORN", "HEAD", "SHORT"}
Cut(kind) == [seq |-> 0, op |-> kind, batch |-> 0]
Unreadable(r) == r.op \in CutKinds
\* batch tells apart the batches for the properties; the code does not store it.
Rec(s, op, b) == [seq |-> s, op |-> op, batch |-> b]
Seqs(recs) == {recs[i].seq : i \in DOMAIN recs}

(***************************************************************************)
(* Reading                                                                 *)
(***************************************************************************)

\* The records of a file up to the first that _read_record cannot read.
Readable(recs) ==
    LET bad == {i \in DOMAIN recs : Unreadable(recs[i])}
    IN  IF bad = {} THEN recs
        ELSE SubSeq(recs, 1, (CHOOSE i \in bad : \A j \in bad : i <= j) - 1)

\* A cut record reads as the end of its file.  But when there are bytes behind it,
\* the checksum of a torn body fails and the iteration over all files stops;
\* unpacking behind a torn head raises an error that nobody catches.
CutBefore(recs, kinds) ==
    LET n == Len(Readable(recs)) + 1
    IN  n < Len(recs) /\ recs[n].op \in kinds
StopsReading(recs) == CutBefore(recs, {"TORN", "HEAD"})
Raises(recs) == CutBefore(recs, {"HEAD"})

ReadFiles(fs) ==
    LET stops == {i \in DOMAIN fs : StopsReading(fs[i])}
        Read(i) == \A j \in stops : i <= j
    IN  FlattenSeq([i \in DOMAIN fs |-> IF Read(i) THEN Readable(fs[i]) ELSE <<>>])

\* _read_all_records: stops at the first record out of order.
ReadAllRecords ==
    LET all == ReadFiles(walFiles)
        bad == {i \in DOMAIN all : \E j \in 1 .. i - 1 : all[j].seq >= all[i].seq}
    IN  IF bad = {} THEN all
        ELSE SubSeq(all, 1, (CHOOSE i \in bad : \A j \in bad : i <= j) - 1)

\* What stands before and behind a record in the log: BEGIN, COMMIT or nothing.
IsMark(r) == r.op \in {"BEGIN", "COMMIT"}
MarkBefore(recs, i) ==
    LET before == {j \in 1 .. i - 1 : IsMark(recs[j])}
    IN  IF before = {} THEN "COMMIT"
        ELSE recs[CHOOSE j \in before : \A k \in before : k <= j].op
MarkAfter(recs, i) ==
    LET after == {j \in i + 1 .. Len(recs) : IsMark(recs[j])}
    IN  IF after = {} THEN "BEGIN"
        ELSE recs[CHOOSE j \in after : \A k \in after : j <= k].op

Replays_Always(recs, i) == recs[i].op = "PUT"
\* replay: a record outside a batch, or in a batch that has its COMMIT.
Replays(recs, i) ==
    /\ recs[i].op = "PUT"
    /\ MarkBefore(recs, i) = "BEGIN" => MarkAfter(recs, i) = "COMMIT"

Replay == LET recs == ReadAllRecords
          IN  {recs[i] : i \in {j \in DOMAIN recs : Replays(recs, j)}}

\* _recover_seq_num looks at every file, each up to its first unreadable record.
RecoverSeqNum ==
    LET s == UNION {Seqs(Readable(walFiles[i])) : i \in DOMAIN walFiles} \cup {0}
    IN  CHOOSE n \in s : \A k \in s : k <= n

(***************************************************************************)
(* Writing                                                                 *)
(***************************************************************************)

Current == walFiles[Len(walFiles)]
\* _do_sync: whether the file is fsynced, and the count of the batch mode.
Syncs(force) == \/ syncMode = "sync" \/ force
                \/ syncMode = "batch" /\ writeCount + 1 >= SyncEvery
WriteCountAfter(force) ==
    IF syncMode # "batch" \/ force THEN writeCount
    ELSE IF Syncs(force) THEN 0 ELSE writeCount + 1

\* write, _do_sync and _maybe_rotate.
Written(recs, force) ==
    LET file == Current \o recs
        full == Len(file) >= MaxFileSize
        fs   == [walFiles EXCEPT ![Len(walFiles)] = file]
    IN  /\ walFiles' = IF full THEN Append(fs, <<>>) ELSE fs
        /\ synced' = IF full THEN 0 ELSE IF Syncs(force) THEN Len(file) ELSE synced
        /\ writeCount' = WriteCountAfter(force)

Single == <<Rec(seqNum + 1, "PUT", 0)>>
Batch == LET b == batchCount + 1
         IN  <<Rec(seqNum + 1, "BEGIN", b), Rec(seqNum + 2, "PUT", b),
               Rec(seqNum + 3, "PUT", b), Rec(seqNum + 4, "COMMIT", b)>>
Mark == <<Rec(seqNum + 1, "CHECKPOINT", 0)>>

CanWrite(recs) == walUp /\ truncating = Idle /\ seqNum + Len(recs) <= MaxSeq

WalAppend ==
    /\ CanWrite(Single)
    /\ Written(Single, FALSE)
    /\ seqNum' = seqNum + 1
    /\ acked' = acked \cup {seqNum + 1}
    /\ UNCHANGED <<syncMode, walUp, truncating, crashes, batchCount, damaged>>

AppendBatch ==
    /\ CanWrite(Batch)
    /\ Written(Batch, TRUE)
    /\ seqNum' = seqNum + 4
    /\ batchCount' = batchCount + 1
    /\ UNCHANGED <<syncMode, walUp, truncating, crashes, acked, damaged>>

Checkpoint ==
    /\ CanWrite(Mark)
    /\ Written(Mark, TRUE)
    /\ seqNum' = seqNum + 1
    /\ UNCHANGED <<syncMode, walUp, truncating, crashes, batchCount, acked, damaged>>

(***************************************************************************)
(* Truncation: file by file, so that a crash may come between two files    *)
(***************************************************************************)

\* Numbers that append, append_batch or checkpoint returned.
Returned == {r \in Range(ReadAllRecords) : r.op # "BEGIN" /\ (r.op = "PUT" => r.batch = 0)}

Truncate ==
    /\ walUp /\ truncating = Idle
    /\ \E r \in Returned :
          /\ truncating' = [upTo |-> r.seq, file |-> 1]
          /\ acked' = {s \in acked : s > r.seq}
    /\ synced' = Len(Current)
    /\ UNCHANGED <<syncMode, walFiles, walUp, seqNum, writeCount, crashes, batchCount, damaged>>

Kept_OffByOne(recs, upTo) == SelectSeq(Readable(recs), LAMBDA r : r.seq > upTo + 1)
\* What truncate keeps of a file.
Kept(recs, upTo) == SelectSeq(Readable(recs), LAMBDA r : r.seq > upTo)

\* One file of truncate's loop: removed, or replaced by its kept records.
TruncateFile ==
    LET i == truncating.file
        kept == Kept(walFiles[i], truncating.upTo)
    IN  /\ truncating # Idle /\ i <= Len(walFiles) /\ ~Raises(walFiles[i])
        /\ IF kept = <<>>
           THEN walFiles' = RemoveAt(walFiles, i) /\ UNCHANGED truncating
           ELSE /\ walFiles' = [walFiles EXCEPT ![i] = kept]
                /\ truncating' = [truncating EXCEPT !.file = i + 1]
        /\ synced' = 0
        /\ UNCHANGED <<syncMode, walUp, seqNum, writeCount, crashes, batchCount, acked, damaged>>

\* _open_latest: the last file, or a new one when there is none or it is full.
Opened(fs) == IF fs # <<>> /\ Len(fs[Len(fs)]) < MaxFileSize THEN fs ELSE Append(fs, <<>>)

OpenLatest ==
    /\ walFiles' = Opened(walFiles)
    /\ synced' = LET fs == Opened(walFiles) IN Len(fs[Len(fs)])

TruncateEnds ==
    /\ truncating # Idle /\ truncating.file > Len(walFiles)
    /\ OpenLatest
    /\ truncating' = Idle
    /\ UNCHANGED <<syncMode, walUp, seqNum, writeCount, crashes, batchCount, acked, damaged>>

(***************************************************************************)
(* Closing, crashing, reopening                                            *)
(***************************************************************************)

Close ==
    /\ walUp /\ truncating = Idle /\ crashes < MaxCrashes
    /\ walUp' = FALSE
    /\ crashes' = crashes + 1
    /\ synced' = Len(Current)
    /\ UNCHANGED <<syncMode, walFiles, seqNum, writeCount, truncating, batchCount, acked, damaged>>

OpenBatch(recs) == recs # <<>> /\ MarkBefore(recs, Len(recs) + 1) = "BEGIN"

\* A crash while recs are being written (none between two calls): what was not
\* synced is cut anywhere, inside a record or between two.
Crash(recs) ==
    /\ CanWrite(recs) /\ crashes < MaxCrashes
    /\ \E n \in synced .. Len(Current \o recs), cut \in {<<>>} \cup {<<Cut(kind)>> : kind \in CutKinds} :
          LET fs == [walFiles EXCEPT ![Len(walFiles)] = SubSeq(Current \o recs, 1, n) \o cut]
          IN  /\ cut # <<>> => n < Len(Current \o recs)
              /\ walFiles' = fs
              /\ damaged' = (damaged \/ cut # <<>> \/ OpenBatch(ReadFiles(fs)))
    /\ walUp' = FALSE
    /\ crashes' = crashes + 1
    /\ acked' = acked \ Seqs(SubSeq(Current, synced + 1, Len(Current)))
    /\ batchCount' = IF Len(recs) > 1 THEN batchCount + 1 ELSE batchCount
    /\ UNCHANGED <<syncMode, seqNum, writeCount, synced, truncating>>

\* A crash between two files, or a file on which reading raises: no file is open
\* for writing then.
CrashInTruncate ==
    /\ truncating # Idle
    /\ \/ crashes < MaxCrashes /\ crashes' = crashes + 1
       \/ truncating.file <= Len(walFiles) /\ Raises(walFiles[truncating.file]) /\ UNCHANGED crashes
    /\ walUp' = FALSE
    /\ truncating' = Idle
    /\ UNCHANGED <<syncMode, walFiles, seqNum, writeCount, synced, batchCount, acked, damaged>>

Reopen ==
    /\ ~walUp /\ \A i \in DOMAIN walFiles : ~Raises(walFiles[i])
    /\ walUp' = TRUE
    /\ seqNum' = RecoverSeqNum
    /\ writeCount' = 0
    /\ OpenLatest
    /\ UNCHANGED <<syncMode, truncating, crashes, batchCount, acked, damaged>>

(***************************************************************************)
(* Specification                                                           *)
(***************************************************************************)

WalInit ==
    /\ syncMode \in SyncModes
    /\ walFiles = << <<>> >>
    /\ walUp = TRUE
    /\ seqNum = 0 /\ writeCount = 0 /\ synced = 0
    /\ truncating = Idle
    /\ crashes = 0
    /\ batchCount = 0 /\ acked = {} /\ damaged = FALSE

WalNext ==
    \/ WalAppend \/ AppendBatch \/ Checkpoint
    \/ Truncate \/ TruncateFile \/ TruncateEnds
    \/ Close \/ \E recs \in {<<>>, Single, Batch} : Crash(recs)
    \/ CrashInTruncate \/ Reopen

WalSpec == WalInit /\ [][WalNext]_walVars

(***************************************************************************)
(* Properties                                                              *)
(***************************************************************************)

WalRecord == [seq : 0 .. MaxSeq, op : {"PUT", "BEGIN", "COMMIT", "CHECKPOINT"} \cup CutKinds,
              batch : 0 .. MaxSeq]

\* Types; the synced part of the last file is part of it.
WalTypeOK ==
    /\ syncMode \in {"sync", "batch", "none"}
    /\ walFiles \in Seq(Seq(WalRecord))
    /\ walUp \in BOOLEAN /\ damaged \in BOOLEAN
    /\ seqNum \in 0 .. MaxSeq /\ acked \subseteq 1 .. MaxSeq
    /\ walUp /\ truncating = Idle => synced \in 0 .. Len(Current) /\ Len(Current) < MaxFileSize

\* What append acknowledged, replay returns, as long as no crash left a torn
\* record or an open batch: rotation, truncation with a crash between two of its
\* files, and reopening lose nothing that was due to be on disk.
AckedReplayed == ~damaged => acked \subseteq {r.seq : r \in Replay}

\* append_batch is atomic: replay returns all the records of a batch or none,
\* after any crash and any truncation.
BatchesAtomic ==
    \A b \in 1 .. batchCount : Cardinality({r \in Replay : r.batch = b}) \in {0, 2}

\* The order check of _read_all_records never ends a replay early: the numbers
\* that reopening recovers keep the readable records in increasing order.
ReadableInOrder ==
    LET all == ReadFiles(walFiles)
    IN  \A i, j \in DOMAIN all : i < j => all[i].seq < all[j].seq
============================================================================

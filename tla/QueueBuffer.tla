----------------------------- MODULE QueueBuffer -----------------------------
(***************************************************************************)
(* The disk queue of a buffered filter or output (pipeline/queue_buffer.go *)
(* and the part of pipeline/splitter_runner.go it reads with).             *)
(*                                                                         *)
(* The MatchRunner's goroutine appends framed records to the newest queue  *)
(* file (BufferFeeder.QueueRecord).  The plugin's goroutine reads them     *)
(* (BufferReader.NextRecord) and hands each to the plugin with a cursor,   *)
(* the place in the queue where the record ends.  When the plugin has      *)
(* finalized a record it passes the cursor back (updateCursor), which      *)
(* moves the checkpoint on disk and deletes the files passed.  The process *)
(* may stop or die at any step; the next one starts from what is on disk.  *)
(*                                                                         *)
(* A file is a sequence of cells.  A record is two: its header, which the  *)
(* framing adds, and its body, the MsgBytes.  Offsets and sizes count      *)
(* cells.                                                                  *)
(***************************************************************************)
EXTENDS Integers, Sequences, FiniteSets, FiniteSetsExt, Functions

CONSTANTS
    MaxFileSize,        \* max_file_size
    MaxBufferSize,      \* max_buffer_size, 0 for no limit
    FullAction,         \* full_action: "shutdown", "drop" or "block"
    CursorUpdateCount,  \* cursor_update_count
    Restarting,         \* the plugin implements Restarting
    Ticker,             \* the plugin has a ticker_interval
    DiskErrors,         \* a write may fail after writing some bytes
    TornWrites,         \* a crash may leave part of a record on disk
    MaxRecs,            \* bound: messages the MatchRunner delivers
    MaxFileId,          \* bound: a process opens no file with a larger id
    MaxStops            \* bound: times the plugin or the process goes down or restarts

ASSUME QueueAssumption ==
    /\ MaxFileSize \in Nat \ {0} /\ MaxBufferSize \in Nat
    /\ FullAction \in {"shutdown", "drop", "block"}
    /\ CursorUpdateCount \in Nat \ {0}
    /\ {Restarting, Ticker, DiskErrors, TornWrites} \subseteq BOOLEAN
    /\ MaxRecs \in Nat /\ MaxFileId \in Nat /\ MaxStops \in Nat

VARIABLES
    files,       \* on disk: the queue files, by id
    checkpoint,  \* on disk: <<id, offset>>, or NoCheckpoint, or EmptyCheckpoint
    fpc,         \* the feeder: "down", "idle", "write", "partial", "closed"
    next,        \* the message it is given next
    closing,     \* the MatchRunner's closing flag
    writeId, writeFileSize, queueSize,
    rpc,         \* the reader: "down", "failed", "init", "top", "eof", "have",
                 \* "stop", "off", "panic"
    readId, readOffset,
    pos,         \* the position of the open readFile
    sbuf,        \* the splitter's buffer, from scanPos to readPos
    needData,
    pack,        \* whether NewStreamOutput has a pack to fill
    rec,         \* the record it is handing to the plugin, if any, with its cursor
    cursorId, cursorOffset, cursorCount,
    ckOpen,      \* checkpointFile # nil
    upc, delId,  \* updateCursor: "idle", "flush", "delete"; next file to delete
    handed,      \* the plugin: records it has and has not finalized
    queued,      \* history: messages QueueRecord accepted
    acked,       \* history: messages the plugin finalized or dropped
    skipped,     \* history: messages written to a file after its end was read
    stops        \* times the plugin or the process was stopped or restarted

diskVars   == <<files, checkpoint>>
feederVars == <<fpc, next, closing, writeId, writeFileSize>>
readVars   == <<rpc, readId, readOffset, pos, sbuf, needData, pack, rec>>
cursorVars == <<cursorId, cursorOffset, cursorCount, ckOpen, upc, delId>>
histVars   == <<queued, acked, skipped, stops>>
vars == <<diskVars, feederVars, queueSize, readVars, cursorVars, handed, histVars>>

------------------------------------------------------------------------------
Recs == 1..MaxRecs

\* No checkpoint file, and one that was opened (hence truncated) but not written.
NoCheckpoint == <<>>
EmptyCheckpoint == <<"empty">>

Frame(r) == << <<r, "h">>, <<r, "b">> >>
BodyLen == 1
FrameLen == 2

Ids == DOMAIN files
SumSizes(f) == MapThenSumSet(LAMBDA id : Len(f[id]), DOMAIN f)
WithFile(f, id) == [i \in DOMAIN f \cup {id} |-> IF i \in DOMAIN f THEN f[i] ELSE <<>>]

\* The order of places in the queue.
Leq(a, b) == a[1] < b[1] \/ (a[1] = b[1] /\ a[2] <= b[2])

cursor == <<cursorId, cursorOffset>>

Init ==
    /\ files = [i \in {} |-> <<>>] /\ checkpoint = NoCheckpoint
    /\ fpc = "down" /\ next = 1 /\ closing = FALSE
    /\ writeId = 0 /\ writeFileSize = 0 /\ queueSize = 0
    /\ rpc = "down" /\ readId = 0 /\ readOffset = 0 /\ pos = 0
    /\ sbuf = <<>> /\ needData = TRUE /\ pack = FALSE /\ rec = <<>>
    /\ cursorId = 0 /\ cursorOffset = 0 /\ cursorCount = 0 /\ ckOpen = FALSE
    /\ upc = "idle" /\ delId = 0
    /\ handed = <<>>
    /\ queued = {} /\ acked = {} /\ skipped = {} /\ stops = 0

------------------------------------------------------------------------------
(* Starting and stopping.                                                  *)


\* initReadFile, with the queue files fs: the checkpoint, or the oldest file.
InitReadFile(fs) ==
    IF checkpoint = NoCheckpoint THEN <<Min(DOMAIN fs), 0>>
    ELSE IF checkpoint[1] \in DOMAIN fs THEN checkpoint
    ELSE <<Min({id \in DOMAIN fs : id >= checkpoint[1]}), 0>>


\* The end of NewBufferReader: the cursor starts where the reader does.
StartAt(at) ==
    /\ readId' = at[1] /\ readOffset' = at[2]
    /\ cursorId' = at[1] /\ cursorOffset' = at[2]

\* NewBufferSet.  NewBufferFeeder opens a new file after the newest one;
\* NewBufferReader starts where the checkpoint says, or at the oldest file.
\* An empty checkpoint is an error and the process does not come up.
NewBufferSet ==
    /\ rpc = "down"
    /\ queueSize' = SumSizes(files)
    /\ LET id == IF Ids = {} THEN 0 ELSE Max(Ids) + 1
           new == WithFile(files, id)
       IN  /\ id <= MaxFileId
           /\ files' = new
           /\ writeId' = id /\ writeFileSize' = 0
           /\ IF checkpoint = EmptyCheckpoint
              THEN /\ rpc' = "failed"
                   /\ UNCHANGED <<fpc, readId, readOffset, cursorId, cursorOffset>>
              ELSE rpc' = "init" /\ fpc' = "idle" /\ StartAt(InitReadFile(new))
    /\ UNCHANGED <<checkpoint, next, closing, pos, sbuf, needData, pack, rec, cursorCount,
                   ckOpen, upc, delId, handed, histVars>>

\* The process is gone: only the disk is left.
Down ==
    /\ fpc' = "down" /\ closing' = FALSE /\ rpc' = "down"
    /\ readId' = 0 /\ readOffset' = 0 /\ pos' = 0
    /\ sbuf' = <<>> /\ needData' = TRUE /\ pack' = FALSE /\ rec' = <<>>
    /\ cursorId' = 0 /\ cursorOffset' = 0 /\ cursorCount' = 0 /\ ckOpen' = FALSE
    /\ upc' = "idle" /\ delId' = 0 /\ handed' = <<>>
    /\ writeId' = 0 /\ writeFileSize' = 0 /\ queueSize' = 0
    /\ UNCHANGED <<checkpoint, queued, acked, skipped>>

\* A hard shutdown at any step; with TornWrites a record being written may
\* be cut short.  The message being delivered is lost with the process.
Crash ==
    /\ rpc \notin {"down", "failed", "panic"}
    /\ stops < MaxStops
    /\ stops' = stops + 1
    /\ \/ UNCHANGED files
       \/ /\ TornWrites /\ fpc = "write"
          /\ files' = [files EXCEPT ![writeId] = Append(@, <<next, "h">>)]
    /\ next' = IF fpc \in {"write", "partial"} THEN next + 1 ELSE next
    /\ Down

\* MatchRunner.Close: the process is shutting down, or the plugin has ended.
Close ==
    /\ fpc # "down" /\ ~closing
    /\ \/ rpc = "off" /\ UNCHANGED stops
       \/ rpc # "off" /\ stops < MaxStops /\ stops' = stops + 1
    /\ closing' = TRUE
    /\ UNCHANGED <<diskVars, fpc, next, writeId, writeFileSize, queueSize, readVars,
                   cursorVars, handed, queued, acked, skipped>>

\* MatchRunner.run has delivered all it had and closes stopChan.
RunEnds ==
    /\ closing /\ fpc = "idle"
    /\ fpc' = "closed"
    /\ UNCHANGED <<diskVars, next, closing, writeId, writeFileSize, queueSize,
                   readVars, cursorVars, handed, histVars>>

\* The process ends after its plugin has.
Exit ==
    /\ rpc = "off" /\ fpc = "closed" /\ upc = "idle"
    /\ Down
    /\ UNCHANGED <<files, next, stops>>

------------------------------------------------------------------------------
(* The feeder: BufferFeeder.QueueRecord, called by MatchRunner.deliver.    *)

\* A variant that leaves out the message itself.
QueueIsFullBefore == MaxBufferSize > 0 /\ queueSize > MaxBufferSize

QueueIsFull == MaxBufferSize > 0 /\ queueSize + BodyLen > MaxBufferSize

\* The message is given up, "shutdown" having called ShutDown as well; "block"
\* tries again until there is room or the runner is closing.
QueueFull ==
    /\ fpc = "idle" /\ next <= MaxRecs
    /\ QueueIsFull
    /\ FullAction = "block" => closing
    /\ next' = next + 1
    /\ UNCHANGED <<diskVars, fpc, closing, writeId, writeFileSize, queueSize, readVars,
                   cursorVars, handed, histVars>>

\* RollQueue when the message does not fit in the file, then to the write.
QueueRecord ==
    /\ fpc = "idle" /\ next <= MaxRecs
    /\ ~QueueIsFull
    /\ fpc' = "write"
    /\ IF writeFileSize + BodyLen > MaxFileSize
       THEN /\ writeId' = writeId + 1
            /\ writeFileSize' = 0
            /\ files' = WithFile(files, writeId + 1)
       ELSE UNCHANGED <<writeId, writeFileSize, files>>
    /\ UNCHANGED <<checkpoint, next, closing, queueSize, readVars, cursorVars, handed,
                   histVars>>

\* writeFile.Write succeeds and the sizes follow.
WriteRecord ==
    /\ fpc = "write"
    /\ files' = [files EXCEPT ![writeId] = @ \o Frame(next)]
    /\ queueSize' = queueSize + FrameLen
    /\ writeFileSize' = writeFileSize + FrameLen
    /\ queued' = queued \cup {next}
    /\ next' = next + 1
    /\ fpc' = "idle"
    /\ UNCHANGED <<checkpoint, closing, writeId, readVars, cursorVars, handed, acked,
                   skipped, stops>>

\* The write fails and the message is given up; what it wrote, if anything, is
\* truncated in a second step.
WriteFails ==
    /\ fpc = "write" /\ DiskErrors
    /\ \/ /\ files' = [files EXCEPT ![writeId] = Append(@, <<next, "h">>)]
          /\ fpc' = "partial"
          /\ UNCHANGED next
       \/ /\ fpc' = "idle" /\ next' = next + 1
          /\ UNCHANGED files
    /\ UNCHANGED <<checkpoint, closing, writeId, writeFileSize, queueSize, readVars,
                   cursorVars, handed, histVars>>

WriteTruncate ==
    /\ fpc = "partial"
    /\ files' = [files EXCEPT ![writeId] = SubSeq(@, 1, Len(@) - 1)]
    /\ next' = next + 1
    /\ fpc' = "idle"
    /\ UNCHANGED <<checkpoint, closing, writeId, writeFileSize, queueSize, readVars,
                   cursorVars, handed, histVars>>

------------------------------------------------------------------------------
(* The reader: BufferReader.NewStreamOutput.                               *)

\* initReadFile: back to the checkpoint.  The splitter is not touched.
OpenStream ==
    /\ rpc = "init"
    /\ LET at == InitReadFile(files)
       IN  readId' = at[1] /\ readOffset' = at[2] /\ pos' = at[2]
    /\ rpc' = "top" /\ pack' = FALSE
    /\ UNCHANGED <<diskVars, feederVars, queueSize, sbuf, needData, rec,
                   cursorVars, handed, histVars>>

\* At the top of the loop, without a pack: wait for one.
TakePack ==
    /\ rpc = "top" /\ ~pack
    /\ pack' = TRUE
    /\ UNCHANGED <<diskVars, feederVars, queueSize, rpc, readId, readOffset, pos,
                   sbuf, needData, rec, cursorVars, handed, histVars>>

\* HekaFramingSplitter.FindRecord: the cells before the first header.
Garbage(b) ==
    CHOOSE n \in 0..Len(b) :
        /\ \A i \in 1..n : b[i][2] # "h"
        /\ n = Len(b) \/ b[n + 1][2] = "h"

\* FindRecord on the buffer b, then the rest of NextRecord: no record yet, a
\* record that decodes, or one that does not (its body is not its own).
ScanBuffer(b) ==
    LET skip == Garbage(b)
        rest == SubSeq(b, skip + 1, Len(b))
        end == readOffset + skip + FrameLen
    IN  IF Len(rest) < FrameLen
        THEN /\ sbuf' = rest /\ needData' = TRUE
             /\ readOffset' = readOffset + skip
             /\ UNCHANGED <<rpc, rec>>
        ELSE /\ sbuf' = SubSeq(rest, FrameLen + 1, Len(rest))
             /\ needData' = (Len(rest) = FrameLen)
             /\ readOffset' = end
             /\ IF ~pack
                THEN rpc' = "panic" /\ UNCHANGED rec
                ELSE IF rest[2] = <<rest[1][1], "b">>
                THEN /\ rpc' = "have"
                     /\ rec' = << [r |-> rest[1][1], at |-> <<readId, end>>] >>
                ELSE rpc' = "stop" /\ UNCHANGED rec

\* NextRecord: GetRecordFromStream reads some of what the file has, unless
\* the buffer still held a record last time.  Without a pack it is called
\* only when the ticker fired first.
NextRecord ==
    /\ rpc = "top"
    /\ pack \/ Ticker
    /\ IF needData
       THEN LET have == Len(files[readId])
            IN  IF pos >= have
                THEN /\ rpc' = "eof"
                     /\ UNCHANGED <<pos, sbuf, needData, readOffset, rec>>
                ELSE \E n \in (pos + 1)..have :
                        /\ pos' = n
                        /\ ScanBuffer(sbuf \o SubSeq(files[readId], pos + 1, n))
       ELSE ScanBuffer(sbuf) /\ UNCHANGED pos
    /\ UNCHANGED <<diskVars, feederVars, queueSize, readId, pack, cursorVars, handed,
                   queued, acked, skipped, stops>>

\* The messages whose records start in file id at or after offset o.
RecsFrom(id, o) ==
    {files[id][i][1] : i \in {j \in (o + 1)..Len(files[id]) : files[id][j][2] = "h"}}


\* getFileFromId(readId + 1) chooses among these.
NewerFiles == {id \in Ids : id > readId}

\* A variant that forgets the offset.
EnterFileKeepOffset(id) == readId' = id /\ pos' = 0 /\ UNCHANGED readOffset

EnterFile(id) == readId' = id /\ pos' = 0 /\ readOffset' = 0

\* At the end of the file: getFileFromId(readId + 1).  With a newer file
\* there, go on to it; otherwise the file may still grow.
NextFile ==
    /\ rpc = "eof"
    /\ rpc' = "top"
    /\ IF NewerFiles = {}
       THEN UNCHANGED <<readId, readOffset, pos, skipped>>
       ELSE /\ EnterFile(Min(NewerFiles))
            /\ skipped' = skipped \cup (RecsFrom(readId, pos) \cap queued)
    /\ UNCHANGED <<diskVars, feederVars, queueSize, sbuf, needData, pack, rec,
                   cursorVars, handed, queued, acked, stops>>

\* sender.ProcessMessage returns nil.
Process ==
    /\ rpc = "have"
    /\ handed' = handed \o rec
    /\ rpc' = "top" /\ pack' = FALSE /\ rec' = <<>>
    /\ UNCHANGED <<diskVars, feederVars, queueSize, readId, readOffset, pos, sbuf,
                   needData, cursorVars, histVars>>

\* It returns an error that is neither fatal nor to be retried.
ProcessDrops ==
    /\ rpc = "have"
    /\ acked' = acked \cup {rec[1].r}
    /\ rpc' = "top" /\ pack' = FALSE /\ rec' = <<>>
    /\ UNCHANGED <<diskVars, feederVars, queueSize, readId, readOffset, pos, sbuf,
                   needData, cursorVars, handed, queued, skipped, stops>>

\* NewStreamOutput returns: stopChan is closed, seen at the top of the loop or
\* between two retries, or the plugin fails with a PluginExitError.
StopStream ==
    /\ rpc \in {"top", "have"}
    /\ \/ fpc = "closed" /\ UNCHANGED stops
       \/ /\ fpc # "closed"
          /\ rpc = "have" \/ Ticker
          /\ stops < MaxStops /\ stops' = stops + 1
    /\ rpc' = "stop" /\ rec' = <<>>
    /\ UNCHANGED <<diskVars, feederVars, queueSize, readId, readOffset, pos, sbuf,
                   needData, pack, cursorVars, handed, queued, acked, skipped>>


\* What writeCheckpoint is called with.
CheckpointPlace == cursor

\* The deferred function: writeCheckpoint with the cursor (opening the file
\* truncates it, a step of its own), then the files are closed.
CloseStream ==
    /\ rpc = "stop" /\ upc = "idle"
    /\ IF ckOpen
       THEN /\ checkpoint' = CheckpointPlace
            /\ ckOpen' = FALSE
            /\ rpc' = "off"
       ELSE /\ checkpoint' = EmptyCheckpoint
            /\ ckOpen' = TRUE
            /\ UNCHANGED rpc
    /\ UNCHANGED <<files, feederVars, queueSize, readId, readOffset, pos, sbuf,
                   needData, pack, rec, cursorId, cursorOffset, cursorCount, upc,
                   delId, handed, histVars>>

\* foRunner.Starter runs the loop again for a plugin that implements
\* Restarting, which starts with nothing in hand.
RestartPlugin ==
    /\ rpc = "off" /\ upc = "idle" /\ Restarting /\ ~closing
    /\ stops < MaxStops /\ stops' = stops + 1
    /\ rpc' = "init"
    /\ handed' = <<>>
    /\ UNCHANGED <<diskVars, feederVars, queueSize, readId, readOffset, pos, sbuf,
                   needData, pack, rec, cursorVars, queued, acked, skipped>>

------------------------------------------------------------------------------
(* The plugin finalizes what it has up to its n-th record: updateCursor.   *)

CountOnly == cursorCount < CursorUpdateCount

UpdateCursor(n) ==
    /\ upc = "idle" /\ rpc # "stop"
    /\ n \in 1..Len(handed)
    /\ handed' = SubSeq(handed, n + 1, Len(handed))
    /\ acked' = acked \cup {handed[i].r : i \in 1..n}
    /\ LET at == handed[n].at IN
         IF Leq(at, cursor)
         THEN UNCHANGED cursorVars
         ELSE /\ cursorId' = at[1] /\ cursorOffset' = at[2]
              /\ delId' = cursorId
              /\ IF at[1] = cursorId /\ CountOnly
                 THEN cursorCount' = cursorCount + 1 /\ UNCHANGED upc
                 ELSE upc' = "flush" /\ UNCHANGED cursorCount
              /\ UNCHANGED ckOpen
    /\ UNCHANGED <<diskVars, feederVars, queueSize, readVars, queued, skipped, stops>>

\* writeCheckpoint; the first time the file is opened, which truncates it.
FlushCursor ==
    /\ upc = "flush"
    /\ IF ckOpen
       THEN /\ checkpoint' = CheckpointPlace
            /\ cursorCount' = 0
            /\ upc' = IF delId < cursorId THEN "delete" ELSE "idle"
            /\ UNCHANGED ckOpen
       ELSE /\ checkpoint' = EmptyCheckpoint
            /\ ckOpen' = TRUE
            /\ UNCHANGED <<cursorCount, upc>>
    /\ UNCHANGED <<files, feederVars, queueSize, readVars, cursorId, cursorOffset,
                   delId, handed, histVars>>

\* A variant that complements the size where size - 1 is to be complemented.
DeletedSizeOffByOne == IF delId \in Ids THEN Len(files[delId]) + 1 ELSE 0

DeletedSize == IF delId \in Ids THEN Len(files[delId]) ELSE 0

\* One turn of the loop that deletes the files the cursor has passed.
DeleteFile ==
    /\ upc = "delete"
    /\ files' = Restrict(files, Ids \ {delId})
    /\ queueSize' = queueSize - DeletedSize
    /\ delId' = delId + 1
    /\ upc' = IF delId + 1 < cursorId THEN "delete" ELSE "idle"
    /\ UNCHANGED <<checkpoint, feederVars, readVars, cursorId, cursorOffset,
                   cursorCount, ckOpen, handed, histVars>>

------------------------------------------------------------------------------
Feeder == QueueFull \/ QueueRecord \/ WriteRecord \/ WriteFails \/ WriteTruncate
            \/ RunEnds
Reader == OpenStream \/ TakePack \/ NextRecord \/ NextFile \/ Process
            \/ ProcessDrops \/ CloseStream
Cursor == (\E n \in 1..Len(handed) : UpdateCursor(n)) \/ FlushCursor \/ DeleteFile

Next == \/ NewBufferSet \/ Crash \/ Close \/ Exit
        \/ Feeder \/ Reader \/ Cursor
        \/ StopStream \/ RestartPlugin

Spec == Init /\ [][Next]_vars

\* Every goroutine that can move does, a process that is down is started
\* again, and the plugin finalizes what it is handed.
Fairness ==
    /\ WF_vars(NewBufferSet) /\ WF_vars(Exit) /\ WF_vars(rpc = "off" /\ Close)
    /\ WF_vars(Feeder) /\ WF_vars(Reader) /\ WF_vars(fpc = "closed" /\ StopStream)
    /\ WF_vars(FlushCursor \/ DeleteFile)
    /\ WF_vars(UpdateCursor(Len(handed)))

FairSpec == Spec /\ Fairness

------------------------------------------------------------------------------
(* Properties.                                                             *)

Places == Nat \X Nat
Handing == [r : Recs, at : Places]
Cells == Recs \X {"h", "b"}

\* Types of the variables, and the range of the count between two flushes.
TypeOK ==
    /\ \A id \in Ids : id \in Nat /\ files[id] \in Seq(Cells)
    /\ checkpoint \in Places \/ checkpoint \in {NoCheckpoint, EmptyCheckpoint}
    /\ fpc \in {"down", "idle", "write", "partial", "closed"}
    /\ next \in 1..(MaxRecs + 1) /\ closing \in BOOLEAN
    /\ writeId \in Nat /\ writeFileSize \in Nat /\ queueSize \in Nat
    /\ rpc \in {"down", "failed", "init", "top", "eof", "have", "stop", "off", "panic"}
    /\ readId \in Nat /\ readOffset \in Nat /\ pos \in Nat
    /\ sbuf \in Seq(Cells) /\ needData \in BOOLEAN /\ pack \in BOOLEAN
    /\ rec \in Seq(Handing) /\ Len(rec) <= 1
    /\ cursor \in Places /\ cursorCount \in 0..CursorUpdateCount
    /\ ckOpen \in BOOLEAN /\ upc \in {"idle", "flush", "delete"} /\ delId \in Nat
    /\ handed \in Seq(Handing)
    /\ {queued, acked, skipped} \subseteq SUBSET Recs
    /\ stops \in 0..MaxStops

Up == rpc \notin {"down", "failed"}

\* Record r is whole in file id, its frame starting at offset o.
WholeAt(r, id, o) ==
    id \in Ids /\ o + FrameLen <= Len(files[id])
       /\ SubSeq(files[id], o + 1, o + FrameLen) = Frame(r)

\* Where the next process starts to read, were this one to die now.
RestartPlace == IF checkpoint \in Places THEN checkpoint ELSE <<Min(Ids), 0>>


\* BufferSize: the shared count, which the feeder adds to and the cursor
\* subtracts from, is what the files hold, a failed write apart.
QueueSizeExact ==
    Up => queueSize = SumSizes(files) - (IF fpc = "partial" THEN 1 ELSE 0)


\* NextRecord: the cursor given with a record is the place where this record
\* ends, in a file that is still there until the plugin is done with it.
CursorEndsRecord ==
    \A h \in Range(handed \o rec) :
        WholeAt(h.r, h.at[1], h.at[2] - FrameLen)

\* QueueRecord: the files never hold more than max_buffer_size and the framing
\* of one record.
BoundedDisk ==
    MaxBufferSize > 0 =>
        SumSizes(files) <= MaxBufferSize + (FrameLen - BodyLen)


\* The plugin's view of the queue: Msgs in hand, finalized, passed over.
Promise == INSTANCE DeliveryQueue WITH
               Msgs <- Recs, accepted <- queued, done <- acked, passed <- skipped,
               hand <- [i \in DOMAIN handed |-> handed[i].r]


------------------------------------------------------------------------------
(* What the documentation and the comments say, and the code does not do.  *)

\* NextRecord at the end of a file: a file that has a newer one is complete, so
\* no record is left behind in it.
NothingSkipped == skipped = {}

\* Buffering helps Heka recover from a hard shutdown: the queue a process left
\* behind can be opened by the next one.
StartsAgain == rpc # "failed"
==============================================================================

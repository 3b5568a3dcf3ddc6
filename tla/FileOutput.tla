----------------------------- MODULE FileOutput ------------------------------
(***************************************************************************)
(* plugins/file/file_output.go: the receiver collects encoded messages in  *)
(* a batch and hands it to the committer, a goroutine that writes it to    *)
(* the file, updates the queue's cursor and hands the batch back.  The     *)
(* committer also reopens the file at a SIGHUP or a rotation.  Messages    *)
(* are numbered; a batch is the set of those in it.                        *)
(***************************************************************************)
EXTENDS Integers, FiniteSets, FiniteSetsExt

CONSTANTS FoMaxMsgs,    \* messages
          FoMaxTicks,   \* times the timer fires
          FoMaxReopens  \* reloads and rotations

VARIABLES
    foconf,     \* opAnd: flush_operator; timer: flush_interval > 0; count: flush_count
    recv,       \* pc: "select", "send", "await", "last", "close", "done"; batch;
                \*   cursor: of the last one in it;
                \*   msgCounter; elapsed: intervalElapsed; next: the next message;
                \*   closed: inChan is closed
    comm,       \* pc: "select", "write", "done"; batch; cursor; batchClosed
    backChan,   \* batches on the way back
    errChan,    \* the committer has failed
    fotick,     \* a tick waits in the timer's channel
    fobound,    \* [ticks, reopens]: how many more
    fodisk,     \* the messages in the file
    focursor,   \* UpdateCursor's last argument
    folost      \* history: messages in a batch that could not be written

fovars == <<foconf, recv, comm, backChan, errChan, fotick, fobound, fodisk, focursor, folost>>

FoInit ==
    /\ foconf \in [opAnd : BOOLEAN, timer : BOOLEAN, count : {1, 2}]
    /\ recv = [pc |-> "select", batch |-> {}, cursor |-> 0, msgCounter |-> 0, elapsed |-> FALSE,
               next |-> 1, closed |-> FALSE]
    /\ comm = [pc |-> "select", batch |-> {}, cursor |-> 0, batchClosed |-> FALSE]
    /\ backChan = 1 /\ errChan = FALSE /\ fotick = FALSE
    /\ fobound = [ticks |-> FoMaxTicks, reopens |-> FoMaxReopens]
    /\ fodisk = {} /\ focursor = 0 /\ folost = {}

------------------------------------------------------------------------------
(* The receiver.                                                           *)

\* The message count calls for a flush.
CountReached(n, elapsed) ==
    n >= foconf.count /\ (~foconf.opAnd \/ ~foconf.timer \/ elapsed)

\* A message that encodes joins the batch; others leave the counters alone.
ReceiveMsg ==
    /\ recv.pc = "select" /\ ~recv.closed /\ recv.next <= FoMaxMsgs
    /\ \E encoded \in BOOLEAN :
           LET r == IF encoded
                    THEN [recv EXCEPT !.batch = @ \cup {recv.next}, !.cursor = recv.next,
                                      !.msgCounter = @ + 1, !.next = @ + 1]
                    ELSE [recv EXCEPT !.next = @ + 1]
           IN  recv' = IF CountReached(r.msgCounter, r.elapsed)
                       THEN [r EXCEPT !.pc = "send"] ELSE r
    /\ UNCHANGED <<foconf, comm, backChan, errChan, fotick, fobound, fodisk, focursor, folost>>

\* The timer fires; its channel holds one tick.
TimerFires ==
    /\ foconf.timer /\ fobound.ticks > 0
    /\ fotick' = TRUE
    /\ fobound' = [fobound EXCEPT !.ticks = @ - 1]
    /\ UNCHANGED <<foconf, recv, comm, backChan, errChan, fodisk, focursor, folost>>

ReceiveTick ==
    /\ recv.pc = "select" /\ fotick
    /\ fotick' = FALSE
    /\ recv' = IF (foconf.opAnd /\ recv.msgCounter >= foconf.count)
                    \/ (~foconf.opAnd /\ recv.msgCounter > 0)
               THEN [recv EXCEPT !.pc = "send"] ELSE [recv EXCEPT !.elapsed = TRUE]
    /\ UNCHANGED <<foconf, comm, backChan, errChan, fobound, fodisk, focursor, folost>>

\* inChan is closed: a last batch, if there is something in it.
ReceiveClosed ==
    /\ recv.pc = "select" /\ recv.closed
    /\ recv' = [recv EXCEPT !.pc = IF recv.batch = {} THEN "close" ELSE "last"]
    /\ UNCHANGED <<foconf, comm, backChan, errChan, fotick, fobound, fodisk, focursor, folost>>

\* o.batchChan <- out: both meet.
HandOverBatch ==
    /\ recv.pc \in {"send", "last"} /\ comm.pc = "select"
    /\ comm' = [comm EXCEPT !.pc = "write", !.batch = recv.batch, !.cursor = recv.cursor]
    /\ recv' = [recv EXCEPT !.pc = IF recv.pc = "last" THEN "close" ELSE "await"]
    /\ UNCHANGED <<foconf, backChan, errChan, fotick, fobound, fodisk, focursor, folost>>


\* out = <-o.backChan
AwaitBatch ==
    /\ recv.pc = "await" /\ backChan > 0
    /\ backChan' = backChan - 1
    /\ recv' = [recv EXCEPT !.pc = "select", !.batch = {}, !.msgCounter = 0, !.elapsed = FALSE]
    /\ UNCHANGED <<foconf, comm, errChan, fotick, fobound, fodisk, focursor, folost>>

\* close(o.batchChan), and the receiver returns; or it returns the committer's error.
ReceiverReturns ==
    /\ \/ /\ recv.pc = "close"
          /\ comm' = [comm EXCEPT !.batchClosed = TRUE]
       \/ /\ recv.pc = "select" /\ errChan /\ UNCHANGED comm
    /\ recv' = [recv EXCEPT !.pc = "done"]
    /\ UNCHANGED <<foconf, backChan, errChan, fotick, fobound, fodisk, focursor, folost>>

------------------------------------------------------------------------------
(* The committer.                                                          *)

\* The batch is written, in part, or not at all, which is logged; the cursor moves
\* in the first two cases; the batch goes back.
WriteBatch ==
    /\ comm.pc = "write"
    /\ \/ fodisk' = fodisk \cup comm.batch /\ focursor' = comm.cursor /\ UNCHANGED folost
       \/ folost' = folost \cup comm.batch /\ focursor' = comm.cursor /\ UNCHANGED fodisk
       \/ folost' = folost \cup comm.batch /\ UNCHANGED <<fodisk, focursor>>
    /\ comm' = [comm EXCEPT !.pc = "select", !.batch = {}]
    /\ backChan' = backChan + 1
    /\ UNCHANGED <<foconf, recv, errChan, fotick, fobound>>

\* A SIGHUP or the rotation's notifier: the file is closed and opened again, under
\* another name perhaps.  When that fails the committer reports it and ends.
Reopen ==
    /\ comm.pc = "select" /\ fobound.reopens > 0
    /\ fobound' = [fobound EXCEPT !.reopens = @ - 1]
    /\ \/ UNCHANGED <<comm, errChan>>
       \/ comm' = [comm EXCEPT !.pc = "done"] /\ errChan' = TRUE
    /\ UNCHANGED <<foconf, recv, backChan, fotick, fodisk, focursor, folost>>

CommitterReturns ==
    /\ comm.pc = "select" /\ comm.batchClosed
    /\ comm' = [comm EXCEPT !.pc = "done"]
    /\ UNCHANGED <<foconf, recv, backChan, errChan, fotick, fobound, fodisk, focursor, folost>>

CloseInChan ==
    /\ ~recv.closed
    /\ recv' = [recv EXCEPT !.closed = TRUE]
    /\ UNCHANGED <<foconf, comm, backChan, errChan, fotick, fobound, fodisk, focursor, folost>>

FoReceiver == ReceiveMsg \/ ReceiveTick \/ ReceiveClosed \/ HandOverBatch \/ AwaitBatch
                \/ ReceiverReturns
FoCommitter == WriteBatch \/ CommitterReturns
FoNext == FoReceiver \/ FoCommitter \/ Reopen \/ TimerFires \/ CloseInChan
            \/ (recv.closed /\ UNCHANGED fovars)

FoFairness == WF_fovars(FoReceiver) /\ WF_fovars(FoCommitter)

FoSpec == FoInit /\ [][FoNext]_fovars /\ FoFairness

------------------------------------------------------------------------------
(* Properties.                                                             *)

FoTypeOK ==
    /\ recv.pc \in {"select", "send", "await", "last", "close", "done"}
    /\ comm.pc \in {"select", "write", "done"} /\ backChan \in 0..2
    /\ recv.msgCounter \in 0..FoMaxMsgs /\ focursor \in 0..FoMaxMsgs

\* No message is written twice or mixed into a batch that the committer still
\* has: what was received is in the receiver's batch, in the committer's, in the
\* file or lost with a logged write, and in one of them only.
OnePlace ==
    LET mine == IF recv.pc \in {"await", "close", "done"} THEN {} ELSE recv.batch
    IN  /\ mine \cap (fodisk \cup folost \cup comm.batch) = {}
        /\ fodisk \cap folost = {}
        /\ comm.batch \cap (fodisk \cup folost) = {}

\* The cursor never passes a message that is still to be written: a restart from
\* it repeats nothing that a later batch holds and skips only what was lost with
\* a logged write.
CursorBehindDisk ==
    \A m \in (recv.batch \ (fodisk \cup folost)) \cup comm.batch : focursor < m

\* A message received is written, or its loss logged, without a further message:
\* with "OR", once the interval has passed.
\* (The timer fires again and again; FoMaxTicks bounds that here.)
TickFlushes ==
    (fotick /\ ~foconf.opAnd /\ recv.pc = "select" /\ recv.batch # {} /\ ~errChan)
        ~> (recv.batch \subseteq fodisk \cup folost \/ errChan)

\* The receiver returns once its channel is closed, and the committer after it
\* has written the last batch, unless reopening the file failed before.
FileOutputEnds ==
    recv.closed ~> (errChan \/ (recv.pc = "done" /\ comm.pc = "done"
                                  /\ recv.batch \subseteq fodisk \cup folost))

\* The comment in receiver: "Closed inChan => we're shutting down, flush data".
FlushedOnReturn ==
    recv.pc = "done" /\ ~errChan => recv.batch \subseteq fodisk \cup folost
==============================================================================

------------------------------- MODULE ESOutput ------------------------------
(***************************************************************************)
(* plugins/elasticsearch/elasticsearch.go.  ProcessMessage puts an encoded *)
(* message on recvChan; batchSender collects them in outBatch and hands    *)
(* batches to the committer, which indexes them, again and again while the *)
(* server cannot be reached, and then moves the queue's cursor.  All three *)
(* run in goroutines of their own, and stopChan ends the last two.         *)
(***************************************************************************)
EXTENDS Integers, Sequences, FiniteSets, FiniteSetsExt, SequencesExt

CONSTANTS EsMaxMsgs,     \* messages
          EsRecvSize,    \* capacity of recvChan
          EsMaxTries     \* failed attempts in a row

VARIABLES
    esconf,     \* udp: the server is a udp:// one; count: flush_count; ticker: flush_interval > 0
    esnext,     \* the next message
    recvChan,
    sender,     \* pc: "select", "send", "await", "done", "panic"; out: outBatch; count;
                \*   cursor: queueCursor; batch: b, being sent
    esback,     \* buffers in backChan
    escom,      \* pc: "select", "index", "retry", "commit", "done"; batch; cursor; count;
                \*   failed; tries
    esstop,     \* stopChan is closed
    esstat,     \* [sent, dropped: the messages in either, counts as reported]
    escursor    \* UpdateCursor's last argument

esvars == <<esconf, esnext, recvChan, sender, esback, escom, esstop, esstat, escursor>>

IdleCommitter == [pc |-> "select", msgs |-> {}, cursor |-> 0, count |-> 0, failed |-> FALSE,
                  tries |-> 0]
NoBatch == [msgs |-> {}, cursor |-> 0, count |-> 0]

EsInit ==
    /\ esconf \in [udp : BOOLEAN, count : {1, 2}, ticker : BOOLEAN]
    /\ esnext = 1 /\ recvChan = <<>> /\ esback = 1 /\ esstop = FALSE /\ escursor = 0
    /\ sender = [pc |-> "select", out |-> {}, count |-> 0, cursor |-> 0, batch |-> NoBatch]
    /\ escom = IdleCommitter
    /\ esstat = [sent |-> {}, dropped |-> {}, sentCount |-> 0, dropCount |-> 0]

------------------------------------------------------------------------------
\* ProcessMessage: blocks while recvChan is full.  A message that the encoder
\* drops is not sent.
EsProcessMessage ==
    /\ esnext <= EsMaxMsgs /\ Len(recvChan) < EsRecvSize
    /\ esnext' = esnext + 1
    /\ recvChan' \in {recvChan, Append(recvChan, esnext)}
    /\ UNCHANGED <<esconf, sender, esback, escom, esstop, esstat, escursor>>

\* CheckFlush: by count, or by length over UDP.
CheckFlush(count) == count >= esconf.count \/ esconf.udp

\* A variant with the cursor of the newest message.
StartBatchNewest(s) ==
    [s EXCEPT !.pc = "send", !.count = 0,
              !.batch = [msgs |-> s.out, cursor |-> esnext - 1, count |-> s.count]]

\* sendBatch begins: the batch with its cursor and count.
StartBatch(s) ==
    [s EXCEPT !.pc = "send", !.count = 0,
              !.batch = [msgs |-> s.out, cursor |-> s.cursor, count |-> s.count]]

SenderReceive ==
    /\ sender.pc = "select" /\ esconf.ticker /\ recvChan # <<>>
    /\ recvChan' = Tail(recvChan)
    /\ LET m == Head(recvChan)
           s == [sender EXCEPT !.out = @ \cup {m}, !.cursor = m, !.count = @ + 1]
       IN  \/ CheckFlush(s.count) /\ sender' = StartBatch(s)
           \/ s.count < esconf.count /\ sender' = s
    /\ UNCHANGED <<esconf, esnext, esback, escom, esstop, esstat, escursor>>

\* The ticker.  Without flush_interval there is none, and o.flushTicker.C is a nil
\* dereference as soon as batchSender selects, before any other case.
SenderTick ==
    /\ sender.pc = "select"
    /\ \/ ~esconf.ticker /\ sender' = [sender EXCEPT !.pc = "panic"]
       \/ esconf.ticker /\ sender.out # {} /\ sender' = StartBatch(sender)
    /\ UNCHANGED <<esconf, esnext, recvChan, esback, escom, esstop, esstat, escursor>>

\* stopChan at any of the three selects; sendBatch returns to the loop, which
\* selects again.
SenderStop ==
    /\ esstop
    /\ \/ sender.pc = "select" /\ esconf.ticker /\ sender' = [sender EXCEPT !.pc = "done"]
       \/ sender.pc \in {"send", "await"} /\ sender' = [sender EXCEPT !.pc = "select", !.batch = NoBatch]
    /\ UNCHANGED <<esconf, esnext, recvChan, esback, escom, esstop, esstat, escursor>>

\* o.batchChan <- b
EsHandOver ==
    /\ sender.pc = "send" /\ escom.pc = "select"
    /\ escom' = [escom EXCEPT !.pc = "index", !.msgs = sender.batch.msgs,
                              !.cursor = sender.batch.cursor, !.count = sender.batch.count,
                              !.tries = 0]
    /\ sender' = [sender EXCEPT !.pc = "await", !.batch = NoBatch]
    /\ UNCHANGED <<esconf, esnext, recvChan, esback, esstop, esstat, escursor>>

\* o.outBatch = <-o.backChan
EsAwait ==
    /\ sender.pc = "await" /\ esback > 0
    /\ esback' = esback - 1
    /\ sender' = [sender EXCEPT !.pc = "select", !.out = {}]
    /\ UNCHANGED <<esconf, esnext, recvChan, escom, esstop, esstat, escursor>>

------------------------------------------------------------------------------
(* The committer.                                                          *)

\* sendRecord, one attempt: indexed; refused over HTTP (no retry); or not reached, in which
\* case the attempts go on after a delay.
EsIndex ==
    /\ escom.pc = "index"
    /\ \/ escom' = [escom EXCEPT !.pc = "commit", !.failed = FALSE]
       \/ ~esconf.udp /\ escom' = [escom EXCEPT !.pc = "commit", !.failed = TRUE]
       \/ escom.tries < EsMaxTries /\ escom' = [escom EXCEPT !.pc = "retry", !.tries = @ + 1]
    /\ UNCHANGED <<esconf, esnext, recvChan, sender, esback, esstop, esstat, escursor>>

\* The look at stopChan: the batch is given up at a shutdown.
EsRetry ==
    /\ escom.pc = "retry"
    /\ escom' = IF esstop THEN [escom EXCEPT !.pc = "commit", !.failed = TRUE]
                          ELSE [escom EXCEPT !.pc = "index"]
    /\ UNCHANGED <<esconf, esnext, recvChan, sender, esback, esstop, esstat, escursor>>

\* The counts, the cursor, and the buffer goes back, whatever became of it.
EsCommit ==
    /\ escom.pc = "commit" /\ esback < 2
    /\ esstat' = IF escom.failed
                 THEN [esstat EXCEPT !.dropped = @ \cup escom.msgs, !.dropCount = @ + escom.count]
                 ELSE [esstat EXCEPT !.sent = @ \cup escom.msgs, !.sentCount = @ + escom.count]
    /\ escursor' = escom.cursor
    /\ esback' = esback + 1
    /\ escom' = IdleCommitter
    /\ UNCHANGED <<esconf, esnext, recvChan, sender, esstop>>

EsCommitterStop ==
    /\ escom.pc = "select" /\ esstop
    /\ escom' = [escom EXCEPT !.pc = "done"]
    /\ UNCHANGED <<esconf, esnext, recvChan, sender, esback, esstop, esstat, escursor>>

EsStop ==
    /\ ~esstop
    /\ esstop' = TRUE
    /\ UNCHANGED <<esconf, esnext, recvChan, sender, esback, escom, esstat, escursor>>

EsSender == SenderReceive \/ SenderStop \/ EsHandOver \/ EsAwait
EsCommitter == EsIndex \/ EsRetry \/ EsCommit \/ EsCommitterStop
EsEnded == esstop \/ sender.pc = "panic" \/ esnext > EsMaxMsgs

EsNext ==
    \/ /\ sender.pc # "panic"
       /\ EsProcessMessage \/ EsSender \/ SenderTick \/ EsCommitter \/ EsStop
    \/ EsEnded /\ UNCHANGED esvars

\* The goroutines run, the ticker ticks, and select is fair to stopChan.
EsFairness ==
    /\ WF_esvars(sender.pc # "panic" /\ EsSender)
    /\ WF_esvars(sender.pc # "panic" /\ SenderTick)
    /\ WF_esvars(sender.pc # "panic" /\ EsCommitter)
    /\ SF_esvars(sender.pc = "select" /\ SenderStop)

EsSpec == EsInit /\ [][EsNext]_esvars /\ EsFairness

------------------------------------------------------------------------------
(* Properties.                                                             *)

EsTypeOK ==
    /\ sender.pc \in {"select", "send", "await", "done", "panic"} /\ esback \in 0..2
    /\ escom.pc \in {"select", "index", "retry", "commit", "done"}
    /\ escursor \in 0..EsMaxMsgs /\ Len(recvChan) <= EsRecvSize

\* What was indexed and what was dropped are told apart, and the reported counts
\* are theirs, whatever the order of flushes by count and by time, until the
\* output is stopped: a sendBatch that sees stopChan returns to a select that may
\* choose another message or tick, and the same buffer is sent again.
EsCountsTrue ==
    ~esstop =>
        /\ esstat.sent \cap esstat.dropped = {}
        /\ esstat.sentCount = Cardinality(esstat.sent)
        /\ esstat.dropCount = Cardinality(esstat.dropped)

\* The queue's cursor never passes a message that is still in a channel or batch:
\* after a crash it is sent again.
EsCursorBehind ==
    \A m \in ToSet(recvChan)
               \cup ((sender.out \cup escom.msgs) \ (esstat.sent \cup esstat.dropped)) :
        escursor < m

\* A message that was taken is indexed or its loss reported without any further
\* message, if there is a ticker and the output is not stopped.
EsFlushes ==
    \A m \in 1..EsMaxMsgs :
        (m \in ToSet(recvChan) /\ esconf.ticker)
            ~> (m \in esstat.sent \cup esstat.dropped \/ esstop)

\* Both goroutines end at a stop, also while the server cannot be reached; only a
\* committer that was given the same buffer again finds backChan full.
EsEnds ==
    esstop ~> \/ sender.pc = "panic"
              \/ sender.pc = "done" /\ (escom.pc = "done" \/ (escom.pc = "commit" /\ esback = 2))
==============================================================================

---------------------------- MODULE KafkaPlugins ----------------------------
(***************************************************************************)
(* KafkaInput and KafkaOutput (plugins/kafka/); one behaviour is about one *)
(* of them.  The broker and the sarama library are external.               *)
(*                                                                         *)
(* The input consumes one partition, whose messages have the offsets 0, 1, *)
(* 2, ...; with offset_method "Manual" it keeps a checkpoint file: the     *)
(* offset of the next message, rewritten after each one.  hekad may crash  *)
(* between any two steps, and the broker's retention may overtake the      *)
(* checkpoint.                                                             *)
(*                                                                         *)
(* The output hands messages to an asynchronous producer; a second         *)
(* goroutine counts what the producer could not deliver.                   *)
(***************************************************************************)
EXTENDS Integers, Sequences, FiniteSets, FiniteSetsExt

CONSTANTS
  KMsgs,      \* bound: messages in the partition, and given to the output
  KCrashes,   \* bound: crashes and restarts of the input
  KCap        \* capacity of the producer's input channel

ASSUME KAssumption == KMsgs \in Nat /\ KCrashes \in Nat /\ KCap \in Nat \ {0}

VARIABLES
  kkind,     \* "input" or "output"
  kmethod,   \* the input's offset_method
  kin,       \* the input: [pc, next, stop, file]: its place, the consumer's next offset,
             \* whether stopChan is closed, and checkpointFile
  kcheck,    \* the checkpoint file: -2 none, -1 empty, else an offset
  koldest,   \* the broker's oldest offset
  kgot,      \* offsets delivered since the last start
  kever,     \* offsets delivered before the last start
  kcrash,    \* bound: crashes so far
  kout,      \* the output: [pc, msg, cursor, errs]: Run and the error goroutine
  kprod,     \* messages in the producer's input channel
  kacked,    \* messages the broker has
  kcount     \* [failed, discarded, dropped]: messages of each counter

kvars == <<kkind, kmethod, kin, kcheck, koldest, kgot, kever, kcrash, kout, kprod, kacked, kcount>>
kInVars == <<kmethod, kin, kcheck, koldest, kgot, kever, kcrash>>
kOutVars == <<kout, kprod, kacked, kcount>>

NoFile == -2
EmptyFile == -1

KInit ==
  /\ kkind \in {"input", "output"}
  /\ kmethod \in IF kkind = "input" THEN {"Manual", "Newest", "Oldest"} ELSE {"Oldest"}
  /\ kin = [pc |-> IF kkind = "input" THEN "init" ELSE "off", next |-> 0, stop |-> FALSE,
            file |-> "nil"]
  /\ kcheck = NoFile /\ koldest = 0 /\ kgot = <<>> /\ kever = {} /\ kcrash = 0
  /\ kout = [pc |-> IF kkind = "output" THEN "idle" ELSE "off", msg |-> 1, cursor |-> 0,
             errs |-> "run"]
  /\ kprod = <<>> /\ kacked = {}
  /\ kcount = [failed |-> {}, discarded |-> {}, dropped |-> {}]

-----------------------------------------------------------------------------
(* KafkaInput.                                                             *)

\* Init: where to begin.  An empty checkpoint file does not read and fails Init;
\* Newest and Oldest remove the file.
KInputInit ==
  /\ kin.pc = "init"
  /\ \/ /\ kmethod = "Manual" /\ kcheck = EmptyFile
        /\ kin' = [kin EXCEPT !.pc = "noinit"]
        /\ UNCHANGED kcheck
     \/ /\ kmethod = "Manual" /\ kcheck # EmptyFile
        /\ kin' = [kin EXCEPT !.pc = "run", !.next = IF kcheck = NoFile THEN koldest ELSE kcheck]
        /\ UNCHANGED kcheck
     \/ /\ kmethod # "Manual"
        /\ kcheck' = NoFile
        /\ \E n \in IF kmethod = "Oldest" THEN {koldest} ELSE koldest..KMsgs :
             kin' = [kin EXCEPT !.pc = "run", !.next = n]
  /\ UNCHANGED <<kkind, kmethod, koldest, kgot, kever, kcrash, kOutVars>>

\* An event: SplitBytes delivers its records, whether or not all of it is used.
KDeliver ==
  /\ kin.pc = "run" /\ kin.next < KMsgs /\ kin.next >= koldest
  /\ kgot' = Append(kgot, kin.next)
  /\ kin' = [kin EXCEPT !.pc = IF kmethod = "Manual" THEN "check" ELSE @, !.next = @ + 1]
  /\ UNCHANGED <<kkind, kmethod, kcheck, koldest, kever, kcrash, kOutVars>>


\* The offset the checkpoint holds: that of the next event.
CheckpointOf == kin.next

\* writeCheckpoint creates the file when checkpointFile is nil, which empties it,
\* and then writes.  A write fails, and ends Run with its error, on a bad disk or when
\* checkpointFile is the one an earlier Run closed.
writeCheckpoint ==
  /\ kin.pc \in {"check", "created"}
  /\ \/ kin.file = "nil" /\ kcheck' = EmptyFile
        /\ kin' = [kin EXCEPT !.pc = "created", !.file = "open"]
     \/ kin.file = "open" /\ kcheck' = CheckpointOf
        /\ kin' = [kin EXCEPT !.pc = "run"]
     \/ UNCHANGED kcheck
        /\ kin' = [kin EXCEPT !.pc = "err", !.file = IF @ = "nil" THEN @ ELSE "closed"]
  /\ UNCHANGED <<kkind, kmethod, koldest, kgot, kever, kcrash, kOutVars>>

\* The consumer's offset is below the oldest the broker has: the checkpoint is
\* removed and Run returns nil, so that only a new hekad starts it again.
KOutOfRange ==
  /\ kin.pc = "run" /\ kin.next < koldest
  /\ kcheck' = NoFile
  /\ kin' = [kin EXCEPT !.pc = "end"]
  /\ UNCHANGED <<kkind, kmethod, koldest, kgot, kever, kcrash, kOutVars>>

\* Stop closes stopChan; Run sees it at its select.
KInputStop ==
  /\ kin.pc \in {"run", "check", "created"} /\ ~kin.stop
  /\ kin' = [kin EXCEPT !.stop = TRUE]
  /\ UNCHANGED <<kkind, kmethod, kcheck, koldest, kgot, kever, kcrash, kOutVars>>

KInputEnds ==
  /\ kin.pc = "run" /\ kin.stop
  /\ kin' = [kin EXCEPT !.pc = "end"]
  /\ UNCHANGED <<kkind, kmethod, kcheck, koldest, kgot, kever, kcrash, kOutVars>>

\* The next run begins with what is on disk: delivered offsets become history.
KAgain(file) ==
  /\ kcrash < KCrashes
  /\ kcrash' = kcrash + 1
  /\ kever' = kever \cup {kgot[k] : k \in 1..Len(kgot)}
  /\ kgot' = <<>>
  /\ kin' = [pc |-> "init", next |-> 0, stop |-> FALSE, file |-> file]
  /\ UNCHANGED <<kkind, kmethod, kcheck, koldest, kOutVars>>

\* External: hekad stops or crashes, and starts again.
KRestart == kin.pc \in {"run", "check", "created", "err", "end"} /\ KAgain("nil")

\* Starter retries after an error with the same plugin: CleanupForRestart does nothing,
\* and checkpointFile stays what it was.
KRetry == kin.pc = "err" /\ KAgain(kin.file)

\* External: the broker drops its oldest message.
KRetention ==
  /\ kkind = "input" /\ kmethod = "Manual" /\ koldest < 1 /\ kcrash > 0
  /\ koldest' = koldest + 1
  /\ UNCHANGED <<kkind, kmethod, kin, kcheck, kgot, kever, kcrash, kOutVars>>

-----------------------------------------------------------------------------
(* KafkaOutput.                                                            *)

\* Run's loop for one pack.  One that does not encode, or encodes to nothing, is
\* counted and moves the cursor; any other goes to the producer, which may have no
\* room, and is recycled; its cursor is not used.
KSend ==
  /\ kout.pc = "idle" /\ kout.msg <= KMsgs
  /\ \/ /\ \E c \in {"failed", "discarded"} : kcount' = [kcount EXCEPT ![c] = @ \cup {kout.msg}]
        /\ kout' = [kout EXCEPT !.msg = @ + 1, !.cursor = kout.msg]
        /\ UNCHANGED kprod
     \/ /\ Len(kprod) < KCap
        /\ kprod' = Append(kprod, kout.msg)
        /\ kout' = [kout EXCEPT !.msg = @ + 1]
        /\ UNCHANGED kcount
  /\ UNCHANGED <<kkind, kInVars, kacked>>

\* External: the producer delivers a message, or reports an error for it, which
\* processKafkaErrors counts; once that goroutine is gone producer.Close drains.
KProduce ==
  /\ kprod # <<>>
  /\ kprod' = Tail(kprod)
  /\ \/ kacked' = kacked \cup {Head(kprod)} /\ UNCHANGED kcount
     \/ /\ kout.errs = "run"
        /\ kcount' = [kcount EXCEPT !.dropped = @ \cup {Head(kprod)}]
        /\ UNCHANGED kacked
  /\ UNCHANGED <<kkind, kInVars, kout>>

\* InChan is closed: shutdownChan ends the error goroutine, Run waits for it.
KOutputCloses ==
  /\ kout.pc = "idle" /\ kout.msg > KMsgs
  /\ kout' = [kout EXCEPT !.pc = "wait", !.errs = "stop"]
  /\ UNCHANGED <<kkind, kInVars, kprod, kacked, kcount>>

KErrorsEnd ==
  /\ kout.errs = "stop"
  /\ kout' = [kout EXCEPT !.errs = "done"]
  /\ UNCHANGED <<kkind, kInVars, kprod, kacked, kcount>>

KOutputEnds ==
  /\ kout.pc = "wait" /\ kout.errs = "done"
  /\ kout' = [kout EXCEPT !.pc = "end"]
  /\ UNCHANGED <<kkind, kInVars, kprod, kacked, kcount>>

KIdle == UNCHANGED kvars

KNext ==
  \/ KInputInit \/ KDeliver \/ writeCheckpoint \/ KOutOfRange \/ KInputStop \/ KInputEnds
  \/ KRestart \/ KRetry \/ KRetention
  \/ KSend \/ KProduce \/ KOutputCloses \/ KErrorsEnd \/ KOutputEnds
  \/ KIdle

\* The goroutines run, and the producer works on what it is given.
KFair == \/ KInputInit \/ KDeliver \/ writeCheckpoint \/ KOutOfRange \/ KInputEnds
         \/ KSend \/ KProduce \/ KOutputCloses \/ KErrorsEnd \/ KOutputEnds

KFairness == WF_kvars(KFair)

KSpec == KInit /\ [][KNext]_kvars /\ KFairness
-----------------------------------------------------------------------------
KTypeOK ==
  /\ kkind \in {"input", "output"} /\ kmethod \in {"Manual", "Newest", "Oldest"}
  /\ kin.file \in {"nil", "open", "closed"}
  /\ kin.pc \in {"off", "init", "noinit", "run", "check", "created", "err", "end"}
  /\ kin.next \in 0..KMsgs /\ kcheck \in -2..KMsgs
  /\ kout.pc \in {"off", "idle", "wait", "end"} /\ kout.errs \in {"run", "stop", "done"}
  /\ Len(kprod) <= KCap /\ kacked \subseteq 1..KMsgs

Latest == IF kever = {} THEN -1 ELSE Max(kever)

\* With the checkpoint no offset is passed over: across crashes at any step and
\* restarts every message from the first delivered one on is delivered, but for
\* those the broker dropped (kafka_input.go:264-282).
KafkaNoGap ==
  kmethod = "Manual" /\ kgot # <<>> =>
    \A o \in koldest..kgot[Len(kgot)] : o \in kever \cup {kgot[k] : k \in 1..Len(kgot)}

\* A restart repeats at most the one message that was delivered and not yet
\* checkpointed, unless the checkpoint was never written or was removed as out of
\* range (kafka_input.go:110-120, 278-282).
KafkaRepeatsOne ==
  kmethod = "Manual" /\ kin.pc # "init" /\ kgot # <<>> /\ kgot[1] # koldest =>
    kgot[1] >= Latest

\* Every message given to the output is accounted for once: in the producer, at the
\* broker, or in one of the counters of the report (kafka_output.go:358-390).
KafkaAccounted ==
  kkind = "output" =>
    LET parts == <<kacked, {kprod[k] : k \in 1..Len(kprod)}, kcount.failed, kcount.discarded,
                   kcount.dropped>> IN
    /\ UNION {parts[j] : j \in 1..5} = 1..(kout.msg - 1)
    /\ \A i, j \in 1..5 : i # j => parts[i] \cap parts[j] = {}

\* The output ends once its channel is closed: the error goroutine is told to stop
\* before it is waited for, although the producer's error channel stays open until
\* Run's deferred Close (kafka_output.go:335-338, 392-394).
KafkaOutputEnds == (kout.pc = "idle") ~> (kout.pc = "end")

\* The developer doc, "Each buffer maintains a cursor into the buffer's stream,
\* which should be advanced past a given record when that record has been completely
\* processed": in the end the cursor has passed what the broker has.
KafkaCursorFollows == \A m \in 1..KMsgs : (m \in kacked) ~> (kout.cursor >= m)
=============================================================================

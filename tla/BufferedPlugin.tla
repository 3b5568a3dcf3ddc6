--------------------------- MODULE BufferedPlugin ----------------------------
(***************************************************************************)
(* A filter or output of the older API whose messages come through a disk  *)
(* queue (pipeline/plugin_runners.go, queue_buffer.go).  runBoth runs the  *)
(* plugin and the queue's reader, StreamOutput, in two goroutines and ends *)
(* one when the other ends; SendRecord hands the reader's packs over and   *)
(* waits for the plugin's Recycle.  Two packs go round between bufBack,   *)
(* the reader, inChan and the plugin.                                      *)
(*                                                                         *)
(* The plugin is external: it receives packs, gives each back through      *)
(* Recycle with nil, an error or a RetryMessageError, and may return an    *)
(* error between two packs; it returns nil when inChan is closed.          *)
(* Queue records are numbered; the queue itself is in QueueBuffer.         *)
(***************************************************************************)
EXTENDS Naturals, Sequences, SequencesExt

CONSTANT BRecords       \* bound: records in the queue
CONSTANT BRestarts      \* bound: restarts of the plugin

pluginPoolSize == 2
BPacks == 1..pluginPoolSize

VARIABLES
    bufBack, binChan,  \* sequences of packs, both of capacity pluginPoolSize
    delivErr,   \* [BPacks -> what is in the pack's DelivErrChan]: "none" or an answer
    rec,        \* [BPacks -> the record in the pack, 0 when zeroed]
    rd,         \* the reader: [pc, pack, last]; pc is "get", "next", "check", "send",
                \* "ack", "resend", "recycle", "ended"; last: recycles before it returns
    nextRec,    \* the record to read next
    plg,        \* the plugin: [pc, pack]; pc is "recv", "work", "ended"
    plgErr, bufErr,     \* pluginErrChan and bufErrChan: "none", "nil" or "err"
    both,       \* runBoth: "select", "plugin", "reader" (who is waited for),
                \* "returned", "stuck"
    inClosed,   \* inChan is closed
    bstop,      \* foRunner.stopChan is closed
    mstop,      \* the match runner's stopChan: "same", or "old" once runBoth has
                \* closed it and made another for the reader
    bshut,      \* the shutdown: "no", "flag" (IsShuttingDown), "closed" (the match
                \* runner has ended and closed its stopChan), "panic" (twice)
    restarts,
    answered,   \* history: records for which the plugin has given an answer
    delivered   \* history: records that the reader takes as dealt with

bufVars == <<bufBack, binChan, delivErr, rec, rd, nextRec, plg, plgErr, bufErr, both,
             inClosed, bstop, mstop, bshut, restarts, answered, delivered>>

BInit ==
    /\ bufBack = <<1, 2>> /\ binChan = <<>>
    /\ delivErr = [p \in BPacks |-> "none"] /\ rec = [p \in BPacks |-> 0]
    /\ rd = [pc |-> "get", pack |-> 0, last |-> 0] /\ nextRec = 1
    /\ plg = [pc |-> "recv", pack |-> 0]
    /\ plgErr = "none" /\ bufErr = "none" /\ both = "select"
    /\ inClosed = FALSE /\ bstop = FALSE /\ mstop = "same" /\ bshut = "no"
    /\ restarts = 0 /\ answered = {} /\ delivered = {}

------------------------------------------------------------------------------
(* The reader: StreamOutput and SendRecord.                                *)

ReaderEnds(e) == rd' = [pc |-> "ended", pack |-> 0, last |-> 0] /\ bufErr' = e

\* recycle: the pack is zeroed and goes back, when there is room.
PutBack(p) ==
    /\ Len(bufBack) < pluginPoolSize
    /\ bufBack' = Append(bufBack, p)
    /\ rec' = [rec EXCEPT ![p] = 0]

GetPack ==
    /\ rd.pc = "get"
    /\ \/ bstop /\ ReaderEnds("nil") /\ UNCHANGED bufBack
       \/ /\ bufBack # <<>>
          /\ bufBack' = Tail(bufBack)
          /\ rd' = [rd EXCEPT !.pc = "next", !.pack = Head(bufBack)]
          /\ UNCHANGED bufErr
    /\ UNCHANGED <<binChan, delivErr, rec, nextRec, plg, plgErr, both, inClosed, bstop,
                   mstop, bshut, restarts, answered, delivered>>

\* NextRecord: a record, none yet (the pack is kept), or an error.  The pack of
\* a reader that ends here or in Check is not recycled.
NextRecord ==
    /\ rd.pc = "next"
    /\ \/ /\ nextRec <= BRecords
          /\ rec' = [rec EXCEPT ![rd.pack] = nextRec]
          /\ nextRec' = nextRec + 1
          /\ rd' = [rd EXCEPT !.pc = "send"]
          /\ UNCHANGED bufErr
       \/ rd' = [rd EXCEPT !.pc = "check"] /\ UNCHANGED <<rec, nextRec, bufErr>>
       \/ restarts < BRestarts /\ ReaderEnds("err") /\ UNCHANGED <<rec, nextRec>>
    /\ UNCHANGED <<bufBack, binChan, delivErr, plg, plgErr, both, inClosed, bstop, mstop,
                   bshut, restarts, answered, delivered>>

Check ==
    /\ rd.pc = "check"
    /\ IF bstop THEN ReaderEnds("nil") ELSE rd' = [rd EXCEPT !.pc = "next"] /\ UNCHANGED bufErr
    /\ UNCHANGED <<bufBack, binChan, delivErr, rec, nextRec, plg, plgErr, both, inClosed,
                   bstop, mstop, bshut, restarts, answered, delivered>>

\* SendRecord: the pack goes to the plugin, or stopChan is closed.
SendPack ==
    /\ rd.pc = "send"
    /\ \/ /\ Len(binChan) < pluginPoolSize /\ ~inClosed
          /\ binChan' = Append(binChan, rd.pack)
          /\ rd' = [rd EXCEPT !.pc = "ack"]
       \/ /\ bstop
          /\ rd' = [rd EXCEPT !.pc = "recycle", !.last = 2]
          /\ UNCHANGED binChan
    /\ UNCHANGED <<bufBack, delivErr, rec, nextRec, plg, plgErr, bufErr, both, inClosed,
                   bstop, mstop, bshut, restarts, answered, delivered>>


\* Its second select: the plugin's answer, or stopChan.
AwaitAnswer ==
    /\ rd.pc = "ack"
    /\ \/ /\ delivErr[rd.pack] # "none"
          /\ delivErr' = [delivErr EXCEPT ![rd.pack] = "none"]
          /\ IF delivErr[rd.pack] = "retry"
             THEN rd' = [rd EXCEPT !.pc = "resend"] /\ UNCHANGED delivered
             ELSE /\ rd' = [rd EXCEPT !.pc = "recycle"]
                  /\ delivered' = delivered \cup {rec[rd.pack]}
       \/ /\ bstop
          /\ rd' = [rd EXCEPT !.pc = "recycle", !.last = 2]
          /\ UNCHANGED <<delivErr, delivered>>
    /\ UNCHANGED <<bufBack, binChan, rec, nextRec, plg, plgErr, bufErr, both, inClosed,
                   bstop, mstop, bshut, restarts, answered>>

\* StreamOutput after an error of SendRecord: the pack is recycled if stopChan
\* is closed, and else sent again.
Resend ==
    /\ rd.pc = "resend"
    /\ rd' = [rd EXCEPT !.pc = IF bstop THEN "recycle" ELSE "send",
                        !.last = IF bstop THEN 1 ELSE 0]
    /\ UNCHANGED <<bufBack, binChan, delivErr, rec, nextRec, plg, plgErr, bufErr, both,
                   inClosed, bstop, mstop, bshut, restarts, answered, delivered>>

\* recycle.  After ErrStopping, SendRecord has recycled the pack and StreamOutput
\* does so again before it returns.
RecyclePack ==
    /\ rd.pc = "recycle"
    /\ PutBack(rd.pack)
    /\ CASE rd.last = 2 -> rd' = [rd EXCEPT !.last = 1] /\ UNCHANGED bufErr
         [] rd.last = 1 -> ReaderEnds("nil")
         [] rd.last = 0 -> rd' = [rd EXCEPT !.pc = "get", !.pack = 0] /\ UNCHANGED bufErr
    /\ UNCHANGED <<binChan, delivErr, nextRec, plg, plgErr, both, inClosed, bstop, mstop, bshut,
                   restarts, answered, delivered>>

------------------------------------------------------------------------------
(* The plugin.                                                             *)

PluginRecv ==
    /\ plg.pc = "recv"
    /\ \/ /\ binChan # <<>>
          /\ plg' = [pc |-> "work", pack |-> Head(binChan)]
          /\ binChan' = Tail(binChan)
          /\ UNCHANGED plgErr
       \/ /\ binChan = <<>> /\ inClosed
          /\ plg' = [plg EXCEPT !.pc = "ended"] /\ plgErr' = "nil"
          /\ UNCHANGED binChan
    /\ UNCHANGED <<bufBack, delivErr, rec, rd, nextRec, bufErr, both, inClosed, bstop,
                   mstop, bshut, restarts, answered, delivered>>

\* pack.Recycle(err) sends to DelivErrChan, of capacity 1.
PluginAnswers(a) ==
    /\ plg.pc = "work" /\ delivErr[plg.pack] = "none"
    /\ delivErr' = [delivErr EXCEPT ![plg.pack] = a]
    /\ answered' = IF a = "retry" THEN answered ELSE answered \cup {rec[plg.pack]}
    /\ plg' = [pc |-> "recv", pack |-> 0]
    /\ UNCHANGED <<bufBack, binChan, rec, rd, nextRec, plgErr, bufErr, both, inClosed,
                   bstop, mstop, bshut, restarts, delivered>>

PluginFails ==
    /\ plg.pc = "recv" /\ restarts < BRestarts
    /\ plg' = [plg EXCEPT !.pc = "ended"] /\ plgErr' = "err"
    /\ UNCHANGED <<bufBack, binChan, delivErr, rec, rd, nextRec, bufErr, both, inClosed,
                   bstop, mstop, bshut, restarts, answered, delivered>>

------------------------------------------------------------------------------
(* runBoth, the shutdown and the restart.                                  *)

\* Globals.stop; later the match runner ends and closes its stopChan.
MatcherStops ==
    /\ \/ bshut = "no" /\ bshut' = "flag" /\ UNCHANGED bstop
       \/ /\ bshut = "flag" /\ mstop = "same"
          /\ IF bstop THEN bshut' = "panic" /\ UNCHANGED bstop
                      ELSE bshut' = "closed" /\ bstop' = TRUE
       \/ bshut = "flag" /\ mstop = "old" /\ bshut' = "panic" /\ UNCHANGED bstop
    /\ UNCHANGED <<bufBack, binChan, delivErr, rec, rd, nextRec, plg, plgErr, bufErr, both,
                   inClosed, mstop, restarts, answered, delivered>>

\* The first to end decides: the plugin's error closes stopChan (at a shutdown
\* the match runner does that), anything else closes inChan.  A plugin that
\* returned nil is then waited for a second time.
FirstEnds ==
    /\ both = "select"
    /\ \/ /\ plgErr = "nil"
          /\ both' = "stuck" /\ inClosed' = TRUE /\ UNCHANGED bstop
       \/ /\ plgErr = "err"
          /\ both' = "reader" /\ bstop' = (bstop \/ bshut = "no") /\ UNCHANGED inClosed
       \/ /\ bufErr # "none"
          /\ both' = "plugin" /\ inClosed' = TRUE /\ UNCHANGED bstop
    /\ UNCHANGED <<bufBack, binChan, delivErr, rec, rd, nextRec, plg, plgErr, bufErr,
                   mstop, bshut, restarts, answered, delivered>>

\* The other has ended.  A new inChan, or a new stopChan, is made.
SecondEnds ==
    /\ \/ /\ both = "plugin" /\ plgErr # "none"
          /\ inClosed' = FALSE /\ binChan' = <<>>
          /\ UNCHANGED <<bstop, mstop>>
       \/ /\ both = "reader" /\ bufErr # "none"
          /\ bstop' = FALSE /\ mstop' = "old"
          /\ UNCHANGED <<inClosed, binChan>>
    /\ both' = "returned"
    /\ UNCHANGED <<bufBack, delivErr, rec, rd, nextRec, plg, plgErr, bufErr, bshut,
                   restarts, answered, delivered>>

\* OldStarter runs both again; the reader starts at the cursor, here after what
\* has been delivered.  A pack that an ended reader held is lost.
RunAgain ==
    /\ both = "returned" /\ bshut = "no" /\ restarts < BRestarts
    /\ both' = "select" /\ restarts' = restarts + 1
    /\ rd' = [pc |-> "get", pack |-> 0, last |-> 0]
    /\ plg' = [pc |-> "recv", pack |-> 0]
    /\ plgErr' = "none" /\ bufErr' = "none"
    /\ nextRec' = IF delivered = {} THEN 1
                  ELSE 1 + CHOOSE r \in delivered : \A s \in delivered : s <= r
    /\ UNCHANGED <<bufBack, binChan, delivErr, rec, inClosed, bstop, mstop, bshut,
                   answered, delivered>>

Reader == GetPack \/ NextRecord \/ Check \/ SendPack \/ AwaitAnswer \/ Resend \/ RecyclePack
Plugin == PluginRecv \/ \E a \in {"nil", "err", "retry"} : PluginAnswers(a)
Both == FirstEnds \/ SecondEnds \/ RunAgain

BNext ==
    \/ /\ bshut # "panic"
       /\ Reader \/ Plugin \/ PluginFails \/ MatcherStops \/ Both
    \/ (bshut # "no" \/ both # "select") /\ UNCHANGED bufVars

\* The goroutines go on while they can.
BFairness ==
    /\ WF_bufVars(bshut # "panic" /\ Reader) /\ WF_bufVars(bshut # "panic" /\ Plugin)
    /\ WF_bufVars(bshut # "panic" /\ Both)

BSpec == BInit /\ [][BNext]_bufVars /\ BFairness

------------------------------------------------------------------------------
(* Properties.                                                             *)

BTypeOK ==
    /\ bufBack \in BoundedSeq(BPacks, pluginPoolSize)
    /\ binChan \in BoundedSeq(BPacks, pluginPoolSize)
    /\ delivErr \in [BPacks -> {"none", "nil", "err", "retry"}]
    /\ rec \in [BPacks -> 0..BRecords] /\ nextRec \in 1..BRecords + 1
    /\ rd \in [pc : {"get", "next", "check", "send", "ack", "resend", "recycle", "ended"},
               pack : 0..pluginPoolSize, last : 0..2]
    /\ plg \in [pc : {"recv", "work", "ended"}, pack : 0..pluginPoolSize]
    /\ {plgErr, bufErr} \subseteq {"none", "nil", "err"}
    /\ both \in {"select", "plugin", "reader", "returned", "stuck"}
    /\ {inClosed, bstop} \subseteq BOOLEAN /\ mstop \in {"same", "old"}
    /\ bshut \in {"no", "flag", "closed", "panic"} /\ restarts \in 0..BRestarts

\* Until stopChan is closed, a pack is in one place: the plugin works on the pack
\* that the reader waits for, and on no other.
HandOver ==
    ~bstop /\ restarts = 0 =>
        /\ plg.pc = "work" => rd.pc = "ack" /\ rd.pack = plg.pack
        /\ \A i \in DOMAIN binChan : rd.pc = "ack" /\ rd.pack = binChan[i]
        /\ \A i \in DOMAIN bufBack : bufBack[i] # rd.pack /\ bufBack[i] # plg.pack

\* A record is taken as dealt with only when the plugin has answered for it, and
\* none before it has been passed over, through a restart and at the shutdown.
AnsweredInOrder ==
    restarts <= 1 => delivered \subseteq answered /\ \A r \in delivered : 1..r \subseteq delivered

\* When the reader ends first, the plugin sees the end of inChan and runBoth
\* returns.
ReaderFirstReturns == both = "plugin" ~> (both = "returned" \/ bshut = "panic")

\* Closing stopChan ends the reader, so that runBoth returns and a plugin that
\* failed can be restarted.
ReaderExits == (both = "reader" /\ bstop) ~> (both = "returned" \/ bshut = "panic")
==============================================================================

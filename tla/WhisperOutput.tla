---------------------------- MODULE WhisperOutput ----------------------------
(***************************************************************************)
(* WhisperOutput (plugins/graphite/whisper.go): Run splits a payload into  *)
(* points and hands each to the goroutine of its database, which it starts *)
(* at the first point of that name.  A line is a name with a point or with *)
(* a time or value that does not parse, or it has not three fields.  The   *)
(* whisper library and the file system are external.                       *)
(***************************************************************************)
EXTENDS Naturals, Sequences, SequencesExt, FiniteSets, FiniteSetsExt

CONSTANTS WhNames,      \* names of stats
          WhPacks,      \* bound: packs
          WhLines,      \* lines of a payload
          WhCap         \* room of a runner's inChan (10 in the code)

VARIABLES whRun,        \* Run: where it is, the lines of the pack and their number
          whdbs,        \* o.dbs: the runner of each name: none, or where it is
          whChan,       \* its inChan
          whOpen,       \* is inChan open?
          whWg,         \* the WaitGroup
          whSent,       \* points handed over, by name
          whDisk,       \* points that Update was called with, by name
          whFailed      \* did NewWhisperRunner fail?

whvars == <<whRun, whdbs, whChan, whOpen, whWg, whSent, whDisk, whFailed>>

WhInit ==
    /\ whRun = [pc |-> "range", lines |-> <<>>, packs |-> 0]
    /\ whdbs = [n \in WhNames |-> "none"]
    /\ whChan = [n \in WhNames |-> <<>>] /\ whOpen = [n \in WhNames |-> TRUE]
    /\ whWg = 0 /\ whFailed = FALSE
    /\ whSent = [n \in WhNames |-> 0] /\ whDisk = [n \in WhNames |-> <<>>]

WhLine == WhNames \X {"good", "unparsed"} \cup {<<"malformed", "line">>}

\* A pack: its payload is copied, the cursor moves and the pack goes back.
WhPack ==
    /\ whRun.pc = "range" /\ whRun.packs < WhPacks
    /\ \E ls \in [1..WhLines -> WhLine] :
          whRun' = [pc |-> "lines", lines |-> ls, packs |-> whRun.packs + 1]
    /\ UNCHANGED <<whdbs, whChan, whOpen, whWg, whSent, whDisk, whFailed>>

NextLine == whRun' = [whRun EXCEPT !.pc = "lines", !.lines = Tail(@)]

\* The end of the payload.
WhPackDone ==
    /\ whRun.pc = "lines" /\ whRun.lines = <<>>
    /\ whRun' = [whRun EXCEPT !.pc = "range"]
    /\ UNCHANGED <<whdbs, whChan, whOpen, whWg, whSent, whDisk, whFailed>>

\* A malformed line is logged.
WhMalformed ==
    /\ whRun.pc = "lines" /\ whRun.lines # <<>> /\ Head(whRun.lines)[1] = "malformed"
    /\ NextLine
    /\ UNCHANGED <<whdbs, whChan, whOpen, whWg, whSent, whDisk, whFailed>>

WhName == Head(whRun.lines)[1]
WhAt(n) == whRun.pc = "lines" /\ whRun.lines # <<>> /\ WhName = n

\* wg.Add(1) and NewWhisperRunner, which opens or creates the file and starts the
\* goroutine; if it fails the line is passed over and wg keeps what was added.
NewWhisperRunner(n) ==
    /\ WhAt(n) /\ whdbs[n] = "none" /\ whWg' = whWg + 1
    /\ \/ /\ whdbs' = [whdbs EXCEPT ![n] = "running"] /\ UNCHANGED <<whRun, whFailed>>
       \/ NextLine /\ whFailed' = TRUE /\ UNCHANGED whdbs
    /\ UNCHANGED <<whChan, whOpen, whSent, whDisk>>

\* wr.InChan() <- pt, when the runner is there and has room.
SendPoint(n) ==
    /\ WhAt(n) /\ whdbs[n] # "none" /\ NextLine
    /\ IF Head(whRun.lines)[2] = "unparsed" THEN UNCHANGED <<whChan, whSent>>
       ELSE /\ Len(whChan[n]) < WhCap
            /\ whSent' = [whSent EXCEPT ![n] = @ + 1]
            /\ whChan' = [whChan EXCEPT ![n] = Append(@, whSent'[n])]
    /\ UNCHANGED <<whdbs, whOpen, whWg, whDisk, whFailed>>

\* or.InChan() is closed: so are the runners' channels.
WhInChanClosed ==
    /\ whRun.pc = "range" /\ whRun' = [whRun EXCEPT !.pc = "wait"]
    /\ whOpen' = [n \in WhNames |-> whdbs[n] = "none"]
    /\ UNCHANGED <<whdbs, whChan, whWg, whSent, whDisk, whFailed>>

\* wg.Wait returns.
WhReturns ==
    /\ whRun.pc = "wait" /\ whWg = 0 /\ whRun' = [whRun EXCEPT !.pc = "returned"]
    /\ UNCHANGED <<whdbs, whChan, whOpen, whWg, whSent, whDisk, whFailed>>

\* wRunner.start: db.Update; an error is logged.
WhUpdate(n) ==
    /\ whdbs[n] = "running" /\ whChan[n] # <<>>
    /\ whDisk' = [whDisk EXCEPT ![n] = Append(@, Head(whChan[n]))]
    /\ whChan' = [whChan EXCEPT ![n] = Tail(@)]
    /\ UNCHANGED <<whRun, whdbs, whOpen, whWg, whSent, whFailed>>

\* The range ends when the channel is closed and empty: wg.Done, and then Close.
RangeEnds(n) == ~whOpen[n] /\ whChan[n] = <<>>
WhDone(n) ==
    /\ whdbs[n] = "running" /\ RangeEnds(n) /\ whWg' = whWg - 1
    /\ whdbs' = [whdbs EXCEPT ![n] = "done"]
    /\ UNCHANGED <<whRun, whChan, whOpen, whSent, whDisk, whFailed>>
WhClose(n) ==
    /\ whdbs[n] = "done" /\ whdbs' = [whdbs EXCEPT ![n] = "closed"]
    /\ UNCHANGED <<whRun, whChan, whOpen, whWg, whSent, whDisk, whFailed>>

WhRun ==
    \/ WhPackDone \/ WhMalformed \/ WhReturns
    \/ \E n \in WhNames : NewWhisperRunner(n) \/ SendPoint(n)
WhRunner(n) == WhUpdate(n) \/ WhDone(n) \/ WhClose(n)
\* wg.Wait does not return once a runner could not be made.
WhStuck == whRun.pc = "wait" /\ whFailed
WhIdle == (whRun.pc = "returned" \/ WhStuck) /\ UNCHANGED whvars
WhNext == WhPack \/ WhRun \/ WhInChanClosed \/ WhIdle \/ \E n \in WhNames : WhRunner(n)

\* Run's loop and the runners go on; packs need not come.
WhFairness == WF_whvars(WhRun) /\ WF_whvars(\E n \in WhNames : WhRunner(n))

WhSpec == WhInit /\ [][WhNext]_whvars /\ WhFairness
------------------------------------------------------------------------------
(* Properties.                                                             *)

WhTypeOK ==
    /\ whWg \in Nat /\ \A n \in WhNames : Len(whChan[n]) <= WhCap
    /\ \A n \in WhNames : whdbs[n] \in {"none", "running", "done", "closed"}

\* When Run returns every point has been given to its database, once and in order:
\* wg covers the runners that were started late as well (whisper.go:226, 254).
PointsWritten ==
    \A n \in WhNames : /\ whDisk[n] \o whChan[n] = [k \in 1..whSent[n] |-> k]
                       /\ whRun.pc = "returned" => whChan[n] = <<>>

\* Run returns at shutdown, unless a runner could not be made: nothing takes back the
\* wg.Add(1) of a failed NewWhisperRunner (whisper.go:226-232).
WhisperEnds == whRun.pc = "wait" ~> (whRun.pc = "returned" \/ whFailed)
=============================================================================

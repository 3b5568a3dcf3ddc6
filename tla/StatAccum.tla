------------------------------ MODULE StatAccum ------------------------------
(***************************************************************************)
(* The stat accumulator (pipeline/stat_accum_input.go) and what drops      *)
(* stats into it: StatsdInput (plugins/statsd/statsd_input.go) and         *)
(* StatFilter (stat_filter.go).  Each runs in a goroutine of its own; Run  *)
(* of the pipeline stops the two inputs in any order, then the filter.     *)
(***************************************************************************)
EXTENDS Integers, Sequences, FiniteSets, SequencesExt

CONSTANTS SaChanSize,   \* poolsize, the capacity of statChan
          SaMaxStats,   \* stats that each producer has to drop
          SaMaxFlush    \* ticks

SaProducers == {"statsd", "filter"}
SaKinds == {"c", "ms", "g"}

VARIABLES
    deleteIdle,  \* delete_idle_stats
    sprod,       \* [SaProducers -> pc: "idle", "checked", "drop", "done"; stop; left]
    sa,          \* stop, closed: stopChan and statChan are closed; chan: statChan;
                 \*   counters, timers, gauges: "none" or a number; pc: "run", "done"
    sflushed,    \* history: [c, ms: what was emitted; flushes: how often; g: the last gauge]
    sdropped,    \* history: [c, ms: what DropStat took; g: the last gauge it took]
    spanic       \* a send on the closed statChan

svars == <<deleteIdle, sprod, sa, sflushed, sdropped, spanic>>

SaNone == -1     \* a key that is not in its map

SaInit ==
    /\ deleteIdle \in BOOLEAN
    /\ sprod = [p \in SaProducers |-> [pc |-> "idle", stop |-> FALSE, left |-> SaMaxStats]]
    /\ sa = [stop |-> FALSE, closed |-> FALSE, chan |-> <<>>, counters |-> SaNone,
             timers |-> SaNone, gauges |-> SaNone, pc |-> "run"]
    /\ sflushed = [c |-> 0, ms |-> 0, flushes |-> 0, g |-> SaNone]
    /\ sdropped = [c |-> 0, ms |-> 0, g |-> SaNone]
    /\ spanic = FALSE

------------------------------------------------------------------------------
(* The producers.                                                          *)

\* StatsdInput reads a packet, or its deadline passes, and looks at stopChan only
\* then: what it has read is still handled, and is the last.  StatFilter has a message with a
\* metric, until its inChan is closed.
Receive(p) ==
    /\ sprod[p].pc = "idle"
    /\ \/ /\ sprod[p].left > 0
          /\ sprod' = [sprod EXCEPT ![p].pc = "drop",
                          ![p].left = IF p = "statsd" /\ sprod[p].stop THEN 0 ELSE @ - 1]
       \/ sprod[p].stop /\ sprod' = [sprod EXCEPT ![p].pc = "done"]
    /\ UNCHANGED <<deleteIdle, sa, sflushed, sdropped, spanic>>

\* DropStat: the select on stopChan, with the default branch.
DropStat(p) ==
    /\ sprod[p].pc = "drop"
    /\ sprod' = [sprod EXCEPT ![p].pc = IF sa.stop THEN "idle" ELSE "checked"]
    /\ UNCHANGED <<deleteIdle, sa, sflushed, sdropped, spanic>>

\* sm.statChan <- stat, of any kind.  A gauge's value is its number.
DropSend(p) ==
    /\ sprod[p].pc = "checked"
    /\ IF sa.closed
       THEN spanic' = TRUE /\ UNCHANGED <<sa, sdropped>>
       ELSE /\ Len(sa.chan) < SaChanSize
            /\ \E k \in SaKinds :
                   /\ sa' = [sa EXCEPT !.chan = Append(@, [kind |-> k, value |-> sprod[p].left])]
                   /\ sdropped' = IF k = "g" THEN [sdropped EXCEPT !.g = sprod[p].left]
                                             ELSE [sdropped EXCEPT ![k] = @ + 1]
            /\ UNCHANGED spanic
    /\ sprod' = [sprod EXCEPT ![p].pc = "idle"]
    /\ UNCHANGED <<deleteIdle, sflushed>>

------------------------------------------------------------------------------
(* StatAccumInput.                                                         *)

SaSum(n, m) == IF n = SaNone THEN m ELSE n + m

\* A variant that emits and forgets to start the counter afresh.
FlushedKeep == [sa EXCEPT !.timers = IF deleteIdle \/ @ = SaNone THEN SaNone ELSE 0]

\* What a flush leaves behind: a counter of zero, no timings, the gauge; or, with
\* delete_idle_stats, nothing.
Flushed ==
    LET idle(n) == IF deleteIdle \/ n = SaNone THEN SaNone ELSE 0
    IN  [sa EXCEPT !.counters = idle(@), !.timers = idle(@),
                   !.gauges = IF deleteIdle THEN SaNone ELSE @]

\* Flush: everything accumulated goes into one message.
Flush ==
    sflushed' = [c |-> sflushed.c + (IF sa.counters = SaNone THEN 0 ELSE sa.counters),
                 ms |-> sflushed.ms + (IF sa.timers = SaNone THEN 0 ELSE sa.timers),
                 flushes |-> sflushed.flushes + 1,
                 g |-> IF sa.gauges = SaNone THEN sflushed.g ELSE sa.gauges]

SaTick ==
    /\ sa.pc = "run" /\ sflushed.flushes < SaMaxFlush
    /\ Flush
    /\ sa' = Flushed
    /\ UNCHANGED <<deleteIdle, sprod, sdropped, spanic>>

\* A stat from statChan, or its end, upon which what is left is flushed.
ReceiveStat ==
    /\ sa.pc = "run"
    /\ \/ /\ sa.chan # <<>>
          /\ LET s == Head(sa.chan)
                 t == [sa EXCEPT !.chan = Tail(@)]
             IN  sa' = IF s.kind = "c" THEN [t EXCEPT !.counters = SaSum(@, 1)]
                       ELSE IF s.kind = "ms" THEN [t EXCEPT !.timers = SaSum(@, 1)]
                       ELSE [t EXCEPT !.gauges = s.value]
          /\ UNCHANGED sflushed
       \/ /\ sa.chan = <<>> /\ sa.closed
          /\ Flush
          /\ sa' = [Flushed EXCEPT !.pc = "done"]
    /\ UNCHANGED <<deleteIdle, sprod, sdropped, spanic>>

\* Stop of the accumulator, in its two steps.
SaStop ==
    /\ ~sa.closed
    /\ sa' = IF sa.stop THEN [sa EXCEPT !.closed = TRUE] ELSE [sa EXCEPT !.stop = TRUE]
    /\ UNCHANGED <<deleteIdle, sprod, sflushed, sdropped, spanic>>

\* Stop of StatsdInput; the filter's matcher is removed after both inputs ended.
StopProducer(p) ==
    /\ ~sprod[p].stop
    /\ p = "filter" => sa.pc = "done" /\ sprod["statsd"].pc = "done"
    /\ sprod' = [sprod EXCEPT ![p].stop = TRUE]
    /\ UNCHANGED <<deleteIdle, sa, sflushed, sdropped, spanic>>

SaProducer(p) == Receive(p) \/ DropStat(p) \/ DropSend(p)
SaEnded == spanic \/ sa.stop

SaNext ==
    \/ /\ ~spanic
       /\ \/ \E p \in SaProducers : SaProducer(p) \/ StopProducer(p)
          \/ SaTick \/ ReceiveStat \/ SaStop
    \/ SaEnded /\ UNCHANGED svars

SaFairness ==
    /\ \A p \in SaProducers : WF_svars(~spanic /\ SaProducer(p))
    /\ WF_svars(~spanic /\ ReceiveStat)
    /\ WF_svars(~spanic /\ sa.stop /\ (SaStop \/ \E p \in SaProducers : StopProducer(p)))

SaSpec == SaInit /\ [][SaNext]_svars /\ SaFairness

------------------------------------------------------------------------------
(* The percentiles of a timer, in Flush.                                   *)

\* numInThreshold: count - floor((100 - p)/100 * count + 1/2).
numInThreshold(p, count) == count - (((100 - p) * count * 2 + 100) \div 200)

------------------------------------------------------------------------------
(* Properties.                                                             *)

SaTypeOK ==
    /\ \A p \in SaProducers : sprod[p].pc \in {"idle", "drop", "checked", "done"}
    /\ Len(sa.chan) <= SaChanSize /\ sa.pc \in {"run", "done"}
    /\ sa.counters >= SaNone /\ sa.timers >= SaNone

InChan(k) == Len(SelectSeq(sa.chan, LAMBDA s : s.kind = k))

\* Every counter and timing that DropStat has taken is emitted exactly once, in
\* the tick's message or in the last one, whenever the ticks and the stop fall.
StatsConserved ==
    /\ sdropped.c = sflushed.c + InChan("c") + (IF sa.counters = SaNone THEN 0 ELSE sa.counters)
    /\ sdropped.ms = sflushed.ms + InChan("ms") + (IF sa.timers = SaNone THEN 0 ELSE sa.timers)
    /\ sa.pc = "done" =>
           sdropped.c = sflushed.c /\ sdropped.ms = sflushed.ms /\ sdropped.g = sflushed.g

\* The timings that "upper" and "mean" of a percentile look at are a prefix of the
\* sorted ones, never longer than they are, whose share is the percentile to
\* within half a timing; no index is out of range for a percentile of 0 to 100.
PercentileInRange ==
    sa.timers > 0 =>
        \A p \in 0..100 :
            /\ numInThreshold(p, sa.timers) \in 0..sa.timers
            /\ 100 * numInThreshold(p, sa.timers) - p * sa.timers \in -50..50

\* The accumulator ends once stopped, with its channel drained.
SaEnds == sa.stop ~> (sa.pc = "done" \/ spanic)

\* Stop's comment: "Closing the stopChan first so DropStat won't put any stats on
\* the statChan after it's closed."
NoSendAfterClose == ~spanic
==============================================================================

----------------------------- MODULE FilterLoops -----------------------------
(***************************************************************************)
(* Filters that inject messages: SandboxFilter.Run with its inject         *)
(* callback (sandbox/plugins/sandbox_filter.go), PipelineConfig's          *)
(* PipelinePack with the loop count (pipeline/config.go), foRunner's       *)
(* Inject and exit (pipeline/plugin_runners.go).  Two or more filters may  *)
(* feed each other.  Packs for injection come from one pool,               *)
(* injectRecycleChan, and return to it when they are recycled; MsgLoopCount *)
(* travels with a pack, but not through the disk queue of a filter that    *)
(* uses buffering: what is read back counts from zero.                     *)
(*                                                                         *)
(* A message is [loop, pooled]: its MsgLoopCount and whether its pack is   *)
(* one of the injection pool.                                              *)
(***************************************************************************)
EXTENDS Integers, Sequences, SequencesExt, FiniteSets

CONSTANTS
  FlFilters,      \* the filters
  FlConfs,        \* [pool, buffered, leaky]: size of the pool, the buffered filters,
                  \* whether scripts build messages that do not unmarshal
  FlMaxLoops,     \* MaxMsgLoops
  FlInject,       \* MaxMsgProcessInject
  FlTimerInject,  \* MaxMsgTimerInject
  FlInputs,       \* bound: messages that enter from outside
  FlTicks         \* bound: timer events

ASSUME FlAssumption ==
  /\ FlMaxLoops \in Nat \ {0} /\ FlInject \in Nat /\ FlTimerInject \in Nat
  /\ FlInputs \in Nat /\ FlTicks \in Nat
  /\ FlConfs \subseteq [pool : Nat \ {0}, buffered : SUBSET FlFilters, leaky : BOOLEAN]

VARIABLES
  flconf,   \* the configuration of this behaviour
  flq,      \* per filter, the messages in its InChan or its disk queue
  flp,      \* per filter, [pc, hand, loop, inj]: Run's state, the pack it works on,
            \* msgLoopCount and injectionCount
  flfree,   \* packs in injectRecycleChan
  flgo,     \* injected packs whose goroutine has not reached the router yet
  flleak,   \* packs that were taken and never recycled
  flin, fltick

flvars == <<flconf, flq, flp, flfree, flgo, flleak, flin, fltick>>

FlNobody == "nobody"

NoPack == [loop |-> 0, pooled |-> FALSE]

FlInit ==
  /\ flconf \in FlConfs
  /\ flq = [f \in FlFilters |-> <<>>]
  /\ flp = [f \in FlFilters |-> [pc |-> "idle", hand |-> NoPack, loop |-> 0, inj |-> 0]]
  /\ flfree = flconf.pool /\ flgo = <<>> /\ flleak = 0
  /\ flin = FlInputs /\ fltick = FlTicks

\* Recycle: a pack of the pool goes back to it.
Returned(pack) == IF pack.pooled THEN 1 ELSE 0

\* PipelinePack's first test: the count of the message to be made.
LoopsLeft(loop) == loop + 1 <= FlMaxLoops

\* The count the new pack carries.
NextLoop(loop) == loop + 1

-----------------------------------------------------------------------------
\* External: a message from an input, which some filter matches.
FlArrives(f) ==
  /\ flin > 0 /\ flp[f].pc # "exit"
  /\ flq' = [flq EXCEPT ![f] = Append(@, NoPack)]
  /\ flin' = flin - 1
  /\ UNCHANGED <<flconf, flp, flfree, flgo, flleak, fltick>>

\* The goroutine of foRunner.Inject hands one pack to the router, in any order.
\* A buffered filter's match runner writes it to disk and recycles the pack; what
\* matches nobody, or a filter that is gone, is recycled.
FlRoute ==
  /\ \E k \in 1..Len(flgo) :
       LET p == flgo[k] IN
       /\ flgo' = RemoveAt(flgo, k)
       /\ \/ /\ p.to = FlNobody \/ (p.to \in FlFilters /\ flp[p.to].pc = "exit")
             /\ flfree' = flfree + 1
             /\ UNCHANGED flq
          \/ /\ p.to \in flconf.buffered /\ flp[p.to].pc # "exit"
             /\ flq' = [flq EXCEPT ![p.to] = Append(@, NoPack)]
             /\ flfree' = flfree + 1
          \/ /\ p.to \in FlFilters \ flconf.buffered /\ flp[p.to].pc # "exit"
             /\ flq' = [flq EXCEPT ![p.to] = Append(@, [loop |-> p.loop, pooled |-> TRUE])]
             /\ UNCHANGED flfree
  /\ UNCHANGED <<flconf, flp, flleak, flin, fltick>>

-----------------------------------------------------------------------------
(* SandboxFilter.Run.                                                      *)

\* A message is taken and ProcessMessage starts the script.
FilterTakes(f) ==
  /\ flp[f].pc = "idle" /\ flq[f] # <<>>
  /\ flp' = [flp EXCEPT ![f] = [pc |-> "script", hand |-> Head(flq[f]),
                                loop |-> Head(flq[f]).loop, inj |-> FlInject]]
  /\ flq' = [flq EXCEPT ![f] = Tail(@)]
  /\ UNCHANGED <<flconf, flfree, flgo, flleak, flin, fltick>>

\* A timer event starts the script; msgLoopCount is still the last message's.
FilterTick(f) ==
  /\ flp[f].pc = "idle" /\ fltick > 0
  /\ flp' = [flp EXCEPT ![f].pc = "script", ![f].hand = NoPack, ![f].inj = FlTimerInject]
  /\ fltick' = fltick - 1
  /\ UNCHANGED <<flconf, flq, flfree, flgo, flleak, flin>>

Fails(f) == flp' = [flp EXCEPT ![f].pc = "failed", ![f].inj = IF @ = 0 THEN 0 ELSE @ - 1]

\* The inject callback: no injection left, or too many loops: the script fails.
InjectRefused(f) ==
  /\ flp[f].pc = "script"
  /\ flp[f].inj = 0 \/ ~LoopsLeft(flp[f].loop)
  /\ Fails(f)
  /\ UNCHANGED <<flconf, flq, flfree, flgo, flleak, flin, fltick>>

\* A pack is taken from the pool, or waited for.  A payload that does not
\* unmarshal fails the script and leaves the pack nowhere; a message the filter's
\* own matcher matches fails it and recycles the pack; any other is on its way.
FlInjectMessage(f) ==
  /\ flp[f].pc = "script" /\ flp[f].inj > 0 /\ LoopsLeft(flp[f].loop) /\ flfree > 0
  /\ \/ /\ flconf.leaky
        /\ flfree' = flfree - 1 /\ flleak' = flleak + 1
        /\ Fails(f)
        /\ UNCHANGED flgo
     \/ /\ Fails(f)
        /\ UNCHANGED <<flfree, flgo, flleak>>
     \/ /\ flfree' = flfree - 1
        /\ \E to \in (FlFilters \ {f}) \cup {FlNobody} :
             flgo' = Append(flgo, [to |-> to, loop |-> NextLoop(flp[f].loop)])
        /\ flp' = [flp EXCEPT ![f].inj = @ - 1]
        /\ UNCHANGED flleak
  /\ UNCHANGED <<flconf, flq, flin, fltick>>

\* The script returns.  The pack is recycled; a fatal return, or one that is slow
\* while the filter is backpressured, terminates the filter.
ScriptReturns(f) ==
  /\ flp[f].pc \in {"script", "failed"}
  /\ \/ flp' = [flp EXCEPT ![f].pc = "term", ![f].hand = NoPack]
     \/ /\ flp[f].pc = "script"
        /\ flp' = [flp EXCEPT ![f].pc = "idle", ![f].hand = NoPack]
  /\ flfree' = flfree + Returned(flp[f].hand)
  /\ UNCHANGED <<flconf, flq, flgo, flleak, flin, fltick>>

\* A terminated filter waits for one more pack, injects the termination message
\* and leaves its loop.
FilterTerminates(f) ==
  /\ flp[f].pc = "term" /\ flfree > 0
  /\ flfree' = flfree - 1
  /\ \E to \in (FlFilters \ {f}) \cup {FlNobody} : flgo' = Append(flgo, [to |-> to, loop |-> NextLoop(0)])
  /\ flp' = [flp EXCEPT ![f].pc = "exit"]
  /\ UNCHANGED <<flconf, flq, flleak, flin, fltick>>

\* exit drains the channel and recycles what is in it.
FilterDrains(f) ==
  /\ flp[f].pc = "exit" /\ flq[f] # <<>>
  /\ flq' = [flq EXCEPT ![f] = Tail(@)]
  /\ flfree' = flfree + Returned(Head(flq[f]))
  /\ UNCHANGED <<flconf, flp, flgo, flleak, flin, fltick>>

FlIdle == UNCHANGED flvars

FlNext ==
  \/ FlRoute
  \/ \E f \in FlFilters :
       \/ FlArrives(f) \/ FilterTakes(f) \/ FilterTick(f) \/ InjectRefused(f)
       \/ FlInjectMessage(f) \/ ScriptReturns(f) \/ FilterTerminates(f) \/ FilterDrains(f)
  \/ FlIdle

\* A script returns in the end (its instructions are limited); whether it injects
\* is its own affair.
FlRun(f) == FilterTakes(f) \/ ScriptReturns(f) \/ FilterTerminates(f) \/ FilterDrains(f)

FlFairness == WF_flvars(FlRoute) /\ \A f \in FlFilters : WF_flvars(FlRun(f))

FlSpec == FlInit /\ [][FlNext]_flvars /\ FlFairness
-----------------------------------------------------------------------------
FlTypeOK ==
  /\ flconf \in FlConfs
  /\ \A f \in FlFilters :
       /\ \A k \in 1..Len(flq[f]) : flq[f][k] \in [loop : 0..FlMaxLoops, pooled : BOOLEAN]
       /\ flp[f].pc \in {"idle", "script", "failed", "term", "exit"}
       /\ flp[f].inj \in 0..(FlInject + FlTimerInject)
  /\ flfree \in 0..flconf.pool /\ flleak \in 0..flconf.pool

\* No pack of the injection pool is lost or given out twice, whatever the scripts
\* do and however the filters exit, but for the messages that do not unmarshal
\* (sandbox_filter.go:211-219): free, on its way, in a queue or in hand.
InjectPacksAccounted ==
  flconf.pool = flfree + flleak + Len(flgo)
                + Cardinality({f \in FlFilters : flp[f].hand.pooled})
                + Cardinality({<<f, k>> \in FlFilters \X (1..flconf.pool + FlInputs) :
                                 k <= Len(flq[f]) /\ flq[f][k].pooled})

FlQuiet == flgo = <<>> /\ \A f \in FlFilters : flq[f] = <<>> /\ flp[f].pc \in {"idle", "exit"}

\* A pool in which nobody waits: for every chain of injections, those the
\* termination messages start included, a pack in hand and one being made.
FlRoomy == flconf.pool >= 2 * (FlInputs + FlTicks + Cardinality(FlFilters))

\* Filters that feed each other come to rest: with room in the pool, once nothing
\* enters from outside and no timer fires, the loop count ends every chain of
\* injections (config.go:230-233), as long as no filter of the loop is buffered.
LoopsEnd ==
  (FlRoomy /\ flconf.buffered = {} /\ flin = 0 /\ fltick = 0) ~> FlQuiet

\* The doc of max_message_loops, "This is used to prevent infinite message loops
\* from filter to filter", for buffered filters as well.
LoopsEndBuffered ==
  (FlRoomy /\ flin = 0 /\ fltick = 0) ~> FlQuiet
=============================================================================

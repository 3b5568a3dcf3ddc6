------------------------------- MODULE AmqpHub -------------------------------
(***************************************************************************)
(* The AMQP plugins (plugins/amqp/): AMQPInput and AMQPOutput plugins with *)
(* the same URL share one connection of the amqpConnectionHub.  usageWg    *)
(* counts the channels in use on a connection, connWg is released when the *)
(* connection is gone from the hub; a goroutine per connection, here the   *)
(* watcher, takes the hub's mutex when the connection closes and holds it  *)
(* until usageWg is down to zero.  The AMQP library and the broker are     *)
(* external.                                                               *)
(***************************************************************************)
EXTENDS Integers, FiniteSets

CONSTANTS
  AmIns, AmOuts,  \* input and output plugins with the same URL
  AmGens          \* bound: connections dialled

ASSUME AmAssumption == AmGens \in Nat /\ AmIns \cap AmOuts = {}

VARIABLES
  amhub,   \* the hub: [cur, mutex, dials]: the connection in the map, the watcher that
           \* holds the mutex, how many connections were dialled; 0 is none
  amconn,  \* per connection: [open, usage, watch]
  amu,     \* per plugin: [pc, gen, ch, again]: its place, its connection, whether its channel
           \* is open, whether Run ended with an error
  amstop,  \* per plugin: [pc, gen]: AMQPInput.Stop; for an output, whether InChan is closed
  amleak,  \* history: a plugin left without giving back its use of a connection
  amby     \* history: per connection, the connections of the plugins that closed it

amvars == <<amhub, amconn, amu, amstop, amleak, amby>>

AmUsers == AmIns \cup AmOuts

AmInit ==
  /\ amhub = [cur |-> 0, mutex |-> 0, dials |-> 0]
  /\ amconn = [g \in 1..AmGens |-> [open |-> FALSE, usage |-> 0, watch |-> "off"]]
  /\ amu = [u \in AmUsers |-> [pc |-> "init", gen |-> 0, ch |-> FALSE, again |-> FALSE]]
  /\ amstop = [u \in AmUsers |-> [pc |-> "no", gen |-> 0]]
  /\ amleak = FALSE
  /\ amby = [g \in 1..AmGens |-> {}]

AmStopping(u) == amstop[u].pc # "no"

\* Whether the channel of a plugin still works.
AmOpen(u) == amu[u].gen # 0 /\ amu[u].ch /\ amconn[amu[u].gen].open

-----------------------------------------------------------------------------
(* The hub.                                                                *)

\* GetChannel, under the mutex: a new connection, or a channel on the one in the map,
\* which fails, with no effect, when that one is closed.
GetChannel(u) ==
  /\ amu[u].pc = "init" /\ amhub.mutex = 0 /\ ~AmStopping(u)
  /\ \/ /\ amhub.cur = 0 /\ amhub.dials < AmGens
        /\ LET g == amhub.dials + 1 IN
             /\ amhub' = [amhub EXCEPT !.cur = g, !.dials = g]
             /\ amconn' = [amconn EXCEPT ![g] = [open |-> TRUE, usage |-> 1, watch |-> "wait"]]
             /\ amu' = [amu EXCEPT ![u] = [pc |-> "declare", gen |-> g, ch |-> TRUE, again |-> FALSE]]
     \/ /\ amhub.cur # 0 /\ amconn[amhub.cur].open
        /\ amconn' = [amconn EXCEPT ![amhub.cur].usage = @ + 1]
        /\ amu' = [amu EXCEPT ![u] = [pc |-> "declare", gen |-> amhub.cur, ch |-> TRUE, again |-> FALSE]]
        /\ UNCHANGED amhub
  /\ UNCHANGED <<amstop, amleak, amby>>

\* Close(url, connWg), under the mutex: closes the connection in the map, if that is
\* still the caller's.
HubClose(gen) ==
  /\ amhub.mutex = 0
  /\ LET hit == amhub.cur # 0 /\ amhub.cur = gen IN
       /\ amconn' = IF hit THEN [amconn EXCEPT ![amhub.cur].open = FALSE] ELSE amconn
       /\ amby' = IF hit /\ amconn[amhub.cur].open
                  THEN [amby EXCEPT ![amhub.cur] = @ \cup {gen}] ELSE amby

WatcherLocks(g) ==
  /\ amconn[g].watch = "wait" /\ ~amconn[g].open /\ amhub.mutex = 0
  /\ amhub' = [amhub EXCEPT !.mutex = g]
  /\ amconn' = [amconn EXCEPT ![g].watch = "usage"]
  /\ UNCHANGED <<amu, amstop, amleak, amby>>

WatcherRemovesNow(g) ==
  /\ amconn[g].watch = "usage"
  /\ amhub' = [amhub EXCEPT !.mutex = 0, !.cur = 0]
  /\ amconn' = [amconn EXCEPT ![g].watch = "done"]
  /\ UNCHANGED <<amu, amstop, amleak, amby>>

\* usageWg.Wait is over: the connection leaves the map, the mutex and connWg are free.
WatcherRemoves(g) ==
  /\ amconn[g].watch = "usage" /\ amconn[g].usage = 0
  /\ amhub' = [amhub EXCEPT !.mutex = 0, !.cur = 0]
  /\ amconn' = [amconn EXCEPT ![g].watch = "done"]
  /\ UNCHANGED <<amu, amstop, amleak, amby>>

\* External: the broker or the network closes a connection.
AmLose(g) ==
  /\ amconn[g].open
  /\ amconn' = [amconn EXCEPT ![g].open = FALSE]
  /\ UNCHANGED <<amhub, amu, amstop, amleak, amby>>

-----------------------------------------------------------------------------
(* The plugins.                                                            *)

UsageDone(u) == amconn' = [amconn EXCEPT ![amu[u].gen].usage = @ - 1]

\* The rest of Init declares exchange and queue; a failure gives the channel back.
AmDeclare(u) ==
  /\ amu[u].pc = "declare"
  /\ IF AmOpen(u)
     THEN amu' = [amu EXCEPT ![u].pc = "inited"] /\ UNCHANGED amconn
     ELSE amu' = [amu EXCEPT ![u].pc = "init"] /\ UsageDone(u)
  /\ UNCHANGED <<amhub, amstop, amleak, amby>>

\* AMQPInput.Run consumes; when that fails it returns before the deferred Done is in
\* place, and the use of the connection is never given back.
InputRun(u) ==
  /\ u \in AmIns /\ amu[u].pc = "inited"
  /\ IF AmOpen(u)
     THEN amu' = [amu EXCEPT ![u].pc = "run"] /\ UNCHANGED amleak
     ELSE /\ amu' = [amu EXCEPT ![u].pc = IF AmStopping(u) THEN "end" ELSE "close"]
          /\ amleak' = TRUE
  /\ UNCHANGED <<amhub, amconn, amstop, amby>>

OutputRun(u) ==
  /\ u \in AmOuts /\ amu[u].pc = "inited"
  /\ amu' = [amu EXCEPT ![u].pc = "run"]
  /\ UNCHANGED <<amhub, amconn, amstop, amleak, amby>>

\* The stream of an input is closed with its channel: an error, unless Stop was called;
\* CleanupForRestart comes next.
InputEnds(u) ==
  /\ u \in AmIns /\ amu[u].pc = "run" /\ ~AmOpen(u)
  /\ UsageDone(u)
  /\ amu' = [amu EXCEPT ![u].pc = IF AmStopping(u) THEN "end" ELSE "close"]
  /\ UNCHANGED <<amhub, amstop, amleak, amby>>

\* An output leaves its loop when Publish fails, with an error, or when it is told of
\* the closed channel or InChan is closed, without one.
AmOutputEnds(u) ==
  /\ u \in AmOuts /\ amu[u].pc = "run" /\ (~AmOpen(u) \/ AmStopping(u))
  /\ UsageDone(u)
  /\ \E again \in IF AmOpen(u) THEN {FALSE} ELSE BOOLEAN :
       amu' = [amu EXCEPT ![u].pc = "close", ![u].again = again]
  /\ UNCHANGED <<amhub, amstop, amleak, amby>>

\* amqpHub.Close, of CleanupForRestart and of the end of the output's Run.
AmClose(u) ==
  /\ amu[u].pc = "close" /\ HubClose(amu[u].gen)
  /\ amu' = [amu EXCEPT ![u].pc = "wait"]
  /\ UNCHANGED <<amhub, amstop, amleak>>

\* connWg.Wait is over: an input, or an output with an error, is initialised again.
AmWaited(u) ==
  /\ amu[u].pc = "wait" /\ amconn[amu[u].gen].watch = "done"
  /\ amu' = [amu EXCEPT ![u].pc = IF AmStopping(u) \/ (u \in AmOuts /\ ~amu[u].again)
                                  THEN "end" ELSE "init"]
  /\ UNCHANGED <<amhub, amconn, amstop, amleak, amby>>

\* AMQPInput.Stop closes the channel, then the connection for all who share it, and
\* waits; an output is stopped by its InChan.
AmStop(u) ==
  /\ amstop[u].pc = "no" /\ amu[u].gen # 0
  /\ amstop' = [amstop EXCEPT ![u] = [pc |-> IF u \in AmIns THEN "close" ELSE "done", gen |-> amu[u].gen]]
  /\ amu' = IF u \in AmIns THEN [amu EXCEPT ![u].ch = FALSE] ELSE amu
  /\ UNCHANGED <<amhub, amconn, amleak, amby>>

AmInputStops(u) ==
  /\ u \in AmIns
  /\ \/ /\ amstop[u].pc = "close" /\ HubClose(amstop[u].gen)
        /\ amstop' = [amstop EXCEPT ![u].pc = "wait"]
     \/ /\ amstop[u].pc = "wait" /\ amconn[amstop[u].gen].watch = "done"
        /\ amstop' = [amstop EXCEPT ![u].pc = "done"]
        /\ UNCHANGED <<amconn, amby>>
  /\ UNCHANGED <<amhub, amu, amleak>>

AmIdle == UNCHANGED amvars

AmPlugin(u) == \/ AmDeclare(u) \/ InputRun(u) \/ OutputRun(u) \/ InputEnds(u) \/ AmOutputEnds(u)
               \/ AmClose(u) \/ AmWaited(u) \/ AmInputStops(u)
AmWatch(g) == WatcherLocks(g) \/ WatcherRemoves(g)

AmNext ==
  \/ \E u \in AmUsers : GetChannel(u) \/ AmPlugin(u) \/ AmStop(u)
  \/ \E g \in 1..AmGens : AmWatch(g) \/ AmLose(g)
  \/ AmIdle

\* Every goroutine goes on; the mutex is handed to each that waits for it.
AmFairness == /\ \A u \in AmUsers : WF_amvars(AmPlugin(u)) /\ WF_amvars(AmInputStops(u))
              /\ \A g \in 1..AmGens : WF_amvars(AmWatch(g))

AmSpec == AmInit /\ [][AmNext]_amvars /\ AmFairness
-----------------------------------------------------------------------------
AmTypeOK ==
  /\ amhub.cur \in 0..AmGens /\ amhub.mutex \in 0..AmGens
  /\ \A g \in 1..AmGens : /\ amconn[g].usage \in 0..Cardinality(AmUsers)
                          /\ amconn[g].watch \in {"off", "wait", "usage", "done"}
  /\ \A u \in AmUsers : /\ amu[u].pc \in {"init", "declare", "inited", "run", "close", "wait", "end"}
                        /\ amstop[u].pc \in {"no", "close", "wait", "done"}

\* Who still uses a connection.
AmUsing(g) == {u \in AmUsers : amu[u].gen = g /\ amu[u].pc \in {"declare", "inited", "run"}}

\* "connWg ... is used as a barrier to ensure all users of the connection are done before
\* we finish" (amqp_output.go:77-79): connWg is released, and a new connection dialled,
\* only when no plugin uses the old one.
AmBarrier ==
  /\ \A g \in 1..AmGens : amconn[g].watch = "done" => AmUsing(g) = {}
  /\ Cardinality({g \in 1..AmGens : AmUsing(g) # {}}) <= 1

\* A plugin closes no connection but its own, however late its Close comes: when a new
\* connection is in the map by then, "the call will be ignored" (types.go:174-192).
AmClosesOwn == \A g \in 1..AmGens : amby[g] \subseteq {g}

\* A closed connection leaves the hub and with it the mutex, so that the plugins can
\* dial again; unless an input's Consume has failed (types.go:149-161).
AmReleased ==
  \A g \in 1..AmGens :
    (amconn[g].watch = "wait" /\ ~amconn[g].open) ~> (amconn[g].watch = "done" \/ amleak)

\* AMQPInput.Stop returns, although it waits for every plugin that shares the
\* connection; unless an input's Consume has failed (amqp_input.go:224-229).
AmStopReturns ==
  \A u \in AmIns : (amstop[u].pc = "close") ~> (amstop[u].pc = "done" \/ amleak)
=============================================================================

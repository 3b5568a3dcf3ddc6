------------------------------ MODULE Pipeline -------------------------------
(***************************************************************************)
(* The pipeline as hekad runs it: inputs that fill packs, filters that     *)
(* inject new messages, outputs, the router of module MessageRouter among  *)
(* them, plugins that fail and exit, and the order in which Run shuts all  *)
(* of it down (pipeline/pipeline_runner.go, pipeline/plugin_runners.go and *)
(* the runner registry of pipeline/config.go).                             *)
(*                                                                         *)
(* Inputs and filters draw on pools of their own.  An input waits for a    *)
(* pack, then for room in the router's channel.  A filter waits for a pack *)
(* too, but leaves the injection to a goroutine.  The shutdown stops the   *)
(* inputs, then has the router remove the filters' matchers, then the      *)
(* outputs', and waits for each group to end.                              *)
(***************************************************************************)
EXTENDS MessageRouter

CONSTANTS
    Inputs,      \* the InputRunners
    InjectPacks, \* the packs of the filters' pool, the others are the inputs'
    Injectors,   \* the filters that inject messages
    NewApi,      \* the plugins that are MessageProcessors (channelLoop)
    CanExit,     \* the plugins with can_exit set
    MaxRead,     \* bound: messages the inputs read
    MaxInjects,  \* bound: messages the filters inject
    MaxFails     \* bound: failures of plugins and inputs

Plugins == InitFilters \cup Outputs

ASSUME PipelineAssumption ==
    /\ InjectPacks \subseteq Packs
    /\ Injectors \subseteq Filters
    /\ NewApi \subseteq Plugins /\ CanExit \subseteq Plugins
    /\ Buffered = {}
    /\ MaxRead \in Nat /\ MaxInjects \in Nat /\ MaxFails \in Nat
    /\ MaxMsgs = MaxRead + MaxInjects + Cardinality(CanExit)

VARIABLES
    main,      \* Run: "run", "inputs", "filters", "outputs", "done"
    stopping,  \* Globals.stopping
    sigint,    \* a SIGINT is on its way to sigChan (ShutDown, or the user)
    toStop,    \* the plugins Run has still to send to the router
    iPc,       \* input: "idle", "want", "hold", "done"
    iPack,     \* the pack an input is delivering
    ppc,       \* plugin: "idle", "check", "proc", "want", "exit", "term",
               \* "send", "drain", "done"
    tPack,     \* the pack with the plugin's termination message
    remover,   \* the goroutine that unregisters it: "none", "start", "send", "sent"
    from,      \* the filter that injected the message of a pack
    reads, injects, fails   \* messages read, messages injected, failures so far

mainVars == <<main, stopping, sigint, toStop>>
inVars   == <<iPc, iPack, reads>>
plugVars == <<ppc, tPack, remover, from, injects>>
pipeVars == <<mainVars, inVars, plugVars, fails>>
pvars == <<vars, pipeVars>>

PInit ==
    /\ Init
    /\ main = "run" /\ stopping = FALSE /\ sigint = FALSE /\ toStop = {}
    /\ iPc = [i \in Inputs |-> "idle"] /\ iPack = [i \in Inputs |-> Nil]
    /\ ppc = [m \in Plugins |-> "idle"] /\ tPack = [m \in Plugins |-> Nil]
    /\ remover = [m \in Plugins |-> "none"]
    /\ from = [p \in Packs |-> Nil]
    /\ reads = 0 /\ injects = 0 /\ fails = 0

------------------------------------------------------------------------------
(* Inputs: iRunner.Starter around the plugin's Run.                        *)

\* The input has a record to deliver: DeliverRecord waits for a pack.
InputRead(i) ==
    /\ iPc[i] = "idle"
    /\ reads < MaxRead /\ reads' = reads + 1
    /\ iPc' = [iPc EXCEPT ![i] = "want"]
    /\ UNCHANGED <<vars, mainVars, iPack, plugVars, fails>>

\* pack := <-ir.InChan(), and the record goes into it.
InputTakePack(i) ==
    /\ iPc[i] = "want"
    /\ \E p \in Packs \ InjectPacks :
          Produce(p) /\ iPack' = [iPack EXCEPT ![i] = p]
    /\ iPc' = [iPc EXCEPT ![i] = "hold"]
    /\ UNCHANGED <<mainVars, reads, plugVars, fails>>

\* iRunner.Inject: the input's goroutine waits for room in the router's channel.
InputInject(i) ==
    /\ iPc[i] = "hold"
    /\ Inject(iPack[i])
    /\ iPack' = [iPack EXCEPT ![i] = Nil]
    /\ iPc' = [iPc EXCEPT ![i] = "idle"]
    /\ UNCHANGED <<mainVars, reads, plugVars, fails>>

\* Input.Run returns, having been told to stop (all inputs are in "inputs").
InputStops(i) ==
    /\ iPc[i] = "idle" /\ main = "inputs"
    /\ iPc' = [iPc EXCEPT ![i] = "done"]
    /\ UNCHANGED <<vars, mainVars, iPack, reads, plugVars, fails>>

\* Input.Run returns on its own: without can_exit that shuts Heka down.
InputFails(i) ==
    /\ iPc[i] = "idle" /\ ~stopping
    /\ fails < MaxFails /\ fails' = fails + 1
    /\ iPc' = [iPc EXCEPT ![i] = "done"]
    /\ sigint' = TRUE
    /\ UNCHANGED <<vars, main, stopping, toStop, iPack, reads, plugVars>>

Input(i) == InputRead(i) \/ InputTakePack(i) \/ InputInject(i) \/ InputStops(i)

------------------------------------------------------------------------------
(* Plugins: foRunner.Starter and OldStarter around the message loop.       *)

\* A pack from the channel.  channelLoop looks at IsShuttingDown first.
PluginReceive(m) ==
    /\ ppc[m] = "idle"
    /\ PluginTake(m)
    /\ ppc' = [ppc EXCEPT ![m] = IF m \in NewApi THEN "check" ELSE "proc"]
    /\ UNCHANGED <<mainVars, inVars, tPack, remover, from, injects, fails>>

\* for !IsShuttingDown(): when it is, the loop is left and the pack with it.
PluginCheck(m) ==
    /\ ppc[m] = "check"
    /\ IF stopping
       THEN /\ pPack' = [pPack EXCEPT ![m] = Nil]
            /\ ppc' = [ppc EXCEPT ![m] = "idle"]
            /\ UNCHANGED <<packVars, held, inChan, sliceVars, routeVars, matchVars,
                           produced, routed, seen>>
       ELSE /\ ppc' = [ppc EXCEPT ![m] = "proc"]
            /\ UNCHANGED vars
    /\ UNCHANGED <<mainVars, inVars, tPack, remover, from, injects, fails>>

\* ProcessMessage is done with the pack, or drops it.
PluginDone(m) ==
    /\ ppc[m] = "proc"
    /\ PluginRecycle(m)
    /\ ppc' = [ppc EXCEPT ![m] = "idle"]
    /\ UNCHANGED <<mainVars, inVars, tPack, remover, from, injects, fails>>

\* A RetryMessageError: back to the loop's condition.
PluginRetry(m) ==
    /\ ppc[m] = "proc" /\ m \in NewApi
    /\ fails < MaxFails /\ fails' = fails + 1
    /\ ppc' = [ppc EXCEPT ![m] = "check"]
    /\ UNCHANGED <<vars, mainVars, inVars, tPack, remover, from, injects>>

\* A fatal error.
PluginFails(m) ==
    /\ ppc[m] = "proc"
    /\ fails < MaxFails /\ fails' = fails + 1
    /\ PluginRecycle(m)
    /\ ppc' = [ppc EXCEPT ![m] = "exit"]
    /\ UNCHANGED <<mainVars, inVars, tPack, remover, from, injects>>

\* The filter has a message to inject: PipelinePack waits for a pack.
FilterWants(m) ==
    /\ ppc[m] = "proc" /\ m \in Injectors
    /\ injects < MaxInjects /\ injects' = injects + 1
    /\ ppc' = [ppc EXCEPT ![m] = "want"]
    /\ UNCHANGED <<vars, mainVars, inVars, tPack, remover, from, fails>>

\* foRunner.Inject.  A message that the filter itself would match is recycled;
\* any other is left to a goroutine.
FilterInject(m) ==
    /\ ppc[m] = "want"
    /\ \E p \in InjectPacks :
          \/ Produce(p) /\ from' = [from EXCEPT ![p] = m]
          \/ p \in recycleChan /\ UNCHANGED <<vars, from>>
    /\ ppc' = [ppc EXCEPT ![m] = "proc"]
    /\ UNCHANGED <<mainVars, inVars, tPack, remover, injects, fails>>

\* That goroutine, blocked on the router's channel until there is room.
SpawnInject(p) ==
    /\ p \notin Range(iPack) \cup Range(tPack)
    /\ Inject(p)
    /\ UNCHANGED pipeVars

\* The channel is closed and empty: the message loop returns.
PluginLoopEnds(m) ==
    /\ ppc[m] = "idle"
    /\ mDone[m] /\ matchChan[m] = <<>>
    /\ ppc' = [ppc EXCEPT ![m] = "exit"]
    /\ UNCHANGED <<vars, mainVars, inVars, tPack, remover, from, injects, fails>>

\* exit: while Heka stops, only the deferred drain is left to do; a plugin that
\* may not exit stops Heka; one that may is unregistered in a goroutine and
\* goes on to send a termination message, unless it was terminated and has sent
\* its own.
exit(m) ==
    /\ ppc[m] = "exit"
    /\ \/ /\ stopping
          /\ ppc' = [ppc EXCEPT ![m] = "drain"]
          /\ UNCHANGED <<sigint, remover>>
       \/ /\ ~stopping /\ m \notin CanExit
          /\ ppc' = [ppc EXCEPT ![m] = "drain"]
          /\ sigint' = TRUE
          /\ UNCHANGED remover
       \/ /\ ~stopping /\ m \in CanExit
          /\ \E pc \in {"term", "drain"} : ppc' = [ppc EXCEPT ![m] = pc]
          /\ remover' = [remover EXCEPT ![m] = "start"]
          /\ UNCHANGED sigint
    /\ UNCHANGED <<vars, main, stopping, toStop, inVars, tPack, from, injects, fails>>

\* PipelinePack(0) for the termination message.
TermTakePack(m) ==
    /\ ppc[m] = "term"
    /\ \E p \in InjectPacks :
          Produce(p) /\ tPack' = [tPack EXCEPT ![m] = p]
                    /\ from' = [from EXCEPT ![p] = Nil]
    /\ ppc' = [ppc EXCEPT ![m] = "send"]
    /\ UNCHANGED <<mainVars, inVars, remover, injects, fails>>

\* router.inChan <- pack, by the plugin's goroutine itself.
TermInject(m) ==
    /\ ppc[m] = "send"
    /\ Inject(tPack[m])
    /\ tPack' = [tPack EXCEPT ![m] = Nil]
    /\ ppc' = [ppc EXCEPT ![m] = "drain"]
    /\ UNCHANGED <<mainVars, inVars, remover, from, injects, fails>>

\* A variant that does not recycle.
DrainForget(m) ==
    /\ ppc[m] = "drain"
    /\ IF matchChan[m] # <<>>
       THEN /\ matchChan' = [matchChan EXCEPT ![m] = Tail(@)]
            /\ UNCHANGED <<packVars, held, inChan, sliceVars, routeVars, mIn, closing,
                           mPack, mDone, pPack, produced, routed, seen, ppc>>
       ELSE /\ mDone[m]
            /\ ppc' = [ppc EXCEPT ![m] = "done"]
            /\ UNCHANGED vars
    /\ UNCHANGED <<mainVars, inVars, tPack, remover, from, injects, fails>>

\* A variant without the loop.
DrainNothing(m) ==
    /\ ppc[m] = "drain"
    /\ mDone[m]
    /\ ppc' = [ppc EXCEPT ![m] = "done"]
    /\ UNCHANGED <<vars, mainVars, inVars, tPack, remover, from, injects, fails>>

\* The deferred function recycles what is left in the plugin's channel, until
\* the channel is closed.
Drain(m) ==
    /\ ppc[m] = "drain"
    /\ IF matchChan[m] # <<>>
       THEN /\ recycle(Head(matchChan[m]))
            /\ matchChan' = [matchChan EXCEPT ![m] = Tail(@)]
            /\ UNCHANGED <<held, inChan, sliceVars, routeVars, mIn, closing, mPack,
                           mDone, pPack, produced, routed, seen, ppc>>
       ELSE /\ mDone[m]
            /\ ppc' = [ppc EXCEPT ![m] = "done"]
            /\ UNCHANGED vars
    /\ UNCHANGED <<mainVars, inVars, tPack, remover, from, injects, fails>>

\* Unregister's goroutine: RemoveFilterRunner gives up while Heka stops;
\* RemoveOutputRunner does not look.
RemoverStart(m) ==
    /\ remover[m] = "start"
    /\ remover' = [remover EXCEPT ![m] = IF m \in Filters /\ stopping
                                         THEN "none" ELSE "send"]
    /\ UNCHANGED <<vars, mainVars, inVars, ppc, tPack, from, injects, fails>>

\* The router takes a request to remove m.  One for a matcher that is in its
\* slices no longer changes nothing.
RouterRemoves(m) ==
    \/ m \in Filters /\ RemoveFilterMatcher(m)
    \/ m \in Outputs /\ RemoveOutputMatcher(m)
    \/ rpc = "select" /\ m \notin Range(fMatchers \o oMatchers) /\ UNCHANGED vars

\* Under filtersLock, which Run holds while it stops the filters.
RemoverSend(m) ==
    /\ remover[m] = "send"
    /\ m \in Filters => ~(main = "filters" /\ toStop # {})
    /\ RouterRemoves(m)
    /\ remover' = [remover EXCEPT ![m] = "sent"]
    /\ UNCHANGED <<mainVars, inVars, ppc, tPack, from, injects, fails>>

Plugin(m) ==
    PluginReceive(m) \/ PluginCheck(m) \/ PluginDone(m) \/ PluginLoopEnds(m)
      \/ FilterInject(m) \/ exit(m) \/ TermTakePack(m) \/ TermInject(m) \/ Drain(m)
Remover(m) == RemoverStart(m) \/ RemoverSend(m)

------------------------------------------------------------------------------
(* The router and the match runners, as in MessageRouter.  A message that m *)
(* injected does not match m: Inject has seen to it.                        *)

Routing == Route /\ UNCHANGED pipeVars

Matching(m) ==
    /\ \/ MatchSkip(m) \/ DeliverToChan(m) \/ MatchExit(m)
       \/ MatchTake(m) /\ from[Head(mIn[m])] # m
    /\ UNCHANGED pipeVars

------------------------------------------------------------------------------
(* Run, from the signal on.                                                *)

\* The user stops Heka.
Interrupt ==
    /\ main = "run" /\ ~sigint
    /\ sigint' = TRUE
    /\ UNCHANGED <<vars, main, stopping, toStop, inVars, plugVars, fails>>

\* case SIGINT: Globals.stop, then Stop on every input.
StopInputs ==
    /\ main = "run" /\ sigint
    /\ main' = "inputs" /\ stopping' = TRUE
    /\ UNCHANGED <<vars, sigint, toStop, inVars, plugVars, fails>>


\* inputsWg.Wait.
InputsDone ==
    /\ main = "inputs"
    /\ \A i \in Inputs : iPc[i] = "done"
    /\ main' = "filters"
    /\ toStop' = {m \in InitFilters : remover[m] # "sent"}
    /\ UNCHANGED <<vars, stopping, sigint, inVars, plugVars, fails>>

\* RemoveFilterMatcher() <- filter.MatchRunner(), and the same for outputs.
StopPlugin(m) ==
    /\ main \in {"filters", "outputs"}
    /\ m \in toStop
    /\ RouterRemoves(m)
    /\ toStop' = toStop \ {m}
    /\ UNCHANGED <<main, stopping, sigint, inVars, plugVars, fails>>

\* filtersWg.Wait.  An output that removed its matcher may still be registered.
FiltersDone ==
    /\ main = "filters" /\ toStop = {}
    /\ \A m \in InitFilters : ppc[m] = "done"
    /\ main' = "outputs"
    /\ \E late \in SUBSET {m \in Outputs : remover[m] = "sent"} :
          toStop' = {m \in Outputs : remover[m] # "sent"} \cup late
    /\ UNCHANGED <<vars, stopping, sigint, inVars, plugVars, fails>>

\* outputsWg.Wait, and os.Exit.
OutputsDone ==
    /\ main = "outputs" /\ toStop = {}
    /\ \A m \in Outputs : ppc[m] = "done"
    /\ main' = "done"
    /\ UNCHANGED <<vars, stopping, sigint, toStop, inVars, plugVars, fails>>

Run == StopInputs \/ InputsDone \/ (\E m \in Plugins : StopPlugin(m))
         \/ FiltersDone \/ OutputsDone

------------------------------------------------------------------------------
PNext ==
    \/ /\ main # "done"
       /\ \/ \E i \in Inputs : Input(i) \/ InputFails(i)
          \/ \E m \in Plugins : \/ Plugin(m) \/ Remover(m) \/ FilterWants(m)
                                \/ PluginRetry(m) \/ PluginFails(m)
          \/ \E m \in Matchers : Matching(m)
          \/ \E p \in Packs : SpawnInject(p)
          \/ Routing \/ Interrupt \/ Run
    \/ main = "done" /\ UNCHANGED pvars

PSpec == PInit /\ [][PNext]_pvars

\* Every goroutine that can move does, and a plugin returns from ProcessMessage.
\* Inputs need not read on.
PFairness ==
    /\ \A i \in Inputs : WF_pvars(InputTakePack(i) \/ InputInject(i) \/ InputStops(i))
    /\ \A m \in Plugins : WF_pvars(Plugin(m)) /\ WF_pvars(Remover(m))
    /\ \A m \in Matchers : WF_pvars(Matching(m))
    /\ \A p \in Packs : WF_pvars(SpawnInject(p))
    /\ WF_pvars(Routing) /\ WF_pvars(Run)

PFairSpec == PSpec /\ PFairness

------------------------------------------------------------------------------
(* Properties.                                                             *)

\* Types of the variables this module adds.
PTypeOK ==
    /\ main \in {"run", "inputs", "filters", "outputs", "done"}
    /\ stopping \in BOOLEAN /\ sigint \in BOOLEAN /\ toStop \subseteq Plugins
    /\ iPc \in [Inputs -> {"idle", "want", "hold", "done"}]
    /\ iPack \in [Inputs -> (Packs \ InjectPacks) \cup {Nil}]
    /\ ppc \in [Plugins -> {"idle", "check", "proc", "want", "exit", "term", "send",
                            "drain", "done"}]
    /\ tPack \in [Plugins -> InjectPacks \cup {Nil}]
    /\ remover \in [Plugins -> {"none", "start", "send", "sent"}]
    /\ from \in [Packs -> Filters \cup {Nil}]
    /\ reads \in 0..MaxRead /\ injects \in 0..MaxInjects /\ fails \in 0..MaxFails

\* When Run exits, every matcher and every plugin has drained its channel and
\* dropped its packs, whichever way the plugins ended.
DrainedAtExit ==
    main = "done" =>
        \A m \in Plugins : /\ mDone[m] /\ mIn[m] = <<>> /\ matchChan[m] = <<>>
                           /\ mPack[m] = Nil /\ pPack[m] = Nil


\* Wherever the pipeline is, some goroutine can go on until Run has exited: the
\* separate pool of the filters, and the goroutine that Inject starts, prevent
\* a cycle of goroutines that wait for each other.
NoDeadlock == main # "done" => ENABLED PNext
==============================================================================

----------------------------- MODULE MCRunners -----------------------------
(* How plugins are run: Starter and its retries, the disk-buffered plugin, the
   injection loops of filters, decoder runners and the sandbox manager.
   Each behaviour is of one component, named by `component`; the others keep a
   fixed initial state, so that one run explores them all side by side. *)
EXTENDS PluginLifecycle, BufferedPlugin, FilterLoops, Decoders, SandboxManager

VARIABLE component

allVars == <<component, lvars, bufVars, flvars, decVars, smvars>>

MCFlConfs == {[pool |-> 1, buffered |-> {}, leaky |-> TRUE],
              [pool |-> 8, buffered |-> {}, leaky |-> FALSE],
              [pool |-> 8, buffered |-> {"f"}, leaky |-> FALSE]}
MCSmConfs == {[cap |-> 1, max |-> 2, quiet |-> FALSE], [cap |-> 2, max |-> 1, quiet |-> FALSE],
              [cap |-> 2, max |-> 1, quiet |-> TRUE]}

\* The initial state of a component that does not move.
LPin == plug = CHOOSE p \in PlugSet : p.kind = "input" /\ ~p.shutdownWhenFull
FlPin == flconf = CHOOSE c \in FlConfs : TRUE
DecPin ==
    /\ dconf = [sync |-> TRUE, send |-> TRUE, kind |-> "stats", pool |-> 2, own |-> TRUE]
SmPin == smconf = CHOOSE c \in SmConfs : TRUE

Init ==
    /\ component \in {"lifecycle", "buffered", "loops", "decoders", "manager"}
    /\ IF component = "lifecycle" THEN LInit ELSE LPin /\ LInit
    /\ BInit
    /\ IF component = "loops" THEN FlInit ELSE FlPin /\ FlInit
    /\ IF component = "decoders" THEN DecInit ELSE DecPin /\ DecInit
    /\ IF component = "manager" THEN SmInit ELSE SmPin /\ SmInit

\* A step of one component leaves the others alone.
OnlyLifecycle ==
    /\ component = "lifecycle"
    /\ UNCHANGED <<component, bufVars, flvars, decVars, smvars>>
OnlyBuffered ==
    /\ component = "buffered"
    /\ UNCHANGED <<component, lvars, flvars, decVars, smvars>>
OnlyLoops ==
    /\ component = "loops"
    /\ UNCHANGED <<component, lvars, bufVars, decVars, smvars>>
OnlyDecoders ==
    /\ component = "decoders"
    /\ UNCHANGED <<component, lvars, bufVars, flvars, smvars>>
OnlyManager ==
    /\ component = "manager"
    /\ UNCHANGED <<component, lvars, bufVars, flvars, decVars>>

Next ==
    \/ OnlyLifecycle /\ LNext
    \/ OnlyBuffered /\ BNext
    \/ OnlyLoops /\ FlNext
    \/ OnlyDecoders /\ DecNext
    \/ OnlyManager /\ SmNext

\* The variables of the component that moves.
own ==
    CASE component = "lifecycle" -> lvars
      [] component = "buffered" -> bufVars
      [] component = "loops" -> flvars
      [] component = "decoders" -> decVars
      [] component = "manager" -> smvars

\* The fairness of the components: as many conjuncts as the one with most needs.
Weak1 ==
    \/ component = "lifecycle" /\ (LStart \/ waitForBackPressure)
    \/ component = "buffered" /\ bshut # "panic" /\ Reader
    \/ component = "loops" /\ FlRoute
    \/ component = "decoders" /\ (dpanic = "no" /\ (RouterRecycles \/ DecMain))
    \/ component = "manager" /\ SmRouter
Weak2 ==
    \/ component = "lifecycle" /\ shutDown /\ StopAll
    \/ component = "buffered" /\ bshut # "panic" /\ Plugin
    \/ component = "loops" /\ FlRun("f")
    \/ component = "decoders" /\ (dpanic = "no" /\ \E h \in DHandlers : DecHandler(h) \/ DecSteps(h))
    \/ component = "manager" /\ SmManager
Weak3 ==
    \/ component = "lifecycle" /\ TellPlugin
    \/ component = "buffered" /\ bshut # "panic" /\ Both
    \/ component = "loops" /\ FlRun("g")
    \/ component = "manager" /\ SmFilters
Weak4 ==
    \/ component = "lifecycle" /\ Starter
Weak5 ==
    \/ component = "lifecycle" /\ stopChan /\ LReturns
Strong1 ==
    \/ component = "decoders" /\ (dpanic = "no" /\ \E h \in DHandlers : NewPack(h))
    \/ component = "manager" /\ SmMain
Strong2 ==
    \/ component = "manager" /\ SmRemovers

Spec ==
    /\ Init /\ [][Next]_allVars
    /\ WF_own(Weak1 /\ UNCHANGED component)
    /\ WF_own(Weak2 /\ UNCHANGED component)
    /\ WF_own(Weak3 /\ UNCHANGED component)
    /\ WF_own(Weak4 /\ UNCHANGED component)
    /\ WF_own(Weak5 /\ UNCHANGED component)
    /\ SF_own(Strong1 /\ UNCHANGED component)
    /\ SF_own(Strong2 /\ UNCHANGED component)

\* The types of all components.
RunnersTypeOK == LTypeOK /\ BTypeOK /\ FlTypeOK /\ DecTypeOK /\ SmTypeOK

\* Starter retries a plugin as often as its RetryHelper allows, no more and no
\* less, and one that ends for good is unregistered or brings the process down.
RetriedAsConfigured ==
    component = "lifecycle" => RetryBudget /\ NotGivenUpEarly /\ EndIsNoticed


\* Every pack of Inject and of a dRunner is in one place, whatever a filter or a
\* decoder answers (the leaks that the two modules name apart), and a decoder's
\* channel is not used once it is closed.
RunnerPacks ==
    /\ component = "loops" => InjectPacksAccounted
    /\ component = "decoders" => PacksAccounted /\ NoUseOfClosed

\* SandboxManagerFilter's count, its saved files, the registry of filters and the
\* router's matchers agree on which filters run.
FiltersTracked ==
    component = "manager" => CountTrue /\ AtMostMaxFilters /\ RunningIsSaved /\ RoutedIsRegistered

\* What is told to end ends and what waits is answered: Starter, runBoth after its
\* reader, filters that inject for each other, decoder runners, the sandbox manager.
RunnersProgress ==
    /\ component = "lifecycle" => StarterEnds /\ BootCompletes
    /\ component = "buffered" => ReaderFirstReturns
    /\ component = "loops" => LoopsEnd
    /\ component = "decoders" => NewPackComes /\ DecodersEnd
    /\ component = "manager" => QuietShutdown /\ ExitedIsUnregistered
=============================================================================

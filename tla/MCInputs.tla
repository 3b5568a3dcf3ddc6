------------------------------ MODULE MCInputs ------------------------------
(* Inputs: processes and their directory, statistics, Docker, Kafka.
   Each behaviour is of one component, named by `component`; the others keep a
   fixed initial state, so that one run explores them all side by side. *)
EXTENDS ProcessInput, ProcessDirectory, StatAccum, DockerLogs, KafkaPlugins

VARIABLE component

allVars == <<component, procVars, dirVars, svars, dkvars, kvars>>

\* The initial state of a component that does not move.
ProcPin ==
    /\ pcfg = [tick0 |-> TRUE, immediate |-> TRUE, timeout |-> TRUE, transient |-> TRUE]
DirPin == disk = [f \in DirFiles |-> "absent"]
SaPin == deleteIdle = TRUE
DkPin == dkrunning = {}
KPin == kkind = "input" /\ kmethod = "Manual"

Init ==
    /\ component \in {"process", "directory", "stats", "docker", "kafka"}
    /\ IF component = "process" THEN ProcInit ELSE ProcPin /\ ProcInit
    /\ IF component = "directory" THEN DirInit ELSE DirPin /\ DirInit
    /\ IF component = "stats" THEN SaInit ELSE SaPin /\ SaInit
    /\ IF component = "docker" THEN DkInit ELSE DkPin /\ DkInit
    /\ IF component = "kafka" THEN KInit ELSE KPin /\ KInit

\* A step of one component leaves the others alone.
OnlyProcess ==
    /\ component = "process"
    /\ UNCHANGED <<component, dirVars, svars, dkvars, kvars>>
OnlyDirectory ==
    /\ component = "directory"
    /\ UNCHANGED <<component, procVars, svars, dkvars, kvars>>
OnlyStats ==
    /\ component = "stats"
    /\ UNCHANGED <<component, procVars, dirVars, dkvars, kvars>>
OnlyDocker ==
    /\ component = "docker"
    /\ UNCHANGED <<component, procVars, dirVars, svars, kvars>>
OnlyKafka ==
    /\ component = "kafka"
    /\ UNCHANGED <<component, procVars, dirVars, svars, dkvars>>

Next ==
    \/ OnlyProcess /\ ProcNext
    \/ OnlyDirectory /\ DirNext
    \/ OnlyStats /\ SaNext
    \/ OnlyDocker /\ DkNext
    \/ OnlyKafka /\ KNext

\* The variables of the component that moves.
own ==
    CASE component = "process" -> procVars
      [] component = "directory" -> dirVars
      [] component = "stats" -> svars
      [] component = "docker" -> dkvars
      [] component = "kafka" -> kvars

\* The fairness of the components: as many conjuncts as the one with most needs.
Weak1 ==
    \/ component = "process" /\ Running /\ StopSteps
    \/ component = "directory" /\ dmain # "panic" /\ LoadSteps
    \/ component = "stats" /\ ~spanic /\ SaProducer("statsd")
    \/ component = "docker" /\ DkRun
    \/ component = "kafka" /\ KFair
Weak2 ==
    \/ component = "process" /\ Running /\ StarterSteps
    \/ component = "directory" /\ dmain # "panic" /\ RunnersStep
    \/ component = "stats" /\ ~spanic /\ SaProducer("filter")
Weak3 ==
    \/ component = "process" /\ (Running /\ (RunCmdSteps \/ RunCmdSelect))
    \/ component = "directory" /\ DirStopAll
    \/ component = "stats" /\ ~spanic /\ ReceiveStat
Weak4 ==
    \/ component = "process" /\ Running /\ CmdWaited
    \/ component = "directory" /\ DirDown
    \/ component = "stats" /\ (~spanic /\ sa.stop /\ (SaStop \/ \E p \in SaProducers : StopProducer(p)))
Weak5 ==
    \/ component = "process" /\ Running /\ PassStop
Strong1 ==
    \/ component = "directory" /\ dmain # "panic" /\ DirReturns
    \/ component = "docker" /\ DkStopped

Spec ==
    /\ Init /\ [][Next]_allVars
    /\ WF_own(Weak1 /\ UNCHANGED component)
    /\ WF_own(Weak2 /\ UNCHANGED component)
    /\ WF_own(Weak3 /\ UNCHANGED component)
    /\ WF_own(Weak4 /\ UNCHANGED component)
    /\ WF_own(Weak5 /\ UNCHANGED component)
    /\ SF_own(Strong1 /\ UNCHANGED component)

\* The types of all components.
InputsTypeOK == ProcTypeOK /\ DirTypeOK /\ SaTypeOK /\ DkTypeOK /\ KTypeOK

\* ProcessInput.Stop finds room in the Stopchan of whichever CommandChain runs,
\* commands are killed because somebody stops the input, and no channel is closed
\* twice before that; an input of the directory that was restarted apart.
ProcessStopped ==
    component = "process" => StopHasRoom /\ KilledWhenStopped /\ NoPanicUnstopped


\* StatAccumInput.Flush emits every stat received exactly once and takes its
\* percentiles from the samples it has.
StatsFlushed == component = "stats" => StatsConserved /\ PercentileInRange

\* AttachManager is attached to every container that runs, a lost event stream
\* included, but for the gaps that DkAllAttached names; without failures once.
DockerAttached == component = "docker" => DkAllAttached /\ DkOnce


\* Run returns after Stop, with the commands, inputs and producers it started, and
\* Docker's event stream is replaced after a failure, the hangs that the modules
\* name apart.
InputsProgress ==
    /\ component = "process" => StopEnds /\ ChainStops
    /\ component = "directory" => DirShutsDown
    /\ component = "stats" => SaEnds
    /\ component = "docker" => DkRecovers /\ DkStops
    /\ component = "kafka" => KafkaOutputEnds
=============================================================================

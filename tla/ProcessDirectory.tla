--------------------------- MODULE ProcessDirectory --------------------------
(***************************************************************************)
(* ProcessDirectoryInput (plugins/process) and the registry of inputs it   *)
(* changes while Heka runs: at every tick loadInputs compares the files of *)
(* the directory with its inputs and removes, replaces and adds runners,   *)
(* each under inputsLock, while the main goroutine may be shutting down.   *)
(* The runners' commands do not fail here; see ProcessInput for restarts.  *)
(***************************************************************************)
EXTENDS Naturals, Sequences, FiniteSets

CONSTANTS DirFiles,     \* file names
          DirMaxRunners, \* bound: runners made
          DirEdits      \* bound: edits of files

\* What a file holds: nothing, something that does not load, a configuration
\* whose runner cannot start (no such splitter or decoder), or a good one; "a2"
\* differs from "a" in immediate_start alone.
Content == {"absent", "bad", "noStart", "a", "a2", "b"}

VARIABLES
    edits,    \* edits so far
    disk,     \* [DirFiles -> Content]
    runner,   \* the runners made: sequence of [file, conf, st]; st is "new"
              \* (Starter has not begun), "run", "told" (Stop was called), "ended"
              \* or "dead" (Start failed)
    inputs,   \* pdi.inputs: [DirFiles -> index of a runner, or 0]
    inputRunners,  \* pConfig.InputRunners, the same
    load,     \* the files that loadInputs still has to look at
    toStop,   \* the runner that RemoveInputRunner is about to Stop, or 0
    loadErr,  \* loadInputs' err: the last AddInputRunner failed
    dirpc,    \* the directory input: "load", "select" (Run), "failed", "cleanup",
              \* "reinit", "top" (Starter, after Run returned an error), "ended"
    dirstop,  \* its stopChan is closed
    dirfails, \* times that Run returned an error
    dmain     \* the main goroutine: "up", "stopping" (the flag), "wait", "down",
              \* "panic" (a channel that is nil or closed is closed)

dirVars == <<edits, disk, runner, inputs, inputRunners, load, toStop, loadErr, dirpc, dirstop,
             dirfails, dmain>>
dirRun == <<loadErr, dirpc, dirstop, dirfails>>

DirInit ==
    /\ edits = 0 /\ disk \in [DirFiles -> {"absent", "a"}]
    /\ runner = <<>>
    /\ inputs = [f \in DirFiles |-> 0] /\ inputRunners = inputs
    /\ load = DirFiles      \* Run loads before its loop
    /\ toStop = 0 /\ loadErr = FALSE /\ dirpc = "load" /\ dirstop = FALSE
    /\ dirfails = 0 /\ dmain = "up"

------------------------------------------------------------------------------
\* Somebody edits a file.
EditFile(f, c) ==
    /\ dmain = "up" /\ dirpc # "load" /\ disk[f] # c /\ edits < DirEdits
    /\ edits' = edits + 1
    /\ disk' = [disk EXCEPT ![f] = c]
    /\ UNCHANGED <<runner, inputs, inputRunners, load, toStop, dirRun, dmain>>

\* procDirWalkFunc, loadProcessFile: only what loads is specified.
Specified(f) == disk[f] \notin {"absent", "bad"}

\* ProcessInputConfig.Equals does not look at immediate_start.
Same(c) == IF c = "a2" THEN "a" ELSE c
ConfEquals(c, d) == Same(c) = Same(d)


UpToDate(f) == inputs[f] # 0 /\ ConfEquals(runner[inputs[f]].conf, disk[f])

\* RemoveInputRunner, first half: out of the registry, under the lock.
RemoveRunner(f) ==
    /\ f \in load /\ toStop = 0 /\ inputs[f] # 0
    /\ ~Specified(f) \/ ~UpToDate(f)
    /\ inputRunners' = [inputRunners EXCEPT ![f] = 0]
    /\ inputs' = [inputs EXCEPT ![f] = 0]
    /\ toStop' = inputs[f]
    /\ UNCHANGED <<edits, disk, runner, load, dirRun, dmain>>

\* Stop closes a channel that Run makes: before that it panics.
StopPanics(i) == runner[i].st \in {"new", "dead"}
Told(r) == IF r.st = "run" THEN [r EXCEPT !.st = "told"] ELSE r

\* Its second half: Stop.
StopRemoved ==
    /\ toStop # 0
    /\ runner' = [runner EXCEPT ![toStop] = Told(@)]
    /\ dmain' = IF StopPanics(toStop) THEN "panic" ELSE dmain
    /\ toStop' = 0
    /\ UNCHANGED <<edits, disk, inputs, inputRunners, load, dirRun>>

\* AddInputRunner: registered, then started; one that does not start stays
\* registered, and is not among the inputs, so that it is made again next time.
AddRunner(f) ==
    /\ f \in load /\ toStop = 0 /\ inputs[f] = 0 /\ Specified(f)
    /\ Len(runner) < DirMaxRunners
    /\ LET ok == disk[f] # "noStart"
           id == Len(runner) + 1
       IN  /\ runner' = Append(runner, [file |-> f, conf |-> disk[f],
                                        st |-> IF ok THEN "new" ELSE "dead"])
           /\ inputRunners' = [inputRunners EXCEPT ![f] = id]
           /\ inputs' = [inputs EXCEPT ![f] = IF ok THEN id ELSE 0]
           /\ loadErr' = ~ok
    /\ load' = load \ {f}
    /\ UNCHANGED <<edits, disk, toStop, dirpc, dirstop, dirfails, dmain>>

\* A file that is as it was, or is not there.
SkipFile(f) ==
    /\ f \in load /\ toStop = 0
    /\ IF inputs[f] # 0 THEN Specified(f) /\ UpToDate(f) ELSE ~Specified(f)
    /\ load' = load \ {f}
    /\ UNCHANGED <<edits, disk, runner, inputs, inputRunners, toStop, dirRun, dmain>>

\* The bound on runners leaves room for a load.
RoomToLoad == Len(runner) + Cardinality(DirFiles) <= DirMaxRunners

DirTick ==
    /\ dirpc = "select" /\ RoomToLoad
    /\ dirpc' = "load" /\ load' = DirFiles /\ loadErr' = FALSE
    /\ UNCHANGED <<edits, disk, runner, inputs, inputRunners, toStop, dirstop, dirfails, dmain>>

\* loadInputs returns its err, and with an error Run returns too.
LoadEnds ==
    /\ dirpc = "load" /\ load = {} /\ toStop = 0
    /\ dirpc' = IF loadErr THEN "failed" ELSE "select"
    /\ dirfails' = IF loadErr THEN dirfails + 1 ELSE dirfails
    /\ UNCHANGED <<edits, disk, runner, inputs, inputRunners, load, toStop, loadErr,
                   dirstop, dmain>>

\* Run of the directory input returns when it sees stopChan closed.
DirReturns ==
    /\ dirpc = "select" /\ dirstop
    /\ dirpc' = "ended"
    /\ UNCHANGED <<edits, disk, runner, inputs, inputRunners, load, toStop, loadErr, dirstop,
                   dirfails, dmain>>

\* Starter, after an error: CleanupForRestart is Stop, Wait, then Init, which makes
\* a new stopChan and forgets the inputs, and Run with its load.
DirRestart ==
    /\ \/ /\ dirpc = "failed"
          /\ dirpc' = IF dmain = "up" THEN "cleanup" ELSE "ended"
          /\ UNCHANGED <<dirstop, inputs, load, loadErr, dmain>>
       \/ /\ dirpc = "cleanup"
          /\ dirpc' = "reinit" /\ dirstop' = TRUE
          /\ dmain' = IF dirstop THEN "panic" ELSE dmain
          /\ UNCHANGED <<inputs, load, loadErr>>
       \/ /\ dirpc = "reinit" /\ (dmain = "up" => RoomToLoad)
          /\ IF dmain = "up" THEN /\ dirpc' = "top" /\ dirstop' = FALSE
                                  /\ inputs' = [f \in DirFiles |-> 0]
                             ELSE dirpc' = "ended" /\ UNCHANGED <<dirstop, inputs>>
          /\ UNCHANGED <<load, loadErr, dmain>>
       \/ /\ dirpc = "top"
          /\ IF dmain = "up" THEN dirpc' = "load" /\ load' = DirFiles /\ loadErr' = FALSE
                             ELSE dirpc' = "ended" /\ UNCHANGED <<load, loadErr>>
          /\ UNCHANGED <<dirstop, inputs, dmain>>
    /\ UNCHANGED <<edits, disk, runner, inputRunners, toStop, dirfails>>

\* Starter looks at the flag and runs the input; a runner that was stopped ends.
RunnerSteps(i) ==
    /\ \/ /\ runner[i].st = "new"
          /\ runner' = [runner EXCEPT ![i].st = IF dmain = "up" THEN "run" ELSE "ended"]
       \/ /\ runner[i].st = "told"
          /\ runner' = [runner EXCEPT ![i].st = "ended"]
    /\ UNCHANGED <<edits, disk, inputs, inputRunners, load, toStop, dirRun, dmain>>

\* globals.stop()
DirStopFlag ==
    /\ dmain = "up"
    /\ dmain' = "stopping"
    /\ UNCHANGED <<edits, disk, runner, inputs, inputRunners, load, toStop, dirRun>>

\* Stop on every registered input, the directory input among them, with
\* inputsLock held: no runner is added or removed meanwhile.
DirStopAll ==
    /\ dmain = "stopping"
    /\ dirstop' = TRUE
    /\ LET all == {inputRunners[f] : f \in DirFiles} \ {0}
       IN  /\ runner' = [i \in DOMAIN runner |-> IF i \in all THEN Told(runner[i]) ELSE runner[i]]
           /\ dmain' = IF dirstop \/ \E i \in all : StopPanics(i) THEN "panic" ELSE "wait"
    /\ UNCHANGED <<edits, disk, inputs, inputRunners, load, toStop, loadErr, dirpc, dirfails>>

\* inputsWg.Wait
DirDown ==
    /\ dmain = "wait" /\ dirpc = "ended"
    /\ \A i \in DOMAIN runner : runner[i].st \in {"ended", "dead"}
    /\ dmain' = "down"
    /\ UNCHANGED <<edits, disk, runner, inputs, inputRunners, load, toStop, dirRun>>

LoadSteps == StopRemoved \/ LoadEnds \/ DirRestart \/ \E f \in DirFiles : RemoveRunner(f) \/ AddRunner(f) \/ SkipFile(f)
RunnersStep == \E i \in DOMAIN runner : RunnerSteps(i)

DirNext ==
    \/ /\ dmain # "panic"
       /\ \/ \E f \in DirFiles, c \in Content : EditFile(f, c)
          \/ LoadSteps \/ DirTick \/ DirReturns
          \/ RunnersStep \/ DirStopFlag \/ DirStopAll \/ DirDown
    \/ dmain \in {"panic", "wait", "down"} /\ UNCHANGED dirVars

\* Every goroutine goes on while it can; users need not stop Heka.
DirFairness ==
    /\ WF_dirVars(dmain # "panic" /\ LoadSteps) /\ WF_dirVars(dmain # "panic" /\ RunnersStep)
    /\ SF_dirVars(dmain # "panic" /\ DirReturns) /\ WF_dirVars(DirStopAll) /\ WF_dirVars(DirDown)

DirSpec == DirInit /\ [][DirNext]_dirVars /\ DirFairness

------------------------------------------------------------------------------
(* Properties.                                                             *)

\* docs/source/config/inputs/processdir.rst: "if the specified process fails to run or
\* the ProcessInput config fails for any other reason, ProcessDirectoryInput will log
\* an error message and continue", and it keeps "a pool of running ProcessInputs based
\* on the contents of this directory": no file has two runners.
OneRunnerAlways ==
    \A i, j \in DOMAIN runner :
        i # j /\ runner[i].file = runner[j].file /\ runner[i].st \in {"new", "run"}
            => runner[j].st \notin {"new", "run"}

DirTypeOK ==
    /\ disk \in [DirFiles -> Content] /\ load \subseteq DirFiles
    /\ \A i \in DOMAIN runner : runner[i].st \in {"new", "run", "told", "ended", "dead"}
    /\ {inputs[f] : f \in DirFiles} \cup {inputRunners[f] : f \in DirFiles} \cup {toStop}
           \subseteq 0..Len(runner)
    /\ dirpc \in {"load", "select", "failed", "cleanup", "reinit", "top", "ended"}
    /\ {loadErr, dirstop} \subseteq BOOLEAN /\ dirfails \in Nat
    /\ dmain \in {"up", "stopping", "wait", "down", "panic"}

\* A command is never run by two inputs at once: a changed file's old runner is
\* stopped before the new one is added, and no load makes a second one, as long as
\* every runner starts (process_directory_input.go:115-155).
OneRunner == dirfails = 0 => OneRunnerAlways

\* What a load has been through runs as the files say: no input for a file that
\* is gone or does not load, and the file's configuration, immediate_start aside,
\* for one that does.
DirLoaded ==
    load # {} /\ toStop = 0 =>
        \A f \in DirFiles \ load :
            IF Specified(f) /\ disk[f] # "noStart"
            THEN inputs[f] # 0 /\ ConfEquals(runner[inputs[f]].conf, disk[f])
            ELSE inputs[f] = 0

\* The shutdown does not wait for ever on an input that a load is adding or
\* removing while the inputs are stopped.
DirShutsDown == (dmain = "wait" /\ dirfails = 0) ~> (dmain \in {"down", "panic"} \/ dirfails > 0)
==============================================================================

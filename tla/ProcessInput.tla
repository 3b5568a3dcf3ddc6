---------------------------- MODULE ProcessInput -----------------------------
(***************************************************************************)
(* ProcessInput (plugins/process): an input that runs a chain of commands. *)
(* Four goroutines share its fields: Run under the input runner's Starter, *)
(* RunCmd, the goroutines of CommandChain.Wait and ManagedCmd.Wait, and    *)
(* whoever calls Stop: RemoveInputRunner on behalf of the process directory*)
(* input, the main goroutine at a shutdown, RunCmd and CleanupForRestart.  *)
(*                                                                         *)
(* Stop sends on the chain's Stopchan, which has room for one value, and   *)
(* closes the input's stopChan, once per Run.  A panic ends the behaviour. *)
(* External: the operating system's processes.                             *)
(***************************************************************************)
EXTENDS Naturals, FiniteSets

CONSTANT ProcCmds     \* commands in the chain

Callers == {"main", "directory", "runCmd", "starter"}
Cmd == 1..ProcCmds

VARIABLES
    pcfg,      \* tick0: ticker_interval is 0; immediate: immediate_start;
               \* timeout: timeout set; transient: made by the directory input
    prun,      \* Starter and Run: "top", "make", "waiting", "returned",
               \* "retry", "done"
    pcmd,      \* RunCmd: "none", "first", "select", "run" and "chain" (in runOnce
               \* at a tick), "run0" and "chain0" (before the ticker), "stop",
               \* "report", "ended"
    pstop,     \* where each caller of Stop is: "out", "enter", "blocked",
               \* "sent", "stuck" (sending to a chain nobody reads), "back"
    once,      \* pi.once: "new", "busy", "done"
    stopCh,    \* pi.stopChan: "nil", "open", "closed"
    ccTok,     \* values in pi.cc.Stopchan
    exitErr,   \* pi.exitError is set
    cmd,       \* [Cmd -> "new", "running", "gone"] of pi.cc
    tok,       \* [Cmd -> values in the command's Stopchan]
    waitAt,    \* the command that CommandChain.Wait's goroutine waits for
    waitSt,    \* its ManagedCmd.Wait: "select", "fired" (the timer has)
    passAt,    \* command to pass the stop on to, 0: none under way
    pflags     \* of "removed", "stopping", "panic", "failed" (history: a run
               \* has been restarted), "orphan" (history: a command was left running)

chainVars == <<cmd, tok, waitAt, waitSt, passAt>>
procVars == <<pcfg, prun, pcmd, pstop, once, stopCh, ccTok, exitErr, chainVars, pflags>>

InChain == pcmd \in {"chain0", "chain"}
NewCmds == [c \in Cmd |-> "new"]
Empty == [c \in Cmd |-> 0]

ProcInit ==
    /\ pcfg \in [tick0 : BOOLEAN, immediate : BOOLEAN, timeout : BOOLEAN, transient : BOOLEAN]
    /\ prun = "top" /\ pcmd = "none"
    /\ pstop = [c \in Callers |-> "out"] /\ once = "new" /\ stopCh = "nil"
    /\ ccTok = 0 /\ exitErr = FALSE
    /\ cmd = NewCmds /\ tok = Empty /\ waitAt = 0 /\ waitSt = "select" /\ passAt = 0
    /\ pflags = {}

------------------------------------------------------------------------------
(* Stop.                                                                   *)

Call(c) == pstop[c] = "out" /\ pstop' = [pstop EXCEPT ![c] = "enter"]

\* RemoveInputRunner: out of the registry, then Stop.
RemoveInputRunner ==
    /\ pcfg.transient /\ {"removed", "stopping"} \cap pflags = {}
    /\ Call("directory")
    /\ pflags' = pflags \cup {"removed"}
    /\ UNCHANGED <<pcfg, prun, pcmd, once, stopCh, ccTok, exitErr, chainVars>>

\* The main goroutine sets the flag and calls Stop on what is registered.
ShutDownInput ==
    /\ "stopping" \notin pflags
    /\ pflags' = pflags \cup {"stopping"}
    /\ IF "removed" \in pflags THEN UNCHANGED pstop ELSE Call("main")
    /\ UNCHANGED <<pcfg, prun, pcmd, once, stopCh, ccTok, exitErr, chainVars>>

\* once.Do: the first caller sends, and blocks if the chain already has a stop;
\* later ones wait for it and return.
EnterStop(c) ==
    /\ pstop[c] = "enter"
    /\ \/ /\ once = "new"
          /\ once' = "busy"
          /\ IF ccTok = 0 THEN ccTok' = 1 /\ pstop' = [pstop EXCEPT ![c] = "sent"]
                          ELSE UNCHANGED ccTok /\ pstop' = [pstop EXCEPT ![c] = "blocked"]
       \/ /\ once = "done"
          /\ pstop' = [pstop EXCEPT ![c] = "back"]
          /\ UNCHANGED <<once, ccTok>>
    /\ UNCHANGED <<pcfg, prun, pcmd, stopCh, exitErr, chainVars, pflags>>

Unblock(c) ==
    /\ pstop[c] = "blocked" /\ ccTok = 0
    /\ ccTok' = 1
    /\ pstop' = [pstop EXCEPT ![c] = "sent"]
    /\ UNCHANGED <<pcfg, prun, pcmd, once, stopCh, exitErr, chainVars, pflags>>

\* A variant that leaves it to the chain to end the input.
CloseStopNot(c) ==
    /\ pstop[c] = "sent"
    /\ once' = "done"
    /\ pstop' = [pstop EXCEPT ![c] = "back"]
    /\ UNCHANGED <<pcfg, prun, pcmd, stopCh, ccTok, exitErr, chainVars, pflags>>

\* close(pi.stopChan), a panic if Run has not made it yet.
CloseStop(c) ==
    /\ pstop[c] = "sent"
    /\ once' = "done"
    /\ IF stopCh = "open"
       THEN stopCh' = "closed" /\ pstop' = [pstop EXCEPT ![c] = "back"] /\ UNCHANGED pflags
       ELSE pflags' = pflags \cup {"panic"} /\ UNCHANGED <<stopCh, pstop>>
    /\ UNCHANGED <<pcfg, prun, pcmd, ccTok, exitErr, chainVars>>

\* pi.cc is replaced: its Stopchan is new, and a send to the old one has no reader.
ReplaceChain ==
    /\ ccTok' = 0 /\ cmd' = NewCmds /\ tok' = Empty
    /\ waitAt' = 0 /\ waitSt' = "select" /\ passAt' = 0

LeaveBehind(stop) == [c \in Callers |-> IF stop[c] = "blocked" THEN "stuck" ELSE stop[c]]

------------------------------------------------------------------------------
(* Starter and Run.                                                        *)

StarterTop ==
    /\ prun = "top"
    /\ prun' = IF "stopping" \in pflags THEN "done" ELSE "make"
    /\ UNCHANGED <<pcfg, pcmd, pstop, once, stopCh, ccTok, exitErr, chainVars, pflags>>

\* Run makes stopChan and once anew, whatever Stop has done to the old ones.
ProcRun ==
    /\ prun = "make"
    /\ prun' = "waiting" /\ pcmd' = "first"
    /\ stopCh' = "open" /\ once' = "new" /\ exitErr' = FALSE
    /\ UNCHANGED <<pcfg, pstop, ccTok, chainVars, pflags>>

RunReturns ==
    /\ prun = "waiting" /\ stopCh = "closed"
    /\ prun' = "returned"
    /\ UNCHANGED <<pcfg, pcmd, pstop, once, stopCh, ccTok, exitErr, chainVars, pflags>>

\* Removed, shutting down or without an error: Starter ends.  Otherwise
\* CleanupForRestart, which puts a new chain in place and calls Stop.
AfterRun ==
    /\ prun = "returned"
    /\ IF {"removed", "stopping"} \cap pflags # {} \/ ~exitErr
       THEN /\ prun' = "done"
            /\ UNCHANGED <<pstop, ccTok, chainVars, pflags>>
       ELSE /\ prun' = "retry"
            /\ ReplaceChain
            /\ pstop' = [LeaveBehind(pstop) EXCEPT !["starter"] = "enter"]
            /\ pflags' = pflags \cup {"failed"}
    /\ UNCHANGED <<pcfg, pcmd, once, stopCh, exitErr>>

\* A variant that keeps the chain that Stop left a value in.
InitChainKeep == UNCHANGED <<ccTok, chainVars, pstop>>

\* Init, for an input of the configuration file only, makes yet another chain.
InitChain ==
    IF pcfg.transient
    THEN UNCHANGED <<ccTok, chainVars>> /\ pstop' = [pstop EXCEPT !["starter"] = "out"]
    ELSE ReplaceChain /\ pstop' = [LeaveBehind(pstop) EXCEPT !["starter"] = "out"]

\* The wait for the retry is over; only a shutdown is looked for.
RetryRun ==
    /\ prun = "retry" /\ pstop["starter"] = "back"
    /\ prun' = IF "stopping" \in pflags THEN "done" ELSE "top"
    /\ InitChain
    /\ UNCHANGED <<pcfg, pcmd, once, stopCh, exitErr, pflags>>

------------------------------------------------------------------------------
(* RunCmd and runOnce.                                                     *)

RunCmdFirst ==
    /\ pcmd = "first"
    /\ pcmd' = IF pcfg.tick0 \/ pcfg.immediate THEN "run0" ELSE "select"
    /\ UNCHANGED <<pcfg, prun, pstop, once, stopCh, ccTok, exitErr, chainVars, pflags>>

\* The ticker, or stopChan: either if both are ready.
RunCmdSelect ==
    /\ pcmd = "select"
    /\ \/ /\ pcmd' = "run"
          /\ ReplaceChain
          /\ pstop' = LeaveBehind(pstop)
       \/ /\ stopCh = "closed"
          /\ pcmd' = "ended"
          /\ UNCHANGED <<ccTok, chainVars, pstop>>
    /\ UNCHANGED <<pcfg, prun, once, stopCh, exitErr, pflags>>

\* After runOnce: Stop if there is no ticker, report an error that the ticker's
\* run leaves or finds (the first one's error waits for the first tick).
AfterOnce(at, failed) ==
    IF pcfg.tick0 THEN "stop"
    ELSE IF at \in {"run", "chain"} /\ failed THEN "report" ELSE "select"

\* cc.Start: the commands in order; the first that fails ends it, and those
\* before it go on.  A chain that is all started is waited for.
ChainStart ==
    /\ pcmd \in {"run0", "run"}
    /\ \/ \E c \in Cmd :
             /\ pcmd' = AfterOnce(pcmd, TRUE)
             /\ exitErr' = TRUE
             /\ cmd' = [d \in Cmd |-> IF d < c THEN "running" ELSE "new"]
             /\ pflags' = IF c > 1 THEN pflags \cup {"orphan"} ELSE pflags
             /\ UNCHANGED waitAt
       \/ /\ pcmd' = IF pcmd = "run" THEN "chain" ELSE "chain0"
          /\ cmd' = [d \in Cmd |-> "running"]
          /\ waitAt' = 1
          /\ UNCHANGED <<exitErr, pflags>>
    /\ UNCHANGED <<pcfg, prun, pstop, once, stopCh, ccTok, tok, waitSt, passAt>>

\* pi.Stop(), for a run without a ticker.
RunCmdStop ==
    /\ pcmd = "stop" /\ pstop["runCmd"] # "enter"
    /\ IF pstop["runCmd"] = "out"
       THEN Call("runCmd") /\ UNCHANGED pcmd
       ELSE /\ pstop["runCmd"] = "back"
            /\ pstop' = [pstop EXCEPT !["runCmd"] = "out"]
            /\ pcmd' = "ended"
    /\ UNCHANGED <<pcfg, prun, once, stopCh, ccTok, exitErr, chainVars, pflags>>

\* pi.stopChan <- true: Run takes it, unless Stop has closed the channel.
ReportError ==
    /\ pcmd = "report"
    /\ \/ /\ stopCh = "open" /\ prun = "waiting"
          /\ prun' = "returned" /\ pcmd' = "ended" /\ UNCHANGED pflags
       \/ /\ stopCh = "closed"
          /\ pflags' = pflags \cup {"panic"} /\ UNCHANGED <<prun, pcmd>>
    /\ UNCHANGED <<pcfg, pstop, once, stopCh, ccTok, exitErr, chainVars>>

------------------------------------------------------------------------------
(* CommandChain.Wait and ManagedCmd.Wait.                                  *)

\* A process ends.
CmdExits(c) ==
    /\ cmd[c] = "running"
    /\ cmd' = [cmd EXCEPT ![c] = "gone"]
    /\ UNCHANGED <<pcfg, prun, pcmd, pstop, once, stopCh, ccTok, exitErr, tok, waitAt,
                   waitSt, passAt, pflags>>

\* The select of ManagedCmd.Wait: the process is gone, or is killed because
\* there is a stop.  The next command is waited for.
CmdWaited ==
    /\ waitAt \in Cmd /\ waitSt = "select"
    /\ \/ cmd[waitAt] = "gone" /\ UNCHANGED <<cmd, tok>>
       \/ /\ tok[waitAt] = 1
          /\ tok' = [tok EXCEPT ![waitAt] = 0]
          /\ cmd' = [cmd EXCEPT ![waitAt] = "gone"]
    /\ waitAt' = waitAt + 1
    /\ UNCHANGED <<pcfg, prun, pcmd, pstop, once, stopCh, ccTok, exitErr, waitSt, passAt,
                   pflags>>

\* The timeout: the goroutine sends a stop to itself, which it receives in the
\* next round; with a stop already there it waits for ever.
CmdTimeout ==
    /\ waitAt \in Cmd /\ pcfg.timeout
    /\ \/ /\ waitSt = "select" /\ tok[waitAt] = 0 /\ cmd[waitAt] = "running"
          /\ waitSt' = "fired" /\ UNCHANGED tok
       \/ /\ waitSt = "fired" /\ tok[waitAt] = 0
          /\ waitSt' = "select" /\ tok' = [tok EXCEPT ![waitAt] = 1]
    /\ UNCHANGED <<pcfg, prun, pcmd, pstop, once, stopCh, ccTok, exitErr, cmd, waitAt,
                   passAt, pflags>>

\* CommandChain.Wait takes the stop and sends one to every command in turn.
PassStop ==
    /\ InChain
    /\ \/ /\ passAt = 0 /\ ccTok = 1
          /\ ccTok' = 0 /\ passAt' = 1 /\ UNCHANGED tok
       \/ /\ passAt \in Cmd /\ tok[passAt] = 0
          /\ tok' = [tok EXCEPT ![passAt] = 1]
          /\ passAt' = IF passAt = ProcCmds THEN 0 ELSE passAt + 1
          /\ UNCHANGED ccTok
    /\ UNCHANGED <<pcfg, prun, pcmd, pstop, once, stopCh, exitErr, cmd, waitAt, waitSt,
                   pflags>>

\* All commands have been waited for; runOnce ends.
ChainDone ==
    /\ InChain /\ waitAt = ProcCmds + 1 /\ passAt = 0
    /\ pcmd' = AfterOnce(pcmd, exitErr)
    /\ waitAt' = 0
    /\ UNCHANGED <<pcfg, prun, pstop, once, stopCh, ccTok, exitErr, cmd, tok, waitSt,
                   passAt, pflags>>

------------------------------------------------------------------------------
Running == "panic" \notin pflags
StopSteps == \E c \in Callers : EnterStop(c) \/ Unblock(c) \/ CloseStop(c)
StarterSteps == StarterTop \/ ProcRun \/ RunReturns \/ AfterRun \/ RetryRun
RunCmdSteps == RunCmdFirst \/ ChainStart \/ RunCmdStop \/ ReportError \/ ChainDone
WaitSteps == CmdWaited \/ PassStop

ProcEnded == \/ ~Running
             \/ "stopping" \in pflags

ProcNext ==
    \/ Running /\ \/ RemoveInputRunner \/ ShutDownInput \/ StopSteps \/ StarterSteps
                  \/ RunCmdSelect \/ RunCmdSteps
                  \/ WaitSteps \/ CmdTimeout \/ \E c \in Cmd : CmdExits(c)
    \/ ProcEnded /\ UNCHANGED procVars

\* The goroutines of Heka take the steps they can; the ticker ticks.  A command
\* need not end, a timeout need not come.
ProcFairness ==
    /\ WF_procVars(Running /\ StopSteps) /\ WF_procVars(Running /\ StarterSteps)
    /\ WF_procVars(Running /\ (RunCmdSteps \/ RunCmdSelect))
    /\ WF_procVars(Running /\ CmdWaited) /\ WF_procVars(Running /\ PassStop)

ProcSpec == ProcInit /\ [][ProcNext]_procVars /\ ProcFairness

------------------------------------------------------------------------------
(* Properties.                                                             *)

ProcTypeOK ==
    /\ prun \in {"top", "make", "waiting", "returned", "retry", "done"}
    /\ pcmd \in {"none", "first", "select", "run0", "run", "chain0", "chain", "stop",
                 "report", "ended"}
    /\ pstop \in [Callers -> {"out", "enter", "blocked", "sent", "stuck", "back"}]
    /\ once \in {"new", "busy", "done"} /\ stopCh \in {"nil", "open", "closed"}
    /\ ccTok \in 0..1 /\ exitErr \in BOOLEAN
    /\ cmd \in [Cmd -> {"new", "running", "gone"}] /\ tok \in [Cmd -> 0..1]
    /\ waitAt \in 0..ProcCmds + 1 /\ waitSt \in {"select", "fired"} /\ passAt \in 0..ProcCmds
    /\ pflags \subseteq {"removed", "stopping", "panic", "failed", "orphan"}

\* Stop of an input of the configuration file never waits for room in the
\* chain's Stopchan, restarts included: Init puts a chain in place of the one in
\* which CleanupForRestart left a stop.  Only an input that the directory input
\* made, which is not initialized again, can hold up who stops it.
StopHasRoom ==
    \A c \in {"main", "directory"} :
        pstop[c] \in {"blocked", "stuck"} => pcfg.transient /\ "failed" \in pflags

\* The commands are told to stop because somebody stops the input.  The stop that
\* CleanupForRestart leaves behind reaches a chain only through immediate_start
\* of a restarted input of the directory.
KilledWhenStopped ==
    InChain /\ (ccTok = 1 \/ passAt # 0) =>
        \/ {"removed", "stopping"} \cap pflags # {}
        \/ pcmd = "chain0" /\ pcfg.transient /\ "failed" \in pflags /\ pcfg.immediate

\* No order of ticks, errors and restarts closes a channel twice or sends on a
\* closed one as long as nobody stops the input.
NoPanicUnstopped == "panic" \in pflags => {"removed", "stopping"} \cap pflags # {}

\* Once the shutdown's Stop is past its send, the input ends, in whichever state
\* it was.  (A removal has no such promise: between two runs it is not noticed.)
StopEnds == pstop["main"] = "sent" ~> (prun = "done" \/ ~Running)

\* Commands do not outlive the stop of their chain: all of them are waited for
\* and RunCmd goes on.  Two stops for one command can keep it waiting: its
\* timeout's and the chain's, or those of a restarted input of the directory.
OneStop == ~pcfg.timeout /\ ~(pcfg.transient /\ "failed" \in pflags)
ChainStops == (InChain /\ ccTok = 1 /\ OneStop) ~> (~InChain \/ ~Running)

\* Stop returns: the shutdown calls it with the lock on the inputs held.
StopReturns == pstop["main"] = "enter" ~> (pstop["main"] = "back" \/ ~Running)
==============================================================================

--------------------------- MODULE PluginLifecycle ---------------------------
(***************************************************************************)
(* The goroutine that keeps one plugin running: iRunner.Starter for an     *)
(* input, foRunner.Starter for a filter or output of the newer API,        *)
(* foRunner.OldStarter for one of the older API (pipeline/plugin_runners   *)
(* .go), with the RetryHelper that paces and limits the restarts           *)
(* (pipeline/retry_helper.go), and the part of Run that starts and stops   *)
(* the plugin (pipeline/pipeline_runner.go).                               *)
(*                                                                         *)
(* One plugin of every kind and configuration is checked: plug says which. *)
(* What the plugin does is a choice: its Init and Prepare may fail any     *)
(* number of times, its Run may fail at any moment.                        *)
(***************************************************************************)
EXTENDS Integers

CONSTANTS
    LRetries,     \* the values of max_retries to look at, -1 for no limit
    LDelay,       \* delay
    LMaxDelay,    \* max_delay
    LBufRetries   \* full_buffer_max_retries

VARIABLES
    plug,       \* the plugin and its configuration, see PlugSet
    lpc,        \* Starter: "off", "new", "prepare", "prepWait", "top", "run",
                \* "returned", "wait", "init", "inited", "break", "exit", "done"
    boot,       \* Run: "start", "pressure", "up", "stopping"
    lfull,       \* BackPressured: the queue is at 90% of max_buffer_size
    bufTimes,   \* waitForBackPressure: waits so far
    ltimes, curDelay,    \* the RetryHelper
    resetNeeded,
    lerr,        \* what Run, Prepare or Init returned: "nil" or "err"
    stopChan,   \* the channel that tells the plugin to stop is closed
    told,       \* Run has closed it
    lstopping,  \* Globals.stopping
    shutDown,   \* ShutDown has been called
    started,    \* Start has succeeded
    unregistered,   \* exit has unregistered the plugin
    spent       \* history: restarts since the RetryHelper was new or reset

bootVars  == <<boot, lfull, bufTimes>>
retryVars == <<ltimes, curDelay, resetNeeded, spent>>
lvars == <<plug, lpc, bootVars, retryVars, lerr, stopChan, told, lstopping, shutDown,
           started, unregistered>>

------------------------------------------------------------------------------
LKinds == {"input", "new", "old"}

\* badOpts: a duration of the retry options does not parse.  shutdownWhenFull: the
\* full_action of the queue is "shutdown".
PlugSet == [kind : LKinds, canExit : BOOLEAN, restarts : BOOLEAN, retries : LRetries,
            badOpts : BOOLEAN, shutdownWhenFull : BOOLEAN]

LInit ==
    /\ plug \in {p \in PlugSet : p.kind = "input" => ~p.shutdownWhenFull}
    /\ lpc = "off" /\ boot = "start" /\ bufTimes = 0
    /\ lfull \in (IF plug.kind = "input" THEN {FALSE} ELSE BOOLEAN)
    /\ ltimes = 0 /\ curDelay = LDelay /\ resetNeeded = FALSE /\ spent = 0
    /\ lerr = "nil" /\ stopChan = FALSE /\ told = FALSE /\ lstopping = FALSE /\ shutDown = FALSE
    /\ started = FALSE /\ unregistered = FALSE

------------------------------------------------------------------------------
(* The RetryHelper.                                                        *)

\* A variant that lets one retry too many through.
WaitFailsLate == plug.retries # -1 /\ ltimes > plug.retries

\* Wait returns ErrMaxRetriesExceeded.
WaitFails == plug.retries # -1 /\ ltimes >= plug.retries

NextDelay == IF 2 * curDelay > LMaxDelay THEN LMaxDelay ELSE 2 * curDelay

\* Wait sleeps and counts.  Without a limit the count is only printed.
LWait ==
    /\ ltimes' = IF plug.retries = -1 THEN ltimes ELSE ltimes + 1
    /\ spent' = IF plug.retries = -1 THEN spent ELSE spent + 1
    /\ curDelay' = NextDelay

LReset == ltimes' = 0 /\ curDelay' = LDelay /\ spent' = 0

------------------------------------------------------------------------------
(* Run: start-up and shutdown.                                             *)

\* Start finds its configuration wanting (a splitter, decoder, encoder or queue
\* that cannot be made), or starts the plugin's goroutine; Run then waits for a
\* queue that is nearly full.
LStart ==
    /\ boot = "start"
    /\ \/ /\ boot' = "up"
          /\ shutDown' = ~plug.canExit
          /\ lpc' = "done"
       \/ /\ boot' = IF lfull THEN "pressure" ELSE "up"
          /\ lpc' = "new"
          /\ UNCHANGED shutDown
    /\ started' = (lpc' = "new")
    /\ UNCHANGED <<plug, lfull, bufTimes, retryVars, lerr, stopChan, told, lstopping,
                   unregistered>>

\* The plugin works its queue off.
Relieve ==
    /\ lfull /\ lpc = "run"
    /\ lfull' = FALSE
    /\ UNCHANGED <<plug, lpc, boot, bufTimes, retryVars, lerr, stopChan, told, lstopping,
                   shutDown, started, unregistered>>

\* waitForBackPressure: until there is room or the retries are used up.
waitForBackPressure ==
    /\ boot = "pressure"
    /\ IF ~lfull
       THEN boot' = "up" /\ UNCHANGED <<bufTimes, shutDown>>
       ELSE IF bufTimes < LBufRetries
       THEN bufTimes' = bufTimes + 1 /\ UNCHANGED <<boot, shutDown>>
       ELSE /\ boot' = "up"
            /\ shutDown' = (shutDown \/ plug.shutdownWhenFull)
            /\ UNCHANGED bufTimes
    /\ UNCHANGED <<plug, lpc, lfull, retryVars, lerr, stopChan, told, lstopping, started,
                   unregistered>>

\* A signal, or the one that ShutDown sends: Globals.stop.
StopAll ==
    /\ boot = "up" /\ ~lstopping
    /\ lstopping' = TRUE
    /\ UNCHANGED <<plug, lpc, bootVars, retryVars, lerr, stopChan, told, shutDown, started,
                   unregistered>>

\* Stop on the input, or the matcher of the filter or output is removed.
TellPlugin ==
    /\ lstopping /\ ~told
    /\ stopChan' = TRUE /\ told' = TRUE
    /\ UNCHANGED <<plug, lpc, bootVars, retryVars, lerr, lstopping, shutDown, started,
                   unregistered>>

------------------------------------------------------------------------------
(* Starter.                                                                *)

\* NewRetryHelper fails, and a plugin that may not exit takes Heka down; else
\* the goroutine goes to its loop, by way of Prepare in the newer API.
LBegin ==
    /\ lpc = "new"
    /\ IF plug.badOpts
       THEN lpc' = "done" /\ shutDown' = (shutDown \/ ~plug.canExit)
       ELSE lpc' = (IF plug.kind = "new" THEN "prepare" ELSE "top") /\ UNCHANGED shutDown
    /\ UNCHANGED <<plug, bootVars, retryVars, lerr, stopChan, told, lstopping, started,
                   unregistered>>

\* The initial Prepare loop.  An error while Heka stops ends it.
LPrepare ==
    /\ lpc = "prepare"
    /\ \/ /\ lpc' = "top" /\ lerr' = "nil"
          /\ IF resetNeeded THEN LReset ELSE UNCHANGED <<ltimes, curDelay, spent>>
          /\ UNCHANGED resetNeeded
       \/ /\ lerr' = "err"
          /\ lpc' = IF lstopping THEN "exit" ELSE "prepWait"
          /\ resetNeeded' = (resetNeeded \/ ~lstopping)
          /\ UNCHANGED <<ltimes, curDelay, spent>>
    /\ UNCHANGED <<plug, bootVars, stopChan, told, lstopping, shutDown, started, unregistered>>

PrepareWait ==
    /\ lpc = "prepWait"
    /\ IF WaitFails
       THEN /\ lpc' = "exit"
            /\ shutDown' = (shutDown \/ ~plug.canExit)
            /\ UNCHANGED <<ltimes, curDelay, spent>>
       ELSE lpc' = "prepare" /\ LWait /\ UNCHANGED shutDown
    /\ UNCHANGED <<plug, bootVars, resetNeeded, lerr, stopChan, told, lstopping, started,
                   unregistered>>

\* for !globals.IsShuttingDown()
LoopTop ==
    /\ lpc = "top"
    /\ lpc' = IF lstopping THEN "break" ELSE "run"
    /\ UNCHANGED <<plug, bootVars, retryVars, lerr, stopChan, told, lstopping, shutDown,
                   started, unregistered>>

\* Run of the plugin, or its message loop, returns: because it was told to, or
\* on its own.  The loops of the newer API return nil only at the end of their
\* channel.
LReturns ==
    /\ lpc = "run"
    /\ \/ stopChan /\ lerr' = "nil"
       \/ ~stopChan /\ plug.kind # "new" /\ lerr' = "nil"
       \/ lerr' = "err"
    /\ lpc' = "returned"
    /\ UNCHANGED <<plug, bootVars, retryVars, stopChan, told, lstopping, shutDown, started,
                   unregistered>>

\* What is done about it.  An input that is being shut down ends here.
LDecide ==
    /\ lpc = "returned"
    /\ IF plug.kind = "input"
       THEN /\ lpc' = IF lstopping THEN "done"
                      ELSE IF lerr = "nil" \/ ~plug.restarts THEN "break" ELSE "wait"
            /\ UNCHANGED <<ltimes, curDelay, spent>>
       ELSE /\ lpc' = IF lstopping \/ ~plug.restarts THEN "break" ELSE "wait"
            /\ IF lerr = "nil" THEN LReset ELSE UNCHANGED <<ltimes, curDelay, spent>>
    /\ UNCHANGED <<plug, bootVars, resetNeeded, lerr, stopChan, told, lstopping, shutDown,
                   started, unregistered>>

\* initLoop: wait, unless the retries are used up or Heka stops.
RetryWait ==
    /\ lpc = "wait"
    /\ IF WaitFails
       THEN lpc' = "break" /\ lerr' = "err" /\ UNCHANGED <<ltimes, curDelay, spent>>
       ELSE LWait /\ lpc' = "init" /\ UNCHANGED lerr
    /\ UNCHANGED <<plug, bootVars, resetNeeded, stopChan, told, lstopping, shutDown, started,
                   unregistered>>

\* PrepConfig, Init and, in the newer API, Prepare; any may fail.
ReInit ==
    /\ lpc = "init"
    /\ \/ lstopping /\ lpc' = "break" /\ UNCHANGED <<lerr, stopChan>>
       \/ /\ ~lstopping
          /\ lpc' = "wait" /\ lerr' = "err" /\ UNCHANGED stopChan
       \/ /\ ~lstopping
          /\ lpc' = "inited" /\ lerr' = "nil" /\ UNCHANGED stopChan
    /\ UNCHANGED <<plug, bootVars, retryVars, told, lstopping, shutDown, started, unregistered>>

\* A variant that goes on to run the plugin without looking again.
InitedRun ==
    /\ lpc = "inited"
    /\ lpc' = "run"
    /\ stopChan' = (stopChan /\ plug.kind # "input")
    /\ UNCHANGED <<plug, bootVars, retryVars, lerr, told, lstopping, shutDown, started,
                   unregistered>>

\* Init's effect comes after the look at IsShuttingDown: an input has a new
\* channel then for Stop to close, and what Stop did to the old one is lost.
Inited ==
    /\ lpc = "inited"
    /\ lpc' = "top"
    /\ stopChan' = (stopChan /\ plug.kind # "input")
    /\ UNCHANGED <<plug, bootVars, retryVars, lerr, told, lstopping, shutDown, started,
                   unregistered>>

\* After the loop.  An input that may not exit takes Heka down.
LBreak ==
    /\ lpc = "break"
    /\ IF plug.kind = "input"
       THEN lpc' = "done" /\ shutDown' = (shutDown \/ ~plug.canExit)
       ELSE lpc' = "exit" /\ UNCHANGED shutDown
    /\ UNCHANGED <<plug, bootVars, retryVars, lerr, stopChan, told, lstopping, started,
                   unregistered>>

\* The deferred foRunner.exit: nothing while Heka stops; Heka is taken down, or
\* the plugin unregistered.
LExit ==
    /\ lpc = "exit"
    /\ lpc' = "done"
    /\ shutDown' = (shutDown \/ (~lstopping /\ ~plug.canExit))
    /\ unregistered' = (~lstopping /\ plug.canExit)
    /\ UNCHANGED <<plug, bootVars, retryVars, lerr, stopChan, told, lstopping, started>>

Starter == LBegin \/ LPrepare \/ PrepareWait \/ LoopTop \/ LDecide \/ RetryWait
             \/ ReInit \/ Inited \/ LBreak \/ LExit
LEnded == lpc = "done"

LNext == \/ LStart \/ Relieve \/ waitForBackPressure \/ StopAll \/ TellPlugin
         \/ Starter \/ LReturns
         \/ LEnded /\ UNCHANGED lvars

\* Goroutines that can move do; a plugin told to stop returns; ShutDown's signal
\* is received.  A plugin need not fail, and users need not interrupt.
LFairness ==
    /\ WF_lvars(LStart \/ waitForBackPressure) /\ WF_lvars(shutDown /\ StopAll)
    /\ WF_lvars(TellPlugin) /\ WF_lvars(Starter) /\ WF_lvars(stopChan /\ LReturns)

LSpec == LInit /\ [][LNext]_lvars /\ LFairness

------------------------------------------------------------------------------
(* Properties.                                                             *)

\* The delay between two attempts never exceeds max_delay, however long the
\* plugin keeps failing, and attempts are counted within their limit.
LTypeOK ==
    /\ plug \in PlugSet /\ lerr \in {"nil", "err"}
    /\ lpc \in {"off", "new", "prepare", "prepWait", "top", "run", "returned", "wait",
                "init", "inited", "break", "exit", "done"}
    /\ boot \in {"start", "pressure", "up"}
    /\ {lfull, resetNeeded, stopChan, told, lstopping, shutDown, started, unregistered}
           \subseteq BOOLEAN
    /\ bufTimes \in 0..LBufRetries
    /\ ltimes \in Nat /\ spent \in Nat /\ curDelay \in LDelay..LMaxDelay

\* max_retries: a plugin is restarted at most that often between two resets,
\* attempts at Prepare or Init that failed included, and with max_retries 0 never.
RetryBudget == plug.retries # -1 => spent <= plug.retries

\* A plugin that has ended is not forgotten: Heka stops or is going to, or the
\* plugin may exit and is out of the registry (an input that may exit need not be).
EndIsNoticed ==
    lpc = "done" =>
        \/ lstopping \/ shutDown
        \/ plug.canExit /\ (~started \/ unregistered \/ plug.kind = "input" \/ plug.badOpts)

\* A plugin that supports restarting is given up only when its retries are used
\* up, when an input returned without an error, or at a shutdown.
NotGivenUpEarly ==
    lpc = "done" /\ ~lstopping /\ plug.restarts /\ ~plug.badOpts =>
        \/ plug.retries # -1 /\ ltimes >= plug.retries
        \/ plug.kind = "input" /\ lerr = "nil"
        \/ ~started

\* Starter ends once Heka stops, wherever in its restarts the plugin was and
\* whatever Stop reached before the plugin was initialized again.
StarterEnds == lstopping ~> lpc = "done"

\* Start-up does not wait for ever for a queue that stays full.
BootCompletes == boot = "pressure" ~> boot = "up"
==============================================================================

--------------------------- MODULE SandboxManager ---------------------------
(***************************************************************************)
(* The sandbox manager (sandbox/plugins/sandbox_manager_filter.go): a      *)
(* filter that loads and unloads other filters while hekad runs, at the    *)
(* request of control messages.  Four parties take part: the manager's     *)
(* goroutine, the router's goroutine (pipeline/router.go), which accepts a *)
(* matcher to add or to remove only between two messages, the goroutines   *)
(* of the loaded filters with the goroutine their exit starts to           *)
(* unregister them (pipeline/plugin_runners.go), and the main goroutine    *)
(* that shuts the filters down (pipeline/pipeline_runner.go).  They share  *)
(* PipelineConfig's FilterRunners map and its filtersLock                  *)
(* (pipeline/config.go).                                                   *)
(*                                                                         *)
(* A filter instance is <<name, g>>, the g-th filter loaded under a name.  *)
(* A loaded filter drains its channel as fast as it is filled, so the      *)
(* router is only ever blocked by the manager's own queue.                 *)
(***************************************************************************)
EXTENDS Integers, Sequences, FiniteSets

CONSTANTS
  SmNames,      \* names of sandbox filters
  SmGens,       \* bound: instances loaded under one name
  SmMsgs,       \* bound: control messages sent
  SmConfs,      \* [cap, max, quiet]: room between the router and the manager, the
                \* manager's max_filters, shut down only when the manager idles
  SmRestarts    \* bound: restarts of hekad

ASSUME SmAssumption ==
  /\ SmGens \in Nat \ {0} /\ SmGens >= SmMsgs /\ SmMsgs \in Nat /\ SmRestarts \in Nat
  /\ SmConfs \subseteq [cap : Nat \ {0}, max : Nat, quiet : BOOLEAN]
  /\ \A c \in SmConfs : c.quiet => c.cap >= SmMsgs

Instances == SmNames \X (1..SmGens)

SmNoOne == "nobody"

VARIABLES
  smconf,     \* the configuration of this behaviour
  fl,         \* goroutine of each instance
  sreg,       \* FilterRunners: the instance registered under a name, 0 for none
  routed,     \* matchers of loaded filters the router holds
  removers,   \* exited instances whose unregistering goroutine still runs
  smlock,     \* who holds filtersLock: <<>>, <<"manager">>, <<"main">> or an instance's goroutine
  smgr,       \* the manager: [pc, name, gen, todo, routed]
  smq,        \* control messages between router and manager
  srt,        \* the router: the message in hand, or none
  scount,     \* currentFilters
  sfiles,     \* what the working directory holds of each name: both files, a bad .toml, nothing
  smain,      \* the main goroutine: [pc, todo, restarts]
  smleft,     \* bound: messages still to be sent
  srestored   \* TRUE when the filters now running include restored ones

smvars == <<smconf, fl, sreg, routed, removers, smlock, smgr, smq, srt, scount,
            sfiles, smain, smleft, srestored>>

NoMsg == [do |-> "none", name |-> SmNoOne]

Controls == [do : {"load", "unload", "skewed"}, name : SmNames]

SmLive == {i \in Instances : fl[i] \in {"up", "closing"}}

Loaded(i) == sreg[i[1]] = i[2]

\* Shutting down: Globals.IsShuttingDown().
SmStopping == smain.pc # "run"

SmInit ==
  /\ smconf \in SmConfs
  /\ fl = [i \in Instances |-> "new"]
  /\ sreg = [n \in SmNames |-> 0]
  /\ routed = {} /\ removers = {} /\ smlock = <<>>
  /\ smgr = [pc |-> "idle", name |-> SmNoOne, gen |-> 0, todo |-> {}, routed |-> TRUE]
  /\ smq = <<>> /\ srt = NoMsg /\ scount = 0 /\ sfiles = [n \in SmNames |-> "none"]
  /\ smain = [pc |-> "run", todo |-> {}, restarts |-> 0]
  /\ smleft = SmMsgs /\ srestored = FALSE

-----------------------------------------------------------------------------
(* The router.                                                             *)

\* External: a control message reaches the router, which takes it in hand.
RouterTakes ==
  /\ srt = NoMsg /\ smleft > 0 /\ smain.pc \in {"run", "stop"}
  /\ srt' \in Controls
  /\ smleft' = smleft - 1
  /\ UNCHANGED <<smconf, fl, sreg, routed, removers, smlock, smgr, smq, scount, sfiles, smain,
                 srestored>>

\* The router hands the message to the manager's match runner; it blocks while
\* the manager's queue is full.  Once the manager's matcher is removed the
\* message is for nobody.
RouterGives ==
  /\ srt # NoMsg
  /\ \/ smgr.routed /\ Len(smq) < smconf.cap /\ smq' = Append(smq, srt)
     \/ ~smgr.routed /\ UNCHANGED smq
  /\ srt' = NoMsg
  /\ UNCHANGED <<smconf, fl, sreg, routed, removers, smlock, smgr, scount, sfiles, smain,
                 smleft, srestored>>

\* Closing a matcher's channel: the filter drains it and its Run returns.
Close(i, f) == IF i \in routed /\ f[i] = "up" THEN [f EXCEPT ![i] = "closing"] ELSE f

-----------------------------------------------------------------------------
(* The manager's Run, loadSandbox and restoreSandboxes.                    *)

\* The manager takes a control message.  A skewed one is discarded, a load is
\* refused when max_filters filters are counted already.
MgrRoom == Head(smq).do = "load" /\ scount < smconf.max

MgrTake ==
  /\ smgr.pc = "idle" /\ smq # <<>>
  /\ \/ /\ MgrRoom
        /\ smgr' = [smgr EXCEPT !.pc = "load", !.name = Head(smq).name]
     \/ /\ Head(smq).do = "unload" /\ ~SmStopping     \* RemoveFilterRunner's first check
        /\ smgr' = [smgr EXCEPT !.pc = "unload", !.name = Head(smq).name]
     \/ /\ \/ Head(smq).do = "skewed"
           \/ Head(smq).do = "load" /\ ~MgrRoom
           \/ Head(smq).do = "unload" /\ SmStopping
        /\ UNCHANGED smgr
  /\ smq' = Tail(smq)
  /\ UNCHANGED <<smconf, fl, sreg, routed, removers, smlock, srt, scount, sfiles, smain, smleft,
                 srestored>>

\* The manager returns to its loop, or to the rest of restoreSandboxes.
MgrNext == [smgr EXCEPT !.pc = IF smgr.todo # {} THEN "restore" ELSE "idle",
                        !.name = SmNoOne, !.gen = 0]

Saves(n, what) == sfiles' = [sfiles EXCEPT ![n] = what]

\* The name is in use.
LoadRefused == sreg[smgr.name] # 0 /\ smgr' = MgrNext /\ UNCHANGED sfiles

\* loadSandbox up to createRunner.  h.Filter waits for the lock.  A name in use
\* is an error; so is a configuration that is no TOML or cannot be written; one that
\* does not decode as a sandbox's leaves its file behind; a runner that cannot be
\* created takes its files with it.
loadSandbox ==
  /\ smgr.pc = "load" /\ smlock = <<>>
  /\ \/ LoadRefused
     \/ /\ sreg[smgr.name] = 0
        /\ \/ Saves(smgr.name, "both") /\ smgr' = [smgr EXCEPT !.pc = "add"]
           \/ UNCHANGED sfiles /\ smgr' = MgrNext
           \/ Saves(smgr.name, "bad") /\ smgr' = MgrNext
           \/ Saves(smgr.name, "none") /\ smgr' = MgrNext
  /\ UNCHANGED <<fl, sreg, routed, removers, smlock, smq, srt, scount, smconf, smain, smleft,
                 srestored>>

\* restoreSandboxes: the next configuration file in the working directory; what
\* does not decode is skipped, what makes no runner is removed.  max_filters is
\* not looked at.
restoreSandboxes ==
  /\ smgr.pc = "restore"
  /\ \E n \in smgr.todo :
       LET left == [smgr EXCEPT !.todo = @ \ {n}] IN
       \/ /\ sfiles[n] = "both"
          /\ smgr' = [left EXCEPT !.pc = "add", !.name = n]
          /\ UNCHANGED sfiles
       \/ /\ smgr' = [left EXCEPT !.pc = IF left.todo = {} THEN "idle" ELSE "restore"]
          /\ Saves(n, "none") \/ UNCHANGED sfiles
  /\ UNCHANGED <<fl, sreg, routed, removers, smlock, smq, srt, scount, smconf, smain, smleft,
                 srestored>>

\* AddFilterRunner up to the send on the router's channel: the runner is
\* registered before Start is tried and stays registered when Start fails.
\* The lock is kept while the router is busy.
AddFilterRunner ==
  /\ smgr.pc = "add" /\ smlock = <<>>
  /\ \E g \in 1..SmGens :
       /\ fl[<<smgr.name, g>>] = "new" /\ (g > 1 => fl[<<smgr.name, g - 1>>] # "new")
       /\ sreg' = [sreg EXCEPT ![smgr.name] = g]
       /\ \/ /\ fl' = [fl EXCEPT ![<<smgr.name, g>>] = "up"]
             /\ smlock' = <<"manager">>
             /\ smgr' = [smgr EXCEPT !.pc = "adding", !.gen = g]
          \/ /\ fl' = [fl EXCEPT ![<<smgr.name, g>>] = "failed"]
             /\ smgr' = MgrNext
             /\ UNCHANGED smlock
  /\ UNCHANGED <<smconf, routed, removers, smq, srt, scount, sfiles, smain, smleft, srestored>>

\* The router, between two messages, accepts the matcher; AddFilterRunner
\* returns and unlocks.
RouterAdds ==
  /\ srt = NoMsg /\ smgr.pc = "adding"
  /\ routed' = routed \cup {<<smgr.name, smgr.gen>>}
  /\ smlock' = <<>>
  /\ smgr' = [smgr EXCEPT !.pc = "count"]
  /\ UNCHANGED <<smconf, fl, sreg, removers, smq, srt, scount, sfiles, smain, smleft, srestored>>

\* loadSandbox counts the filter after AddFilterRunner returned.
MgrCount ==
  /\ smgr.pc = "count"
  /\ scount' = scount + 1
  /\ smgr' = MgrNext
  /\ UNCHANGED <<smconf, fl, sreg, routed, removers, smlock, smq, srt, sfiles, smain, smleft,
                 srestored>>

\* RemoveFilterRunner for an unload: under the lock, and only what is registered.
MgrUnload ==
  /\ smgr.pc = "unload" /\ smlock = <<>>
  /\ \/ /\ sreg[smgr.name] = 0
        /\ smgr' = MgrNext
        /\ UNCHANGED smlock
     \/ /\ sreg[smgr.name] # 0
        /\ smlock' = <<"manager">>
        /\ smgr' = [smgr EXCEPT !.pc = "removing", !.gen = sreg[smgr.name]]
  /\ UNCHANGED <<smconf, fl, sreg, routed, removers, smq, srt, scount, sfiles, smain, smleft,
                 srestored>>

RouterRemovesKeeps ==
  /\ srt = NoMsg /\ smgr.pc = "removing"
  /\ sreg' = [sreg EXCEPT ![smgr.name] = 0]
  /\ Saves(smgr.name, "none")
  /\ smlock' = <<>> /\ smgr' = MgrNext
  /\ UNCHANGED <<smconf, fl, routed, removers, smq, srt, scount, smain, smleft, srestored>>

\* The router accepts the removal; the registration and the files go.
RouterRemoves ==
  /\ srt = NoMsg /\ smgr.pc = "removing"
  /\ LET i == <<smgr.name, smgr.gen>> IN
       /\ fl' = Close(i, fl)
       /\ routed' = routed \ {i}
       /\ sreg' = [sreg EXCEPT ![smgr.name] = 0]
       /\ Saves(smgr.name, "none")
  /\ smlock' = <<>> /\ smgr' = MgrNext
  /\ UNCHANGED <<smconf, removers, smq, srt, scount, smain, smleft, srestored>>

\* The manager's channel is closed and drained: its Run returns.
MgrReturns ==
  /\ smgr.pc = "idle" /\ smq = <<>> /\ ~smgr.routed
  /\ smgr' = [smgr EXCEPT !.pc = "done"]
  /\ UNCHANGED <<smconf, fl, sreg, routed, removers, smlock, smq, srt, scount, sfiles, smain,
                 smleft, srestored>>

-----------------------------------------------------------------------------
(* The loaded filters: SandboxFilter.Run, foRunner.exit and the goroutine  *)
(* Unregister starts.                                                      *)

\* Run returns: terminated by its script or by backpressure, or because its
\* channel was closed.  PluginExited uncounts it.  Its files stay.
FilterReturns(i) ==
  /\ fl[i] \in {"up", "closing"}
  /\ fl' = [fl EXCEPT ![i] = "exit"]
  /\ scount' = scount - 1
  /\ UNCHANGED <<smconf, sreg, routed, removers, smlock, smgr, smq, srt, sfiles, smain, smleft,
                 srestored>>

\* exit: unless hekad is stopping, start the unregistering goroutine; then drain.
FilterExits(i) ==
  /\ fl[i] = "exit"
  /\ removers' = IF SmStopping THEN removers ELSE removers \cup {i}
  /\ fl' = [fl EXCEPT ![i] = "drain"]
  /\ UNCHANGED <<smconf, sreg, routed, smlock, smgr, smq, srt, scount, sfiles, smain, smleft,
                 srestored>>

\* The drain ends when the matcher's channel is closed; Starter's wg.Done follows.
\* A filter that exits before the router knows it drains until it is removed.
FilterDrained(i) ==
  /\ fl[i] = "drain" /\ i \notin routed /\ ~(smgr.pc = "adding" /\ i = <<smgr.name, smgr.gen>>)
  /\ fl' = [fl EXCEPT ![i] = "ended"]
  /\ UNCHANGED <<smconf, sreg, routed, removers, smlock, smgr, smq, srt, scount, sfiles, smain,
                 smleft, srestored>>

\* RemoveFilterRunner in the goroutine of an exited filter: what is registered
\* under the name is removed, and the lock is kept until the router accepts.
RemoverStarts(i) ==
  /\ i \in removers /\ smlock = <<>>
  /\ \/ (SmStopping \/ sreg[i[1]] = 0) /\ removers' = removers \ {i} /\ UNCHANGED smlock
     \/ sreg[i[1]] # 0 /\ smlock' = i /\ UNCHANGED removers
  /\ UNCHANGED <<smconf, fl, sreg, routed, smgr, smq, srt, scount, sfiles, smain, smleft,
                 srestored>>

RouterUnregisters(i) ==
  /\ i \in removers /\ smlock = i /\ srt = NoMsg
  /\ LET j == <<i[1], sreg[i[1]]>> IN
       /\ fl' = Close(j, fl)
       /\ routed' = routed \ {j}
  /\ sreg' = [sreg EXCEPT ![i[1]] = 0]
  /\ removers' = removers \ {i}
  /\ smlock' = <<>>
  /\ UNCHANGED <<smconf, smgr, smq, srt, scount, sfiles, smain, smleft, srestored>>

-----------------------------------------------------------------------------
(* Shutdown and restart.                                                   *)

\* PipelineRunner.Run after the signal.  In a quiet behaviour no control message
\* is on its way and the manager idles.
SmStop ==
  /\ smain.pc = "run"
  /\ smconf.quiet => /\ srt = NoMsg /\ smq = <<>> /\ smgr.pc = "idle"
  /\ smain' = [smain EXCEPT !.pc = "stop"]
  /\ smleft' = IF smconf.quiet THEN 0 ELSE smleft
  /\ UNCHANGED <<smconf, fl, sreg, routed, removers, smlock, smgr, smq, srt, scount, sfiles,
                 srestored>>

\* What the shutdown loop ranges over: all of FilterRunners, working or not.
ShutSet == {i \in Instances : Loaded(i)}

\* Lock filtersLock and range over the registered filters, the manager included.
ShutFilters ==
  /\ smain.pc = "stop" /\ smlock = <<>>
  /\ smlock' = <<"main">>
  /\ smain' = [smain EXCEPT !.pc = "removing", !.todo = ShutSet]
  /\ UNCHANGED <<smconf, fl, sreg, routed, removers, smgr, smq, srt, scount, sfiles, smleft,
                 srestored>>

\* The router accepts the removal of one more matcher, in any order.
RouterShuts ==
  /\ smain.pc = "removing" /\ srt = NoMsg
  /\ \/ /\ smgr.routed
        /\ smgr' = [smgr EXCEPT !.routed = FALSE]
        /\ UNCHANGED <<fl, routed, smain>>
     \/ \E i \in smain.todo :
          /\ fl' = Close(i, fl)
          /\ routed' = routed \ {i}
          /\ smain' = [smain EXCEPT !.todo = @ \ {i}]
          /\ UNCHANGED smgr
  /\ UNCHANGED <<smconf, sreg, removers, smlock, smq, srt, scount, sfiles, smleft, srestored>>

\* Unlock, and wait for filtersWg.
ShutUnlocks ==
  /\ smain.pc = "removing" /\ smain.todo = {} /\ ~smgr.routed
  /\ smlock' = <<>>
  /\ smain' = [smain EXCEPT !.pc = "wait"]
  /\ UNCHANGED <<smconf, fl, sreg, routed, removers, smgr, smq, srt, scount, sfiles, smleft,
                 srestored>>

\* filtersWg.Wait returns.
ShutEnds ==
  /\ smain.pc = "wait" /\ smgr.pc = "done"
  /\ \A i \in Instances : fl[i] \in {"new", "failed", "ended"}
  /\ smain' = [smain EXCEPT !.pc = "down"]
  /\ UNCHANGED <<smconf, fl, sreg, routed, removers, smlock, smgr, smq, srt, scount, sfiles,
                 smleft, srestored>>

\* hekad is started again, after a shutdown or a crash: only the files are left,
\* and the manager's Run restores them.
SmRestart ==
  /\ smain.restarts < SmRestarts /\ smleft = 0
  /\ smain.pc \in {"run", "down"}
  /\ fl' = [i \in Instances |-> "new"]
  /\ sreg' = [n \in SmNames |-> 0]
  /\ routed' = {} /\ removers' = {} /\ smlock' = <<>>
  /\ \E saved \in {{n \in SmNames : sfiles[n] # "none"}} :
       /\ smgr' = [pc |-> IF saved = {} THEN "idle" ELSE "restore", name |-> SmNoOne,
                   gen |-> 0, todo |-> saved, routed |-> TRUE]
       /\ srestored' = (saved # {})
  /\ smq' = <<>> /\ srt' = NoMsg /\ scount' = 0
  /\ smain' = [pc |-> "run", todo |-> {}, restarts |-> smain.restarts + 1]
  /\ smleft' = 1
  /\ UNCHANGED <<smconf, sfiles>>

SmIdle == UNCHANGED smvars

SmNext ==
  \/ RouterTakes \/ RouterGives \/ RouterAdds \/ RouterRemoves \/ RouterShuts
  \/ MgrTake \/ loadSandbox \/ restoreSandboxes \/ AddFilterRunner \/ MgrCount
  \/ MgrUnload \/ MgrReturns
  \/ \E i \in Instances : FilterReturns(i) \/ FilterExits(i) \/ FilterDrained(i)
  \/ \E i \in Instances : RemoverStarts(i) \/ RouterUnregisters(i)
  \/ SmStop \/ ShutFilters \/ ShutUnlocks \/ ShutEnds
  \/ SmRestart
  \/ SmIdle

\* What the scheduler runs: every goroutine that is not blocked.  A filter whose
\* script still works is not among them.
SmRouter == RouterGives \/ RouterAdds \/ RouterRemoves \/ RouterShuts
            \/ \E i \in Instances : RouterUnregisters(i)
SmManager == MgrTake \/ loadSandbox \/ restoreSandboxes \/ AddFilterRunner \/ MgrCount
             \/ MgrUnload \/ MgrReturns
SmFilters == \E i \in Instances : \/ fl[i] = "closing" /\ FilterReturns(i)
                                  \/ FilterExits(i) \/ FilterDrained(i)
SmMain == ShutFilters \/ ShutUnlocks \/ ShutEnds
SmRemovers == \E i \in Instances : RemoverStarts(i)

SmFairness ==
  /\ WF_smvars(SmRouter) /\ WF_smvars(SmManager) /\ WF_smvars(SmFilters)
  /\ SF_smvars(SmMain) /\ SF_smvars(SmRemovers)

SmSpec == SmInit /\ [][SmNext]_smvars /\ SmFairness
-----------------------------------------------------------------------------

SmTypeOK ==
  /\ smconf \in SmConfs
  /\ fl \in [Instances -> {"new", "up", "closing", "exit", "drain", "ended", "failed"}]
  /\ sreg \in [SmNames -> 0..SmGens]
  /\ routed \subseteq Instances /\ removers \subseteq Instances
  /\ smgr.pc \in {"idle", "load", "add", "adding", "count", "unload", "removing", "restore",
                  "done"}
  /\ smgr.todo \subseteq SmNames
  /\ Len(smq) <= smconf.cap
  /\ srt \in Controls \cup {NoMsg}
  /\ scount \in Int
  /\ sfiles \in [SmNames -> {"none", "bad", "both"}]

\* currentFilters tells the truth: it is the number of filters whose Run has not
\* returned, less the one AddFilterRunner has just started and loadSandbox has not
\* counted yet (sandbox_manager_filter.go:231-233 against PluginExited, which a
\* filter that fails at once calls first).
CountTrue ==
  scount = Cardinality(SmLive)
           - (IF smgr.pc \in {"adding", "count"} THEN 1 ELSE 0)

\* Without a restore the manager never runs more than max_filters filters: its
\* check of currentFilters is not defeated by filters that exit or are unloaded
\* while another one is being loaded (sandbox_manager_filter.go:304-305).
AtMostMaxFilters == srestored \/ Cardinality(SmLive) <= smconf.max

\* A filter that is registered and works has its script and configuration in the
\* working directory, so that a restart brings it back (loadSandbox writes them
\* first; only an unload or a failed creation removes them).
RunningIsSaved ==
  \A i \in Instances : Loaded(i) /\ fl[i] = "up" => sfiles[i[1]] = "both"

\* What the router serves is registered: no matcher of a loaded filter is left in
\* the router when its runner can no longer be found and removed, except in the
\* shutdown, which leaves the map alone (config.go:398-429).
RoutedIsRegistered == \A i \in routed : Loaded(i)

\* When hekad is stopped while the manager idles, the filters' shutdown completes:
\* every loaded filter is removed from the router, drains and exits, with the
\* manager, and filtersWg.Wait returns (pipeline_runner.go:380-391).
QuietShutdown ==
  (smconf.quiet /\ smain.pc = "stop") ~> (smain.pc \in {"down", "run"})

\* Every filter that exits gets unregistered, or hekad stops: the goroutine exit
\* starts does get filtersLock and the router (plugin_runners.go:1328-1336), as
\* long as the manager's queue never fills.
ExitedIsUnregistered ==
  \A i \in Instances :
    (smconf.cap >= SmMsgs /\ fl[i] = "drain") ~> (fl[i] # "drain" \/ SmStopping)

\* The doc of max_filters, "The maximum number of filters this manager can run",
\* also for the filters a restart restores.
MaxFiltersAlways == Cardinality(SmLive) <= smconf.max

\* The comment of the shutdown loop, "needed for a clean shutdown without
\* deadlocking", for any time at which the signal comes: the shutdown completes.
CleanShutdown == (smain.pc = "stop") ~> (smain.pc \in {"down", "run"})
=============================================================================

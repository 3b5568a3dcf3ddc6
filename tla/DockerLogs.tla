----------------------------- MODULE DockerLogs -----------------------------
(***************************************************************************)
(* DockerLogInput and its AttachManager (plugins/docker/attacher.go): Run  *)
(* attaches to every listed container, registers for the daemon's events   *)
(* and attaches to each container that starts; when the event channel is   *)
(* closed it registers anew and attaches to everything again.  Docker and  *)
(* its client library are external: any call may fail, the event stream    *)
(* may be lost, containers come and go at any time.                        *)
(***************************************************************************)
EXTENDS Integers, Sequences, FiniteSets

CONSTANTS
  DkC,        \* containers
  DkRetries,  \* retries of withRetries
  DkStarts,   \* bound: container starts
  DkFaults    \* bound: failed calls and lost event streams

ASSUME DkAssumption == DkRetries \in Nat

VARIABLES
  dk,       \* Run: [pc, boot, todo, tries, all, re]: its place, whether this is the first
            \* attachAll, the listed containers left, and the attempts of attach, of attachAll
            \* and of restart
  dkev,     \* m.events: [open, on, q]: not closed, registered, events under way
  dkrunning,\* running containers
  dkatt,    \* per container: live attachments
  dkpend,   \* attach goroutines started by events
  dkskip,   \* history: running containers nobody will attach to, for a known reason
  dkdeaf,   \* history: a registration failed unnoticed
  dkstop,   \* stopChan is closed
  dkbound   \* bound: [starts, faults]

dkvars == <<dk, dkev, dkrunning, dkatt, dkpend, dkskip, dkdeaf, dkstop, dkbound>>
dkDocker == <<dkrunning, dkatt, dkskip>>

\* NewAttachManager: nothing is registered yet; Run begins with attachAll.
DkInit ==
  /\ dk = [pc |-> "list", boot |-> TRUE, todo |-> {}, tries |-> 0, all |-> 0, re |-> 0]
  /\ dkev = [open |-> TRUE, on |-> FALSE, q |-> <<>>]
  /\ dkrunning \in SUBSET DkC
  /\ dkatt = [c \in DkC |-> 0] /\ dkpend = {} /\ dkskip = {}
  /\ dkdeaf = FALSE /\ dkstop = FALSE /\ dkbound = [starts |-> 0, faults |-> 0]

-----------------------------------------------------------------------------
(* Docker.                                                                 *)

DkEnded == dk.pc \in {"nil", "err"}

Fault == /\ dkbound.faults < DkFaults
         /\ dkbound' = [dkbound EXCEPT !.faults = @ + 1]

\* External: a container starts.  One that starts between the first listing and the
\* registration for events is not noticed.
DkStart(c) ==
  /\ ~DkEnded /\ c \notin dkrunning /\ dkbound.starts < DkStarts
  /\ dkbound' = [dkbound EXCEPT !.starts = @ + 1]
  /\ dkrunning' = dkrunning \cup {c}
  /\ dkev' = IF dkev.on THEN [dkev EXCEPT !.q = Append(@, c)] ELSE dkev
  /\ dkskip' = IF dk.boot /\ dk.pc \in {"attach", "listen"} THEN dkskip \cup {c} ELSE dkskip
  /\ UNCHANGED <<dk, dkatt, dkpend, dkdeaf, dkstop>>

\* External: a container exits; its attachments end with it.
DkExit(c) ==
  /\ ~DkEnded /\ c \in dkrunning
  /\ dkrunning' = dkrunning \ {c}
  /\ dkatt' = [dkatt EXCEPT ![c] = 0]
  /\ dkskip' = dkskip \ {c}
  /\ UNCHANGED <<dk, dkev, dkpend, dkdeaf, dkstop, dkbound>>

\* External: the event stream breaks and the client closes the channel; a daemon that
\* restarts ends the attachments as well.
DkLose ==
  /\ ~DkEnded /\ Fault /\ dkev.on
  /\ dkev' = [open |-> FALSE, on |-> FALSE, q |-> <<>>]
  /\ \/ UNCHANGED dkatt
     \/ dkatt' = [c \in DkC |-> 0]
  /\ UNCHANGED <<dk, dkrunning, dkpend, dkskip, dkdeaf, dkstop>>

-----------------------------------------------------------------------------
(* Run.                                                                    *)

\* withRetries(attachAll) after a failure: list again; or, when the attempts are used
\* up, Run gives up, or restart is tried again, or handleDockerEvents returns.
DkAllFailed ==
  CASE dk.all < DkRetries -> [dk EXCEPT !.pc = "list", !.all = @ + 1, !.tries = 0, !.todo = {}]
    [] dk.all >= DkRetries /\ dk.boot -> [dk EXCEPT !.pc = "err"]
    [] dk.all >= DkRetries /\ ~dk.boot /\ dk.re < DkRetries ->
         [dk EXCEPT !.pc = "remove", !.re = @ + 1, !.all = 0, !.tries = 0, !.todo = {}]
    [] OTHER -> [dk EXCEPT !.pc = "nil"]

attachAll ==
  /\ dk.pc = "list"
  /\ \/ dk' = [dk EXCEPT !.pc = "attach", !.todo = dkrunning] /\ UNCHANGED dkbound
     \/ Fault /\ dk' = DkAllFailed
  /\ UNCHANGED <<dkev, dkDocker, dkpend, dkdeaf, dkstop>>

\* attach, for a listed container.  A failed AttachToContainer closes success before it
\* reports the failure: the error may be taken for a success, and the container stays
\* unattached.
DkAttach(c) ==
  /\ dk.pc = "attach" /\ c \in dk.todo
  /\ \/ /\ dk' = [dk EXCEPT !.todo = @ \ {c}, !.tries = 0]
        /\ dkatt' = IF c \in dkrunning THEN [dkatt EXCEPT ![c] = @ + 1] ELSE dkatt
        /\ UNCHANGED <<dkskip, dkbound>>
     \/ /\ Fault /\ c \in dkrunning
        /\ dk' = [dk EXCEPT !.todo = @ \ {c}, !.tries = 0]
        /\ dkskip' = dkskip \cup {c}
        /\ UNCHANGED dkatt
     \/ /\ Fault
        /\ dk' = IF dk.tries < DkRetries THEN [dk EXCEPT !.tries = @ + 1] ELSE DkAllFailed
        /\ UNCHANGED <<dkatt, dkskip>>
  /\ UNCHANGED <<dkev, dkrunning, dkpend, dkdeaf, dkstop>>

DkAttached ==
  /\ dk.pc = "attach" /\ dk.todo = {}
  /\ dk' = [dk EXCEPT !.pc = IF dk.boot THEN "listen" ELSE "events", !.all = 0, !.re = 0]
  /\ UNCHANGED <<dkev, dkDocker, dkpend, dkdeaf, dkstop, dkbound>>

\* Run registers for events, with retries.
DkListen ==
  /\ dk.pc = "listen"
  /\ \/ /\ dk' = [dk EXCEPT !.pc = "events", !.boot = FALSE, !.tries = 0]
        /\ dkev' = [dkev EXCEPT !.on = TRUE]
        /\ UNCHANGED dkbound
     \/ /\ Fault
        /\ dk' = IF dk.tries < DkRetries THEN [dk EXCEPT !.tries = @ + 1] ELSE [dk EXCEPT !.pc = "err"]
        /\ UNCHANGED dkev
  /\ UNCHANGED <<dkDocker, dkpend, dkdeaf, dkstop>>

\* handleDockerEvents: a container has started.
DkEvent ==
  /\ dk.pc = "events" /\ dkev.q # <<>>
  /\ dkev' = [dkev EXCEPT !.q = Tail(@)]
  /\ dkpend' = dkpend \cup {Head(dkev.q)}
  /\ UNCHANGED <<dk, dkDocker, dkdeaf, dkstop, dkbound>>

\* The goroutine of an event attaches, or fails, which nobody sees.
DkAttachNew(c) ==
  /\ c \in dkpend
  /\ dkpend' = dkpend \ {c}
  /\ \/ /\ dkatt' = IF c \in dkrunning THEN [dkatt EXCEPT ![c] = @ + 1] ELSE dkatt
        /\ UNCHANGED <<dkskip, dkbound>>
     \/ /\ Fault /\ c \in dkrunning
        /\ dkskip' = dkskip \cup {c}
        /\ UNCHANGED dkatt
  /\ UNCHANGED <<dk, dkev, dkrunning, dkdeaf, dkstop>>

\* The channel is closed: restart.
DkClosed ==
  /\ dk.pc = "events" /\ ~dkev.open
  /\ dk' = [dk EXCEPT !.pc = "remove", !.re = 0]
  /\ UNCHANGED <<dkev, dkDocker, dkpend, dkdeaf, dkstop, dkbound>>

restartNoListener ==
  /\ dk.pc = "remove"
  /\ dkev' = [open |-> TRUE, on |-> FALSE, q |-> <<>>]
  /\ dk' = [dk EXCEPT !.pc = "list"]
  /\ UNCHANGED <<dkDocker, dkpend, dkdeaf, dkstop, dkbound>>

\* restart: unregister, read the channel to see whether it is closed, register, attach
\* to everything.  On a second attempt the channel is open, and the read waits for an
\* event that may never come.  The error of the registration is not looked at.
restart ==
  /\ dk.pc = "remove"
  /\ \/ /\ dkev.open /\ dkev.q = <<>>
        /\ dk' = [dk EXCEPT !.pc = "hung"]
        /\ dkev' = [dkev EXCEPT !.on = FALSE]
        /\ UNCHANGED <<dkdeaf, dkbound>>
     \/ /\ ~dkev.open \/ dkev.q # <<>>
        /\ dk' = [dk EXCEPT !.pc = "list"]
        /\ LET left == IF dkev.open THEN Tail(dkev.q) ELSE <<>> IN
             \/ /\ dkev' = [open |-> TRUE, on |-> TRUE, q |-> left]
                /\ UNCHANGED <<dkdeaf, dkbound>>
             \/ /\ Fault
                /\ dkev' = [open |-> TRUE, on |-> FALSE, q |-> left]
                /\ dkdeaf' = TRUE
  /\ UNCHANGED <<dkDocker, dkpend, dkstop>>

\* Stop closes stopChan; only handleDockerEvents looks at it.
DkStop ==
  /\ ~dkstop
  /\ dkstop' = TRUE
  /\ UNCHANGED <<dk, dkev, dkDocker, dkpend, dkdeaf, dkbound>>

DkStopped ==
  /\ dk.pc = "events" /\ dkstop
  /\ dk' = [dk EXCEPT !.pc = "nil"]
  /\ UNCHANGED <<dkev, dkDocker, dkpend, dkdeaf, dkstop, dkbound>>

DkIdle == UNCHANGED dkvars

DkRun == \/ attachAll \/ (\E c \in DkC : DkAttach(c)) \/ DkAttached \/ DkListen \/ DkEvent
         \/ DkClosed \/ restart

DkNext ==
  \/ DkRun \/ DkStopped \/ DkStop \/ DkLose
  \/ \E c \in DkC : DkStart(c) \/ DkExit(c) \/ DkAttachNew(c)
  \/ DkIdle

\* Run goes on, and its select takes stopChan in the end.
DkFairness == WF_dkvars(DkRun) /\ SF_dkvars(DkStopped)

DkSpec == DkInit /\ [][DkNext]_dkvars /\ DkFairness
-----------------------------------------------------------------------------
DkTypeOK ==
  /\ dk.pc \in {"list", "attach", "listen", "events", "remove", "hung", "nil", "err"}
  /\ dk.todo \subseteq DkC
  /\ dk.tries \in 0..DkRetries /\ dk.all \in 0..DkRetries /\ dk.re \in 0..DkRetries
  /\ dkrunning \subseteq DkC /\ dkpend \subseteq DkC /\ dkskip \subseteq dkrunning
  /\ dkev.on => dkev.open

\* While handleDockerEvents waits and nothing is under way every running container is
\* attached, but for the known gaps: started before the first registration, or an
\* attachment or registration that failed unseen.  A lost event stream leaves no gap,
\* for restart registers before it lists (attacher.go:172-220).
DkAllAttached ==
  dk.pc = "events" /\ dkev.open /\ dkev.q = <<>> /\ dkpend = {} /\ ~dkdeaf =>
    \A c \in dkrunning : dkatt[c] > 0 \/ c \in dkskip

\* Without a failed call or a lost event stream no container is attached twice, so no
\* log line is delivered twice: Run registers for events only after it has listed the
\* containers (attacher.go:147-170).
DkOnce == dkbound.faults = 0 => \A c \in DkC : dkatt[c] <= 1

\* A closed event channel is replaced, or Run ends, or hangs in restart's read
\* (attacher.go:172-211).
DkRecovers == (~dkev.open) ~> (dkev.open \/ DkEnded)

\* A stopped input ends although stopChan is looked at only between events, unless it
\* hangs in restart's read (attacher.go:182, 198-220).
DkStops == dkstop ~> (DkEnded \/ dk.pc = "hung")

\* The comment "return // Will cause the plugin to restart" (attacher.go:207): Run's
\* end without an error, which Starter takes for a clean exit, is for Stop only.
DkNilOnlyStopped == dk.pc = "nil" => dkstop
=============================================================================

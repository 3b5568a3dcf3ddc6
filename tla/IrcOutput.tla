----------------------------- MODULE IrcOutput ------------------------------
(***************************************************************************)
(* IrcOutput (plugins/irc/irc_output.go): Run puts each message once per   *)
(* IRC channel on OutQueue; processOutQueue sends one message per tick, or *)
(* keeps it in the backlog of a channel that is not joined; the IRC        *)
(* library runs the callbacks, one at a time, on events of the server.     *)
(* The three meet in JoinedChannels, in the queues, and on the unbuffered  *)
(* channel die, which Run reads once and then closes.                      *)
(***************************************************************************)
EXTENDS Integers, Sequences, FiniteSets, SequencesExt

CONSTANTS
  IrcN,        \* number of IRC channels
  IrcMsgs,     \* bound: messages given to the output
  IrcCap,      \* queue_size
  IrcEvents,   \* bound: events of the server
  IrcConfs,    \* configurations [rejoin, buffered]: rejoin_on_kick, and whether messages
               \* come from a disk queue
  IrcRetries   \* max_join_retries

ASSUME IrcAssumption == IrcN \in Nat /\ IrcCap \in Nat \ {0} /\ IrcRetries \in Nat

VARIABLES
  ircconf,  \* one of IrcConfs
  ircrun,   \* Run: [pc, msg, i, any, cursor, closed]; closed: InChan is closed
  ircproc,  \* processOutQueue: [pc, hand, i]
  ircout,   \* OutQueue
  ircback,  \* BacklogQueues
  ircjoin,  \* JoinedChannels
  irctries, \* numRetries
  irccb,    \* the callback that is running: [pc, c]
  ircerror, \* whether the ERROR callback is registered
  ircasked, \* channels the server has been asked to join
  ircsent,  \* history: what was sent, in order
  ircev     \* bound: events so far

ircvars == <<ircconf, ircrun, ircproc, ircout, ircback, ircjoin, irctries, irccb, ircerror,
             ircasked, ircsent, ircev>>
ircQueues == <<ircout, ircback, ircsent>>
ircLink == <<ircjoin, irctries, irccb, ircerror, ircasked, ircev>>

IrcChans == 1..IrcN
IrcNone == <<0, 0>>

\* Init and the first steps of Run: the connection is up, and the CONNECTED callback
\* asks for every channel.
IrcInit ==
  /\ ircconf \in IrcConfs
  /\ ircrun = [pc |-> "select", msg |-> 1, i |-> 1, any |-> FALSE, cursor |-> 0,
               closed |-> FALSE]
  /\ ircproc = [pc |-> "tick", hand |-> IrcNone, i |-> 1]
  /\ ircout = <<>> /\ ircback = [c \in IrcChans |-> <<>>]
  /\ ircjoin = [c \in IrcChans |-> "not"] /\ irctries = [c \in IrcChans |-> 0]
  /\ irccb = [pc |-> "idle", c |-> 1] /\ ircerror = TRUE
  /\ ircasked = IrcChans /\ ircsent = <<>> /\ ircev = 0

IrcAlive == irccb.pc # "panic"

-----------------------------------------------------------------------------
(* Run.                                                                    *)

\* A pack from InChan: one that does not encode moves the cursor, any other goes to
\* the queue.
IrcTake ==
  /\ IrcAlive /\ ircrun.pc = "select" /\ ircrun.msg <= IrcMsgs /\ ~ircrun.closed
  /\ \/ ircrun' = [ircrun EXCEPT !.msg = @ + 1, !.cursor = ircrun.msg]
     \/ ircrun' = [ircrun EXCEPT !.pc = "queue"]
  /\ UNCHANGED <<ircconf, ircproc, ircQueues, ircLink>>

\* The message for one channel, or not if OutQueue is full.
IrcQueue ==
  /\ IrcAlive /\ ircrun.pc = "queue" /\ ircrun.i <= IrcN
  /\ IF Len(ircout) < IrcCap
     THEN /\ ircout' = Append(ircout, <<ircrun.msg, ircrun.i>>)
          /\ ircrun' = [ircrun EXCEPT !.i = @ + 1, !.any = TRUE]
     ELSE /\ ircrun' = [ircrun EXCEPT !.i = @ + 1]
          /\ UNCHANGED ircout
  /\ UNCHANGED <<ircconf, ircproc, ircback, ircsent, ircLink>>

\* Queued for any channel, the message is done with; for none, Run answers with a
\* RetryMessageError, and a buffered plugin is given the message again.
IrcQueued ==
  /\ IrcAlive /\ ircrun.pc = "queue" /\ ircrun.i > IrcN
  /\ ircrun' = IF ircrun.any
               THEN [ircrun EXCEPT !.pc = "select", !.i = 1, !.any = FALSE, !.msg = @ + 1,
                                   !.cursor = ircrun.msg]
               ELSE [ircrun EXCEPT !.pc = "select", !.i = 1,
                                   !.msg = IF ircconf.buffered THEN @ ELSE @ + 1]
  /\ UNCHANGED <<ircconf, ircproc, ircQueues, ircLink>>

\* Shutdown closes InChan.
IrcCloseInChan ==
  /\ IrcAlive /\ ~ircrun.closed
  /\ ircrun' = [ircrun EXCEPT !.closed = TRUE]
  /\ UNCHANGED <<ircconf, ircproc, ircQueues, ircLink>>

IrcInChanEnds ==
  /\ IrcAlive /\ ircrun.pc = "select" /\ ircrun.closed
  /\ ircrun' = [ircrun EXCEPT !.pc = "cleanup"]
  /\ UNCHANGED <<ircconf, ircproc, ircQueues, ircLink>>

\* A callback sends on die: Run takes it at its select; once die is closed the send
\* panics.
IrcDie ==
  /\ irccb.pc = "die"
  /\ \/ /\ ircrun.pc = "select"
        /\ ircrun' = [ircrun EXCEPT !.pc = "cleanup"]
        /\ irccb' = [irccb EXCEPT !.pc = "idle"]
     \/ /\ ircrun.pc \in {"closed", "end"}
        /\ irccb' = [irccb EXCEPT !.pc = "panic"]
        /\ UNCHANGED ircrun
  /\ UNCHANGED <<ircconf, ircproc, ircQueues, ircjoin, irctries, ircerror, ircasked, ircev>>

\* cleanup: the ERROR callback is cleared; OutQueue, killProcessing and die are closed.
IrcCleanup ==
  /\ IrcAlive /\ ircrun.pc = "cleanup"
  /\ ircrun' = [ircrun EXCEPT !.pc = "closed"]
  /\ ircerror' = FALSE
  /\ UNCHANGED <<ircconf, ircproc, ircQueues, ircjoin, irctries, irccb, ircasked, ircev>>

\* cleanup waits for the disconnection and for processOutQueue.
IrcCleaned ==
  /\ IrcAlive /\ ircrun.pc = "closed" /\ ircproc.pc = "end"
  /\ ircrun' = [ircrun EXCEPT !.pc = "end"]
  /\ UNCHANGED <<ircconf, ircproc, ircQueues, ircLink>>

-----------------------------------------------------------------------------
(* processOutQueue.                                                        *)

\* killProcessing and OutQueue are closed.
IrcClosed == ircrun.pc \in {"closed", "end"}

IrcTickOutOnly ==
  /\ IrcAlive /\ ircproc.pc = "tick" /\ (ircout # <<>> \/ IrcClosed)
  /\ \/ /\ ircout # <<>>
        /\ ircproc' = [ircproc EXCEPT !.pc = "send", !.hand = Head(ircout)]
        /\ ircout' = Tail(ircout)
     \/ /\ ircout = <<>>
        /\ ircproc' = [ircproc EXCEPT !.pc = "drain"]
        /\ UNCHANGED ircout
  /\ UNCHANGED <<ircconf, ircrun, ircback, ircsent, ircLink>>

\* A tick: a message of OutQueue, or, if there is none, the backlog; a closed and
\* empty OutQueue ends the loop.
IrcTick ==
  /\ IrcAlive /\ ircproc.pc = "tick"
  /\ \/ /\ ircout # <<>>
        /\ ircproc' = [ircproc EXCEPT !.pc = "send", !.hand = Head(ircout)]
        /\ ircout' = Tail(ircout)
     \/ /\ ircout = <<>>
        /\ ircproc' = [ircproc EXCEPT !.pc = IF IrcClosed THEN "drain" ELSE "backlog"]
        /\ UNCHANGED ircout
  /\ UNCHANGED <<ircconf, ircrun, ircback, ircsent, ircLink>>

\* killProcessing is closed: the loop ends, whatever OutQueue still holds.
IrcKilled ==
  /\ IrcAlive /\ ircproc.pc = "tick" /\ IrcClosed
  /\ ircproc' = [ircproc EXCEPT !.pc = "drain"]
  /\ UNCHANGED <<ircconf, ircrun, ircQueues, ircLink>>

\* sendFromOutQueue: to a joined channel; else into the channel's backlog, unless that
\* is full.
sendFromOutQueue ==
  /\ IrcAlive /\ ircproc.pc = "send"
  /\ LET c == ircproc.hand[2] IN
       IF ircjoin[c] = "joined"
       THEN /\ ircsent' = Append(ircsent, ircproc.hand)
            /\ ircproc' = [ircproc EXCEPT !.pc = "tick", !.hand = IrcNone]
            /\ UNCHANGED ircback
       ELSE /\ ircback' = IF Len(ircback[c]) < IrcCap
                          THEN [ircback EXCEPT ![c] = Append(@, ircproc.hand)] ELSE ircback
            /\ ircproc' = [ircproc EXCEPT !.pc = "backlog", !.hand = IrcNone]
            /\ UNCHANGED ircsent
  /\ UNCHANGED <<ircconf, ircrun, ircout, ircLink>>

\* sendFromBacklogQueue: the first joined channel with a backlog gives up its oldest
\* message ...
sendFromBacklogQueue ==
  /\ IrcAlive /\ ircproc.pc = "backlog"
  /\ \/ /\ ircproc.i > IrcN
        /\ ircproc' = [ircproc EXCEPT !.pc = "tick", !.i = 1]
        /\ UNCHANGED ircback
     \/ /\ ircproc.i <= IrcN
        /\ IF ircjoin[ircproc.i] = "joined" /\ ircback[ircproc.i] # <<>>
           THEN /\ ircproc' = [ircproc EXCEPT !.pc = "resend", !.hand = Head(ircback[ircproc.i])]
                /\ ircback' = [ircback EXCEPT ![ircproc.i] = Tail(@)]
           ELSE /\ ircproc' = [ircproc EXCEPT !.i = @ + 1]
                /\ UNCHANGED ircback
  /\ UNCHANGED <<ircconf, ircrun, ircout, ircsent, ircLink>>

\* ... which is lost if the channel was left in between; then the next channel has its
\* turn.
IrcResend ==
  /\ IrcAlive /\ ircproc.pc = "resend"
  /\ IF ircjoin[ircproc.hand[2]] = "joined"
     THEN /\ ircsent' = Append(ircsent, ircproc.hand)
          /\ ircproc' = [ircproc EXCEPT !.pc = "tick", !.hand = IrcNone, !.i = 1]
     ELSE /\ ircproc' = [ircproc EXCEPT !.pc = "backlog", !.hand = IrcNone, !.i = @ + 1]
          /\ UNCHANGED ircsent
  /\ UNCHANGED <<ircconf, ircrun, ircout, ircback, ircLink>>

\* The end of processOutQueue: the rest of each backlog is sent to its channel if that
\* is joined; then Quit and Disconnect.
IrcDrain ==
  /\ IrcAlive /\ ircproc.pc = "drain"
  /\ \/ /\ ircproc.i <= IrcN
        /\ ircback' = [ircback EXCEPT ![ircproc.i] = <<>>]
        /\ ircsent' = IF ircjoin[ircproc.i] = "joined" THEN ircsent \o ircback[ircproc.i] ELSE ircsent
        /\ ircproc' = [ircproc EXCEPT !.i = @ + 1]
     \/ /\ ircproc.i > IrcN
        /\ ircproc' = [ircproc EXCEPT !.pc = "end"]
        /\ UNCHANGED <<ircback, ircsent>>
  /\ UNCHANGED <<ircconf, ircrun, ircout, ircLink>>

-----------------------------------------------------------------------------
(* The callbacks.  The library runs them one at a time, while connected.   *)

IrcEvent == /\ irccb.pc = "idle" /\ ircproc.pc # "end" /\ ircev < IrcEvents
            /\ ircev' = ircev + 1
            /\ UNCHANGED <<ircconf, ircrun, ircproc, ircQueues>>

\* noneJoinable: nothing is left to do, and the callback tells Run to die.
noneJoinable(join) == \A c \in IrcChans : join[c] = "cannot"
IrcOrDie(join) == irccb' = [irccb EXCEPT !.pc = IF noneJoinable(join) THEN "die" ELSE "idle"]

\* The end of the names list: the channel is joined, its retries start over.
IrcJoined(c) ==
  /\ IrcEvent /\ c \in ircasked
  /\ ircjoin' = [ircjoin EXCEPT ![c] = "joined"]
  /\ irctries' = [irctries EXCEPT ![c] = 0]
  /\ ircasked' = ircasked \ {c}
  /\ UNCHANGED <<irccb, ircerror>>

\* ERROR: the connection is gone; every channel is marked as not joined, also one
\* that could not be joined.
IrcDisconnected ==
  /\ IrcEvent /\ ircerror
  /\ ircjoin' = [c \in IrcChans |-> "not"]
  /\ irccb' = [irccb EXCEPT !.pc = "reconnect"]
  /\ ircasked' = {}
  /\ UNCHANGED <<irctries, ircerror>>

\* Reconnect succeeds and the CONNECTED callback asks for every channel, or it fails
\* and the output is to end.
IrcReconnect ==
  /\ irccb.pc = "reconnect"
  /\ \/ /\ irccb' = [irccb EXCEPT !.pc = "idle"]
        /\ ircasked' = IrcChans
        /\ UNCHANGED ircerror
     \/ /\ irccb' = [irccb EXCEPT !.pc = "die"]
        /\ ircerror' = FALSE
        /\ UNCHANGED ircasked
  /\ UNCHANGED <<ircconf, ircrun, ircproc, ircQueues, ircjoin, irctries, ircev>>

\* KICK: the channel is asked for again, or given up.
IrcKick(c) ==
  /\ IrcEvent /\ ircjoin[c] = "joined"
  /\ IF ircconf.rejoin
     THEN /\ ircjoin' = [ircjoin EXCEPT ![c] = "not"]
          /\ ircasked' = ircasked \cup {c}
          /\ UNCHANGED irccb
     ELSE /\ ircjoin' = [ircjoin EXCEPT ![c] = "cannot"]
          /\ IrcOrDie(ircjoin')
          /\ UNCHANGED ircasked
  /\ UNCHANGED <<irctries, ircerror>>

\* The channel cannot be joined: bad key, banned, invite only, no such channel.
handleCannotJoin(c) ==
  /\ IrcEvent /\ c \in ircasked
  /\ ircjoin' = [ircjoin EXCEPT ![c] = "cannot"]
  /\ ircasked' = ircasked \ {c}
  /\ IrcOrDie(ircjoin')
  /\ UNCHANGED <<irctries, ircerror>>

\* Whether the channel may be tried again.
IrcMayRetry(c) == irctries[c] < IrcRetries

\* The channel is full: it is tried again after a while, max_join_retries times.  When
\* they are used up nobody looks whether a joinable channel is left.
IrcFull(c) ==
  /\ IrcEvent /\ c \in ircasked /\ ircjoin[c] # "cannot"
  /\ ircasked' = ircasked \ {c}
  /\ IF IrcMayRetry(c)
     THEN /\ irctries' = [irctries EXCEPT ![c] = @ + 1]
          /\ irccb' = [pc |-> "rejoin", c |-> c]
          /\ UNCHANGED ircjoin
     ELSE /\ ircjoin' = [ircjoin EXCEPT ![c] = "cannot"]
          /\ UNCHANGED <<irctries, irccb>>
  /\ UNCHANGED ircerror

IrcRejoin ==
  /\ irccb.pc = "rejoin"
  /\ irccb' = [pc |-> "idle", c |-> 1]
  /\ ircasked' = ircasked \cup {irccb.c}
  /\ UNCHANGED <<ircconf, ircrun, ircproc, ircQueues, ircjoin, irctries, ircerror, ircev>>

\* Banned from the server.
IrcBanned ==
  /\ IrcEvent
  /\ irccb' = [irccb EXCEPT !.pc = "die"]
  /\ UNCHANGED <<ircjoin, irctries, ircerror, ircasked>>

\* QUIT marks all channels, PART one channel, as not joined; nobody asks for them.
IrcLeft ==
  /\ IrcEvent
  /\ \/ ircjoin' = [c \in IrcChans |-> "not"]
     \/ \E c \in IrcChans : ircjoin' = [ircjoin EXCEPT ![c] = "not"]
  /\ UNCHANGED <<irctries, irccb, ircerror, ircasked>>

IrcIdle == UNCHANGED ircvars

IrcCallbacks ==
  \/ \E c \in IrcChans : IrcJoined(c) \/ IrcKick(c) \/ handleCannotJoin(c) \/ IrcFull(c)
  \/ IrcDisconnected \/ IrcReconnect \/ IrcRejoin \/ IrcBanned \/ IrcLeft

IrcRun == IrcTake \/ IrcQueue \/ IrcQueued \/ IrcInChanEnds \/ IrcCleanup \/ IrcCleaned
IrcProc == IrcTick \/ IrcKilled \/ sendFromOutQueue \/ sendFromBacklogQueue \/ IrcResend \/ IrcDrain

IrcNext == IrcRun \/ IrcProc \/ IrcDie \/ IrcCallbacks \/ IrcCloseInChan \/ IrcIdle

\* Run, processOutQueue and a callback that waits go on; Run's select takes die when it
\* is offered again and again.
IrcFairness == /\ WF_ircvars(IrcRun) /\ WF_ircvars(IrcProc)
               /\ WF_ircvars(IrcReconnect \/ IrcRejoin) /\ SF_ircvars(IrcDie)

IrcSpec == IrcInit /\ [][IrcNext]_ircvars /\ IrcFairness
-----------------------------------------------------------------------------
IrcTypeOK ==
  /\ ircrun.pc \in {"select", "queue", "cleanup", "closed", "end"}
  /\ ircproc.pc \in {"tick", "send", "backlog", "resend", "drain", "end"}
  /\ irccb.pc \in {"idle", "die", "reconnect", "rejoin", "panic"}
  /\ Len(ircout) <= IrcCap /\ \A c \in IrcChans : Len(ircback[c]) <= IrcCap
  /\ ircjoin \in [IrcChans -> {"not", "joined", "cannot"}]
  /\ irctries \in [IrcChans -> 0..IrcRetries]
  /\ ircrun.cursor \in 0..IrcMsgs

RECURSIVE IrcBacklog(_)
IrcBacklog(c) == IF c = 0 THEN <<>> ELSE IrcBacklog(c - 1) \o ircback[c]

\* A message for a channel is in one place: OutQueue, the hands of processOutQueue,
\* the channel's backlog, or sent, and so is sent at most once.  Run retries a message
\* only when it is queued for no channel (irc_output.go:178-197, 298-345).
IrcOnePlace ==
  LET hand == IF ircproc.hand = IrcNone THEN <<>> ELSE <<ircproc.hand>> IN
  IsInjective(ircout \o hand \o IrcBacklog(IrcN) \o ircsent)

\* The backlog of a channel that is joined is sent: it does not wait for a new message
\* (irc_output.go:366-381).
IrcBacklogSent ==
  \A c \in IrcChans :
    []<>(ircback[c] = <<>> \/ ircjoin[c] # "joined" \/ ircproc.pc = "end" \/ ~IrcAlive)

\* The output ends when its InChan is closed or a callback wants it to die, unless a
\* callback sends on the closed die (irc_output.go:162-170, 517-530).
IrcEnds == (ircrun.closed \/ irccb.pc = "die") ~> (ircrun.pc = "end" \/ ~IrcAlive)

\* The doc of rejoin_on_kick, "it will not attempt to rejoin ever", and of
\* max_join_retries, "Heka will no longer attempt to join the channel".
NeverRejoins == \A c \in IrcChans : [](ircjoin[c] = "cannot" => [](c \notin ircasked))
=============================================================================

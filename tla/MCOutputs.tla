----------------------------- MODULE MCOutputs -----------------------------
(* Outputs, and the plugins whose input and output share a file: file,
   Elasticsearch, IRC, TCP, sandboxes, the AMQP hub, mail and whisper files.
   Each behaviour is of one component, named by `component`; the others keep a
   fixed initial state, so that one run explores them all side by side. *)
EXTENDS FileOutput, ESOutput, IrcOutput, TcpPlugins, SandboxIO, AmqpHub,
        SmtpOutput, WhisperOutput

VARIABLE component

allVars == <<component, fovars, esvars, ircvars, tcvars, sbvars, amvars, smtpvars, whvars>>

MCIrcConfs == {[rejoin |-> TRUE, buffered |-> TRUE], [rejoin |-> FALSE, buffered |-> FALSE]}

\* The initial state of a component that does not move.
FoPin == foconf = [opAnd |-> TRUE, timer |-> TRUE, count |-> 1]
EsPin == esconf = [udp |-> TRUE, count |-> 1, ticker |-> TRUE]
IrcPin == ircconf = CHOOSE c \in IrcConfs : TRUE
TcPin ==
    /\ tckind = "input"
    /\ tin = [run |-> "accept", stop |-> "no", keep |-> FALSE]
    /\ tout = [conn |-> 0, msg |-> 1, cursor |-> 0, count |-> 0, after |-> 0]
SbPin == sbkind = "output" /\ sbticker = TRUE
SmtpPin == mailConf = [interval |-> 0, len |-> [i \in 1..SmtpMsgs |-> 0]]

Init ==
    /\ component \in {"file", "elasticsearch", "irc", "tcp", "sandbox", "amqp", "smtp", "whisper"}
    /\ IF component = "file" THEN FoInit ELSE FoPin /\ FoInit
    /\ IF component = "elasticsearch" THEN EsInit ELSE EsPin /\ EsInit
    /\ IF component = "irc" THEN IrcInit ELSE IrcPin /\ IrcInit
    /\ IF component = "tcp" THEN TcInit ELSE TcPin /\ TcInit
    /\ IF component = "sandbox" THEN SbInit ELSE SbPin /\ SbInit
    /\ AmInit
    /\ IF component = "smtp" THEN SmtpInit ELSE SmtpPin /\ SmtpInit
    /\ WhInit

\* A step of one component leaves the others alone.
OnlyFile ==
    /\ component = "file"
    /\ UNCHANGED <<component, esvars, ircvars, tcvars, sbvars, amvars, smtpvars, whvars>>
OnlyElasticsearch ==
    /\ component = "elasticsearch"
    /\ UNCHANGED <<component, fovars, ircvars, tcvars, sbvars, amvars, smtpvars, whvars>>
OnlyIrc ==
    /\ component = "irc"
    /\ UNCHANGED <<component, fovars, esvars, tcvars, sbvars, amvars, smtpvars, whvars>>
OnlyTcp ==
    /\ component = "tcp"
    /\ UNCHANGED <<component, fovars, esvars, ircvars, sbvars, amvars, smtpvars, whvars>>
OnlySandbox ==
    /\ component = "sandbox"
    /\ UNCHANGED <<component, fovars, esvars, ircvars, tcvars, amvars, smtpvars, whvars>>
OnlyAmqp ==
    /\ component = "amqp"
    /\ UNCHANGED <<component, fovars, esvars, ircvars, tcvars, sbvars, smtpvars, whvars>>
OnlySmtp ==
    /\ component = "smtp"
    /\ UNCHANGED <<component, fovars, esvars, ircvars, tcvars, sbvars, amvars, whvars>>
OnlyWhisper ==
    /\ component = "whisper"
    /\ UNCHANGED <<component, fovars, esvars, ircvars, tcvars, sbvars, amvars, smtpvars>>

Next ==
    \/ OnlyFile /\ FoNext
    \/ OnlyElasticsearch /\ EsNext
    \/ OnlyIrc /\ IrcNext
    \/ OnlyTcp /\ TcNext
    \/ OnlySandbox /\ SbNext
    \/ OnlyAmqp /\ AmNext
    \/ OnlySmtp /\ SmtpNext
    \/ OnlyWhisper /\ WhNext

\* The variables of the component that moves.
own ==
    CASE component = "file" -> fovars
      [] component = "elasticsearch" -> esvars
      [] component = "irc" -> ircvars
      [] component = "tcp" -> tcvars
      [] component = "sandbox" -> sbvars
      [] component = "amqp" -> amvars
      [] component = "smtp" -> smtpvars
      [] component = "whisper" -> whvars

\* The fairness of the components: as many conjuncts as the one with most needs.
Weak1 ==
    \/ component = "file" /\ FoReceiver
    \/ component = "elasticsearch" /\ sender.pc # "panic" /\ EsSender
    \/ component = "irc" /\ IrcRun
    \/ component = "tcp" /\ TcMain
    \/ component = "sandbox" /\ SbFair
    \/ component = "amqp" /\ AmPlugin(1)
    \/ component = "smtp" /\ SmtpLoop
    \/ component = "whisper" /\ WhRun
Weak2 ==
    \/ component = "file" /\ FoCommitter
    \/ component = "elasticsearch" /\ sender.pc # "panic" /\ SenderTick
    \/ component = "irc" /\ IrcProc
    \/ component = "tcp" /\ TcHandler(1)
    \/ component = "amqp" /\ AmPlugin(2)
    \/ component = "smtp" /\ TimeOut
    \/ component = "whisper" /\ (\E n \in WhNames : WhRunner(n))
Weak3 ==
    \/ component = "elasticsearch" /\ sender.pc # "panic" /\ EsCommitter
    \/ component = "irc" /\ (IrcReconnect \/ IrcRejoin)
    \/ component = "tcp" /\ TcHandler(2)
    \/ component = "amqp" /\ AmInputStops(1)
    \/ component = "smtp" /\ SmtpTick
Weak4 ==
    \/ component = "amqp" /\ (\E g \in 1..AmGens : AmWatch(g))
Strong1 ==
    \/ component = "elasticsearch" /\ sender.pc = "select" /\ SenderStop
    \/ component = "irc" /\ IrcDie

Spec ==
    /\ Init /\ [][Next]_allVars
    /\ WF_own(Weak1 /\ UNCHANGED component)
    /\ WF_own(Weak2 /\ UNCHANGED component)
    /\ WF_own(Weak3 /\ UNCHANGED component)
    /\ WF_own(Weak4 /\ UNCHANGED component)
    /\ SF_own(Strong1 /\ UNCHANGED component)

\* The types of all components.
OutputsTypeOK == FoTypeOK /\ EsTypeOK /\ IrcTypeOK /\ TcTypeOK /\ SbTypeOK /\ AmTypeOK /\ SmtpTypeOK /\ WhTypeOK

\* No output's UpdateCursor passes a message that it still holds, over flushes,
\* retries, reconnections and stops: file, Elasticsearch, TCP and sandbox outputs.
CursorNotAhead ==
    /\ component = "file" => CursorBehindDisk
    /\ component = "elasticsearch" => EsCursorBehind
    /\ component = "tcp" => CursorCovered
    /\ component = "sandbox" => OutputCursorExact


\* A connection of TcpOutput carries whole records in their order, and no handler
\* of TcpInput reads once Run has returned.
TcpStreams == component = "tcp" => NoTornRecord /\ StreamInOrder /\ NoReadAfterRun

\* amqpConnectionHub dials a URL again only when all users of the lost connection
\* have left it, and a plugin closes the connection it was given.
HubShared == component = "amqp" => AmBarrier /\ AmClosesOwn


\* What waits in a batch, a queue or a backlog gets out with time from file, Elasticsearch,
\* IRC and mail output, without a message that follows it.
OutputsFlush ==
    /\ component = "file" => TickFlushes
    /\ component = "elasticsearch" => EsFlushes
    /\ component = "irc" => IrcBacklogSent
    /\ component = "smtp" => SmtpMails
=============================================================================

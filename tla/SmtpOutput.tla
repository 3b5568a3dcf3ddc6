------------------------------ MODULE SmtpOutput -----------------------------
(***************************************************************************)
(* SmtpOutput (plugins/smtp/smtp_output.go).  Without send_interval Run    *)
(* mails each message itself.  With one, Run hands the messages to         *)
(* sendLoop, which mails at once when the last mail is long enough ago and *)
(* otherwise queues until a goroutine that sleeps tells it to.  The bodies *)
(* are base64 in lines of SmtpLine characters.  SendMail and the clock are   *)
(* external.  sendLoop has no end: it stops with the process.              *)
(***************************************************************************)
EXTENDS Integers, Sequences, SequencesExt, FiniteSets, FiniteSetsExt

CONSTANTS SmtpMsgs,       \* bound: messages
          SmtpLens,       \* lengths of their encodings
          SmtpIntervals,  \* send_interval, 0 for none
          SmtpLine        \* BASE64_ENCODING_LINE_LENGTH

VARIABLES mailConf,       \* send_interval and the lengths of the messages
          mailRun,        \* Run: where it is, and the next message
          inMessage,    \* the channel to sendLoop, with room for one
          mailLoop,       \* sendLoop: where it is, and the contents it mails
          mailQueue,      \* queue
          mailTimer,      \* goroutines asleep, and the messages in timeOut
          lastSent,     \* how long ago it is, up to the interval
          mailMails,      \* the mails: their messages, and the time from the one before
          mailFate        \* what Run recycled each pack with

smtpvars == <<mailConf, mailRun, inMessage, mailLoop, mailQueue, mailTimer, lastSent, mailMails, mailFate>>

SmtpInit ==
    /\ mailConf \in [interval : SmtpIntervals, len : [1..SmtpMsgs -> SmtpLens]]
    /\ mailRun = [pc |-> "range", next |-> 1]
    /\ inMessage = <<>> /\ mailQueue = <<>> /\ mailTimer = [asleep |-> 0, fired |-> 0]
    /\ mailLoop = [pc |-> "select", contents |-> <<>>, gap |-> 0]
    /\ lastSent = mailConf.interval
    /\ mailMails = <<>> /\ mailFate = [i \in 1..SmtpMsgs |-> "none"]

Recycle(fate, next) ==
    /\ mailFate' = [mailFate EXCEPT ![mailRun.next] = fate]
    /\ mailRun' = [pc |-> "range", next |-> next]

\* The pack is not encoded, or to nothing: it goes back, with the error or without.
EncodesNothing ==
    /\ mailRun.pc = "range" /\ mailRun.next <= SmtpMsgs
    /\ Recycle("none encoded", mailRun.next + 1)
    /\ UNCHANGED <<mailConf, inMessage, mailLoop, mailQueue, mailTimer, lastSent, mailMails>>

\* SendInterval is zero: sendMail, and a failure is a RetryMessageError: a plugin with a
\* disk buffer gets the message again, of another the pack is recycled and lost.
SendDirect ==
    /\ mailRun.pc = "range" /\ mailRun.next <= SmtpMsgs /\ mailConf.interval = 0
    /\ \/ /\ mailMails' = Append(mailMails, [msgs |-> <<mailRun.next>>, gap |-> 0])
          /\ Recycle("ok", mailRun.next + 1)
       \/ /\ mailMails' = mailMails
          /\ Recycle("retry", mailRun.next) \/ Recycle("retry", mailRun.next + 1)
    /\ UNCHANGED <<mailConf, inMessage, mailLoop, mailQueue, mailTimer, lastSent>>

\* s.inMessage <- contents, and the pack goes back.
HandToLoop ==
    /\ mailRun.pc = "range" /\ mailRun.next <= SmtpMsgs /\ mailConf.interval # 0
    /\ Len(inMessage) < 1 /\ inMessage' = Append(inMessage, mailRun.next)
    /\ Recycle("ok", mailRun.next + 1)
    /\ UNCHANGED <<mailConf, mailLoop, mailQueue, mailTimer, lastSent, mailMails>>

\* The pipeline closes inChan and Run returns.
SmtpReturns ==
    /\ mailRun.pc = "range" /\ mailRun' = [mailRun EXCEPT !.pc = "returned"]
    /\ UNCHANGED <<mailConf, inMessage, mailLoop, mailQueue, mailTimer, lastSent, mailMails, mailFate>>

Due == lastSent >= mailConf.interval

\* A message, while none are queued, after the interval: it is mailed right away.
LoopSendsNow ==
    /\ mailLoop.pc = "select" /\ inMessage # <<>> /\ mailQueue = <<>> /\ Due
    /\ inMessage' = Tail(inMessage)
    /\ mailLoop' = [pc |-> "sending", contents |-> <<Head(inMessage)>>, gap |-> lastSent]
    /\ UNCHANGED <<mailConf, mailRun, mailQueue, mailTimer, lastSent, mailMails, mailFate>>

\* Otherwise it is queued, and the first of a queue starts the goroutine.  At the
\* very end of the interval the clock may say either.
LoopQueues ==
    /\ mailLoop.pc = "select" /\ inMessage # <<>>
    /\ mailQueue # <<>> \/ lastSent <= mailConf.interval
    /\ inMessage' = Tail(inMessage)
    /\ mailQueue' = Append(mailQueue, Head(inMessage))
    /\ mailTimer' = [mailTimer EXCEPT !.asleep = IF mailQueue = <<>> THEN @ + 1 ELSE @]
    /\ UNCHANGED <<mailConf, mailRun, mailLoop, lastSent, mailMails, mailFate>>

\* It has slept until lastSent + tickerDur: timeOut <- true.
TimeOut ==
    /\ mailTimer.asleep > 0 /\ mailTimer.fired < 1 /\ Due
    /\ mailTimer' = [asleep |-> mailTimer.asleep - 1, fired |-> mailTimer.fired + 1]
    /\ UNCHANGED <<mailConf, mailRun, inMessage, mailLoop, mailQueue, lastSent, mailMails, mailFate>>

\* <-timeOut: what is queued is mailed.  queue[:len(queue)-4] needs a queue.
LoopTimedOut ==
    /\ mailLoop.pc = "select" /\ mailTimer.fired > 0
    /\ mailTimer' = [mailTimer EXCEPT !.fired = @ - 1]
    /\ mailLoop' = [pc |-> IF mailQueue = <<>> THEN "panic" ELSE "sending", contents |-> mailQueue,
                  gap |-> lastSent]
    /\ mailQueue' = <<>>
    /\ UNCHANGED <<mailConf, mailRun, inMessage, lastSent, mailMails, mailFate>>

\* sendMail returns; an error is logged and the contents are lost.
LoopSent ==
    /\ mailLoop.pc = "sending"
    /\ mailMails' = Append(mailMails, [msgs |-> mailLoop.contents, gap |-> mailLoop.gap])
    /\ lastSent' = 0
    /\ mailLoop' = [pc |-> "select", contents |-> <<>>, gap |-> 0]
    /\ UNCHANGED <<mailConf, mailRun, inMessage, mailQueue, mailTimer, mailFate>>

SmtpTick ==
    /\ lastSent < mailConf.interval /\ lastSent' = lastSent + 1
    /\ UNCHANGED <<mailConf, mailRun, inMessage, mailLoop, mailQueue, mailTimer, mailMails, mailFate>>

SmtpRun == EncodesNothing \/ SendDirect \/ HandToLoop
SmtpLoop == LoopSendsNow \/ LoopQueues \/ LoopTimedOut \/ LoopSent
SmtpIdle == mailRun.pc = "returned" /\ UNCHANGED smtpvars
SmtpNext == SmtpRun \/ SmtpReturns \/ SmtpLoop \/ TimeOut \/ SmtpTick \/ SmtpIdle

\* sendLoop and the sleeping goroutine go on, and time passes; Run need not.
SmtpFairness == WF_smtpvars(SmtpLoop) /\ WF_smtpvars(TimeOut) /\ WF_smtpvars(SmtpTick)

SmtpSpec == SmtpInit /\ [][SmtpNext]_smtpvars /\ SmtpFairness
------------------------------------------------------------------------------
(* The body of a mail.                                                     *)

Source == (SmtpLine \div 4) * 3     \* BASE64_SOURCE_CHARS_PER_LINE
EncodedLen(n) == 4 * ((n + 2) \div 3)

FullLen(n) ==
    LET enc == EncodedLen(n)
    IN  IF enc > SmtpLine THEN enc + ((enc - 1) \div SmtpLine) * 2 ELSE enc

\* encodeFullMsg: what is written at each place after the header.
encodeFullMsg(n) ==
    LET lines == IF n = 0 THEN 0 ELSE 1 + (n - 1) \div Source
        from(i) == i * (SmtpLine + 2)
        chunk(i) == Min({n, (i + 1) * Source}) - i * Source
        text(p) == \E i \in 0..(lines - 1) : p \in from(i)..(from(i) + EncodedLen(chunk(i)) - 1)
        crlf(p) == \E i \in 0..(lines - 2) : p \in (from(i) + SmtpLine)..(from(i) + SmtpLine + 1)
    IN  [p \in 0..Max({FullLen(n), lines * (SmtpLine + 2)}) |->
            IF text(p) THEN "text" ELSE IF crlf(p) THEN "crlf" ELSE "unwritten"]

MailLen(mail) == FoldSeq(LAMBDA i, n : n + mailConf.len[i], 4 * (Len(mail.msgs) - 1), mail.msgs)
------------------------------------------------------------------------------
(* Properties.                                                             *)

SmtpTypeOK ==
    /\ mailTimer.asleep \in 0..1 /\ mailTimer.fired \in 0..1 /\ mailLoop.pc \in {"select", "sending"}
    /\ Len(inMessage) <= 1 /\ lastSent \in 0..mailConf.interval

Handed == SelectSeq([i \in 1..(mailRun.next - 1) |-> i], LAMBDA i : mailFate[i] = "ok")

\* Each message that Run recycled with success is in one mail, in the mail under
\* way, queued or in the channel, in its order, and nothing else is
\* (smtp_output.go:127-150, 225-260).
SmtpInOrder ==
    FlattenSeq([k \in DOMAIN mailMails |-> mailMails[k].msgs])
        \o mailLoop.contents \o mailQueue \o inMessage = Handed

\* "Set a minimum time interval between each email" (smtp_output.go:60-63): from the
\* end of a mail to the begin of the next one.
IntervalKept ==
    \A k \in 2..Len(mailMails) : mailMails[k].gap >= mailConf.interval

\* The goroutine of an earlier queue never tells sendLoop to mail an empty one, and
\* what is queued has one goroutine to come (smtp_output.go:238-257).
TimerHasQueue == mailTimer.asleep + mailTimer.fired = IF mailQueue = <<>> THEN 0 ELSE 1

\* The buffer of encodeFullMsg, sized before the lines are laid out, is filled by
\* them to its last byte and not beyond (smtp_output.go:153-189).
MailFilled ==
    \A k \in DOMAIN mailMails : LET n == MailLen(mailMails[k]) IN
        \A p \in DOMAIN encodeFullMsg(n) :
            (encodeFullMsg(n)[p] # "unwritten") <=> (p < FullLen(n))

\* What is queued is mailed, while the process lasts (smtp_output.go:242-259).
SmtpMails == mailQueue # <<>> ~> mailQueue = <<>>
=============================================================================

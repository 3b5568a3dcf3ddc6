----------------------------- MODULE TcpPlugins -----------------------------
(***************************************************************************)
(* TcpInput and TcpOutput (plugins/tcp/).  One behaviour is about one of   *)
(* them, chosen in Init.                                                   *)
(*                                                                         *)
(* The input accepts connections, each with a goroutine of its own that    *)
(* alternates between a look at stopChan and SplitStream, which a read     *)
(* deadline ends in time; Stop closes the listener and then stopChan.      *)
(*                                                                         *)
(* The output writes one record after another on a connection the network  *)
(* may break at any time.  A record written and lost with its connection   *)
(* looks no different to it from one the peer has read.  A stream is what  *)
(* went over one connection: records, the last of them perhaps in part.    *)
(***************************************************************************)
EXTENDS Integers, Sequences, FiniteSets

CONSTANTS
  TcConns,      \* connections made to the input
  TcRecs,       \* bound: records sent over each of them, and given to the output
  TcDials,      \* bound: connections the output makes
  TcReconnect   \* the output's reconnect_after, one per behaviour

ASSUME TcAssumption == TcRecs \in Nat /\ TcDials \in Nat /\ TcReconnect \subseteq Nat

VARIABLES
  tckind,   \* "input" or "output"
  tin,      \* the input: [run, stop, keep]: Run's place, what Stop has done, whether
            \* keep_alive is asked for on a listener whose connections have none
  tcon,     \* per connection to the input: its handler's place
  tcsent,   \* per connection to the input: records still to come
  tcgot,    \* records the input has delivered
  tout,     \* the output: [conn, msg, cursor, count, after]
  tcstream, \* what the output wrote on each connection it made
  tcopen,   \* connections of the output that are neither closed nor broken
  tclost,   \* messages that were in flight when their connection broke
  tcdrop    \* messages that could not be encoded

tcvars == <<tckind, tin, tcon, tcsent, tcgot, tout, tcstream, tcopen, tclost, tcdrop>>

tcInVars == <<tin, tcon, tcsent, tcgot>>
tcOutVars == <<tout, tcstream, tcopen, tclost, tcdrop>>

TcInit ==
  /\ tckind \in {"input", "output"}
  /\ tin \in [run : {"accept"}, stop : {"no"}, keep : IF tckind = "input" THEN BOOLEAN ELSE {FALSE}]
  /\ tcon = [c \in TcConns |-> "none"]
  /\ tcsent = [c \in TcConns |-> IF tckind = "input" THEN TcRecs ELSE 0]
  /\ tcgot = 0
  /\ \E r \in TcReconnect : tout = [conn |-> 0, msg |-> 1, cursor |-> 0, count |-> 0, after |-> r]
  /\ tcstream = <<>> /\ tcopen = {} /\ tclost = {} /\ tcdrop = {}

-----------------------------------------------------------------------------
(* TcpInput.                                                               *)

\* External: a client connects while the listener is open.
Connect(c) ==
  /\ tckind = "input" /\ tcon[c] = "none" /\ tin.stop = "no"
  /\ tcon' = [tcon EXCEPT ![c] = "backlog"]
  /\ UNCHANGED <<tckind, tin, tcsent, tcgot, tcOutVars>>

\* Run accepts a connection and starts its handler; keep_alive on a connection
\* that is none of TCP's ends Run at once, whatever the other handlers do.
Accept(c) ==
  /\ tckind = "input" /\ tin.run = "accept" /\ tcon[c] = "backlog" /\ tin.stop = "no"
  /\ \/ ~tin.keep /\ tcon' = [tcon EXCEPT ![c] = "top"] /\ UNCHANGED tin
     \/ tin.keep /\ tin' = [tin EXCEPT !.run = "failed"] /\ UNCHANGED tcon
  /\ UNCHANGED <<tckind, tcsent, tcgot, tcOutVars>>

\* Accept fails on the closed listener: Run waits for the handlers.
AcceptFails ==
  /\ tckind = "input" /\ tin.run = "accept" /\ tin.stop # "no"
  /\ tin' = [tin EXCEPT !.run = "wait"]
  /\ UNCHANGED <<tckind, tcon, tcsent, tcgot, tcOutVars>>


\* handleConnection looks at stopChan before every SplitStream.
HandlerTop(c) ==
  /\ tckind = "input" /\ tcon[c] = "top"
  /\ tcon' = [tcon EXCEPT ![c] = IF tin.stop = "both" THEN "close" ELSE "read"]
  /\ UNCHANGED <<tckind, tin, tcsent, tcgot, tcOutVars>>

\* SplitStream: records are delivered until the deadline, the end of the stream or
\* a broken connection.
HandlerReads(c) ==
  /\ tckind = "input" /\ tcon[c] = "read"
  /\ \/ /\ tcsent[c] > 0
        /\ tcsent' = [tcsent EXCEPT ![c] = @ - 1]
        /\ tcgot' = tcgot + 1
        /\ UNCHANGED tcon
     \/ tcon' = [tcon EXCEPT ![c] = "top"] /\ UNCHANGED <<tcsent, tcgot>>
     \/ tcon' = [tcon EXCEPT ![c] = "close"] /\ UNCHANGED <<tcsent, tcgot>>
  /\ UNCHANGED <<tckind, tin, tcOutVars>>

\* The deferred clean-up: the connection and the wait group first, the deliverer
\* and the splitter runner after.
HandlerCloses(c) ==
  /\ tckind = "input"
  /\ \/ tcon[c] = "close" /\ tcon' = [tcon EXCEPT ![c] = "counted"]
     \/ tcon[c] = "counted" /\ tcon' = [tcon EXCEPT ![c] = "ended"]
  /\ UNCHANGED <<tckind, tin, tcsent, tcgot, tcOutVars>>

\* wg.Wait: every handler has counted itself out.
Waited == tin.run = "wait" /\ \A c \in TcConns : tcon[c] \in {"none", "backlog", "counted", "ended"}

TcReturns ==
  /\ tckind = "input" /\ Waited
  /\ tin' = [tin EXCEPT !.run = "done"]
  /\ UNCHANGED <<tckind, tcon, tcsent, tcgot, tcOutVars>>

\* Stop: the listener, then stopChan.
TcStop ==
  /\ tckind = "input"
  /\ \/ tin.stop = "no" /\ tin' = [tin EXCEPT !.stop = "listener"]
     \/ tin.stop = "listener" /\ tin' = [tin EXCEPT !.stop = "both"]
  /\ UNCHANGED <<tckind, tcon, tcsent, tcgot, tcOutVars>>

-----------------------------------------------------------------------------
(* TcpOutput.ProcessMessage, called again for the same message when it     *)
(* returns a RetryMessageError.                                            *)

TcWorking == tckind = "output" /\ tout.msg <= TcRecs

\* connect succeeds; a failed attempt changes nothing and is retried.
Dial ==
  /\ TcWorking /\ tout.conn = 0 /\ Len(tcstream) < TcDials
  /\ tcstream' = Append(tcstream, <<>>)
  /\ tcopen' = tcopen \cup {Len(tcstream) + 1}
  /\ tout' = [tout EXCEPT !.conn = Len(tcstream) + 1]
  /\ UNCHANGED <<tckind, tcInVars, tclost, tcdrop>>

\* The message cannot be encoded and is dropped.
EncodeFails ==
  /\ TcWorking /\ tout.conn # 0
  /\ tcdrop' = tcdrop \cup {tout.msg}
  /\ tout' = [tout EXCEPT !.msg = @ + 1]
  /\ UNCHANGED <<tckind, tcInVars, tcstream, tcopen, tclost>>

\* What Write leaves on a connection: nothing once it is broken.
Wrote(piece) ==
  tcstream' = IF tout.conn \in tcopen
              THEN [tcstream EXCEPT ![tout.conn] = Append(@, piece)] ELSE tcstream

cleanupConnNot == /\ tout' = tout /\ tcopen' = tcopen

\* cleanupConn after a failed Write: the next attempt dials.
cleanupConn == /\ tout' = [tout EXCEPT !.conn = 0]
               /\ tcopen' = tcopen \ {tout.conn}

\* Write fails or is cut short: nothing, a part, or all of the record is out.
WriteFails ==
  /\ TcWorking /\ tout.conn # 0
  /\ \/ UNCHANGED tcstream
     \/ tout.conn \in tcopen /\ Wrote([msg |-> tout.msg, whole |-> FALSE])
     \/ tout.conn \in tcopen /\ Wrote([msg |-> tout.msg, whole |-> TRUE])
  /\ cleanupConn
  /\ UNCHANGED <<tckind, tcInVars, tclost, tcdrop>>

\* The cursor given to UpdateCursor.
CursorAfter == tout.msg

\* Write succeeds, also on a connection whose break is not known yet: the record
\* counts, the cursor moves, and after reconnect_after records the connection is
\* closed.
WriteOk ==
  /\ TcWorking /\ tout.conn # 0
  /\ Wrote([msg |-> tout.msg, whole |-> TRUE])
  /\ tclost' = IF tout.conn \in tcopen THEN tclost ELSE tclost \cup {tout.msg}
  /\ LET n == tout.count + 1
         again == tout.after > 0 /\ n % tout.after = 0 IN
       /\ tout' = [tout EXCEPT !.msg = @ + 1, !.cursor = CursorAfter, !.count = n,
                               !.conn = IF again THEN 0 ELSE @]
       /\ tcopen' = IF again THEN tcopen \ {tout.conn} ELSE tcopen
  /\ UNCHANGED <<tckind, tcInVars, tcdrop>>

\* External: the connection breaks; the peer has read a prefix of what was written.
Breaks ==
  /\ tckind = "output" /\ tout.conn \in tcopen
  /\ \E k \in 0..Len(tcstream[tout.conn]) :
       /\ tcstream' = [tcstream EXCEPT ![tout.conn] = SubSeq(@, 1, k)]
       /\ tclost' = tclost \cup {tcstream[tout.conn][j].msg : j \in (k + 1)..Len(tcstream[tout.conn])}
  /\ tcopen' = tcopen \ {tout.conn}
  /\ UNCHANGED <<tckind, tcInVars, tout, tcdrop>>

TcIdle == UNCHANGED tcvars

TcNext ==
  \/ \E c \in TcConns : Connect(c) \/ Accept(c) \/ HandlerTop(c) \/ HandlerReads(c)
                        \/ HandlerCloses(c)
  \/ AcceptFails \/ TcReturns \/ TcStop
  \/ Dial \/ EncodeFails \/ WriteFails \/ WriteOk \/ Breaks
  \/ TcIdle

\* Run and Stop go on, and a read returns within its deadline.
TcMain == AcceptFails \/ TcReturns \/ (tin.stop = "listener" /\ TcStop)
TcHandler(c) == HandlerTop(c) \/ HandlerReads(c) \/ HandlerCloses(c)

TcFairness == WF_tcvars(TcMain) /\ \A c \in TcConns : WF_tcvars(TcHandler(c))

TcSpec == TcInit /\ [][TcNext]_tcvars /\ TcFairness
-----------------------------------------------------------------------------
TcTypeOK ==
  /\ tckind \in {"input", "output"}
  /\ tin \in [run : {"accept", "wait", "done", "failed"}, stop : {"no", "listener", "both"},
              keep : BOOLEAN]
  /\ tcon \in [TcConns -> {"none", "backlog", "top", "read", "close", "counted", "ended"}]
  /\ tcgot \in 0..(TcRecs * Cardinality(TcConns))
  /\ tout.conn \in 0..Len(tcstream) /\ tout.msg \in 1..(TcRecs + 1)
  /\ tcopen \subseteq 1..Len(tcstream)

\* When Run has returned on its own no handler reads any more, so nothing is handed
\* to the input's decoder after the input is gone (tcp_input.go:185-189).
NoReadAfterRun ==
  tin.run = "done" => \A c \in TcConns : tcon[c] \in {"none", "backlog", "counted", "ended"}

\* A record sent in part is the last thing on its connection: the retry does not
\* put the same record behind its own torn beginning (tcp_output.go:163-168).
NoTornRecord ==
  \A c \in 1..Len(tcstream) : \A k \in 1..(Len(tcstream[c]) - 1) : tcstream[c][k].whole

\* The cursor passes a message only when it is out whole, could not be encoded, or
\* was lost with its connection: a failed or truncated Write is retried before the
\* cursor moves, also across reconnections (tcp_output.go:163-177).
CursorCovered ==
  \A m \in 1..tout.cursor :
    \/ m \in tcdrop \cup tclost
    \/ \E c \in 1..Len(tcstream) : \E k \in 1..Len(tcstream[c]) :
         tcstream[c][k] = [msg |-> m, whole |-> TRUE]

\* Each connection carries messages in order and none twice: what is retried is
\* retried on another connection (tcp_output.go:143-180).
StreamInOrder ==
  \A c \in 1..Len(tcstream) : \A k \in 1..(Len(tcstream[c]) - 1) :
    tcstream[c][k].msg < tcstream[c][k + 1].msg

\* A stopped input comes to an end: the accept loop sees the closed listener and
\* every handler sees stopChan within a read deadline (tcp_input.go:142-197).
TcpStops == (tin.stop = "listener" /\ ~tin.keep) ~> (tin.run = "done")
=============================================================================

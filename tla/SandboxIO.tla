------------------------------ MODULE SandboxIO ------------------------------
(***************************************************************************)
(* The sandboxed input, output and encoder (sandbox/plugins/).  The script *)
(* is external: it runs, may inject, and returns zero, a negative or a     *)
(* positive value; a stopped one returns positive at its next instruction. *)
(* One behaviour is about one of the three, chosen in Init.                *)
(*                                                                         *)
(* SandboxInput: Run's goroutine against Stop, called by hekad's main      *)
(* goroutine.  SandboxOutput: messages from InChan or a disk queue, where  *)
(* the cursor follows every one of them.  SandboxEncoder: one Encode after *)
(* another, with the injected flag and the output kept between calls.      *)
(***************************************************************************)
EXTENDS Integers, Sequences, FiniteSets

CONSTANTS
  SbPool,      \* packs of the input's pool
  SbMsgs,      \* bound: messages handed to the output or the encoder
  SbTicks      \* bound: timer events

ASSUME SbAssumption == SbPool \in Nat \ {0} /\ SbMsgs \in Nat /\ SbTicks \in Nat

VARIABLES
  sbkind,    \* "input", "output" or "encoder"
  sbpc,      \* Run's or Encode's place
  sbfree,    \* input: packs in the pool
  sbtaken,   \* input: a pack is held by the inject callback
  sbrouted,  \* input: packs the router holds
  sbstop,    \* input: what Stop has done: "no", "sandbox" (sb.Stop), "both" (stopChan closed)
  sbticker,  \* a ticker is configured
  sbwait,    \* output: messages not yet taken;  encoder: messages not yet encoded
  sbnow,     \* the message in work, 0 for none
  sbcursor,  \* output: the queue cursor
  sbgiven,   \* output: messages recycled, in order
  sbenc,     \* encoder: [injected, output]
  sbres,     \* encoder: for each message, the message its output was made from, 0 for none
  sbleft     \* bound: timer events left

sbvars == <<sbkind, sbpc, sbfree, sbtaken, sbrouted, sbstop, sbticker, sbwait, sbnow, sbcursor,
            sbgiven, sbenc, sbres, sbleft>>

sbInputVars == <<sbfree, sbtaken, sbrouted, sbstop>>
sbOutputVars == <<sbcursor, sbgiven>>
sbEncoderVars == <<sbenc, sbres>>

SbInit ==
  /\ sbkind \in {"input", "output", "encoder"}
  /\ sbpc = IF sbkind = "input" THEN "script" ELSE "idle"
  /\ sbfree = SbPool /\ sbtaken = FALSE /\ sbrouted = 0 /\ sbstop = "no"
  /\ sbticker \in BOOLEAN
  /\ sbwait = (IF sbkind = "input" THEN 0 ELSE SbMsgs) /\ sbnow = 0
  /\ sbcursor = 0 /\ sbgiven = <<>>
  /\ sbenc = [injected |-> FALSE, output |-> 0] /\ sbres = <<>>
  /\ sbleft = SbTicks

-----------------------------------------------------------------------------
(* SandboxInput.                                                           *)

\* The script injects: the callback waits for a pack.
InputTakes ==
  /\ sbkind = "input" /\ sbpc = "script" /\ ~sbtaken /\ sbfree > 0 /\ sbstop = "no"
  /\ sbfree' = sbfree - 1 /\ sbtaken' = TRUE
  /\ UNCHANGED <<sbkind, sbpc, sbrouted, sbstop, sbticker, sbwait, sbnow, sbOutputVars,
                 sbEncoderVars, sbleft>>

\* The payload does not unmarshal, or hekad aborts, and the pack is recycled;
\* or the router takes it.
InputInjected ==
  /\ sbkind = "input" /\ sbtaken
  /\ sbtaken' = FALSE
  /\ \/ sbfree' = sbfree + 1 /\ UNCHANGED sbrouted
     \/ sbrouted' = sbrouted + 1 /\ UNCHANGED sbfree
  /\ UNCHANGED <<sbkind, sbpc, sbstop, sbticker, sbwait, sbnow, sbOutputVars, sbEncoderVars,
                 sbleft>>

\* External: the pipeline is done with a pack.
InputRecycled ==
  /\ sbkind = "input" /\ sbrouted > 0
  /\ sbrouted' = sbrouted - 1 /\ sbfree' = sbfree + 1
  /\ UNCHANGED <<sbkind, sbpc, sbtaken, sbstop, sbticker, sbwait, sbnow, sbOutputVars,
                 sbEncoderVars, sbleft>>

\* ProcessMessage returns.  Polling mode (zero or negative): without a ticker the
\* single run is over, with one Run waits for it or for the stop.  A positive
\* value, as after sb.Stop, ends Run.  An endless script returns only when stopped.
InputReturns ==
  /\ sbkind = "input" /\ sbpc = "script" /\ ~sbtaken
  /\ \/ sbstop = "no" /\ sbpc' = IF sbticker THEN "poll" ELSE "end"
     \/ sbpc' = "end"
  /\ UNCHANGED <<sbkind, sbInputVars, sbticker, sbwait, sbnow, sbOutputVars, sbEncoderVars,
                 sbleft>>

\* The poll: a tick starts the script again, the closed stopChan ends Run.
InputPolls ==
  /\ sbkind = "input" /\ sbpc = "poll"
  /\ \/ sbleft > 0 /\ sbleft' = sbleft - 1 /\ sbpc' = "script"
     \/ sbstop = "both" /\ sbpc' = "end" /\ UNCHANGED sbleft
  /\ UNCHANGED <<sbkind, sbInputVars, sbticker, sbwait, sbnow, sbOutputVars, sbEncoderVars>>

\* Stop: first the sandbox, under the report lock and unless destroyed already,
\* then the channel.
InputStopSteps ==
  \/ sbstop = "no" /\ sbstop' = "sandbox"
  \/ sbstop = "sandbox" /\ sbstop' = "both"

InputStop ==
  /\ sbkind = "input"
  /\ InputStopSteps
  /\ UNCHANGED <<sbkind, sbpc, sbfree, sbtaken, sbrouted, sbticker, sbwait, sbnow, sbOutputVars,
                 sbEncoderVars, sbleft>>

-----------------------------------------------------------------------------
(* SandboxOutput.                                                          *)

OutputTakes ==
  /\ sbkind = "output" /\ sbpc = "idle" /\ sbwait > 0
  /\ sbnow' = SbMsgs - sbwait + 1 /\ sbwait' = sbwait - 1
  /\ sbpc' = "script"
  /\ UNCHANGED <<sbkind, sbInputVars, sbticker, sbOutputVars, sbEncoderVars, sbleft>>

\* ProcessMessage returns: the cursor moves and the pack is recycled, whatever the
\* value; a positive one is fatal.
OutputReturns ==
  /\ sbkind = "output" /\ sbpc = "script"
  /\ sbcursor' = sbnow
  /\ sbgiven' = Append(sbgiven, sbnow)
  /\ sbpc' \in {"idle", "end"}
  /\ sbnow' = 0
  /\ UNCHANGED <<sbkind, sbInputVars, sbticker, sbwait, sbEncoderVars, sbleft>>

\* A timer event, fatal unless it returns zero.
OutputTick ==
  /\ sbkind = "output" /\ sbpc = "idle" /\ sbticker /\ sbleft > 0
  /\ sbleft' = sbleft - 1
  /\ sbpc' \in {"idle", "end"}
  /\ UNCHANGED <<sbkind, sbInputVars, sbticker, sbwait, sbnow, sbOutputVars, sbEncoderVars>>

\* InChan is closed and empty.
OutputEnds ==
  /\ sbkind = "output" /\ sbpc = "idle" /\ sbwait = 0
  /\ sbpc' = "end"
  /\ UNCHANGED <<sbkind, sbInputVars, sbticker, sbwait, sbnow, sbOutputVars, sbEncoderVars,
                 sbleft>>

-----------------------------------------------------------------------------
(* SandboxEncoder.                                                         *)

\* Encode forgets the injection of the call before.
EncodeStarts == sbenc' = [sbenc EXCEPT !.injected = FALSE]

EncodeTakes ==
  /\ sbkind = "encoder" /\ sbpc = "idle" /\ sbwait > 0
  /\ sbnow' = SbMsgs - sbwait + 1 /\ sbwait' = sbwait - 1
  /\ EncodeStarts
  /\ sbpc' = "script"
  /\ UNCHANGED <<sbkind, sbInputVars, sbticker, sbOutputVars, sbres, sbleft>>

\* The script injects: the callback keeps a copy of the payload.
EncodeInjects ==
  /\ sbkind = "encoder" /\ sbpc = "script"
  /\ sbenc' = [injected |-> TRUE, output |-> sbnow]
  /\ UNCHANGED <<sbkind, sbpc, sbInputVars, sbticker, sbwait, sbnow, sbOutputVars, sbres, sbleft>>

\* The script returns.  Zero without an injection: the message itself is encoded,
\* or that fails.  Positive: fatal; -2: nothing to encode; other negative: failed.
EncodeReturns ==
  /\ sbkind = "encoder" /\ sbpc = "script"
  /\ \/ /\ sbenc.injected
        /\ sbres' = Append(sbres, sbenc.output)
        /\ UNCHANGED sbenc
     \/ /\ ~sbenc.injected
        /\ sbenc' = [sbenc EXCEPT !.output = sbnow]
        /\ sbres' = Append(sbres, sbnow)
     \/ sbres' = Append(sbres, 0) /\ UNCHANGED sbenc
  /\ sbnow' = 0 /\ sbpc' = "idle"
  /\ UNCHANGED <<sbkind, sbInputVars, sbticker, sbwait, sbOutputVars, sbleft>>

SbIdle == UNCHANGED sbvars

SbNext ==
  \/ InputTakes \/ InputInjected \/ InputRecycled \/ InputReturns \/ InputPolls \/ InputStop
  \/ OutputTakes \/ OutputReturns \/ OutputTick \/ OutputEnds
  \/ EncodeTakes \/ EncodeInjects \/ EncodeReturns
  \/ SbIdle

\* Goroutines run; a stopped script returns; Stop, once called, goes on.
SbFair == \/ InputInjected \/ (sbstop # "no" /\ InputReturns) \/ InputPolls
          \/ (sbstop # "no" /\ InputStop)

SbFairness == WF_sbvars(SbFair)

SbSpec == SbInit /\ [][SbNext]_sbvars /\ SbFairness
-----------------------------------------------------------------------------
SbTypeOK ==
  /\ sbkind \in {"input", "output", "encoder"}
  /\ sbpc \in {"idle", "script", "poll", "end"}
  /\ sbfree \in 0..SbPool /\ sbrouted \in 0..SbPool /\ sbtaken \in BOOLEAN
  /\ sbstop \in {"no", "sandbox", "both"}
  /\ sbwait \in 0..SbMsgs /\ sbnow \in 0..SbMsgs /\ sbcursor \in 0..SbMsgs
  /\ sbenc \in [injected : BOOLEAN, output : 0..SbMsgs]

\* The sandboxed input loses no pack: whatever its script returns and whenever it
\* is stopped, each is free, in the callback's hand or in the pipeline
\* (sandbox_input.go:106-132).
InputPacksAccounted ==
  sbkind = "input" => SbPool = sbfree + sbrouted + (IF sbtaken THEN 1 ELSE 0)

\* The sandboxed output moves its cursor to exactly the messages it has recycled,
\* each once and in order, also when the script ends it (sandbox_output.go:130-146).
OutputCursorExact ==
  sbkind = "output" => /\ sbgiven = [k \in 1..Len(sbgiven) |-> k]
                       /\ sbcursor = Len(sbgiven)

\* What Encode returns was made from the message it was given, not from an earlier
\* one, although the injected flag and the output outlive the call
\* (sandbox_encoder.go:173-189, 213).
EncodesOwn == \A k \in 1..Len(sbres) : sbres[k] \in {0, k}

\* A stopped sandboxed input returns from Run, from its script or from its poll, in
\* whatever order sb.Stop, the ticker and the closing of stopChan are seen
\* (sandbox_input.go:137-190).
SbInputStops == (sbkind = "input" /\ sbstop = "sandbox") ~> (sbpc = "end")
=============================================================================

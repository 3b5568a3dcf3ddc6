----------------------------- MODULE MultiDecoder ----------------------------
(***************************************************************************)
(* pipeline/multidecoder.go.  A MultiDecoder tries its subdecoders on a    *)
(* pack, until one wins or all of them in turn, and says of the packs that *)
(* come out whether their MsgBytes encode their Message.  The order in     *)
(* which MultiDecoders are made is in ConfigLoad.                          *)
(***************************************************************************)
EXTENDS Integers, Sequences

CONSTANTS MMaxSubs,   \* length of a list of subdecoders
          MMaxPacks   \* packs that come of one

VARIABLES
    mconf,      \* all: cascade_strategy is "all"; encodes: [1..n -> EncodesMsgBytes]
    mpc,        \* "decode", "delivered", "failed"
    msub,       \* the subdecoder whose turn it is
    mpacks,     \* the packs before it: version of Message, of MsgBytes; TrustMsgBytes
    mout,       \* the packs it has let through
    anyMatch,
    mhist       \* history: an encoding subdecoder has left a pack as it found it, or failed

mvars == <<mconf, mpc, msub, mpacks, mout, anyMatch, mhist>>

NewMPack == [msg |-> 0, bytes |-> 0, trust |-> FALSE]

MInit ==
    /\ mconf \in [all : BOOLEAN, encodes : UNION {[1..n -> BOOLEAN] : n \in 1..MMaxSubs}]
    /\ mpc = "decode" /\ msub = 1
    /\ mpacks = <<NewMPack>> /\ mout = <<>> /\ anyMatch = FALSE /\ mhist = FALSE

------------------------------------------------------------------------------
(* Decode.                                                                 *)

MSubs == DOMAIN mconf.encodes
encodes(i) == mconf.encodes[i]


\* Init: an earlier subdecoder encodes and the last one does not.
neverTrustEncodes ==
    mconf.all /\ ~encodes(Len(mconf.encodes)) /\ \E i \in MSubs : encodes(i)

\* What a subdecoder makes of a pack.  One that encodes leaves Message and
\* MsgBytes alike, or changes Message and says so; the others change Message.
SubResult(i, p) ==
    IF encodes(i)
    THEN {[msg |-> p.msg + 1, bytes |-> p.msg + 1, trust |-> TRUE],
          [p EXCEPT !.msg = @ + 1, !.trust = FALSE], p}
    ELSE {[p EXCEPT !.msg = @ + 1]}

\* A failed subdecoder may have encoded the original before it failed.
SubFailure(i, p) ==
    IF encodes(i) THEN {p, [msg |-> p.msg + 1, bytes |-> p.msg + 1, trust |-> TRUE]} ELSE {p}

\* One call of a subdecoder's Decode with the next of the packs: it succeeds,
\* perhaps with an extra pack, or fails, and the pack is kept for the next one.
SubDecode ==
    /\ mpc = "decode" /\ mpacks # <<>>
    /\ mpacks' = Tail(mpacks)
    /\ \/ \E r \in SubResult(msub, Head(mpacks)) :
              /\ \/ mout' = Append(mout, r)
                 \/ /\ encodes(msub) /\ Len(mout) + Len(mpacks) < MMaxPacks
                    /\ mout' = mout \o <<r, [msg |-> 1, bytes |-> 1, trust |-> TRUE]>>
              /\ anyMatch' = TRUE
              /\ mhist' = (mhist \/ (encodes(msub) /\ r = Head(mpacks)))
       \/ \E r \in SubFailure(msub, Head(mpacks)) :
              /\ mout' = Append(mout, r)
              /\ mhist' = (mhist \/ encodes(msub))
              /\ UNCHANGED anyMatch
    /\ UNCHANGED <<mconf, mpc, msub>>

\* Which packs Decode returns, and what it does to TrustMsgBytes.
MReturn(packs) ==
    /\ mpc' = "delivered"
    /\ mout' = IF neverTrustEncodes
               THEN [k \in DOMAIN packs |-> [packs[k] EXCEPT !.trust = FALSE]] ELSE packs
    /\ UNCHANGED <<mconf, msub, mpacks, anyMatch, mhist>>

\* The end of a subdecoder's turn.  First-wins returns what the first success
\* gave; else the next one gets the packs; at the end it is a failure unless
\* some subdecoder succeeded.
NextSub ==
    /\ mpc = "decode" /\ mpacks = <<>>
    /\ IF anyMatch /\ ~mconf.all THEN MReturn(mout)
       ELSE IF msub < Len(mconf.encodes)
       THEN /\ msub' = msub + 1 /\ mpacks' = mout /\ mout' = <<>>
            /\ UNCHANGED <<mconf, mpc, anyMatch, mhist>>
       ELSE IF anyMatch THEN MReturn(mout)
       ELSE mpc' = "failed" /\ UNCHANGED <<mconf, msub, mpacks, mout, anyMatch, mhist>>

MEnded == mpc \in {"delivered", "failed"}
MNext == SubDecode \/ NextSub \/ (MEnded /\ UNCHANGED mvars)

MSpec == MInit /\ [][MNext]_mvars
------------------------------------------------------------------------------
(* Properties.                                                             *)

MTypeOK ==
    /\ mpc \in {"decode", "delivered", "failed"} /\ msub \in MSubs
    /\ Len(mpacks) + Len(mout) \in 1..MMaxPacks

\* A delivered pack whose MsgBytes are trusted has MsgBytes that encode its
\* Message, in every mixture of subdecoders that encode and that do not, as long
\* as every encoding subdecoder has changed what it was given.
TrustedBytesCurrent ==
    mpc = "delivered" /\ ~mhist =>
        \A k \in DOMAIN mout : mout[k].trust => mout[k].bytes = mout[k].msg

\* With first-wins one subdecoder's success reaches the packs and no other's.
FirstWins ==
    mpc = "delivered" /\ ~mconf.all /\ ~mhist =>
        \A k \in DOMAIN mout : mout[k].msg <= 1

\* The comment in Init: the embedded decoders leave MsgBytes and TrustMsgBytes in
\* the right state in all cases but the one that neverTrustEncodes is about.
TrustedBytesAlways ==
    mpc = "delivered" => \A k \in DOMAIN mout : mout[k].trust => mout[k].bytes = mout[k].msg
==============================================================================

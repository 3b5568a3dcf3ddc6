------------------------------ MODULE Decoders -------------------------------
(***************************************************************************)
(* How an input's goroutines hand packs to decoders (pipeline/             *)
(* plugin_runners.go, config.go): through the channel of a DecoderRunner   *)
(* with a goroutine of its own, or by calling Decode themselves            *)
(* (synchronous_decode).  Packs are counted: they come from the pool, and  *)
(* the router puts them back.  The two decoders that make several messages *)
(* of one, SandboxDecoder and StatsToFieldsDecoder, ask the same pool for  *)
(* more packs with NewPack.  sandboxAbort frees those that wait for ever.  *)
(***************************************************************************)
EXTENDS Integers, FiniteSets, FiniteSetsExt

CONSTANTS DHandlers,    \* goroutines of the input, each with its Deliverer
          DPoolSizes,   \* values of poolsize
          DChanSize,    \* plugin_chansize: of a decoder's and of the router's channel
          DMaxOut       \* messages a decoder makes of one

ASSUME DecodersAssumption ==
    DPoolSizes \subseteq Nat \ {0} /\ DChanSize \in Nat \ {0} /\ DMaxOut \in Nat \ {0}

VARIABLES
    dconf,     \* sync: synchronous_decode; send: send_decode_failures; kind of decoder;
               \*   pool: poolsize; own: a Deliverer each, and not iRunner.Deliver
    dpool,     \* packs in inputRecycleChan
    hd,        \* [DHandlers -> the goroutine's and its decoder's state]
               \*   st: "idle", "have" (a pack to deliver), "decoding", "done"
               \*   q: packs in the decoder's inChan
               \*   dec: "wait", "decode", "newPack", "out", "ended"
               \*   packs: s.packs, or the extras; cur: s.pack # nil
    dopen,     \* the handlers whose decoder's inChan is open
    allDecoders, \* those in PipelineConfig.allDecoders
    rq,        \* packs on their way through the router
    leaked,    \* packs that nobody holds any more
    lossy,     \* what lost them
    dstop,     \* "no", "stopping" (Stop was called), "closed" (by Run), "down"
    dabort,    \* abortChan is closed
    dpanic     \* "no"; "closed" a channel used after its close; "nil" a nil dereference

decVars == <<dconf, dpool, hd, dopen, allDecoders, rq, leaked, lossy, dstop, dabort, dpanic>>

DecInit ==
    /\ dconf \in [sync : BOOLEAN, send : BOOLEAN, kind : {"sandbox", "stats"},
                  pool : DPoolSizes, own : BOOLEAN]
    /\ dpool = dconf.pool
    /\ hd = [h \in DHandlers |-> [st |-> "idle", q |-> 0, dec |-> "wait", packs |-> 0,
                                  cur |-> FALSE]]
    /\ dopen = IF dconf.sync THEN {} ELSE DHandlers
    /\ allDecoders = dopen
    /\ rq = 0 /\ leaked = 0 /\ lossy = {} /\ dstop = "no" /\ dabort = FALSE /\ dpanic = "no"

------------------------------------------------------------------------------
(* The input's goroutines.                                                 *)

TakePack(h) ==
    /\ hd[h].st = "idle" /\ dstop = "no" /\ dpool > 0
    /\ dpool' = dpool - 1
    /\ hd' = [hd EXCEPT ![h].st = "have"]
    /\ UNCHANGED <<dconf, dopen, allDecoders, rq, leaked, lossy, dstop, dabort, dpanic>>

\* The deliver function: send to the decoder runner, or decode here.
DeliverPack(h) ==
    /\ hd[h].st = "have"
    /\ IF dconf.sync
       THEN /\ hd' = [hd EXCEPT ![h].st = "decoding", ![h].dec = "decode", ![h].cur = TRUE]
            /\ UNCHANGED dpanic
       ELSE /\ h \in dopen => hd[h].q < DChanSize
            /\ dpanic' = IF h \in dopen THEN "no" ELSE "closed"
            /\ hd' = [hd EXCEPT ![h].q = @ + 1, ![h].st = "idle"]
    /\ UNCHANGED <<dconf, dpool, dopen, allDecoders, rq, leaked, lossy, dstop, dabort>>

\* The goroutine ends, a Deliverer with Done: StopDecoderRunner closes the channel
\* of a decoder that is still on the list and takes it off.
DelivererDone(h) ==
    /\ dstop = "stopping" /\ hd[h].st = "idle"
    /\ hd' = [hd EXCEPT ![h].st = "done"]
    /\ IF dconf.own /\ h \in allDecoders
       THEN /\ dopen' = dopen \ {h} /\ allDecoders' = allDecoders \ {h}
            /\ dpanic' = IF h \in dopen THEN "no" ELSE "closed"
       ELSE UNCHANGED <<dopen, allDecoders, dpanic>>
    /\ UNCHANGED <<dconf, dpool, rq, leaked, lossy, dstop, dabort>>

------------------------------------------------------------------------------
(* The decoder, in dRunner.start or in the handler's goroutine.            *)

\* for pack = range dr.inChan
RangeInChan(h) ==
    /\ ~dconf.sync /\ hd[h].dec = "wait"
    /\ \/ /\ hd[h].q > 0
          /\ hd' = [hd EXCEPT ![h].q = @ - 1, ![h].dec = "decode", ![h].cur = TRUE]
       \/ /\ hd[h].q = 0 /\ h \notin dopen
          /\ hd' = [hd EXCEPT ![h].dec = "ended"]
    /\ UNCHANGED <<dconf, dpool, dopen, allDecoders, rq, leaked, lossy, dstop, dabort, dpanic>>

\* What the caller does with Decode's n packs and error: dRunner.start delivers
\* whatever packs there are; the synchronous caller looks at the error first and
\* then knows of the original pack alone.  The original of a failed message is
\* delivered (send_decode_failures) or recycled.  Others were recycled or are lost.
Decoded(h, n, failed, recycled, lost, how) ==
    LET failure == IF dconf.sync THEN failed ELSE n = 0
        out     == IF ~failure THEN n ELSE IF dconf.send THEN 1 ELSE 0
        extra   == IF failure /\ n > 1 THEN n - 1 ELSE 0
        gone    == lost + extra
    IN  /\ hd' = [hd EXCEPT ![h] = [@ EXCEPT !.packs = out, !.cur = FALSE,
                      !.dec = IF out > 0 THEN "out" ELSE "wait",
                      !.st = IF out = 0 /\ dconf.sync THEN "idle" ELSE @]]
        /\ dpool' = dpool + recycled + (IF failure /\ ~dconf.send THEN 1 ELSE 0)
        /\ leaked' = leaked + gone
        /\ lossy' = IF gone > 0 THEN lossy \cup {how} ELSE lossy
        /\ UNCHANGED <<dconf, dopen, allDecoders, rq, dabort, dpanic>>

\* SandboxDecoder: the script injects a message into the original pack, then into
\* new ones.  An injection that does not unmarshal leaves its pack in s.pack.
InjectMessage(h) ==
    /\ dconf.kind = "sandbox" /\ hd[h].dec = "decode" /\ hd[h].packs < DMaxOut
    /\ hd' = IF hd[h].cur THEN [hd EXCEPT ![h].packs = @ + 1, ![h].cur = FALSE]
                          ELSE [hd EXCEPT ![h].dec = "newPack"]
    /\ UNCHANGED <<dconf, dpool, dopen, allDecoders, rq, leaked, lossy, dstop, dabort, dpanic>>

\* process_message returns 0, a negative number, or (a Lua error) a positive one,
\* which shuts Heka down.
SandboxDecode(h) ==
    LET packs == hd[h].packs
        fresh == IF hd[h].cur /\ packs > 0 THEN 1 ELSE 0
    IN  /\ dconf.kind = "sandbox" /\ hd[h].dec = "decode"
        /\ \/ /\ hd[h].cur
              /\ Decoded(h, 1, FALSE, 0, IF packs > 0 THEN packs - 1 + fresh ELSE 0, "inject")
              /\ UNCHANGED dstop
           \/ /\ ~hd[h].cur
              /\ Decoded(h, packs, FALSE, 0, 0, "none")
              /\ UNCHANGED dstop
           \/ /\ Decoded(h, 0, TRUE, IF packs > 1 THEN packs - 1 ELSE 0, fresh, "inject")
              /\ UNCHANGED dstop
           \/ /\ Decoded(h, packs, TRUE, 0, fresh, IF fresh > 0 THEN "inject" ELSE "fatal")
              /\ dstop' = IF dstop = "no" THEN "stopping" ELSE dstop

\* StatsToFieldsDecoder: a line with another timestamp gets a pack of its own; a
\* malformed line ends the decoding, and the packs made so far are forgotten.
StatsDecode(h) ==
    /\ dconf.kind = "stats" /\ hd[h].dec = "decode"
    /\ \/ /\ hd[h].packs + 1 < DMaxOut
          /\ hd' = [hd EXCEPT ![h].dec = "newPack"]
          /\ UNCHANGED <<dconf, dpool, dopen, allDecoders, rq, leaked, lossy, dabort, dpanic>>
       \/ Decoded(h, hd[h].packs + 1, FALSE, 0, 0, "none")
       \/ Decoded(h, 0, TRUE, 0, hd[h].packs, "stats")
    /\ UNCHANGED dstop

\* A variant that takes the pack out of nowhere.
NewPackFree(h) ==
    /\ hd[h].dec = "newPack"
    /\ hd' = IF dconf.kind = "stats" THEN [hd EXCEPT ![h].dec = "decode", ![h].packs = @ + 1]
                                     ELSE [hd EXCEPT ![h].dec = "decode", ![h].cur = TRUE]
    /\ UNCHANGED <<dconf, dpool, dopen, allDecoders, rq, leaked, lossy, dstop, dabort, dpanic>>

\* NewPack: from the pool, or none when abortChan is closed, which ends the script
\* with an error and which StatsToFieldsDecoder dereferences.  A synchronous
\* decoder's runner has no globals to find abortChan in.
NewPack(h) ==
    /\ hd[h].dec = "newPack"
    /\ \/ /\ dconf.sync /\ dpanic' = "nil"
          /\ UNCHANGED <<dconf, dpool, hd, dopen, allDecoders, rq, leaked, lossy, dabort>>
       \/ /\ ~dconf.sync /\ dpool > 0
          /\ dpool' = dpool - 1
          /\ hd' = IF dconf.kind = "stats"
                   THEN [hd EXCEPT ![h].dec = "decode", ![h].packs = @ + 1]
                   ELSE [hd EXCEPT ![h].dec = "decode", ![h].cur = TRUE]
          /\ UNCHANGED <<dconf, dopen, allDecoders, rq, leaked, lossy, dabort, dpanic>>
       \/ /\ ~dconf.sync /\ dabort /\ dconf.kind = "stats"
          /\ dpanic' = "nil"
          /\ UNCHANGED <<dconf, dpool, hd, dopen, allDecoders, rq, leaked, lossy, dabort>>
       \/ /\ ~dconf.sync /\ dabort /\ dconf.kind = "sandbox"
          /\ Decoded(h, hd[h].packs, TRUE, 0, 0, "none")
    /\ UNCHANGED dstop

\* Inject, one pack after the other: one that cannot be encoded is recycled, one
\* that the aborting router does not take is dropped.
DecDeliver(h) ==
    /\ hd[h].dec = "out"
    /\ \/ rq < DChanSize /\ rq' = rq + 1 /\ UNCHANGED <<dpool, leaked, lossy>>
       \/ dpool' = dpool + 1 /\ UNCHANGED <<rq, leaked, lossy>>
       \/ dabort /\ leaked' = leaked + 1 /\ lossy' = lossy \cup {"abort"} /\ UNCHANGED <<rq, dpool>>
    /\ LET last == hd[h].packs = 1
       IN  hd' = [hd EXCEPT ![h] = [@ EXCEPT !.packs = @ - 1,
                      !.dec = IF last THEN "wait" ELSE "out",
                      !.st = IF last /\ dconf.sync THEN "idle" ELSE @]]
    /\ UNCHANGED <<dconf, dopen, allDecoders, dstop, dabort, dpanic>>

\* The router and what is behind it: external here.
RouterRecycles ==
    /\ rq > 0
    /\ rq' = rq - 1 /\ dpool' = dpool + 1
    /\ UNCHANGED <<dconf, hd, dopen, allDecoders, leaked, lossy, dstop, dabort, dpanic>>

------------------------------------------------------------------------------
(* The shutdown.                                                           *)

StopHandlers ==
    /\ dstop = "no"
    /\ dstop' = "stopping"
    /\ UNCHANGED <<dconf, dpool, hd, dopen, allDecoders, rq, leaked, lossy, dabort, dpanic>>

\* SIGUSR2: a pack of the pool passes through the router, or none can.
sandboxAbort ==
    /\ ~dabort
    /\ dpool = 0 \/ rq = DChanSize
    /\ dabort' = TRUE
    /\ dstop' = IF dstop = "no" THEN "stopping" ELSE dstop
    /\ IF dpool > 0 THEN dpool' = dpool - 1 /\ leaked' = leaked + 1 /\ lossy' = lossy \cup {"abort"}
                    ELSE UNCHANGED <<dpool, leaked, lossy>>
    /\ UNCHANGED <<dconf, hd, dopen, allDecoders, rq, dpanic>>

\* Run, after inputsWg.Wait, closes what is left on the list.
CloseDecoders ==
    /\ dstop = "stopping" /\ \A h \in DHandlers : hd[h].st = "done"
    /\ dpanic' = IF allDecoders \subseteq dopen THEN "no" ELSE "closed"
    /\ dopen' = dopen \ allDecoders /\ allDecoders' = {}
    /\ dstop' = "closed"
    /\ UNCHANGED <<dconf, dpool, hd, rq, leaked, lossy, dabort>>

\* decodersWg.Wait
DecodersDown ==
    /\ dstop = "closed"
    /\ dconf.sync \/ \A h \in DHandlers : hd[h].dec = "ended"
    /\ dstop' = "down"
    /\ UNCHANGED <<dconf, dpool, hd, dopen, allDecoders, rq, leaked, lossy, dabort, dpanic>>

DecHandler(h) == DeliverPack(h) \/ DelivererDone(h)
DecSteps(h) == RangeInChan(h) \/ InjectMessage(h) \/ SandboxDecode(h) \/ StatsDecode(h)
                 \/ DecDeliver(h)
DecMain == CloseDecoders \/ DecodersDown

DecNext ==
    \/ /\ dpanic = "no"
       /\ \/ \E h \in DHandlers : TakePack(h) \/ DecHandler(h) \/ DecSteps(h) \/ NewPack(h)
          \/ RouterRecycles \/ StopHandlers \/ sandboxAbort \/ DecMain
    \/ UNCHANGED decVars

\* All goroutines run; the select between the pool's takers is fair.
DecFairness ==
    /\ \A h \in DHandlers :
           /\ WF_decVars(dpanic = "no" /\ (DecHandler(h) \/ DecSteps(h)))
           /\ SF_decVars(dpanic = "no" /\ NewPack(h))
    /\ WF_decVars(dpanic = "no" /\ (RouterRecycles \/ DecMain))

DecSpec == DecInit /\ [][DecNext]_decVars /\ DecFairness

------------------------------------------------------------------------------
(* Properties.                                                             *)

DecTypeOK ==
    /\ dpool \in 0..dconf.pool /\ leaked \in 0..dconf.pool /\ rq \in 0..DChanSize
    /\ hd \in [DHandlers -> [st : {"idle", "have", "decoding", "done"}, q : 0..DChanSize + 1,
                             dec : {"wait", "decode", "newPack", "out", "ended"},
                             packs : 0..DMaxOut, cur : BOOLEAN]]
    /\ dstop \in {"no", "stopping", "closed", "down"}

\* The packs that a decoder or its goroutine has; a stats decoder's original
\* besides its extras.
Held(h) ==
    LET d == hd[h]
    IN  d.q + d.packs + (IF d.st = "have" THEN 1 ELSE 0)
          + (IF dconf.kind = "stats" THEN IF d.dec \in {"decode", "newPack"} THEN 1 ELSE 0
             ELSE IF d.cur THEN 1 ELSE 0)

\* Every pack of the pool is in one place.  A pack is lost only where a script
\* goes on after an injection failed, where a script's fatal error is returned
\* with packs to a synchronous caller, where StatsToFieldsDecoder meets a
\* malformed line after a second timestamp, or in an abort.
PacksAccounted ==
    /\ dpool + rq + leaked + MapThenSumSet(Held, DHandlers) = dconf.pool
    /\ (leaked > 0) = (lossy # {})
    /\ "fatal" \in lossy => dconf.sync

\* No pack is delivered to a closed channel and no channel is closed twice,
\* whether the goroutine's Done or Run's shutdown comes to the decoder first.
NoUseOfClosed == dpanic # "closed"

\* What the goroutines, the decoders and their channels can hold, all of them
\* waiting for one more.
Wanted == Cardinality(DHandlers) * (DChanSize + DMaxOut) + 1

\* A decoder runner that asks the pool for another pack gets one, if the pool is
\* larger than what the input's goroutines, the decoders and their channels hold
\* and no pack was lost; in any case when sandboxAbort has closed abortChan.
NewPackComes ==
    \A h \in DHandlers :
        (hd[h].dec = "newPack" /\ (dconf.pool >= Wanted \/ dabort))
            ~> (hd[h].dec # "newPack" \/ (leaked > 0 /\ ~dabort) \/ dpanic # "no")

\* The shutdown of the decoders ends, and all packs in flight have come out, if
\* the pool is large enough or the shutdown is an abort.
DecodersEnd ==
    (dstop = "stopping" /\ ~dconf.sync /\ (dconf.pool >= Wanted \/ dabort))
        ~> \/ dstop = "down" /\ dpool + rq + leaked = dconf.pool
           \/ (leaked > 0 /\ ~dabort) \/ dpanic # "no"
==============================================================================

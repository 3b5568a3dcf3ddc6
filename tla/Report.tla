------------------------------- MODULE Report -------------------------------
(***************************************************************************)
(* Self-reports (pipeline/report.go): for each request a goroutine walks   *)
(* over all plugins and hands one row after the other to a collector.      *)
(* Every row travels in the one pack of reportRecycleChan, which requests  *)
(* share.  A request comes from a signal ("stdout") or from the dashboard  *)
(* ("msg"), whose result goes to the router in two injected packs.         *)
(* Plugins are removed while a request walks: filters and inputs under the *)
(* lock that the walk holds, decoders and outputs under none that it holds.*)
(* No splitter of the repository has a ReportMsg of its own.               *)
(***************************************************************************)
EXTENDS Naturals, Sequences, FiniteSets, SequencesExt, FiniteSetsExt

CONSTANTS RpReqs,       \* a function: requests to their kinds
          RpDecoders,   \* allDecoders at the start, a sequence
          RpSets,       \* the other plugins by stage, each a set
          RpInject,     \* packs of the injection pool
          RpLeavers     \* bound: plugins that are unregistered

VARIABLES rppack,       \* the report pack: free?, and the plugin it tells of
          rpw,          \* per request, the walk of reports()
          rpc,          \* per request, the collector: allReportsData and its caller
          rprows,       \* per request, how many rows of each plugin were collected
          rplock,       \* holder of inputsLock and of filtersLock
          rpsets,       \* the plugins registered, by stage
          rparr, rplen, \* allDecoders: the array and the slice's length
          rpgone,       \* per request, plugins unregistered since it began
          rpinj, rprouter   \* injection packs, free and at the router

rpvars == <<rppack, rpw, rpc, rprows, rplock, rpsets, rparr, rplen, rpgone, rpinj, rprouter>>

Reqs == DOMAIN RpReqs
RpPlugins == Range(RpDecoders) \cup UNION Range(RpSets)
\* "helpers": synchronous decoders, splitters and encoders, walked without a lock.
RpStages == <<"globals", "inputs", "decoders", "helpers", "filters", "outputs">>
RpLocked == {"inputs", "filters"}
NoLock == "nobody"
RpStage(q) == RpStages[rpw[q].stage]

RpInit ==
    /\ rppack = [free |-> TRUE, row |-> "none"] /\ rplock = [s \in RpLocked |-> NoLock]
    /\ rpw = [q \in Reqs |-> [pc |-> "off", stage |-> 1, todo |-> {}]]
    /\ rpc = [q \in Reqs |-> "off"]
    /\ rprows = [q \in Reqs |-> [p \in RpPlugins |-> 0]]
    /\ rpsets = RpSets
    /\ rparr = RpDecoders /\ rplen = Len(RpDecoders)
    /\ rpgone = [q \in Reqs |-> {}]
    /\ rpinj = RpInject /\ rprouter = 0

\* allReportsData: go pc.reports(reports), and the collector begins to range.
RpRequest(q) ==
    /\ rpc[q] = "off"
    /\ rpc' = [rpc EXCEPT ![q] = "range"]
    /\ rpw' = [rpw EXCEPT ![q].pc = "enter"]
    /\ UNCHANGED <<rppack, rprows, rplock, rpsets, rparr, rplen, rpgone, rpinj, rprouter>>

\* A stage begins, with its lock if it has one.  The decoders are walked by index
\* up to the length they have now; a map is walked in any order.
RpEnter(q) ==
    /\ rpw[q].pc = "enter"
    /\ IF RpStage(q) \in RpLocked
       THEN rplock[RpStage(q)] = NoLock /\ rplock' = [rplock EXCEPT ![RpStage(q)] = q]
       ELSE rplock' = rplock
    /\ rpw' = [rpw EXCEPT ![q].pc = "next",
                          ![q].todo = IF RpStage(q) = "decoders" THEN 1..rplen
                                      ELSE rpsets[RpStage(q)]]
    /\ UNCHANGED <<rppack, rpc, rprows, rpsets, rparr, rplen, rpgone, rpinj, rprouter>>

\* The stage is over: its lock is given back, the next begins, or close(reportChan).
RpLeave(q) ==
    /\ rpw[q].pc = "next" /\ rpw[q].todo = {}
    /\ rplock' = [s \in RpLocked |-> IF s = RpStage(q) THEN NoLock ELSE rplock[s]]
    /\ rpw' = IF rpw[q].stage < Len(RpStages)
              THEN [rpw EXCEPT ![q].pc = "enter", ![q].stage = @ + 1]
              ELSE [rpw EXCEPT ![q].pc = "closed"]
    /\ UNCHANGED <<rppack, rpc, rprows, rpsets, rparr, rplen, rpgone, rpinj, rprouter>>

\* An output that was unregistered before the walk came to it is not visited.
RpSkip(q) ==
    /\ rpw[q].pc = "next" /\ RpStage(q) = "outputs"
    /\ rpw[q].todo \ rpsets.outputs # {}
    /\ rpw' = [rpw EXCEPT ![q].todo = @ \cap rpsets.outputs]
    /\ UNCHANGED <<rppack, rpc, rprows, rplock, rpsets, rparr, rplen, rpgone, rpinj, rprouter>>

\* getReport: the pack, filled by the plugin's ReportMsg or with its error.
RpFill(q) ==
    /\ rpw[q].pc = "next" /\ rppack.free
    /\ \E k \in rpw[q].todo :
          /\ IF RpStage(q) = "decoders" THEN k = Min(rpw[q].todo)
             ELSE k \in rpsets[RpStage(q)]
          /\ rppack' = [free |-> FALSE, row |-> IF RpStage(q) = "decoders" THEN rparr[k] ELSE k]
          /\ rpw' = [rpw EXCEPT ![q].pc = "send", ![q].todo = @ \ {k}]
    /\ UNCHANGED <<rpc, rprows, rplock, rpsets, rparr, rplen, rpgone, rpinj, rprouter>>

RpSendFree(q) ==
    /\ rpw[q].pc = "send" /\ rpc[q] = "range"
    /\ rpw' = [rpw EXCEPT ![q].pc = "next"]
    /\ rpc' = [rpc EXCEPT ![q] = "row"]
    /\ rppack' = [rppack EXCEPT !.free = TRUE]
    /\ UNCHANGED <<rprows, rplock, rpsets, rparr, rplen, rpgone, rpinj, rprouter>>

\* reportChan <- pack, which has no room: the collector is at its range.
RpSend(q) ==
    /\ rpw[q].pc = "send" /\ rpc[q] = "range"
    /\ rpw' = [rpw EXCEPT ![q].pc = "next"]
    /\ rpc' = [rpc EXCEPT ![q] = "row"]
    /\ UNCHANGED <<rppack, rprows, rplock, rpsets, rparr, rplen, rpgone, rpinj, rprouter>>

\* The fields are copied and the pack is recycled, with a new Message.
RpCollect(q) ==
    /\ rpc[q] = "row"
    /\ rprows' = [rprows EXCEPT ![q][rppack.row] = @ + 1]
    /\ rppack' = [rppack EXCEPT !.free = TRUE]
    /\ rpc' = [rpc EXCEPT ![q] = "range"]
    /\ UNCHANGED <<rpw, rplock, rpsets, rparr, rplen, rpgone, rpinj, rprouter>>

\* The range ends; allReportsStdout prints, AllReportsMsg sends two messages.
RpData(q) ==
    /\ rpc[q] = "range" /\ rpw[q].pc = "closed"
    /\ rpc' = [rpc EXCEPT ![q] = IF RpReqs[q] = "stdout" THEN "done" ELSE "all"]
    /\ UNCHANGED <<rppack, rpw, rprows, rplock, rpsets, rparr, rplen, rpgone, rpinj, rprouter>>

\* PipelinePack(0), and the message goes to the router or, not encoded, back.
RpMessage(q) ==
    /\ rpc[q] \in {"all", "memstat"} /\ rpinj > 0
    /\ \/ rpinj' = rpinj - 1 /\ rprouter' = rprouter + 1
       \/ UNCHANGED <<rpinj, rprouter>>
    /\ rpc' = [rpc EXCEPT ![q] = IF @ = "all" THEN "memstat" ELSE "done"]
    /\ UNCHANGED <<rppack, rpw, rprows, rplock, rpsets, rparr, rplen, rpgone>>

\* The pipeline has dealt with a report message.
RpRouted ==
    /\ rprouter > 0 /\ rprouter' = rprouter - 1 /\ rpinj' = rpinj + 1
    /\ UNCHANGED <<rppack, rpw, rpc, rprows, rplock, rpsets, rparr, rplen, rpgone>>

RpRegistered == Range(SubSeq(rparr, 1, rplen)) \cup UNION Range(rpsets)
Gone(p) ==
    /\ Cardinality(RpPlugins \ RpRegistered) < RpLeavers
    /\ rpgone' = [q \in Reqs |-> IF rpc[q] = "off" THEN rpgone[q] ELSE rpgone[q] \cup {p}]

\* RemoveInputRunner and RemoveFilterRunner, under the lock; RemoveOutputRunner,
\* under one of its own.
RpUnregister(s) ==
    /\ s \in RpLocked => rplock[s] = NoLock
    /\ \E p \in rpsets[s] : rpsets' = [rpsets EXCEPT ![s] = @ \ {p}] /\ Gone(p)
    /\ UNCHANGED <<rppack, rpw, rpc, rprows, rplock, rparr, rplen, rpinj, rprouter>>

\* StopDecoderRunner: what follows is moved down in the array.
RpStopDecoder ==
    /\ \E i \in 1..rplen :
          /\ rparr' = SubSeq(rparr, 1, i - 1) \o SubSeq(rparr, i + 1, rplen)
                        \o SubSeq(rparr, rplen, Len(rparr))
          /\ Gone(rparr[i])
    /\ rplen' = rplen - 1
    /\ UNCHANGED <<rppack, rpw, rpc, rprows, rplock, rpsets, rpinj, rprouter>>

RpWalk(q) == RpEnter(q) \/ RpLeave(q) \/ RpSkip(q) \/ RpFill(q) \/ RpSend(q)
RpCaller(q) == RpCollect(q) \/ RpData(q) \/ RpMessage(q)
RpIdle == (\A q \in Reqs : rpc[q] = "done") /\ rprouter = 0 /\ UNCHANGED rpvars
RpEnv ==
    \/ RpRouted \/ RpStopDecoder \/ RpIdle
    \/ \E s \in {"inputs", "filters", "outputs"} : RpUnregister(s)
    \/ \E q \in Reqs : RpRequest(q)
RpNext == RpEnv \/ \E q \in Reqs : RpWalk(q) \/ RpCaller(q)

\* Each goroutine goes on; one that waits for the pack or a lock gets it in turn.
RpFairness ==
    /\ WF_rpvars(RpRouted)
    /\ \A q \in Reqs : WF_rpvars(RpCaller(q)) /\ SF_rpvars(RpWalk(q))

RpSpec == RpInit /\ [][RpNext]_rpvars /\ RpFairness
------------------------------------------------------------------------------
(* Properties.                                                             *)

RpTypeOK ==
    /\ rpinj + rprouter = RpInject
    /\ \A q \in Reqs : /\ rpw[q].pc \in {"off", "enter", "next", "send", "closed"}
                        /\ rpc[q] \in {"off", "range", "row", "all", "memstat", "done"}
    /\ \A s \in RpLocked : rplock[s] \in Reqs \cup {NoLock}

\* A report has exactly one row for each plugin that was there from its beginning
\* to its end, and none of a plugin that had left before, although requests share
\* one pack and plugins leave while they walk; only a decoder that stops meanwhile
\* makes it leave out another one, or tell of one twice, for reports reads
\* allDecoders without its lock (report.go:148).
ReportsTrue ==
    \A q \in Reqs : \A p \in RpPlugins \ rpgone[q] :
        \/ p \in Range(RpDecoders) /\ Range(RpDecoders) \cap rpgone[q] # {}
        \/ rprows[q][p] = IF p \in RpRegistered THEN 1 ELSE 0
        \/ rprows[q][p] = 0 /\ (rpw[q].pc # "closed" \/ rpc[q] = "row")

\* Every request is answered: nobody keeps the pack or a lock (report.go:79-215).
ReportsEnd ==
    (\E q \in Reqs : rpc[q] = "range") ~> (\A q \in Reqs : rpc[q] \in {"off", "done"})
=============================================================================

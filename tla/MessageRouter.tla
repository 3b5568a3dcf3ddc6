---------------------------- MODULE MessageRouter ----------------------------
(***************************************************************************)
(* The message router of the pipeline, its match runners and the           *)
(* reference-counted packs they pass around (pipeline/router.go, and the   *)
(* PipelinePack type of pipeline/pipeline_runner.go).                      *)
(*                                                                         *)
(* One goroutine routes: it takes a pack from its input channel, adds one  *)
(* reference for every registered matcher and sends the pack to the        *)
(* matcher's channel, then drops the reference it came with.  Each         *)
(* MatchRunner goroutine takes packs from its channel and either recycles  *)
(* them (no match) or hands them on: to the plugin's channel, or to the    *)
(* plugin's disk queue, after which it drops its reference.  Whoever drops *)
(* the last reference clears the pack and puts it back on its recycle      *)
(* channel.  Filters are added and removed while messages flow.            *)
(*                                                                         *)
(* The producers (inputs) and the consumers (plugins) are reduced to the   *)
(* calls the router sees; the module Pipeline refines both.                *)
(***************************************************************************)
EXTENDS Naturals, Sequences, FiniteSets, Functions

CONSTANTS
    Packs,           \* the packs of the pool, all idle at the start
    Filters,         \* the filters' MatchRunners
    Outputs,         \* the outputs' MatchRunners
    InitFilters,     \* the filters of the configuration file
    Buffered,        \* the matchers that have a BufferFeeder
    PluginChanSize,  \* capacity of every channel of packs
    MaxMsgs,         \* bound: messages the inputs produce
    Nil              \* a nil pack, a nil slot of a matcher slice

Matchers == Filters \cup Outputs

ASSUME RouterAssumption ==
    /\ IsFiniteSet(Packs) /\ IsFiniteSet(Filters) /\ IsFiniteSet(Outputs)
    /\ Filters \cap Outputs = {}
    /\ InitFilters \subseteq Filters
    /\ Buffered \subseteq Matchers
    /\ Nil \notin Packs \cup Matchers
    /\ PluginChanSize \in Nat \ {0}
    /\ MaxMsgs \in Nat

VARIABLES
    refCount,     \* PipelinePack.RefCount
    msg,          \* the message a pack carries, 0 when it is zeroed
    recycleChan,  \* the packs on their recycle channel
    held,         \* the packs a producer has taken and not yet injected
    inChan,       \* the router's input channel
    fMatchers,    \* slice of filter matchers, Nil where one was removed
    oMatchers,    \* slice of output matchers, Nil where one was removed
    rpc,          \* where the router goroutine is: "select", "loop", "send"
    cur,          \* the pack it is routing
    idx,          \* index in fMatchers then oMatchers of the next matcher
    mIn,          \* MatchRunner.inChan
    closing,      \* MatchRunner.closing, set as its inChan is closed
    mPack,        \* the matched pack a MatchRunner is delivering
    matchChan,    \* MatchRunner.matchChan, which is the plugin's inChan
    mDone,        \* MatchRunner.run has returned, closing matchChan
    pPack,        \* the pack the plugin is processing
    produced,     \* number of messages produced so far
    routed,       \* history: messages in the order the router took them
    seen          \* history: messages in the order each matcher took them

packVars  == <<refCount, msg, recycleChan>>
sliceVars == <<fMatchers, oMatchers>>
routeVars == <<rpc, cur, idx>>
matchVars == <<mIn, closing, mPack, matchChan, mDone>>
vars == <<refCount, msg, recycleChan, held, inChan, fMatchers, oMatchers,
          rpc, cur, idx, mIn, closing, mPack, matchChan, mDone, pPack,
          produced, routed, seen>>

------------------------------------------------------------------------------
\* A slice holding the members of S in the order a Go map yields them: any.
Slices(S) ==
    {s \in [1..Cardinality(S) -> S] : \A i, j \in DOMAIN s : s[i] = s[j] => i = j}

NumSlots == Len(fMatchers) + Len(oMatchers)

\* The i-th matcher of the two loops over the slices.
Slot(i) == IF i <= Len(fMatchers) THEN fMatchers[i]
                                  ELSE oMatchers[i - Len(fMatchers)]

Init ==
    /\ refCount = [p \in Packs |-> 1]
    /\ msg = [p \in Packs |-> 0]
    /\ recycleChan = Packs
    /\ held = {}
    /\ inChan = <<>>
    /\ fMatchers \in Slices(InitFilters)
    /\ oMatchers \in Slices(Outputs)
    /\ rpc = "select" /\ cur = Nil /\ idx = 1
    /\ mIn = [m \in Matchers |-> <<>>]
    /\ closing = [m \in Matchers |-> FALSE]
    /\ mPack = [m \in Matchers |-> Nil]
    /\ matchChan = [m \in Matchers |-> <<>>]
    /\ mDone = [m \in Matchers |-> FALSE]
    /\ pPack = [m \in Matchers |-> Nil]
    /\ produced = 0
    /\ routed = <<>>
    /\ seen = [m \in Matchers |-> <<>>]

------------------------------------------------------------------------------
\* PipelinePack.recycle with the decrement left out.
RecycleNoDecrement(p) ==
    /\ recycleChan' = recycleChan \cup {p}
    /\ msg' = [msg EXCEPT ![p] = 0]
    /\ refCount' = [refCount EXCEPT ![p] = 1]

\* PipelinePack.Zero without setting the count back to 1.
RecycleAtZero(p) ==
    /\ refCount' = [refCount EXCEPT ![p] = @ - 1]
    /\ IF refCount[p] = 1
       THEN recycleChan' = recycleChan \cup {p} /\ msg' = [msg EXCEPT ![p] = 0]
       ELSE UNCHANGED <<msg, recycleChan>>

\* The last reference dropped without a send on the recycle channel.
RecycleLost(p) ==
    IF refCount[p] = 1
    THEN msg' = [msg EXCEPT ![p] = 0] /\ UNCHANGED <<refCount, recycleChan>>
    ELSE /\ refCount' = [refCount EXCEPT ![p] = @ - 1]
         /\ UNCHANGED <<msg, recycleChan>>

\* PipelinePack.recycle: drop one reference; the last one clears the pack
\* (Zero sets the count back to 1) and puts it on its recycle channel.
recycle(p) ==
    IF refCount[p] = 1
    THEN /\ recycleChan' = recycleChan \cup {p}
         /\ msg' = [msg EXCEPT ![p] = 0]
         /\ UNCHANGED refCount
    ELSE /\ refCount' = [refCount EXCEPT ![p] = @ - 1]
         /\ UNCHANGED <<msg, recycleChan>>

\* A producer takes an idle pack and puts a message in it.
Produce(p) ==
    /\ produced < MaxMsgs
    /\ p \in recycleChan
    /\ recycleChan' = recycleChan \ {p}
    /\ held' = held \cup {p}
    /\ produced' = produced + 1
    /\ msg' = [msg EXCEPT ![p] = produced + 1]
    /\ UNCHANGED <<refCount, inChan, sliceVars, routeVars, matchVars, pPack,
                   routed, seen>>

\* messageRouter.Inject: blocks while the router's channel is full.
Inject(p) ==
    /\ p \in held
    /\ Len(inChan) < PluginChanSize
    /\ inChan' = Append(inChan, p)
    /\ held' = held \ {p}
    /\ UNCHANGED <<packVars, sliceVars, routeVars, matchVars, pPack, produced,
                   routed, seen>>

------------------------------------------------------------------------------
\* The router goroutine.  Its select takes a matcher to add, a matcher to
\* remove or a pack, whichever is ready.

\* The slots an AddFilterMatcher may fill: the last nil one it passes, which
\* is every nil one when the matcher is not already there.
FreeSlots == {i \in 1..Len(fMatchers) : fMatchers[i] = Nil}

\* Adding without looking for the matcher first.
AddFilterMatcherUnchecked(m) ==
    /\ rpc = "select"
    /\ ~closing[m]
    /\ fMatchers' = Append(fMatchers, m)
    /\ UNCHANGED <<packVars, held, inChan, oMatchers, routeVars, matchVars,
                   pPack, produced, routed, seen>>

\* case matcher = <-addFilterMatcher: a matcher already in the slice stays
\* where it is (a filter started before the slices were built is added
\* twice); otherwise it takes the last nil slot or a new one at the end.
AddFilterMatcher(m) ==
    /\ rpc = "select"
    /\ ~closing[m]
    /\ fMatchers' =
         IF m \in Range(fMatchers) THEN fMatchers
         ELSE IF FreeSlots = {} THEN Append(fMatchers, m)
         ELSE LET last == CHOOSE i \in FreeSlots : \A j \in FreeSlots : j <= i
              IN  [fMatchers EXCEPT ![last] = m]
    /\ UNCHANGED <<packVars, held, inChan, oMatchers, routeVars, matchVars,
                   pPack, produced, routed, seen>>

\* MatchRunner.Close on the matcher, its slot left in place.
RemoveFilterMatcherKeepSlot(m) ==
    /\ rpc = "select"
    /\ m \in Range(fMatchers)
    /\ closing' = [closing EXCEPT ![m] = TRUE]
    /\ UNCHANGED <<packVars, held, inChan, sliceVars, routeVars, mIn, mPack,
                   matchChan, mDone, pPack, produced, routed, seen>>

\* case matcher = <-removeFilterMatcher: close the matcher's channel and
\* leave a nil in its slot.
RemoveFilterMatcher(m) ==
    /\ rpc = "select"
    /\ m \in Range(fMatchers)
    /\ closing' = [closing EXCEPT ![m] = TRUE]
    /\ fMatchers' = [i \in DOMAIN fMatchers |->
                        IF fMatchers[i] = m THEN Nil ELSE fMatchers[i]]
    /\ UNCHANGED <<packVars, held, inChan, oMatchers, routeVars, mIn, mPack,
                   matchChan, mDone, pPack, produced, routed, seen>>

\* case matcher = <-removeOutputMatcher, the same for the other slice.
RemoveOutputMatcher(m) ==
    /\ rpc = "select"
    /\ m \in Range(oMatchers)
    /\ closing' = [closing EXCEPT ![m] = TRUE]
    /\ oMatchers' = [i \in DOMAIN oMatchers |->
                        IF oMatchers[i] = m THEN Nil ELSE oMatchers[i]]
    /\ UNCHANGED <<packVars, held, inChan, fMatchers, routeVars, mIn, mPack,
                   matchChan, mDone, pPack, produced, routed, seen>>

\* case pack = <-inChan.
RouteReceive ==
    /\ rpc = "select"
    /\ inChan # <<>>
    /\ cur' = Head(inChan)
    /\ inChan' = Tail(inChan)
    /\ rpc' = "loop"
    /\ idx' = 1
    /\ routed' = Append(routed, msg[Head(inChan)])
    /\ UNCHANGED <<packVars, held, sliceVars, matchVars, pPack, produced, seen>>

\* The increment of the count left out.
RouteForgetRef ==
    /\ rpc = "loop"
    /\ idx <= NumSlots
    /\ IF Slot(idx) = Nil
       THEN idx' = idx + 1 /\ UNCHANGED rpc
       ELSE rpc' = "send" /\ UNCHANGED idx
    /\ UNCHANGED <<packVars, held, inChan, sliceVars, cur, matchVars, pPack,
                   produced, routed, seen>>

\* if matcher != nil: the reference is added before the send.
RouteAddRef ==
    /\ rpc = "loop"
    /\ idx <= NumSlots
    /\ IF Slot(idx) = Nil
       THEN /\ idx' = idx + 1
            /\ UNCHANGED <<rpc, refCount>>
       ELSE /\ refCount' = [refCount EXCEPT ![cur] = @ + 1]
            /\ rpc' = "send"
            /\ UNCHANGED idx
    /\ UNCHANGED <<msg, recycleChan, held, inChan, sliceVars, cur, matchVars,
                   pPack, produced, routed, seen>>

\* matcher.inChan <- pack: blocks while the matcher's channel is full.
RouteSend ==
    /\ rpc = "send"
    /\ LET m == Slot(idx) IN
         /\ Len(mIn[m]) < PluginChanSize
         /\ mIn' = [mIn EXCEPT ![m] = Append(@, cur)]
    /\ rpc' = "loop"
    /\ idx' = idx + 1
    /\ UNCHANGED <<packVars, held, inChan, sliceVars, cur, closing, mPack,
                   matchChan, mDone, pPack, produced, routed, seen>>

\* pack.recycle() after both loops: the router's own reference.
RouteRecycle ==
    /\ rpc = "loop"
    /\ idx > NumSlots
    /\ recycle(cur)
    /\ rpc' = "select"
    /\ cur' = Nil
    /\ UNCHANGED <<held, inChan, sliceVars, idx, matchVars, pPack, produced,
                   routed, seen>>

------------------------------------------------------------------------------
\* The MatchRunner goroutine of m, and its plugin.

\* for pack := range inChan: a pack of another signer, or one the matcher's
\* specification does not match, is recycled at once.
MatchSkip(m) ==
    /\ mPack[m] = Nil
    /\ mIn[m] # <<>>
    /\ mIn' = [mIn EXCEPT ![m] = Tail(@)]
    /\ seen' = [seen EXCEPT ![m] = Append(@, msg[Head(mIn[m])])]
    /\ recycle(Head(mIn[m]))
    /\ UNCHANGED <<held, inChan, sliceVars, routeVars, closing, mPack,
                   matchChan, mDone, pPack, produced, routed>>

\* A match: the runner goes on to deliver it.
MatchTake(m) ==
    /\ mPack[m] = Nil
    /\ mIn[m] # <<>>
    /\ mPack' = [mPack EXCEPT ![m] = Head(mIn[m])]
    /\ mIn' = [mIn EXCEPT ![m] = Tail(@)]
    /\ seen' = [seen EXCEPT ![m] = Append(@, msg[Head(mIn[m])])]
    /\ UNCHANGED <<packVars, held, inChan, sliceVars, routeVars, closing,
                   matchChan, mDone, pPack, produced, routed>>

\* deliver without a buffer: matchChan <- pack, blocking while it is full.
DeliverToChan(m) ==
    /\ mPack[m] # Nil
    /\ m \notin Buffered
    /\ Len(matchChan[m]) < PluginChanSize
    /\ matchChan' = [matchChan EXCEPT ![m] = Append(@, mPack[m])]
    /\ mPack' = [mPack EXCEPT ![m] = Nil]
    /\ UNCHANGED <<packVars, held, inChan, sliceVars, routeVars, mIn, closing,
                   mDone, pPack, produced, routed, seen>>

\* deliver with a buffer: however QueueRecord ends, the record is on disk or
\* given up, and the pack is recycled.
DeliverToQueue(m) ==
    /\ mPack[m] # Nil
    /\ m \in Buffered
    /\ recycle(mPack[m])
    /\ mPack' = [mPack EXCEPT ![m] = Nil]
    /\ UNCHANGED <<held, inChan, sliceVars, routeVars, mIn, closing,
                   matchChan, mDone, pPack, produced, routed, seen>>

\* inChan closed and drained: run closes matchChan and stopChan and returns.
MatchExit(m) ==
    /\ closing[m] /\ mIn[m] = <<>> /\ mPack[m] = Nil /\ ~mDone[m]
    /\ mDone' = [mDone EXCEPT ![m] = TRUE]
    /\ UNCHANGED <<packVars, held, inChan, sliceVars, routeVars, mIn, closing,
                   mPack, matchChan, pPack, produced, routed, seen>>

\* The plugin takes a pack from its channel.
PluginTake(m) ==
    /\ pPack[m] = Nil
    /\ matchChan[m] # <<>>
    /\ pPack' = [pPack EXCEPT ![m] = Head(matchChan[m])]
    /\ matchChan' = [matchChan EXCEPT ![m] = Tail(@)]
    /\ UNCHANGED <<packVars, held, inChan, sliceVars, routeVars, mIn, closing,
                   mPack, mDone, produced, routed, seen>>

\* The plugin has processed its pack, or dropped it, and recycles it.
PluginRecycle(m) ==
    /\ pPack[m] # Nil
    /\ recycle(pPack[m])
    /\ pPack' = [pPack EXCEPT ![m] = Nil]
    /\ UNCHANGED <<held, inChan, sliceVars, routeVars, matchVars, produced,
                   routed, seen>>

------------------------------------------------------------------------------
Route == RouteReceive \/ RouteAddRef \/ RouteSend \/ RouteRecycle

MatchRun(m) == MatchSkip(m) \/ MatchTake(m) \/ DeliverToChan(m)
                 \/ DeliverToQueue(m) \/ MatchExit(m)

Next ==
    \/ \E p \in Packs : Produce(p) \/ Inject(p)
    \/ \E m \in Filters : AddFilterMatcher(m) \/ RemoveFilterMatcher(m)
    \/ \E m \in Outputs : RemoveOutputMatcher(m)
    \/ Route
    \/ \E m \in Matchers : MatchRun(m) \/ PluginTake(m) \/ PluginRecycle(m)

Spec == Init /\ [][Next]_vars

\* Every goroutine that can move does: the Go scheduler runs each of them,
\* senders blocked on a channel are served in the order they came (hence SF
\* for Inject), and a plugin finishes with the pack it was given.
Fairness ==
    /\ WF_vars(Route)
    /\ \A p \in Packs : SF_vars(Inject(p))
    /\ \A m \in Matchers : WF_vars(MatchRun(m)) /\ WF_vars(PluginTake(m))
                             /\ WF_vars(PluginRecycle(m))

FairSpec == Spec /\ Fairness

------------------------------------------------------------------------------
\* Type correctness of the packs, the channels, the slices and the counters.
TypeOK ==
    /\ refCount \in [Packs -> Nat \ {0}]
    /\ msg \in [Packs -> 0..MaxMsgs]
    /\ recycleChan \subseteq Packs /\ held \subseteq Packs
    /\ inChan \in Seq(Packs) /\ Len(inChan) <= PluginChanSize
    /\ fMatchers \in Seq(Filters \cup {Nil})
    /\ oMatchers \in Seq(Outputs \cup {Nil})
    /\ rpc \in {"select", "loop", "send"}
    /\ cur \in Packs \cup {Nil}
    /\ cur = Nil <=> rpc = "select"
    /\ idx \in Nat \ {0}
    /\ mIn \in [Matchers -> Seq(Packs)]
    /\ \A m \in Matchers : Len(mIn[m]) <= PluginChanSize
    /\ closing \in [Matchers -> BOOLEAN]
    /\ mPack \in [Matchers -> Packs \cup {Nil}]
    /\ matchChan \in [Matchers -> Seq(Packs)]
    /\ \A m \in Matchers : Len(matchChan[m]) <= PluginChanSize
    /\ mDone \in [Matchers -> BOOLEAN]
    /\ pPack \in [Matchers -> Packs \cup {Nil}]
    /\ produced \in 0..MaxMsgs
    /\ routed \in Seq(0..MaxMsgs)
    /\ seen \in [Matchers -> Seq(0..MaxMsgs)]

\* The places that hold the reference a pack has from its producer on.
Owned(p) == \/ p \in recycleChan \/ p \in held
            \/ p \in Range(inChan) \/ p = cur

\* The reference the router has just added for m and not yet sent.
Sending(m, p) == rpc = "send" /\ p = cur /\ m = Slot(idx)

\* The places that hold the reference the router added for matcher m.
Has(m, p) == \/ p \in Range(mIn[m]) \/ p = mPack[m]
             \/ p \in Range(matchChan[m]) \/ p = pPack[m]

Holders(p) == {m \in Matchers : Sending(m, p) \/ Has(m, p)}

\* The count of a pack is exactly the number of goroutines and channels that
\* still refer to it, at every step of every interleaving: no reference is
\* dropped twice and none is forgotten (PipelinePack.RefCount is touched by
\* the router, by every MatchRunner and by every plugin).
RefCountExact ==
    \A p \in Packs :
        refCount[p] = Cardinality(Holders(p)) + (IF Owned(p) THEN 1 ELSE 0)

\* A pack on its recycle channel, or in the hands of the next producer, is
\* referred to by no matcher and no plugin: a message is never overwritten
\* under a plugin that is still reading it.
RecycledIsFree ==
    \A p \in recycleChan \cup held \cup Range(inChan) : Holders(p) = {}

\* A closed channel is never sent on: the router has no slot left for a
\* matcher it closed, and no plugin channel is closed with packs to come.
NoSendOnClosed ==
    /\ rpc = "send" => ~closing[Slot(idx)]
    /\ \A m \in Matchers : mDone[m] => mIn[m] = <<>> /\ mPack[m] = Nil

\* The messages sent to m, read or waiting in its channel.
SentTo(m) == seen[m] \o [i \in 1..Len(mIn[m]) |-> msg[mIn[m][i]]]

IsSegment(s, t) ==
    \E i \in 0..Len(t) : i + Len(s) <= Len(t) /\ s = SubSeq(t, i + 1, i + Len(s))

\* Fan-out: every matcher sees the messages in the router's order, each one
\* once and unchanged; a registered matcher has missed none since it was
\* added, and an output none at all.
FanOut ==
    /\ \A m \in Matchers : IsSegment(SentTo(m), routed)
    /\ rpc = "select" =>
         /\ \A m \in Range(fMatchers) \ {Nil} :
               LET k == Len(SentTo(m))
               IN  SentTo(m) = SubSeq(routed, Len(routed) - k + 1, Len(routed))
         /\ \A m \in Range(oMatchers) \ {Nil} : SentTo(m) = routed

\* Every pack a producer takes comes back to the recycle channel: with
\* every channel bounded, no cycle of full channels stops the flow.
PacksComeBack ==
    \A p \in Packs : p \notin recycleChan ~> p \in recycleChan
==============================================================================

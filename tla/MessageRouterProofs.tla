------------------------- MODULE MessageRouterProofs -------------------------
(***************************************************************************)
(* The steps of the MatchRunners and of the plugins keep the invariant of  *)
(* MessageRouterCounts, hence the theorems about the reference counts, the *)
(* recycled packs and the closed channels.                                 *)
(***************************************************************************)
EXTENDS MessageRouterCounts

\* A step of one MatchRunner or its plugin, as the others see it.
LEMMA OwnPlaces ==
    ASSUME IInv, NEW m \in Matchers, UNCHANGED <<sliceVars, routeVars, closing>>,
           \A n \in Matchers \ {m} :
               /\ mIn'[n] = mIn[n] /\ mPack'[n] = mPack[n] /\ mDone'[n] = mDone[n]
               /\ matchChan'[n] = matchChan[n] /\ pPack'[n] = pPack[n],
           HeldOnceBy(m)',
           \A q \in Packs : Has(m, q)' => Has(m, q),
           mDone'[m] => closing[m] /\ mIn'[m] = <<>> /\ mPack'[m] = Nil
    PROVE  /\ SlotsOK' /\ HeldOnce' /\ Passed'
           /\ \A n \in Matchers \ {m}, q \in Packs : Has(n, q)' <=> Has(n, q)
           /\ \A n, q : Sending(n, q)' <=> Sending(n, q)
  <1>1. UNCHANGED <<rpc, cur, idx>>
    BY DEF routeVars
  <1>2. NumSlots' = NumSlots /\ \A i : Slot(i)' = Slot(i)
    BY SlotFrame
  <1>3. SlotsOK'
    <2>1. \A n \in Matchers : mDone'[n] => closing'[n] /\ mIn'[n] = <<>> /\ mPack'[n] = Nil
      BY DEF IInv, SlotsOK
    <2> QED
      BY <1>1, <1>2, <2>1 DEF IInv, SlotsOK, OneSlot, OpenSlots, sliceVars
  <1>4. HeldOnce'
    <2>1. \A n \in Matchers \ {m} : HeldOnceBy(n)'
      BY DEF IInv, HeldOnce, HeldOnceBy
    <2> QED
      BY <2>1 DEF HeldOnce
  <1>5. \A n \in Matchers \ {m}, q \in Packs : Has(n, q)' <=> Has(n, q)
    BY DEF Has
  <1>6. Passed'
    <2> SUFFICES ASSUME rpc # "select", NEW n \in Matchers, Has(n, cur)'
                 PROVE  \E j \in 1..NumSlots' : j < idx' /\ Slot(j)' = n
      BY <1>1 DEF Passed
    <2>1. cur \in Packs
      BY DEF IInv, TypeOK
    <2>2. Has(n, cur)
      <3>1. ASSUME NEW q \in Packs, q = cur PROVE Has(n, q)'
        BY <1>1, <3>1 DEF Has
      <3> QED
        BY <1>5, <2>1, <3>1
    <2> QED
      BY <1>1, <1>2, <2>2 DEF IInv, Passed
  <1>7. \A n, q : Sending(n, q)' <=> Sending(n, q)
    BY <1>1, <1>2 DEF Sending
  <1> QED
    BY <1>3, <1>4, <1>5, <1>6, <1>7

\* A matcher that has a pack is not the one the router is sending it to.
LEMMA HasNotSending ==
    ASSUME IInv, NEW m \in Matchers, NEW p, Has(m, p)
    PROVE  ~Sending(m, p) /\ m \in Holders(p)
  <1>1. ~Sending(m, p)
    <2> SUFFICES ASSUME Sending(m, p) PROVE FALSE
      OBVIOUS
    <2>1. rpc = "send" /\ p = cur /\ m = Slot(idx) /\ idx <= NumSlots
      BY DEF Sending, IInv, SlotsOK
    <2> QED
      BY <2>1, NotYet DEF IInv
  <1> QED
    BY <1>1 DEF Holders

\* The reference of a matcher moves towards its plugin.
LEMMA MoveStep ==
    ASSUME IInv, TypeOK', NEW m \in Matchers,
           UNCHANGED <<packVars, held, inChan, sliceVars, routeVars, closing>>,
           \A n \in Matchers \ {m} :
               /\ mIn'[n] = mIn[n] /\ mPack'[n] = mPack[n] /\ mDone'[n] = mDone[n]
               /\ matchChan'[n] = matchChan[n] /\ pPack'[n] = pPack[n],
           HeldOnceBy(m)',
           \A q \in Packs : Has(m, q)' <=> Has(m, q),
           mDone'[m] => closing[m] /\ mIn'[m] = <<>> /\ mPack'[m] = Nil
    PROVE  IInv'
  <1>1. UNCHANGED <<refCount, recycleChan, cur>>
    BY DEF packVars, routeVars
  <1>2. /\ SlotsOK' /\ HeldOnce' /\ Passed'
        /\ \A n \in Matchers \ {m}, q \in Packs : Has(n, q)' <=> Has(n, q)
        /\ \A n, q : Sending(n, q)' <=> Sending(n, q)
    BY OwnPlaces
  <1>3. OwnedOnce' /\ \A q \in Packs : Owned(q)' <=> Owned(q)
    BY <1>1 DEF IInv, OwnedOnce, Owned
  <1>4. \A q \in Packs : Holders(q)' = Holders(q)
    BY <1>2 DEF Holders
  <1>5. RecycledIsFree' /\ RefCountExact'
    BY <1>1, <1>3, <1>4, MoveRef DEF IInv
  <1> QED
    BY <1>2, <1>3, <1>5 DEF IInv

\* The reference of a matcher is dropped.
LEMMA DropStep ==
    ASSUME IInv, TypeOK', NEW m \in Matchers, NEW p \in Packs, Has(m, p), recycle(p),
           UNCHANGED <<held, inChan, sliceVars, routeVars, closing>>,
           \A n \in Matchers \ {m} :
               /\ mIn'[n] = mIn[n] /\ mPack'[n] = mPack[n] /\ mDone'[n] = mDone[n]
               /\ matchChan'[n] = matchChan[n] /\ pPack'[n] = pPack[n],
           HeldOnceBy(m)',
           \A q \in Packs : Has(m, q)' <=> Has(m, q) /\ q # p,
           mDone'[m] => closing[m] /\ mIn'[m] = <<>> /\ mPack'[m] = Nil
    PROVE  IInv'
  <1>1. cur' = cur
    BY DEF routeVars
  <1>2. /\ SlotsOK' /\ HeldOnce' /\ Passed'
        /\ \A n \in Matchers \ {m}, q \in Packs : Has(n, q)' <=> Has(n, q)
        /\ \A n, q : Sending(n, q)' <=> Sending(n, q)
    BY OwnPlaces
  <1>3. ~Sending(m, p) /\ m \in Holders(p)
    BY HasNotSending
  <1>4. Holders(p)' = Holders(p) \ {m}
    BY <1>2, <1>3 DEF Holders
  <1>5. \A q \in Packs \ {p} : Holders(q)' = Holders(q)
    BY <1>2 DEF Holders
  <1>6. OwnedOnce' /\ RecycledIsFree' /\ RefCountExact'
    BY <1>1, <1>3, <1>4, <1>5, DropRef DEF IInv
  <1> QED
    BY <1>2, <1>6 DEF IInv

\* The steps of a MatchRunner and of its plugin.
LEMMA MatcherStep ==
    ASSUME IInv, TypeOK', NEW m \in Matchers,
           MatchRun(m) \/ PluginTake(m) \/ PluginRecycle(m)
    PROVE  IInv'
  <1> DEFINE Others ==
               \A n \in Matchers \ {m} :
                   /\ mIn'[n] = mIn[n] /\ mPack'[n] = mPack[n] /\ mDone'[n] = mDone[n]
                   /\ matchChan'[n] = matchChan[n] /\ pPack'[n] = pPack[n]
             DoneOK == mDone'[m] => closing[m] /\ mIn'[m] = <<>> /\ mPack'[m] = Nil
  <1>1. /\ HeldOnceBy(m) /\ mIn[m] \in Seq(Packs) /\ matchChan[m] \in Seq(Packs)
        /\ NoDup(mIn[m]) /\ NoDup(matchChan[m]) /\ Nil \notin Packs
        /\ Range(mIn[m]) \subseteq Packs /\ Range(matchChan[m]) \subseteq Packs
        /\ mPack[m] \in Packs \cup {Nil} /\ pPack[m] \in Packs \cup {Nil}
        /\ mDone[m] => closing[m] /\ mIn[m] = <<>> /\ mPack[m] = Nil
    BY RouterAssumption, RangeInPacks
    DEF IInv, TypeOK, SlotsOK, HeldOnce, HeldOnceBy
  <1>2. CASE MatchSkip(m)
    <2> DEFINE h == Head(mIn[m])
    <2>1. /\ mPack[m] = Nil /\ mIn[m] # <<>> /\ recycle(h)
          /\ mIn'[m] = Tail(mIn[m])
          /\ UNCHANGED <<held, inChan, sliceVars, routeVars, closing, mPack,
                         matchChan, mDone, pPack>>
      BY <1>2 DEF MatchSkip, IInv, TypeOK
    <2>2. Others
      BY <1>2 DEF MatchSkip, IInv, TypeOK
    <2>3. /\ h \in Packs /\ h \in Range(mIn[m]) /\ NoDup(mIn'[m])
          /\ Range(mIn'[m]) = Range(mIn[m]) \ {h}
      <3>1. mIn[m] \in Seq(Packs) /\ NoDup(mIn[m]) /\ mIn[m] # <<>>
        BY <1>1, <2>1
      <3>2. /\ h \in Packs /\ h \in Range(mIn[m]) /\ NoDup(Tail(mIn[m]))
            /\ Range(Tail(mIn[m])) = Range(mIn[m]) \ {h}
        BY ONLY <3>1, RangeTail
      <3>3. mIn'[m] = Tail(mIn[m])
        BY <2>1
      <3> QED
        BY <3>2, <3>3, Zenon
    <2> HIDE DEF h
    <2>4. HeldOnceBy(m)'
      BY <1>1, <2>1, <2>3 DEF HeldOnceBy
    <2>5. Has(m, h) /\ \A q \in Packs : Has(m, q)' <=> Has(m, q) /\ q # h
      BY <1>1, <2>1, <2>3 DEF Has, HeldOnceBy
    <2>6. DoneOK
      BY <1>1, <2>1
    <2> QED
      BY <2>1, <2>2, <2>3, <2>4, <2>5, <2>6, DropStep
  <1>3. CASE MatchTake(m)
    <2> DEFINE h == Head(mIn[m])
    <2>1. /\ mPack[m] = Nil /\ mIn[m] # <<>>
          /\ mIn'[m] = Tail(mIn[m]) /\ mPack'[m] = h
          /\ UNCHANGED <<packVars, held, inChan, sliceVars, routeVars, closing,
                         matchChan, mDone, pPack>>
      BY <1>3 DEF MatchTake, IInv, TypeOK
    <2>2. Others
      BY <1>3 DEF MatchTake, IInv, TypeOK
    <2>3. /\ h \in Packs /\ h \in Range(mIn[m]) /\ NoDup(mIn'[m])
          /\ Range(mIn'[m]) = Range(mIn[m]) \ {h}
      <3>1. mIn[m] \in Seq(Packs) /\ NoDup(mIn[m]) /\ mIn[m] # <<>>
        BY <1>1, <2>1
      <3>2. /\ h \in Packs /\ h \in Range(mIn[m]) /\ NoDup(Tail(mIn[m]))
            /\ Range(Tail(mIn[m])) = Range(mIn[m]) \ {h}
        BY ONLY <3>1, RangeTail
      <3>3. mIn'[m] = Tail(mIn[m])
        BY <2>1
      <3> QED
        BY <3>2, <3>3, Zenon
    <2> HIDE DEF h
    <2>4. HeldOnceBy(m)'
      BY <1>1, <2>1, <2>3 DEF HeldOnceBy
    <2>5. \A q \in Packs : Has(m, q)' <=> Has(m, q)
      BY <1>1, <2>1, <2>3 DEF Has
    <2>6. DoneOK
      BY <1>1, <2>1
    <2> QED
      BY <2>1, <2>2, <2>4, <2>5, <2>6, MoveStep
  <1>4. CASE DeliverToChan(m)
    <2> DEFINE h == mPack[m]
    <2>1. /\ h # Nil /\ h \in Packs
          /\ matchChan'[m] = Append(matchChan[m], h) /\ mPack'[m] = Nil
          /\ UNCHANGED <<packVars, held, inChan, sliceVars, routeVars, mIn, closing,
                         mDone, pPack>>
      BY <1>4 DEF DeliverToChan, IInv, TypeOK
    <2>2. Others
      BY <1>4 DEF DeliverToChan, IInv, TypeOK
    <2>3. h \notin Range(matchChan[m])
      BY <1>1 DEF HeldOnceBy
    <2>4. NoDup(matchChan'[m]) /\ Range(matchChan'[m]) = Range(matchChan[m]) \cup {h}
      <3>1. matchChan[m] \in Seq(Packs) /\ NoDup(matchChan[m]) /\ h \in Packs
        BY <1>1, <2>1
      <3>2. /\ NoDup(Append(matchChan[m], h))
            /\ Range(Append(matchChan[m], h)) = Range(matchChan[m]) \cup {h}
        BY ONLY <2>3, <3>1, RangeAppend
      <3>3. matchChan'[m] = Append(matchChan[m], h)
        BY <2>1
      <3> QED
        BY <3>2, <3>3, Zenon
    <2>5. HeldOnceBy(m)'
      BY <1>1, <2>1, <2>4 DEF HeldOnceBy
    <2>6. \A q \in Packs : Has(m, q)' <=> Has(m, q)
      BY <1>1, <2>1, <2>4 DEF Has
    <2>7. DoneOK
      BY <1>1, <2>1
    <2> QED
      BY <2>1, <2>2, <2>5, <2>6, <2>7, MoveStep
  <1>5. CASE DeliverToQueue(m)
    <2> DEFINE h == mPack[m]
    <2>1. /\ h # Nil /\ h \in Packs /\ recycle(h) /\ mPack'[m] = Nil
          /\ UNCHANGED <<held, inChan, sliceVars, routeVars, mIn, closing,
                         matchChan, mDone, pPack>>
      BY <1>5 DEF DeliverToQueue, IInv, TypeOK
    <2>2. Others
      BY <1>5 DEF DeliverToQueue, IInv, TypeOK
    <2>3. HeldOnceBy(m)'
      BY <1>1, <2>1 DEF HeldOnceBy
    <2>4. Has(m, h) /\ \A q \in Packs : Has(m, q)' <=> Has(m, q) /\ q # h
      BY <1>1, <2>1 DEF Has, HeldOnceBy
    <2>5. DoneOK
      BY <1>1, <2>1
    <2> QED
      BY <2>1, <2>2, <2>3, <2>4, <2>5, DropStep
  <1>6. CASE MatchExit(m)
    <2>1. /\ closing[m] /\ mIn[m] = <<>> /\ mPack[m] = Nil
          /\ UNCHANGED <<packVars, held, inChan, sliceVars, routeVars, mIn, closing,
                         mPack, matchChan, pPack>>
      BY <1>6 DEF MatchExit
    <2>2. Others
      BY <1>6 DEF MatchExit, IInv, TypeOK
    <2>3. HeldOnceBy(m)' /\ \A q \in Packs : Has(m, q)' <=> Has(m, q)
      BY <1>1, <2>1 DEF HeldOnceBy, Has
    <2>4. DoneOK
      BY <2>1
    <2> QED
      BY <2>1, <2>2, <2>3, <2>4, MoveStep
  <1>7. CASE PluginTake(m)
    <2> DEFINE h == Head(matchChan[m])
    <2>1. /\ pPack[m] = Nil /\ matchChan[m] # <<>>
          /\ matchChan'[m] = Tail(matchChan[m]) /\ pPack'[m] = h
          /\ UNCHANGED <<packVars, held, inChan, sliceVars, routeVars, mIn, closing,
                         mPack, mDone>>
      BY <1>7 DEF PluginTake, IInv, TypeOK
    <2>2. Others
      BY <1>7 DEF PluginTake, IInv, TypeOK
    <2>3. /\ h \in Packs /\ h \in Range(matchChan[m]) /\ NoDup(matchChan'[m])
          /\ Range(matchChan'[m]) = Range(matchChan[m]) \ {h}
      <3>1. matchChan[m] \in Seq(Packs) /\ NoDup(matchChan[m]) /\ matchChan[m] # <<>>
        BY <1>1, <2>1
      <3>2. /\ h \in Packs /\ h \in Range(matchChan[m]) /\ NoDup(Tail(matchChan[m]))
            /\ Range(Tail(matchChan[m])) = Range(matchChan[m]) \ {h}
        BY ONLY <3>1, RangeTail
      <3>3. matchChan'[m] = Tail(matchChan[m])
        BY <2>1
      <3> QED
        BY <3>2, <3>3, Zenon
    <2> HIDE DEF h
    <2>4. HeldOnceBy(m)'
      BY <1>1, <2>1, <2>3 DEF HeldOnceBy
    <2>5. \A q \in Packs : Has(m, q)' <=> Has(m, q)
      BY <1>1, <2>1, <2>3 DEF Has
    <2>6. DoneOK
      BY <1>1, <2>1
    <2> QED
      BY <2>1, <2>2, <2>4, <2>5, <2>6, MoveStep
  <1>8. CASE PluginRecycle(m)
    <2> DEFINE h == pPack[m]
    <2>1. /\ h # Nil /\ h \in Packs /\ recycle(h) /\ pPack'[m] = Nil
          /\ UNCHANGED <<held, inChan, sliceVars, routeVars, mIn, closing, mPack,
                         matchChan, mDone>>
      BY <1>8 DEF PluginRecycle, IInv, TypeOK, matchVars
    <2>2. Others
      BY <1>8 DEF PluginRecycle, IInv, TypeOK, matchVars
    <2>3. HeldOnceBy(m)'
      BY <1>1, <2>1 DEF HeldOnceBy
    <2>4. Has(m, h) /\ \A q \in Packs : Has(m, q)' <=> Has(m, q) /\ q # h
      BY <1>1, <2>1 DEF Has, HeldOnceBy
    <2>5. DoneOK
      BY <1>1, <2>1
    <2> QED
      BY <2>1, <2>2, <2>3, <2>4, <2>5, DropStep
  <1> QED
    BY <1>2, <1>3, <1>4, <1>5, <1>6, <1>7, <1>8 DEF MatchRun

\* The invariant holds when every pack is on its recycle channel.
LEMMA InvInit == Init => IInv
  <1> SUFFICES ASSUME Init
               PROVE  IInv
    OBVIOUS
  <1>1. TypeOK
    BY TypeInit
  <1>2. /\ \A m \in Matchers : /\ Range(mIn[m]) = {} /\ Range(matchChan[m]) = {}
                              /\ Len(mIn[m]) = 0 /\ Len(matchChan[m]) = 0
        /\ Range(inChan) = {} /\ Len(inChan) = 0
    BY DEF Init, Range
  <1>3. SlotsOK
    <2>1. \A i \in 1..Len(fMatchers) : fMatchers[i] \in Matchers \cup {Nil}
      BY <1>1, ElementOfSeq DEF TypeOK, Matchers
    <2>2. \A i \in 1..Len(oMatchers) : oMatchers[i] \in Matchers \cup {Nil}
      BY <1>1, ElementOfSeq DEF TypeOK, Matchers
    <2>3. DOMAIN fMatchers = 1..Len(fMatchers) /\ DOMAIN oMatchers = 1..Len(oMatchers)
      BY <1>1, LenProperties DEF TypeOK
    <2>4. OneSlot(fMatchers) /\ OneSlot(oMatchers)
      BY <2>3 DEF Init, Slices, OneSlot
    <2>5. OpenSlots(fMatchers) /\ OpenSlots(oMatchers)
      BY <2>1, <2>2 DEF Init, OpenSlots
    <2> QED
      BY <2>4, <2>5 DEF Init, SlotsOK
  <1>4. OwnedOnce
    BY <1>2, RouterAssumption DEF Init, OwnedOnce, NoDup
  <1>5. HeldOnce
    BY <1>2 DEF Init, HeldOnce, HeldOnceBy, NoDup
  <1>6. Passed
    BY DEF Init, Passed
  <1>7. \A p \in Packs : Holders(p) = {}
    <2>1. \A p \in Packs, m \in Matchers : ~Has(m, p) /\ ~Sending(m, p)
      BY <1>2, RouterAssumption DEF Init, Has, Sending
    <2> QED
      BY <2>1 DEF Holders
  <1>8. RecycledIsFree
    BY <1>2, <1>7 DEF Init, RecycledIsFree
  <1>9. RefCountExact
    <2>1. \A p \in Packs : Owned(p) /\ refCount[p] = 1
      BY DEF Init, Owned
    <2>2. \A p \in Packs : Cardinality(Holders(p)) = 0
      BY <1>7, FS_EmptySet
    <2> QED
      BY <2>1, <2>2 DEF RefCountExact
  <1> QED
    BY <1>1, <1>3, <1>4, <1>5, <1>6, <1>8, <1>9 DEF IInv

\* Every step keeps the invariant.
LEMMA InvStep == IInv /\ [Next]_vars => IInv'
  <1> SUFFICES ASSUME IInv, [Next]_vars
               PROVE  IInv'
    OBVIOUS
  <1>1. TypeOK'
    BY TypeStep DEF IInv
  <1>2. CASE UNCHANGED vars
    <2>1. UNCHANGED <<mIn, mPack, matchChan, pPack, refCount, recycleChan, held,
                      inChan, rpc, cur, idx, closing, mDone, sliceVars>>
      BY <1>2 DEF vars, sliceVars
    <2>2. HeldOnce' /\ \A n, q : Has(n, q)' <=> Has(n, q)
      BY <2>1, HasFrame DEF IInv
    <2>3. NumSlots' = NumSlots /\ \A i : Slot(i)' = Slot(i)
      BY <2>1, SlotFrame
    <2>4. SlotsOK'
      BY <2>1, <2>3 DEF IInv, SlotsOK, OneSlot, OpenSlots, sliceVars
    <2>5. OwnedOnce' /\ \A q : Owned(q)' <=> Owned(q)
      BY <2>1 DEF IInv, OwnedOnce, Owned
    <2>6. Passed'
      BY <2>1, <2>2, <2>3 DEF IInv, Passed
    <2>7. \A q : Holders(q)' = Holders(q)
      BY <2>1, <2>2, <2>3 DEF Holders, Sending
    <2>8. RecycledIsFree' /\ RefCountExact'
      BY <2>1, <2>5, <2>7, MoveRef DEF IInv
    <2> QED
      BY <1>1, <2>2, <2>4, <2>5, <2>6, <2>8 DEF IInv
  <1>3. ASSUME NEW p \in Packs, Produce(p) \/ Inject(p)
        PROVE  IInv'
    BY <1>1, <1>3, ProducerStep
  <1>4. ASSUME NEW m \in Filters, AddFilterMatcher(m)
        PROVE  IInv'
    BY <1>1, <1>4, AddStep
  <1>5. ASSUME NEW m \in Filters, RemoveFilterMatcher(m)
        PROVE  IInv'
    BY <1>1, <1>5, RemoveStep DEF Matchers
  <1>6. ASSUME NEW m \in Outputs, RemoveOutputMatcher(m)
        PROVE  IInv'
    BY <1>1, <1>6, RemoveStep DEF Matchers
  <1>7. CASE Route
    BY <1>1, <1>7, ReceiveStep, AddRefStep, SendStep, RecycleStep DEF Route
  <1>8. ASSUME NEW m \in Matchers, MatchRun(m) \/ PluginTake(m) \/ PluginRecycle(m)
        PROVE  IInv'
    BY <1>1, <1>8, MatcherStep
  <1> QED
    BY <1>2, <1>3, <1>4, <1>5, <1>6, <1>7, <1>8 DEF Next

\* The invariant is one of every behaviour of the router.
LEMMA InvCorrect == Spec => []IInv
  BY InvInit, InvStep, PTL DEF Spec

\* The count of a pack (PipelinePack.RefCount) is the number of references
\* to it in every interleaving of producers, router, MatchRunners and
\* plugins, whatever the size of the pool, the channels and the matcher sets.
THEOREM RefCountCorrect == Spec => []RefCountExact
  <1>1. IInv => RefCountExact
    BY DEF IInv
  <1> QED
    BY <1>1, InvCorrect, PTL

\* PipelinePack.recycle never hands a pack to a producer while a matcher or
\* a plugin still refers to it.
THEOREM RecycleCorrect == Spec => []RecycledIsFree
  <1>1. IInv => RecycledIsFree
    BY DEF IInv
  <1> QED
    BY <1>1, InvCorrect, PTL

\* The router never sends on a MatchRunner's channel it has closed, and a
\* MatchRunner never closes its plugin's channel with a pack left to deliver.
THEOREM CloseCorrect == Spec => []NoSendOnClosed
  <1>1. IInv => NoSendOnClosed
    <2> SUFFICES ASSUME IInv
                 PROVE  NoSendOnClosed
      OBVIOUS
    <2>1. ASSUME rpc = "send"
          PROVE  ~closing[Slot(idx)]
      <3>1. idx \in 1..NumSlots /\ Slot(idx) # Nil
        BY <2>1, LenProperties DEF IInv, TypeOK, SlotsOK, NumSlots
      <3> QED
        BY <3>1, SlotUnique DEF IInv
    <2> QED
      BY <2>1 DEF IInv, SlotsOK, NoSendOnClosed
  <1> QED
    BY <1>1, InvCorrect, PTL
==============================================================================

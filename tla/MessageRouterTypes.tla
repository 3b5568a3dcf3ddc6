-------------------------- MODULE MessageRouterTypes --------------------------
(***************************************************************************)
(* Facts about the router's channels and slices, and type correctness, for *)
(* every pool, every set of matchers and every channel size.               *)
(***************************************************************************)
EXTENDS MessageRouter, FiniteSetTheorems, SequenceTheorems, TLAPS

------------------------------------------------------------------------------
(* Sequences without repetition.                                           *)

NoDup(s) == \A i, j \in 1..Len(s) : s[i] = s[j] => i = j

\* A send on a channel adds one element to what the channel holds.
LEMMA RangeAppend ==
    ASSUME NEW S, NEW s \in Seq(S), NEW e \in S
    PROVE  /\ Append(s, e) \in Seq(S)
           /\ Len(Append(s, e)) = Len(s) + 1
           /\ Range(Append(s, e)) = Range(s) \cup {e}
           /\ NoDup(s) /\ e \notin Range(s) => NoDup(Append(s, e))
  <1> DEFINE t == Append(s, e)
             n == Len(s)
  <1>1. /\ t \in Seq(S) /\ Len(t) = n + 1 /\ t[n + 1] = e
        /\ \A i \in 1..n : t[i] = s[i]
        /\ n \in Nat /\ DOMAIN s = 1..n /\ DOMAIN t = 1..(n + 1)
    BY AppendProperties, LenProperties
  <1> HIDE DEF t, n
  <1>2. Range(t) = Range(s) \cup {e}
    <2>1. ASSUME NEW i \in 1..(n + 1)
          PROVE  t[i] \in Range(s) \cup {e}
      <3>1. i \in 1..n \/ i = n + 1
        BY <1>1
      <3> QED
        BY <3>1, <1>1 DEF Range
    <2>2. ASSUME NEW i \in 1..n
          PROVE  s[i] \in Range(t)
      <3>1. i \in 1..(n + 1) /\ t[i] = s[i]
        BY <1>1
      <3> QED
        BY <3>1, <1>1 DEF Range
    <2>3. e \in Range(t)
      <3>1. n + 1 \in 1..(n + 1)
        BY <1>1
      <3> QED
        BY <3>1, <1>1 DEF Range
    <2> QED
      BY <2>1, <2>2, <2>3, <1>1 DEF Range
  <1>3. ASSUME NoDup(s), e \notin Range(s)
        PROVE  NoDup(t)
    <2> SUFFICES ASSUME NEW i \in 1..(n + 1), NEW j \in 1..(n + 1), t[i] = t[j]
                 PROVE  i = j
      BY <1>1 DEF NoDup
    <2>1. \A k \in 1..n : s[k] # e
      BY <1>1, <1>3 DEF Range
    <2>2. /\ i \in 1..n \/ i = n + 1
          /\ j \in 1..n \/ j = n + 1
      BY <1>1
    <2> QED
      BY <1>1, <1>3, <2>1, <2>2 DEF NoDup, n
  <1> QED
    BY <1>1, <1>2, <1>3 DEF t, n

\* A receive takes the head away and leaves the rest.
LEMMA RangeTail ==
    ASSUME NEW S, NEW s \in Seq(S), s # <<>>
    PROVE  /\ Head(s) \in S /\ Head(s) \in Range(s)
           /\ Tail(s) \in Seq(S) /\ Len(Tail(s)) = Len(s) - 1
           /\ Range(Tail(s)) \subseteq Range(s)
           /\ NoDup(s) => /\ NoDup(Tail(s))
                          /\ Range(Tail(s)) = Range(s) \ {Head(s)}
  <1> DEFINE t == Tail(s)
             n == Len(s)
             h == Head(s)
  <1>1. /\ h = s[1] /\ h \in S /\ t \in Seq(S) /\ Len(t) = n - 1
        /\ n \in Nat /\ n > 0
        /\ \A i \in 1..(n - 1) : t[i] = s[i + 1]
        /\ DOMAIN s = 1..n /\ DOMAIN t = 1..(n - 1)
    BY HeadTailProperties, LenProperties, EmptySeq
  <1> HIDE DEF t, n, h
  <1>2. h \in Range(s)
    <2>1. 1 \in 1..n
      BY <1>1
    <2> QED
      BY <2>1, <1>1 DEF Range
  <1>3. Range(t) \subseteq Range(s)
    <2>1. ASSUME NEW i \in 1..(n - 1)
          PROVE  t[i] \in Range(s)
      <3>1. i + 1 \in 1..n /\ t[i] = s[i + 1]
        BY <1>1
      <3> QED
        BY <3>1, <1>1 DEF Range
    <2> QED
      BY <2>1, <1>1 DEF Range
  <1>4. Range(s) \subseteq Range(t) \cup {h}
    <2>1. ASSUME NEW i \in 1..n
          PROVE  s[i] \in Range(t) \cup {h}
      <3>1. i = 1 \/ (i - 1 \in 1..(n - 1) /\ t[i - 1] = s[i])
        BY <1>1
      <3> QED
        BY <3>1, <1>1 DEF Range
    <2> QED
      BY <2>1, <1>1 DEF Range
  <1>5. ASSUME NoDup(s)
        PROVE  NoDup(t) /\ h \notin Range(t)
    <2>1. ASSUME NEW i \in 1..(n - 1), NEW j \in 1..(n - 1), t[i] = t[j]
          PROVE  i = j
      <3>1. /\ i + 1 \in 1..n /\ j + 1 \in 1..n
            /\ t[i] = s[i + 1] /\ t[j] = s[j + 1]
        BY <1>1
      <3>2. i + 1 = j + 1
        BY <3>1, <2>1, <1>5 DEF NoDup, n
      <3> QED
        BY <3>2
    <2>2. ASSUME NEW i \in 1..(n - 1), t[i] = h
          PROVE  FALSE
      <3>1. /\ i + 1 \in 1..n /\ 1 \in 1..n /\ s[i + 1] = s[1]
        BY <1>1, <2>2
      <3>2. i + 1 = 1
        BY <3>1, <1>5 DEF NoDup, n
      <3> QED
        BY <3>2
    <2> QED
      BY <2>1, <2>2, <1>1 DEF NoDup, Range
  <1> QED
    BY <1>1, <1>2, <1>3, <1>4, <1>5 DEF t, n, h

------------------------------------------------------------------------------
(* Type correctness.                                                       *)

\* Slots of the two loops are matchers or nil.
LEMMA SlotType ==
    ASSUME TypeOK, NEW i \in 1..NumSlots
    PROVE  Slot(i) \in Matchers \cup {Nil}
  <1>1. Len(fMatchers) \in Nat /\ Len(oMatchers) \in Nat
    BY DEF TypeOK
  <1>2. CASE i <= Len(fMatchers)
    BY <1>1, <1>2 DEF Slot, TypeOK, Matchers, NumSlots
  <1>3. CASE ~(i <= Len(fMatchers))
    <2>1. i - Len(fMatchers) \in 1..Len(oMatchers)
      BY <1>1, <1>3 DEF NumSlots
    <2> QED
      BY <2>1, <1>3 DEF Slot, TypeOK, Matchers
  <1> QED
    BY <1>2, <1>3

\* recycle keeps the counts positive and the message table well formed.
LEMMA RecycleType ==
    ASSUME TypeOK, NEW p \in Packs, recycle(p)
    PROVE  /\ refCount' \in [Packs -> Nat \ {0}]
           /\ msg' \in [Packs -> 0..MaxMsgs]
           /\ recycleChan' \subseteq Packs
  <1>1. MaxMsgs \in Nat
    BY RouterAssumption
  <1>2. CASE refCount[p] = 1
    <2>1. /\ recycleChan' = recycleChan \cup {p}
          /\ msg' = [msg EXCEPT ![p] = 0]
          /\ refCount' = refCount
      BY <1>2 DEF recycle
    <2>2. 0 \in 0..MaxMsgs
      BY <1>1
    <2>3. msg' \in [Packs -> 0..MaxMsgs]
      BY <2>1, <2>2 DEF TypeOK
    <2> QED
      BY <2>1, <2>3 DEF TypeOK
  <1>3. CASE refCount[p] # 1
    <2>1. refCount[p] - 1 \in Nat \ {0}
      BY <1>3 DEF TypeOK
    <2> QED
      BY <1>3, <2>1 DEF recycle, TypeOK
  <1> QED
    BY <1>2, <1>3

\* The packs and messages found at the head of a channel have their types.
LEMMA HeadType ==
    ASSUME TypeOK, NEW s \in Seq(Packs), s # <<>>
    PROVE  /\ Head(s) \in Packs /\ Head(s) # Nil
           /\ Tail(s) \in Seq(Packs)
           /\ Len(s) \in Nat /\ Len(Tail(s)) = Len(s) - 1
           /\ msg[Head(s)] \in 0..MaxMsgs
  BY RangeTail, RouterAssumption, LenProperties DEF TypeOK

\* A channel of packs holds packs.
LEMMA RangeInPacks ==
    ASSUME TypeOK
    PROVE  /\ Range(inChan) \subseteq Packs
           /\ \A m \in Matchers : /\ Range(mIn[m]) \subseteq Packs
                                 /\ Range(matchChan[m]) \subseteq Packs
  BY LenProperties DEF TypeOK, Range

\* A send or a receive on one matcher's channel keeps the others as they are.
LEMMA ChanUpdate ==
    ASSUME NEW f \in [Matchers -> Seq(Packs)], NEW m \in Matchers, NEW s \in Seq(Packs),
           \A n \in Matchers : Len(f[n]) <= PluginChanSize, Len(s) <= PluginChanSize
    PROVE  /\ [f EXCEPT ![m] = s] \in [Matchers -> Seq(Packs)]
           /\ \A n \in Matchers : Len([f EXCEPT ![m] = s][n]) <= PluginChanSize
  <1>1. ASSUME NEW n \in Matchers
        PROVE  Len([f EXCEPT ![m] = s][n]) <= PluginChanSize
    <2>1. CASE n = m
      BY <2>1
    <2>2. CASE n # m
      BY <2>2
    <2> QED
      BY <2>1, <2>2
  <1> QED
    BY <1>1

\* Emptying a slot of a slice leaves a slice of the same length.
LEMMA NilSlotSeq ==
    ASSUME NEW S, NEW s \in Seq(S \cup {Nil}), NEW m
    PROVE  LET t == [i \in DOMAIN s |-> IF s[i] = m THEN Nil ELSE s[i]]
           IN  t \in Seq(S \cup {Nil}) /\ Len(t) = Len(s)
  <1> DEFINE t == [i \in DOMAIN s |-> IF s[i] = m THEN Nil ELSE s[i]]
  <1>1. /\ Len(s) \in Nat /\ DOMAIN s = 1..Len(s)
        /\ \A i \in 1..Len(s) : s[i] \in S \cup {Nil}
    BY LenProperties, ElementOfSeq
  <1>2. t = [i \in 1..Len(s) |-> IF s[i] = m THEN Nil ELSE s[i]]
    BY <1>1
  <1>3. t \in [1..Len(s) -> S \cup {Nil}]
    BY <1>1, <1>2
  <1>4. t \in Seq(S \cup {Nil})
    BY <1>3, <1>1, IsASeq
  <1>5. Len(t) = Len(s)
    BY <1>1, <1>3, <1>4, LenProperties
  <1> QED
    BY <1>4, <1>5

\* Every step keeps the types.
LEMMA TypeStep == TypeOK /\ [Next]_vars => TypeOK'
  <1> SUFFICES ASSUME TypeOK, [Next]_vars
               PROVE  TypeOK'
    OBVIOUS
  <1> USE RouterAssumption
  <1>1. CASE UNCHANGED vars
    BY <1>1 DEF TypeOK, vars
  <1>2. ASSUME NEW p \in Packs, Produce(p)
        PROVE  TypeOK'
    <2>1. produced + 1 \in 0..MaxMsgs
      BY <1>2 DEF Produce, TypeOK
    <2> QED
      BY <1>2, <2>1 DEF Produce, TypeOK, sliceVars, routeVars, matchVars
  <1>3. ASSUME NEW p \in Packs, Inject(p)
        PROVE  TypeOK'
    <2>1. inChan' \in Seq(Packs) /\ Len(inChan') = Len(inChan) + 1
      BY <1>3, RangeAppend DEF Inject, TypeOK
    <2>2. Len(inChan') <= PluginChanSize
      BY <1>3, <2>1 DEF Inject, TypeOK
    <2> QED
      BY <1>3, <2>1, <2>2
      DEF Inject, TypeOK, packVars, sliceVars, routeVars, matchVars
  <1>4. ASSUME NEW m \in Filters, AddFilterMatcher(m)
        PROVE  TypeOK'
    <2>1. fMatchers' \in Seq(Filters \cup {Nil})
      <3>1. CASE m \in Range(fMatchers)
        BY <1>4, <3>1 DEF AddFilterMatcher, TypeOK
      <3>2. CASE m \notin Range(fMatchers) /\ FreeSlots = {}
        BY <1>4, <3>2, AppendProperties DEF AddFilterMatcher, TypeOK
      <3>3. CASE m \notin Range(fMatchers) /\ FreeSlots # {}
        <4> DEFINE last == CHOOSE i \in FreeSlots : \A j \in FreeSlots : j <= i
        <4>1. fMatchers' = [fMatchers EXCEPT ![last] = m]
          BY <1>4, <3>3 DEF AddFilterMatcher
        <4> HIDE DEF last
        <4>2. /\ fMatchers \in [1..Len(fMatchers) -> Filters \cup {Nil}]
              /\ Len(fMatchers) \in Nat
          BY LenProperties DEF TypeOK
        <4>3. fMatchers' \in [1..Len(fMatchers) -> Filters \cup {Nil}]
          BY <4>1, <4>2
        <4> QED
          BY <4>2, <4>3, IsASeq
      <3> QED
        BY <3>1, <3>2, <3>3
    <2> QED
      BY <1>4, <2>1
      DEF AddFilterMatcher, TypeOK, packVars, routeVars, matchVars
  <1>5. ASSUME NEW m \in Filters, RemoveFilterMatcher(m)
        PROVE  TypeOK'
    <2>1. fMatchers' \in Seq(Filters \cup {Nil})
      <3>1. fMatchers \in Seq(Filters \cup {Nil})
        BY DEF TypeOK
      <3>2. [i \in DOMAIN fMatchers |->
               IF fMatchers[i] = m THEN Nil ELSE fMatchers[i]]
                 \in Seq(Filters \cup {Nil})
        BY <3>1, NilSlotSeq, Zenon
      <3> QED
        BY <1>5, <3>2 DEF RemoveFilterMatcher
    <2>2. closing' \in [Matchers -> BOOLEAN]
      BY <1>5 DEF RemoveFilterMatcher, TypeOK
    <2> QED
      BY <1>5, <2>1, <2>2 DEF RemoveFilterMatcher, TypeOK, packVars, routeVars
  <1>6. ASSUME NEW m \in Outputs, RemoveOutputMatcher(m)
        PROVE  TypeOK'
    <2>1. oMatchers' \in Seq(Outputs \cup {Nil})
      <3>1. oMatchers \in Seq(Outputs \cup {Nil})
        BY DEF TypeOK
      <3>2. [i \in DOMAIN oMatchers |->
               IF oMatchers[i] = m THEN Nil ELSE oMatchers[i]]
                 \in Seq(Outputs \cup {Nil})
        BY <3>1, NilSlotSeq, Zenon
      <3> QED
        BY <1>6, <3>2 DEF RemoveOutputMatcher
    <2>2. closing' \in [Matchers -> BOOLEAN]
      BY <1>6 DEF RemoveOutputMatcher, TypeOK
    <2> QED
      BY <1>6, <2>1, <2>2 DEF RemoveOutputMatcher, TypeOK, packVars, routeVars
  <1>7. CASE RouteReceive
    <2>1. /\ Head(inChan) \in Packs /\ Head(inChan) # Nil
          /\ Tail(inChan) \in Seq(Packs)
          /\ Len(Tail(inChan)) = Len(inChan) - 1 /\ Len(inChan) \in Nat
          /\ msg[Head(inChan)] \in 0..MaxMsgs
      BY <1>7, HeadType DEF RouteReceive, TypeOK
    <2>2. routed' \in Seq(0..MaxMsgs)
      BY <1>7, <2>1, AppendProperties DEF RouteReceive, TypeOK
    <2> QED
      BY <1>7, <2>1, <2>2
      DEF RouteReceive, TypeOK, packVars, sliceVars, matchVars
  <1>8. CASE RouteAddRef
    <2>1. cur \in Packs
      BY <1>8 DEF RouteAddRef, TypeOK
    <2>2. refCount' \in [Packs -> Nat \ {0}]
      <3>1. refCount \in [Packs -> Nat \ {0}] /\ refCount[cur] + 1 \in Nat \ {0}
        BY <2>1 DEF TypeOK
      <3>2. \/ refCount' = refCount
            \/ refCount' = [refCount EXCEPT ![cur] = refCount[cur] + 1]
        BY <1>8 DEF RouteAddRef
      <3> QED
        BY <3>1, <3>2
    <2> QED
      BY <1>8, <2>1, <2>2 DEF RouteAddRef, TypeOK, sliceVars, matchVars
  <1>9. CASE RouteSend
    <2>1. cur \in Packs
      BY <1>9 DEF RouteSend, TypeOK
    <2>2. ASSUME NEW m \in Matchers
          PROVE  mIn'[m] \in Seq(Packs) /\ Len(mIn'[m]) <= PluginChanSize
      <3>1. CASE m = Slot(idx)
        <4>1. mIn[m] \in Seq(Packs) /\ Len(mIn[m]) < PluginChanSize
          BY <1>9, <3>1 DEF RouteSend, TypeOK
        <4>2. mIn'[m] = Append(mIn[m], cur)
          BY <1>9, <3>1 DEF RouteSend, TypeOK
        <4> QED
          BY <4>1, <4>2, <2>1, RangeAppend, LenProperties
      <3>2. CASE m # Slot(idx)
        BY <1>9, <3>2 DEF RouteSend, TypeOK
      <3> QED
        BY <3>1, <3>2
    <2>3. mIn' = [m \in Matchers |-> mIn'[m]]
      BY <1>9 DEF RouteSend, TypeOK
    <2>4. mIn' \in [Matchers -> Seq(Packs)]
      BY <2>2, <2>3
    <2>5. /\ rpc' = "loop" /\ idx' = idx + 1
          /\ UNCHANGED <<packVars, held, inChan, sliceVars, cur, closing, mPack,
                         matchChan, mDone, pPack, produced, routed, seen>>
          /\ rpc = "send"
      BY <1>9 DEF RouteSend
    <2>6. \A m \in Matchers : Len(mIn'[m]) <= PluginChanSize
      BY <2>2
    <2> QED
      BY <2>1, <2>4, <2>5, <2>6 DEF TypeOK, packVars, sliceVars
  <1>10. CASE RouteRecycle
    <2>1. cur \in Packs
      BY <1>10 DEF RouteRecycle, TypeOK
    <2> QED
      BY <1>10, <2>1, RecycleType
      DEF RouteRecycle, TypeOK, sliceVars, matchVars
  <1>11. ASSUME NEW m \in Matchers, MatchSkip(m)
         PROVE  TypeOK'
    <2>1. /\ Head(mIn[m]) \in Packs /\ Tail(mIn[m]) \in Seq(Packs)
          /\ Len(Tail(mIn[m])) = Len(mIn[m]) - 1 /\ Len(mIn[m]) \in Nat
          /\ msg[Head(mIn[m])] \in 0..MaxMsgs
      BY <1>11, HeadType DEF MatchSkip, TypeOK
    <2>2. seen' \in [Matchers -> Seq(0..MaxMsgs)]
      BY <1>11, <2>1, AppendProperties DEF MatchSkip, TypeOK
    <2>3. /\ refCount' \in [Packs -> Nat \ {0}]
          /\ msg' \in [Packs -> 0..MaxMsgs]
          /\ recycleChan' \subseteq Packs
      BY <1>11, <2>1, RecycleType DEF MatchSkip
    <2>4. /\ mIn' \in [Matchers -> Seq(Packs)]
          /\ \A n \in Matchers : Len(mIn'[n]) <= PluginChanSize
      <3>1. mIn' = [mIn EXCEPT ![m] = Tail(mIn[m])]
        BY <1>11 DEF MatchSkip
      <3>2. Len(Tail(mIn[m])) <= PluginChanSize
        BY <2>1 DEF TypeOK
      <3>3. /\ mIn \in [Matchers -> Seq(Packs)] /\ Tail(mIn[m]) \in Seq(Packs)
            /\ \A n \in Matchers : Len(mIn[n]) <= PluginChanSize
        BY <2>1 DEF TypeOK
      <3> QED
        BY <3>1, <3>2, <3>3, ChanUpdate
    <2>5. UNCHANGED <<held, inChan, sliceVars, routeVars, closing, mPack,
                      matchChan, mDone, pPack, produced, routed>>
      BY <1>11 DEF MatchSkip
    <2>6. \A n \in Matchers : Len(matchChan'[n]) <= PluginChanSize
      BY <2>5 DEF TypeOK
    <2> QED
      BY <2>2, <2>3, <2>4, <2>5, <2>6, SMTT(30) DEF TypeOK, sliceVars, routeVars
  <1>12. ASSUME NEW m \in Matchers, MatchTake(m)
         PROVE  TypeOK'
    <2>1. /\ Head(mIn[m]) \in Packs /\ Tail(mIn[m]) \in Seq(Packs)
          /\ Len(Tail(mIn[m])) = Len(mIn[m]) - 1 /\ Len(mIn[m]) \in Nat
          /\ msg[Head(mIn[m])] \in 0..MaxMsgs
      BY <1>12, HeadType DEF MatchTake, TypeOK
    <2>2. seen' \in [Matchers -> Seq(0..MaxMsgs)]
      BY <1>12, <2>1, AppendProperties DEF MatchTake, TypeOK
    <2>3. /\ mIn' \in [Matchers -> Seq(Packs)]
          /\ \A n \in Matchers : Len(mIn'[n]) <= PluginChanSize
      <3>1. mIn' = [mIn EXCEPT ![m] = Tail(mIn[m])]
        BY <1>12 DEF MatchTake
      <3>2. Len(Tail(mIn[m])) <= PluginChanSize
        BY <2>1 DEF TypeOK
      <3>3. /\ mIn \in [Matchers -> Seq(Packs)] /\ Tail(mIn[m]) \in Seq(Packs)
            /\ \A n \in Matchers : Len(mIn[n]) <= PluginChanSize
        BY <2>1 DEF TypeOK
      <3> QED
        BY <3>1, <3>2, <3>3, ChanUpdate
    <2>4. mPack' \in [Matchers -> Packs \cup {Nil}]
      BY <1>12, <2>1 DEF MatchTake, TypeOK
    <2>5. UNCHANGED <<packVars, held, inChan, sliceVars, routeVars, closing,
                      matchChan, mDone, pPack, produced, routed>>
      BY <1>12 DEF MatchTake
    <2> QED
      BY <2>2, <2>3, <2>4, <2>5, SMTT(30) DEF TypeOK, packVars, sliceVars, routeVars
  <1>13. ASSUME NEW m \in Matchers, DeliverToChan(m)
         PROVE  TypeOK'
    <2>1. /\ Append(matchChan[m], mPack[m]) \in Seq(Packs)
          /\ Len(Append(matchChan[m], mPack[m])) <= PluginChanSize
      BY <1>13, RangeAppend, LenProperties DEF DeliverToChan, TypeOK
    <2> QED
      BY <1>13, <2>1 DEF DeliverToChan, TypeOK, packVars, sliceVars, routeVars
  <1>14. ASSUME NEW m \in Matchers, DeliverToQueue(m)
         PROVE  TypeOK'
    <2>1. mPack[m] \in Packs
      BY <1>14 DEF DeliverToQueue, TypeOK
    <2> QED
      BY <1>14, <2>1, RecycleType DEF DeliverToQueue, TypeOK, sliceVars, routeVars
  <1>15. ASSUME NEW m \in Matchers, MatchExit(m)
         PROVE  TypeOK'
    BY <1>15 DEF MatchExit, TypeOK, packVars, sliceVars, routeVars
  <1>16. ASSUME NEW m \in Matchers, PluginTake(m)
         PROVE  TypeOK'
    <2>1. /\ Head(matchChan[m]) \in Packs /\ Tail(matchChan[m]) \in Seq(Packs)
          /\ Len(Tail(matchChan[m])) = Len(matchChan[m]) - 1
          /\ Len(matchChan[m]) \in Nat
      BY <1>16, HeadType DEF PluginTake, TypeOK
    <2> QED
      BY <1>16, <2>1 DEF PluginTake, TypeOK, packVars, sliceVars, routeVars
  <1>17. ASSUME NEW m \in Matchers, PluginRecycle(m)
         PROVE  TypeOK'
    <2>1. pPack[m] \in Packs
      BY <1>17 DEF PluginRecycle, TypeOK
    <2> QED
      BY <1>17, <2>1, RecycleType
      DEF PluginRecycle, TypeOK, sliceVars, routeVars, matchVars
  <1> QED
    BY <1>1, <1>2, <1>3, <1>4, <1>5, <1>6, <1>7, <1>8, <1>9, <1>10, <1>11,
       <1>12, <1>13, <1>14, <1>15, <1>16, <1>17
    DEF Next, Route, MatchRun

\* The initial state has the types.
LEMMA TypeInit == Init => TypeOK
  <1> SUFFICES ASSUME Init
               PROVE  TypeOK
    OBVIOUS
  <1> USE RouterAssumption
  <1>1. fMatchers \in Seq(Filters \cup {Nil}) /\ oMatchers \in Seq(Outputs \cup {Nil})
    <2>1. Cardinality(InitFilters) \in Nat /\ Cardinality(Outputs) \in Nat
      BY FS_Subset, FS_CardinalityType
    <2>2. /\ fMatchers \in [1..Cardinality(InitFilters) -> Filters \cup {Nil}]
          /\ oMatchers \in [1..Cardinality(Outputs) -> Outputs \cup {Nil}]
      BY DEF Init, Slices
    <2> QED
      BY <2>1, <2>2, IsASeq
  <1> QED
    BY <1>1 DEF Init, TypeOK

\* Type correctness of the router, its match runners and the packs.
THEOREM TypeCorrect == Spec => []TypeOK
  BY TypeInit, TypeStep, PTL DEF Spec
==============================================================================

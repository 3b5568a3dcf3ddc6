------------------------- MODULE MessageRouterCounts -------------------------
(***************************************************************************)
(* The inductive invariant behind the reference counts, and the steps of   *)
(* the producers and of the router goroutine that keep it.                 *)
(***************************************************************************)
EXTENDS MessageRouterTypes

------------------------------------------------------------------------------
(* The inductive invariant.                                                *)

\* The owner's reference is in one place.
OwnedOnce ==
    /\ recycleChan \cap held = {}
    /\ NoDup(inChan)
    /\ Range(inChan) \cap (recycleChan \cup held) = {}
    /\ cur \notin recycleChan \cup held \cup Range(inChan)

\* The reference added for a matcher is in one place.
HeldOnceBy(m) ==
    /\ NoDup(mIn[m]) /\ NoDup(matchChan[m])
    /\ Range(mIn[m]) \cap Range(matchChan[m]) = {}
    /\ mPack[m] \notin Range(mIn[m]) \cup Range(matchChan[m])
    /\ pPack[m] \notin Range(mIn[m]) \cup Range(matchChan[m])
    /\ mPack[m] = pPack[m] => mPack[m] = Nil

HeldOnce == \A m \in Matchers : HeldOnceBy(m)

\* A matcher has at most one slot, and none once it is closed; the loop of
\* the router stands on a matcher when it is about to send.
OneSlot(s) == \A i, j \in 1..Len(s) : s[i] = s[j] /\ s[i] # Nil => i = j

OpenSlots(s) == \A i \in 1..Len(s) : s[i] # Nil => ~closing[s[i]]

SlotsOK ==
    /\ OneSlot(fMatchers) /\ OneSlot(oMatchers)
    /\ OpenSlots(fMatchers) /\ OpenSlots(oMatchers)
    /\ rpc = "send" => idx <= NumSlots /\ Slot(idx) # Nil
    /\ \A m \in Matchers :
          mDone[m] => closing[m] /\ mIn[m] = <<>> /\ mPack[m] = Nil

\* The pack being routed has reached only matchers the loop has passed.
Passed ==
    rpc # "select" =>
        \A m \in Matchers :
            Has(m, cur) => \E j \in 1..NumSlots : j < idx /\ Slot(j) = m

IInv == /\ TypeOK /\ SlotsOK /\ OwnedOnce /\ HeldOnce /\ Passed
        /\ RecycledIsFree /\ RefCountExact

------------------------------------------------------------------------------
(* Reference counting.                                                     *)

\* The loops see the same slots while the slices do not change.
LEMMA SlotFrame ==
    ASSUME UNCHANGED sliceVars
    PROVE  NumSlots' = NumSlots /\ \A i : Slot(i)' = Slot(i)
  BY DEF sliceVars, NumSlots, Slot

\* The matchers that hold a pack are finitely many.
LEMMA HoldersFinite ==
    ASSUME NEW p
    PROVE  IsFiniteSet(Holders(p)) /\ Cardinality(Holders(p)) \in Nat
  <1>1. IsFiniteSet(Matchers)
    BY RouterAssumption, FS_Union DEF Matchers
  <1>2. Holders(p) \subseteq Matchers
    BY DEF Holders
  <1> QED
    BY <1>1, <1>2, FS_Subset, FS_CardinalityType

\* The two loops meet a matcher once, and no closed one.
LEMMA SlotUnique ==
    ASSUME TypeOK, SlotsOK, NEW i \in 1..NumSlots, Slot(i) # Nil
    PROVE  /\ ~closing[Slot(i)]
           /\ \A j \in 1..NumSlots : Slot(i) = Slot(j) => i = j
  <1> DEFINE f == Len(fMatchers)
             o == Len(oMatchers)
  <1>1. /\ f \in Nat /\ o \in Nat /\ NumSlots = f + o
        /\ \A k \in 1..f : fMatchers[k] \in Filters \cup {Nil}
        /\ \A k \in 1..o : oMatchers[k] \in Outputs \cup {Nil}
    BY LenProperties, ElementOfSeq DEF TypeOK, NumSlots
  <1>2. ASSUME NEW k \in 1..NumSlots
        PROVE  \/ k \in 1..f /\ Slot(k) = fMatchers[k]
               \/ k - f \in 1..o /\ Slot(k) = oMatchers[k - f]
    BY <1>1 DEF Slot
  <1> HIDE DEF f, o
  <1>3. ~closing[Slot(i)]
    BY <1>2 DEF SlotsOK, OpenSlots, f, o
  <1>4. ASSUME NEW j \in 1..NumSlots, Slot(i) = Slot(j)
        PROVE  i = j
    <2>1. CASE i \in 1..f /\ Slot(i) = fMatchers[i]
      <3>1. Slot(j) \in Filters
        BY <1>1, <1>4, <2>1
      <3>2. j \in 1..f /\ Slot(j) = fMatchers[j]
        BY <1>1, <1>2, <3>1, RouterAssumption DEF Matchers
      <3> QED
        BY <1>4, <2>1, <3>2 DEF SlotsOK, OneSlot, f
    <2>2. CASE i - f \in 1..o /\ Slot(i) = oMatchers[i - f]
      <3>1. Slot(j) \in Outputs
        BY <1>1, <1>4, <2>2
      <3>2. j - f \in 1..o /\ Slot(j) = oMatchers[j - f]
        BY <1>1, <1>2, <3>1, RouterAssumption DEF Matchers
      <3>3. i - f = j - f
        BY <1>4, <2>2, <3>2 DEF SlotsOK, OneSlot, o
      <3> QED
        BY <1>1, <3>3
    <2> QED
      BY <1>2, <2>1, <2>2
  <1> QED
    BY <1>3, <1>4

\* The matcher the loop stands on does not have the pack yet.
LEMMA NotYet ==
    ASSUME TypeOK, SlotsOK, Passed, rpc # "select", idx <= NumSlots,
           NEW m \in Matchers, Slot(idx) = m
    PROVE  ~Has(m, cur)
  <1> SUFFICES ASSUME Has(m, cur) PROVE FALSE
    OBVIOUS
  <1>1. PICK j \in 1..NumSlots : j < idx /\ Slot(j) = m
    BY DEF Passed
  <1>2. m # Nil
    BY RouterAssumption
  <1>3. NumSlots \in Nat /\ idx \in 1..NumSlots
    BY LenProperties DEF TypeOK, NumSlots
  <1> QED
    BY <1>1, <1>2, <1>3, SlotUnique

\* A matcher or a plugin drops the reference it held: the count follows,
\* and the pack goes back to the pool exactly when nobody is left.
LEMMA DropRef ==
    ASSUME TypeOK, OwnedOnce, RecycledIsFree, RefCountExact,
           NEW p \in Packs, NEW m \in Holders(p),
           recycle(p), UNCHANGED <<held, inChan, cur>>,
           Holders(p)' = Holders(p) \ {m},
           \A q \in Packs \ {p} : Holders(q)' = Holders(q)
    PROVE  OwnedOnce' /\ RecycledIsFree' /\ RefCountExact'
  <1> DEFINE H == Holders(p)
             c == Cardinality(Holders(p))
  <1>1. /\ IsFiniteSet(H) /\ c \in Nat /\ c # 0
        /\ IsFiniteSet(H \ {m}) /\ Cardinality(H \ {m}) = c - 1
    <2>1. IsFiniteSet(H) /\ c \in Nat
      BY HoldersFinite
    <2> HIDE DEF H
    <2> QED
      BY <2>1, FS_RemoveElement, FS_EmptySet, FS_CardinalityType DEF H
  <1>2. p \notin recycleChan /\ p \notin held /\ p \notin Range(inChan)
    BY DEF RecycledIsFree
  <1>3. refCount[p] = c + (IF p = cur THEN 1 ELSE 0)
    BY <1>2 DEF RefCountExact, Owned
  <1>4. ASSUME NEW q \in Packs \ {p}
        PROVE  /\ refCount'[q] = refCount[q]
               /\ q \in recycleChan' <=> q \in recycleChan
               /\ Owned(q)' <=> Owned(q)
    <2>1. refCount'[q] = refCount[q] /\ (q \in recycleChan' <=> q \in recycleChan)
      BY DEF recycle, TypeOK
    <2> QED
      BY <2>1 DEF Owned
  <1>5. CASE refCount[p] = 1
    <2>1. c = 1 /\ p # cur
      BY <1>1, <1>3, <1>5
    <2>2. Holders(p)' = {}
      BY <1>1, <2>1, FS_EmptySet
    <2>3. recycleChan' = recycleChan \cup {p} /\ refCount' = refCount
      BY <1>5 DEF recycle
    <2>4. OwnedOnce'
      BY <1>2, <2>1, <2>3 DEF OwnedOnce
    <2>5. RecycledIsFree'
      <3> SUFFICES ASSUME NEW q \in (recycleChan \cup held \cup Range(inChan))'
                   PROVE  Holders(q)' = {}
        BY DEF RecycledIsFree
      <3>1. CASE q = p
        BY <2>2, <3>1
      <3>2. CASE q # p
        <4>1. q \in recycleChan \cup held \cup Range(inChan)
          BY <2>3, <3>2
        <4>2. q \in Packs \ {p}
          BY <4>1, <3>2, RangeInPacks DEF TypeOK
        <4> QED
          BY <4>1, <4>2 DEF RecycledIsFree
      <3> QED
        BY <3>1, <3>2
    <2>6. RefCountExact'
      <3>1. Owned(p)' /\ Cardinality(Holders(p)') = 0
        BY <2>2, <2>3, FS_EmptySet DEF Owned
      <3>2. refCount'[p] = Cardinality(Holders(p)') + (IF Owned(p)' THEN 1 ELSE 0)
        BY <1>5, <2>3, <3>1
      <3> QED
        BY <1>4, <3>2 DEF RefCountExact
    <2> QED
      BY <2>4, <2>5, <2>6
  <1>6. CASE refCount[p] # 1
    <2>1. /\ recycleChan' = recycleChan /\ msg' = msg
          /\ refCount'[p] = refCount[p] - 1
      BY <1>6 DEF recycle, TypeOK
    <2>2. OwnedOnce'
      BY <2>1 DEF OwnedOnce
    <2>3. RecycledIsFree'
      <3> SUFFICES ASSUME NEW q \in recycleChan \cup held \cup Range(inChan)
                   PROVE  Holders(q)' = {}
        BY <2>1 DEF RecycledIsFree
      <3>1. q \in Packs \ {p} /\ Holders(q) = {}
        BY <1>2, RangeInPacks DEF TypeOK, RecycledIsFree
      <3> QED
        BY <3>1
    <2>4. RefCountExact'
      <3>1. Owned(p)' <=> p = cur
        BY <1>2, <2>1 DEF Owned
      <3>2. Cardinality(Holders(p)') = c - 1
        BY <1>1
      <3>3. refCount'[p] = Cardinality(Holders(p)') + (IF Owned(p)' THEN 1 ELSE 0)
        BY <1>1, <1>3, <2>1, <3>1, <3>2
      <3> QED
        BY <1>4, <3>3 DEF RefCountExact
    <2> QED
      BY <2>2, <2>3, <2>4
  <1> QED
    BY <1>5, <1>6

\* A step that moves a reference from one place to another changes no count.
LEMMA MoveRef ==
    ASSUME TypeOK, RecycledIsFree, RefCountExact, refCount' = refCount,
           \A q \in Packs : Holders(q)' = Holders(q) /\ (Owned(q)' <=> Owned(q)),
           (recycleChan \cup held \cup Range(inChan))'
               \subseteq recycleChan \cup held \cup Range(inChan)
    PROVE  RecycledIsFree' /\ RefCountExact'
  <1>1. recycleChan \cup held \cup Range(inChan) \subseteq Packs
    BY RangeInPacks DEF TypeOK
  <1>2. RecycledIsFree'
    BY <1>1 DEF RecycledIsFree
  <1>3. RefCountExact'
    BY DEF RefCountExact
  <1> QED
    BY <1>2, <1>3

\* The places of the matchers' references, while they do not change.
LEMMA HasFrame ==
    ASSUME HeldOnce, UNCHANGED <<mIn, mPack, matchChan, pPack>>
    PROVE  HeldOnce' /\ \A n, q : Has(n, q)' <=> Has(n, q)
  <1>1. HeldOnce'
    BY DEF HeldOnce, HeldOnceBy
  <1>2. \A n, q : Has(n, q)' <=> Has(n, q)
    BY DEF Has
  <1> QED
    BY <1>1, <1>2

\* Nothing but a "send" puts a matcher between the router and its channel.
LEMMA NotSending ==
    ASSUME NEW p, rpc # "send", rpc' # "send",
           \A n, q : Has(n, q)' <=> Has(n, q)
    PROVE  Holders(p)' = Holders(p)
  BY DEF Holders, Sending

\* The producers' steps.
LEMMA ProducerStep ==
    ASSUME IInv, TypeOK', NEW p \in Packs, Produce(p) \/ Inject(p)
    PROVE  IInv'
  <1>1. UNCHANGED <<refCount, sliceVars, routeVars, matchVars, pPack>>
    BY DEF Produce, Inject, packVars
  <1>2. UNCHANGED <<mIn, mPack, matchChan, pPack, closing, mDone, rpc, cur, idx>>
    BY <1>1 DEF matchVars, routeVars
  <1>3. HeldOnce' /\ \A n, q : Has(n, q)' <=> Has(n, q)
    BY <1>2, HasFrame DEF IInv
  <1>4. NumSlots' = NumSlots /\ \A i : Slot(i)' = Slot(i)
    BY <1>1, SlotFrame
  <1>5. SlotsOK'
    BY <1>1, <1>2, <1>4 DEF IInv, SlotsOK, OneSlot, OpenSlots, sliceVars
  <1>6. Passed'
    BY <1>2, <1>3, <1>4 DEF IInv, Passed
  <1>7. \A q : Holders(q)' = Holders(q)
    BY <1>2, <1>3, <1>4 DEF Holders, Sending
  <1>8. CASE Produce(p)
    <2>1. /\ p \in recycleChan /\ recycleChan' = recycleChan \ {p}
          /\ held' = held \cup {p} /\ inChan' = inChan
      BY <1>8 DEF Produce
    <2>2. OwnedOnce'
      BY <1>2, <2>1 DEF IInv, OwnedOnce
    <2>3. \A q \in Packs : Owned(q)' <=> Owned(q)
      BY <1>2, <2>1 DEF Owned
    <2>4. RecycledIsFree' /\ RefCountExact'
      BY <1>1, <1>7, <2>1, <2>3, MoveRef DEF IInv
    <2> QED
      BY <1>3, <1>5, <1>6, <2>2, <2>4 DEF IInv
  <1>9. CASE Inject(p)
    <2>1. /\ p \in held /\ held' = held \ {p} /\ recycleChan' = recycleChan
          /\ inChan' = Append(inChan, p)
      BY <1>9 DEF Inject, packVars
    <2>2. p \notin Range(inChan) /\ p \notin recycleChan /\ p # cur
      BY <2>1 DEF IInv, OwnedOnce
    <2>3. Range(inChan') = Range(inChan) \cup {p} /\ NoDup(inChan')
      BY <2>1, <2>2, RangeAppend DEF IInv, TypeOK, OwnedOnce
    <2>4. OwnedOnce'
      BY <1>2, <2>1, <2>2, <2>3 DEF IInv, OwnedOnce
    <2>5. \A q \in Packs : Owned(q)' <=> Owned(q)
      BY <1>2, <2>1, <2>3 DEF Owned
    <2>6. RecycledIsFree' /\ RefCountExact'
      BY <1>1, <1>7, <2>1, <2>3, <2>5, MoveRef DEF IInv
    <2> QED
      BY <1>3, <1>5, <1>6, <2>4, <2>6 DEF IInv
  <1> QED
    BY <1>8, <1>9

\* Adding and removing matchers between two messages.
LEMMA SliceStep ==
    ASSUME IInv, TypeOK', SlotsOK', rpc = "select",
           UNCHANGED <<packVars, held, inChan, routeVars, mIn, mPack, matchChan, pPack>>
    PROVE  IInv'
  <1>1. UNCHANGED <<refCount, recycleChan, rpc, cur>>
    BY DEF packVars, routeVars
  <1>2. HeldOnce' /\ \A n, q : Has(n, q)' <=> Has(n, q)
    BY HasFrame DEF IInv
  <1>3. OwnedOnce'
    BY <1>1 DEF IInv, OwnedOnce
  <1>4. Passed'
    BY <1>1 DEF Passed
  <1>5. \A q : Holders(q)' = Holders(q)
    BY <1>1, <1>2, NotSending
  <1>6. RecycledIsFree' /\ RefCountExact'
    BY <1>1, <1>5, MoveRef DEF IInv, Owned
  <1> QED
    BY <1>2, <1>3, <1>4, <1>6 DEF IInv

\* A filter is added.
LEMMA AddStep ==
    ASSUME IInv, TypeOK', NEW m \in Filters, AddFilterMatcher(m)
    PROVE  IInv'
  <1>1. /\ rpc = "select" /\ ~closing[m]
        /\ UNCHANGED <<packVars, held, inChan, oMatchers, routeVars, matchVars, pPack>>
    BY DEF AddFilterMatcher
  <1>2. UNCHANGED <<mIn, mPack, matchChan, closing, mDone, rpc>>
    BY <1>1 DEF matchVars, routeVars
  <1>3. OneSlot(fMatchers') /\ OpenSlots(fMatchers')
    <2>1. CASE m \in Range(fMatchers)
      BY <2>1 DEF AddFilterMatcher, IInv, SlotsOK
    <2>2. CASE m \notin Range(fMatchers) /\ FreeSlots = {}
      <3> DEFINE n == Len(fMatchers)
      <3>1. /\ fMatchers' = Append(fMatchers, m) /\ n \in Nat
            /\ Len(fMatchers') = n + 1 /\ fMatchers'[n + 1] = m
            /\ \A i \in 1..n : fMatchers'[i] = fMatchers[i]
            /\ \A i \in 1..(n + 1) : i \in 1..n \/ i = n + 1
        BY <2>2, AppendProperties, LenProperties
        DEF AddFilterMatcher, IInv, TypeOK
      <3>2. \A i \in 1..n : fMatchers[i] # m
        BY <2>2, LenProperties DEF IInv, TypeOK, Range
      <3> QED
        BY <1>1, <3>1, <3>2 DEF IInv, SlotsOK, OneSlot, OpenSlots
    <2>3. CASE m \notin Range(fMatchers) /\ FreeSlots # {}
      <3> DEFINE last == CHOOSE i \in FreeSlots : \A j \in FreeSlots : j <= i
                 n == Len(fMatchers)
      <3>1. fMatchers' = [fMatchers EXCEPT ![last] = m]
        BY <2>3 DEF AddFilterMatcher
      <3> HIDE DEF last
      <3>2. n \in Nat /\ DOMAIN fMatchers = 1..n /\ fMatchers \in [1..n -> Filters \cup {Nil}]
        BY LenProperties DEF IInv, TypeOK
      <3>3. DOMAIN fMatchers' = 1..n
        BY <3>1, <3>2
      <3>4. Len(fMatchers') = n
        BY <3>2, <3>3, LenProperties DEF TypeOK
      <3>5. \A i \in 1..n : fMatchers'[i] = IF i = last THEN m ELSE fMatchers[i]
        BY <3>1, <3>2
      <3>6. \A i \in 1..n : fMatchers[i] # m
        BY <2>3, <3>2 DEF Range
      <3> QED
        BY <1>1, <3>4, <3>5, <3>6 DEF IInv, SlotsOK, OneSlot, OpenSlots
    <2> QED
      BY <2>1, <2>2, <2>3
  <1>4. SlotsOK'
    BY <1>1, <1>2, <1>3 DEF IInv, SlotsOK, OneSlot, OpenSlots
  <1> QED
    BY <1>1, <1>2, <1>4, SliceStep

\* A filter or an output is removed.
LEMMA RemoveStep ==
    ASSUME IInv, TypeOK', NEW m \in Matchers,
           \/ m \in Filters /\ RemoveFilterMatcher(m)
           \/ m \in Outputs /\ RemoveOutputMatcher(m)
    PROVE  IInv'
  <1>1. /\ rpc = "select" /\ closing' = [closing EXCEPT ![m] = TRUE]
        /\ UNCHANGED <<packVars, held, inChan, routeVars, mIn, mPack, matchChan,
                       pPack, mDone>>
    BY DEF RemoveFilterMatcher, RemoveOutputMatcher
  <1>2. ASSUME NEW S, NEW s \in Seq(S \cup {Nil}), NEW t, OneSlot(s), OpenSlots(s),
               S \subseteq Matchers,
               t = [i \in DOMAIN s |-> IF s[i] = m THEN Nil ELSE s[i]]
        PROVE  OneSlot(t) /\ \A i \in 1..Len(t) : t[i] # Nil => ~closing'[t[i]]
    <2>1. /\ Len(t) = Len(s) /\ DOMAIN s = 1..Len(s)
          /\ \A i \in 1..Len(s) : s[i] \in Matchers \cup {Nil}
      BY <1>2, NilSlotSeq, LenProperties, ElementOfSeq
    <2>2. \A i \in 1..Len(s) : t[i] = IF s[i] = m THEN Nil ELSE s[i]
      BY <1>2, <2>1
    <2>3. OneSlot(t)
      BY <1>2, <2>1, <2>2 DEF OneSlot
    <2>4. ASSUME NEW i \in 1..Len(t), t[i] # Nil
          PROVE  ~closing'[t[i]]
      <3>1. t[i] = s[i] /\ s[i] # m /\ s[i] \in Matchers /\ ~closing[s[i]]
        BY <1>2, <2>1, <2>2, <2>4 DEF OpenSlots
      <3> QED
        BY <1>1, <3>1 DEF IInv, TypeOK
    <2> QED
      BY <2>3, <2>4
  <1>3. ASSUME NEW S, NEW s \in Seq(S \cup {Nil}), OpenSlots(s), S \subseteq Matchers,
               m \notin S
        PROVE  \A i \in 1..Len(s) : s[i] # Nil => ~closing'[s[i]]
    <2>1. \A i \in 1..Len(s) : s[i] \in S \cup {Nil}
      BY <1>3, ElementOfSeq
    <2> QED
      BY <1>1, <1>3, <2>1 DEF OpenSlots, IInv, TypeOK
  <1>4. /\ OneSlot(fMatchers) /\ OneSlot(oMatchers)
        /\ OpenSlots(fMatchers) /\ OpenSlots(oMatchers)
        /\ fMatchers \in Seq(Filters \cup {Nil})
        /\ oMatchers \in Seq(Outputs \cup {Nil})
        /\ Filters \subseteq Matchers /\ Outputs \subseteq Matchers
        /\ m \notin Filters \/ m \notin Outputs
    BY RouterAssumption DEF IInv, SlotsOK, TypeOK, Matchers
  <1>5. /\ OneSlot(fMatchers') /\ OneSlot(oMatchers')
        /\ \A i \in 1..Len(fMatchers') : fMatchers'[i] # Nil => ~closing'[fMatchers'[i]]
        /\ \A i \in 1..Len(oMatchers') : oMatchers'[i] # Nil => ~closing'[oMatchers'[i]]
    <2>1. CASE m \in Filters /\ RemoveFilterMatcher(m)
      <3>1. /\ oMatchers' = oMatchers
            /\ fMatchers' = [i \in DOMAIN fMatchers |->
                               IF fMatchers[i] = m THEN Nil ELSE fMatchers[i]]
        BY <2>1 DEF RemoveFilterMatcher
      <3>2. /\ OneSlot(fMatchers')
            /\ \A i \in 1..Len(fMatchers') : fMatchers'[i] # Nil => ~closing'[fMatchers'[i]]
        BY <1>2, <1>4, <3>1
      <3>3. \A i \in 1..Len(oMatchers) : oMatchers[i] # Nil => ~closing'[oMatchers[i]]
        BY <1>3, <1>4, <2>1
      <3> QED
        BY <1>4, <3>1, <3>2, <3>3
    <2>2. CASE m \in Outputs /\ RemoveOutputMatcher(m)
      <3>1. /\ fMatchers' = fMatchers
            /\ oMatchers' = [i \in DOMAIN oMatchers |->
                               IF oMatchers[i] = m THEN Nil ELSE oMatchers[i]]
        BY <2>2 DEF RemoveOutputMatcher
      <3>2. /\ OneSlot(oMatchers')
            /\ \A i \in 1..Len(oMatchers') : oMatchers'[i] # Nil => ~closing'[oMatchers'[i]]
        BY <1>2, <1>4, <3>1
      <3>3. \A i \in 1..Len(fMatchers) : fMatchers[i] # Nil => ~closing'[fMatchers[i]]
        BY <1>3, <1>4, <2>2
      <3> QED
        BY <1>4, <3>1, <3>2, <3>3
    <2> QED
      BY <2>1, <2>2
  <1>6. SlotsOK'
    <2>1. \A n \in Matchers : mDone'[n] => closing'[n] /\ mIn'[n] = <<>> /\ mPack'[n] = Nil
      BY <1>1 DEF IInv, SlotsOK, TypeOK
    <2>2. rpc' = "select"
      BY <1>1 DEF routeVars
    <2> QED
      BY <1>5, <2>1, <2>2 DEF SlotsOK, OneSlot, OpenSlots
  <1> QED
    BY <1>1, <1>6, SliceStep

\* The router takes a pack.
LEMMA ReceiveStep ==
    ASSUME IInv, TypeOK', RouteReceive
    PROVE  IInv'
  <1>1. /\ rpc = "select" /\ rpc' = "loop" /\ inChan # <<>>
        /\ cur' = Head(inChan) /\ inChan' = Tail(inChan) /\ idx' = 1
        /\ UNCHANGED <<packVars, held, sliceVars, matchVars, pPack>>
    BY DEF RouteReceive
  <1>2. UNCHANGED <<refCount, recycleChan, mIn, mPack, matchChan, closing, mDone>>
    BY <1>1 DEF packVars, matchVars
  <1>3. HeldOnce' /\ \A n, q : Has(n, q)' <=> Has(n, q)
    BY <1>1, <1>2, HasFrame DEF IInv
  <1>4. /\ cur' \in Range(inChan) /\ cur' \in Packs /\ NoDup(inChan')
        /\ Range(inChan') = Range(inChan) \ {cur'}
    BY <1>1, RangeTail DEF IInv, TypeOK, OwnedOnce
  <1>5. SlotsOK'
    BY <1>1, <1>2 DEF IInv, SlotsOK, OneSlot, OpenSlots, sliceVars
  <1>6. OwnedOnce'
    BY <1>1, <1>2, <1>4 DEF IInv, OwnedOnce
  <1>7. Holders(cur') = {}
    BY <1>4 DEF IInv, RecycledIsFree
  <1>8. Passed'
    <2>1. \A n \in Matchers : ~Has(n, cur')
      BY <1>7 DEF Holders
    <2>2. \A n \in Matchers : ~Has(n, cur)'
      BY <2>1, <1>1, <1>2 DEF Has
    <2> QED
      BY <2>2 DEF Passed
  <1>9. \A q : Holders(q)' = Holders(q)
    BY <1>1, <1>3, NotSending
  <1>10. \A q \in Packs : Owned(q)' <=> Owned(q)
    <2>1. cur = Nil /\ Nil \notin Packs
      BY <1>1, RouterAssumption DEF IInv, TypeOK
    <2> QED
      BY <1>1, <1>2, <1>4, <2>1 DEF Owned
  <1>11. RecycledIsFree' /\ RefCountExact'
    BY <1>1, <1>2, <1>4, <1>9, <1>10, MoveRef DEF IInv
  <1> QED
    BY <1>3, <1>5, <1>6, <1>8, <1>11 DEF IInv

\* The router adds the reference of the next matcher, or passes a nil slot.
LEMMA AddRefStep ==
    ASSUME IInv, TypeOK', RouteAddRef
    PROVE  IInv'
  <1>1. /\ rpc = "loop" /\ idx <= NumSlots
        /\ UNCHANGED <<msg, recycleChan, held, inChan, sliceVars, cur, matchVars, pPack>>
    BY DEF RouteAddRef
  <1>2. UNCHANGED <<mIn, mPack, matchChan, closing, mDone>>
    BY <1>1 DEF matchVars
  <1>3. HeldOnce' /\ \A n, q : Has(n, q)' <=> Has(n, q)
    BY <1>1, <1>2, HasFrame DEF IInv
  <1>4. NumSlots' = NumSlots /\ \A i : Slot(i)' = Slot(i)
    BY <1>1, SlotFrame
  <1>5. OwnedOnce' /\ \A q : Owned(q)' <=> Owned(q)
    BY <1>1 DEF IInv, OwnedOnce, Owned
  <1>6. cur \in Packs /\ idx \in 1..NumSlots /\ NumSlots \in Nat
    BY <1>1, LenProperties DEF IInv, TypeOK, NumSlots
  <1>7. CASE Slot(idx) = Nil
    <2>1. idx' = idx + 1 /\ rpc' = rpc /\ refCount' = refCount
      BY <1>7 DEF RouteAddRef
    <2>2. SlotsOK'
      BY <1>1, <1>2, <2>1 DEF IInv, SlotsOK, OneSlot, OpenSlots, sliceVars
    <2>3. Passed'
      <3> SUFFICES ASSUME NEW n \in Matchers, Has(n, cur)'
                   PROVE  \E j \in 1..NumSlots' : j < idx' /\ Slot(j)' = n
        BY DEF Passed
      <3>1. Has(n, cur)
        BY <1>1, <1>2 DEF Has
      <3>2. PICK j \in 1..NumSlots : j < idx /\ Slot(j) = n
        BY <1>1, <3>1 DEF IInv, Passed
      <3> QED
        BY <1>4, <1>6, <2>1, <3>2
    <2>4. \A q : Holders(q)' = Holders(q)
      BY <1>1, <1>3, <2>1, NotSending
    <2>5. RecycledIsFree' /\ RefCountExact'
      BY <1>1, <1>5, <2>1, <2>4, MoveRef DEF IInv
    <2> QED
      BY <1>3, <1>5, <2>2, <2>3, <2>5 DEF IInv
  <1>8. CASE Slot(idx) # Nil
    <2> DEFINE m == Slot(idx)
    <2>1. /\ idx' = idx /\ rpc' = "send"
          /\ refCount' = [refCount EXCEPT ![cur] = refCount[cur] + 1]
      BY <1>8 DEF RouteAddRef
    <2>2. m \in Matchers
      BY <1>6, <1>8, SlotType DEF IInv
    <2>3. ~Has(m, cur)
      BY <1>1, <2>2, NotYet DEF IInv
    <2>4. SlotsOK'
      BY <1>1, <1>2, <1>4, <1>6, <1>8, <2>1
      DEF IInv, SlotsOK, OneSlot, OpenSlots, sliceVars
    <2>5. Passed'
      <3>1. \A n \in Matchers : Has(n, cur)' <=> Has(n, cur)
        BY <1>1, <1>2 DEF Has
      <3> QED
        BY <1>1, <1>4, <2>1, <3>1 DEF IInv, Passed
    <2>6. Slot(idx)' = m
      BY <1>4, <2>1 DEF Slot
    <2> HIDE DEF m
    <2>7. /\ Holders(cur)' = Holders(cur) \cup {m} /\ m \notin Holders(cur)
          /\ \A q \in Packs \ {cur} : Holders(q)' = Holders(q)
      <3>1. \A n, q : Sending(n, q)' <=> q = cur /\ n = m
        BY <1>1, <2>1, <2>6 DEF Sending
      <3>2. \A n, q : ~Sending(n, q)
        BY <1>1 DEF Sending
      <3>3. \A n : Has(n, cur)' <=> Has(n, cur)
        BY <1>1, <1>2 DEF Has
      <3>4. \A q \in Packs \ {cur} : Holders(q)' = Holders(q)
        BY <1>3, <3>1, <3>2 DEF Holders
      <3>5. m \notin Holders(cur)
        BY <2>3, <3>2 DEF Holders
      <3>6. Holders(cur)' = {n \in Matchers : n = m \/ Has(n, cur)}
        <4>1. \A n : Sending(n, cur)' <=> n = m
          BY <1>1, <2>1, <2>6 DEF Sending
        <4> QED
          BY <3>3, <4>1 DEF Holders
      <3> QED
        BY <2>2, <3>2, <3>4, <3>5, <3>6 DEF Holders
    <2>8. RecycledIsFree'
      <3> SUFFICES ASSUME NEW q \in recycleChan \cup held \cup Range(inChan)
                   PROVE  Holders(q)' = {}
        BY <1>1 DEF RecycledIsFree
      <3>1. q \in Packs \ {cur} /\ Holders(q) = {}
        BY RangeInPacks DEF IInv, TypeOK, OwnedOnce, RecycledIsFree
      <3> QED
        BY <2>7, <3>1
    <2>9. RefCountExact'
      <3>1. /\ Cardinality(Holders(cur)') = Cardinality(Holders(cur)) + 1
            /\ Cardinality(Holders(cur)) \in Nat
        BY <2>7, HoldersFinite, FS_AddElement
      <3>2. /\ refCount'[cur] = refCount[cur] + 1
            /\ \A q \in Packs \ {cur} : refCount'[q] = refCount[q]
        BY <1>6, <2>1 DEF IInv, TypeOK
      <3>3. Owned(cur) /\ Owned(cur)'
        BY <1>1 DEF Owned
      <3>4. ASSUME NEW q \in Packs
            PROVE  (refCount[q] = Cardinality(Holders(q)) + (IF Owned(q) THEN 1 ELSE 0))'
        <4>1. CASE q = cur
          <5>1. Holders(q)' = Holders(cur)'
            BY <1>1, <4>1 DEF Holders, Sending, Has
          <5>2. Owned(q)'
            BY <1>1, <4>1 DEF Owned
          <5>3. refCount[cur] = Cardinality(Holders(cur)) + 1
            BY <1>6, <3>3 DEF IInv, RefCountExact
          <5> QED
            BY <4>1, <3>1, <3>2, <5>1, <5>2, <5>3
        <4>2. CASE q # cur
          BY <4>2, <1>5, <2>7, <3>2 DEF IInv, RefCountExact
        <4> QED
          BY <4>1, <4>2
      <3> QED
        BY <3>4 DEF RefCountExact
    <2> QED
      BY <1>3, <1>5, <2>4, <2>5, <2>8, <2>9 DEF IInv
  <1> QED
    BY <1>7, <1>8

\* The router sends the pack to the matcher it added the reference for.
LEMMA SendStep ==
    ASSUME IInv, TypeOK', RouteSend
    PROVE  IInv'
  <1> DEFINE m == Slot(idx)
  <1>1. /\ rpc = "send" /\ rpc' = "loop" /\ idx' = idx + 1
        /\ mIn' = [mIn EXCEPT ![m] = Append(mIn[m], cur)]
        /\ UNCHANGED <<packVars, held, inChan, sliceVars, cur, closing, mPack,
                       matchChan, mDone, pPack>>
    BY DEF RouteSend
  <1>2. /\ refCount' = refCount /\ recycleChan' = recycleChan
    BY <1>1 DEF packVars
  <1>3. /\ cur \in Packs /\ idx \in 1..NumSlots /\ NumSlots \in Nat /\ m # Nil
    BY <1>1, LenProperties DEF IInv, TypeOK, SlotsOK, NumSlots
  <1>4. m \in Matchers /\ ~closing[m] /\ ~mDone[m]
    BY <1>3, SlotType, SlotUnique DEF IInv, SlotsOK
  <1>5. ~Has(m, cur)
    BY <1>1, <1>3, <1>4, NotYet DEF IInv
  <1>6. NumSlots' = NumSlots /\ \A i : Slot(i)' = Slot(i)
    BY <1>1, SlotFrame
  <1> HIDE DEF m
  <1>7. /\ Range(mIn'[m]) = Range(mIn[m]) \cup {cur} /\ NoDup(mIn'[m])
        /\ \A n \in Matchers \ {m} : mIn'[n] = mIn[n]
    <2>1. mIn[m] \in Seq(Packs) /\ NoDup(mIn[m]) /\ cur \notin Range(mIn[m])
      BY <1>4, <1>5 DEF IInv, TypeOK, HeldOnce, HeldOnceBy, Has
    <2>2. mIn'[m] = Append(mIn[m], cur) /\ \A n \in Matchers \ {m} : mIn'[n] = mIn[n]
      BY <1>1, <1>4 DEF IInv, TypeOK
    <2> QED
      BY <1>3, <2>1, <2>2, RangeAppend
  <1>8. \A n \in Matchers, q \in Packs : Has(n, q)' <=> Has(n, q) \/ (n = m /\ q = cur)
    BY <1>1, <1>7 DEF Has
  <1>9. HeldOnce'
    <2> SUFFICES ASSUME NEW n \in Matchers PROVE HeldOnceBy(n)'
      BY DEF HeldOnce
    <2>1. HeldOnceBy(n)
      BY DEF IInv, HeldOnce
    <2>2. CASE n = m
      BY <1>1, <1>5, <1>7, <2>1, <2>2 DEF HeldOnceBy, Has
    <2>3. CASE n # m
      BY <1>1, <1>7, <2>1, <2>3 DEF HeldOnceBy
    <2> QED
      BY <2>2, <2>3
  <1>10. SlotsOK'
    <2>1. \A n \in Matchers : mDone'[n] => closing'[n] /\ mIn'[n] = <<>> /\ mPack'[n] = Nil
      BY <1>1, <1>4, <1>7 DEF IInv, SlotsOK
    <2> QED
      BY <1>1, <2>1 DEF IInv, SlotsOK, OneSlot, OpenSlots, sliceVars
  <1>11. OwnedOnce'
    BY <1>1, <1>2 DEF IInv, OwnedOnce
  <1>12. Passed'
    <2> SUFFICES ASSUME NEW n \in Matchers, Has(n, cur)'
                 PROVE  \E j \in 1..NumSlots' : j < idx' /\ Slot(j)' = n
      BY DEF Passed
    <2>1. Has(n, cur) \/ n = m
      BY <1>1, <1>7 DEF Has
    <2>2. CASE Has(n, cur)
      <3>1. PICK j \in 1..NumSlots : j < idx /\ Slot(j) = n
        BY <1>1, <2>2 DEF IInv, Passed
      <3> QED
        BY <1>1, <1>3, <1>6, <3>1
    <2>3. CASE n = m
      BY <1>1, <1>3, <1>6, <2>3 DEF m
    <2> QED
      BY <2>1, <2>2, <2>3
  <1>13. \A q \in Packs : Holders(q)' = Holders(q)
    <2>1. \A n, q : ~Sending(n, q)'
      BY <1>1 DEF Sending
    <2>2. \A n, q : Sending(n, q) <=> q = cur /\ n = m
      BY <1>1 DEF Sending, m
    <2> QED
      BY <1>8, <2>1, <2>2 DEF Holders
  <1>14. RecycledIsFree' /\ RefCountExact'
    <2>1. \A q \in Packs : Owned(q)' <=> Owned(q)
      BY <1>1, <1>2 DEF Owned
    <2> QED
      BY <1>1, <1>2, <1>13, <2>1, MoveRef DEF IInv
  <1> QED
    BY <1>9, <1>10, <1>11, <1>12, <1>14 DEF IInv

\* The router drops the reference the pack came with.
LEMMA RecycleStep ==
    ASSUME IInv, TypeOK', RouteRecycle
    PROVE  IInv'
  <1>1. /\ rpc = "loop" /\ rpc' = "select" /\ cur' = Nil /\ recycle(cur)
        /\ UNCHANGED <<held, inChan, sliceVars, idx, matchVars, pPack>>
    BY DEF RouteRecycle
  <1>2. UNCHANGED <<mIn, mPack, matchChan, closing, mDone>>
    BY <1>1 DEF matchVars
  <1>3. HeldOnce' /\ \A n, q : Has(n, q)' <=> Has(n, q)
    BY <1>1, <1>2, HasFrame DEF IInv
  <1>4. SlotsOK'
    BY <1>1, <1>2 DEF IInv, SlotsOK, OneSlot, OpenSlots, sliceVars
  <1>5. Passed'
    BY <1>1 DEF Passed
  <1>6. \A q : Holders(q)' = Holders(q)
    BY <1>1, <1>3, NotSending
  <1>7. /\ cur \in Packs /\ cur \notin recycleChan \cup held \cup Range(inChan)
        /\ Nil \notin Packs /\ Range(inChan) \subseteq Packs
        /\ recycleChan \subseteq Packs /\ held \subseteq Packs
    BY <1>1, RouterAssumption, RangeInPacks DEF IInv, TypeOK, OwnedOnce
  <1>8. /\ refCount[cur] = Cardinality(Holders(cur)) + 1
        /\ Cardinality(Holders(cur)) \in Nat
    BY <1>7, HoldersFinite DEF IInv, RefCountExact, Owned
  <1>9. ASSUME NEW q \in Packs \ {cur}
        PROVE  /\ refCount'[q] = refCount[q]
               /\ Owned(q)' <=> Owned(q)
    <2>1. refCount'[q] = refCount[q] /\ (q \in recycleChan' <=> q \in recycleChan)
      BY <1>1 DEF recycle, IInv, TypeOK
    <2> QED
      BY <1>1, <1>7, <2>1 DEF Owned
  <1>10. OwnedOnce'
    <2>1. recycleChan' \subseteq recycleChan \cup {cur}
      BY <1>1 DEF recycle
    <2>2. Nil \notin recycleChan'
      BY <1>7, <2>1
    <2> QED
      BY <1>1, <1>7, <2>1, <2>2 DEF IInv, OwnedOnce
  <1>11. CASE refCount[cur] = 1
    <2>1. recycleChan' = recycleChan \cup {cur} /\ refCount' = refCount
      BY <1>1, <1>11 DEF recycle
    <2>2. Holders(cur) = {}
      BY <1>8, <1>11, HoldersFinite, FS_EmptySet
    <2>3. RecycledIsFree'
      <3> SUFFICES ASSUME NEW q \in (recycleChan \cup held \cup Range(inChan))'
                   PROVE  Holders(q)' = {}
        BY DEF RecycledIsFree
      <3>1. q = cur \/ q \in recycleChan \cup held \cup Range(inChan)
        BY <1>1, <2>1
      <3>2. Holders(q) = {}
        BY <2>2, <3>1 DEF IInv, RecycledIsFree
      <3> QED
        BY <1>6, <3>2
    <2>4. RefCountExact'
      <3> SUFFICES ASSUME NEW q \in Packs
                   PROVE  (refCount[q] = Cardinality(Holders(q))
                                          + (IF Owned(q) THEN 1 ELSE 0))'
        BY DEF RefCountExact
      <3>1. CASE q = cur
        <4>1. Owned(q)'
          BY <2>1, <3>1 DEF Owned
        <4> QED
          BY <1>6, <1>8, <2>1, <3>1, <4>1
      <3>2. CASE q # cur
        BY <1>6, <1>9, <3>2 DEF IInv, RefCountExact
      <3> QED
        BY <3>1, <3>2
    <2> QED
      BY <1>3, <1>4, <1>5, <1>10, <2>3, <2>4 DEF IInv
  <1>12. CASE refCount[cur] # 1
    <2>1. /\ recycleChan' = recycleChan /\ refCount'[cur] = refCount[cur] - 1
      BY <1>1, <1>7, <1>12 DEF recycle, IInv, TypeOK
    <2>2. RecycledIsFree'
      BY <1>1, <1>6, <2>1 DEF IInv, RecycledIsFree
    <2>3. RefCountExact'
      <3> SUFFICES ASSUME NEW q \in Packs
                   PROVE  (refCount[q] = Cardinality(Holders(q))
                                          + (IF Owned(q) THEN 1 ELSE 0))'
        BY DEF RefCountExact
      <3>1. CASE q = cur
        <4>1. ~Owned(q)'
          BY <1>1, <1>7, <2>1, <3>1 DEF Owned
        <4>2. refCount'[q] = Cardinality(Holders(q)')
          BY <1>6, <1>8, <2>1, <3>1
        <4> QED
          BY <4>1, <4>2, <1>6, <1>8, <3>1
      <3>2. CASE q # cur
        BY <1>6, <1>9, <3>2 DEF IInv, RefCountExact
      <3> QED
        BY <3>1, <3>2
    <2> QED
      BY <1>3, <1>4, <1>5, <1>10, <2>2, <2>3 DEF IInv
  <1> QED
    BY <1>11, <1>12
==============================================================================

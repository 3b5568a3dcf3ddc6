---------------------------- MODULE LogstreamData ----------------------------
(***************************************************************************)
(* Two algorithms under the Logstreamer: the ring buffer that keeps the    *)
(* last LINEBUFFERLEN bytes before the position (ringbuf/ringbuf.go), and  *)
(* the order of the files of a stream (Logfile.PopulateMatchParts and      *)
(* ByPriority.Less of logstreamer/filehandling.go).                        *)
(***************************************************************************)
EXTENDS Integers, Sequences, FiniteSets, SequencesExt, FiniteSetsExt

CONSTANTS RbCap,      \* capacity of the ring buffer
          RbBytes     \* bound: bytes written in all

VARIABLES rb,       \* the Ringbuf: buf, start, size
          rbleft,   \* what Write still has to copy
          rbcount,  \* bytes handed to Write so far; byte n is the number n
          lfiles,   \* the logfiles to sort: the text matched for each part; or none
          lsort     \* their translation map, priority list and order

ldvars == <<rb, rbleft, rbcount, lfiles, lsort>>

-----------------------------------------------------------------------------
(***************************************************************************)
(* One turn of Write's loop: copy up to the end of the array, move the     *)
(* start on when the buffer was full already, cap the size.                *)
(***************************************************************************)
NextStart(start, n) == IF start + n >= RbCap THEN 0 ELSE start + n

WriteCopyStuck ==
  /\ rbleft # <<>>
  /\ LET at == (rb.start + rb.size) % RbCap
         n  == Min({RbCap - at, Len(rbleft)}) IN
     /\ rb' = [buf   |-> [i \in 0..RbCap - 1 |->
                            IF i \in at..at + n - 1 THEN rbleft[i - at + 1] ELSE rb.buf[i]],
               start |-> rb.start,
               size  |-> Min({rb.size + n, RbCap})]
     /\ rbleft' = SubSeq(rbleft, n + 1, Len(rbleft))
  /\ UNCHANGED <<rbcount, lfiles, lsort>>

WriteCopy ==
  /\ rbleft # <<>>
  /\ LET at == (rb.start + rb.size) % RbCap
         n  == Min({RbCap - at, Len(rbleft)}) IN
     /\ rb' = [buf   |-> [i \in 0..RbCap - 1 |->
                            IF i \in at..at + n - 1 THEN rbleft[i - at + 1] ELSE rb.buf[i]],
               start |-> IF rb.size >= RbCap THEN NextStart(rb.start, n) ELSE rb.start,
               size  |-> Min({rb.size + n, RbCap})]
     /\ rbleft' = SubSeq(rbleft, n + 1, Len(rbleft))
  /\ UNCHANGED <<rbcount, lfiles, lsort>>

RbWrite ==
  /\ rbleft = <<>> /\ lfiles = <<>>
  /\ \E n \in 1..Min({2 * RbCap + 1, RbBytes - rbcount}) :
       /\ rbleft' = [i \in 1..n |-> rbcount + i]
       /\ rbcount' = rbcount + n
  /\ UNCHANGED <<rb, lfiles, lsort>>

(***************************************************************************)
(* Read copies from start to the end of the array, then from its front.    *)
(***************************************************************************)
RbRead ==
  LET first == Min({rb.size, RbCap - rb.start}) IN
  [i \in 1..first |-> rb.buf[rb.start + i - 1]] \o [i \in 1..rb.size - first |-> rb.buf[i - 1]]

-----------------------------------------------------------------------------
(***************************************************************************)
(* The score of what a part matched: through its translation map if that   *)
(* has several entries, which then must cover the text; through the        *)
(* "missing" entry if that is the only one; else as a number, or -1.       *)
(***************************************************************************)
Texts == {"missing", "1", "2", "late"}
Maps == {"none", "missing", "full"}
AsInt(t) == CASE t = "1" -> 1 [] t = "2" -> 2 [] OTHER -> -1
FullMap == [t \in {"missing", "late"} |-> IF t = "late" THEN 9 ELSE 0]

Score(t, map) ==
  CASE map = "full" -> IF t \in DOMAIN FullMap THEN FullMap[t] ELSE -2
    [] map = "missing" /\ t = "missing" -> 5
    [] OTHER -> AsInt(t)

(***************************************************************************)
(* PopulateMatchParts fills MatchParts in the order of the expression's    *)
(* groups (1, then 2) and gives up at a text its map does not cover; the   *)
(* error is dropped by ScanForLogstreams and the parts not filled count 0. *)
(***************************************************************************)
MatchParts(f, map) ==
  LET bad == {p \in 1..2 : Score(f[p], map) = -2} IN
  [p \in 1..2 |-> IF bad # {} /\ p >= Min(bad) THEN 0 ELSE Score(f[p], map)]

(***************************************************************************)
(* Less: the first part of the priority list in which two files differ     *)
(* decides, the other way round for a part marked with ^.                  *)
(***************************************************************************)
Less(a, b, priority) ==
  LET diff == {k \in 1..Len(priority) : a[priority[k].part] # b[priority[k].part]}
      k == Min(diff) IN
  /\ diff # {}
  /\ IF priority[k].down THEN a[priority[k].part] > b[priority[k].part]
     ELSE a[priority[k].part] < b[priority[k].part]

SortFiles ==
  /\ lfiles # <<>> /\ lsort.order = <<>>
  /\ LET ps == [i \in 1..3 |-> MatchParts(lfiles[i], lsort.map)] IN
     \E o \in Permutations(1..3) :
       /\ \A i, j \in 1..3 : i < j => ~Less(ps[o[j]], ps[o[i]], lsort.priority)
       /\ lsort' = [lsort EXCEPT !.order = [i \in 1..3 |-> o[i]]]
  /\ UNCHANGED <<rb, rbleft, rbcount, lfiles>>

-----------------------------------------------------------------------------
Priorities == {<<[part |-> 1, down |-> d], [part |-> 2, down |-> e]>> : d, e \in BOOLEAN}

LdInit ==
  /\ rb = [buf |-> [i \in 0..RbCap - 1 |-> 0], start |-> 0, size |-> 0]
  /\ rbleft = <<>> /\ rbcount = 0
  /\ \/ /\ lfiles \in {<<<<"1", a>>, <<b, "2">>, <<"late", c>>>> : a, b, c \in Texts}
        /\ lsort \in [map : Maps, priority : Priorities, order : {<<>>}]
     \/ lfiles = <<>> /\ lsort = [order |-> <<>>]

LdIdle == UNCHANGED ldvars
LdNext == RbWrite \/ WriteCopy \/ SortFiles \/ LdIdle
LdSpec == LdInit /\ [][LdNext]_ldvars

(***************************************************************************)
(* Between two writes the ring buffer holds the last bytes written, as     *)
(* many as it has room for, in order: the window the position's hash is    *)
(* made of.                                                                *)
(***************************************************************************)
RingHoldsLast ==
  rbleft = <<>> =>
    RbRead = [i \in 1..Min({rbcount, RbCap}) |-> rbcount - Min({rbcount, RbCap}) + i]

(***************************************************************************)
(* Less is an order sort.Sort can work with, whatever the files, maps and  *)
(* priorities: no file is less than itself, two are never less than each   *)
(* other, and files neither of which is less than the other are alike to   *)
(* every third.                                                            *)
(***************************************************************************)
SortsFiles ==
  lfiles # <<>> =>
    LET P(i)    == MatchParts(lfiles[i], lsort.map)
        L(i, j) == Less(P(i), P(j), lsort.priority) IN
    \A i, j, k \in 1..3 :
       /\ ~L(i, i)
       /\ L(i, j) => ~L(j, i)
       /\ L(i, j) /\ L(j, k) => L(i, k)
       /\ ~L(i, j) /\ ~L(j, i) => (L(i, k) <=> L(j, k))

LdTypeOK ==
  /\ rb.start \in 0..RbCap - 1 /\ rb.size \in 0..RbCap
  /\ rbcount \in 0..RbBytes
=============================================================================

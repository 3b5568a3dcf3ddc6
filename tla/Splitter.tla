------------------------------- MODULE Splitter -------------------------------
(***************************************************************************)
(* The splitter runner of pipeline/splitter_runner.go and the splitters of *)
(* pipeline/splitters.go: how a stream that arrives in arbitrary pieces is *)
(* cut into records.                                                       *)
(*                                                                         *)
(* A byte is a letter: "x" is data, "d" the delimiter of the token and     *)
(* regex splitters.  For the Heka framing "h" is a record separator with a *)
(* header announcing a message of one letter, "b" one whose signature does *)
(* not verify, and "s" a record separator no valid header follows.         *)
(***************************************************************************)
EXTENDS Integers, Sequences, FiniteSets, SequencesExt, FiniteSetsExt

CONSTANTS SplLen,      \* bound: length of a stream of data and delimiters
          SplHekaLen,  \* bound: length of a framed stream
          SplMax,      \* MAX_RECORD_SIZE
          SplBuf       \* min_buffer_size

ASSUME SplAssumption == SplMax \in Nat /\ SplBuf \in 1..SplMax

VARIABLES splconf,   \* splitter, entry point, keep_truncated, incomplete final
          stream,    \* what the reader will return
          sr,        \* the sRunner, and the splitter's own state
          splout,    \* records delivered, packs, letters dropped
          splpc

splvars == <<splconf, stream, sr, splout, splpc>>

Letters(kind) == IF kind = "heka" THEN {"x", "h", "b", "s"} ELSE {"x", "d"}
Kinds == {"null", "token", "token2", "regex", "regexEOL", "regexBOL", "heka"}

(***************************************************************************)
(* FindRecord of each splitter on the letters `b`: how many are read and   *)
(* how many, from which one on, are the record (len 0: none yet).          *)
(***************************************************************************)
Places(b, ls) == {i \in 1..Len(b) : b[i] \in ls}
None(n) == [read |-> n, from |-> 1, len |-> 0]
Rec(n, from, to) == [read |-> n, from |-> from, len |-> to - from + 1]

FindNull(b) == Rec(Len(b), 1, Len(b))

FindToken(b, count) ==
  LET ends == {i \in Places(b, {"d"}) : Cardinality(Places(SubSeq(b, 1, i), {"d"})) = count} IN
  IF ends = {} THEN None(0) ELSE Rec(Min(ends), 1, Min(ends))

(***************************************************************************)
(* The regexp splitter searches behind the captured delimiter the previous *)
(* match left at the start of the buffer (captureLen, `cl` here).          *)
(***************************************************************************)
FindRegexNoSkip(b, kind, cl) ==
  LET hits == Places(b, {"d"})
      i == Min(hits) IN
  CASE hits = {} -> None(0)
    [] hits # {} /\ kind = "regexEOL" -> Rec(i, 1, i)
    [] hits # {} /\ kind = "regexBOL" -> Rec(i - 1, 1, i - 1)
    [] hits # {} /\ kind = "regex"    -> Rec(i, 1, i - 1)

FindRegex(b, kind, cl) ==
  LET hits == {i \in Places(b, {"d"}) : i > cl}
      i == Min(hits) IN
  CASE hits = {} -> None(0)
    [] hits # {} /\ kind = "regexEOL" -> Rec(i, 1, i)
    [] hits # {} /\ kind = "regexBOL" -> Rec(i - 1, 1, i - 1)
    [] hits # {} /\ kind = "regex"    -> Rec(i, 1, i - 1)

(***************************************************************************)
(* The framing splitter skips to a record separator; a header needs to be  *)
(* complete before it is judged, and a message before it is a record.  The *)
(* header decoded last (`hdr`) is kept until a record is returned.  The    *)
(* recursion over invalid headers is the choice of the first good place.   *)
(***************************************************************************)
FindHeka(b, hdr) ==
  LET seps  == Places(b, {"h", "b", "s"})
      valid == {i \in seps : b[i] # "s" \/ (hdr /\ i = Min(seps))}
      open  == {i \in seps : i = Len(b)}
      stop  == valid \union open IN
  IF stop = {} THEN None(Len(b))
  ELSE LET i == Min(stop) IN
       IF i = Len(b) THEN None(i - 1) ELSE Rec(i + 1, i, i + 1)

FindRecord(b, s) ==
  CASE splconf.kind = "null"   -> FindNull(b)
    [] splconf.kind = "token"  -> FindToken(b, 1)
    [] splconf.kind = "token2" -> FindToken(b, 2)
    [] splconf.kind = "heka"   -> FindHeka(b, s.hdr)
    [] OTHER -> FindRegex(b, splconf.kind, s.capl)

AfterFind(b, f, s) ==
  [s EXCEPT !.capl = IF splconf.kind = "regexBOL" /\ Places(b, {"d"}) \ 1..s.capl # {}
                     THEN 1 ELSE s.capl,
            !.hdr = splconf.kind = "heka" /\ f.len = 0
                    /\ f.read < Len(b) /\ b[Len(b)] \in {"h", "b"}]

(***************************************************************************)
(* UnframeRecord returns nil when the signature does not verify.           *)
(***************************************************************************)
Unframes(rec) == splconf.kind = "heka" => rec[1] # "b"

(***************************************************************************)
(* DeliverRecord takes a pack for every record, and gives it back when the *)
(* unframer refuses the record.                                            *)
(***************************************************************************)
Deliver(out, rec) ==
  IF ~Unframes(rec)
  THEN [out EXCEPT !.packs = @ + 1, !.recycled = @ + 1, !.gaps = @ + Len(rec)]
  ELSE [out EXCEPT !.packs = @ + 1, !.recs = Append(@, rec)]

(***************************************************************************)
(* sRunner.read: make room, then read.  Without room to grow a full buffer *)
(* is given up as a record that is too long.                               *)
(***************************************************************************)
Half(s) == s.cap - (s.scan + Len(s.data)) <= s.cap \div 2
Short(s) == /\ Half(s) /\ s.scan = 0
            /\ s.cap = SplMax /\ Len(s.data) = s.cap
Room(s) == IF ~Half(s) THEN s
           ELSE IF s.scan = 0 THEN [s EXCEPT !.cap = Min({2 * @, SplMax})]
           ELSE [s EXCEPT !.scan = 0]

(***************************************************************************)
(* GetRecordFromStream.  Reading puts n more letters behind the buffered   *)
(* ones; an EOF that comes with letters is held back until they are used.  *)
(***************************************************************************)
LeftOf(s) == Len(stream) - s.at

ReadSome(s) ==
  LET r == Room(s) IN
  {[r EXCEPT !.data = @ \o SubSeq(stream, s.at + 1, s.at + n), !.at = @ + n, !.reof = e] :
     n \in 1..Min({r.cap - r.scan - Len(r.data), LeftOf(s)}),
     e \in {x \in BOOLEAN : x => LeftOf(s) <= r.cap - r.scan - Len(r.data)}}
EofKept(s, t) == t.reof => t.at = Len(stream)

(***************************************************************************)
(* FindRecord on what is buffered, and what the runner needs next.         *)
(***************************************************************************)
NeedDataUnset(s, len, all) == all
\* needData: nothing found asks for more, unless the stream has ended.
NeedData(s, len, all) == IF len = 0 THEN s.need \/ ~s.reof ELSE all

Cut(s) ==
  LET f    == FindRecord(s.data, s)
      t    == AfterFind(s.data, f, s)
      rest == SubSeq(s.data, f.read + 1, Len(s.data))
      all  == f.len > 0 /\ rest = <<>> IN
  [rec |-> SubSeq(s.data, f.from, f.from + f.len - 1),
   gap |-> f.read - f.len,
   eof |-> f.len = 0 /\ s.reof,
   s   |-> [t EXCEPT !.data = rest,
                     !.scan = IF all THEN 0 ELSE @ + f.read,
                     !.need = NeedData(s, f.len, all),
                     !.reof = IF f.len = 0 THEN FALSE ELSE @]]

(***************************************************************************)
(* One call of GetRecordFromStream by SplitStream or, for "whole",         *)
(* SplitStreamNullSplitterToEOF, which joins the records of a NullSplitter *)
(* until the EOF, and what they do with its result.                        *)
(***************************************************************************)
Joins == splconf.entry = "whole" /\ splconf.kind = "null"
Take(out, rec) == IF Joins THEN [out EXCEPT !.long = @ \o rec] ELSE Deliver(out, rec)

AtEnd(s, out) ==
  LET rest == IF splconf.incomplete /\ s.data # <<>> THEN Take(out, s.data) ELSE out
      fin  == IF Joins /\ rest.long # <<>> THEN Deliver(rest, rest.long) ELSE rest IN
  /\ splout' = [fin EXCEPT !.long = <<>>]
  /\ sr' = [s EXCEPT !.data = IF splconf.incomplete THEN <<>> ELSE @]
  /\ splpc' = "end"

Uses(s) ==
  LET c   == Cut(s)
      out == [splout EXCEPT !.gaps = @ + c.gap] IN
  IF c.eof THEN AtEnd(c.s, out)
  ELSE /\ sr' = c.s
       /\ splout' = IF c.rec = <<>> THEN out ELSE Take(out, c.rec)
       /\ UNCHANGED splpc

SplitStream ==
  /\ splpc = "run" /\ splconf.entry # "bytes"
  /\ \/ ~sr.need /\ Uses(sr)
     \/ sr.need /\ sr.reof /\ Uses(sr)
     \/ sr.need /\ ~sr.reof /\ ~Short(sr) /\ LeftOf(sr) > 0
        /\ \E t \in ReadSome(sr) : EofKept(sr, t) /\ Uses(t)
     \/ sr.need /\ ~sr.reof /\ ~Short(sr) /\ LeftOf(sr) = 0 /\ AtEnd(Room(sr), splout)
     \/ /\ sr.need /\ ~sr.reof /\ Short(sr)
        /\ splout' = IF splconf.keep THEN Take(splout, sr.data)
                     ELSE [splout EXCEPT !.gaps = @ + Len(sr.data)]
        /\ sr' = [sr EXCEPT !.data = <<>>, !.scan = 0]
        /\ UNCHANGED splpc
  /\ UNCHANGED <<splconf, stream>>

(***************************************************************************)
(* SplitBytes cuts one buffer, a datagram or a message of a queue; sr.data *)
(* is what is left of it.                                                  *)
(***************************************************************************)
SplitBytes ==
  /\ splpc = "run" /\ splconf.entry = "bytes"
  /\ LET f    == FindRecord(sr.data, sr)
         rest == SubSeq(sr.data, f.read + 1, Len(sr.data))
         fin  == f.len = 0 /\ splconf.incomplete /\ rest # <<>>
         all  == IF fin THEN rest ELSE SubSeq(sr.data, f.from, f.from + f.len - 1)
         rec  == IF Len(all) <= SplMax THEN all
                 ELSE IF splconf.keep THEN SubSeq(all, 1, SplMax) ELSE <<>> IN
     /\ sr' = [AfterFind(sr.data, f, sr) EXCEPT !.data = IF fin THEN <<>>
                                                         ELSE IF f.len = 0 THEN @ ELSE rest]
     /\ splout' = IF f.len = 0 /\ ~fin THEN splout
                  ELSE [(IF rec = <<>> THEN splout ELSE Deliver(splout, rec)) EXCEPT
                          !.gaps = @ + f.read - f.len + Len(all) - Len(rec)]
     /\ splpc' = IF (f.len = 0 /\ ~fin) \/ sr'.data = <<>> THEN "end" ELSE "run"
  /\ UNCHANGED <<splconf, stream>>

SplInit ==
  /\ splconf \in [kind : Kinds, entry : {"stream", "whole", "bytes"}, keep : BOOLEAN,
                  incomplete : BOOLEAN]
  /\ splconf.kind = "heka" => ~splconf.incomplete
  /\ splconf.entry = "whole" => splconf.kind \in {"null", "token"}
  /\ stream \in [1..(IF splconf.kind = "heka" THEN SplHekaLen ELSE SplLen)
                   -> Letters(splconf.kind)]
  /\ sr = [data |-> IF splconf.entry = "bytes" THEN stream ELSE <<>>,
           at |-> IF splconf.entry = "bytes" THEN Len(stream) ELSE 0,
           scan |-> 0, cap |-> SplBuf, need |-> TRUE, reof |-> FALSE, capl |-> 0, hdr |-> FALSE]
  /\ splout = [recs |-> <<>>, long |-> <<>>, packs |-> 0, recycled |-> 0, gaps |-> 0]
  /\ splpc = "run"

SplIdle == UNCHANGED splvars

SplNext == SplitStream \/ SplitBytes \/ SplIdle

SplFairness == WF_splvars(SplitStream \/ SplitBytes)
SplSpec == SplInit /\ [][SplNext]_splvars /\ SplFairness

-----------------------------------------------------------------------------
(***************************************************************************)
(* What the records of a stream are, whatever the pieces it arrives in:    *)
(* the spans between the places where one ends and the next begins.        *)
(***************************************************************************)
Nth(S) == SelectSeq([i \in 1..Len(stream) |-> i], LAMBDA i : i \in S)
Delims == Places(stream, {"d"})
FrameStart[i \in 1..Len(stream)] ==
  stream[i] \in {"h", "b"} /\ (i > 1 => ~FrameStart[i - 1])

Spans ==
  LET cuts(c) == Nth({i \in Delims : Cardinality({j \in Delims : j <= i}) % c = 0})
      from(e, k) == IF k = 1 THEN 1 ELSE e[k - 1] + 1
      D == Nth(Delims)
      F == Nth({i \in 1..Len(stream) : FrameStart[i] /\ i < Len(stream) /\ stream[i] = "h"}) IN
  CASE splconf.kind = "token2" -> LET e == cuts(2) IN [k \in 1..Len(e) |-> <<from(e, k), e[k]>>]
    [] splconf.kind \in {"token", "regexEOL"} -> [k \in 1..Len(D) |-> <<from(D, k), D[k]>>]
    [] splconf.kind = "regex" -> [k \in 1..Len(D) |-> <<from(D, k), D[k] - 1>>]
    [] splconf.kind = "regexBOL" ->
         [k \in 1..Len(D) |-> <<IF k = 1 THEN 1 ELSE D[k - 1], D[k] - 1>>]
    [] splconf.kind = "heka" -> [k \in 1..Len(F) |-> <<F[k], F[k] + 1>>]
    [] OTHER -> <<>>

Reference == [k \in 1..Len(Spans) |-> SubSeq(stream, Spans[k][1], Spans[k][2])]

(***************************************************************************)
(* The streams the reference speaks about: no record, and no rest at the   *)
(* end, as long as MAX_RECORD_SIZE, and no empty record.                   *)
(***************************************************************************)
Ordinary ==
  /\ splconf.kind # "null" /\ ~splconf.incomplete
  /\ \A k \in 1..Len(Spans) : Reference[k] # <<>> /\ Len(Reference[k]) < SplMax
  /\ Spans # <<>> => Len(stream) - Spans[Len(Spans)][2] < SplMax
  /\ Spans = <<>> => Len(stream) < SplMax

SplTypeOK ==
  /\ splpc \in {"run", "end"}
  /\ sr.cap \in SplBuf..SplMax
  /\ splconf.entry # "bytes" => sr.scan + Len(sr.data) <= sr.cap
  /\ sr.at \in 0..Len(stream)
  /\ sr.capl \in 0..1

(***************************************************************************)
(* Whatever the pieces the stream arrives in, the records delivered are    *)
(* its records, in order and each once, and at the end all of them.        *)
(***************************************************************************)
SplitsAsReference ==
  Ordinary => /\ IsPrefix(splout.recs, Reference)
              /\ splpc = "end" => splout.recs = Reference

(***************************************************************************)
(* No letter is lost or doubled: what was read is what was delivered, what *)
(* was skipped, and what is buffered.  Every pack taken for a record is    *)
(* delivered or given back.                                                *)
(***************************************************************************)
TotalLen(ss) == FoldSeq(LAMBDA s, n : n + Len(s), 0, ss)
LettersAccounted ==
  /\ TotalLen(splout.recs) + Len(splout.long) + splout.gaps + Len(sr.data)
       = sr.at
  /\ splout.packs = Len(splout.recs) + splout.recycled

(***************************************************************************)
(* Every stream that ends is split to its end: the buffer always finds     *)
(* room for another letter.                                                *)
(***************************************************************************)
SplitEnds == (splpc = "run" /\ sr.at < Len(stream)) ~> (splpc = "end")

(***************************************************************************)
(* config/splitters/index.rst: records that are too long "will be dropped" *)
(* without keep_truncated: only whole records are delivered.               *)
(***************************************************************************)
TooLongDropped ==
  splconf.kind = "token" /\ ~splconf.keep /\ ~splconf.incomplete =>
     \A i \in 1..Len(splout.recs) : splout.recs[i] \in ToSet(Reference)
=============================================================================

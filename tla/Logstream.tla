------------------------------ MODULE Logstream ------------------------------
(***************************************************************************)
(* One log stream of the Logstreamer: logstreamer/reader.go, the scan of   *)
(* logstreamer/filehandling.go and the reading loop of                     *)
(* plugins/logstreamer/logstreamer_input.go.                               *)
(*                                                                         *)
(* The log is written letter by letter to the newest of a set of files     *)
(* that are rotated by renaming: name 1 is the file being written ("log"), *)
(* name n + 1 the one rotated just before name n ("log.n").  A file (an    *)
(* inode) is the interval of letters it holds, so that two different files *)
(* never hold the same letters and the SHA1 of a window of letters is the  *)
(* window itself.  LsRec letters make a record.  The reader follows the    *)
(* stream through one open file at a time and journals its position, a     *)
(* name, an offset and the hash of the LsWindow letters (LINEBUFFERLEN)    *)
(* before the offset, by which it finds its file again after a rotation.   *)
(*                                                                         *)
(* One step of the model is one call the reader makes on the file system;  *)
(* NewerFileAvailable and LocatePriorLocation, which make several, are one *)
(* step each.  Files are not gzipped.                                      *)
(***************************************************************************)
EXTENDS Integers, Sequences, FiniteSets, SequencesExt, FiniteSetsExt

CONSTANTS LsNames,      \* how many names the rotation keeps
          LsRec,        \* letters of a record
          LsRecords,    \* bound: records written
          LsRotations,  \* bound: rotations
          LsWindow,     \* LINEBUFFERLEN
          LsChunk,      \* letters one read asks for
          LsSaveEvery,  \* records after which the position is saved (500 in the code)
          LsCaps,       \* capacities the save buffer may have
          LsRestarts,   \* bounds: how many crashes and restarts
          LsLoose       \* which of the rules of LsConfs may be off

VARIABLES lconf,     \* the rules the environment keeps in this behaviour
          inodes,    \* the files, in the order they were created
          names,     \* the file each name stands for, 0 for none
          wfile,     \* the file the writer has open
          logfiles,  \* Logstream.logfiles: names, oldest first, as last scanned
          rd,        \* the reader: program counter, open file, offset, priorEOF,
                     \*   recordCount
          pos,       \* Logstream.position
          saveBuffer,
          sbuf,      \* the letters in the splitter's buffer
          journal,   \* the journal file
          lsout,     \* what was delivered
          lsleft     \* restarts left

lsvars == <<lconf, inodes, names, wfile, logfiles, rd, pos, saveBuffer, sbuf,
            journal, lsout, lsleft>>

(***************************************************************************)
(* The rules: a file is rotated only between records (whole), only when it *)
(* is not empty (full), and at most once between two scans, the first of   *)
(* which is followed by the first open (slow).                             *)
(***************************************************************************)
LsConfs == {[rules |-> {"whole", "full", "slow"} \ off, cap |-> c, downs |-> d] :
              off \in SUBSET LsLoose, c \in LsCaps, d \in LsRestarts}

LsLetters == LsRec * LsRecords
Size(id) == inodes[id].hi - inodes[id].lo

(***************************************************************************)
(* The window a hash is made of: the letters before offset `seek`, as many *)
(* as LsWindow or the file has.  The code pads a short one with zeros.     *)
(***************************************************************************)
Window(id, seek) ==
  LET lo == inodes[id].lo
      n  == Min({seek, LsWindow}) IN
  [i \in 1..n |-> lo + seek - n + i]

ZeroLocation == [name |-> 0, seek |-> 0, hash |-> <<>>, ring |-> <<>>]
NoReader == [pc |-> "boot", fd |-> 0, off |-> 0, eof |-> FALSE, newer |-> 0,
             ok |-> FALSE, new |-> 0, count |-> 0]

(***************************************************************************)
(* A new ringbuf is empty; Write keeps the last LsWindow letters.          *)
(***************************************************************************)
RingWrite(ring, letters) ==
  LET all == ring \o letters
      n   == Min({Len(all), LsWindow}) IN
  SubSeq(all, Len(all) - n + 1, Len(all))

GenerateHash(p) == [p EXCEPT !.hash = p.ring]
Save(p) == journal' = [GenerateHash(p) EXCEPT !.ring = <<>>]

(***************************************************************************)
(* SeekInFile finds the position in a file when the window before the      *)
(* offset hashes as it did; offset 0 is found in every file.               *)
(***************************************************************************)
SeekInFile(n, p) ==
  LET id == names[n] IN
  CASE id = 0 -> "file"
    [] id # 0 /\ p.seek = 0 -> "ok"
    [] id # 0 /\ p.seek > 0 ->
         IF p.seek <= Size(id) /\ Window(id, p.seek) = p.hash THEN "ok" ELSE "seek"

Found(n, p) ==
  [err |-> "none", id |-> names[n],
   p |-> [p EXCEPT !.name = n,
                   !.ring = IF p.seek = 0 THEN p.ring
                            ELSE Window(names[n], p.seek)]]

(***************************************************************************)
(* LocatePriorLocation: the file of the position's own name first, if      *)
(* asked to, then every file of the scanned list from the oldest on.  A    *)
(* file of the list that is gone ends the search with a file error.        *)
(***************************************************************************)
LocatePriorLocation(p, checkFilename) ==
  LET own   == checkFilename /\ p.name \in ToSet(logfiles)
      there == SeekInFile(p.name, p)
      stops == {i \in 1..Len(logfiles) : SeekInFile(logfiles[i], p) # "seek"} IN
  IF own /\ there = "ok" THEN Found(p.name, p)
  ELSE IF own /\ there = "file" THEN [err |-> "file", id |-> 0, p |-> p]
  ELSE IF stops = {} THEN [err |-> "lost", id |-> 0, p |-> p]
  ELSE LET n == logfiles[Min(stops)] IN
       IF names[n] = 0 THEN [err |-> "file", id |-> 0, p |-> p] ELSE Found(n, p)

FileHashMismatch(p) == SeekInFile(p.name, p) = "seek"

(***************************************************************************)
(* NewerFileAvailable: is the open file still the one of the position's    *)
(* name, and if not, where is it now; then, is there a newer one.          *)
(***************************************************************************)
NewerFileAvailable(p) ==
  LET last == Size(rd.fd)
      this == Size(names[p.name])
      prior == last < this /\ last = 0
      moved == last > this \/ prior \/ FileHashMismatch(p)
      loc  == LocatePriorLocation(p, FALSE)
      q    == IF moved THEN loc.p ELSE p
      idx  == {i \in 1..Len(logfiles) : logfiles[i] = q.name}
      No(r)      == [file |-> 0, ok |-> FALSE, p |-> r]
      Yes(f, r)  == [file |-> f, ok |-> TRUE, p |-> r] IN
  IF names[p.name] = 0 THEN No(p)
  ELSE IF moved /\ loc.err = "file" THEN No(p)
  ELSE IF moved /\ loc.err = "lost"
       THEN IF logfiles = <<>> THEN No(p) ELSE Yes(logfiles[1], p)
  ELSE IF idx = {} THEN No(q)
  ELSE IF Min(idx) + 1 <= Len(logfiles) THEN Yes(logfiles[Min(idx) + 1], q)
  ELSE IF moved /\ prior THEN Yes(q.name, q)
  ELSE No(q)

(***************************************************************************)
(* FlushBuffer(n) moves the position over the first n letters of the save  *)
(* buffer, over all of it when n is 0 or more than it holds.               *)
(***************************************************************************)
FlushCount(n, save) == IF n = 0 \/ n > Len(save) THEN Len(save) ELSE n
FlushedPos(n, save, p) ==
  LET m == FlushCount(n, save) IN
  [p EXCEPT !.seek = @ + m, !.ring = RingWrite(@, SubSeq(save, 1, m))]
FlushedSave(n, save) == SubSeq(save, FlushCount(n, save) + 1, Len(save))

(***************************************************************************)
(* Outside: the writer and the rotation.                                   *)
(***************************************************************************)
WriteLetter ==
  /\ inodes[wfile].hi < LsLetters
  /\ inodes' = [inodes EXCEPT ![wfile].hi = @ + 1]
  /\ UNCHANGED <<lconf, names, wfile, logfiles, rd, pos, saveBuffer, sbuf,
                 journal, lsout, lsleft>>

Listed == {n \in 1..LsNames : names[n] # 0} = ToSet(logfiles)

Rename ==
  /\ names[1] # 0
  /\ Len(inodes) <= LsRotations
  /\ "full" \in lconf.rules => Size(names[1]) > 0
  /\ "slow" \in lconf.rules /\ rd.pc # "boot" => Listed /\ rd.fd # 0
  /\ names' = [n \in 1..LsNames |-> IF n = 1 THEN 0 ELSE names[n - 1]]
  /\ UNCHANGED <<lconf, inodes, wfile, logfiles, rd, pos, saveBuffer, sbuf,
                 journal, lsout, lsleft>>

CreateLog ==
  /\ names[1] = 0
  /\ "whole" \in lconf.rules => inodes[wfile].hi % LsRec = 0
  /\ inodes' = Append(inodes, [lo |-> inodes[wfile].hi, hi |-> inodes[wfile].hi])
  /\ wfile' = Len(inodes')
  /\ names' = [names EXCEPT ![1] = Len(inodes')]
  /\ UNCHANGED <<lconf, logfiles, rd, pos, saveBuffer, sbuf, journal, lsout, lsleft>>

(***************************************************************************)
(* ScanForLogstreams lists the files of the stream, oldest first; the      *)
(* first scan also loads the position from the journal.                    *)
(***************************************************************************)
Scanned == SelectSeq([i \in 1..LsNames |-> LsNames + 1 - i], LAMBDA n : names[n] # 0)

Rescan ==
  /\ rd.pc # "boot"
  /\ logfiles' = Scanned
  /\ UNCHANGED <<lconf, inodes, names, wfile, rd, pos, saveBuffer, sbuf, journal,
                 lsout, lsleft>>

LsBoot ==
  /\ rd.pc = "boot"
  /\ logfiles' = Scanned
  /\ pos' = journal
  /\ rd' = [NoReader EXCEPT !.pc = "top"]
  /\ UNCHANGED <<lconf, inodes, names, wfile, saveBuffer, sbuf, journal, lsout, lsleft>>

(***************************************************************************)
(* deliverRecords: the records in the splitter's buffer go out one by one, *)
(* each moving the position; with none left the stream is read.  A stop is *)
(* seen at the top of this loop only.  countRecord saves the position now  *)
(* and then in a long run of records.                                      *)
(***************************************************************************)
RecordEnd == {i \in 1..Len(sbuf) : sbuf[i] % LsRec = 0}
IsRecord(s) == /\ Len(s) = LsRec
               /\ \A i \in 1..LsRec : s[i] = s[LsRec] - LsRec + i

DeliverFirst(n, rec) ==
  /\ sbuf' = SubSeq(sbuf, n + 1, Len(sbuf))
  /\ lsout' = [got   |-> lsout.got \union (IF IsRecord(rec) THEN {rec[n] \div LsRec} ELSE {}),
               whole |-> lsout.whole /\ IsRecord(rec),
               order |-> lsout.order /\ lsout.last \in {0, (rec[n] \div LsRec) - 1},
               last  |-> rec[n] \div LsRec]

DeliverRecordLs ==
  /\ rd.pc = "top" /\ RecordEnd # {}
  /\ LET n == Min(RecordEnd) IN
     /\ saveBuffer' = FlushedSave(n, saveBuffer)
     /\ DeliverFirst(n, SubSeq(sbuf, 1, n))
     /\ LET p == FlushedPos(n, saveBuffer, pos) IN
        IF rd.count + 1 > LsSaveEvery
        THEN Save(p) /\ pos' = GenerateHash(p) /\ rd' = [rd EXCEPT !.count = 0]
        ELSE pos' = p /\ rd' = [rd EXCEPT !.count = @ + 1] /\ UNCHANGED journal
  /\ UNCHANGED <<lconf, inodes, names, wfile, logfiles, lsleft>>

(***************************************************************************)
(* Logstream.Read without an open file: find the position again, or start  *)
(* over at the oldest file.  A file error is returned and retried later.   *)
(***************************************************************************)
NeedsData == rd.pc \in {"top", "get"} /\ RecordEnd = {}

ReadOpens ==
  /\ NeedsData /\ rd.fd = 0
  /\ \E known \in {pos.name # 0}, loc \in {LocatePriorLocation(pos, TRUE)} :
     \/ /\ known /\ loc.err = "none"
        /\ pos' = loc.p
        /\ rd' = [rd EXCEPT !.pc = "get", !.fd = loc.id, !.off = pos.seek]
        /\ UNCHANGED journal
     \/ /\ known /\ loc.err = "file"
        /\ rd' = [rd EXCEPT !.pc = "idle"]
        /\ Save(pos)
        /\ pos' = GenerateHash(pos)
     \/ /\ (known => loc.err = "lost") /\ logfiles = <<>>
        /\ rd' = [rd EXCEPT !.pc = "idle"]
        /\ UNCHANGED <<pos, journal>>
     \/ /\ (known => loc.err = "lost") /\ logfiles # <<>>
        /\ pos' = [ZeroLocation EXCEPT !.name = logfiles[1]]
        /\ rd' = [rd EXCEPT !.pc = "get"]
        /\ UNCHANGED journal
  /\ UNCHANGED <<lconf, inodes, names, wfile, logfiles, saveBuffer, sbuf, lsout, lsleft>>

(***************************************************************************)
(* readBytes.  After an EOF it looks for a newer file before it reads      *)
(* again, so that a second EOF means the old file is exhausted.            *)
(***************************************************************************)
LookNewer ==
  /\ NeedsData /\ rd.fd # 0
  /\ \E nf \in {NewerFileAvailable(GenerateHash(pos))} :
     IF rd.eof
     THEN /\ pos' = nf.p
          /\ rd' = [rd EXCEPT !.pc = "raw", !.newer = nf.file, !.ok = nf.ok]
     ELSE /\ rd' = [rd EXCEPT !.pc = "raw", !.newer = 0, !.ok = FALSE]
          /\ UNCHANGED pos
  /\ UNCHANGED <<lconf, inodes, names, wfile, logfiles, saveBuffer, sbuf, journal,
                 lsout, lsleft>>

AtEOF == rd.off >= Size(rd.fd)

(***************************************************************************)
(* Letters are read, as many as there are and fit the buffer passed in:    *)
(* BufferSave keeps them in the save buffer, which it flushes into the     *)
(* position first if they do not fit.                                      *)
(***************************************************************************)
ReadsLetters ==
  /\ rd.pc = "raw" /\ ~AtEOF
  /\ LET n    == Min({LsChunk, Size(rd.fd) - rd.off})
         read == [i \in 1..n |-> inodes[rd.fd].lo + rd.off + i]
         fits == Len(saveBuffer) + n <= lconf.cap IN
     /\ sbuf' = sbuf \o read
     /\ pos' = IF fits THEN pos ELSE FlushedPos(0, saveBuffer, pos)
     /\ saveBuffer' = IF fits THEN saveBuffer \o read ELSE read
     /\ rd' = [rd EXCEPT !.pc = "top", !.off = @ + n, !.eof = FALSE]
  /\ UNCHANGED <<lconf, inodes, names, wfile, logfiles, journal, lsout, lsleft>>

FirstEOF ==
  /\ rd.pc = "raw" /\ AtEOF /\ ~rd.eof
  /\ rd' = [rd EXCEPT !.pc = "get", !.eof = TRUE]
  /\ Save(pos)
  /\ pos' = GenerateHash(pos)
  /\ UNCHANGED <<lconf, inodes, names, wfile, logfiles, saveBuffer, sbuf, lsout, lsleft>>

SecondEOF ==
  /\ rd.pc = "raw" /\ AtEOF /\ rd.eof
  /\ rd' = [rd EXCEPT !.pc = IF rd.ok THEN "open" ELSE "idle"]
  /\ UNCHANGED <<lconf, inodes, names, wfile, logfiles, pos, saveBuffer, sbuf,
                 journal, lsout, lsleft>>

OpenNewer ==
  /\ rd.pc = "open"
  /\ \/ /\ names[rd.newer] # 0
        /\ rd' = [rd EXCEPT !.pc = "verify", !.new = names[rd.newer]]
        /\ UNCHANGED <<pos, journal>>
     \/ /\ names[rd.newer] = 0
        /\ rd' = [rd EXCEPT !.pc = "idle"]
        /\ Save(pos)
        /\ pos' = GenerateHash(pos)
  /\ UNCHANGED <<lconf, inodes, names, wfile, logfiles, saveBuffer, sbuf, lsout, lsleft>>

VerifyNewerOk(nf) == nf.ok /\ nf.file = rd.newer

VerifyNewer ==
  /\ rd.pc = "verify"
  /\ \E nf \in {NewerFileAvailable(pos)} :
     IF VerifyNewerOk(nf)
     THEN /\ pos' = [ZeroLocation EXCEPT !.name = rd.newer]
          /\ saveBuffer' = <<>>
          /\ rd' = [NoReader EXCEPT !.pc = "get", !.fd = rd.new, !.count = rd.count]
     ELSE /\ pos' = nf.p
          /\ rd' = [rd EXCEPT !.pc = "get", !.new = 0]
          /\ UNCHANGED saveBuffer
  /\ UNCHANGED <<lconf, inodes, names, wfile, logfiles, sbuf, journal, lsout, lsleft>>

LsTick ==
  /\ rd.pc = "idle"
  /\ rd' = [rd EXCEPT !.pc = "top", !.count = 0]
  /\ UNCHANGED <<lconf, inodes, names, wfile, logfiles, pos, saveBuffer, sbuf,
                 journal, lsout, lsleft>>

(***************************************************************************)
(* hekad stops, or dies at any point; what survives is the journal.  A     *)
(* stop is seen between two records and saves the position; a crash while  *)
(* Save rewrites the journal, which it truncates first, leaves it empty.   *)
(***************************************************************************)
LsDown(j) ==
  /\ lsleft > 0 /\ rd.pc # "boot"
  /\ lsleft' = lsleft - 1
  /\ journal' = j
  /\ rd' = NoReader
  /\ pos' = ZeroLocation /\ saveBuffer' = <<>> /\ sbuf' = <<>> /\ logfiles' = <<>>
  /\ lsout' = [lsout EXCEPT !.last = 0]
  /\ UNCHANGED <<lconf, inodes, names, wfile>>

LsStop == \/ rd.pc = "top" /\ LsDown([GenerateHash(pos) EXCEPT !.ring = <<>>])
          \/ rd.pc = "idle" /\ LsDown(journal)
LsCrash == LsDown(journal)
LsCrashInSave == rd.pc = "raw" /\ AtEOF /\ ~rd.eof /\ LsDown(ZeroLocation)

LsInit ==
  /\ lconf \in LsConfs
  /\ inodes = <<[lo |-> 0, hi |-> 0]>>
  /\ names = [n \in 1..LsNames |-> IF n = 1 THEN 1 ELSE 0]
  /\ wfile = 1
  /\ logfiles = <<>>
  /\ rd = NoReader
  /\ pos = ZeroLocation
  /\ saveBuffer = <<>> /\ sbuf = <<>>
  /\ journal = ZeroLocation
  /\ lsout = [got |-> {}, whole |-> TRUE, order |-> TRUE, last |-> 0]
  /\ lsleft = lconf.downs

LsReader == \/ LsBoot \/ DeliverRecordLs \/ ReadOpens \/ LookNewer \/ ReadsLetters
            \/ FirstEOF \/ SecondEOF \/ OpenNewer \/ VerifyNewer \/ LsTick

LsNext == \/ WriteLetter \/ Rename \/ CreateLog \/ Rescan
          \/ LsReader
          \/ LsStop \/ LsCrash \/ LsCrashInSave

(***************************************************************************)
(* The reading goroutine runs, the rescan ticker fires, and whoever        *)
(* renamed the log creates the next one.                                   *)
(***************************************************************************)
LsFairness == WF_lsvars(LsReader) /\ WF_lsvars(Rescan) /\ WF_lsvars(CreateLog)

LsSpec == LsInit /\ [][LsNext]_lsvars /\ LsFairness

-----------------------------------------------------------------------------
LsTypeOK ==
  /\ \A i \in 1..Len(inodes) : inodes[i].lo <= inodes[i].hi /\ inodes[i].hi <= LsLetters
  /\ wfile = Len(inodes)
  /\ \A n \in 1..LsNames : names[n] \in 0..Len(inodes)
  /\ ToSet(logfiles) \subseteq 1..LsNames
  /\ rd.pc \in {"boot", "top", "get", "raw", "open", "verify", "idle"}
  /\ rd.fd \in 0..Len(inodes) /\ rd.new \in 0..Len(inodes)
  /\ rd.fd # 0 => rd.off \in 0..Size(rd.fd)
  /\ pos.name \in 0..LsNames /\ pos.seek \in 0..LsLetters
  /\ Len(pos.ring) <= LsWindow /\ Len(pos.hash) <= LsWindow
  /\ Len(saveBuffer) <= lconf.cap
  /\ journal.ring = <<>>
  /\ lsout.got \subseteq 1..LsRecords

Orderly == lconf.rules = {"whole", "full", "slow"} /\ lconf.cap >= LsRec

(***************************************************************************)
(* As long as hekad runs, a stream that is rotated between records and not *)
(* twice between two scans is delivered record by record: none is cut or   *)
(* joined with another, skipped, repeated or reordered, however renames,   *)
(* scans and reads fall.  This is what checking for a newer file before    *)
(* the last read, and verifying it after opening it, is there for.         *)
(***************************************************************************)
FollowsRotation == Orderly /\ lsleft = lconf.downs =>
                     /\ lsout.whole /\ lsout.order
                     /\ lsout.got = 1..lsout.last

(***************************************************************************)
(* The position is an offset in the open file, so that the window kept     *)
(* with it is the one found in that file: a hash that no longer fits means *)
(* that the name stands for another file.                                  *)
(***************************************************************************)
PositionInFile == rd.fd # 0 /\ rd.pc # "boot" =>
                    /\ pos.seek + Len(saveBuffer) = rd.off
                    /\ pos.seek > 0 => Window(rd.fd, pos.seek) = pos.ring

(***************************************************************************)
(* The journalled offset is the end of a delivered record and never inside *)
(* one, so a restart resumes with a whole record.  (reader.go: FlushBuffer *)
(* is there "to control how far into a file the Logstream tracks itself at *)
(* regardless of read buffers that may have read farther than we wish to   *)
(* actually save".)                                                        *)
(***************************************************************************)
JournalAtRecord == "whole" \in lconf.rules => journal.seek % LsRec = 0

(***************************************************************************)
(* pluginconfig/logstreamer.rst: the reader keeps its "location in the     *)
(* stream so it can resume from where it left off after a restart, even in *)
(* cases where the file may have rotated during the downtime": no record   *)
(* that was written before a delivered one, and is still in a file with a  *)
(* name, is skipped.                                                       *)
(***************************************************************************)
ResumesWhereLeft ==
  \A r \in lsout.got : \A q \in 1..r :
     (\E n \in 1..LsNames : names[n] # 0 /\ inodes[names[n]].lo < q * LsRec
                                         /\ q * LsRec <= inodes[names[n]].hi)
     => q \in lsout.got

(***************************************************************************)
(* Every record written to an orderly rotated stream is delivered.         *)
(***************************************************************************)
AllDelivered ==
  (Orderly /\ lconf.downs = 0 /\ inodes[wfile].hi = LsLetters) ~> (lsout.got = 1..LsRecords)
=============================================================================

------------------------------- MODULE Assembly -------------------------------
(***************************************************************************)
(* How a file of a usenet posting is put together from its segments        *)
(* (internal/usenet/download/downloader.go, DownloadFile; the decoder is   *)
(* internal/usenet/yenc): where each segment is written, in whatever order *)
(* the workers have them, and how long the file is in the end, resumed or  *)
(* not.  UsenetResume has the workers and the progress file in full; here  *)
(* the file has bytes.                                                     *)
(*                                                                         *)
(* A segment has the size the NZB tells, that of the article, and the size *)
(* of the data decoded from it, which is no larger: yEnc adds its header,  *)
(* its escapes and its line ends.                                          *)
(***************************************************************************)
EXTENDS Integers, Sequences, SequencesExt

CONSTANTS SegmentCount,
          Decoded,      \* segment -> the length of its data
          Overheads,    \* by how much an article may be longer
          MaxAttempts   \* bound: calls of DownloadFile

Segments == 1..SegmentCount

ASSUME AssemblyAssumption ==
  /\ SegmentCount \in Nat \ {0} /\ MaxAttempts \in Nat
  /\ Decoded \in [Segments -> Nat \ {0}]
  /\ Overheads \subseteq Nat

VARIABLES overhead,    \* segment -> by how much its article is longer
          assembled,   \* the bytes of the file; <<>> when it is not there
          segsMarked,  \* the tracker's marks
          inWork,      \* the segments workers have fetched and not written yet
          taken,       \* the segments taken from workCh
          downloaded,  \* the atomic counter of that name
          assembling,  \* DownloadFile: "off", "working", "failed" or "returned"
          attempts

assemblyVars ==
  <<overhead, assembled, segsMarked, inWork, taken, downloaded, assembling, attempts>>

AssemblyInit ==
  /\ overhead \in [Segments -> Overheads]
  /\ assembled = << >>
  /\ segsMarked = {} /\ inWork = {} /\ taken = {}
  /\ downloaded = 0
  /\ assembling = "off"
  /\ attempts = 0

\* The sizes of segs, added up in the order of the segments.
Total(size, segs) ==
  LET sum[n \in 0..SegmentCount] ==
        IF n = 0 THEN 0 ELSE sum[n - 1] + IF n \in segs THEN size[n] ELSE 0
  IN sum[SegmentCount]

\* What the NZB tells of segs (seg.Bytes).
EncodedBytes(segs) == Total([s \in Segments |-> Decoded[s] + overhead[s]], segs)

\* A byte is <<segment, place>>; the zeros of a hole are Zero.
Zero == <<0, 0>>

Data(s) == [k \in 1..Decoded[s] |-> <<s, k>>]

\* What was posted.
WholeFile == FlattenSeq([s \in Segments |-> Data(s)])

offsets == [s \in Segments |-> EncodedBytes(1..(s - 1))]

\* Truncate: the file is cut off, or goes on with zeros.
Truncated(bytes, size) == [k \in 1..size |-> IF k <= Len(bytes) THEN bytes[k] ELSE Zero]

\* WriteAt
Over(bytes, data, at) ==
  LET end == at + Len(data)
  IN [k \in 1..Max({Len(bytes), end}) |->
        IF k \in (at + 1)..end THEN data[k - at]
        ELSE IF k <= Len(bytes) THEN bytes[k] ELSE Zero]

-----------------------------------------------------------------------------
\* (Mutant: the file is made anew, whatever is marked.)
CreateOutFile ==
  /\ assembling \in {"off", "failed"} /\ attempts < MaxAttempts
  /\ attempts' = attempts + 1
  /\ assembling' = IF segsMarked = Segments THEN "returned" ELSE "working"
  /\ assembled' = Truncated(<< >>, EncodedBytes(Segments))
  /\ downloaded' = EncodedBytes(segsMarked)
  /\ taken' = segsMarked
  /\ UNCHANGED <<overhead, segsMarked, inWork>>

\* The file is opened, or made as long as the NZB says; segments that are marked count
\* with their size in the NZB.  With all of them marked there is nothing to do.
OpenOutFile ==
  /\ assembling \in {"off", "failed"} /\ attempts < MaxAttempts
  /\ attempts' = attempts + 1
  /\ assembling' = IF segsMarked = Segments THEN "returned" ELSE "working"
  /\ assembled' = IF segsMarked # {} THEN assembled ELSE Truncated(<< >>, EncodedBytes(Segments))
  /\ downloaded' = EncodedBytes(segsMarked)
  /\ taken' = segsMarked
  /\ UNCHANGED <<overhead, segsMarked, inWork>>

FetchSegment(s) ==
  /\ assembling = "working" /\ s \notin taken
  /\ taken' = taken \cup {s} /\ inWork' = inWork \cup {s}
  /\ UNCHANGED <<overhead, assembled, segsMarked, downloaded, assembling, attempts>>

\* The write, and the mark that follows it.
WriteSegment(s) ==
  /\ s \in inWork
  /\ inWork' = inWork \ {s}
  /\ assembled' = Over(assembled, Data(s), offsets[s])
  /\ downloaded' = downloaded + Decoded[s]
  /\ segsMarked' = segsMarked \cup {s}
  /\ UNCHANGED <<overhead, taken, assembling, attempts>>

\* Workers fail or find the context done; the file stays as it is.
WorkersBreak ==
  /\ assembling = "working"
  /\ assembling' = "failed"
  /\ inWork' = {}
  /\ UNCHANGED <<overhead, assembled, segsMarked, taken, downloaded, attempts>>

\* All is written: the file is cut to what was downloaded.
FileFinished ==
  /\ assembling = "working" /\ segsMarked = Segments
  /\ assembling' = "returned"
  /\ assembled' = Truncated(assembled, downloaded)
  /\ UNCHANGED <<overhead, segsMarked, inWork, taken, downloaded, attempts>>

AssemblyNext == OpenOutFile \/ WorkersBreak \/ FileFinished \/ \E s \in Segments : FetchSegment(s) \/ WriteSegment(s)

AssemblySpec == AssemblyInit /\ [][AssemblyNext]_assemblyVars

-----------------------------------------------------------------------------
\* Properties.

\* "WriteAt is safe for concurrent non-overlapping writes" (downloader.go 221): what is
\* marked is at its offset and stays there, whatever other workers and later attempts
\* write; and a file that is returned is whole if articles were no longer than their data.
MarkedIsInPlace ==
  /\ assembling # "returned" =>
       \A s \in segsMarked :
         SubSeq(assembled, offsets[s] + 1, offsets[s] + Decoded[s]) = Data(s)
  /\ assembling = "returned" /\ (\A s \in Segments : overhead[s] = 0) => assembled = WholeFile

\* "Write decoded data at the correct offset" (downloader.go 220; violated: see the README).
AssembledIsWhole == assembling = "returned" => assembled = WholeFile
=============================================================================

------------------------------- MODULE Debrid -------------------------------
(***************************************************************************)
(* The debrid downloader (internal/engine/debrid.go): one HTTPS file, of   *)
(* blocks 1..Size, fetched to a path of its name; what is there already is *)
(* taken for its beginning, and asked for no more.                         *)
(*                                                                         *)
(* The server may send the whole file although it was asked for its end,   *)
(* refuse, or break off; runs may be paused, cancelled or killed at any    *)
(* step, and the task is sent again.  With Overlaps, a run begins while    *)
(* the one before is still winding up.                                     *)
(***************************************************************************)
EXTENDS Integers, Sequences

CONSTANTS Size,       \* blocks of the file
          MaxRuns,    \* bound: times the task is sent
          Leftovers,  \* what may be at the path at first: sequences of blocks
          Lengths,    \* whether answers say how long they are: of BOOLEAN
          Sizes,      \* the size a 416 names: of 0 (no Content-Range) and Size
          RunsOverlap

ASSUME DebridAssumption == Size \in Nat \ {0} /\ MaxRuns \in Nat \ {0}

VARIABLES file,         \* the blocks at the path, <<>> when there is no file
          run,          \* number -> [at, existing, offset, append, body, buf, known]
          begun,        \* how many there were
          cancellable,  \* d.active: the run that can be cancelled, 0 when none
          cancelled

debridVars == <<file, run, begun, cancellable, cancelled>>

Runs == 1..MaxRuns

Whole == [b \in 1..Size |-> b]

NoRun == [at |-> "none", existing |-> 0, offset |-> 0, append |-> FALSE,
          body |-> <<>>, buf |-> 0, known |-> TRUE]

DebridInit ==
  /\ file \in Leftovers
  /\ run = [i \in Runs |-> NoRun]
  /\ begun = 0 /\ cancellable = 0 /\ cancelled = {}

RunGoes(i, from, to) == run[i].at = from /\ run' = [run EXCEPT ![i].at = to]

RunEnded(i) == run[i].at \in {"none", "failed", "returned"}

-----------------------------------------------------------------------------
\* It looks at what is there; then it can be cancelled.
BeginFetch ==
  /\ begun < MaxRuns
  /\ \A i \in Runs : run[i].at # "returned" /\ (RunsOverlap \/ RunEnded(i))
  /\ begun' = begun + 1
  /\ run' = [run EXCEPT ![begun + 1] = [NoRun EXCEPT !.at = "registering", !.existing = Len(file)]]
  /\ UNCHANGED <<file, cancellable, cancelled>>

Register(i) ==
  /\ RunGoes(i, "registering", "asking")
  /\ cancellable' = i
  /\ UNCHANGED <<file, begun, cancelled>>

\* The body that is to be written, from an offset on.
Answered(i, offset, body) ==
  /\ run[i].at \in {"asking", "asking again"}
  /\ \E known \in Lengths :
       run' = [run EXCEPT ![i].at = "opening", ![i].body = body, ![i].known = known,
                          ![i].offset = offset, ![i].append = offset > 0]
  /\ UNCHANGED <<file, begun, cancellable, cancelled>>

\* (Mutant: whatever comes is appended.)
OkAppended(i) == Answered(i, run[i].existing, Whole)

\* 200: the whole file, from its start.
Ok(i) == Answered(i, 0, Whole)

\* 206: what is missing.
PartialContent(i) ==
  /\ run[i].at = "asking" /\ run[i].existing \in 1..(Size - 1)
  /\ Answered(i, run[i].existing, SubSeq(Whole, run[i].existing + 1, Size))

\* 416: nothing is missing, unless it says that it has another size.
RangeNotSatisfiable(i) ==
  /\ run[i].existing >= Size
  /\ \E says \in Sizes :
       IF says # 0 /\ says # run[i].existing THEN RunGoes(i, "asking", "asking again")
                                             ELSE RunGoes(i, "asking", "returning")
  /\ UNCHANGED <<file, begun, cancellable, cancelled>>

\* Any other status; no answer; a body that breaks off or a file that cannot be opened.
Fails(i) ==
  /\ run[i].at \in {"asking", "asking again", "opening", "reading"}
  /\ run' = [run EXCEPT ![i].at = "failing"]
  /\ UNCHANGED <<file, begun, cancellable, cancelled>>

\* O_APPEND, or O_TRUNC.
Open(i) ==
  /\ RunGoes(i, "opening", "reading")
  /\ file' = IF run[i].append THEN file ELSE <<>>
  /\ UNCHANGED <<begun, cancellable, cancelled>>

Read(i) ==
  /\ run[i].at = "reading" /\ i \notin cancelled /\ run[i].body # <<>>
  /\ run' = [run EXCEPT ![i].at = "writing", ![i].buf = Head(run[i].body),
                         ![i].body = Tail(@)]
  /\ UNCHANGED <<file, begun, cancellable, cancelled>>

\* A block is put at the end, or at the place the run has come to.
WriteBuf(i) ==
  /\ run[i].at = "writing"
  /\ LET at == IF run[i].append THEN Len(file) + 1 ELSE run[i].offset + 1
         length == IF at > Len(file) THEN at ELSE Len(file)
     IN file' = [b \in 1..length |-> IF b = at THEN run[i].buf
                                     ELSE IF b <= Len(file) THEN file[b] ELSE 0]
  /\ run' = [run EXCEPT ![i].at = "reading", ![i].offset = @ + 1, ![i].buf = 0]
  /\ UNCHANGED <<begun, cancellable, cancelled>>

\* The end of the body; of an answer that did not say its length, also a broken
\* connection.
EndOfBody(i) ==
  /\ i \notin cancelled
  /\ run[i].body = <<>> \/ ~run[i].known
  /\ RunGoes(i, "reading", "returning")
  /\ UNCHANGED <<file, begun, cancellable, cancelled>>

Stops(i) ==
  /\ i \in cancelled
  /\ RunGoes(i, "asking", "failing") \/ RunGoes(i, "reading", "failing")
  /\ UNCHANGED <<file, begun, cancellable, cancelled>>

\* The deferred function removes the entry of its ID, whoever's that is.
LeaveDownload(i) ==
  /\ RunGoes(i, "failing", "failed") \/ RunGoes(i, "returning", "returned")
  /\ cancellable' = 0
  /\ UNCHANGED <<file, begun, cancelled>>

\* Pause and Cancel; both keep the file.
Stop ==
  /\ cancellable # 0
  /\ cancelled' = cancelled \cup {cancellable}
  /\ cancellable' = 0
  /\ UNCHANGED <<file, run, begun>>

\* The process ends: what was written stays.
KillProcess ==
  /\ \E i \in Runs : ~RunEnded(i)
  /\ run' = [i \in Runs |-> IF RunEnded(i) THEN run[i] ELSE [NoRun EXCEPT !.at = "failed"]]
  /\ cancellable' = 0
  /\ UNCHANGED <<file, begun, cancelled>>

RunStep(i) == Register(i) \/ Ok(i) \/ PartialContent(i) \/ RangeNotSatisfiable(i) \/ Fails(i)
              \/ Open(i) \/ Read(i) \/ WriteBuf(i) \/ EndOfBody(i) \/ Stops(i) \/ LeaveDownload(i)

DebridNext == BeginFetch \/ Stop \/ KillProcess \/ \E i \in Runs : RunStep(i)

DebridSpec == DebridInit /\ [][DebridNext]_debridVars

-----------------------------------------------------------------------------
\* Properties.

\* A file that is returned is the file, block by block: however often its download was
\* broken off, and whether the server gave the range, the whole or neither
\* (debrid.go 106-168).
FetchedIsWhole == \A i \in Runs : run[i].at \in {"returning", "returned"} => file = Whole
=============================================================================

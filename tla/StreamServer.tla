---------------------------- MODULE StreamServer ----------------------------
(***************************************************************************)
(* The counters of the stream server (internal/engine/stream_server.go):   *)
(* SetFile and ClearFile change the file under the lock and its counters   *)
(* after it, one atomic store each; the readers of the requests advance    *)
(* the offset by compare-and-swap.  Who sets and clears is in Streams:     *)
(* here, any number of callers at a time.                                  *)
(*                                                                         *)
(* Files are numbered as they are set, all of Size blocks; a request asks  *)
(* for one range, which it reads block by block from its start.            *)
(***************************************************************************)
EXTENDS Integers, Sequences, FiniteSets

CONSTANTS Size,         \* blocks of a file
          Setters,      \* goroutines that set or clear the file
          MaxFiles,     \* bound: how often a file is set
          MaxRequests,  \* bound: requests
          Requesters    \* connections that are open at a time

ASSUME ServerAssumption == Size \in Nat \ {0} /\ MaxFiles \in Nat /\ MaxRequests \in Nat

VARIABLES provider,  \* the file served, 0 when none
          files,     \* how many were set
          totalFileSize, maxByteOffset, topReaderID, readerCounter,
          storing,   \* setter -> the stores it has still to do
          reader     \* requester -> its trackingReader

counters == <<totalFileSize, maxByteOffset, topReaderID>>
serverVars == <<provider, files, counters, readerCounter, storing, reader>>

Closed == [at |-> "closed", id |-> 0, pos |-> 0, read |-> 0, cur |-> 0]

ServerInit ==
  /\ provider = 0 /\ files = 0
  /\ totalFileSize = 0 /\ maxByteOffset = 0 /\ topReaderID = 0 /\ readerCounter = 0
  /\ storing = [s \in Setters |-> <<>>]
  /\ reader = [q \in Requesters |-> Closed]

-----------------------------------------------------------------------------
\* SetFile and ClearFile.  (The bitrate and the duration are stores of the same kind.)

SetFile(s) ==
  /\ storing[s] = <<>> /\ files < MaxFiles
  /\ files' = files + 1
  /\ provider' = files + 1
  /\ storing' = [storing EXCEPT ![s] = <<Size, "offset", "top">>]
  /\ UNCHANGED <<counters, readerCounter, reader>>

ClearFile(s) ==
  /\ storing[s] = <<>>
  /\ provider' = 0
  /\ storing' = [storing EXCEPT ![s] = <<0, "offset", "top">>]
  /\ UNCHANGED <<files, counters, readerCounter, reader>>

Store(s) ==
  /\ storing[s] # <<>>
  /\ storing' = [storing EXCEPT ![s] = Tail(@)]
  /\ LET what == Len(storing[s]) IN
     /\ totalFileSize' = IF what = 3 THEN Head(storing[s]) ELSE totalFileSize
     /\ maxByteOffset' = IF what = 2 THEN 0 ELSE maxByteOffset
     /\ topReaderID' = IF what = 1 THEN 0 ELSE topReaderID
  /\ UNCHANGED <<provider, files, readerCounter, reader>>

-----------------------------------------------------------------------------
\* A request.

\* handler: it takes the file there is, and ServeContent seeks to the range.
Open(q) ==
  /\ reader[q].at = "closed" /\ readerCounter < MaxRequests
  /\ provider # 0
  /\ readerCounter' = readerCounter + 1
  /\ \E start \in 0..(Size - 1) :
       reader' = [reader EXCEPT ![q] = [at |-> "open", id |-> readerCounter + 1,
                                        pos |-> start, read |-> 0, cur |-> 0]]
  /\ UNCHANGED <<provider, files, counters, storing>>

\* The client hangs up or has its range: also in the middle of a file that is gone.
Close(q) ==
  /\ reader[q].at = "open"
  /\ reader' = [reader EXCEPT ![q] = Closed]
  /\ UNCHANGED <<provider, files, counters, readerCounter, storing>>

\* trackingReader.Read: a block is read; is this the reader that set the offset?
Read(q) ==
  /\ reader[q].at = "open" /\ reader[q].pos < Size
  /\ reader' = [reader EXCEPT ![q].pos = @ + 1, ![q].read = @ + 1,
                  ![q].at = IF topReaderID = reader[q].id THEN "advance" ELSE "take over"]
  /\ UNCHANGED <<provider, files, counters, readerCounter, storing>>

\* Both loops load the offset, and leave it if they have nothing to add.
Load(q) ==
  LET r == reader[q]
      more == IF r.at = "advance" THEN r.pos > maxByteOffset ELSE r.read > maxByteOffset
  IN /\ r.at \in {"advance", "take over"}
     /\ reader' = [reader EXCEPT ![q].cur = maxByteOffset,
          ![q].at = IF ~more THEN "open"
                    ELSE IF @ = "advance" THEN "swap" ELSE "swap over"]
     /\ UNCHANGED <<provider, files, counters, readerCounter, storing>>

\* (Mutant: the offset is stored, whatever it is by now.)
OverwriteOffset(q) ==
  /\ reader[q].at \in {"swap", "swap over"}
  /\ maxByteOffset' = reader[q].pos
  /\ reader' = [reader EXCEPT ![q].at = IF @ = "swap" THEN "open" ELSE "top"]
  /\ UNCHANGED <<provider, files, totalFileSize, topReaderID, readerCounter, storing>>

CompareAndSwap(q) ==
  LET r == reader[q] IN
  /\ r.at \in {"swap", "swap over"}
  /\ \/ /\ maxByteOffset = r.cur
        /\ maxByteOffset' = r.pos
        /\ reader' = [reader EXCEPT ![q].at = IF @ = "swap" THEN "open" ELSE "top"]
     \/ /\ maxByteOffset # r.cur
        /\ reader' = [reader EXCEPT ![q].at = IF @ = "swap" THEN "advance" ELSE "take over"]
        /\ UNCHANGED maxByteOffset
  /\ UNCHANGED <<provider, files, totalFileSize, topReaderID, readerCounter, storing>>

\* The reader that took over says so after the swap.
StoreTop(q) ==
  /\ reader[q].at = "top"
  /\ topReaderID' = reader[q].id
  /\ reader' = [reader EXCEPT ![q].at = "open"]
  /\ UNCHANGED <<provider, files, totalFileSize, maxByteOffset, readerCounter, storing>>

Reads(q) == Open(q) \/ Close(q) \/ Read(q) \/ Load(q) \/ CompareAndSwap(q) \/ StoreTop(q)

Sets(s) == SetFile(s) \/ ClearFile(s) \/ Store(s)

ServerNext == (\E q \in Requesters : Reads(q)) \/ (\E s \in Setters : Sets(s))

ServerSpec == ServerInit /\ [][ServerNext]_serverVars

-----------------------------------------------------------------------------
\* Properties.

\* The offset goes back only when SetFile or ClearFile resets it: two readers that advance
\* it or take it over at the same time never undo each other (stream_server.go 583).
OffsetNeverRegresses ==
  [][maxByteOffset' < maxByteOffset => \E s \in Setters : Store(s)]_serverVars

\* A request that reads the end of the file only does not make the progress 100%
\* (stream_server.go 576-578; violated: see the README).
TailIsNotProgress ==
  maxByteOffset = Size => \E q \in Requesters : reader[q].read > 1
=============================================================================

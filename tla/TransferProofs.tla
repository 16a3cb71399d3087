--------------------------- MODULE TransferProofs ---------------------------
(***************************************************************************)
(* Proofs about the transfers that keep a file whole over failures and     *)
(* restarts: Debrid, for a file of any size and any number of runs one after *)
(* the other; Upgrade, for any number of releases; Assembly, for any number *)
(* of segments of any sizes and any number of attempts.                    *)
(***************************************************************************)
EXTENDS Debrid, Upgrade, Assembly, FiniteSetTheorems, SequenceTheorems, TLAPS

-----------------------------------------------------------------------------
(***************************************************************************)
(* Debrid: what runs one after the other leave at the path                 *)
(***************************************************************************)

\* The first n blocks, and those after the first n.
Beginning(n) == [b \in 1..n |-> b]

Remaining(n) == [b \in 1..(Size - n) |-> b + n]

\* What may be at the path when no run is at work: a beginning of the file, or
\* something longer than it.
Trusted(f) == (\E n \in 0..Size : f = Beginning(n)) \/ (f \in Seq(Nat) /\ Len(f) > Size)

\* Runs follow each other, answers say how long they are, and a 416 what it is about.
Orderly ==
  /\ ~RunsOverlap
  /\ Lengths = {TRUE} /\ Sizes = {Size}
  /\ \A f \in Leftovers : Trusted(f)

Earlier == {"registering", "asking", "asking again"}

RunType == [at       : {"none", "opening", "reading", "writing", "failing", "failed",
                        "returning", "returned"} \cup Earlier,
            existing : Nat, offset : 0..Size, append : BOOLEAN,
            body     : {Remaining(n) : n \in 0..Size}, buf : Nat, known : {TRUE}]

\* What a run knows of the file at each place.
Resumes(i) ==
  LET r == run[i] IN
  /\ r.at \in Earlier => r.existing = Len(file)
  /\ r.at = "asking again" => r.existing > Size
  /\ r.at \in {"opening", "reading"} => r.body = Remaining(r.offset)
  /\ r.at = "opening" => IF r.append THEN file = Beginning(r.offset) ELSE r.offset = 0
  /\ r.at = "reading" => file = Beginning(r.offset)
  /\ r.at = "writing" => /\ file = Beginning(r.offset) /\ r.offset < Size
                         /\ r.buf = r.offset + 1 /\ r.body = Remaining(r.offset + 1)
  /\ r.at \in {"returning", "returned"} => file = Whole

\* One run at a time is at work, and none after one that succeeded.
OneAtWork ==
  \A i, j \in Runs : ~RunEnded(i) /\ i # j => run[j].at \in {"none", "failed"}

DebridInv ==
  /\ begun \in Nat
  /\ run \in [Runs -> RunType]
  /\ Trusted(file)
  /\ OneAtWork
  /\ \A i \in Runs : Resumes(i)

USE DebridAssumption

-----------------------------------------------------------------------------
(***************************************************************************)
(* Blocks                                                                  *)
(***************************************************************************)

\* How long a beginning and a remainder are, and what a remainder begins with.
LEMMA Blocks ==
  ASSUME NEW n \in 0..Size
  PROVE  /\ Len(Beginning(n)) = n
         /\ Len(Remaining(n)) = Size - n
         /\ n < Size => Head(Remaining(n)) = n + 1 /\ Tail(Remaining(n)) = Remaining(n + 1)
<1>1. Beginning(n) \in Seq(Nat) /\ Len(Beginning(n)) = n
  BY DEF Beginning
<1>2. Remaining(n) \in Seq(Nat) /\ Len(Remaining(n)) = Size - n
  BY DEF Remaining
<1>3. ASSUME n < Size PROVE Head(Remaining(n)) = n + 1
  BY <1>3 DEF Remaining
<1>4. ASSUME n < Size PROVE Tail(Remaining(n)) = Remaining(n + 1)
  <2>1. Remaining(n + 1) \in Seq(Nat) /\ Len(Remaining(n + 1)) = Size - n - 1
    BY <1>4 DEF Remaining
  <2>2. Remaining(n) # <<>>
    BY <1>2, <1>4
  <2>3. /\ Tail(Remaining(n)) \in Seq(Nat) /\ Len(Tail(Remaining(n))) = Size - n - 1
        /\ \A b \in 1..(Size - n - 1) : Tail(Remaining(n))[b] = Remaining(n)[b + 1]
    BY <1>2, <2>2, HeadTailProperties
  <2>4. \A b \in 1..(Size - n - 1) : Remaining(n)[b + 1] = Remaining(n + 1)[b]
    BY DEF Remaining
  <2> QED
    BY <2>1, <2>3, <2>4, SeqEqual
<1> QED
  BY <1>1, <1>2, <1>3, <1>4

\* The whole is the last beginning, and what remains of none of it.
LEMMA Ends ==
  /\ Whole = Beginning(Size) /\ Whole = Remaining(0)
  /\ Remaining(Size) = <<>> /\ Beginning(0) = <<>>
<1>1. Whole = Beginning(Size)
  BY DEF Whole, Beginning
<1>2. Whole = Remaining(0)
  BY DEF Whole, Remaining
<1>3. Remaining(Size) = <<>>
  BY DEF Remaining
<1>4. Beginning(0) = <<>>
  BY DEF Beginning
<1> QED
  BY <1>1, <1>2, <1>3, <1>4

LEMMA Remainder ==
  ASSUME NEW n \in 0..Size
  PROVE  SubSeq(Whole, n + 1, Size) = Remaining(n)
<1>1. Whole \in Seq(Nat) /\ Len(Whole) = Size
  BY DEF Whole
<1>2. /\ SubSeq(Whole, n + 1, Size) \in Seq(Nat)
      /\ Len(SubSeq(Whole, n + 1, Size)) = Size - n
      /\ \A b \in 1..(Size - n) : SubSeq(Whole, n + 1, Size)[b] = Whole[n + b]
  BY <1>1, SubSeqProperties
<1>3. \A b \in 1..(Size - n) : Whole[n + b] = Remaining(n)[b]
  BY DEF Whole, Remaining
<1>4. Remaining(n) \in Seq(Nat) /\ Len(Remaining(n)) = Size - n
  BY DEF Remaining
<1> QED
  BY <1>2, <1>3, <1>4, SeqEqual

-----------------------------------------------------------------------------
(***************************************************************************)
(* Steps                                                                   *)
(***************************************************************************)

LEMMA Unbegun == NoRun \in RunType /\ NoRun.at = "none"
<1>1. <<>> \in {Remaining(n) : n \in 0..Size}
  BY Ends
<1> QED
  BY <1>1 DEF NoRun, RunType

LEMMA DebridInitInv == Orderly /\ DebridInit => DebridInv
<1> SUFFICES ASSUME Orderly, DebridInit PROVE DebridInv
  OBVIOUS
<1>1. \A i \in Runs : run[i] = NoRun
  BY DEF DebridInit
<1>2. run \in [Runs -> RunType] /\ begun \in Nat /\ Trusted(file)
  BY Unbegun DEF DebridInit, Orderly
<1>3. OneAtWork /\ \A i \in Runs : Resumes(i)
  BY <1>1, Unbegun DEF OneAtWork, RunEnded, Resumes, Earlier
<1> QED
  BY <1>2, <1>3 DEF DebridInv

\* What the run that is at work becomes decides alone: the others have failed or not begun.
LEMMA RunChange ==
  ASSUME DebridInv, NEW i \in Runs, ~RunEnded(i), NEW x \in RunType,
         run' = [run EXCEPT ![i] = x], begun' = begun, Trusted(file'), Resumes(i)'
  PROVE  DebridInv'
<1>1. run' \in [Runs -> RunType] /\ run'[i] = x /\ \A j \in Runs \ {i} : run'[j] = run[j]
  BY DEF DebridInv
<1>2. \A j \in Runs \ {i} : run'[j].at \in {"none", "failed"}
  BY <1>1 DEF DebridInv, OneAtWork
<1>3. OneAtWork'
  BY <1>2 DEF OneAtWork, RunEnded
<1>4. \A j \in Runs : Resumes(j)'
  BY <1>2 DEF Resumes, Earlier
<1> QED
  BY <1>1, <1>3, <1>4 DEF DebridInv

\* A run that goes to another place and leaves the file alone.
LEMMA RunMoves ==
  ASSUME DebridInv, NEW i \in Runs, ~RunEnded(i),
         NEW at \in {"asking", "asking again", "failing", "failed", "returning", "returned"},
         run' = [run EXCEPT ![i].at = at], begun' = begun, file' = file,
         at \in Earlier => run[i].at \in Earlier /\ (at = "asking again" => run[i].existing > Size),
         at \in {"returning", "returned"} => file = Whole
  PROVE  DebridInv'
<1> DEFINE x == [run[i] EXCEPT !.at = at]
<1>1. run[i] \in RunType /\ Resumes(i) /\ Trusted(file)
  BY DEF DebridInv
<1>2. x \in RunType
  BY <1>1 DEF RunType, Earlier
<1>3. x.at = at /\ x.existing = run[i].existing
  BY <1>1 DEF RunType
<1>4. run' = [run EXCEPT ![i] = x] /\ run'[i] = x
  BY DEF DebridInv
<1> HIDE DEF x
<1>5. Resumes(i)'
  BY <1>1, <1>3, <1>4 DEF Resumes, Earlier
<1> QED
  BY <1>1, <1>2, <1>4, <1>5, RunChange

LEMMA AnswerOk ==
  ASSUME DebridInv, Orderly, NEW i \in Runs, NEW offset \in 0..Size,
         Answered(i, offset, Remaining(offset)), offset > 0 => file = Beginning(offset)
  PROVE  DebridInv'
<1>1. run[i] \in RunType /\ Resumes(i) /\ Trusted(file) /\ run[i].at \in {"asking", "asking again"}
  BY DEF DebridInv, Answered
<1> DEFINE append == offset > 0
           x == [run[i] EXCEPT !.at = "opening", !.body = Remaining(offset), !.known = TRUE,
                               !.offset = offset, !.append = append]
<1>2. run' = [run EXCEPT ![i].at = "opening", ![i].body = Remaining(offset), ![i].known = TRUE,
                         ![i].offset = offset, ![i].append = append]
  <2> HIDE DEF append
  <2>1. offset > 0 <=> append
    BY DEF append
  <2> QED
    BY <2>1, Zenon DEF Answered, Orderly, append
<1>3. run' = [run EXCEPT ![i] = x] /\ run'[i] = x
  BY <1>2 DEF DebridInv
<1>4. append \in BOOLEAN
  OBVIOUS
<1>5. append => file = Beginning(offset)
  OBVIOUS
<1>6. ~append => offset = 0
  OBVIOUS
<1> HIDE DEF append
<1>7. Remaining(offset) \in {Remaining(n) : n \in 0..Size}
  OBVIOUS
<1>8. x \in RunType
  BY <1>1, <1>4, <1>7 DEF RunType
<1>9. x.at = "opening" /\ x.body = Remaining(offset) /\ x.offset = offset /\ x.append = append
  BY <1>1 DEF RunType
<1> HIDE DEF x
<1>10. file' = file /\ begun' = begun /\ ~RunEnded(i)
  BY <1>1 DEF Answered, RunEnded
<1>11. Resumes(i)'
  BY <1>3, <1>5, <1>6, <1>9, <1>10 DEF Resumes, Earlier
<1> QED
  BY <1>1, <1>3, <1>8, <1>10, <1>11, RunChange

LEMMA AnswerStep ==
  ASSUME DebridInv, Orderly, NEW i \in Runs, Ok(i) \/ PartialContent(i)
  PROVE  DebridInv'
<1>1. CASE Ok(i)
  BY <1>1, Ends, AnswerOk DEF Ok
<1>2. CASE PartialContent(i)
  <2> DEFINE n == run[i].existing
  <2>1. n \in 1..(Size - 1) /\ n \in 0..Size /\ Answered(i, n, SubSeq(Whole, n + 1, Size))
    BY <1>2 DEF PartialContent
  <2>2. Len(file) = n /\ Trusted(file)
    BY <1>2 DEF PartialContent, DebridInv, Resumes, Earlier
  <2> HIDE DEF n
  <2>3. SubSeq(Whole, n + 1, Size) = Remaining(n)
    BY <2>1, Remainder
  <2>4. PICK m \in 0..Size : file = Beginning(m)
    BY <2>1, <2>2 DEF Trusted
  <2>5. m = n
    BY <2>2, <2>4, Blocks
  <2> QED
    BY <2>1, <2>3, <2>4, <2>5, AnswerOk
<1> QED
  BY <1>1, <1>2

\* The steps that move a run on and leave the file alone.
LEMMA IdleStep ==
  ASSUME DebridInv, Orderly, NEW i \in Runs,
         Register(i) \/ RangeNotSatisfiable(i) \/ Fails(i) \/ EndOfBody(i) \/ Stops(i) \/ LeaveDownload(i)
  PROVE  DebridInv'
<1>0. run[i] \in RunType /\ Resumes(i) /\ Trusted(file)
  BY DEF DebridInv
<1>1. CASE Register(i)
  BY <1>1, RunMoves DEF Register, RunGoes, RunEnded, Earlier
<1>2. CASE RangeNotSatisfiable(i)
  <2>1. run[i].at = "asking" /\ run[i].existing >= Size /\ file' = file /\ begun' = begun
    BY <1>2 DEF RangeNotSatisfiable, RunGoes
  <2>2. run[i].existing = Len(file) /\ run[i].existing \in Nat
    BY <1>0, <2>1 DEF Resumes, Earlier, RunType
  <2>3. CASE run[i].existing # Size
    <3>1. run' = [run EXCEPT ![i].at = "asking again"]
      BY <1>2, <2>3 DEF RangeNotSatisfiable, RunGoes, Orderly
    <3>2. run[i].existing > Size
      BY <2>1, <2>2, <2>3
    <3> QED
      BY <2>1, <3>1, <3>2, RunMoves DEF RunEnded, Earlier
  <2>4. CASE run[i].existing = Size
    <3>1. run' = [run EXCEPT ![i].at = "returning"]
      BY <1>2, <2>4 DEF RangeNotSatisfiable, RunGoes, Orderly
    <3>2. PICK n \in 0..Size : file = Beginning(n)
      BY <1>0, <2>2, <2>4 DEF Trusted
    <3>3. n = Size
      BY <2>2, <2>4, <3>2, Blocks
    <3>4. file = Whole
      BY <3>2, <3>3, Ends
    <3> QED
      BY <2>1, <3>1, <3>4, RunMoves DEF RunEnded, Earlier
  <2> QED
    BY <2>3, <2>4
<1>3. CASE Fails(i)
  BY <1>3, RunMoves DEF Fails, RunEnded, Earlier
<1>4. CASE EndOfBody(i)
  <2>1. run[i].at = "reading" /\ run[i].body = <<>> /\ run[i].offset \in 0..Size
    BY <1>0, <1>4 DEF EndOfBody, RunGoes, RunType
  <2>2. Remaining(run[i].offset) = <<>> /\ file = Beginning(run[i].offset)
    BY <1>0, <2>1 DEF Resumes
  <2>3. run[i].offset = Size
    BY <2>1, <2>2, Blocks
  <2>4. file = Whole
    BY <2>2, <2>3, Ends
  <2>5. run' = [run EXCEPT ![i].at = "returning"] /\ file' = file /\ begun' = begun
    BY <1>4 DEF EndOfBody, RunGoes
  <2> QED
    BY <2>1, <2>4, <2>5, RunMoves DEF RunEnded, Earlier
<1>5. CASE Stops(i)
  BY <1>5, RunMoves DEF Stops, RunGoes, RunEnded, Earlier
<1>6. CASE LeaveDownload(i)
  <2>1. CASE RunGoes(i, "failing", "failed")
    BY <1>6, <2>1, RunMoves DEF LeaveDownload, RunGoes, RunEnded, Earlier
  <2>2. CASE RunGoes(i, "returning", "returned")
    <3>1. file = Whole
      BY <1>0, <2>2 DEF Resumes, RunGoes
    <3> QED
      BY <1>6, <2>2, <3>1, RunMoves DEF LeaveDownload, RunGoes, RunEnded, Earlier
  <2> QED
    BY <1>6, <2>1, <2>2 DEF LeaveDownload
<1> QED
  BY <1>1, <1>2, <1>3, <1>4, <1>5, <1>6

LEMMA OpenStep ==
  ASSUME DebridInv, NEW i \in Runs, Open(i)
  PROVE  DebridInv'
<1> DEFINE x == [run[i] EXCEPT !.at = "reading"]
<1>1. run[i] \in RunType /\ Resumes(i) /\ Trusted(file) /\ run[i].at = "opening"
  BY DEF DebridInv, Open, RunGoes
<1>2. run' = [run EXCEPT ![i] = x] /\ run'[i] = x
  BY DEF DebridInv, Open, RunGoes
<1>3. x \in RunType
  BY <1>1 DEF RunType
<1>4. x.at = "reading" /\ x.offset = run[i].offset /\ x.body = run[i].body
  BY <1>1 DEF RunType
<1> HIDE DEF x
<1>5. run[i].offset \in 0..Size /\ run[i].append \in BOOLEAN
  BY <1>1 DEF RunType
<1>6. file' = Beginning(run[i].offset) /\ begun' = begun
  BY <1>1, <1>5, Ends DEF Open, Resumes
<1>7. Trusted(file')
  BY <1>5, <1>6 DEF Trusted
<1>8. Resumes(i)'
  BY <1>1, <1>2, <1>4, <1>6 DEF Resumes, Earlier
<1> QED
  BY <1>1, <1>2, <1>3, <1>6, <1>7, <1>8, RunChange DEF RunEnded

LEMMA ReadStep ==
  ASSUME DebridInv, NEW i \in Runs, Read(i)
  PROVE  DebridInv'
<1> DEFINE n == run[i].offset
           head == Head(run[i].body)
           tail == Tail(run[i].body)
           x == [run[i] EXCEPT !.at = "writing", !.buf = head, !.body = tail]
<1>1. run[i] \in RunType /\ Resumes(i) /\ Trusted(file) /\ run[i].at = "reading" /\ run[i].body # <<>>
  BY DEF DebridInv, Read
<1>2. n \in 0..Size /\ file = Beginning(n) /\ run[i].body = Remaining(n)
  BY <1>1 DEF Resumes, RunType
<1>3. n < Size
  BY <1>1, <1>2, Ends
<1>4. head = n + 1 /\ tail = Remaining(n + 1)
  BY <1>2, <1>3, Blocks
<1>5. run' = [run EXCEPT ![i] = x] /\ run'[i] = x
  BY DEF DebridInv, Read
<1>6. head \in Nat /\ tail \in {Remaining(m) : m \in 0..Size}
  BY <1>2, <1>3, <1>4
<1> HIDE DEF head, tail
<1>7. x \in RunType
  BY <1>1, <1>6 DEF RunType
<1>8. x.at = "writing" /\ x.offset = n /\ x.buf = head /\ x.body = tail
  BY <1>1 DEF RunType
<1> HIDE DEF x, n
<1>9. file' = file /\ begun' = begun
  BY DEF Read
<1>10. Resumes(i)'
  BY <1>2, <1>3, <1>4, <1>5, <1>8, <1>9 DEF Resumes, Earlier
<1> QED
  BY <1>1, <1>5, <1>7, <1>9, <1>10, RunChange DEF RunEnded

LEMMA WriteBlockStep ==
  ASSUME DebridInv, NEW i \in Runs, WriteBuf(i)
  PROVE  DebridInv'
<1> DEFINE n == run[i].offset
           m == run[i].offset + 1
           x == [run[i] EXCEPT !.at = "reading", !.offset = m, !.buf = 0]
<1>1. run[i] \in RunType /\ Resumes(i) /\ Trusted(file) /\ run[i].at = "writing"
  BY DEF DebridInv, WriteBuf
<1>2. /\ n \in 0..Size /\ n < Size /\ file = Beginning(n)
      /\ run[i].buf = n + 1 /\ run[i].body = Remaining(n + 1)
  BY <1>1 DEF Resumes, RunType
<1>3. Len(file) = n
  BY <1>2, Blocks
<1>4. file' = Beginning(n + 1)
  <2>1. file' = [b \in 1..(n + 1) |-> IF b = n + 1 THEN n + 1 ELSE IF b <= n THEN file[b] ELSE 0]
    BY <1>2, <1>3 DEF WriteBuf
  <2>2. \A b \in 1..n : file[b] = b
    BY <1>2 DEF Beginning
  <2> HIDE DEF n
  <2> QED
    BY <1>2, <2>1, <2>2 DEF Beginning
<1>5. run' = [run EXCEPT ![i] = x] /\ run'[i] = x
  BY DEF DebridInv, WriteBuf
<1>6. m \in 0..Size /\ m = n + 1
  BY <1>2
<1> HIDE DEF m
<1>7. x \in RunType
  BY <1>1, <1>6 DEF RunType
<1>8. x.at = "reading" /\ x.offset = m /\ x.body = run[i].body
  BY <1>1 DEF RunType
<1> HIDE DEF x, n
<1>9. Trusted(file') /\ begun' = begun
  BY <1>4, <1>6 DEF Trusted, WriteBuf
<1>10. Resumes(i)'
  BY <1>2, <1>4, <1>5, <1>6, <1>8 DEF Resumes, Earlier
<1> QED
  BY <1>1, <1>5, <1>7, <1>9, <1>10, RunChange DEF RunEnded

\* A run begins when the others have failed.
LEMMA BeginStep ==
  ASSUME DebridInv, Orderly, BeginFetch
  PROVE  DebridInv'
<1> DEFINE i == begun + 1
           x == [NoRun EXCEPT !.at = "registering", !.existing = Len(file)]
<1>1. begun \in Nat /\ run \in [Runs -> RunType] /\ Trusted(file) /\ begun < MaxRuns
  BY DEF DebridInv, BeginFetch
<1>2. i \in Runs
  BY <1>1 DEF Runs
<1>3. \A j \in Runs : run[j].at \in {"none", "failed"}
  BY DEF BeginFetch, RunEnded, Orderly
<1>4. begun' \in Nat /\ file' = file /\ run' = [run EXCEPT ![i] = x]
  BY <1>1 DEF BeginFetch
<1>5. Len(file) \in Nat
  <2>1. file \in Seq(Nat)
    BY <1>1 DEF Trusted, Beginning
  <2> QED
    BY <2>1
<1>6. x \in RunType /\ x.at = "registering" /\ x.existing = Len(file)
  BY <1>5, Unbegun DEF RunType, Earlier
<1> HIDE DEF i, x
<1>7. run' \in [Runs -> RunType] /\ run'[i] = x /\ \A j \in Runs \ {i} : run'[j] = run[j]
  BY <1>1, <1>2, <1>4, <1>6
<1>8. OneAtWork'
  BY <1>3, <1>7 DEF OneAtWork, RunEnded
<1>9. \A j \in Runs : Resumes(j)'
  BY <1>3, <1>4, <1>6, <1>7 DEF Resumes, Earlier
<1> QED
  BY <1>1, <1>4, <1>7, <1>8, <1>9 DEF DebridInv

\* When the process ends, so do the runs; the file is some beginning of the whole.
LEMMA KillStep ==
  ASSUME DebridInv, KillProcess
  PROVE  DebridInv'
<1> DEFINE x == [NoRun EXCEPT !.at = "failed"]
<1>1. x \in RunType /\ x.at = "failed"
  BY Unbegun DEF RunType
<1>2. run' = [i \in Runs |-> IF RunEnded(i) THEN run[i] ELSE x] /\ begun' = begun /\ file' = file
  BY DEF KillProcess
<1> HIDE DEF x
<1>3. run' \in [Runs -> RunType]
  BY <1>1, <1>2 DEF DebridInv
<1>4. \A i \in Runs : run'[i] = run[i] \/ run'[i].at = "failed"
  BY <1>1, <1>2
<1>5. \A i \in Runs : run'[i].at \in {"none", "failed", "returned"}
  BY <1>1, <1>2 DEF RunEnded
<1>6. OneAtWork'
  BY <1>5 DEF OneAtWork, RunEnded
<1>7. \A i \in Runs : Resumes(i)'
  BY <1>2, <1>4, <1>5 DEF DebridInv, Resumes, Earlier
<1> QED
  BY <1>2, <1>3, <1>6, <1>7 DEF DebridInv

LEMMA DebridStep == Orderly /\ DebridInv /\ [DebridNext]_debridVars => DebridInv'
<1> SUFFICES ASSUME Orderly, DebridInv, [DebridNext]_debridVars PROVE DebridInv'
  OBVIOUS
<1>1. CASE BeginFetch
  BY <1>1, BeginStep
<1>2. CASE Stop
  BY <1>2 DEF Stop, DebridInv, OneAtWork, RunEnded, Resumes
<1>3. CASE KillProcess
  BY <1>3, KillStep
<1>4. ASSUME NEW i \in Runs, RunStep(i) PROVE DebridInv'
  <2>1. CASE Ok(i) \/ PartialContent(i)
    BY <2>1, AnswerStep
  <2>2. CASE Open(i)
    BY <2>2, OpenStep
  <2>3. CASE Read(i)
    BY <2>3, ReadStep
  <2>4. CASE WriteBuf(i)
    BY <2>4, WriteBlockStep
  <2>5. CASE \/ Register(i) \/ RangeNotSatisfiable(i) \/ Fails(i)
             \/ EndOfBody(i) \/ Stops(i) \/ LeaveDownload(i)
    BY <2>5, IdleStep
  <2> QED
    BY <1>4, <2>1, <2>2, <2>3, <2>4, <2>5 DEF RunStep
<1>5. CASE UNCHANGED debridVars
  BY <1>5 DEF debridVars, DebridInv, OneAtWork, RunEnded, Resumes
<1> QED
  BY <1>1, <1>2, <1>3, <1>4, <1>5 DEF DebridNext

-----------------------------------------------------------------------------
(***************************************************************************)
(* Theorems                                                                *)
(***************************************************************************)

\* A download that returns returns the file, block by block, however often it was stopped
\* or killed before, and whether the server gave the range, the whole or a 416 (debrid.go
\* 106-168): as long as runs of the task do not overlap, answers carry their length, and
\* what was at the path before them is a beginning of the file or too long for it.
THEOREM Fetched ==
  ASSUME Orderly
  PROVE  DebridSpec => []FetchedIsWhole
<1>1. DebridInit => DebridInv
  BY DebridInitInv
<1>2. DebridInv /\ [DebridNext]_debridVars => DebridInv'
  BY DebridStep
<1>3. DebridInv => FetchedIsWhole
  BY DEF DebridInv, Resumes, FetchedIsWhole
<1> QED
  BY <1>1, <1>2, <1>3, PTL DEF DebridSpec

HIDE DebridAssumption

-----------------------------------------------------------------------------
(***************************************************************************)
(* Upgrade: one updater at a time, whatever fails or is killed             *)
(***************************************************************************)

Rested == {"idle", "success", "failed", "stuck"}

\* Before the swap, and after its first rename.
Before == {"asked", "downloading", "verifying", "extracting", "trying", "backing up"}

Swapping == {"installing", "writing", "rolling back"}

UpdaterType == [at      : Rested \cup Before \cup Swapping,
                old     : Versions \cup {0},
                target  : Versions \cup {0},
                attempt : Nat,
                new     : Versions \cup {0, TornBinary},
                file    : Files \cup {0}]

Typed ==
  /\ released \in Versions
  /\ name \in [bin : Files \cup {0}, backup : Files \cup {0}]
  /\ data \in [Files -> Versions \cup {TornBinary}]
  /\ up \in [Updaters -> UpdaterType]

\* The two names are never of one file.
Apart == name["bin"] # 0 => name["bin"] # name["backup"]

\* What an updater knows at each place.
Knows(u) ==
  /\ up[u].at \in Before => Holds("bin") = up[u].old
  /\ up[u].at \in Swapping \cup {"stuck"} => Holds("backup") = up[u].old
  /\ up[u].at # "idle" => up[u].old \in Versions /\ up[u].target \in Versions
  /\ up[u].at \in {"backing up", "installing", "writing"} => up[u].new = up[u].target
  /\ up[u].at = "installing" => name["bin"] = 0
  /\ up[u].at = "writing" => up[u].file = name["bin"] /\ name["bin"] # 0
  /\ up[u].at # "writing" => up[u].file = 0
  /\ up[u].at = "success" => Holds("bin") = up[u].target
  /\ up[u].at = "failed" => Holds("bin") = up[u].old

UpgradeInv == Typed /\ Apart /\ OneIsWhole /\ \A u \in Updaters : Knows(u)

USE UpgradeAssumption

-----------------------------------------------------------------------------
\* One updater has four files to refer to.
LEMMA FewFiles ==
  ASSUME NEW u, Updaters = {u}
  PROVE  Files = 1..4
<1>1. Cardinality(Updaters) = 1
  BY FS_Singleton
<1> QED
  BY <1>1 DEF Files

LEMMA UpgradeInitInv ==
  ASSUME NEW u, Updaters = {u}, UpgradeInit
  PROVE  UpgradeInv
<1>1. Files = 1..4 /\ 1 \in Versions
  BY FewFiles DEF Versions
<1>2. up[u] = Idle
  BY DEF UpgradeInit
<1>3. Idle \in UpdaterType
  BY DEF Idle, UpdaterType, Rested
<1>4. Typed
  BY <1>1, <1>3 DEF UpgradeInit, Typed
<1>5. Apart
  BY DEF UpgradeInit, Apart
<1>6. OneIsWhole
  BY <1>1 DEF UpgradeInit, OneIsWhole, Holds
<1>7. Knows(u)
  BY <1>2 DEF Knows, Idle, Before, Swapping
<1> QED
  BY <1>4, <1>5, <1>6, <1>7 DEF UpgradeInv

\* The steps before the swap touch neither name.
LEMMA QuietStep ==
  ASSUME NEW u, Updaters = {u}, UpgradeInv, Quiet,
         NEW x \in UpdaterType, up' = [up EXCEPT ![u] = x],
         Knows(u)'
  PROVE  UpgradeInv'
<1>1. Typed'
  BY DEF UpgradeInv, Typed, Quiet
<1>2. Apart'
  BY DEF UpgradeInv, Apart, Quiet
<1>3. OneIsWhole'
  BY DEF UpgradeInv, OneIsWhole, Holds, Quiet
<1> QED
  BY <1>1, <1>2, <1>3 DEF UpgradeInv

\* A quiet step to another place, which keeps what the updater knows.
LEMMA QuietChange ==
  ASSUME NEW u, Updaters = {u}, UpgradeInv, Quiet, up[u].at \in Before,
         NEW x \in UpdaterType, up' = [up EXCEPT ![u] = x],
         x.at \in Before \cup {"success", "failed"},
         x.old = up[u].old, x.target = up[u].target, x.file = up[u].file,
         x.at = "backing up" => x.new = x.target,
         x.at = "success" => x.target = x.old
  PROVE  UpgradeInv'
<1>1. Knows(u) /\ up'[u] = x
  BY DEF UpgradeInv, Typed
<1>2. Holds("bin")' = Holds("bin") /\ name' = name
  BY DEF Holds, Quiet
<1>3. Knows(u)'
  BY <1>1, <1>2 DEF Knows, Before, Swapping
<1> QED
  BY <1>3, QuietStep

\* Most of them change nothing but the place.
LEMMA QuietGoes ==
  ASSUME NEW u, Updaters = {u}, UpgradeInv, Quiet, up[u].at \in Before,
         NEW to \in Before \cup {"success", "failed"},
         up' = [up EXCEPT ![u].at = to],
         to = "backing up" => up[u].new = up[u].target,
         to = "success" => up[u].target = up[u].old
  PROVE  UpgradeInv'
<1> DEFINE x == [up[u] EXCEPT !.at = to]
<1>1. up[u] \in UpdaterType
  BY DEF UpgradeInv, Typed
<1>2. up' = [up EXCEPT ![u] = x]
  OBVIOUS
<1>3. x \in UpdaterType
  BY <1>1 DEF UpdaterType, Rested
<1>4. /\ x.at = to /\ x.old = up[u].old /\ x.target = up[u].target
      /\ x.new = up[u].new /\ x.file = up[u].file
  BY <1>1 DEF UpdaterType
<1> HIDE DEF x
<1> QED
  BY ZenonT(40), <1>2, <1>3, <1>4, QuietChange

\* The steps that find a version to install.
LEMMA AskStep ==
  ASSUME NEW u, Updaters = {u}, UpgradeInv, Ask(u)
  PROVE  UpgradeInv'
<1> DEFINE x == [Idle EXCEPT !.at = "asked", !.old = Holds("bin"), !.target = released]
<1>1. Quiet /\ Holds("bin") \in Versions /\ released \in Versions
  BY DEF Ask, UpgradeInv, Typed
<1>2. up' = [up EXCEPT ![u] = x]
  BY DEF Ask
<1>3. /\ x \in UpdaterType
      /\ x.at = "asked" /\ x.old = Holds("bin") /\ x.target = released /\ x.file = 0
  BY <1>1 DEF UpdaterType, Idle, Before
<1>4. up'[u] = x
  BY <1>2 DEF UpgradeInv, Typed
<1>5. Holds("bin")' = Holds("bin")
  BY <1>1 DEF Holds, Quiet
<1> HIDE DEF x
<1>6. Knows(u)'
  BY <1>1, <1>3, <1>4, <1>5 DEF Knows, Before, Swapping
<1> QED
  BY <1>1, <1>2, <1>3, <1>6, QuietStep

\* ... and bring it to the disk.
LEMMA FetchStep ==
  ASSUME NEW u, Updaters = {u}, UpgradeInv, DownloadArchive(u) \/ ExtractBinary(u)
  PROVE  UpgradeInv'
<1>1. up[u] \in UpdaterType /\ Quiet /\ up[u].at \in Before
  BY DEF UpgradeInv, Typed, DownloadArchive, ExtractBinary, Before
<1>2. CASE up' = [up EXCEPT ![u].at = "failed"]
  BY <1>1, <1>2, QuietGoes
<1>3. ASSUME NEW to \in {"verifying", "trying"}, NEW new \in Versions \cup {0, TornBinary},
             up' = [up EXCEPT ![u].at = to, ![u].new = new]
      PROVE  UpgradeInv'
  <2> DEFINE x == [up[u] EXCEPT !.at = to, !.new = new]
  <2>1. x \in UpdaterType
    BY <1>1 DEF UpdaterType, Before
  <2>2. up' = [up EXCEPT ![u] = x]
    BY <1>3 DEF UpgradeInv, Typed
  <2>3. /\ x.at = to /\ x.old = up[u].old /\ x.target = up[u].target
        /\ x.file = up[u].file
    BY <1>1 DEF UpdaterType
  <2> HIDE DEF x
  <2> QED
    BY <1>1, <2>1, <2>2, <2>3, QuietChange DEF Before
<1>4. up[u].target \in Versions \cup {0} /\ up[u].new \in Versions \cup {0, TornBinary}
  BY <1>1 DEF UpdaterType
<1> QED
  BY <1>2, <1>3, <1>4 DEF DownloadArchive, ExtractBinary

LEMMA RetryStep ==
  ASSUME NEW u, Updaters = {u}, UpgradeInv, DownloadFails(u)
  PROVE  UpgradeInv'
<1> DEFINE to == IF up[u].attempt < MaxDownloadRetries THEN up[u].at ELSE "failed"
           n == up[u].attempt + 1
<1>1. up[u] \in UpdaterType /\ Quiet /\ up[u].at = "downloading"
  BY DEF UpgradeInv, Typed, DownloadFails
<1>2. up' = [up EXCEPT ![u].at = to, ![u].attempt = n]
  BY DEF DownloadFails
<1>3. to \in {"downloading", "failed"} /\ n \in Nat
  BY <1>1 DEF UpdaterType
<1> HIDE DEF to, n
<1> DEFINE x == [up[u] EXCEPT !.at = to, !.attempt = n]
<1>4. x \in UpdaterType
  BY <1>1, <1>3 DEF UpdaterType, Before, Rested
<1>5. up' = [up EXCEPT ![u] = x]
  BY <1>2 DEF UpgradeInv, Typed
<1>6. /\ x.at = to /\ x.old = up[u].old /\ x.target = up[u].target
      /\ x.file = up[u].file
  BY <1>1 DEF UpdaterType
<1> HIDE DEF x
<1> QED
  BY <1>1, <1>3, <1>4, <1>5, <1>6, QuietChange DEF Before

\* ... up to the swap.
LEMMA PlaceStep ==
  ASSUME NEW u, Updaters = {u}, UpgradeInv,
         UpToDate(u) \/ Begin(u) \/ VerifyChecksum(u) \/ SmokeTest(u)
  PROVE  UpgradeInv'
<1>1. Quiet /\ up[u].at \in Before
  BY DEF UpToDate, Begin, VerifyChecksum, SmokeTest, Goes, Before
<1>2. \/ up[u].target = up[u].old /\ up' = [up EXCEPT ![u].at = "success"]
      \/ up' = [up EXCEPT ![u].at = "downloading"]
      \/ up' = [up EXCEPT ![u].at = "extracting"]
      \/ up[u].new = up[u].target /\ up' = [up EXCEPT ![u].at = "backing up"]
      \/ up' = [up EXCEPT ![u].at = "failed"]
  BY DEF UpToDate, Begin, VerifyChecksum, SmokeTest, Goes
<1> QED
  BY <1>1, <1>2, QuietGoes DEF Before

LEMMA CrashStep ==
  ASSUME NEW u, Updaters = {u}, UpgradeInv, Crash(u)
  PROVE  UpgradeInv'
<1>1. Idle \in UpdaterType /\ Idle.at = "idle" /\ Idle.file = 0
  BY DEF Idle, UpdaterType, Rested
<1>2. up'[u] = Idle /\ up' = [up EXCEPT ![u] = Idle] /\ Quiet
  BY DEF Crash, UpgradeInv, Typed
<1>3. Knows(u)'
  BY <1>1, <1>2 DEF Knows, Before, Swapping
<1> QED
  BY <1>1, <1>2, <1>3, QuietStep

\* A whole version is never mistaken for a missing or torn file.
LEMMA HoldsFile ==
  ASSUME NEW n, Holds(n) \in Versions
  PROVE  name[n] # 0 /\ data[name[n]] = Holds(n)
BY DEF Holds, Versions

\* The swap, with what the updater becomes.
LEMMA SwapGoes ==
  ASSUME NEW u, Updaters = {u}, UpgradeInv, NEW at \in Swapping \cup Rested,
         up' = [up EXCEPT ![u].at = at]
  PROVE  /\ up' \in [Updaters -> UpdaterType]
         /\ up'[u].at = at /\ up'[u].old = up[u].old /\ up'[u].target = up[u].target
         /\ up'[u].new = up[u].new /\ up'[u].file = up[u].file
<1> DEFINE x == [up[u] EXCEPT !.at = at]
<1>1. up[u] \in UpdaterType
  BY DEF UpgradeInv, Typed
<1>2. x \in UpdaterType
  BY <1>1 DEF UpdaterType
<1>3. /\ x.at = at /\ x.old = up[u].old /\ x.target = up[u].target
      /\ x.new = up[u].new /\ x.file = up[u].file
  BY <1>1 DEF UpdaterType
<1>4. up' = [up EXCEPT ![u] = x]
  OBVIOUS
<1> HIDE DEF x
<1> QED
  BY <1>2, <1>3, <1>4 DEF UpgradeInv, Typed

LEMMA BackUpStep ==
  ASSUME NEW u, Updaters = {u}, UpgradeInv, BackUp(u)
  PROVE  UpgradeInv'
<1>1. up[u] \in UpdaterType /\ Knows(u) /\ up[u].at = "backing up"
  BY DEF UpgradeInv, Typed, BackUp, Goes
<1>2. CASE /\ name["bin"] # 0
           /\ up' = [up EXCEPT ![u].at = "installing"]
           /\ name' = [bin |-> 0, backup |-> name["bin"]]
  <2>1. /\ up' \in [Updaters -> UpdaterType]
        /\ up'[u].at = "installing" /\ up'[u].old = up[u].old
        /\ up'[u].target = up[u].target
        /\ up'[u].new = up[u].new /\ up'[u].file = up[u].file
    BY <1>2, SwapGoes DEF Swapping
  <2>2. data' = data /\ released' = released
    BY DEF BackUp
  <2>3. Holds("backup")' = Holds("bin")
    BY <1>2, <2>2 DEF Holds
  <2>4. Holds("bin") = up[u].old /\ up[u].old \in Versions
    BY <1>1 DEF Knows, Before
  <2>5. Typed'
    BY <1>2, <2>1, <2>2 DEF UpgradeInv, Typed
  <2>6. Apart' /\ OneIsWhole'
    BY <1>2, <2>3, <2>4 DEF Apart, OneIsWhole
  <2>7. Knows(u)'
    BY <1>1, <1>2, <2>1, <2>3, <2>4 DEF Knows, Before, Swapping
  <2> QED
    BY <2>5, <2>6, <2>7 DEF UpgradeInv
<1>3. CASE up' = [up EXCEPT ![u].at = "failed"] /\ UNCHANGED name
  BY <1>1, <1>3, QuietGoes DEF BackUp, Quiet, Before
<1> QED
  BY <1>2, <1>3 DEF BackUp, Goes

\* The name of the new binary is given to a file that no name refers to.
LEMMA CreateStep ==
  ASSUME NEW u, Updaters = {u}, UpgradeInv, CreateBinary(u)
  PROVE  UpgradeInv'
<1> DEFINE free == {f \in Files : f \notin {name["bin"], name["backup"]} \cup {up[v].file : v \in Updaters}}
           given == IF name["bin"] # 0 THEN name["bin"] ELSE CHOOSE f \in free : \A g \in free : f <= g
<1>1. up[u] \in UpdaterType /\ Knows(u) /\ up[u].at = "installing"
  BY DEF UpgradeInv, Typed, CreateBinary, Goes
<1>2. /\ name["bin"] = 0 /\ up[u].file = 0
      /\ Holds("backup") = up[u].old /\ up[u].old \in Versions
      /\ up[u].target \in Versions /\ up[u].new = up[u].target
  BY <1>1 DEF Knows, Swapping
<1>3. name["backup"] # 0 /\ data[name["backup"]] = up[u].old
  BY <1>2, HoldsFile
<1>4. given \in Files /\ given # name["backup"] /\ given # 0
  <2>1. Files = 1..4
    BY FewFiles
  <2>2. free = {f \in 1..4 : f # name["backup"]}
    BY <1>2, <2>1
  <2>3. \E f \in free : \A g \in free : f <= g
    <3>1. CASE name["backup"] = 1
      <4>1. 2 \in free /\ \A g \in free : 2 <= g
        BY <2>2, <3>1
      <4> QED
        BY <4>1
    <3>2. CASE name["backup"] # 1
      <4>1. 1 \in free /\ \A g \in free : 1 <= g
        BY <2>2, <3>2
      <4> QED
        BY <4>1
    <3> QED
      BY <3>1, <3>2
  <2>4. given \in free
    BY <1>2, <2>3
  <2> HIDE DEF given
  <2> QED
    BY <2>1, <2>2, <2>4
<1>5. CASE /\ up' = [up EXCEPT ![u].at = "writing", ![u].file = given]
           /\ name' = [name EXCEPT !.bin = given]
           /\ data' = [data EXCEPT ![given] = TornBinary]
           /\ UNCHANGED released
  <2> HIDE DEF given, free
  <2> DEFINE x == [up[u] EXCEPT !.at = "writing", !.file = given]
  <2>1. up' = [up EXCEPT ![u] = x]
    BY <1>5 DEF UpgradeInv, Typed
  <2>2. x \in UpdaterType
    BY <1>1, <1>4 DEF UpdaterType, Swapping
  <2>3. /\ x.at = "writing" /\ x.file = given /\ x.old = up[u].old
        /\ x.target = up[u].target /\ x.new = up[u].new
    BY <1>1 DEF UpdaterType
  <2> HIDE DEF x
  <2>4. up'[u] = x /\ up' \in [Updaters -> UpdaterType]
    BY <2>1, <2>2 DEF UpgradeInv, Typed
  <2>5. name'["bin"] = given /\ name'["backup"] = name["backup"]
    BY <1>5 DEF UpgradeInv, Typed
  <2>6. name' \in [bin : Files \cup {0}, backup : Files \cup {0}]
    BY <1>4, <1>5 DEF UpgradeInv, Typed
  <2>7. data' \in [Files -> Versions \cup {TornBinary}] /\ data'[name["backup"]] = data[name["backup"]]
    BY <1>3, <1>4, <1>5 DEF UpgradeInv, Typed
  <2>8. Holds("backup")' = up[u].old
    BY <1>3, <2>5, <2>7 DEF Holds
  <2>9. Typed'
    BY <1>5, <2>4, <2>6, <2>7 DEF UpgradeInv, Typed
  <2>10. Apart' /\ OneIsWhole'
    BY <1>2, <1>4, <2>5, <2>8 DEF Apart, OneIsWhole
  <2>11. Knows(u)'
    BY <1>2, <1>4, <2>3, <2>4, <2>5, <2>8 DEF Knows, Before, Swapping
  <2> QED
    BY <2>9, <2>10, <2>11 DEF UpgradeInv
<1>6. CASE up' = [up EXCEPT ![u].at = "rolling back"] /\ Quiet
  <2>1. /\ up' \in [Updaters -> UpdaterType]
        /\ up'[u].at = "rolling back" /\ up'[u].old = up[u].old
        /\ up'[u].target = up[u].target /\ up'[u].file = up[u].file
    BY <1>6, SwapGoes DEF Swapping
  <2>2. Typed' /\ Apart' /\ OneIsWhole' /\ Holds("backup")' = Holds("backup")
    BY <1>6, <2>1 DEF UpgradeInv, Typed, Apart, OneIsWhole, Holds, Quiet
  <2>3. Knows(u)'
    BY <1>2, <2>1, <2>2 DEF Knows, Before, Swapping
  <2> QED
    BY <2>2, <2>3 DEF UpgradeInv
<1> QED
  BY <1>5, <1>6 DEF CreateBinary, Goes

LEMMA WriteStep ==
  ASSUME NEW u, Updaters = {u}, UpgradeInv, WriteBinary(u)
  PROVE  UpgradeInv'
<1>1. up[u] \in UpdaterType /\ Knows(u) /\ up[u].at = "writing"
  BY DEF UpgradeInv, Typed, WriteBinary
<1>2. /\ name["bin"] # 0 /\ up[u].file = name["bin"]
      /\ Holds("backup") = up[u].old /\ up[u].old \in Versions
      /\ up[u].target \in Versions /\ up[u].new = up[u].target
  BY <1>1 DEF Knows, Swapping
<1>3. name["backup"] # 0 /\ data[name["backup"]] = up[u].old
  BY <1>2, HoldsFile
<1>4. name["bin"] # name["backup"] /\ name["bin"] \in Files /\ name["backup"] \in Files
  BY <1>2, <1>3 DEF UpgradeInv, Apart, Typed
<1>5. ASSUME NEW at \in {"success", "rolling back"},
             up' = [up EXCEPT ![u].at = at, ![u].file = 0]
      PROVE  /\ up' \in [Updaters -> UpdaterType]
             /\ up'[u].at = at /\ up'[u].file = 0 /\ up'[u].old = up[u].old
             /\ up'[u].target = up[u].target
  <2> DEFINE x == [up[u] EXCEPT !.at = at, !.file = 0]
  <2>1. up' = [up EXCEPT ![u] = x]
    BY <1>5 DEF UpgradeInv, Typed
  <2>2. x \in UpdaterType
    BY <1>1 DEF UpdaterType, Swapping, Rested
  <2>3. x.at = at /\ x.file = 0 /\ x.old = up[u].old /\ x.target = up[u].target
    BY <1>1 DEF UpdaterType
  <2> HIDE DEF x
  <2> QED
    BY <2>1, <2>2, <2>3 DEF UpgradeInv, Typed
<1>6. CASE /\ up' = [up EXCEPT ![u].at = "success", ![u].file = 0]
           /\ data' = [data EXCEPT ![up[u].file] = up[u].new]
           /\ UNCHANGED <<released, name>>
  <2>1. data' \in [Files -> Versions \cup {TornBinary}]
    BY <1>2, <1>4, <1>6 DEF UpgradeInv, Typed
  <2>2. data'[name["bin"]] = up[u].target /\ data'[name["backup"]] = up[u].old
    BY <1>2, <1>3, <1>4, <1>6 DEF UpgradeInv, Typed
  <2>3. Holds("bin")' = up[u].target
    BY <1>2, <1>6, <2>2 DEF Holds
  <2>4. Typed' /\ Apart' /\ OneIsWhole'
    BY <1>2, <1>5, <1>6, <2>1, <2>3 DEF UpgradeInv, Typed, Apart, OneIsWhole
  <2>5. Knows(u)'
    BY <1>2, <1>5, <1>6, <2>3 DEF Knows, Before, Swapping
  <2> QED
    BY <2>4, <2>5 DEF UpgradeInv
<1>7. CASE up' = [up EXCEPT ![u].at = "rolling back", ![u].file = 0] /\ Quiet
  <2>1. Typed' /\ Apart' /\ OneIsWhole' /\ Holds("backup")' = Holds("backup")
    BY <1>5, <1>7 DEF UpgradeInv, Typed, Apart, OneIsWhole, Holds, Quiet
  <2>2. Knows(u)'
    BY <1>2, <1>5, <1>7, <2>1 DEF Knows, Before, Swapping
  <2> QED
    BY <2>1, <2>2 DEF UpgradeInv
<1> QED
  BY <1>6, <1>7 DEF WriteBinary

LEMMA RollBackStep ==
  ASSUME NEW u, Updaters = {u}, UpgradeInv, RollBack(u)
  PROVE  UpgradeInv'
<1>1. up[u] \in UpdaterType /\ Knows(u) /\ up[u].at = "rolling back"
  BY DEF UpgradeInv, Typed, RollBack, Goes
<1>2. /\ up[u].file = 0 /\ Holds("backup") = up[u].old
      /\ up[u].old \in Versions /\ up[u].target \in Versions
  BY <1>1 DEF Knows, Swapping
<1>3. UNCHANGED <<released, data>>
  BY DEF RollBack
<1>4. CASE up' = [up EXCEPT ![u].at = "failed"] /\ name' = [bin |-> name["backup"], backup |-> 0]
  <2>1. /\ up' \in [Updaters -> UpdaterType]
        /\ up'[u].at = "failed" /\ up'[u].old = up[u].old
        /\ up'[u].target = up[u].target /\ up'[u].file = 0
    BY <1>2, <1>4, SwapGoes DEF Rested
  <2>2. Holds("bin")' = up[u].old
    BY <1>2, <1>3, <1>4 DEF Holds
  <2>3. Typed' /\ Apart' /\ OneIsWhole'
    BY <1>2, <1>3, <1>4, <2>1, <2>2 DEF UpgradeInv, Typed, Apart, OneIsWhole
  <2>4. Knows(u)'
    BY <1>2, <2>1, <2>2 DEF Knows, Before, Swapping
  <2> QED
    BY <2>3, <2>4 DEF UpgradeInv
<1>5. CASE up' = [up EXCEPT ![u].at = "stuck"] /\ UNCHANGED name
  <2>1. /\ up' \in [Updaters -> UpdaterType]
        /\ up'[u].at = "stuck" /\ up'[u].old = up[u].old
        /\ up'[u].target = up[u].target /\ up'[u].file = 0
    BY <1>2, <1>5, SwapGoes DEF Rested
  <2>2. Typed' /\ Apart' /\ OneIsWhole' /\ Holds("backup")' = Holds("backup")
    BY <1>3, <1>5, <2>1 DEF UpgradeInv, Typed, Apart, OneIsWhole, Holds
  <2>3. Knows(u)'
    BY <1>2, <2>1, <2>2 DEF Knows, Before, Swapping
  <2> QED
    BY <2>2, <2>3 DEF UpgradeInv
<1> QED
  BY <1>4, <1>5 DEF RollBack, Goes

LEMMA RecoverStep ==
  ASSUME NEW u, Updaters = {u}, UpgradeInv, Recover
  PROVE  UpgradeInv'
<1>1. Idle \in UpdaterType /\ Idle.at = "idle" /\ Idle.file = 0
  BY DEF Idle, UpdaterType, Rested
<1>2. up'[u] = Idle /\ up' \in [Updaters -> UpdaterType]
  BY <1>1 DEF Recover
<1>3. Holds("bin")' = Holds("backup") /\ Holds("backup") \in Versions
  BY DEF Recover, UpgradeInv, OneIsWhole, Holds
<1>4. Typed' /\ Apart' /\ OneIsWhole'
  BY <1>2, <1>3 DEF Recover, UpgradeInv, Typed, Apart, OneIsWhole
<1>5. Knows(u)'
  BY <1>1, <1>2 DEF Knows, Before, Swapping
<1> QED
  BY <1>4, <1>5 DEF UpgradeInv

LEMMA ReleaseStep ==
  ASSUME UpgradeInv, Release
  PROVE  UpgradeInv'
<1>1. released' \in Versions
  BY DEF Release, UpgradeInv, Typed, Versions
<1>2. UNCHANGED <<name, data, up>>
  BY DEF Release
<1>3. Typed' /\ Apart' /\ OneIsWhole'
  BY <1>1, <1>2 DEF UpgradeInv, Typed, Apart, OneIsWhole, Holds
<1>4. \A u \in Updaters : Knows(u)'
  BY <1>2 DEF UpgradeInv, Knows, Holds
<1> QED
  BY <1>3, <1>4 DEF UpgradeInv

-----------------------------------------------------------------------------
LEMMA UpgradeStep ==
  ASSUME NEW u, Updaters = {u}, UpgradeInv, [UpgradeNext]_upgradeVars
  PROVE  UpgradeInv'
<1>1. CASE UNCHANGED upgradeVars
  BY <1>1 DEF upgradeVars, UpgradeInv, Typed, Apart, OneIsWhole, Knows, Holds
<1>2. CASE UpdaterStep(u)
  BY <1>2, AskStep, PlaceStep, FetchStep, RetryStep, BackUpStep, CreateStep, WriteStep,
     RollBackStep, CrashStep DEF UpdaterStep
<1> QED
  BY <1>1, <1>2, RecoverStep, ReleaseStep DEF UpgradeNext

\* One updater keeps a whole binary under one of the two names, wherever it is killed
\* and whatever fails: the old one stays in the backup until the new one is written.
THEOREM BinaryKept ==
  ASSUME NEW u, Updaters = {u}
  PROVE  UpgradeSpec => []OneIsWhole
<1>1. UpgradeInit => UpgradeInv
  BY UpgradeInitInv
<1>2. UpgradeInv /\ [UpgradeNext]_upgradeVars => UpgradeInv'
  BY UpgradeStep
<1>3. UpgradeInv => OneIsWhole
  BY DEF UpgradeInv
<1> QED
  BY <1>1, <1>2, <1>3, PTL DEF UpgradeSpec

\* What one updater says of itself is true: of the new binary after success, of the old
\* one after a failure, of the backup when it could not be put back.
THEOREM ResultTrue ==
  ASSUME NEW u, Updaters = {u}
  PROVE  UpgradeSpec => []ResultIsTrue
<1>1. UpgradeInit => UpgradeInv
  BY UpgradeInitInv
<1>2. UpgradeInv /\ [UpgradeNext]_upgradeVars => UpgradeInv'
  BY UpgradeStep
<1>3. UpgradeInv => ResultIsTrue
  BY DEF UpgradeInv, Knows, ResultIsTrue
<1> QED
  BY <1>1, <1>2, <1>3, PTL DEF UpgradeSpec

HIDE UpgradeAssumption

-----------------------------------------------------------------------------
(***************************************************************************)
(* Assembly: where the segments of a file are                              *)
(***************************************************************************)

\* Induction, for a set: were m not in it, a function of 0..m to 0..(m - 1) would have
\* no two equal values.
LEMMA Inductive ==
  ASSUME NEW A, 0 \in A, \A k \in Nat : k \in A => k + 1 \in A, NEW m \in Nat
  PROVE  m \in A
<1> SUFFICES ASSUME m \notin A PROVE FALSE
  OBVIOUS
<1> DEFINE f == [x \in 0..m |-> IF x \in A THEN x ELSE x - 1]
           S == 0..m
           T == 0..(m - 1)
<1>1. m >= 1
  OBVIOUS
<1>2. f \in [S -> T]
  <2> SUFFICES ASSUME NEW x \in 0..m PROVE (IF x \in A THEN x ELSE x - 1) \in 0..(m - 1)
    OBVIOUS
  <2> QED
    BY <1>1
<1>3. \A x, y \in S : f[x] = f[y] => x = y
  OBVIOUS
<1>4. IsFiniteSet(S) /\ IsFiniteSet(T) /\ Cardinality(T) < Cardinality(S)
  BY <1>1, FS_Interval
<1> HIDE DEF f, S, T
<1>5. \E x, y \in S : x # y /\ f[x] = f[y]
  BY <1>2, <1>4, FS_PigeonHole
<1> QED
  BY <1>3, <1>5

\* The running sum that Total takes the last value of.
Sums(size, segs) ==
  CHOOSE sum : sum = [n \in 0..SegmentCount |->
                        IF n = 0 THEN 0 ELSE sum[n - 1] + IF n \in segs THEN size[n] ELSE 0]

LEMMA TotalIsLast == ASSUME NEW size, NEW segs PROVE Total(size, segs) = Sums(size, segs)[SegmentCount]
BY DEF Total, Sums

SizeOf(size, segs, n) == IF n \in segs THEN size[n] ELSE 0

\* It is what its definition says.
LEMMA SumsIs ==
  ASSUME NEW size \in [Segments -> Nat], NEW segs
  PROVE  /\ Sums(size, segs) \in [0..SegmentCount -> Nat]
         /\ Sums(size, segs)[0] = 0
         /\ \A n \in Segments :
              Sums(size, segs)[n] = Sums(size, segs)[n - 1] + SizeOf(size, segs, n)
<1> DEFINE Is(g, m) == /\ g \in [0..m -> Nat] /\ g[0] = 0
                       /\ \A n \in 1..m : g[n] = g[n - 1] + SizeOf(size, segs, n)
           A == {m \in Nat : m <= SegmentCount => \E g : Is(g, m)}
           N == SegmentCount
<1>0. N \in Nat \ {0} /\ Segments = 1..N
  BY AssemblyAssumption DEF Segments
<1>a. \A n \in 1..N : SizeOf(size, segs, n) \in Nat
  BY <1>0 DEF SizeOf
<1>1. 0 \in A
  <2>1. Is([n \in 0..0 |-> 0], 0)
    OBVIOUS
  <2> QED
    BY <2>1
<1>2. ASSUME NEW k \in Nat, k \in A PROVE k + 1 \in A
  <2> SUFFICES ASSUME k + 1 <= N PROVE \E g : Is(g, k + 1)
    BY <1>0
  <2>1. PICK g : Is(g, k)
    BY SMTT(30), <1>0, <1>2
  <2> DEFINE h == [n \in 0..(k + 1) |-> IF n <= k THEN g[n] ELSE g[k] + SizeOf(size, segs, k + 1)]
  <2>2. g \in [0..k -> Nat] /\ g[k] \in Nat /\ SizeOf(size, segs, k + 1) \in Nat
    BY <1>0, <1>a, <2>1
  <2>3. h \in [0..(k + 1) -> Nat]
    BY <2>2
  <2>4. h[0] = 0
    BY <2>1
  <2>5. ASSUME NEW n \in 1..(k + 1) PROVE h[n] = h[n - 1] + SizeOf(size, segs, n)
    <3>1. CASE n <= k
      <4>1. n \in 1..k /\ n \in 0..(k+1) /\ n - 1 \in 0..(k+1) /\ n - 1 <= k
        BY <3>1
      <4> QED
        BY <2>1, <3>1, <4>1
    <3>2. CASE n = k + 1
      <4>1. n \in 0..(k+1) /\ n - 1 \in 0..(k+1) /\ n - 1 <= k /\ n - 1 = k /\ ~(n <= k)
        BY <3>2
      <4> QED
        BY <3>2, <4>1
    <3> QED
      BY <3>1, <3>2
  <2> HIDE DEF h
  <2>6. Is(h, k + 1)
    BY <2>3, <2>4, <2>5
  <2> QED
    BY <2>6
<1> HIDE DEF A
<1>3. N \in A
  BY <1>0, <1>1, <1>2, Inductive
<1>4. PICK g : Is(g, N)
  BY <1>0, <1>3 DEF A
<1> DEFINE Eq(s) == s = [n \in 0..N |-> IF n = 0 THEN 0 ELSE s[n - 1] + IF n \in segs THEN size[n] ELSE 0]
<1>5. Eq(g)
  <2> DEFINE e == [n \in 0..N |-> IF n = 0 THEN 0 ELSE g[n - 1] + IF n \in segs THEN size[n] ELSE 0]
  <2>1. \A n \in 0..N : g[n] = e[n]
    BY <1>0, <1>4 DEF SizeOf
  <2>2. g \in [0..N -> Nat]
    BY <1>4
  <2> QED
    BY <2>1, <2>2
<1>6. Eq(Sums(size, segs))
  BY <1>5 DEF Sums
<1> DEFINE s == Sums(size, segs)
<1>7. s = [n \in 0..N |-> IF n = 0 THEN 0 ELSE s[n - 1] + SizeOf(size, segs, n)]
  BY <1>6 DEF SizeOf
<1> HIDE DEF s
<1>8. s[0] = 0 /\ \A n \in 1..N : s[n] = s[n - 1] + SizeOf(size, segs, n)
  BY <1>0, <1>7
<1>9. \A n \in 0..N : s[n] \in Nat
  <2> DEFINE B == {m \in Nat : m <= N => s[m] \in Nat}
  <2>1. 0 \in B
    BY <1>8
  <2>2. ASSUME NEW k \in Nat, k \in B PROVE k + 1 \in B
    <3> SUFFICES ASSUME k + 1 <= N PROVE s[k + 1] \in Nat
      OBVIOUS
    <3>1. s[k] \in Nat /\ k + 1 \in 1..N /\ (k + 1) - 1 = k
      BY <1>0, <2>2
    <3> QED
      BY <1>8, <1>a, <3>1
  <2> HIDE DEF B
  <2>3. \A m \in Nat : m \in B
    BY <2>1, <2>2, Inductive
  <2> QED
    BY <1>0, <2>3 DEF B
<1>10. s \in [0..N -> Nat]
  BY <1>7, <1>9
<1> QED
  BY <1>0, <1>8, <1>10 DEF s

LEMMA TotalType == ASSUME NEW size \in [Segments -> Nat], NEW segs PROVE Total(size, segs) \in Nat
BY SumsIs, TotalIsLast, AssemblyAssumption

\* Nothing adds up to zero.
LEMMA TotalEmpty == ASSUME NEW size \in [Segments -> Nat] PROVE Total(size, {}) = 0
<1> DEFINE s == Sums(size, {})
           A == {m \in Nat : m <= SegmentCount => s[m] = 0}
<1>0. SegmentCount \in Nat /\ Segments = 1..SegmentCount
  BY AssemblyAssumption DEF Segments
<1>1. s[0] = 0 /\ \A n \in Segments : s[n] = s[n - 1]
  <2>1. s \in [0..SegmentCount -> Nat] /\ s[0] = 0 /\ \A n \in Segments : s[n] = s[n - 1] + 0
    BY SumsIs DEF SizeOf
  <2> HIDE DEF s
  <2> QED
    BY <1>0, <2>1
<1> HIDE DEF s
<1>2. 0 \in A
  BY <1>1
<1>3. ASSUME NEW k \in Nat, k \in A PROVE k + 1 \in A
  <2> SUFFICES ASSUME k + 1 <= SegmentCount PROVE s[k + 1] = 0
    OBVIOUS
  <2>1. k + 1 \in Segments /\ (k + 1) - 1 = k /\ s[k] = 0
    BY <1>0, <1>3
  <2> QED
    BY <1>1, <2>1
<1> HIDE DEF A
<1>4. SegmentCount \in A
  BY <1>0, <1>2, <1>3, Inductive
<1> QED
  BY <1>4, TotalIsLast DEF A, s

\* One more segment adds its size.
LEMMA TotalAdds ==
  ASSUME NEW size \in [Segments -> Nat], NEW segs, NEW s \in Segments, s \notin segs
  PROVE  Total(size, segs \cup {s}) = Total(size, segs) + size[s]
<1> DEFINE a == Sums(size, segs)
           b == Sums(size, segs \cup {s})
           A == {m \in Nat : m <= SegmentCount => b[m] = a[m] + IF m >= s THEN size[s] ELSE 0}
<1>0. SegmentCount \in Nat /\ Segments = 1..SegmentCount
  BY AssemblyAssumption DEF Segments
<1>1. /\ a \in [0..SegmentCount -> Nat] /\ a[0] = 0
      /\ \A n \in Segments : a[n] = a[n - 1] + SizeOf(size, segs, n)
      /\ b \in [0..SegmentCount -> Nat] /\ b[0] = 0
      /\ \A n \in Segments : b[n] = b[n - 1] + SizeOf(size, segs \cup {s}, n)
  BY SumsIs
<1> HIDE DEF a, b
<1>2. 0 \in A
  BY <1>0, <1>1
<1>3. ASSUME NEW k \in Nat, k \in A PROVE k + 1 \in A
  <2> SUFFICES ASSUME k + 1 <= SegmentCount
               PROVE  b[k + 1] = a[k + 1] + IF k + 1 >= s THEN size[s] ELSE 0
    OBVIOUS
  <2>1. k + 1 \in Segments /\ (k + 1) - 1 = k /\ b[k] = a[k] + IF k >= s THEN size[s] ELSE 0
    BY <1>0, <1>3
  <2>2. a[k + 1] = a[k] + SizeOf(size, segs, k + 1) /\ b[k + 1] = b[k] + SizeOf(size, segs \cup {s}, k + 1)
    BY <1>1, <2>1
  <2>3. k \in 0..SegmentCount /\ a[k] \in Nat /\ size[s] \in Nat /\ size[k + 1] \in Nat /\ s \in Nat
    <3>1. k \in 0..SegmentCount /\ s \in Nat
      BY <1>0
    <3> QED
      BY <1>1, <2>1, <3>1
  <2>4. CASE k + 1 = s
    BY <2>1, <2>2, <2>3, <2>4 DEF SizeOf
  <2>5. CASE k + 1 # s
    BY <2>1, <2>2, <2>3, <2>5 DEF SizeOf
  <2> QED
    BY <2>4, <2>5
<1> HIDE DEF A
<1>4. SegmentCount \in A
  BY <1>0, <1>2, <1>3, Inductive
<1>5. b[SegmentCount] = a[SegmentCount] + size[s]
  BY <1>0, <1>4 DEF A
<1> QED
  BY <1>5, TotalIsLast DEF a, b

Upto(size, n) == Total(size, 1..n)

\* The sums of the beginnings, one segment after the other.
LEMMA Running ==
  ASSUME NEW size \in [Segments -> Nat]
  PROVE  /\ Upto(size, 0) = 0
         /\ \A n \in 0..SegmentCount : Upto(size, n) \in Nat
         /\ \A s \in Segments : Upto(size, s) = Upto(size, s - 1) + size[s]
<1>1. Upto(size, 0) = 0
  BY TotalEmpty DEF Upto
<1>2. ASSUME NEW s \in Segments PROVE Upto(size, s) = Upto(size, s - 1) + size[s]
  <2>1. 1..s = (1..(s - 1)) \cup {s} /\ s \notin 1..(s - 1)
    BY AssemblyAssumption DEF Segments
  <2> QED
    BY <2>1, TotalAdds DEF Upto
<1> QED
  BY <1>1, <1>2, TotalType DEF Upto

\* The running sums grow.
LEMMA InOrder ==
  ASSUME NEW size \in [Segments -> Nat], NEW n \in 0..SegmentCount, NEW m \in n..SegmentCount
  PROVE  Upto(size, n) <= Upto(size, m)
<1> DEFINE u(i) == Upto(size, i)
           A == {d \in Nat : n + d <= SegmentCount => u(n) <= u(n + d)}
<1>0. SegmentCount \in Nat /\ Segments = 1..SegmentCount
  BY AssemblyAssumption DEF Segments
<1>1. /\ \A i \in 0..SegmentCount : u(i) \in Nat
      /\ \A s \in Segments : u(s) = u(s - 1) + size[s]
  BY Running
<1> HIDE DEF u
<1>2. 0 \in A
  BY <1>0, <1>1
<1>3. ASSUME NEW k \in Nat, k \in A PROVE k + 1 \in A
  <2> SUFFICES ASSUME n + (k + 1) <= SegmentCount PROVE u(n) <= u(n + (k + 1))
    OBVIOUS
  <2> DEFINE j == n + (k + 1)
  <2>1. j \in Segments /\ j - 1 = n + k /\ n + k \in 0..SegmentCount /\ u(n) <= u(n + k)
    BY <1>0, <1>3
  <2>2. u(j) = u(j - 1) + size[j] /\ size[j] \in Nat /\ u(n) \in Nat /\ u(n + k) \in Nat
    BY <1>0, <1>1, <2>1
  <2> QED
    BY <2>1, <2>2
<1> HIDE DEF A
<1>4. m - n \in A /\ m - n \in Nat
  <2>1. \A i \in Nat : i \in A
    BY <1>2, <1>3, Inductive
  <2> QED
    BY <1>0, <2>1
<1>5. u(n) <= u(n + (m - n)) /\ n + (m - n) = m
  BY <1>0, <1>4 DEF A
<1> QED
  BY <1>5 DEF u

\* Every place of the first m segments is in one of them.
LEMMA Somewhere ==
  ASSUME NEW size \in [Segments -> Nat], NEW m \in 0..SegmentCount, NEW p \in 1..Upto(size, m)
  PROVE  \E s \in 1..m : \E k \in 1..size[s] : p = Upto(size, s - 1) + k
<1> DEFINE u(i) == Upto(size, i)
           At(s, q) == \E k \in 1..size[s] : q = u(s - 1) + k
           A == {i \in Nat : i <= SegmentCount => \A q \in 1..u(i) : \E s \in 1..i : At(s, q)}
<1>0. SegmentCount \in Nat /\ Segments = 1..SegmentCount
  BY AssemblyAssumption DEF Segments
<1>1. /\ u(0) = 0 /\ \A i \in 0..SegmentCount : u(i) \in Nat
      /\ \A s \in Segments : u(s) = u(s - 1) + size[s]
  BY Running
<1> HIDE DEF u
<1>2. 0 \in A
  BY <1>1
<1>3. ASSUME NEW i \in Nat, i \in A PROVE i + 1 \in A
  <2> SUFFICES ASSUME i + 1 <= SegmentCount, NEW q \in 1..u(i + 1)
               PROVE  \E s \in 1..(i + 1) : At(s, q)
    OBVIOUS
  <2>1. i + 1 \in Segments /\ (i + 1) - 1 = i /\ i \in 0..SegmentCount /\ i + 1 \in 1..(i + 1)
    BY <1>0
  <2>2. u(i + 1) = u(i) + size[i + 1] /\ size[i + 1] \in Nat /\ u(i) \in Nat
    <3>1. u(i + 1) = u((i + 1) - 1) + size[i + 1]
      BY <1>1, <2>1
    <3> QED
      BY <1>1, <2>1, <3>1
  <2>3. CASE q <= u(i)
    <3>1. PICK s \in 1..i : At(s, q)
      BY <1>3, <2>1, <2>2, <2>3
    <3> QED
      BY <3>1, <2>1
  <2>4. CASE q > u(i)
    <3> DEFINE k == q - u(i)
    <3>1. k \in 1..size[i + 1] /\ q = u((i + 1) - 1) + k
      BY <2>1, <2>2, <2>4
    <3>2. At(i + 1, q)
      BY <3>1
    <3> QED
      BY <2>1, <3>2
  <2> QED
    BY <2>2, <2>3, <2>4
<1> HIDE DEF A
<1>4. \A i \in Nat : i \in A
  BY <1>2, <1>3, Inductive
<1>5. \E s \in 1..m : At(s, p)
  BY <1>0, <1>4 DEF A, u
<1> QED
  BY <1>5 DEF u

Bytes == Nat \X Nat

Posted == [s \in Segments |-> Data(s)]

\* The running concatenation that FlattenSeq takes the last value of.
Flat ==
  CHOOSE flatten : flatten = [i \in 1..Len(Posted) |->
                                IF i = 1 THEN Posted[i] ELSE flatten[i - 1] \o Posted[i]]

LEMMA DataIs ==
  ASSUME NEW s \in Segments
  PROVE  Data(s) \in Seq(Bytes) /\ Len(Data(s)) = Decoded[s] /\ \A k \in 1..Decoded[s] : Data(s)[k] = <<s, k>>
<1>1. Decoded[s] \in Nat /\ s \in Nat
  BY AssemblyAssumption DEF Segments
<1>2. \A k \in 1..Decoded[s] : <<s, k>> \in Bytes
  BY <1>1 DEF Bytes
<1> QED
  BY <1>1, <1>2 DEF Data

\* The posted file, concatenated segment by segment.
LEMMA FlatIs ==
  /\ Flat \in [Segments -> Seq(Bytes)]
  /\ Flat[1] = Data(1)
  /\ \A i \in Segments \ {1} : Flat[i] = Flat[i - 1] \o Data(i)
  /\ WholeFile = Flat[SegmentCount]
<1> DEFINE Is(g, m) == /\ g \in [1..m -> Seq(Bytes)] /\ (m >= 1 => g[1] = Data(1))
                       /\ \A i \in 2..m : g[i] = g[i - 1] \o Data(i)
           N == SegmentCount
           A == {m \in Nat : m <= N => \E g : Is(g, m)}
<1>0. N \in Nat \ {0} /\ Segments = 1..N
  BY AssemblyAssumption DEF Segments
<1>a. \A i \in 1..N : Data(i) \in Seq(Bytes)
  BY <1>0, DataIs
<1>1. 0 \in A
  <2>1. Is([i \in 1..0 |-> << >>], 0)
    OBVIOUS
  <2> QED
    BY <2>1
<1>2. ASSUME NEW k \in Nat, k \in A PROVE k + 1 \in A
  <2> SUFFICES ASSUME k + 1 <= N PROVE \E g : Is(g, k + 1)
    BY <1>0
  <2>1. PICK g : Is(g, k)
    BY <1>0, <1>2
  <2> DEFINE x == IF k = 0 THEN Data(1) ELSE g[k] \o Data(k + 1)
             h == [i \in 1..(k + 1) |-> IF i <= k THEN g[i] ELSE x]
  <2>2. x \in Seq(Bytes)
    <3>1. CASE k = 0
      BY <1>0, <1>a, <3>1
    <3>2. CASE k # 0
      <4>1. k \in 1..k /\ k + 1 \in 1..N
        BY <1>0, <3>2
      <4>2. g[k] \in Seq(Bytes) /\ Data(k + 1) \in Seq(Bytes)
        BY <1>a, <2>1, <4>1
      <4>3. g[k] \o Data(k + 1) \in Seq(Bytes)
        BY <4>2
      <4> QED
        BY <3>2, <4>3
    <3> QED
      BY <3>1, <3>2
  <2> HIDE DEF x
  <2>3. h \in [1..(k + 1) -> Seq(Bytes)]
    BY <2>1, <2>2
  <2>4. h[1] = Data(1)
    <3>1. CASE k = 0
      BY <3>1 DEF x
    <3>2. CASE k # 0
      <4>1. 1 <= k /\ 1 \in 1..(k + 1) /\ g[1] = Data(1)
        BY <2>1, <3>2
      <4> QED
        BY <4>1
    <3> QED
      BY <3>1, <3>2
  <2>5. ASSUME NEW i \in 2..(k + 1) PROVE h[i] = h[i - 1] \o Data(i)
    <3>1. CASE i <= k
      <4>1. i \in 2..k /\ i \in 1..(k+1) /\ i - 1 \in 1..(k+1) /\ i - 1 <= k
        BY <3>1
      <4> QED
        BY <2>1, <3>1, <4>1
    <3>2. CASE i = k + 1
      <4>1. i \in 1..(k+1) /\ i - 1 \in 1..(k+1) /\ i - 1 <= k /\ i - 1 = k /\ ~(i <= k) /\ k # 0
        BY <3>2
      <4>2. h[i] = x /\ h[i - 1] = g[k]
        BY <4>1
      <4> QED
        BY <3>2, <4>1, <4>2 DEF x
    <3>3. i <= k \/ i = k + 1
      OBVIOUS
    <3> HIDE DEF h
    <3> QED
      BY <3>1, <3>2, <3>3
  <2> HIDE DEF h
  <2>6. Is(h, k + 1)
    BY <2>3, <2>4, <2>5
  <2> QED
    BY <2>6
<1> HIDE DEF A
<1>3. N \in A
  BY <1>0, <1>1, <1>2, Inductive
<1> HIDE DEF Is
<1>c. N \in Nat /\ N <= N
  BY <1>0
<1>4. PICK g : Is(g, N)
  BY <1>3, <1>c DEF A
<1>d. g \in [1..N -> Seq(Bytes)] /\ g[1] = Data(1) /\ \A i \in 2..N : g[i] = g[i - 1] \o Data(i)
  BY <1>0, <1>4 DEF Is
<1>b. Len(Posted) = N /\ \A i \in 1..N : Posted[i] = Data(i)
  BY <1>0 DEF Posted
<1> DEFINE Eq(f) == f = [i \in 1..Len(Posted) |-> IF i = 1 THEN Posted[i] ELSE f[i - 1] \o Posted[i]]
<1>5. Eq(g)
  <2> DEFINE e == [i \in 1..Len(Posted) |-> IF i = 1 THEN Posted[i] ELSE g[i - 1] \o Posted[i]]
  <2>1. ASSUME NEW i \in 1..N PROVE g[i] = e[i]
    <3>1. e[i] = IF i = 1 THEN Data(1) ELSE g[i - 1] \o Data(i)
      BY <1>b
    <3>2. i # 1 => i \in 2..N
      BY <1>0
    <3> HIDE DEF e
    <3>3. CASE i = 1
      BY <1>d, <3>1, <3>3
    <3>4. CASE i # 1
      BY <1>d, <3>1, <3>2, <3>4
    <3> QED
      BY <3>3, <3>4
  <2>2. g = [i \in 1..N |-> g[i]] /\ e = [i \in 1..N |-> e[i]]
    <3>1. g \in [1..N -> Seq(Bytes)]
      BY <1>d
    <3> QED
      BY <1>b, <3>1
  <2> HIDE DEF e
  <2>3. g = e
    BY <2>1, <2>2
  <2> QED
    BY <2>3 DEF e
<1>6. Eq(Flat)
  BY <1>5 DEF Flat
<1>7. Flat = [i \in 1..N |-> IF i = 1 THEN Data(1) ELSE Flat[i - 1] \o Data(i)]
  <2> DEFINE f == Flat
  <2>1. f = [i \in 1..N |-> IF i = 1 THEN Posted[i] ELSE f[i - 1] \o Posted[i]]
    BY <1>6, <1>b
  <2> HIDE DEF f
  <2>2. f = [i \in 1..N |-> IF i = 1 THEN Data(1) ELSE f[i - 1] \o Data(i)]
    BY <1>b, <2>1
  <2> QED
    BY <2>2 DEF f
<1>8. Flat[1] = Data(1) /\ \A i \in 2..N : Flat[i] = Flat[i - 1] \o Data(i)
  <2> DEFINE f == Flat
  <2>1. f = [i \in 1..N |-> IF i = 1 THEN Data(1) ELSE f[i - 1] \o Data(i)]
    BY <1>7
  <2> HIDE DEF f
  <2>2. \A i \in 1..N : f[i] = IF i = 1 THEN Data(1) ELSE f[i - 1] \o Data(i)
    BY <2>1
  <2>3. 1 \in 1..N /\ \A i \in 2..N : i \in 1..N /\ i # 1
    BY <1>0
  <2>4. f[1] = Data(1) /\ \A i \in 2..N : f[i] = f[i - 1] \o Data(i)
    BY <2>2, <2>3
  <2> QED
    BY <2>4 DEF f
<1>9. \A i \in 1..N : Flat[i] \in Seq(Bytes)
  <2> DEFINE B == {m \in Nat : 1 <= m /\ m <= N => Flat[m] \in Seq(Bytes)}
  <2>1. 0 \in B
    OBVIOUS
  <2>2. ASSUME NEW k \in Nat, k \in B PROVE k + 1 \in B
    <3> SUFFICES ASSUME k + 1 <= N PROVE Flat[k + 1] \in Seq(Bytes)
      OBVIOUS
    <3>1. CASE k = 0
      BY <1>0, <1>a, <1>8, <3>1
    <3>2. CASE k # 0
      <4>1. Flat[k] \in Seq(Bytes) /\ k + 1 \in 2..N /\ (k + 1) - 1 = k /\ k + 1 \in 1..N
        BY <1>0, <2>2, <3>2
      <4>2. Flat[k + 1] = Flat[k] \o Data(k + 1) /\ Data(k + 1) \in Seq(Bytes)
        BY <1>8, <1>a, <4>1
      <4> QED
        BY <4>1, <4>2
    <3> QED
      BY <3>1, <3>2
  <2> HIDE DEF B
  <2>3. \A m \in Nat : m \in B
    BY <2>1, <2>2, Inductive
  <2> QED
    BY <1>0, <2>3 DEF B
<1>10. WholeFile = Flat[N]
  <2>1. FlattenSeq(Posted) = IF Len(Posted) = 0 THEN Posted ELSE Flat[Len(Posted)]
    BY DEF FlattenSeq, Flat
  <2>2. WholeFile = FlattenSeq(Posted)
    BY DEF WholeFile, Posted
  <2> QED
    BY <1>0, <1>b, <2>1, <2>2
<1>11. Flat \in [1..N -> Seq(Bytes)]
  <2>1. Flat = [i \in 1..N |-> Flat[i]]
    <3> DEFINE f == Flat
    <3>1. f = [i \in 1..N |-> IF i = 1 THEN Data(1) ELSE f[i - 1] \o Data(i)]
      BY <1>7
    <3> HIDE DEF f
    <3>2. f = [i \in 1..N |-> f[i]]
      BY <3>1
    <3> QED
      BY <3>2 DEF f
  <2> QED
    BY <1>9, <2>1
<1> QED
  BY SMTT(30), <1>0, <1>8, <1>10, <1>11

\* Every segment of the posting is where the decoded sizes before it add up to.
LEMMA Pieces ==
  ASSUME NEW n \in Segments
  PROVE  /\ Len(Flat[n]) = Upto(Decoded, n)
         /\ \A s \in 1..n : \A k \in 1..Decoded[s] : Flat[n][Upto(Decoded, s - 1) + k] = <<s, k>>
<1> DEFINE u(i) == Upto(Decoded, i)
           Good(i) == /\ Len(Flat[i]) = u(i)
                      /\ \A s \in 1..i : \A k \in 1..Decoded[s] : Flat[i][u(s - 1) + k] = <<s, k>>
           A == {i \in Nat : i + 1 <= SegmentCount => Good(i + 1)}
<1>0. SegmentCount \in Nat /\ Segments = 1..SegmentCount /\ Decoded \in [Segments -> Nat]
  BY AssemblyAssumption DEF Segments
<1>1. /\ u(0) = 0 /\ \A i \in 0..SegmentCount : u(i) \in Nat
      /\ \A s \in Segments : u(s) = u(s - 1) + Decoded[s]
  BY <1>0, Running
<1>a. \A i, j \in 0..SegmentCount : i <= j => u(i) <= u(j)
  BY <1>0, InOrder
<1> HIDE DEF u
<1>2. 0 \in A
  <2> SUFFICES ASSUME 1 <= SegmentCount PROVE Good(1)
    OBVIOUS
  <2>1. 1 \in Segments /\ Flat[1] = Data(1) /\ u(1) = u(0) + Decoded[1] /\ Decoded[1] \in Nat
    <3>1. 1 \in Segments /\ 1 - 1 = 0
      BY <1>0
    <3> QED
      BY <1>0, <1>1, <3>1, FlatIs
  <2>2. Len(Data(1)) = Decoded[1] /\ \A k \in 1..Decoded[1] : Data(1)[k] = <<1, k>>
    BY <2>1, DataIs
  <2>3. u(1) = Decoded[1] /\ \A k \in 1..Decoded[1] : u(1 - 1) + k = k
    BY <1>1, <2>1
  <2>4. \A s \in 1..1 : s = 1
    OBVIOUS
  <2> QED
    BY <2>1, <2>2, <2>3, <2>4
<1>3. ASSUME NEW i \in Nat, i \in A PROVE i + 1 \in A
  <2> DEFINE j == i + 1
  <2> SUFFICES ASSUME j + 1 <= SegmentCount PROVE Good(j + 1)
    OBVIOUS
  <2>1. /\ j \in Segments /\ j + 1 \in Segments \ {1} /\ (j + 1) - 1 = j /\ Good(j)
        /\ j \in 0..SegmentCount /\ j + 1 \in 0..SegmentCount /\ j \in Nat
    BY <1>0, <1>3
  <2> HIDE DEF j
  <2> DEFINE f == Flat[j]
             d == Data(j + 1)
  <2>2. f \in Seq(Bytes) /\ d \in Seq(Bytes) /\ Flat[j + 1] = f \o d
    <3>1. Flat[j + 1] = Flat[(j + 1) - 1] \o Data(j + 1)
      BY <2>1, FlatIs
    <3> QED
      BY <2>1, <3>1, FlatIs, DataIs
  <2>3. /\ Len(f) = u(j) /\ Len(d) = Decoded[j + 1] /\ u(j + 1) = u(j) + Decoded[j + 1]
        /\ u(j) \in Nat /\ Decoded[j + 1] \in Nat /\ \A k \in 1..Decoded[j + 1] : d[k] = <<j + 1, k>>
    <3>1. u(j + 1) = u((j + 1) - 1) + Decoded[j + 1]
      BY <1>1, <2>1
    <3>2. Len(d) = Decoded[j + 1] /\ \A k \in 1..Decoded[j + 1] : d[k] = <<j + 1, k>>
      BY <2>1, DataIs
    <3> QED
      BY <1>0, <1>1, <2>1, <3>1, <3>2
  <2>4. ASSUME NEW s \in 1..j, NEW k \in 1..Decoded[s]
        PROVE  u(s - 1) + k \in 1..Len(f) /\ f[u(s - 1) + k] = <<s, k>>
    <3>1. /\ s \in Segments /\ s \in 0..SegmentCount /\ s - 1 \in 0..SegmentCount /\ s <= j
      BY <1>0, <2>1
    <3>2. u(s - 1) \in Nat /\ u(s) = u(s - 1) + Decoded[s] /\ u(s) <= u(j) /\ Decoded[s] \in Nat
      BY <1>0, <1>1, <1>a, <2>1, <3>1
    <3>3. u(s - 1) + k \in 1..Len(f)
      BY <2>3, <3>2
    <3> QED
      BY <2>1, <3>3
  <2> HIDE DEF f, d
  <2>5. Len(f \o d) = u(j + 1)
    <3>1. Len(f \o d) = Len(f) + Len(d)
      BY <2>2, ConcatProperties
    <3> QED
      BY <2>3, <3>1
  <2>6. ASSUME NEW s \in 1..(j + 1), NEW k \in 1..Decoded[s] PROVE (f \o d)[u(s - 1) + k] = <<s, k>>
    <3>1. CASE s \in 1..j
      <4>1. u(s - 1) + k \in 1..Len(f) /\ f[u(s - 1) + k] = <<s, k>>
        BY <2>4, <3>1
      <4> QED
        BY <2>2, <4>1
    <3>2. CASE s = j + 1
      <4>1. s - 1 = j /\ k \in 1..Len(d) /\ d[k] = <<s, k>>
        BY <2>1, <2>3, <3>2
      <4>2. (f \o d)[Len(f) + k] = d[k]
        BY <2>2, <4>1
      <4> QED
        BY <2>3, <4>1, <4>2
    <3>3. s \in 1..j \/ s = j + 1
      BY <2>1
    <3> QED
      BY <3>1, <3>2, <3>3
  <2> QED
    BY <2>2, <2>5, <2>6
<1> HIDE DEF A
<1>4. \A i \in Nat : i \in A
  BY <1>2, <1>3, Inductive
<1>5. n - 1 \in Nat /\ (n - 1) + 1 = n /\ n <= SegmentCount
  BY <1>0
<1>6. Good(n)
  <2>1. n - 1 \in A
    BY <1>4, <1>5
  <2> QED
    BY <1>5, <2>1 DEF A
<1> QED
  BY <1>6 DEF u

\* A file is the posted one if it is as long and each segment is where it belongs.
LEMMA Recognized ==
  ASSUME NEW f \in Seq(Bytes), Len(f) = Upto(Decoded, SegmentCount),
         \A s \in Segments : \A k \in 1..Decoded[s] : f[Upto(Decoded, s - 1) + k] = <<s, k>>
  PROVE  f = WholeFile
<1>0. SegmentCount \in Segments /\ Segments = 1..SegmentCount /\ Decoded \in [Segments -> Nat]
      /\ SegmentCount \in 0..SegmentCount
  BY AssemblyAssumption DEF Segments
<1> DEFINE w == WholeFile
<1>1. w \in Seq(Bytes) /\ Len(w) = Len(f)
      /\ \A s \in Segments : \A k \in 1..Decoded[s] : w[Upto(Decoded, s - 1) + k] = <<s, k>>
  BY <1>0, FlatIs, Pieces
<1> HIDE DEF w
<1>2. ASSUME NEW p \in 1..Len(f) PROVE f[p] = w[p]
  <2>1. PICK s \in Segments : \E k \in 1..Decoded[s] : p = Upto(Decoded, s - 1) + k
    BY SMTT(30), <1>0, Somewhere
  <2> QED
    BY <1>1, <2>1
<1>3. f = w
  BY <1>1, <1>2
<1> QED
  BY <1>3 DEF w

\* The sizes of the segments in the NZB; where a segment begins and all of them end.
Encoded == [s \in Segments |-> Decoded[s] + overhead[s]]

StartOf(s) == Upto(Encoded, s - 1)

End == Upto(Encoded, SegmentCount)

Lean == \A s \in Segments : overhead[s] = 0

InPlace(bytes, s) == \A k \in 1..Decoded[s] : bytes[StartOf(s) + k] = <<s, k>>

\* The file has its full length from the first attempt to the end, marked segments are in
\* their places, and with articles no longer than their data what is downloaded
\* adds up to that length; no worker has a marked segment.
AssemblyInv ==
  /\ overhead \in [Segments -> Nat]
  /\ assembled \in Seq(Bytes) /\ downloaded \in Nat
  /\ segsMarked \subseteq Segments /\ inWork \subseteq Segments
  /\ assembling \in {"off", "working", "failed", "returned"}
  /\ assembling = "off" => segsMarked = {}
  /\ inWork \cap segsMarked = {}
  /\ assembling = "working" => segsMarked \cup inWork \subseteq taken
  /\ assembling # "working" => inWork = {}
  /\ assembling \in {"working", "failed"} => Len(assembled) = End
  /\ assembling # "returned" => \A s \in segsMarked : InPlace(assembled, s)
  /\ assembling = "working" /\ Lean => downloaded = Total(Encoded, segsMarked)
  /\ assembling = "returned" /\ Lean => assembled = WholeFile

\* The operators of Assembly are the sums above.
LEMMA SizesKnown ==
  ASSUME overhead \in [Segments -> Nat]
  PROVE  /\ Encoded \in [Segments -> Nat] /\ Decoded \in [Segments -> Nat]
         /\ \A s \in Segments : Decoded[s] <= Encoded[s]
         /\ Lean => Encoded = Decoded
         /\ \A s \in Segments : offsets[s] = StartOf(s)
         /\ \A segs : EncodedBytes(segs) = Total(Encoded, segs)
         /\ EncodedBytes(Segments) = End
<1>1. SegmentCount \in Nat /\ Segments = 1..SegmentCount /\ Decoded \in [Segments -> Nat]
  BY AssemblyAssumption DEF Segments
<1>2. Encoded \in [Segments -> Nat] /\ \A s \in Segments : Encoded[s] = Decoded[s] + overhead[s]
  BY <1>1 DEF Encoded
<1>3. \A s \in Segments : Decoded[s] <= Encoded[s]
  BY <1>1, <1>2
<1>4. Lean => Encoded = Decoded
  BY <1>1 DEF Lean, Encoded
<1>5. \A segs : EncodedBytes(segs) = Total(Encoded, segs)
  BY DEF EncodedBytes, Encoded
<1>6. \A s \in Segments : offsets[s] = StartOf(s)
  BY <1>5 DEF offsets, StartOf, Upto
<1>7. EncodedBytes(Segments) = End
  BY <1>1, <1>5 DEF End, Upto
<1> QED
  BY <1>1, <1>2, <1>3, <1>4, <1>5, <1>6, <1>7

\* Segments lie one after the other up to the end.
LEMMA NoOverlap ==
  ASSUME overhead \in [Segments -> Nat], NEW s \in Segments
  PROVE  /\ StartOf(s) \in Nat /\ End \in Nat /\ StartOf(s) + Decoded[s] <= End
         /\ \A t \in Segments : t # s => \/ StartOf(s) + Decoded[s] <= StartOf(t)
                                         \/ StartOf(t) + Decoded[t] <= StartOf(s)
<1> DEFINE u(i) == Upto(Encoded, i)
<1>0. SegmentCount \in Nat /\ Segments = 1..SegmentCount
  BY AssemblyAssumption DEF Segments
<1>1. /\ Encoded \in [Segments -> Nat] /\ Decoded \in [Segments -> Nat]
      /\ \A t \in Segments : Decoded[t] <= Encoded[t]
  BY SizesKnown
<1>2. /\ u(0) = 0 /\ \A i \in 0..SegmentCount : u(i) \in Nat
      /\ \A t \in Segments : u(t) = u(t - 1) + Encoded[t]
  BY <1>1, Running
<1>3. ASSUME NEW i \in 0..SegmentCount, NEW j \in 0..SegmentCount, i <= j PROVE u(i) <= u(j)
  <2>1. j \in i..SegmentCount
    BY <1>0, <1>3
  <2> QED
    BY <1>1, <2>1, InOrder
<1> HIDE DEF u
<1>4. \A t \in Segments : /\ t \in 0..SegmentCount /\ t - 1 \in 0..SegmentCount
                          /\ u(t - 1) \in Nat /\ u(t - 1) + Decoded[t] <= u(t) /\ u(t) \in Nat
  <2> SUFFICES ASSUME NEW t \in Segments
               PROVE  /\ t \in 0..SegmentCount /\ t - 1 \in 0..SegmentCount
                      /\ u(t - 1) \in Nat /\ u(t - 1) + Decoded[t] <= u(t) /\ u(t) \in Nat
    OBVIOUS
  <2>1. t \in 0..SegmentCount /\ t - 1 \in 0..SegmentCount
    BY <1>0
  <2>2. u(t) = u(t - 1) + Encoded[t] /\ Decoded[t] <= Encoded[t] /\ Decoded[t] \in Nat
        /\ Encoded[t] \in Nat /\ u(t - 1) \in Nat
    BY <1>1, <1>2, <2>1
  <2> QED
    BY <2>1, <2>2
<1>5. \A t \in Segments : StartOf(t) = u(t - 1)
  BY DEF StartOf, u
<1>6. End = u(SegmentCount) /\ SegmentCount \in 0..SegmentCount
  BY <1>0 DEF End, u
<1>7. StartOf(s) \in Nat /\ End \in Nat /\ StartOf(s) + Decoded[s] <= End
  <2>1. u(s) <= u(SegmentCount) /\ u(SegmentCount) \in Nat
    BY <1>0, <1>2, <1>3, <1>4, <1>6
  <2>2. u(s - 1) \in Nat /\ u(s - 1) + Decoded[s] <= u(s) /\ u(s) \in Nat /\ Decoded[s] \in Nat
    BY <1>1, <1>4
  <2> QED
    BY <1>5, <1>6, <2>1, <2>2
<1>8. ASSUME NEW t \in Segments, NEW r \in Segments, t < r PROVE StartOf(t) + Decoded[t] <= StartOf(r)
  <2>1. t <= r - 1 /\ t \in 0..SegmentCount /\ r - 1 \in 0..SegmentCount
    BY <1>0, <1>4, <1>8
  <2>2. u(t) <= u(r - 1)
    BY <1>3, <2>1
  <2>3. u(t - 1) \in Nat /\ u(t - 1) + Decoded[t] <= u(t) /\ u(t) \in Nat /\ Decoded[t] \in Nat /\ u(r - 1) \in Nat
    BY <1>1, <1>4
  <2> QED
    BY <1>5, <2>2, <2>3
<1>9. \A t \in Segments : t # s => t < s \/ s < t
  BY <1>0
<1> QED
  BY <1>7, <1>8, <1>9

\* A file that is cut has the length it is cut to.
LEMMA Cut ==
  ASSUME NEW f \in Seq(Bytes), NEW n \in Nat
  PROVE  /\ Truncated(f, n) \in Seq(Bytes) /\ Len(Truncated(f, n)) = n
         /\ n = Len(f) => Truncated(f, n) = f
<1>1. ASSUME NEW k \in 1..n PROVE (IF k <= Len(f) THEN f[k] ELSE Zero) \in Bytes
  BY DEF Zero, Bytes
<1>2. Truncated(f, n) \in Seq(Bytes) /\ Len(Truncated(f, n)) = n /\ Truncated(f, n) = [k \in 1..n |-> IF k <= Len(f) THEN f[k] ELSE Zero]
  BY <1>1 DEF Truncated
<1>3. ASSUME n = Len(f) PROVE Truncated(f, n) = f
  BY <1>2, <1>3
<1> QED
  BY <1>2, <1>3

\* A write inside the file changes what it covers and nothing else.
LEMMA Written ==
  ASSUME NEW f \in Seq(Bytes), NEW d \in Seq(Bytes), NEW at \in Nat, at + Len(d) <= Len(f)
  PROVE  /\ Over(f, d, at) \in Seq(Bytes) /\ Len(Over(f, d, at)) = Len(f)
         /\ \A k \in 1..Len(d) : Over(f, d, at)[at + k] = d[k]
         /\ \A k \in 1..Len(f) : k <= at \/ k > at + Len(d) => Over(f, d, at)[k] = f[k]
<1> DEFINE end == at + Len(d)
           l == Len(f)
           x(k) == IF k \in (at + 1)..end THEN d[k - at] ELSE IF k <= l THEN f[k] ELSE Zero
<1>1. l \in Nat /\ end \in Nat /\ end <= l /\ Len(d) \in Nat
  OBVIOUS
<1>2. Max({l, end}) = l
  <2>1. \A m \in {l, end} : (\A y \in {l, end} : m >= y) => m = l
    BY <1>1
  <2>2. \E m \in {l, end} : \A y \in {l, end} : m >= y
    BY <1>1
  <2> HIDE DEF l, end
  <2> QED
    BY <2>1, <2>2 DEF Max
<1>3. Over(f, d, at) = [k \in 1..l |-> x(k)]
  BY <1>2 DEF Over
<1>4. ASSUME NEW k \in 1..l PROVE x(k) \in Bytes
  <2>1. CASE k \in (at + 1)..end
    <3>1. k - at \in 1..Len(d)
      BY <1>1, <2>1
    <3> QED
      BY <2>1, <3>1
  <2>2. CASE k \notin (at + 1)..end
    BY <2>2
  <2> QED
    BY <2>1, <2>2
<1>5. ASSUME NEW k \in 1..Len(d) PROVE at + k \in 1..l /\ x(at + k) = d[k]
  <2>1. at + k \in (at + 1)..end /\ at + k \in 1..l /\ (at + k) - at = k
    BY <1>1
  <2> QED
    BY <2>1
<1>6. ASSUME NEW k \in 1..l, k <= at \/ k > end PROVE x(k) = f[k]
  BY <1>1, <1>6
<1> HIDE DEF x, end
<1> QED
  BY <1>1, <1>3, <1>4, <1>5, <1>6 DEF end

LEMMA AssemblyInitInv == AssemblyInit => AssemblyInv
<1> SUFFICES ASSUME AssemblyInit PROVE AssemblyInv
  OBVIOUS
<1>1. overhead \in [Segments -> Nat]
  BY AssemblyAssumption DEF AssemblyInit
<1> QED
  BY <1>1 DEF AssemblyInit, AssemblyInv

\* Sizes and places stay as they are.
LEMMA SameSizes ==
  ASSUME overhead' = overhead
  PROVE  /\ Encoded' = Encoded /\ End' = End /\ (Lean <=> Lean')
         /\ \A s : StartOf(s)' = StartOf(s)
         /\ \A segs : Total(Encoded, segs)' = Total(Encoded, segs)
BY DEF Encoded, End, StartOf, Lean, Upto, Total

\* The file is whole once every segment is in place and articles are lean.
LEMMA WholeThen ==
  ASSUME AssemblyInv, Lean, Len(assembled) = End, segsMarked = Segments, assembling # "returned"
  PROVE  assembled = WholeFile
<1>1. Encoded = Decoded /\ assembled \in Seq(Bytes) /\ \A s \in Segments : InPlace(assembled, s)
  BY SizesKnown DEF AssemblyInv
<1>2. End = Upto(Decoded, SegmentCount) /\ \A s \in Segments : StartOf(s) = Upto(Decoded, s - 1)
  BY <1>1 DEF End, StartOf
<1> QED
  BY <1>1, <1>2, Recognized DEF InPlace

\* A new file has its full length and nothing of any segment; one that is there stays.
LEMMA OpenFileStep == ASSUME AssemblyInv, OpenOutFile PROVE AssemblyInv'
<1> DEFINE fresh == Truncated(<< >>, End)
<1>1. /\ overhead' = overhead /\ segsMarked' = segsMarked /\ inWork' = inWork
      /\ assembling \in {"off", "failed"} /\ inWork = {} /\ overhead \in [Segments -> Nat]
      /\ segsMarked \subseteq Segments /\ taken' = segsMarked
      /\ assembling' = IF segsMarked = Segments THEN "returned" ELSE "working"
  BY DEF OpenOutFile, AssemblyInv
<1>2. /\ End \in Nat /\ Segments # {}
      /\ \A segs : EncodedBytes(segs) = Total(Encoded, segs)
      /\ EncodedBytes(Segments) = End /\ Total(Encoded, segsMarked) \in Nat
  <2>1. SegmentCount \in Segments
    BY AssemblyAssumption DEF Segments
  <2>2. Encoded \in [Segments -> Nat]
    BY <1>1, SizesKnown
  <2> QED
    BY <1>1, <2>1, <2>2, SizesKnown, NoOverlap, TotalType
<1>3. downloaded' = Total(Encoded, segsMarked) /\ assembled' = IF segsMarked # {} THEN assembled ELSE fresh
  BY <1>2 DEF OpenOutFile
<1>4. fresh \in Seq(Bytes) /\ Len(fresh) = End
  <2>1. << >> \in Seq(Bytes)
    OBVIOUS
  <2> QED
    BY <1>2, <2>1, Cut
<1>5. segsMarked # {} => assembling = "failed" /\ Len(assembled) = End /\ assembled \in Seq(Bytes)
  BY <1>1 DEF AssemblyInv
<1>6. assembled' \in Seq(Bytes) /\ Len(assembled') = End
  BY <1>3, <1>4, <1>5
<1>7. \A s \in segsMarked : InPlace(assembled, s) /\ assembled' = assembled
  BY <1>1, <1>3 DEF AssemblyInv
<1>8. \A s \in segsMarked' : InPlace(assembled, s)'
  BY <1>1, <1>7, SameSizes DEF InPlace
<1>9. assembling' = "returned" /\ Lean => assembled' = WholeFile
  <2> SUFFICES ASSUME assembling' = "returned", Lean PROVE assembled' = WholeFile
    OBVIOUS
  <2>1. segsMarked = Segments /\ assembled' = assembled /\ Len(assembled) = End /\ assembling # "returned"
    BY <1>1, <1>2, <1>3, <1>5
  <2> QED
    BY <2>1, WholeThen
<1>10. WholeFile' = WholeFile
  BY DEF WholeFile
<1> HIDE DEF fresh
<1> QED
  BY <1>1, <1>2, <1>3, <1>6, <1>8, <1>9, <1>10, SameSizes DEF AssemblyInv

\* A segment is fetched, or the workers break: the file, its marks and places stay.
LEMMA NoWrite ==
  ASSUME AssemblyInv, UNCHANGED <<overhead, assembled, segsMarked, downloaded>>,
         inWork' \subseteq Segments, inWork' \cap segsMarked = {},
         \/ /\ assembling = "working" /\ assembling' = "working"
            /\ segsMarked \cup inWork' \subseteq taken'
         \/ /\ assembling = "working" /\ assembling' = "failed" /\ inWork' = {}
         \/ /\ assembling' = assembling /\ inWork' = inWork /\ taken' = taken
  PROVE  AssemblyInv'
<1>1. \A s \in segsMarked : InPlace(assembled, s)' <=> InPlace(assembled, s)
  BY SameSizes DEF InPlace
<1>2. WholeFile' = WholeFile
  BY DEF WholeFile
<1> QED
  BY <1>1, <1>2, SameSizes DEF AssemblyInv

\* What a worker writes is put in its place, and no marked segment is touched.
LEMMA WriteSegmentStep ==
  ASSUME AssemblyInv, NEW s \in Segments, WriteSegment(s)
  PROVE  AssemblyInv'
<1>1. /\ s \in inWork /\ inWork' = inWork \ {s} /\ segsMarked' = segsMarked \cup {s}
      /\ downloaded' = downloaded + Decoded[s] /\ assembled' = Over(assembled, Data(s), offsets[s])
      /\ overhead' = overhead /\ taken' = taken /\ assembling' = assembling
  BY DEF WriteSegment
<1>2. /\ assembling = "working" /\ s \notin segsMarked /\ assembled \in Seq(Bytes)
      /\ overhead \in [Segments -> Nat] /\ Len(assembled) = End /\ downloaded \in Nat
      /\ segsMarked \subseteq Segments /\ inWork \subseteq Segments
  BY <1>1 DEF AssemblyInv
<1>3. /\ StartOf(s) \in Nat /\ End \in Nat /\ StartOf(s) + Decoded[s] <= End
      /\ \A t \in Segments : t # s => \/ StartOf(s) + Decoded[s] <= StartOf(t)
                                      \/ StartOf(t) + Decoded[t] <= StartOf(s)
  BY <1>2, NoOverlap
<1>4. /\ Encoded \in [Segments -> Nat] /\ Decoded \in [Segments -> Nat] /\ offsets[s] = StartOf(s)
      /\ Lean => Encoded = Decoded
  BY <1>2, SizesKnown
<1>5. Data(s) \in Seq(Bytes) /\ Len(Data(s)) = Decoded[s] /\ \A k \in 1..Decoded[s] : Data(s)[k] = <<s, k>>
  BY DataIs
<1>6. /\ assembled' \in Seq(Bytes) /\ Len(assembled') = End
      /\ \A k \in 1..Decoded[s] : assembled'[StartOf(s) + k] = <<s, k>>
      /\ \A k \in 1..End : k <= StartOf(s) \/ k > StartOf(s) + Decoded[s] => assembled'[k] = assembled[k]
  <2> DEFINE d == Data(s)
             b == StartOf(s)
  <2>1. d \in Seq(Bytes) /\ b \in Nat /\ b + Len(d) <= Len(assembled) /\ Len(d) = Decoded[s]
    BY <1>2, <1>3, <1>5
  <2>2. assembled' = Over(assembled, d, b) /\ \A k \in 1..Decoded[s] : d[k] = <<s, k>>
    BY <1>1, <1>4, <1>5
  <2> HIDE DEF d, b
  <2>3. /\ assembled' \in Seq(Bytes) /\ Len(assembled') = Len(assembled)
        /\ \A k \in 1..Len(d) : assembled'[b + k] = d[k]
        /\ \A k \in 1..Len(assembled) : k <= b \/ k > b + Len(d) => assembled'[k] = assembled[k]
    BY <1>2, <2>1, <2>2, Written
  <2> QED
    BY <1>2, <2>1, <2>2, <2>3 DEF b
<1>7. ASSUME NEW t \in segsMarked' PROVE InPlace(assembled, t)'
  <2>1. CASE t = s
    BY <1>1, <1>6, <2>1, SameSizes DEF InPlace
  <2>2. CASE t # s
    <3>1. t \in segsMarked /\ t \in Segments /\ InPlace(assembled, t)
      BY <1>1, <1>2, <2>2 DEF AssemblyInv
    <3>2. StartOf(t) \in Nat /\ StartOf(t) + Decoded[t] <= End
      BY <1>2, <3>1, NoOverlap
    <3>3. ASSUME NEW k \in 1..Decoded[t] PROVE assembled'[StartOf(t) + k] = <<t, k>>
      <4> DEFINE b == StartOf(t)
                 c == StartOf(s)
      <4>1. b \in Nat /\ c \in Nat /\ Decoded[t] \in Nat /\ Decoded[s] \in Nat /\ b + Decoded[t] <= End
            /\ (c + Decoded[s] <= b \/ b + Decoded[t] <= c) /\ End \in Nat
        BY <1>3, <1>4, <2>2, <3>1, <3>2
      <4>2. assembled[b + k] = <<t, k>>
        BY <3>1 DEF InPlace
      <4>3. \A j \in 1..End : j <= c \/ j > c + Decoded[s] => assembled'[j] = assembled[j]
        BY <1>6
      <4> HIDE DEF b, c
      <4>4. b + k \in 1..End /\ (b + k <= c \/ b + k > c + Decoded[s])
        BY <4>1
      <4>5. assembled'[b + k] = <<t, k>>
        BY <4>2, <4>3, <4>4
      <4> QED
        BY <4>5 DEF b
    <3> QED
      BY <1>1, <3>3, SameSizes DEF InPlace
  <2> QED
    BY <2>1, <2>2
<1>8. Lean => downloaded' = Total(Encoded, segsMarked')
  <2> SUFFICES ASSUME Lean PROVE downloaded' = Total(Encoded, segsMarked')
    OBVIOUS
  <2>1. downloaded = Total(Encoded, segsMarked)
    BY <1>2 DEF AssemblyInv
  <2>2. Total(Encoded, segsMarked \cup {s}) = Total(Encoded, segsMarked) + Encoded[s]
    BY <1>2, <1>4, TotalAdds
  <2> QED
    BY <1>1, <1>4, <2>1, <2>2
<1>9. /\ downloaded' \in Nat /\ segsMarked' \subseteq Segments /\ inWork' \subseteq Segments
      /\ inWork' \cap segsMarked' = {} /\ segsMarked' \cup inWork' \subseteq taken'
  BY <1>1, <1>2, <1>4 DEF AssemblyInv
<1>10. (Lean <=> Lean') /\ Total(Encoded, segsMarked)' = Total(Encoded, segsMarked') /\ End' = End
  BY <1>1, SameSizes
<1> QED
  BY <1>1, <1>2, <1>6, <1>7, <1>8, <1>9, <1>10 DEF AssemblyInv

\* The file is cut to what was downloaded: nothing is lost if articles are lean.
LEMMA FinishStep == ASSUME AssemblyInv, FileFinished PROVE AssemblyInv'
<1>1. /\ assembling = "working" /\ segsMarked = Segments /\ assembling' = "returned"
      /\ assembled' = Truncated(assembled, downloaded)
      /\ UNCHANGED <<overhead, segsMarked, inWork, taken, downloaded>>
  BY DEF FileFinished
<1>2. /\ assembled \in Seq(Bytes) /\ downloaded \in Nat /\ Len(assembled) = End /\ inWork = {}
      /\ overhead \in [Segments -> Nat]
  BY <1>1 DEF AssemblyInv
<1>3. Lean => assembled' = WholeFile
  <2> SUFFICES ASSUME Lean PROVE assembled' = WholeFile
    OBVIOUS
  <2>1. downloaded = End
    <3>1. SegmentCount \in Nat /\ Segments = 1..SegmentCount
      BY AssemblyAssumption DEF Segments
    <3>2. downloaded = Total(Encoded, segsMarked)
      BY <1>1 DEF AssemblyInv
    <3> QED
      BY <1>1, <3>1, <3>2 DEF End, Upto
  <2>2. assembled' = assembled
    BY <1>1, <1>2, <2>1, Cut
  <2> QED
    BY <1>1, <1>2, <2>2, WholeThen
<1>4. assembled' \in Seq(Bytes)
  BY <1>1, <1>2, Cut
<1>5. WholeFile' = WholeFile
  BY DEF WholeFile
<1> QED
  BY <1>1, <1>2, <1>3, <1>4, <1>5, SameSizes DEF AssemblyInv

\* Every step keeps the marked segments in place.
LEMMA AssemblyStep == AssemblyInv /\ [AssemblyNext]_assemblyVars => AssemblyInv'
<1> SUFFICES ASSUME AssemblyInv, [AssemblyNext]_assemblyVars PROVE AssemblyInv'
  OBVIOUS
<1>1. CASE OpenOutFile
  BY <1>1, OpenFileStep
<1>2. CASE WorkersBreak
  BY <1>2, NoWrite DEF WorkersBreak
<1>3. CASE FileFinished
  BY <1>3, FinishStep
<1>4. ASSUME NEW s \in Segments, FetchSegment(s) PROVE AssemblyInv'
  <2>1. /\ assembling = "working" /\ assembling' = "working" /\ s \notin taken
        /\ taken' = taken \cup {s} /\ inWork' = inWork \cup {s}
        /\ UNCHANGED <<overhead, assembled, segsMarked, downloaded>>
    BY <1>4 DEF FetchSegment
  <2>2. segsMarked \cup inWork \subseteq taken /\ inWork \subseteq Segments /\ inWork \cap segsMarked = {}
    BY <2>1 DEF AssemblyInv
  <2>3. inWork' \subseteq Segments /\ inWork' \cap segsMarked = {} /\ segsMarked \cup inWork' \subseteq taken'
    BY <2>1, <2>2
  <2> QED
    BY <2>1, <2>3, NoWrite
<1>5. ASSUME NEW s \in Segments, WriteSegment(s) PROVE AssemblyInv'
  BY <1>5, WriteSegmentStep
<1>6. CASE UNCHANGED assemblyVars
  <2>1. /\ UNCHANGED <<overhead, assembled, segsMarked, downloaded>>
        /\ assembling' = assembling /\ inWork' = inWork /\ taken' = taken
    BY <1>6 DEF assemblyVars
  <2>2. inWork' \subseteq Segments /\ inWork' \cap segsMarked = {}
    BY <2>1 DEF AssemblyInv
  <2> QED
    BY <2>1, <2>2, NoWrite
<1> QED
  BY <1>1, <1>2, <1>3, <1>4, <1>5, <1>6 DEF AssemblyNext

\* Whatever the workers write, in whatever order, and however often a download breaks off
\* and is resumed: a marked segment is at its offset until the file is finished, and the
\* file is the posted one if articles are no longer than their data (downloader.go 78-295).
THEOREM MarkedInPlace == AssemblySpec => []MarkedIsInPlace
<1>1. AssemblyInv => MarkedIsInPlace
  <2> SUFFICES ASSUME AssemblyInv PROVE MarkedIsInPlace
    OBVIOUS
  <2>1. ASSUME assembling # "returned", NEW s \in segsMarked
        PROVE  SubSeq(assembled, offsets[s] + 1, offsets[s] + Decoded[s]) = Data(s)
    <3>1. s \in Segments /\ overhead \in [Segments -> Nat] /\ assembled \in Seq(Bytes)
          /\ InPlace(assembled, s) /\ Len(assembled) = End
      BY <2>1 DEF AssemblyInv
    <3>2. /\ StartOf(s) \in Nat /\ End \in Nat /\ StartOf(s) + Decoded[s] <= End /\ offsets[s] = StartOf(s)
          /\ Decoded[s] \in Nat
      BY <3>1, NoOverlap, SizesKnown
    <3>3. Data(s) \in Seq(Bytes) /\ Len(Data(s)) = Decoded[s] /\ \A k \in 1..Decoded[s] : Data(s)[k] = <<s, k>>
      BY <3>1, DataIs
    <3> DEFINE x == SubSeq(assembled, StartOf(s) + 1, StartOf(s) + Decoded[s])
    <3>4. x \in Seq(Bytes) /\ Len(x) = Decoded[s] /\ \A k \in 1..Decoded[s] : x[k] = <<s, k>>
      <4> DEFINE b == StartOf(s)
                 n == Decoded[s]
      <4>1. b \in Nat /\ n \in Nat /\ b + n <= Len(assembled)
        BY <3>1, <3>2
      <4>2. \A k \in 1..n : assembled[b + k] = <<s, k>>
        BY <3>1 DEF InPlace
      <4>3. \A k \in (b + 1)..(b + n) : assembled[k] \in Bytes
        BY <3>1, <4>1
      <4> HIDE DEF b, n
      <4> DEFINE y == SubSeq(assembled, b + 1, b + n)
      <4>4. y = [k \in 1..n |-> assembled[b + k]]
        BY <3>1, <4>1
      <4>5. \A k \in 1..n : assembled[b + k] \in Bytes
        BY <4>1, <4>3
      <4>6. y \in Seq(Bytes) /\ Len(y) = n /\ \A k \in 1..n : y[k] = <<s, k>>
        <5> HIDE DEF y
        <5>1. y \in [1..n -> Bytes] /\ \A k \in 1..n : y[k] = <<s, k>>
          BY <4>2, <4>4, <4>5
        <5>2. DOMAIN y = 1..n /\ y \in Seq(Bytes)
          BY <4>1, <5>1
        <5> QED
          BY <4>1, <5>1, <5>2
      <4> QED
        BY <4>6 DEF b, n
    <3> HIDE DEF x
    <3>5. x = Data(s)
      <4> DEFINE d == Data(s)
      <4>1. /\ d \in Seq(Bytes) /\ Len(x) = Len(d) /\ Len(x) = Decoded[s]
            /\ \A k \in 1..Decoded[s] : x[k] = d[k]
        BY <3>3, <3>4
      <4> HIDE DEF d
      <4>2. x = d
        BY <3>4, <4>1, SeqEqual
      <4> QED
        BY <4>2 DEF d
    <3> QED
      BY <3>2, <3>5 DEF x
  <2> QED
    BY <2>1 DEF AssemblyInv, MarkedIsInPlace, Lean
<1> QED
  BY <1>1, AssemblyInitInv, AssemblyStep, PTL DEF AssemblySpec

=============================================================================

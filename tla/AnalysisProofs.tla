---------------------------- MODULE AnalysisProofs ----------------------------
(***************************************************************************)
(* What an analysis leaves behind, for every file, preset, directory and   *)
(* number of runs in it: the frames that its evidence shows, the summary   *)
(* of a batch, what a comparison of its report may conclude, and what its   *)
(* report says of the file.                                                *)
(***************************************************************************)
EXTENDS Evidence, Batch, Comparison, Metadata, FiniteSetTheorems, WellFoundedInduction, TLAPS

(* Every file of the directory is of the rule and time its name gives and  *)
(* of no later run.                                                        *)
ThumbInv ==
  /\ grabRun \in Nat
  /\ thumbs \in [Names -> (Nat \X Starts \X BOOLEAN) \cup {NoFile}]
  /\ \A n \in Names : thumbs[n] # NoFile => thumbs[n][1] <= grabRun /\ thumbs[n][2] = n[2]

(* Between two grabs, a file of this run is that of a finding already      *)
(* looked at.                                                              *)
GrabInv ==
  grabStep = "grabbing" =>
    /\ found \in FindingLists
    /\ next \in Nat \ {0}
    /\ \A n \in Names : n \in rewritten \/ (thumbs[n] # NoFile /\ thumbs[n][1] = grabRun) =>
         \E k \in DOMAIN found : k < next /\ Eligible(found[k]) /\ FileName(found[k]) = n

(* A record is of a finding already looked at, and its hash is that of the *)
(* file now.                                                               *)
RecordInv ==
  \A r \in evidence :
    LET f == found[r.finding]
    IN /\ found \in FindingLists
       /\ r = [finding |-> r.finding, file |-> FileName(f), sha256 |-> thumbs[FileName(f)]]
       /\ r.finding \in DOMAIN found
       /\ grabStep = "grabbing" => r.finding < next
       /\ Eligible(f)
       /\ \/ r.sha256 = <<grabRun, f.start, TRUE>>
          \/ /\ r.file \notin rewritten
             /\ r.sha256[1] < grabRun /\ r.sha256[2] = f.start

EvidenceInv == ThumbInv /\ GrabInv /\ RecordInv

(* A finding that is grabbed has a name in the directory. *)
LEMMA NamesOfFindings ==
  ASSUME NEW list \in FindingLists, NEW k \in DOMAIN list, Eligible(list[k])
  PROVE  /\ FileName(list[k]) \in Names
         /\ FileName(list[k]) = <<list[k].rule, list[k].start>>
         /\ list[k].start \in Starts
         /\ Len(list) \in Nat /\ DOMAIN list = 1..Len(list)
<1> DEFINE Listed == [rule : RuleIds, status : STRING, video : BOOLEAN, start : Starts \cup {NoTime}]
<1>1. list \in Seq(Listed)
  BY EvidenceAssumption
<1> HIDE DEF Listed
<1>2. Len(list) \in Nat /\ DOMAIN list = 1..Len(list) /\ list[k] \in Listed
  BY <1>1
<1>3. list[k].start \in Starts /\ list[k].rule \in RuleIds
  BY <1>2 DEF Eligible, Listed
<1>4. QED
  BY <1>2, <1>3 DEF FileName, Names

(* No two findings of a run share a name. *)
LEMMA NamesAreUnique ==
  ASSUME NEW list \in FindingLists, NEW k \in DOMAIN list, NEW l \in DOMAIN list,
         Eligible(list[k]), FileName(list[k]) = FileName(list[l])
  PROVE  k = l
<1>1. list[k].rule = list[l].rule /\ list[k].start = list[l].start
  BY DEF FileName
<1>2. QED
  BY <1>1, EvidenceAssumption DEF Eligible

(* What a grab may do to the directory: nothing, or it writes this file. *)
LEMMA OneFileWritten ==
  ASSUME EvidenceInv, Grabbing, Eligible(found[next]), NEW w \in BOOLEAN,
         \/ thumbs' = thumbs
         \/ thumbs' = [thumbs EXCEPT ![ThisName] = Frame(w)],
         grabRun' = grabRun
  PROVE  /\ ThumbInv'
         /\ found \in FindingLists /\ next \in DOMAIN found /\ next \in Nat \ {0}
         /\ ThisName \in Names /\ ThisName = <<found[next].rule, found[next].start>>
         /\ \A n \in Names : n # ThisName => thumbs'[n] = thumbs[n]
         /\ ThisName \notin rewritten
         /\ thumbs[ThisName] # NoFile => thumbs[ThisName][1] < grabRun
<1>1. found \in FindingLists /\ next \in Nat \ {0} /\ next <= Len(found)
  BY DEF EvidenceInv, GrabInv, Grabbing
<1>2. found \in Seq([rule : RuleIds, status : STRING, video : BOOLEAN, start : Starts \cup {NoTime}])
  BY <1>1, EvidenceAssumption
<1>3. next \in DOMAIN found
  BY <1>1, <1>2
<1>4. /\ ThisName \in Names
      /\ ThisName = <<found[next].rule, found[next].start>>
      /\ found[next].start \in Starts
  BY <1>1, <1>3, NamesOfFindings DEF ThisName
<1>5. \A k \in DOMAIN found : FileName(found[k]) = ThisName => k = next
  BY <1>1, <1>3, NamesAreUnique DEF ThisName
<1>6. ~ (ThisName \in rewritten \/ (thumbs[ThisName] # NoFile /\ thumbs[ThisName][1] = grabRun))
  BY <1>1, <1>4, <1>5 DEF EvidenceInv, GrabInv, Grabbing
<1>7. thumbs[ThisName] # NoFile => thumbs[ThisName][1] < grabRun
  BY <1>4, <1>6 DEF EvidenceInv, ThumbInv
<1>8. Frame(w) \in Nat \X Starts \X BOOLEAN /\ Frame(w)[1] = grabRun /\ Frame(w)[2] = ThisName[2]
  BY <1>4 DEF Frame, EvidenceInv, ThumbInv
<1>9. ThumbInv'
  BY <1>4, <1>8 DEF EvidenceInv, ThumbInv
<1>10. \A n \in Names : n # ThisName => thumbs'[n] = thumbs[n]
  BY <1>4 DEF EvidenceInv, ThumbInv
<1>11. QED
  BY <1>1, <1>3, <1>4, <1>6, <1>7, <1>9, <1>10

(* After a grab, that finding accounts for the file it may have written.   *)
LEMMA NextFinding ==
  ASSUME GrabInv, found \in FindingLists, next \in DOMAIN found, next \in Nat \ {0},
         grabStep = "grabbing", Eligible(found[next]),
         \A n \in Names : n # ThisName => thumbs'[n] = thumbs[n],
         rewritten' \subseteq rewritten \cup {ThisName},
         next' = next + 1, UNCHANGED <<found, grabRun>>
  PROVE  GrabInv'
<1>1. ASSUME NEW n \in Names,
             n \in rewritten' \/ (thumbs'[n] # NoFile /\ thumbs'[n][1] = grabRun)
      PROVE  \E k \in DOMAIN found : k < next + 1 /\ Eligible(found[k]) /\ FileName(found[k]) = n
  <2>1. CASE n = ThisName
    BY <2>1 DEF ThisName
  <2>2. CASE n # ThisName
    <3>1. PICK k \in DOMAIN found : k < next /\ Eligible(found[k]) /\ FileName(found[k]) = n
      BY <1>1, <2>2 DEF GrabInv
    <3>2. k < next + 1
      BY <3>1, NamesOfFindings
    <3>3. QED
      BY <3>1, <3>2
  <2>3. QED
    BY <2>1, <2>2
<1>2. QED
  BY <1>1 DEF GrabInv

(* The records of the findings before it keep their files. *)
LEMMA RecordsStay ==
  ASSUME RecordInv, found \in FindingLists, next \in DOMAIN found, next \in Nat \ {0},
         grabStep = "grabbing", Eligible(found[next]),
         \A n \in Names : n # ThisName => thumbs'[n] = thumbs[n],
         NEW r \in evidence
  PROVE  /\ r.file = FileName(found[r.finding]) /\ r.file # ThisName
         /\ r.sha256 = thumbs[r.file] /\ thumbs'[r.file] = thumbs[r.file]
         /\ r.finding < next + 1
<1>1. /\ r = [finding |-> r.finding, file |-> FileName(found[r.finding]),
              sha256 |-> thumbs[FileName(found[r.finding])]]
      /\ r.finding \in DOMAIN found /\ r.finding < next /\ Eligible(found[r.finding])
  BY DEF RecordInv
<1>2. FileName(found[r.finding]) \in Names /\ r.finding \in Nat
  BY <1>1, NamesOfFindings
<1>3. FileName(found[r.finding]) # ThisName
  BY <1>1, <1>2, NamesAreUnique DEF ThisName
<1>4. r.file = FileName(found[r.finding]) /\ r.sha256 = thumbs[FileName(found[r.finding])]
  BY <1>1
<1>5. QED
  BY <1>1, <1>2, <1>3, <1>4

(* The frame of a finding is recorded as what the directory then holds.    *)
LEMMA GrabKeeps ==
  ASSUME EvidenceInv, Grab
  PROVE  EvidenceInv'
<1> DEFINE n == ThisName
           new == [finding |-> next, file |-> n, sha256 |-> thumbs'[n]]
<1>1. /\ Grabbing /\ Eligible(found[next]) /\ next' = next + 1
      /\ UNCHANGED <<grabStep, found, grabRun>>
      /\ \/ thumbs' = [thumbs EXCEPT ![n] = Frame(TRUE)] /\ rewritten' = rewritten \cup {n}
         \/ UNCHANGED <<thumbs, rewritten>>
      /\ evidence' = IF thumbs'[n] = NoFile THEN evidence ELSE evidence \cup {new}
  BY DEF Grab
<1>2. /\ ThumbInv'
      /\ found \in FindingLists /\ next \in DOMAIN found /\ next \in Nat \ {0}
      /\ n \in Names /\ n = <<found[next].rule, found[next].start>>
      /\ \A m \in Names : m # n => thumbs'[m] = thumbs[m]
      /\ n \notin rewritten
      /\ thumbs[n] # NoFile => thumbs[n][1] < grabRun
  BY <1>1, OneFileWritten
<1>3. grabStep = "grabbing"
  BY <1>1 DEF Grabbing
<1>4. GrabInv'
  BY <1>1, <1>2, <1>3, NextFinding DEF EvidenceInv
<1>5. ASSUME NEW r \in evidence
      PROVE  LET f == found[r.finding]
             IN /\ r = [finding |-> r.finding, file |-> FileName(f), sha256 |-> thumbs'[FileName(f)]]
                /\ r.finding \in DOMAIN found
                /\ r.finding < next'
                /\ Eligible(f)
                /\ \/ r.sha256 = <<grabRun, f.start, TRUE>>
                   \/ /\ r.file \notin rewritten'
                      /\ r.sha256[1] < grabRun /\ r.sha256[2] = f.start
  <2>1. /\ r.file = FileName(found[r.finding]) /\ r.file # n
        /\ r.sha256 = thumbs[r.file] /\ thumbs'[r.file] = thumbs[r.file]
        /\ r.finding < next + 1
    BY <1>1, <1>2, <1>3, RecordsStay DEF EvidenceInv
  <2>2. r.file \notin rewritten => r.file \notin rewritten'
    BY <1>1, <2>1
  <2>3. QED
    BY <1>1, <2>1, <2>2 DEF EvidenceInv, RecordInv
<1>6. ASSUME thumbs'[n] # NoFile
      PROVE  \/ thumbs'[n] = <<grabRun, found[next].start, TRUE>>
             \/ /\ n \notin rewritten'
                /\ thumbs'[n][1] < grabRun /\ thumbs'[n][2] = found[next].start
  <2>1. CASE thumbs' = [thumbs EXCEPT ![n] = Frame(TRUE)]
    BY <1>2, <2>1 DEF EvidenceInv, ThumbInv, Frame
  <2>2. CASE UNCHANGED <<thumbs, rewritten>>
    <3>1. thumbs[n] # NoFile /\ thumbs[n][2] = n[2] /\ n[2] = found[next].start
      BY <1>2, <1>6, <2>2 DEF EvidenceInv, ThumbInv
    <3>2. QED
      BY <1>2, <2>2, <3>1
  <2>3. QED
    BY <1>1, <2>1, <2>2
<1>7. RecordInv'
  <2> SUFFICES ASSUME NEW r \in evidence'
               PROVE  LET f == found[r.finding]
                      IN /\ r = [finding |-> r.finding, file |-> FileName(f), sha256 |-> thumbs'[FileName(f)]]
                         /\ r.finding \in DOMAIN found
                         /\ r.finding < next'
                         /\ Eligible(f)
                         /\ \/ r.sha256 = <<grabRun, f.start, TRUE>>
                            \/ /\ r.file \notin rewritten'
                               /\ r.sha256[1] < grabRun /\ r.sha256[2] = f.start
    BY <1>1, <1>2 DEF RecordInv
  <2>1. CASE r \in evidence
    BY <1>5, <2>1
  <2>2. CASE r = new /\ thumbs'[n] # NoFile
    <3>1. r.finding = next /\ r.file = n /\ r.sha256 = thumbs'[n] /\ n = FileName(found[next])
      BY <2>2 DEF ThisName
    <3>2. r.finding \in DOMAIN found /\ r.finding < next' /\ Eligible(found[r.finding])
      BY <1>1, <1>2, <3>1
    <3>3. FileName(found[r.finding]) = n /\ found[r.finding].start = found[next].start
      BY <3>1
    <3>4. r = [finding |-> r.finding, file |-> FileName(found[r.finding]),
               sha256 |-> thumbs'[FileName(found[r.finding])]]
      BY <2>2, <3>1, <3>3
    <3>5. \/ r.sha256 = <<grabRun, found[r.finding].start, TRUE>>
          \/ /\ r.file \notin rewritten'
             /\ r.sha256[1] < grabRun /\ r.sha256[2] = found[r.finding].start
      BY <1>6, <2>2, <3>1, <3>3
    <3>6. QED
      BY <3>2, <3>4, <3>5
  <2>3. QED
    BY <1>1, <2>1, <2>2
<1>8. QED
  BY <1>2, <1>4, <1>7 DEF EvidenceInv

(* A grab that fails may leave a part of the file, and no record. *)
LEMMA GrabFailsKeeps ==
  ASSUME EvidenceInv, GrabFails
  PROVE  EvidenceInv'
<1> DEFINE n == ThisName
<1>1. /\ Grabbing /\ Eligible(found[next]) /\ next' = next + 1
      /\ UNCHANGED <<grabStep, found, evidence, rewritten, grabRun>>
      /\ thumbs' = thumbs \/ thumbs' = [thumbs EXCEPT ![n] = Frame(FALSE)]
  BY DEF GrabFails
<1>2. /\ ThumbInv'
      /\ found \in FindingLists /\ next \in DOMAIN found /\ next \in Nat \ {0}
      /\ \A m \in Names : m # n => thumbs'[m] = thumbs[m]
  BY <1>1, OneFileWritten
<1>3. grabStep = "grabbing"
  BY <1>1 DEF Grabbing
<1>4. GrabInv'
  BY <1>1, <1>2, <1>3, NextFinding DEF EvidenceInv
<1>5. \A r \in evidence :
        /\ r.file = FileName(found[r.finding])
        /\ r.sha256 = thumbs[r.file] /\ thumbs'[r.file] = thumbs[r.file]
        /\ r.finding < next + 1
  BY <1>1, <1>2, <1>3, RecordsStay DEF EvidenceInv
<1>6. RecordInv'
  BY <1>1, <1>5 DEF EvidenceInv, RecordInv
<1>7. QED
  BY <1>2, <1>4, <1>6 DEF EvidenceInv

(* Every step of the analyses in a directory. *)
LEMMA EvidenceStep ==
  ASSUME EvidenceInv, [EvidenceNext]_evidenceVars
  PROVE  EvidenceInv'
<1>1. CASE GenerateThumbnails
  <2>1. /\ found' \in FindingLists /\ next' = 1 /\ evidence' = {} /\ rewritten' = {}
        /\ grabRun' = grabRun + 1 /\ thumbs' = thumbs
    BY <1>1 DEF GenerateThumbnails
  <2>2. \A m \in Names : thumbs[m] # NoFile => thumbs[m][1] <= grabRun /\ thumbs[m][1] \in Nat
    BY DEF EvidenceInv, ThumbInv
  <2>3. ThumbInv'
    BY <2>1, <2>2 DEF EvidenceInv, ThumbInv
  <2>4. grabRun \in Nat
    BY DEF EvidenceInv, ThumbInv
  <2>5. \A m \in Names : ~ (m \in rewritten' \/ (thumbs'[m] # NoFile /\ thumbs'[m][1] = grabRun'))
    BY <2>1, <2>2, <2>4
  <2>6. GrabInv' /\ RecordInv'
    BY <2>1, <2>5 DEF GrabInv, RecordInv
  <2>7. QED
    BY <2>3, <2>6 DEF EvidenceInv
<1>2. CASE Skip
  <2>1. /\ grabStep = "grabbing" /\ next' = next + 1
        /\ UNCHANGED <<grabStep, found, evidence, thumbs, rewritten, grabRun>>
    BY <1>2 DEF Skip, Grabbing
  <2>2. found \in FindingLists /\ next \in Nat
    BY <2>1 DEF EvidenceInv, GrabInv
  <2>3. DOMAIN found \subseteq Nat
    <3>1. found \in Seq([rule : RuleIds, status : STRING, video : BOOLEAN, start : Starts \cup {NoTime}])
      BY <2>2, EvidenceAssumption
    <3>2. QED
      BY <3>1
  <2>4. \A k \in DOMAIN found : k < next => k < next + 1
    BY <2>2, <2>3
  <2>5. ThumbInv'
    BY <2>1 DEF EvidenceInv, ThumbInv
  <2>6. GrabInv'
    BY <2>1, <2>2, <2>4 DEF EvidenceInv, GrabInv
  <2>7. RecordInv'
    <3>1. \A r \in evidence : r.finding < next + 1
      BY <2>1, <2>4 DEF EvidenceInv, RecordInv
    <3>2. QED
      BY <2>1, <3>1 DEF EvidenceInv, RecordInv
  <2>8. QED
    BY <2>5, <2>6, <2>7 DEF EvidenceInv
<1>3. CASE Grab
  BY <1>3, GrabKeeps
<1>4. CASE GrabFails
  BY <1>4, GrabFailsKeeps
<1>5. CASE GrabRaises
  <2>1. /\ Grabbing /\ Eligible(found[next]) /\ grabStep' = "raised" /\ evidence' = {}
        /\ thumbs' = thumbs \/ thumbs' = [thumbs EXCEPT ![ThisName] = Frame(TRUE)]
        /\ grabRun' = grabRun
    BY <1>5 DEF GrabRaises
  <2>2. ThumbInv'
    BY <2>1, OneFileWritten
  <2>3. GrabInv' /\ RecordInv'
    BY <2>1 DEF GrabInv, RecordInv
  <2>4. QED
    BY <2>2, <2>3 DEF EvidenceInv
<1>6. CASE Link
  BY <1>6 DEF Link, EvidenceInv, ThumbInv, GrabInv, RecordInv
<1>7. CASE UNCHANGED evidenceVars
  BY <1>7 DEF evidenceVars, EvidenceInv, ThumbInv, GrabInv, RecordInv
<1>8. QED
  BY <1>1, <1>2, <1>3, <1>4, <1>5, <1>6, <1>7 DEF EvidenceNext

(* For every preset, list of findings and directory, however many runs have *)
(* used it, failed in it or been killed in it: the frame of a record is the *)
(* one of its finding, of this run or of an earlier one at the same rule   *)
(* and time (thumbnails.py:62-118).                                        *)
THEOREM EvidenceCorrect == EvidenceSpec => []EvidenceShowsItsFinding
<1>1. EvidenceInit => EvidenceInv
  BY DEF EvidenceInit, EvidenceInv, ThumbInv, GrabInv, RecordInv
<1>2. EvidenceInv /\ [EvidenceNext]_evidenceVars => EvidenceInv'
  BY EvidenceStep
<1>3. EvidenceInv => EvidenceShowsItsFinding
  <2> SUFFICES ASSUME EvidenceInv, NEW r \in evidence
               PROVE  LET f == found[r.finding]
                      IN /\ Eligible(f)
                         /\ \A s \in evidence : s.file = r.file => s = r
                         /\ thumbs[r.file] = r.sha256
                         /\ \/ r.sha256 = <<grabRun, f.start, TRUE>>
                            \/ /\ r.file \notin rewritten
                               /\ r.sha256[1] < grabRun /\ r.sha256[2] = f.start
    BY DEF EvidenceShowsItsFinding
  <2>1. \A s \in evidence :
          /\ found \in FindingLists /\ s.finding \in DOMAIN found /\ Eligible(found[s.finding])
          /\ s = [finding |-> s.finding, file |-> FileName(found[s.finding]),
                  sha256 |-> thumbs[FileName(found[s.finding])]]
    BY DEF EvidenceInv, RecordInv
  <2>2. \A s \in evidence : s.file = FileName(found[s.finding])
                            /\ s.sha256 = thumbs[FileName(found[s.finding])]
    BY <2>1
  <2>3. \A s \in evidence : s.file = r.file => s.finding = r.finding
    BY <2>1, <2>2, NamesAreUnique
  <2>4. \A s \in evidence : s.file = r.file => s = r
    BY <2>1, <2>3
  <2>5. QED
    BY <2>1, <2>2, <2>4 DEF EvidenceInv, RecordInv
<1>4. QED
  BY <1>1, <1>2, <1>3, PTL DEF EvidenceSpec

-----------------------------------------------------------------------------
(*                                 Batch                                   *)
-----------------------------------------------------------------------------
ItemSet == [file : MediaNames, status : Statuses, cites : BOOLEAN]
InTodo == {todo[k] : k \in DOMAIN todo}
Cited(i, files, n) == IF i.cites THEN files[i.file] = [run |-> n, status |-> i.status] ELSE i.status = "ERROR"

(* While a batch runs, its items and the files that are left are, without   *)
(* repetition, the files it found, and the items tell of the reports.      *)
BusyInv ==
  Busy =>
    /\ items \in Seq(ItemSet) /\ todo \in Seq(MediaNames)
    /\ items # <<>> \/ todo # <<>>
    /\ \A i, j \in DOMAIN todo : todo[i] = todo[j] => i = j
    /\ Files(items) \cap InTodo = {}
    /\ Files(items) \cup InTodo = chosen
    /\ Len(items) + Len(todo) = Cardinality(chosen)
    /\ \A k \in DOMAIN items : Cited(items[k], reports, run)

BatchInv ==
  /\ run \in Nat
  /\ reports = [f \in MediaNames |-> reports[f]]
  /\ BusyInv
  /\ SummaryMatchesReports

(* How many of the set come before. *)
CountBelow(S, f) == Cardinality({g \in S : g < f})

(* The files of a set have the numbers below their count, each of them once. *)
LEMMA BeforeIsOneToOne ==
  ASSUME NEW S \in SUBSET MediaNames
  PROVE  /\ IsFiniteSet(S) /\ Cardinality(S) \in Nat
         /\ \A f \in S : CountBelow(S, f) \in 0..(Cardinality(S) - 1)
         /\ \A f, g \in S : CountBelow(S, f) = CountBelow(S, g) => f = g
         /\ \A k \in 1..Cardinality(S) : \E f \in S : CountBelow(S, f) = k - 1
<1> DEFINE n == Cardinality(S)
           place == [f \in S |-> CountBelow(S, f) + 1]
<1>1. IsFiniteSet(S) /\ n \in Nat
  BY BatchAssumption, FS_Subset, FS_CardinalityType
<1>2. ASSUME NEW f \in S
      PROVE  CountBelow(S, f) \in 0..(n - 1)
  <2> DEFINE B == {g \in S : g < f}
  <2>1. B \in SUBSET S /\ B # S
    BY BatchAssumption
  <2>2. IsFiniteSet(B) /\ Cardinality(B) <= n /\ Cardinality(B) # n
    BY <1>1, <2>1, FS_Subset
  <2>3. Cardinality(B) \in Nat
    BY <2>2, FS_CardinalityType
  <2>4. Cardinality(B) \in 0..(n - 1)
    BY <1>1, <2>2, <2>3
  <2>5. QED
    BY <2>4 DEF CountBelow
<1>3. ASSUME NEW f \in S, NEW g \in S, f < g
      PROVE  CountBelow(S, f) < CountBelow(S, g)
  <2> DEFINE B == {h \in S : h < f}
             C == {h \in S : h < g}
  <2>1. B \in SUBSET C /\ B # C /\ C \in SUBSET S
    <3>1. f \in C /\ f \notin B /\ \A h \in B : h \in C
      BY <1>3, BatchAssumption
    <3>2. QED
      BY <3>1
  <2>2. IsFiniteSet(C) /\ Cardinality(B) <= Cardinality(C) /\ Cardinality(B) # Cardinality(C)
    BY <1>1, <2>1, FS_Subset
  <2>3. Cardinality(B) \in Nat /\ Cardinality(C) \in Nat
    BY <2>1, <2>2, FS_Subset, FS_CardinalityType
  <2>4. Cardinality(B) < Cardinality(C)
    BY <2>2, <2>3
  <2>5. QED
    BY <2>4 DEF CountBelow
<1>4. ASSUME NEW f \in S, NEW g \in S, CountBelow(S, f) = CountBelow(S, g) PROVE f = g
  <2>1. f \in Nat /\ g \in Nat
    BY BatchAssumption
  <2>2. CountBelow(S, f) \in Int
    BY <1>1, <1>2
  <2>3. ~ (f < g) /\ ~ (g < f)
    BY <1>3, <1>4, <2>2
  <2>4. QED
    BY <2>1, <2>3
<1>5. place \in [S -> 1..n]
  BY <1>1, <1>2
<1>6. \A f, g \in S : place[f] = place[g] => f = g
  BY <1>1, <1>2, <1>4
<1>7. place \in Injection(S, 1..n)
  BY <1>5, <1>6 DEF Injection, IsInjective
<1>8. IsFiniteSet(1..n) /\ Cardinality(1..n) = n
  BY <1>1, FS_Interval
<1>9. place \in Surjection(S, 1..n)
  BY <1>1, <1>7, <1>8, FS_Injection
<1>10. ASSUME NEW k \in 1..n PROVE \E f \in S : CountBelow(S, f) = k - 1
  <2>1. PICK f \in S : place[f] = k
    BY <1>9 DEF Surjection
  <2>2. QED
    BY <1>1, <1>2, <2>1
<1>11. QED
  BY <1>1, <1>2, <1>4, <1>10

(* The order of the files is one of all of them, each once. *)
LEMMA SortedIsAll ==
  ASSUME NEW S \in SUBSET MediaNames
  PROVE  /\ Sorted(S) \in Seq(S) /\ Len(Sorted(S)) = Cardinality(S)
         /\ \A i, j \in DOMAIN Sorted(S) : Sorted(S)[i] = Sorted(S)[j] => i = j
         /\ {Sorted(S)[k] : k \in DOMAIN Sorted(S)} = S
<1> DEFINE n == Cardinality(S)
           q == Sorted(S)
<1>1. /\ n \in Nat
      /\ \A f \in S : CountBelow(S, f) \in 0..(n - 1)
      /\ \A f, g \in S : CountBelow(S, f) = CountBelow(S, g) => f = g
      /\ \A k \in 1..n : \E f \in S : CountBelow(S, f) = k - 1
  BY BeforeIsOneToOne
<1>2. q = [k \in 1..n |-> CHOOSE f \in S : CountBelow(S, f) = k - 1]
  BY DEF Sorted, CountBelow
<1>3. ASSUME NEW k \in 1..n PROVE q[k] \in S /\ CountBelow(S, q[k]) = k - 1
  <2>1. q[k] = CHOOSE f \in S : CountBelow(S, f) = k - 1
    BY <1>2
  <2>2. \E f \in S : CountBelow(S, f) = k - 1
    BY <1>1
  <2> HIDE DEF q
  <2>3. QED
    BY <2>1, <2>2
<1> HIDE DEF q
<1>4. q \in [1..n -> S]
  BY <1>2, <1>3
<1>5. q \in Seq(S) /\ Len(q) = n /\ DOMAIN q = 1..n
  BY <1>1, <1>4
<1>6. ASSUME NEW i \in 1..n, NEW j \in 1..n, q[i] = q[j] PROVE i = j
  <2>1. CountBelow(S, q[i]) = i - 1 /\ CountBelow(S, q[j]) = j - 1
    BY <1>3
  <2>2. QED
    BY <1>1, <1>6, <2>1
<1>7. ASSUME NEW f \in S PROVE \E k \in 1..n : q[k] = f
  <2> DEFINE k == CountBelow(S, f) + 1
  <2>1. k \in 1..n /\ k - 1 = CountBelow(S, f)
    BY <1>1
  <2>2. q[k] \in S /\ CountBelow(S, q[k]) = CountBelow(S, f)
    BY <1>3, <2>1
  <2>3. QED
    BY <1>1, <2>1, <2>2
<1>8. {q[k] : k \in DOMAIN q} = S
  BY <1>4, <1>5, <1>7
<1>9. QED
  BY <1>5, <1>6, <1>8 DEF q

(* The verdict of a batch is that of an item, and none is worse. *)
LEMMA WorstIsWorst ==
  ASSUME NEW list \in Seq(ItemSet), list # <<>>
  PROVE  /\ Worst(list) \in Statuses
         /\ \A k \in DOMAIN list : Rank[list[k].status] <= Rank[Worst(list)]
<1> DEFINE In(s) == \E k \in DOMAIN list : list[k].status = s
           Of(s) == In(s) /\ \A k \in DOMAIN list : Rank[list[k].status] <= Rank[s]
<1>1. \A k \in DOMAIN list : list[k].status \in Statuses
  <2>1. \A k \in DOMAIN list : list[k] \in ItemSet
    OBVIOUS
  <2>2. QED
    BY <2>1 DEF ItemSet
<1>2. /\ Rank["PASS"] = 0 /\ Rank["WARNING"] = 1 /\ Rank["FAIL"] = 2 /\ Rank["ERROR"] = 3
  BY DEF Rank, Statuses
<1>3. 1 \in DOMAIN list
  OBVIOUS
<1>4. \E s \in Statuses : Of(s)
  <2>1. CASE In("ERROR")
    BY <1>1, <1>2, <2>1 DEF Statuses
  <2>2. CASE ~ In("ERROR") /\ In("FAIL")
    BY <1>1, <1>2, <2>2 DEF Statuses
  <2>3. CASE ~ In("ERROR") /\ ~ In("FAIL") /\ In("WARNING")
    BY <1>1, <1>2, <2>3 DEF Statuses
  <2>4. CASE ~ In("ERROR") /\ ~ In("FAIL") /\ ~ In("WARNING")
    BY <1>1, <1>2, <1>3, <2>4 DEF Statuses
  <2>5. QED
    BY <2>1, <2>2, <2>3, <2>4
<1>5. Worst(list) = CHOOSE s \in Statuses : Of(s)
  BY DEF Worst
<1> HIDE DEF Of
<1>6. Worst(list) \in Statuses /\ Of(Worst(list))
  BY <1>4, <1>5
<1>7. QED
  BY <1>6 DEF Of

(* A command that ends otherwise than with the codes of a whole batch.      *)
LEMMA OtherEnd ==
  ASSUME BatchInv, run' \in Nat, UNCHANGED batchFile,
         reports' = [f \in MediaNames |-> reports'[f]],
         ~ Busy',
         command' # "batch" \/ exitCode' \notin {0, 2, 3},
         command' \in {"analyze", "batch"} /\ exitCode' = 0 => outcome' = "PASS"
  PROVE  BatchInv'
BY DEF BatchInv, BusyInv, SummaryMatchesReports

(* One analysis outside a batch, whatever becomes of it. *)
LEMMA AnalyzeKeeps ==
  ASSUME BatchInv, NEW f \in MediaNames, NEW kind \in Kinds, NEW s \in Statuses, Analyze(f, kind, s)
  PROVE  BatchInv'
<1>1. run' \in Nat /\ command' = "analyze" /\ batchFile' = batchFile
  BY DEF Analyze, BatchInv
<1>2. reports' = [g \in MediaNames |-> reports'[g]]
  BY DEF Analyze, BatchInv, RunAnalysis, PutReport
<1>3. exitCode' = 0 => outcome' = "PASS"
  <2>1. CASE kind = "result"
    BY <2>1 DEF Analyze, ExitWith, ExitOf, Statuses
  <2>2. CASE kind # "result"
    <3>1. kind \in {"no_input", "bad_preset", "qc_error", "exception"}
      BY <2>2 DEF Kinds
    <3>2. ExitOf["ERROR"] = 3
      BY DEF ExitOf, Statuses
    <3>3. exitCode' \in {InvalidInput, InvalidConfiguration, ExitOf["ERROR"], Uncaught}
      BY <3>1 DEF Analyze, ExitWith
    <3>4. QED
      BY <3>2, <3>3 DEF InvalidInput, InvalidConfiguration, Uncaught
  <2>3. QED
    BY <2>1, <2>2
<1>4. QED
  BY <1>1, <1>2, <1>3, OtherEnd DEF Busy

(* A batch starts with all the chosen files to do and no item. *)
LEMMA BeginBatchKeeps ==
  ASSUME BatchInv, NEW S \in SUBSET MediaNames, BeginBatch(S)
  PROVE  BatchInv'
<1>1. /\ run' \in Nat /\ command' = "batch" /\ batchFile' = batchFile
      /\ reports' = [g \in MediaNames |-> reports'[g]]
      /\ exitCode' = IF S = {} THEN InvalidInput ELSE None
      /\ todo' = Sorted(S) /\ chosen' = S /\ items' = <<>>
  BY DEF BeginBatch, BatchInv, ExitWith
<1>2. exitCode' \notin {0, 2, 3}
  BY <1>1, BatchAssumption DEF InvalidInput
<1>3. SummaryMatchesReports'
  BY <1>1, <1>2 DEF BatchInv, SummaryMatchesReports
<1>4. BusyInv'
  <2> SUFFICES ASSUME Busy' PROVE BusyInv'
    BY DEF BusyInv
  <2>1. S # {}
    BY <1>1, BatchAssumption DEF Busy, InvalidInput
  <2>2. /\ todo' \in Seq(S) /\ Len(todo') = Cardinality(S)
        /\ \A i, j \in DOMAIN todo' : todo'[i] = todo'[j] => i = j
        /\ InTodo' = S
    BY <1>1, SortedIsAll DEF InTodo
  <2>3. todo' \in Seq(MediaNames) /\ todo' # <<>>
    BY <2>1, <2>2 DEF InTodo
  <2>4. /\ items' \in Seq(ItemSet) /\ Files(items') = {} /\ Len(items') = 0 /\ DOMAIN items' = {}
    BY <1>1 DEF Files
  <2>5. Cardinality(S) \in Nat
    BY BeforeIsOneToOne
  <2>6. QED
    BY <1>1, <2>2, <2>3, <2>4, <2>5 DEF BusyInv
<1>5. QED
  BY <1>1, <1>3, <1>4 DEF BatchInv

(* The next item is of the first file that is left, and tells of its report. *)
LEMMA AnalyzeItemKeeps ==
  ASSUME BatchInv, NEW kind \in Kinds, NEW s \in Statuses, AnalyzeItem(kind, s)
  PROVE  BatchInv'
<1>1. /\ Busy /\ todo # <<>> /\ RunAnalysis(Head(todo), kind, s, run)
      /\ UNCHANGED <<command, chosen, batchFile, run>>
  BY DEF AnalyzeItem
<1>2. /\ run' \in Nat /\ reports' = [g \in MediaNames |-> reports'[g]]
      /\ \A g \in MediaNames : g # Head(todo) => reports'[g] = reports[g]
  BY <1>1 DEF BatchInv, RunAnalysis, PutReport
<1>3. CASE kind \in {"bad_preset", "exception"}
  <2>1. exitCode' \in {1, 4}
    BY <1>3 DEF AnalyzeItem, ExitWith, InvalidConfiguration, Uncaught
  <2>2. QED
    BY <1>1, <1>2, <2>1, OtherEnd, BatchAssumption DEF Busy
<1>4. CASE kind \notin {"bad_preset", "exception"}
  <2> DEFINE i == Item(Head(todo), kind, s)
  <2>1. /\ items' = Append(items, i) /\ todo' = Tail(todo) /\ UNCHANGED <<exitCode, outcome>>
    BY <1>4 DEF AnalyzeItem
  <2>2. /\ items \in Seq(ItemSet) /\ todo \in Seq(MediaNames)
        /\ \A j, k \in DOMAIN todo : todo[j] = todo[k] => j = k
        /\ Files(items) \cap InTodo = {}
        /\ Files(items) \cup InTodo = chosen
        /\ Len(items) + Len(todo) = Cardinality(chosen)
        /\ \A k \in DOMAIN items : Cited(items[k], reports, run)
    BY <1>1 DEF BatchInv, BusyInv
  <2>3. /\ Head(todo) = todo[1] /\ 1 \in DOMAIN todo /\ Head(todo) \in MediaNames
        /\ Tail(todo) \in Seq(MediaNames) /\ Len(Tail(todo)) = Len(todo) - 1
        /\ \A k \in DOMAIN Tail(todo) : k + 1 \in DOMAIN todo /\ Tail(todo)[k] = todo[k + 1]
        /\ \A k \in DOMAIN todo : k # 1 => k - 1 \in DOMAIN Tail(todo) /\ Tail(todo)[k - 1] = todo[k]
    BY <1>1, <2>2
  <2>4. i \in ItemSet /\ i.file = Head(todo)
    BY <2>3 DEF Item, ItemSet, Statuses
  <2> HIDE DEF i
  <2>5. /\ items' \in Seq(ItemSet) /\ Len(items') = Len(items) + 1 /\ items' # <<>>
        /\ items'[Len(items) + 1] = i
        /\ \A k \in DOMAIN items : items'[k] = items[k]
        /\ DOMAIN items' = DOMAIN items \cup {Len(items) + 1}
    BY <2>1, <2>2, <2>4
  <2>6. Files(items') = Files(items) \cup {Head(todo)}
    BY <2>4, <2>5 DEF Files
  <2>7. InTodo = InTodo' \cup {Head(todo)}
    <3>1. ASSUME NEW f \in InTodo PROVE f = Head(todo) \/ f \in InTodo'
      <4>1. PICK k \in DOMAIN todo : f = todo[k]
        BY DEF InTodo
      <4>2. k # 1 => k - 1 \in DOMAIN Tail(todo) /\ Tail(todo)[k - 1] = todo[k]
        BY <2>3
      <4>3. QED
        BY <2>1, <2>3, <4>1, <4>2 DEF InTodo
    <3>2. ASSUME NEW f \in InTodo' PROVE f \in InTodo
      <4>1. PICK k \in DOMAIN Tail(todo) : f = Tail(todo)[k]
        BY <2>1 DEF InTodo
      <4>2. QED
        BY <2>3, <4>1 DEF InTodo
    <3>3. Head(todo) \in InTodo
      BY <2>3 DEF InTodo
    <3>4. QED
      BY <3>1, <3>2, <3>3
  <2>8. Head(todo) \notin InTodo'
    <3>1. ASSUME NEW k \in DOMAIN Tail(todo) PROVE Tail(todo)[k] # Head(todo)
      <4>1. k + 1 # 1 /\ k + 1 \in DOMAIN todo /\ Tail(todo)[k] = todo[k + 1]
        BY <2>3
      <4>2. QED
        BY <2>2, <2>3, <4>1
    <3>2. QED
      BY <2>1, <3>1 DEF InTodo
  <2>9. \A j, k \in DOMAIN todo' : todo'[j] = todo'[k] => j = k
    <3>1. ASSUME NEW j \in DOMAIN Tail(todo), NEW k \in DOMAIN Tail(todo), Tail(todo)[j] = Tail(todo)[k]
          PROVE  j = k
      <4>1. j + 1 = k + 1
        BY <2>2, <2>3, <3>1
      <4>2. QED
        BY <2>3, <4>1
    <3>2. QED
      BY <2>1, <3>1
  <2>10. Files(items') \cap InTodo' = {} /\ Files(items') \cup InTodo' = chosen'
    BY <1>1, <2>2, <2>6, <2>7, <2>8
  <2>11. Len(items') + Len(todo') = Cardinality(chosen')
    BY <1>1, <2>1, <2>2, <2>3, <2>5
  <2>12. Cited(i, reports', run')
    <3>1. CASE kind = "result"
      <4>1. reports' = [reports EXCEPT ![Head(todo)] = [run |-> run, status |-> s]]
        BY <1>1, <3>1 DEF RunAnalysis, PutReport
      <4>2. reports'[Head(todo)] = [run |-> run, status |-> s]
        BY <2>3, <4>1 DEF BatchInv
      <4>3. QED
        BY <1>1, <3>1, <4>2 DEF Cited, i, Item
    <3>2. CASE kind # "result"
      BY <3>2 DEF Cited, i, Item
    <3>3. QED
      BY <3>1, <3>2
  <2>13. \A k \in DOMAIN items : Cited(items'[k], reports', run')
    <3>1. ASSUME NEW k \in DOMAIN items
          PROVE  items[k].file \in MediaNames /\ items[k].file # Head(todo)
      <4>1. items[k] \in ItemSet
        BY <2>2
      <4>2. items[k].file \in Files(items)
        BY DEF Files
      <4>3. Head(todo) \in InTodo
        BY <2>7
      <4>4. QED
        BY <2>2, <4>1, <4>2, <4>3 DEF ItemSet
    <3>2. QED
      BY <1>1, <1>2, <2>2, <2>5, <3>1 DEF Cited
  <2>14. BusyInv'
    BY <2>1, <2>3, <2>5, <2>9, <2>10, <2>11, <2>12, <2>13 DEF BusyInv
  <2>15. SummaryMatchesReports'
    BY <1>1, <2>1, BatchAssumption DEF BatchInv, SummaryMatchesReports, Busy
  <2>16. QED
    BY <1>2, <2>14, <2>15 DEF BatchInv
<1>5. QED
  BY <1>3, <1>4

(* When it is opened, the summary is emptied. *)
LEMMA OpenSummaryKeeps ==
  ASSUME BatchInv, OpenSummary
  PROVE  BatchInv'
<1>1. Busy /\ UNCHANGED <<command, todo, chosen, items, reports, run>>
  BY DEF OpenSummary
<1>2. CASE ExitWith(Uncaught, "exception") /\ UNCHANGED batchFile
  BY <1>1, <1>2, OtherEnd, BatchAssumption DEF ExitWith, Uncaught, Busy, BatchInv
<1>3. CASE batchFile' = TornSummary(run) /\ UNCHANGED <<exitCode, outcome>>
  <2>1. batchFile'.status = "torn"
    BY <1>3 DEF TornSummary
  <2>2. SummaryMatchesReports'
    BY <1>1, <1>3, <2>1, BatchAssumption DEF SummaryMatchesReports, Busy
  <2>3. BusyInv'
    BY <1>1, <1>3 DEF BatchInv, BusyInv, Busy, InTodo
  <2>4. QED
    BY <1>1, <2>2, <2>3 DEF BatchInv
<1>4. QED
  BY <1>2, <1>3 DEF OpenSummary

(* The summary of a batch is written when it has an item for every file.   *)
LEMMA WriteSummaryKeeps ==
  ASSUME BatchInv, WriteSummary
  PROVE  BatchInv'
<1>1. Busy /\ todo = <<>> /\ UNCHANGED <<command, todo, chosen, items, reports, run>>
  BY DEF WriteSummary
<1>2. /\ items \in Seq(ItemSet) /\ items # <<>>
      /\ Files(items) = chosen /\ Len(items) = Cardinality(chosen)
      /\ \A k \in DOMAIN items : Cited(items[k], reports, run)
  <2>1. InTodo = {} /\ Len(todo) = 0
    BY <1>1 DEF InTodo
  <2>2. QED
    BY <1>1, <2>1 DEF BatchInv, BusyInv
<1>3. CASE ExitWith(Uncaught, "exception") /\ UNCHANGED batchFile
  BY <1>1, <1>3, OtherEnd, BatchAssumption DEF ExitWith, Uncaught, Busy, BatchInv
<1>4. CASE /\ batchFile' = [run |-> run, status |-> Worst(items), items |-> items]
           /\ ExitWith(ExitOf[Worst(items)], Worst(items))
  <2>1. /\ Worst(items) \in Statuses
        /\ \A k \in DOMAIN items : Rank[items[k].status] <= Rank[Worst(items)]
    BY <1>2, WorstIsWorst
  <2>2. /\ batchFile'.run = run' /\ batchFile'.status = Worst(items) /\ batchFile'.items = items
        /\ exitCode' = ExitOf[Worst(items)] /\ outcome' = Worst(items)
    BY <1>1, <1>4 DEF ExitWith
  <2>3. /\ ExitOf[Worst(items)] = Rank[Worst(items)]
        /\ ExitOf[Worst(items)] \in Nat
        /\ ExitOf[Worst(items)] = 0 => Worst(items) = "PASS"
    BY <2>1 DEF ExitOf, Rank, Statuses
  <2>4. ~ Busy'
    BY <2>2, <2>3, BatchAssumption DEF Busy
  <2>5. SummaryMatchesReports'
    <3>1. batchFile'.status # "torn"
      BY <2>1, <2>2 DEF Statuses
    <3>2. QED
      BY <1>1, <1>2, <2>1, <2>2, <2>3, <3>1 DEF SummaryMatchesReports, Cited
  <2>6. QED
    BY <1>1, <2>4, <2>5 DEF BatchInv, BusyInv
<1>5. QED
  BY <1>3, <1>4 DEF WriteSummary

(* Every step of the commands. *)
LEMMA BatchStep ==
  ASSUME BatchInv, [BatchNext]_batchVars
  PROVE  BatchInv'
<1>1. ASSUME NEW kind \in Kinds, NEW s \in Statuses, AnalyzeItem(kind, s) PROVE BatchInv'
  BY <1>1, AnalyzeItemKeeps
<1>2. ASSUME NEW kind \in Kinds, NEW s \in Statuses, NEW f \in MediaNames, Analyze(f, kind, s) PROVE BatchInv'
  BY <1>2, AnalyzeKeeps
<1>3. ASSUME NEW S \in SUBSET MediaNames, BeginBatch(S) PROVE BatchInv'
  BY <1>3, BeginBatchKeeps
<1>4. CASE WriteSummary
  BY <1>4, WriteSummaryKeeps
<1>5. CASE KillBatch
  <2>1. reports' = [f \in MediaNames |-> reports'[f]]
    BY <1>5 DEF KillBatch, PutReport, BatchInv
  <2>2. QED
    BY <1>5, <2>1, OtherEnd, BatchAssumption DEF KillBatch, ExitWith, Killed, Busy, BatchInv
<1>6. ASSUME NEW targets, NEW invalid, ValidatePresets(targets, invalid) PROVE BatchInv'
  <2>1. /\ command' = "validate" /\ run' = run + 1
        /\ UNCHANGED <<todo, chosen, items, reports, batchFile>>
    BY <1>6 DEF ValidatePresets
  <2>2. QED
    BY <2>1, OtherEnd DEF Busy, BatchInv
<1>7. CASE UNCHANGED batchVars
  <2>1. BusyInv'
    BY <1>7 DEF batchVars, BatchInv, BusyInv, Busy, InTodo
  <2>2. SummaryMatchesReports'
    BY <1>7 DEF batchVars, BatchInv, SummaryMatchesReports
  <2>3. QED
    BY <1>7, <2>1, <2>2 DEF batchVars, BatchInv
<1>8. CASE OpenSummary
  BY <1>8, OpenSummaryKeeps
<1>9. QED
  BY <1>1, <1>2, <1>3, <1>4, <1>5, <1>6, <1>7, <1>8 DEF BatchNext

(* For every set of files, and however often the commands have been run in *)
(* one output root, failed or been killed there in the middle of a file: a  *)
(* batch that ends with a status has left the whole summary of itself, and  *)
(* what the summary cites is on disk as it says (batch.py:76-141,          *)
(* exit_codes.py).                                                         *)
THEOREM BatchCorrect == BatchSpec => []SummaryMatchesReports
<1>1. BatchInit => BatchInv
  BY BatchAssumption DEF BatchInit, BatchInv, BusyInv, SummaryMatchesReports, Busy
<1>2. BatchInv /\ [BatchNext]_batchVars => BatchInv'
  BY BatchStep
<1>3. BatchInv => SummaryMatchesReports
  BY DEF BatchInv
<1>4. QED
  BY <1>1, <1>2, <1>3, PTL DEF BatchSpec

-----------------------------------------------------------------------------
(*                               Comparison                                *)
-----------------------------------------------------------------------------
(* A set of numbers has a least one: the library's well-founded < on Nat.  *)
LEMMA LeastNumber ==
  ASSUME NEW T \in SUBSET Nat, T # {}
  PROVE  \E x \in T : \A y \in T : x <= y
<1> DEFINE R == OpToRel(<, Nat)
<1>1. IsWellFoundedOn(R, Nat)
  BY NatLessThanWellFounded, Zenon
<1>2. \A x, y \in Nat : x < y => <<x, y>> \in R
  BY SMT DEF OpToRel
<1> HIDE DEF R
<1>3. PICK x \in T : \A y \in T : ~ (<<y, x>> \in R)
  BY <1>1, WFMin
<1>4. ASSUME NEW y \in T PROVE x <= y
  <2>1. ~ (y < x)
    BY <1>2, <1>3
  <2>2. x \in Nat /\ y \in Nat
    OBVIOUS
  <2>3. QED
    BY <2>1, <2>2
<1>5. QED
  BY <1>4

(* Numbers at finitely many places have a largest one: were there a shortest *)
(* list without, it would be one longer than a list that has one.          *)
LEMMA LargestValue ==
  ASSUME NEW n \in Nat \ {0}, NEW f \in [1..n -> Int]
  PROVE  \E k \in 1..n : \A l \in 1..n : f[l] <= f[k]
<1> DEFINE Has(m) == \E k \in 1..m : \A l \in 1..m : f[l] <= f[k]
           T == {m \in 1..n : ~ Has(m)}
<1>1. ASSUME NEW m \in T, \A l \in T : m <= l PROVE FALSE
  <2>1. m \in 1..n /\ ~ Has(m)
    OBVIOUS
  <2>2. m # 1
    BY <2>1
  <2>3. m - 1 \in 1..n /\ ~ (m <= m - 1)
    BY <2>1, <2>2
  <2>4. Has(m - 1)
    <3>1. m - 1 \in T => m <= m - 1
      BY <1>1
    <3>2. m - 1 \notin T
      BY <2>3, <3>1
    <3>3. QED
      BY <2>3, <3>2
  <2>5. PICK k \in 1..(m - 1) : \A l \in 1..(m - 1) : f[l] <= f[k]
    BY <2>4
  <2>6. f[k] \in Int /\ f[m] \in Int /\ \A l \in 1..m : l = m \/ l \in 1..(m - 1)
    BY <2>1
  <2>7. CASE f[m] <= f[k]
    BY <2>1, <2>5, <2>6, <2>7
  <2>8. CASE f[k] <= f[m]
    <3>1. \A l \in 1..m : f[l] <= f[m]
      <4>1. ASSUME NEW l \in 1..(m - 1) PROVE f[l] <= f[m]
        BY <2>1, <2>5, <2>6, <2>8
      <4>2. QED
        BY <2>6, <4>1
    <3>2. QED
      BY <2>1, <3>1
  <2>9. QED
    BY <2>6, <2>7, <2>8
<1>2. T = {}
  <2>1. T \in SUBSET Nat
    OBVIOUS
  <2> HIDE DEF T
  <2>2. QED
    BY <1>1, <2>1, LeastNumber
<1>3. n \in 1..n
  OBVIOUS
<1>4. n \notin T
  <2> HIDE DEF T
  <2>1. QED
    BY <1>2
<1>5. Has(n)
  BY <1>3, <1>4
<1>6. QED
  BY <1>5

(* The first of some places is one of them. *)
LEMMA FirstIsOne ==
  ASSUME NEW places \in SUBSET Nat, places # {}
  PROVE  First(places) \in places /\ \A l \in places : First(places) <= l
BY LeastNumber DEF First

LevelSet == [stream : Nat, value : Int]
SpanSet == [stream : Nat, start : Int, end : Int]
ReportPair(p) ==
  /\ p.report.loudness \in Seq(LevelSet)
  /\ p.report.spans \in Seq(SpanSet)
  /\ \A k \in DOMAIN p.task.alerts :
       LET a == p.task.alerts[k]
       IN {a.value, a.prose, a.begin, a.end} \subseteq Int \cup {Missing}

(* An overlap is a number, and is none when the two do not meet. *)
LEMMA OverlapMeets ==
  ASSUME NEW a, NEW s, a.begin \in Int, a.end \in Int, s.start \in Int, s.end \in Int
  PROVE  /\ Overlap(a, s) \in Nat
         /\ Overlap(a, s) > 0 => s.start < a.end /\ a.begin < s.end
BY DEF Overlap, Greater, Lesser

(* A distance within the tolerance, as a difference. *)
LEMMA WithinTolerance ==
  ASSUME NEW u \in Int, NEW v \in Int, NEW t \in Nat, Distance(u, v) <= t
  PROVE  u - v \in (-t)..t
BY DEF Distance

(* max finds one of the candidates.                                        *)
LEMMA BestIsOne ==
  ASSUME ReportPair(pair), NEW a, a.begin \in Int, a.end \in Int,
         NEW places \in SUBSET DOMAIN Report.spans, places # {}
  PROVE  Best(a, places) \in places
<1> DEFINE spans == Report.spans
           n == Len(spans)
           of(k) == Overlap(a, spans[k])
           f == [k \in 1..n |-> IF k \in places THEN of(k) ELSE -1]
<1>1. n \in Nat /\ DOMAIN spans = 1..n
  BY DEF ReportPair, Report
<1>2. ASSUME NEW k \in 1..n PROVE of(k) \in Nat
  <2>1. spans[k] \in SpanSet
    BY <1>1 DEF ReportPair, Report
  <2>2. spans[k].start \in Int /\ spans[k].end \in Int
    BY <2>1 DEF SpanSet
  <2>3. QED
    BY <2>2, OverlapMeets
<1> HIDE DEF spans, n, of
<1>3. n # 0 /\ places \in SUBSET (1..n)
  BY <1>1 DEF spans
<1>4. f \in [1..n -> Int]
  BY <1>2
<1>5. PICK m \in 1..n : \A l \in 1..n : f[l] <= f[m]
  BY <1>1, <1>3, <1>4, LargestValue
<1>6. m \in places
  <2>1. PICK k \in places : TRUE
    OBVIOUS
  <2>2. f[k] >= 0
    BY <1>2, <1>3
  <2>3. f[m] >= 0
    BY <1>3, <1>4, <1>5, <2>2
  <2>4. QED
    BY <2>3
<1>7. \A l \in places : of(l) <= of(m)
  BY <1>3, <1>5, <1>6
<1> DEFINE Most == {k \in places : of(k) = of(m)}
<1>8. Most \in SUBSET Nat /\ Most # {}
  BY <1>1, <1>3, <1>6
<1>9. PICK k \in Most : \A l \in Most : k <= l
  BY <1>8, LeastNumber
<1>10. k \in places /\ \A l \in places : of(l) < of(k) \/ (of(l) = of(k) /\ k <= l)
  BY <1>2, <1>3, <1>7, <1>9
<1>11. Best(a, places) = CHOOSE h \in places : \A l \in places : of(l) < of(h) \/ (of(l) = of(h) /\ h <= l)
  BY DEF Best, of, spans
<1>12. QED
  BY <1>10, <1>11

-----------------------------------------------------------------------------
Agreeing(set) == \A r \in set : r.status # "MISMATCH"

(* Rows without a mismatch answer the alerts that they are about.          *)
LEMMA LoudnessIsAnswered ==
  ASSUME ReportPair(pair), Agreeing(LoudnessRows), NEW k \in Alerts("loudness")
  PROVE  LoudnessAnswered(Task.alerts[k])
<1> DEFINE a == Task.alerts[k]
           p == ParseAlert(a)
           all == Report.loudness
           ours == LoudnessOf(p.stream)
           own == OfAlert(all, a)
           value == IF a.value = Missing THEN a.prose ELSE a.value
<1>1. CASE a.notRun \/ value = Missing
  BY <1>1 DEF LoudnessAnswered
<1>2. CASE ~ a.notRun /\ value # Missing
  <2>1. p.value = value /\ p.stream = a.stream
    BY <1>2 DEF ParseAlert
  <2>2. Row("loudness", k, ours # {} /\ Distance(all[First(ours)].value, p.value) <= LoudnessTolerance)
          \in LoudnessRows
    BY <1>2, <2>1 DEF LoudnessRows
  <2>3. ours # {} /\ Distance(all[First(ours)].value, value) <= LoudnessTolerance
    BY <2>1, <2>2 DEF Agreeing, Row
  <2>4. all \in Seq(LevelSet) /\ value \in Int
    BY <1>2, ComparisonAssumption DEF ReportPair, Report, Task, Alerts
  <2>5. ours \in SUBSET DOMAIN all /\ DOMAIN all \in SUBSET Nat
    BY <2>4 DEF LoudnessOf, Measured
  <2>6. First(ours) \in ours /\ First(ours) \in DOMAIN all
    BY <2>3, <2>5, FirstIsOne
  <2> DEFINE m == all[First(ours)]
  <2>7. m.value \in Int
    <3>1. m \in LevelSet
      BY <2>4, <2>6
    <3>2. QED
      BY <3>1 DEF LevelSet
  <2>8. m.value \in (value - LoudnessTolerance)..(value + LoudnessTolerance)
    <3>1. m.value - value \in (-LoudnessTolerance)..LoudnessTolerance
      BY <2>3, <2>4, <2>7, WithinTolerance, ComparisonAssumption
    <3>2. QED
      BY <2>4, <2>7, <3>1, ComparisonAssumption
  <2>9. m \in Elements(all)
    BY <2>6 DEF Elements
  <2>10. own # {} => m \in own
    <3>1. ASSUME own # {} PROVE Measured(all, a.stream) # {}
      <4>1. PICK e \in Elements(all) : a.stream = Missing \/ e.stream = a.stream - 1
        BY <3>1 DEF OfAlert
      <4>2. PICK l \in DOMAIN all : e = all[l]
        BY <4>1 DEF Elements
      <4>3. QED
        BY <4>1, <4>2 DEF Measured
    <3>2. own # {} => First(ours) \in Measured(all, a.stream)
      BY <2>1, <2>6, <3>1 DEF LoudnessOf
    <3>3. QED
      BY <2>9, <3>2 DEF Measured, OfAlert
  <2>11. QED
    BY <2>8, <2>9, <2>10 DEF LoudnessAnswered
<1>3. QED
  BY <1>1, <1>2

(* When the rows of low levels agree, each of their alerts has a fitting span. *)
LEMMA LevelIsAnswered ==
  ASSUME ReportPair(pair), Agreeing(LevelRows), NEW k \in Alerts("level")
  PROVE  LevelAnswered(Task.alerts[k])
<1> DEFINE a == Task.alerts[k]
           all == Report.spans
           places == Measured(all, a.stream)
           best == all[Best(a, places)]
<1>1. CASE a.notRun \/ a.begin = Missing \/ a.end = Missing
  BY <1>1 DEF LevelAnswered
<1>2. CASE ~ a.notRun /\ a.begin # Missing /\ a.end # Missing
  <2>1. Row("level", k, LevelAgrees(a)) \in LevelRows
    BY <1>2 DEF LevelRows
  <2>2. LevelAgrees(a)
    BY <2>1 DEF Agreeing, Row
  <2>3. /\ places # {} /\ Overlap(a, best) > 0
        /\ Distance(best.end - best.start, a.end - a.begin) <= SpanTolerance
    BY <2>2 DEF LevelAgrees
  <2>4. a.begin \in Int /\ a.end \in Int
    BY <1>2 DEF ReportPair, Task, Alerts
  <2>5. places \in SUBSET DOMAIN all
    BY DEF Measured
  <2>6. Best(a, places) \in places
    BY <2>3, <2>4, <2>5, BestIsOne
  <2>7. best.start \in Int /\ best.end \in Int
    <3>1. all \in Seq(SpanSet)
      BY DEF ReportPair, Report
    <3>2. Best(a, places) \in DOMAIN all
      BY <2>5, <2>6
    <3> HIDE DEF places, all
    <3>3. best \in SpanSet
      BY <3>1, <3>2
    <3>4. QED
      BY <3>3 DEF SpanSet
  <2>8. best \in OfAlert(all, a)
    BY <2>6 DEF OfAlert, Measured, Elements
  <2>9. best.start < a.end /\ a.begin < best.end
    BY <2>3, <2>4, <2>7, OverlapMeets
  <2>10. (best.end - best.start) - (a.end - a.begin) \in (-SpanTolerance)..SpanTolerance
    <3>1. best.end - best.start \in Int /\ a.end - a.begin \in Int
      BY <2>4, <2>7
    <3>2. QED
      BY <2>3, <3>1, WithinTolerance, ComparisonAssumption
  <2>11. QED
    BY <2>8, <2>9, <2>10 DEF LevelAnswered
<1>3. QED
  BY <1>1, <1>2

Agreement ==
  /\ \A k \in Alerts("loudness") : LoudnessAnswered(Task.alerts[k])
  /\ \A k \in Alerts("level") : LevelAnswered(Task.alerts[k])
  /\ (\A k \in Alerts("clipping") : ~ Task.alerts[k].notRun) /\ Report.flat # {} =>
       (Alerts("clipping") # {} <=> \E v \in Report.flat : v > 0)

(* When all the rows agree, every alert that is compared is answered. *)
LEMMA RowsMeanAgreement ==
  ASSUME ReportPair(pair), Agreeing(LoudnessRows), Agreeing(LevelRows), Agreeing(ClippingRows)
  PROVE  Agreement
<1>1. ASSUME \A k \in Alerts("clipping") : ~ Task.alerts[k].notRun, Report.flat # {}
      PROVE  Alerts("clipping") # {} <=> \E v \in Report.flat : v > 0
  BY <1>1 DEF ClippingRows, Agreeing, Row
<1>2. QED
  BY <1>1, LoudnessIsAnswered, LevelIsAnswered DEF Agreement

(* What has been compared is in the rows, and all of it is of one file.    *)
CompareInv ==
  /\ compareAt \in {"idle", "read", "parse", "identity", "loudness", "levels", "clipping", "rows", "exit"}
  /\ compareAt # "exit" => code = Missing
  /\ compareAt # "idle" => pair \in Pairs
  /\ compareAt \in {"loudness", "levels", "clipping", "rows"} => Same(Report, Task)
  /\ compareAt \in {"levels", "clipping", "rows"} => LoudnessRows \subseteq rows
  /\ compareAt \in {"clipping", "rows"} => LevelRows \subseteq rows
  /\ compareAt = "rows" => ClippingRows \subseteq rows
  /\ compareAt = "exit" /\ code \in {0, 2} => Same(Report, Task)
  /\ compareAt = "exit" /\ code = 0 =>
       Agreeing(LoudnessRows) /\ Agreeing(LevelRows) /\ Agreeing(ClippingRows)

(* Each stage of compare adds the rows of its kind. *)
LEMMA CompareStep ==
  ASSUME CompareInv, [CompareNext]_compareVars
  PROVE  CompareInv'
<1> USE DEF CompareInv
<1>1. CASE Give
  BY <1>1 DEF Give
<1>2. ASSUME NEW c, Stop(c), c \notin {0, 2}, compareAt # "idle" PROVE CompareInv'
  BY <1>2 DEF Stop
<1>3. CASE ReadReport
  BY <1>3, <1>2 DEF ReadReport, GoOn
<1>4. CASE ParseReport
  BY <1>4, <1>2 DEF ParseReport, GoOn
<1>5. CASE VerifyIdentity
  <2>1. CASE Same(Report, Task)
    BY <1>5, <2>1 DEF VerifyIdentity, GoOn, Report, Task
  <2>2. CASE ~ Same(Report, Task)
    BY <1>5, <2>2, <1>2 DEF VerifyIdentity
  <2>3. QED
    BY <2>1, <2>2
<1> DEFINE Unmoved == /\ LoudnessRows' = LoudnessRows /\ LevelRows' = LevelRows /\ ClippingRows' = ClippingRows
                   /\ Same(Report, Task)' = Same(Report, Task)
<1>6. ASSUME UNCHANGED pair PROVE Unmoved
  <2>1. Report' = Report /\ Task' = Task /\ Same(Report, Task)' = Same(Report, Task)
    BY <1>6 DEF Report, Task
  <2>2. LoudnessRows' = LoudnessRows
    BY <1>6, Zenon DEF LoudnessRows, Report, Task, Alerts, LoudnessOf
  <2>3. LevelRows' = LevelRows
    <3>1. \A a : LevelAgrees(a)' = LevelAgrees(a)
      BY <2>1 DEF LevelAgrees, Best
    <3>2. QED
      BY <2>1, <3>1 DEF LevelRows, Alerts
  <2>4. ClippingRows' = ClippingRows
    BY <1>6, Zenon DEF ClippingRows, Report, Task, Alerts
  <2>5. QED
    BY <1>6, <2>1, <2>2, <2>3, <2>4
<1>7. CASE CompareLoudness
  BY <1>7, <1>6 DEF CompareLoudness, GoOn
<1>8. CASE CompareLevels
  BY <1>8, <1>6 DEF CompareLevels, GoOn
<1>9. CASE CompareClipping
  BY <1>9, <1>6 DEF CompareClipping, GoOn
<1>10. CASE ExitCompare
  <2>1. CASE Stop(1)
    BY <1>10, <2>1, <1>2 DEF ExitCompare
  <2>2. CASE Stop(IF \E r \in rows : r.status = "MISMATCH" THEN 2 ELSE 0)
    BY <1>10, <2>2, <1>6, ComparisonAssumption DEF ExitCompare, Stop, Agreeing
  <2>3. QED
    BY <1>10, <2>1, <2>2 DEF ExitCompare
<1>11. CASE UNCHANGED compareVars
  BY <1>11, <1>6 DEF compareVars
<1>12. QED
  BY <1>1, <1>3, <1>4, <1>5, <1>7, <1>8, <1>9, <1>10, <1>11 DEF CompareNext

(* For every pair of reports and all tolerances: codes 0 and 2 speak of     *)
(* files of one size, and 0 means that each thing Vidchecker measured has   *)
(* its counterpart, if there is any (cli.py:227-272, comparison/engine.py). *)
THEOREM ComparisonCorrect == CompareSpec => []ExitZeroMeansAgreement
<1>1. CompareInit => CompareInv
  BY DEF CompareInit, CompareInv
<1>2. CompareInv /\ [CompareNext]_compareVars => CompareInv'
  BY CompareStep
<1>3. CompareInv => ExitZeroMeansAgreement
  <2> SUFFICES ASSUME CompareInv PROVE ExitZeroMeansAgreement
    OBVIOUS
  <2>1. code \in {0, 2} => compareAt = "exit"
    BY ComparisonAssumption DEF CompareInv
  <2>2. code \in {0, 2} => Report.size = Task.size /\ Report.size # Missing
    BY <2>1 DEF CompareInv, Same
  <2>3. code = 0 => Agreement
    <3>1. code = 0 => ReportPair(pair)
      BY <2>1, ComparisonAssumption DEF CompareInv, ReportPair, LevelSet, SpanSet
    <3>2. QED
      BY <2>1, <3>1, RowsMeanAgreement DEF CompareInv
  <2>4. QED
    BY <2>2, <2>3 DEF ExitZeroMeansAgreement, Agreement
<1>4. QED
  BY <1>1, <1>2, <1>3, PTL DEF CompareSpec

-----------------------------------------------------------------------------
(*                                Metadata                                 *)
-----------------------------------------------------------------------------
(* What one measurement of a file may be. *)
FactOf(f, p, i, v) ==
  \/ p = "file.readable" /\ v = TRUE
  \/ p = "file.extension" /\ v = f.extension
  \/ p = "container.format" /\ v = ContainerFormat(f)
  \/ p = "container.duration" /\ v = Number(f.numbers.duration)
  \/ p = "container.overall_bitrate" /\ v = Number(f.numbers.overall_bitrate)
  \/ p = "container.start_time" /\ v = Number(f.numbers.start_time)
  \/ p = "container.timecode_present" /\ v = (Timecode(f) # NoValue)
  \/ p = "container.timecode_start" /\ v = Timecode(f)
  \/ p = "video.stream_count" /\ v = Cardinality(Indexes(f, "video"))
  \/ p = "audio.stream_count" /\ v = Cardinality(Indexes(f, "audio"))
  \/ p = "subtitle.stream_count" /\ v = Cardinality(Indexes(f, "subtitle"))
  \/ p = "video.codec" /\ v = Stream(f, i).codec
  \/ p = "video.frame_rate" /\ v = FrameRate(Stream(f, i).rate)
  \/ p = "video.bit_depth" /\ v = BitDepth(Stream(f, i))
  \/ p = "video.bitrate" /\ v = Number(Stream(f, i).bitrate)
  \/ p = "video.level" /\ v = Number(Stream(f, i).level)
  \/ p = "video.display_aspect_ratio" /\ v = Stream(f, i).aspect
  \/ p = "video.field_order" /\ v = FieldOrder(Stream(f, i))
  \/ p = "video.scan_type" /\ v = IF FieldOrder(Stream(f, i)) = "progressive" THEN "progressive" ELSE "interlaced"
  \/ p = "audio.codec" /\ v = Stream(f, i).codec
  \/ p = "audio.duration" /\ v = Length(f, i)
  \/ /\ p = "audio.video_duration_delta" /\ v = Length(f, i) - PictureLength(f)
     /\ Length(f, i) # NoValue /\ PictureLength(f) # NoValue
  \/ p = "audio.language" /\ v = Language(Stream(f, i))

IsFact(f, t) == \E p, i, v : t = <<p, i, v>> /\ FactOf(f, p, i, v)

(* A parameter has one value for a stream. *)
LEMMA OneValue ==
  ASSUME NEW f, NEW p, NEW i, NEW v, NEW w, FactOf(f, p, i, v), FactOf(f, p, i, w)
  PROVE  v = w
<1>1. CASE p \in {"file.readable", "container.timecode_present"}
  <2>1. CASE p = "file.readable"
    <3>1. v = TRUE
      BY <2>1 DEF FactOf
    <3>2. w = TRUE
      BY <2>1 DEF FactOf
    <3>3. QED
      BY <3>1, <3>2, Zenon
  <2>2. CASE p = "container.timecode_present"
    <3>1. v = (Timecode(f) # NoValue)
      BY <2>2 DEF FactOf
    <3>2. w = (Timecode(f) # NoValue)
      BY <2>2 DEF FactOf
    <3>3. QED
      BY <3>1, <3>2, Zenon
  <2>3. QED
    BY <1>1, <2>1, <2>2
<1>2. CASE p \notin {"file.readable", "container.timecode_present"}
  BY <1>2, SMT DEF FactOf
<1>3. QED
  BY <1>1, <1>2

(* What is kept of a key is its value. *)
LEMMA KeptIs ==
  ASSUME NEW f, NEW p, NEW i, NEW v, NEW t \in Kept(p, i, v), FactOf(f, p, i, v)
  PROVE  IsFact(f, t)
BY DEF Kept, IsFact

(* The measurements of the file name and its container. *)
LEMMA FileFactsAre ==
  ASSUME NEW f, NEW t \in FileFacts(f)
  PROVE  IsFact(f, t)
BY DEF FileFacts, IsFact, FactOf

(* The measurements that ffprobe's format section gives. *)
LEMMA ContainerFactsAre ==
  ASSUME NEW f, NEW t \in ContainerFacts(f)
  PROVE  IsFact(f, t)
<1>1. CASE t \in Kept("container.duration", NoValue, Number(f.numbers.duration))
  BY <1>1, KeptIs DEF FactOf
<1>2. CASE t \in Kept("container.overall_bitrate", NoValue, Number(f.numbers.overall_bitrate))
  BY <1>2, KeptIs DEF FactOf
<1>3. CASE t \in Kept("container.start_time", NoValue, Number(f.numbers.start_time))
  BY <1>3, KeptIs DEF FactOf
<1>4. CASE t \in Kept("container.timecode_start", NoValue, Timecode(f))
  BY <1>4, KeptIs DEF FactOf
<1>5. CASE t = <<"container.format", NoValue, ContainerFormat(f)>>
  BY <1>5 DEF IsFact, FactOf
<1>6. CASE t = <<"container.timecode_present", NoValue, Timecode(f) # NoValue>>
  BY <1>6 DEF IsFact, FactOf
<1>7. QED
  BY <1>1, <1>2, <1>3, <1>4, <1>5, <1>6 DEF ContainerFacts

(* The measurements of a video stream. *)
LEMMA PictureFactsAre ==
  ASSUME NEW f, NEW i, NEW t \in PictureFacts(f, i)
  PROVE  IsFact(f, t)
<1> DEFINE x == Stream(f, i)
<1>1. CASE t \in Kept("video.bit_depth", i, BitDepth(x))
  BY <1>1, KeptIs DEF FactOf
<1>2. CASE t \in Kept("video.bitrate", i, Number(x.bitrate))
  BY <1>2, KeptIs DEF FactOf
<1>3. CASE t = <<"video.level", i, Number(x.level)>>
  BY <1>3 DEF IsFact, FactOf
<1>4. CASE t \in Kept("video.display_aspect_ratio", i, x.aspect)
  BY <1>4, KeptIs DEF FactOf
<1>5. CASE t \in Kept("video.field_order", i, FieldOrder(x))
  BY <1>5, KeptIs DEF FactOf
<1>6. CASE t = <<"video.scan_type", i, IF FieldOrder(x) = "progressive" THEN "progressive" ELSE "interlaced">>
  BY <1>6 DEF IsFact, FactOf
<1>7. CASE t = <<"video.codec", i, x.codec>>
  BY <1>7 DEF IsFact, FactOf
<1>8. CASE t \in Kept("video.frame_rate", i, FrameRate(x.rate))
  BY <1>8, KeptIs DEF FactOf
<1>9. QED
  BY <1>1, <1>2, <1>3, <1>4, <1>5, <1>6, <1>7, <1>8 DEF PictureFacts, PictureMetadata

(* The measurements of an audio stream. *)
LEMMA SoundFactsAre ==
  ASSUME NEW f, NEW i, NEW t \in SoundFacts(f, i)
  PROVE  IsFact(f, t)
<1>1. CASE t = <<"audio.codec", i, Stream(f, i).codec>>
  BY <1>1 DEF IsFact, FactOf
<1>2. CASE t \in Kept("audio.duration", i, Length(f, i))
  BY <1>2, KeptIs DEF FactOf
<1>3. CASE t \in Kept("audio.language", i, Language(Stream(f, i)))
  BY <1>3, KeptIs DEF FactOf
<1>4. CASE /\ t = <<"audio.video_duration_delta", i, Length(f, i) - PictureLength(f)>>
           /\ Length(f, i) # NoValue /\ PictureLength(f) # NoValue
  BY <1>4 DEF IsFact, FactOf
<1>5. QED
  BY <1>1, <1>2, <1>3, <1>4 DEF SoundFacts

(* A report holds nothing but that. *)
LEMMA FactsAre ==
  ASSUME NEW f, NEW t \in AllFacts(f)
  PROVE  IsFact(f, t)
<1>1. CASE t = <<"video.stream_count", NoValue, Cardinality(Indexes(f, "video"))>>
  BY <1>1 DEF IsFact, FactOf
<1>2. CASE t = <<"audio.stream_count", NoValue, Cardinality(Indexes(f, "audio"))>>
  BY <1>2 DEF IsFact, FactOf
<1>3. CASE t = <<"subtitle.stream_count", NoValue, Cardinality(Indexes(f, "subtitle"))>>
  BY <1>3 DEF IsFact, FactOf
<1>4. CASE \E i \in Indexes(f, "video") : t \in PictureFacts(f, i)
  BY <1>4, PictureFactsAre
<1>5. CASE \E i \in Indexes(f, "audio") : t \in SoundFacts(f, i)
  BY <1>5, SoundFactsAre
<1>6. CASE t \in StreamFacts(f)
  <2> DEFINE A == {<<"video.stream_count", NoValue, Cardinality(Indexes(f, "video"))>>,
                   <<"audio.stream_count", NoValue, Cardinality(Indexes(f, "audio"))>>,
                   <<"subtitle.stream_count", NoValue, Cardinality(Indexes(f, "subtitle"))>>}
             B == UNION {PictureFacts(f, i) : i \in Indexes(f, "video")}
             C == UNION {SoundFacts(f, i) : i \in Indexes(f, "audio")}
  <2>1. StreamFacts(f) = A \cup B \cup C
    BY DEF StreamFacts
  <2>2. t \in A => IsFact(f, t)
    BY <1>1, <1>2, <1>3
  <2>3. t \in B => IsFact(f, t)
    BY <1>4
  <2>4. t \in C => IsFact(f, t)
    BY <1>5
  <2> HIDE DEF A, B, C
  <2>5. QED
    BY <1>6, <2>1, <2>2, <2>3, <2>4
<1>7. QED
  BY <1>6, FileFactsAre, ContainerFactsAre DEF AllFacts

(* No parameter is given twice for one stream. *)
LEMMA FactsAgree ==
  ASSUME facts = AllFacts(medium)
  PROVE  OneValueEach
<1> SUFFICES ASSUME NEW s \in facts, NEW t \in facts, s[1] = t[1], s[2] = t[2]
             PROVE  s[3] = t[3]
  BY DEF OneValueEach
<1>1. PICK p, i, v : s = <<p, i, v>> /\ FactOf(medium, p, i, v)
  BY FactsAre DEF IsFact
<1>2. PICK q, j, w : t = <<q, j, w>> /\ FactOf(medium, q, j, w)
  BY FactsAre DEF IsFact
<1>3. q = p /\ j = i
  BY <1>1, <1>2
<1>4. QED
  BY <1>1, <1>2, <1>3, OneValue

(* The lengths that a well declared file reports err to one side only.     *)
LEMMA DeltaErrsToOneSide ==
  ASSUME medium \in Media, facts = AllFacts(medium), WellDeclared(medium),
         NEW i \in Indexes(medium, "audio")
  PROVE  DeltaIsHonest(i)
<1> DEFINE v == FirstOf(medium, "video")
           whole == Number(medium.numbers.duration)
           Timed == Indexes(medium, "audio") \cup Indexes(medium, "video")
<1> SUFFICES ASSUME NEW d \in Reported("audio.video_duration_delta", i)
             PROVE  LET real == True(i) - True(v)
                    IN /\ Declares(medium, v) /\ Declares(medium, i) => d = real
                       /\ Declares(medium, v) => d >= real
                       /\ Declares(medium, i) => d <= real
                       /\ ~ Declares(medium, v) /\ ~ Declares(medium, i) => d = 0
  BY DEF DeltaIsHonest
<1>1. /\ d = Length(medium, i) - PictureLength(medium)
      /\ Length(medium, i) # NoValue /\ PictureLength(medium) # NoValue
  <2>1. PICK t \in facts : t[1] = "audio.video_duration_delta" /\ t[2] = i /\ t[3] = d
    BY DEF Reported
  <2>2. PICK q, j, w : t = <<q, j, w>> /\ FactOf(medium, q, j, w)
    BY FactsAre DEF IsFact
  <2>3. FactOf(medium, "audio.video_duration_delta", i, d)
    BY <2>1, <2>2
  <2>4. QED
    BY <2>3 DEF FactOf
<1>2. Indexes(medium, "video") # {} /\ PictureLength(medium) = Length(medium, v)
  BY <1>1 DEF PictureLength
<1>3. v \in Indexes(medium, "video")
  <2>1. Indexes(medium, "video") \in SUBSET Nat
    BY MetadataAssumption DEF Indexes
  <2>2. QED
    BY <1>2, <2>1, LeastNumber DEF FirstOf
<1>4. ASSUME NEW k \in Timed
      PROVE  /\ True(k) \in Int /\ Stream(medium, k).duration \in Int \cup {NoValue, Junk}
             /\ True(k) = Stream(medium, k).truth
  <2>1. k + 1 \in 1..Len(medium.streams) /\ Stream(medium, k).kind \in {"video", "audio"}
    BY MetadataAssumption DEF Indexes
  <2>2. QED
    BY <2>1, MetadataAssumption DEF Stream, True
<1>5. ASSUME NEW k \in Timed, Length(medium, k) # NoValue
      PROVE  IF Declares(medium, k) THEN Length(medium, k) = True(k)
             ELSE Length(medium, k) = whole /\ whole # NoValue
  <2>1. CASE Declares(medium, k)
    <3>1. Stream(medium, k).duration = Stream(medium, k).truth
      BY <2>1 DEF WellDeclared
    <3>2. QED
      BY <1>4, <2>1, <3>1 DEF Declares, Length, Number
  <2>2. CASE ~ Declares(medium, k)
    BY <1>5, <2>2 DEF Declares, Length
  <2>3. QED
    BY <2>1, <2>2
<1>6. whole # NoValue => whole \in Int /\ \A k \in Timed : whole >= True(k)
  <2>1. SUFFICES ASSUME whole # NoValue PROVE whole \in Int /\ \A k \in Timed : whole >= True(k)
    OBVIOUS
  <2>2. PICK m \in Timed : /\ whole = Stream(medium, m).truth
                           /\ \A k \in Timed : Stream(medium, k).truth <= Stream(medium, m).truth
    BY <2>1 DEF WellDeclared
  <2>3. QED
    BY <1>4, <2>2
<1>7. /\ v \in Timed /\ i \in Timed /\ True(v) \in Int /\ True(i) \in Int
  BY <1>3, <1>4
<1>8. d = Length(medium, i) - Length(medium, v)
  BY <1>1, <1>2
<1>9. Length(medium, v) # NoValue
  BY <1>1, <1>2
<1> HIDE DEF v, whole, Timed
<1>10. QED
  BY <1>1, <1>5, <1>6, <1>7, <1>8, <1>9

(* What a failed probe of f may have written, and what it may be summed up as. *)
Rest(f) == {NoSummary, MediaSummary(Bare(f)), MediaSummary(Empty(f))}

(* The raw file, when this analysis wrote it, is of its file. *)
RawInv ==
  /\ rawFile.by \in Nat /\ rawFile.by <= analyses
  /\ rawFile.shape \in {"none", "no_json", "no_mapping", "no_format", "whole"}
  /\ rawFile.by = analyses /\ analyses > 0 =>
       /\ rawFile.shape = "whole" => rawFile.of = medium
       /\ rawFile.shape = "no_format" => rawFile.of \in {Bare(medium), Empty(medium)}

(* Where an analysis is, its measurements are those of its file so far.    *)
MetaInv ==
  /\ analyses \in Nat /\ RawInv
  /\ metaStep \in {"idle", "file", "probe", "parse", "summary", "raised"}
  /\ metaStep \notin {"idle", "raised"} => medium \in Media /\ analyses > 0
  /\ metaStep \in {"file", "probe"} => rawFile.by < analyses
  /\ metaStep = "parse" => rawFile.by = analyses
  /\ metaStep = "file" => facts = {}
  /\ metaStep \in {"probe", "parse"} => facts = FileFacts(medium)
  /\ metaStep \in {"file", "probe", "parse"} => ~ probeFailed
  /\ metaStep = "summary" /\ ~ probeFailed =>
       facts = AllFacts(medium) /\ rawFile.of = medium /\ rawFile.shape = "whole"
  /\ metaStep = "summary" /\ probeFailed =>
       facts = {} /\ (rawFile.by = analyses => rawFile.shape # "whole")
  /\ metaStep = "idle" /\ analyses > 0 =>
       /\ medium \in Media
       /\ probeFailed => facts = {} /\ (rawFile.by = analyses => mediaSummary \in Rest(medium))
       /\ ~ probeFailed => facts = AllFacts(medium) /\ mediaSummary = MediaSummary(medium)

(* Each step of the probe leaves what MetaInv says. *)
LEMMA MetaStep ==
  ASSUME MetaInv, [MetaNext]_metaVars
  PROVE  MetaInv'
<1> USE DEF MetaInv
<1>1. CASE BeginAnalysis
  <2>1. /\ medium' \in Media /\ metaStep' = "file" /\ analyses' = analyses + 1
        /\ facts' = {} /\ probeFailed' = FALSE /\ rawFile' = rawFile
    BY <1>1 DEF BeginAnalysis
  <2>2. RawInv'
    BY <2>1 DEF RawInv
  <2>3. rawFile'.by < analyses'
    BY <2>1 DEF RawInv
  <2>4. QED
    BY <2>1, <2>2, <2>3
<1>2. ASSUME Fail, rawFile' = rawFile, metaStep \in {"file", "probe", "parse"},
             metaStep = "parse" => rawFile.shape # "whole"
      PROVE  MetaInv'
  <2>1. RawInv'
    BY <1>2 DEF Fail, RawInv
  <2>2. QED
    BY <1>2, <2>1 DEF Fail
<1>3. ASSUME Raise, RawInv' PROVE MetaInv'
  BY <1>3 DEF Raise
<1>4. ASSUME UNCHANGED <<rawFile, analyses, medium>> PROVE RawInv'
  BY <1>4 DEF RawInv
<1>5. CASE ReadFile
  <2>1. CASE Fail
    BY <1>2, <1>5, <2>1 DEF ReadFile
  <2>2. CASE Raise
    BY <1>3, <1>4, <1>5, <2>2 DEF ReadFile, Raise
  <2>3. QED
    BY <1>4, <1>5, <2>1, <2>2 DEF ReadFile
<1>6. CASE RunFfprobe
  <2>1. CASE Fail /\ UNCHANGED rawFile
    BY <1>2, <1>6, <2>1 DEF RunFfprobe
  <2>2. CASE Raise /\ rawFile' \in {rawFile, [shape |-> "no_json", of |-> medium, by |-> analyses]}
    <3>1. RawInv'
      BY <1>4, <1>6, <2>2 DEF Raise, RawInv
    <3>2. QED
      BY <1>3, <2>2, <3>1
  <2>3. ASSUME NEW p \in Printed(medium), rawFile' = [shape |-> p[1], of |-> p[2], by |-> analyses],
               metaStep' = "parse", metaStep = "probe",
               UNCHANGED <<medium, facts, probeFailed, mediaSummary, analyses>>
        PROVE  MetaInv'
    <3>1. RawInv'
      BY <2>3 DEF RawInv, Printed
    <3>2. QED
      BY <2>3, <3>1
  <2>4. QED
    BY <1>6, <2>1, <2>2, <2>3 DEF RunFfprobe
<1>7. CASE Parse
  <2>1. CASE rawFile.shape = "whole"
    <3>1. /\ metaStep' = "summary"
          /\ facts' = facts \cup ContainerFacts(rawFile.of) \cup StreamFacts(rawFile.of)
          /\ UNCHANGED <<medium, rawFile, probeFailed, mediaSummary, analyses>>
      BY <1>7, <2>1 DEF Parse
    <3>2. rawFile.of = medium /\ metaStep = "parse"
      BY <1>7, <2>1 DEF Parse, RawInv
    <3>3. facts' = AllFacts(medium)
      BY <3>1, <3>2 DEF AllFacts
    <3>4. RawInv'
      BY <1>4, <3>1
    <3>5. AllFacts(medium)' = AllFacts(medium)
      BY <3>1 DEF AllFacts, FileFacts, ContainerFacts, StreamFacts
    <3>6. QED
      BY <2>1, <3>1, <3>2, <3>3, <3>4
  <2>2. CASE rawFile.shape # "whole"
    BY <1>2, <1>7, <2>2 DEF Parse
  <2>3. QED
    BY <2>1, <2>2
<1>8. CASE LoadMediaSummary
  <2>1. CASE rawFile.shape = "no_mapping"
    BY <1>3, <1>4, <1>8, <2>1 DEF LoadMediaSummary, Raise
  <2>2. CASE rawFile.shape # "no_mapping"
    <3>1. /\ metaStep = "summary" /\ metaStep' = "idle"
          /\ mediaSummary' = IF rawFile.shape \in {"none", "no_json"} THEN NoSummary
                             ELSE MediaSummary(rawFile.of)
          /\ UNCHANGED <<medium, rawFile, facts, probeFailed, analyses>>
      BY <1>8, <2>2 DEF LoadMediaSummary
    <3>2. probeFailed /\ rawFile.by = analyses => mediaSummary' \in Rest(medium)
      BY <2>2, <3>1 DEF RawInv, Rest
    <3>3. ~ probeFailed => mediaSummary' = MediaSummary(medium)
      BY <3>1
    <3>4. RawInv'
      BY <1>4, <3>1
    <3>5. Rest(medium)' = Rest(medium) /\ MediaSummary(medium)' = MediaSummary(medium)
          /\ AllFacts(medium)' = AllFacts(medium)
      BY <3>1
    <3>6. QED
      BY <3>1, <3>2, <3>3, <3>4
  <2>3. QED
    BY <2>1, <2>2
<1>9. CASE UNCHANGED metaVars
  BY <1>4, <1>9 DEF metaVars
<1>10. QED
  BY <1>1, <1>5, <1>6, <1>7, <1>8, <1>9 DEF MetaNext

(* For every set of files and any number of analyses in one directory: the  *)
(* report of an analysis holds exactly the measurements and the media       *)
(* summary of the file that was analysed and its A/V deltas err to one side  *)
(* only; after a failed probe it holds no measurement, and what this        *)
(* analysis wrote is summed up as nothing or as what is left of the file's   *)
(* declaration (ffprobe.py:242-507, pipeline.py:224-273).                  *)
THEOREM MetadataCorrect == MetaSpec => []ProbeIsHonest
<1>1. MetaInit => MetaInv
  BY DEF MetaInit, MetaInv, RawInv, NoRawFile
<1>2. MetaInv /\ [MetaNext]_metaVars => MetaInv'
  BY MetaStep
<1>3. MetaInv => ProbeIsHonest
  <2> SUFFICES ASSUME MetaInv, metaStep = "idle", analyses > 0, ~ probeFailed
               PROVE  ProbeIsHonest
    BY DEF MetaInv, ProbeIsHonest, Rest
  <2>1. medium \in Media /\ facts = AllFacts(medium) /\ mediaSummary = MediaSummary(medium)
    BY DEF MetaInv
  <2>2. OneValueEach
    BY <2>1, FactsAgree
  <2>3. WellDeclared(medium) => \A i \in Indexes(medium, "audio") : DeltaIsHonest(i)
    BY <2>1, DeltaErrsToOneSide
  <2>4. QED
    BY <2>1, <2>2, <2>3 DEF ProbeIsHonest
<1>4. QED
  BY <1>1, <1>2, <1>3, PTL DEF MetaSpec
=============================================================================

------------------------------ MODULE Evidence ------------------------------
(***************************************************************************)
(* evidence/thumbnails.py: one frame grab per failing video finding that   *)
(* has a time, into evidence/thumbnails of the job's directory, which may   *)
(* hold the files of earlier analyses and what a killed grab has left.     *)
(***************************************************************************)
EXTENDS Naturals, Sequences

CONSTANTS
  RuleIds, Starts,  \* the parts of a file name; a start in milliseconds
  FindingLists,     \* what an analysis may find: [rule, status, video, start]
  NoTime,           \* the start of a finding without one
  NoFile,
  MaxGrabRuns       \* bound: analyses in the one directory

(* Rule ids are unique in a preset, and the events of one parameter start  *)
(* at different milliseconds.                                              *)
ASSUME EvidenceAssumption ==
  /\ \A list \in FindingLists :
       /\ list \in Seq([rule : RuleIds, status : STRING, video : BOOLEAN, start : Starts \cup {NoTime}])
       /\ \A a, b \in DOMAIN list :
            list[a].rule = list[b].rule /\ list[a].start = list[b].start => a = b \/ list[a].start = NoTime
  /\ NoFile \notin Nat \X Starts \X BOOLEAN

VARIABLES
  grabStep,  \* "idle", "grabbing", or "raised": an exception ends the analysis
  found,     \* its findings
  next,      \* the one that is looked at
  evidence,  \* the records: [finding, file, sha256]
  thumbs,    \* the directory: <<run, start, whole>> for a frame or a part of it, or NoFile
  rewritten, \* history: the files that grabs of this run have written
  grabRun    \* which analysis in the directory

evidenceVars == <<grabStep, found, next, evidence, thumbs, rewritten, grabRun>>

Names == RuleIds \X Starts

EvidenceInit ==
  /\ grabStep = "idle" /\ found = <<>> /\ next = 1 /\ evidence = {}
  /\ thumbs = [n \in Names |-> NoFile] /\ rewritten = {} /\ grabRun = 0

Failing == {"FAIL", "WARNING", "ERROR"}
Eligible(f) == f.status \in Failing /\ f.video /\ f.start # NoTime

FaultyFileName(f) == <<f.rule, 0>>
FileName(f) == <<f.rule, f.start>>

GenerateThumbnails ==
  /\ grabStep = "idle" /\ grabRun < MaxGrabRuns
  /\ \E list \in FindingLists : found' = list
  /\ grabStep' = "grabbing" /\ next' = 1 /\ evidence' = {}
  /\ rewritten' = {} /\ grabRun' = grabRun + 1
  /\ UNCHANGED thumbs

Grabbing == grabStep = "grabbing" /\ next <= Len(found)
ThisName == FileName(found[next])

Skip ==
  /\ Grabbing /\ ~ Eligible(found[next])
  /\ next' = next + 1
  /\ UNCHANGED <<grabStep, found, evidence, thumbs, rewritten, grabRun>>

Frame(whole) == <<grabRun, found[next].start, whole>>

(* The tool succeeds.  It has written the frame, or nothing, when the time  *)
(* lies at the end of the video; what is looked for then is whether there   *)
(* is a file, not who wrote it.                                            *)
Grab ==
  /\ Grabbing /\ Eligible(found[next])
  /\ \/ /\ thumbs' = [thumbs EXCEPT ![ThisName] = Frame(TRUE)]
        /\ rewritten' = rewritten \cup {ThisName}
     \/ UNCHANGED <<thumbs, rewritten>>
  /\ evidence' = IF thumbs'[ThisName] = NoFile THEN evidence
                 ELSE evidence \cup {[finding |-> next, file |-> ThisName, sha256 |-> thumbs'[ThisName]]}
  /\ next' = next + 1
  /\ UNCHANGED <<grabStep, found, grabRun>>

(* ToolError: no record, and perhaps a part of the file.                   *)
GrabFails ==
  /\ Grabbing /\ Eligible(found[next])
  /\ thumbs' \in {thumbs, [thumbs EXCEPT ![ThisName] = Frame(FALSE)]}
  /\ next' = next + 1
  /\ UNCHANGED <<grabStep, found, evidence, rewritten, grabRun>>

(* mkdir or the hash may raise OSError, which nothing catches.             *)
GrabRaises ==
  /\ Grabbing /\ Eligible(found[next])
  /\ grabStep' = "raised" /\ evidence' = {}
  /\ thumbs' \in {thumbs, [thumbs EXCEPT ![ThisName] = Frame(TRUE)]}
  /\ UNCHANGED <<found, next, rewritten, grabRun>>

(* The findings are linked to their records and the analysis goes on; or   *)
(* it has ended.  Another one may use the directory.                       *)
Link ==
  /\ grabStep = "raised" \/ (grabStep = "grabbing" /\ next > Len(found))
  /\ grabStep' = "idle"
  /\ UNCHANGED <<found, next, evidence, thumbs, rewritten, grabRun>>

EvidenceNext ==
  \/ GenerateThumbnails \/ Skip \/ Grab \/ GrabFails \/ GrabRaises \/ Link

EvidenceSpec == EvidenceInit /\ [][EvidenceNext]_evidenceVars

-----------------------------------------------------------------------------
(* Every record is of a failing video finding and of one only, the hash it *)
(* gives is that of the file it names when the run is over, and the file is *)
(* the frame of this run at the finding's time, unless ffmpeg wrote nothing *)
(* and the directory already had a file of that name (thumbnails.py:97):    *)
(* then it is what an earlier analysis left, of the same rule and time.    *)
EvidenceShowsItsFinding ==
  grabStep = "idle" =>
    \A r \in evidence :
      LET f == found[r.finding]
      IN /\ Eligible(f)
         /\ \A s \in evidence : s.file = r.file => s = r
         /\ thumbs[r.file] = r.sha256
         /\ \/ r.sha256 = <<grabRun, f.start, TRUE>>
            \/ /\ r.file \notin rewritten
               /\ r.sha256[1] < grabRun /\ r.sha256[2] = f.start
=============================================================================

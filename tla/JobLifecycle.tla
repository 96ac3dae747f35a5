---------------------------- MODULE JobLifecycle ----------------------------
(***************************************************************************)
(* What the QC service promises a submitter, with no database and no       *)
(* threads: a bounded first-come first-served queue, one job running at a  *)
(* time, and for every job exactly one outcome that never changes.         *)
(***************************************************************************)
EXTENDS Naturals, Sequences, SequencesExt

CONSTANTS Jobs, MaxQueueLength, NoJob

VARIABLES
  queue,     \* the waiting jobs, oldest first
  running,   \* the job being analysed, NoJob between jobs
  outcome    \* "none" until the job has settled

lifeVars == <<queue, running, outcome>>

Outcomes == {"COMPLETED", "FAILED", "CANCELLED"}

Init ==
  /\ queue = <<>>
  /\ running = NoJob
  /\ outcome = [j \in Jobs |-> "none"]

Fresh(j) == outcome[j] = "none" /\ j # running /\ ~Contains(queue, j)

Submit(j) ==
  /\ Fresh(j)
  /\ Len(queue) < MaxQueueLength
  /\ queue' = Append(queue, j)
  /\ UNCHANGED <<running, outcome>>

Withdraw(i) ==
  /\ queue' = RemoveAt(queue, i)
  /\ outcome' = [outcome EXCEPT ![queue[i]] = "CANCELLED"]
  /\ UNCHANGED running

Start ==
  /\ running = NoJob
  /\ queue # <<>>
  /\ running' = Head(queue)
  /\ queue' = Tail(queue)
  /\ UNCHANGED outcome

Settle(o) ==
  /\ running # NoJob
  /\ outcome' = [outcome EXCEPT ![running] = o]
  /\ running' = NoJob
  /\ UNCHANGED queue

Next ==
  \/ \E j \in Jobs : Submit(j)
  \/ \E i \in 1..Len(queue) : Withdraw(i)
  \/ Start
  \/ \E o \in Outcomes : Settle(o)

Spec == Init /\ [][Next]_lifeVars
=============================================================================

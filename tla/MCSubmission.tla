---------------------------- MODULE MCSubmission ----------------------------
(* One file that is reached by two names, one of which a watch folder      *)
(* lists, and a file outside the media roots.                              *)
EXTENDS Submission, TLC

MCTarget == [n \in Names |-> IF n = "outside" THEN "elsewhere" ELSE "master"]

(* Two forms for one file, one of them insisting, and one that is refused. *)
MCForms ==
  {[name |-> "link", preset |-> "strict", named |-> TRUE, override |-> FALSE],
   [name |-> "master", preset |-> "strict", named |-> TRUE, override |-> TRUE],
   [name |-> "outside", preset |-> "unknown", named |-> FALSE, override |-> FALSE]}

MCSymmetry == Permutations(Jobs) \cup Permutations(Handlers)
=============================================================================

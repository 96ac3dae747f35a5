----------------------------- MODULE MCDelivery -----------------------------
(* Instances of Delivery for TLC: what the watch folders do with each      *)
(* verdict.                                                                *)
EXTENDS DeliveryProps, TLC

Move(d) == [verb |-> "move", dir |-> d]
Copy(d) == [verb |-> "copy", dir |-> d]

MoveBoth == "in" :> ("PASS" :> Move("out") @@ "FAIL" :> Copy("out"))
TwoFolders == [d \in {"a", "b"} |-> "PASS" :> Move("out")]
CopyRound ==
  "in" :> ("PASS" :> Copy("out")) @@ "out" :> ("PASS" :> Copy("in"))
JobSymmetry == Permutations(Jobs)
=============================================================================

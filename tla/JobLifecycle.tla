---------------------------- MODULE JobLifecycle ----------------------------
(***************************************************************************)
(* What the batch API promises of a job's status (docs/API.md, the         *)
(* docstring of get_batch_status): it goes from pending to running to      *)
(* completed or failed, one way.  A submission the queue refused goes from *)
(* pending to failed.                                                      *)
(***************************************************************************)
CONSTANT Jobs
VARIABLE status

Move(j, from, to) == status[j] = from /\ status' = [status EXCEPT ![j] = to]

Submit(j) == Move(j, "not_found", "pending")
Start(j)  == Move(j, "pending", "running")
Finish(j) == Move(j, "running", "completed") \/ Move(j, "running", "failed")
Refuse(j) == Move(j, "pending", "failed")

Init == status = [j \in Jobs |-> "not_found"]
Next == \E j \in Jobs : Submit(j) \/ Start(j) \/ Finish(j) \/ Refuse(j)

Spec == Init /\ [][Next]_status
=============================================================================

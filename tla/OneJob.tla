------------------------------ MODULE OneJob -------------------------------
(***************************************************************************)
(* What the manager's job service promises: one job runs at a time, every  *)
(* job moves forward through queued and running to one outcome, and only   *)
(* its own runner says done.                                               *)
(***************************************************************************)
CONSTANT Jobs

VARIABLES shown,   \* what a page that reads the record is told
          live     \* the jobs whose runner has not recorded its end

vars == <<shown, live>>

Unfinished == {"queued", "running"}
Ended == {"done", "failed"}

Init == shown = [j \in Jobs |-> "none"] /\ live = {}

Show(j, state) == shown' = [shown EXCEPT ![j] = state]

Submit(j) == shown[j] = "none" /\ live = {} /\ Show(j, "queued") /\ UNCHANGED live
Launch(j) == shown[j] = "queued" /\ live = {} /\ live' = {j} /\ UNCHANGED shown
Start(j) == shown[j] = "queued" /\ j \in live /\ Show(j, "running") /\ UNCHANGED live
End(j) == /\ j \in live
          /\ \/ shown[j] = "running" /\ \E outcome \in Ended : Show(j, outcome)
             \/ shown[j] = "queued" /\ Show(j, "failed")
          /\ live' = live \ {j}

(* The runner, or the machine, died.                                       *)
Die == live # {} /\ live' = {} /\ UNCHANGED shown

(* Repair gives up on a job that nothing runs any more.                    *)
Presume(j) == shown[j] \in Unfinished /\ j \notin live /\ Show(j, "failed") /\ UNCHANGED live

(* systemd refused the unit, the request died, or the retention passed.    *)
Remove(j) == /\ shown[j] \in Ended \cup {"none", "queued"} /\ j \notin live
             /\ shown[j] = "queued" => live = {}
             /\ Show(j, "gone")
             /\ UNCHANGED live

Next == Die \/ \E j \in Jobs : \/ Submit(j) \/ Launch(j) \/ Start(j) \/ End(j)
                               \/ Presume(j) \/ Remove(j)

Spec == Init /\ [][Next]_vars
=============================================================================

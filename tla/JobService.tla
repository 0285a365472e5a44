----------------------------- MODULE JobService -----------------------------
(***************************************************************************)
(* What the job queue promises to whoever submits, watches or cancels a    *)
(* job (server/jobs/runner.py), with no threads, locks or ordering: a      *)
(* status per job, whether somebody asked it to stop, and the room of each *)
(* lane.  JobQueue implements it.                                          *)
(***************************************************************************)
EXTENDS Integers, FiniteSets

CONSTANTS Job,        \* slots; each holds one submission at a time
          Lane,       \* the backends jobs compete for
          Backends,   \* Backends[j]: the lanes job j holds while it runs
          Limit       \* Limit[b]: the most jobs lane b is ever configured for

VARIABLES status, asked

vars == <<status, asked>>

Terminal == {"succeeded", "failed", "cancelled"}
Status == {"new", "queued", "running"} \cup Terminal

RunningOn(b) == {j \in Job : status[j] = "running" /\ b \in Backends[j]}

Init == /\ status = [j \in Job |-> "new"]
        /\ asked = [j \in Job |-> FALSE]

(* A slot that is free takes a fresh submission. *)
Submit(j) == /\ status[j] \in {"new"} \cup Terminal
             /\ status' = [status EXCEPT ![j] = "queued"]
             /\ asked' = [asked EXCEPT ![j] = FALSE]

(* A queued job is dropped at once; nothing of it ever runs. *)
Drop(j) == /\ status[j] = "queued"
           /\ status' = [status EXCEPT ![j] = "cancelled"]
           /\ UNCHANGED asked

(* A running job is only asked.  The request may arrive once it has ended. *)
Ask(j) == /\ status[j] \in {"running"} \cup Terminal
          /\ asked' = [asked EXCEPT ![j] = TRUE]
          /\ UNCHANGED status

(* A job starts only where every one of its lanes has room. *)
Start(j) == /\ status[j] = "queued"
            /\ \A b \in Backends[j] : Cardinality(RunningOn(b)) < Limit[b]
            /\ status' = [status EXCEPT ![j] = "running"]
            /\ UNCHANGED asked

(* A running job ends once, and is called cancelled only if it was asked. *)
End(j, verdict) == /\ status[j] = "running"
                   /\ verdict = "cancelled" => asked[j]
                   /\ status' = [status EXCEPT ![j] = verdict]
                   /\ UNCHANGED asked

Next == \E j \in Job : \/ Submit(j) \/ Drop(j) \/ Ask(j) \/ Start(j)
                       \/ \E verdict \in Terminal : End(j, verdict)

Spec == Init /\ [][Next]_vars
=============================================================================

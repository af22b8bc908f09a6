----------------------------- MODULE JobService -----------------------------
(***************************************************************************)
(* What a dispatcher may rely on when it gives a job to an action server   *)
(* through ServerSendMessage(): the job is sent or it is not; a job that   *)
(* was sent may be reported as starting and is completed once, with the    *)
(* server's status or because the path to the server went down.            *)
(*                                                                         *)
(* A sending that fails after the job was registered, because the answer   *)
(* to it is lost or bad, leaves the job "lost": its caller has been told   *)
(* that it failed, and it may be completed all the same ("late").          *)
(***************************************************************************)

CONSTANT Job
VARIABLE job

JobStates == {"none", "sent", "doing", "done", "refused", "lost", "late"}

TypeOK == job \in [Job -> JobStates]

Init == job = [j \in Job |-> "none"]

Send(j) == job[j] = "none" /\ job' = [job EXCEPT ![j] = "sent"]

Refuse(j, how) ==
  /\ how \in {"refused", "lost"}
  /\ job[j] = "none"
  /\ job' = [job EXCEPT ![j] = how]

Start(j) == job[j] = "sent" /\ job' = [job EXCEPT ![j] = "doing"]

Complete(j) ==
  /\ job[j] \in {"sent", "doing"}
  /\ job' = [job EXCEPT ![j] = "done"]

CompleteLost(j) == job[j] = "lost" /\ job' = [job EXCEPT ![j] = "late"]

Next == \E j \in Job :
  \/ Send(j) \/ Refuse(j, "refused") \/ Refuse(j, "lost")
  \/ Start(j) \/ Complete(j) \/ CompleteLost(j)

Running(j) == job[j] \in {"sent", "doing"}
=============================================================================

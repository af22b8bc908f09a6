---------------------------- MODULE ActionService ----------------------------
(***************************************************************************)
(* What an action server does with the jobs it accepts: it works on them   *)
(* in the order of their acceptance, one at a time, and answers each at    *)
(* most once.  Jobs that wait can be removed, the last one first.  Once an *)
(* abort has been asked for, "one at a time" is no longer promised.        *)
(***************************************************************************)
EXTENDS Naturals, Sequences

CONSTANT Job
VARIABLES queue, fate, killed

Fates == {"none", "queued", "taken", "done", "aborted", "removed", "twice"}

Init ==
  /\ queue = <<>>
  /\ fate = [j \in Job |-> "none"]
  /\ killed = FALSE

Accept(j) ==
  /\ fate[j] = "none"
  /\ queue' = Append(queue, j)
  /\ fate' = [fate EXCEPT ![j] = "queued"]
  /\ UNCHANGED killed

Take ==
  /\ queue # <<>>
  /\ killed \/ \A j \in Job : fate[j] # "taken"
  /\ fate' = [fate EXCEPT ![Head(queue)] = "taken"]
  /\ queue' = Tail(queue)
  /\ UNCHANGED killed

Answer(j, how) ==
  /\ fate[j] = "taken" /\ how \in {"done", "aborted"}
  /\ how = "aborted" => killed
  /\ fate' = [fate EXCEPT ![j] = how]
  /\ UNCHANGED <<queue, killed>>

Kill == killed' = TRUE /\ UNCHANGED <<queue, fate>>

Flush ==
  /\ killed /\ queue # <<>>
  /\ fate' = [fate EXCEPT ![Head(queue)] = "aborted"]
  /\ queue' = Tail(queue)
  /\ UNCHANGED killed

RemoveLast ==
  /\ queue # <<>>
  /\ fate' = [fate EXCEPT ![queue[Len(queue)]] = "removed"]
  /\ queue' = SubSeq(queue, 1, Len(queue) - 1)
  /\ UNCHANGED killed

Next ==
  \/ \E j \in Job : Accept(j) \/ Answer(j, "done") \/ Answer(j, "aborted")
  \/ Take \/ Kill \/ Flush \/ RemoveLast
=============================================================================

---------------------------- MODULE ActionServer ----------------------------
(***************************************************************************)
(* The action server of mdsplus/servershr/ServerQAction.c.  The process's  *)
(* main thread calls ServerQAction() for one request after another: jobs   *)
(* go to a doubly linked queue, and a worker thread takes them from it.    *)
(* Jobs are the client's actions, tree closings, pulse creations and       *)
(* commands: what the worker does for them differs, but not in its steps.  *)
(*                                                                         *)
(* SrvAbort cancels the worker, which dies when it comes to a cancellation *)
(* point, and starts another one at once.                                  *)
(***************************************************************************)
EXTENDS Naturals, Sequences, SequencesExt

CONSTANTS
  MaxJobs,     \* bound: jobs that are asked for
  Notify,      \* those whose client wants to know of their start
  MaxWorkers,  \* bound: worker threads that exist at a time
  MaxAborts    \* bound: requests to abort

(* Jobs are numbered as they come, and threads as there is room for them.   *)
Job     == 1 .. MaxJobs
Workers == 1 .. MaxWorkers
Null    == 0

ASSUME ServerAssumption ==
  /\ MaxJobs \in Nat /\ MaxWorkers \in Nat /\ MaxAborts \in Nat
  /\ Notify \subseteq Job

VARIABLES
  first, last,   \* FirstQueueEntry, LastQueueEntry
  next, prev,    \* h.next and h.previous of each job
  current,       \* CurrentJob
  running,       \* WorkerThreadRunning
  thread,        \* WorkerThread, the one started last
  server,        \* where the main thread is
  flush,         \* the abort's argument
  at, mine,      \* where each worker is, and the job it has
  cancelled,     \* the workers with a pending cancellation
  mutexLost,     \* JobWaitMutex is held by a thread that died
  freed,         \* the jobs whose memory has been freed
  fate,          \* history: what has become of each job
  aborts,        \* history: how many aborts there were
  untimely,      \* history: an abort came when a worker was not at work
  stray          \* history: memory has been used after it was freed

listVars   == <<first, last, next, prev>>
workerVars == <<at, mine>>
mainVars   == <<thread, server, flush, aborts, untimely>>
vars == <<listVars, current, running, mainVars, workerVars, cancelled, mutexLost,
          freed, fate, stray>>

NoJob == Null
Places == {"absent", "starting", "next", "towait", "waiting", "took", "before",
           "doing", "answer", "clear", "free", "dying"}

TypeOK ==
  /\ first \in Job \cup {Null} /\ last \in Job \cup {Null}
  /\ next \in [Job -> Job \cup {Null}] /\ prev \in [Job -> Job \cup {Null}]
  /\ current \in Job \cup {NoJob}
  /\ running \in BOOLEAN /\ flush \in BOOLEAN
  /\ thread \in Workers \cup {Null}
  /\ server \in {"idle", "abort", "clear", "flush", "start"}
  /\ at \in [Workers -> Places]
  /\ mine \in [Workers -> Job \cup {NoJob}]
  /\ \A w \in Workers :
       at[w] \in {"took", "before", "doing", "answer", "clear", "free"} => mine[w] # NoJob
  /\ cancelled \subseteq Workers
  /\ mutexLost \in BOOLEAN /\ stray \in BOOLEAN /\ untimely \in BOOLEAN
  /\ freed \subseteq Job
  /\ fate \in [Job -> {"none", "queued", "taken", "done", "aborted", "removed", "twice"}]
  /\ aborts \in 0 .. MaxAborts

----------------------------------------------------------------------------
(* The queue *)

(* QJob(): the job becomes the last. *)
Link(j) ==
  /\ next' = [k \in Job |-> IF k = j THEN Null ELSE IF k = last THEN j ELSE next[k]]
  /\ prev' = [prev EXCEPT ![j] = last]
  /\ last' = j
  /\ first' = IF first = Null THEN j ELSE first

\* Mutant: the new first entry still points back.
UnlinkFirstKeepingPrevious ==
  /\ first' = next[first]
  /\ last' = IF next[first] = Null THEN Null ELSE last
  /\ UNCHANGED <<next, prev>>

(* NextJob(): the first is taken out. *)
UnlinkFirst ==
  /\ first' = next[first]
  /\ prev' = [k \in Job |-> IF k = next[first] THEN Null ELSE prev[k]]
  /\ last' = IF next[first] = Null THEN Null ELSE last
  /\ UNCHANGED next

(* RemoveLast(): the last is taken out. *)
UnlinkLast ==
  /\ last' = prev[last]
  /\ next' = [k \in Job |-> IF k = prev[last] THEN Null ELSE next[k]]
  /\ first' = IF prev[last] = Null THEN Null ELSE first
  /\ UNCHANGED prev

(* A FINISHED reply; a second one for the same job is told apart. *)
Finished(j, how) ==
  fate' = [fate EXCEPT ![j] = IF @ \in {"done", "aborted"} THEN "twice" ELSE how]

----------------------------------------------------------------------------
(* ServerQAction(), on the main thread *)

(* SrvAction, SrvClose, SrvCreatePulse, SrvCommand: QJob(), and then        *)
(* StartThread() when the queue has been unlocked.                          *)
QJob(j) ==
  /\ server = "idle"
  /\ fate[j] = "none" /\ \A k \in 1 .. j - 1 : fate[k] # "none"
  /\ Link(j)
  /\ fate' = [fate EXCEPT ![j] = "queued"]
  /\ server' = "start"
  /\ UNCHANGED <<current, running, thread, flush, aborts, untimely, workerVars, cancelled,
                 mutexLost, freed, stray>>

\* Mutant: only the new thread says that it runs.
StartThreadUnmarked ==
  /\ server = "start"
  /\ \/ running /\ UNCHANGED <<thread, at>>
     \/ /\ ~running
        /\ \E w \in Workers :
             /\ at[w] = "absent" /\ \A v \in 1 .. w - 1 : at[v] # "absent"
             /\ at' = [at EXCEPT ![w] = "starting"]
             /\ thread' = w
  /\ server' = "idle"
  /\ UNCHANGED <<listVars, current, running, flush, aborts, untimely, mine, cancelled,
                 mutexLost, freed, fate, stray>>

StartThread ==
  /\ server = "start"
  /\ \/ running /\ UNCHANGED <<running, thread, at>>
     \/ /\ ~running
        /\ \E w \in Workers :
             /\ at[w] = "absent" /\ \A v \in 1 .. w - 1 : at[v] # "absent"
             /\ at' = [at EXCEPT ![w] = "starting"]
             /\ thread' = w
        /\ running' = TRUE
  /\ server' = "idle"
  /\ UNCHANGED <<listVars, current, flush, aborts, untimely, mine, cancelled,
                 mutexLost, freed, fate, stray>>

RemoveLast ==
  /\ server = "idle" /\ last # Null
  /\ UnlinkLast
  /\ fate' = [fate EXCEPT ![last] = "removed"]
  /\ freed' = freed \cup {last}
  /\ UNCHANGED <<current, running, mainVars, workerVars, cancelled, mutexLost, stray>>

(* SrvAbort, first KillThread(). *)
KillThread(all) ==
  /\ server = "idle" /\ aborts < MaxAborts
  /\ aborts' = aborts + 1
  /\ flush' = all
  /\ cancelled' = IF running THEN cancelled \cup {thread} ELSE cancelled
  /\ running' = FALSE
  /\ untimely' = (\/ untimely
                  \/ \E w \in Workers :
                       /\ at[w] # "absent"
                       /\ ~(running /\ w = thread /\ at[w] = "doing"))
  /\ server' = "abort"
  /\ UNCHANGED <<listVars, current, thread, workerVars, mutexLost, freed, fate, stray>>

(* AbortJob(GetCurrentJob()), with the queue locked.  The worker may have   *)
(* answered the job already, and is then going to free it again.            *)
AbortCurrent ==
  /\ server = "abort"
  /\ IF current = NoJob
       THEN UNCHANGED <<fate, freed, stray>>
       ELSE /\ Finished(current, "aborted")
            /\ freed' = freed \cup {current}
            /\ stray' = (fate[current] # "taken")
  /\ server' = "clear"
  /\ UNCHANGED <<listVars, current, running, thread, flush, aborts, untimely, workerVars,
                 cancelled, mutexLost>>

ClearCurrent ==
  /\ server = "clear"
  /\ current' = NoJob
  /\ server' = IF flush THEN "flush" ELSE "start"
  /\ UNCHANGED <<listVars, running, thread, flush, aborts, untimely, workerVars,
                 cancelled, mutexLost, freed, fate, stray>>

(* while ((job = NextJob(0)) != 0) AbortJob(job) *)
FlushQueue ==
  /\ server = "flush"
  /\ IF first = Null
       THEN server' = "start" /\ UNCHANGED <<listVars, fate, freed>>
       ELSE /\ UnlinkFirst
            /\ Finished(first, "aborted")
            /\ freed' = freed \cup {first}
            /\ UNCHANGED server
  /\ UNCHANGED <<current, running, thread, flush, aborts, untimely, workerVars, cancelled,
                 mutexLost, stray>>

MainStep == StartThread \/ AbortCurrent \/ ClearCurrent \/ FlushQueue

Request ==
  \/ \E j \in Job : QJob(j)
  \/ RemoveLast
  \/ \E all \in BOOLEAN : KillThread(all)

----------------------------------------------------------------------------
(* Worker() *)

GoTo(w, place) == at' = [at EXCEPT ![w] = place]

Start(w) ==
  /\ at[w] = "starting"
  /\ running' = TRUE
  /\ GoTo(w, "next")
  /\ UNCHANGED <<listVars, current, mainVars, mine, cancelled, mutexLost, freed, fate,
                 stray>>

\* Mutant: a worker that finds nothing to do ends.
NextJobOrEnd(w) ==
  /\ at[w] = "next"
  /\ IF first = Null
       THEN GoTo(w, "dying") /\ UNCHANGED <<listVars, mine, fate>>
       ELSE /\ UnlinkFirst
            /\ mine' = [mine EXCEPT ![w] = first]
            /\ fate' = [fate EXCEPT ![first] = "taken"]
            /\ GoTo(w, "took")
  /\ UNCHANGED <<current, running, mainVars, cancelled, mutexLost, freed, stray>>

NextJob(w) ==
  /\ at[w] = "next"
  /\ IF first = Null
       THEN GoTo(w, "towait") /\ UNCHANGED <<listVars, mine, fate>>
       ELSE /\ UnlinkFirst
            /\ mine' = [mine EXCEPT ![w] = first]
            /\ fate' = [fate EXCEPT ![first] = "taken"]
            /\ GoTo(w, "took")
  /\ UNCHANGED <<current, running, mainVars, cancelled, mutexLost, freed, stray>>

(* WaitForJob(): for a signal, or a second. *)
WaitForJob(w) ==
  /\ at[w] = "towait" /\ ~mutexLost
  /\ GoTo(w, "waiting")
  /\ UNCHANGED <<listVars, current, running, mainVars, mine, cancelled, mutexLost,
                 freed, fate, stray>>

WaitEnds(w) ==
  /\ at[w] = "waiting" /\ ~mutexLost /\ w \notin cancelled
  /\ GoTo(w, "next")
  /\ UNCHANGED <<listVars, current, running, mainVars, mine, cancelled, mutexLost,
                 freed, fate, stray>>

SetCurrentJob(w) ==
  /\ at[w] = "took"
  /\ current' = mine[w]
  /\ GoTo(w, IF mine[w] \in Notify THEN "before" ELSE "doing")
  /\ UNCHANGED <<listVars, running, mainVars, mine, cancelled, mutexLost, freed, fate,
                 stray>>

(* SendReply(job,SrvJobSTARTING,1,0,0) *)
ReplyStarting(w) ==
  /\ at[w] = "before" /\ w \notin cancelled
  /\ stray' = (mine[w] \in freed)
  /\ GoTo(w, "doing")
  /\ UNCHANGED <<listVars, current, running, mainVars, mine, cancelled, mutexLost,
                 freed, fate>>

(* DoSrvAction(), DoSrvClose(), DoSrvCreatePulse(), DoSrvCommand(), ...: a  *)
(* job freed by an abort in the meantime may be looked at again, or not.    *)
DoJob(w) ==
  /\ at[w] = "doing"
  /\ stray' \in BOOLEAN /\ (stray' => mine[w] \in freed)
  /\ GoTo(w, "answer")
  /\ UNCHANGED <<listVars, current, running, mainVars, mine, cancelled, mutexLost,
                 freed, fate>>

(* ... which end with SendReply(job,SrvJobFINISHED,status,0,0). *)
ReplyFinished(w) ==
  /\ at[w] = "answer" /\ w \notin cancelled
  /\ Finished(mine[w], "done")
  /\ stray' = (mine[w] \in freed)
  /\ GoTo(w, "clear")
  /\ UNCHANGED <<listVars, current, running, mainVars, mine, cancelled, mutexLost,
                 freed>>

ClearJob(w) ==
  /\ at[w] = "clear"
  /\ current' = NoJob
  /\ GoTo(w, "free")
  /\ UNCHANGED <<listVars, running, mainVars, mine, cancelled, mutexLost, freed, fate,
                 stray>>

FreeJob(w) ==
  /\ at[w] = "free"
  /\ freed' = freed \cup {mine[w]}
  /\ stray' = (mine[w] \in freed)
  /\ mine' = [mine EXCEPT ![w] = NoJob]
  /\ GoTo(w, "next")
  /\ UNCHANGED <<listVars, current, running, mainVars, cancelled, mutexLost, fate>>

(* A cancelled worker dies where it can: in the wait, whose mutex it has    *)
(* then taken again; before the first byte of a reply; and, if what it does *)
(* has a cancellation point, there.                                         *)
Die(w) ==
  /\ w \in cancelled
  /\ \/ at[w] = "waiting" /\ ~mutexLost /\ mutexLost' = TRUE
     \/ at[w] \in {"before", "doing", "answer"} /\ UNCHANGED mutexLost
  /\ GoTo(w, "dying")
  /\ UNCHANGED <<listVars, current, running, mainVars, mine, cancelled, freed, fate,
                 stray>>

ThreadCleanup(w) ==
  /\ at[w] = "dying"
  /\ running' = FALSE
  /\ cancelled' = cancelled \ {w}
  /\ mine' = [mine EXCEPT ![w] = NoJob]
  /\ GoTo(w, "absent")
  /\ UNCHANGED <<listVars, current, mainVars, mutexLost, freed, fate, stray>>

Worker(w) ==
  \/ Start(w) \/ NextJob(w) \/ WaitForJob(w) \/ WaitEnds(w) \/ SetCurrentJob(w)
  \/ ReplyStarting(w) \/ DoJob(w) \/ ReplyFinished(w) \/ ClearJob(w) \/ FreeJob(w)
  \/ Die(w) \/ ThreadCleanup(w)

----------------------------------------------------------------------------

Init ==
  /\ first = Null /\ last = Null
  /\ next = [j \in Job |-> Null] /\ prev = [j \in Job |-> Null]
  /\ current = NoJob
  /\ running = FALSE /\ thread = Null
  /\ server = "idle" /\ flush = FALSE
  /\ at = [w \in Workers |-> "absent"] /\ mine = [w \in Workers |-> NoJob]
  /\ cancelled = {}
  /\ mutexLost = FALSE
  /\ freed = {}
  /\ fate = [j \in Job |-> "none"]
  /\ aborts = 0
  /\ untimely = FALSE
  /\ stray = FALSE

BoundReached == server = "start" /\ ~running /\ \A w \in Workers : at[w] # "absent"

(* Nothing is asked for, or the behaviour is not followed any further:      *)
(* freed memory has been used, or there are too many threads.               *)
Rest == (server = "idle" \/ stray \/ BoundReached) /\ UNCHANGED vars

Next ==
  \/ ~stray /\ (Request \/ MainStep \/ \E w \in Workers : Worker(w))
  \/ Rest

Spec == Init /\ [][Next]_vars

(* Both threads run, and every job's work ends, up to there. *)
Fairness ==
  WF_vars(~stray /\ MainStep) /\ \A w \in Workers : WF_vars(~stray /\ Worker(w))

FairSpec == Spec /\ Fairness

----------------------------------------------------------------------------
(* Properties *)

(* The queue as it is read from the first entry on, and from the last.      *)
Forward(q) ==
  /\ first = IF q = <<>> THEN Null ELSE q[1]
  /\ \A i \in DOMAIN q : next[q[i]] = IF i = Len(q) THEN Null ELSE q[i + 1]

Backward(q) ==
  /\ last = IF q = <<>> THEN Null ELSE q[Len(q)]
  /\ \A i \in DOMAIN q : prev[q[i]] = IF i = 1 THEN Null ELSE q[i - 1]

Queue == CHOOSE q \in SeqOf(Job, MaxJobs) : Forward(q)

Service == INSTANCE ActionService WITH queue <- Queue, killed <- aborts > 0

(* The linked list is a queue in both directions, of the jobs that wait,    *)
(* each of which is in it once.                                             *)
QueueLinked ==
  \E q \in SeqOf(Job, MaxJobs) :
    /\ Forward(q) /\ Backward(q)
    /\ IsInjective(q)
    /\ Range(q) = {j \in Job : fate[j] = "queued"}

(* Up to a job freed twice, the server is the one of ActionService: jobs    *)
(* are taken in order, one at a time as long as none is aborted, and each   *)
(* is answered once.                                                        *)
ImplementsService ==
  Service!Init /\ [][Service!Next \/ stray']_<<Queue, fate, aborts>>

(* Every job that was accepted is done, aborted or removed, as long as      *)
(* aborts come while the worker is at work on a job, which it does not look *)
(* at again.                                                                *)
EveryJobEnds ==
  \A j \in Job :
    fate[j] = "queued" ~> fate[j] \in {"done", "aborted", "removed"} \/ untimely \/ stray

(* A job is answered once. *)
AnsweredOnce == \A j \in Job : fate[j] # "twice"

=============================================================================

--------------------------- MODULE DispatchPhase ---------------------------
(***************************************************************************)
(* The action dispatcher of mdsplus/servershr: ServerDispatchPhase() runs  *)
(* the actions of one phase of an experiment cycle.  Actions with a        *)
(* sequence number are dispatched group by group; actions with a condition *)
(* are dispatched when the actions the condition names are done.           *)
(*                                                                         *)
(* Four kinds of thread share the dispatch table: the caller of            *)
(* ServerDispatchPhase() ("main"), the thread that processes completed     *)
(* actions (DoneThreads: a race at its start makes it two), and the        *)
(* receiver of ServerSendMessage.c, whose steps are those of JobService.   *)
(***************************************************************************)
EXTENDS Naturals, Sequences, FiniteSets

CONSTANTS
  Actions,      \* 1..num, the table's indices
  Shots,        \* what is dispatched, and how
  Sync,         \* the argument sync of each call
  Essential,    \* actions whose tree node is marked essential
  DoneThreads,  \* the threads that may process completed actions
  MaxSends      \* bound: how often an action can be sent

NoWhen == [refs |-> {}, on |-> "sequence"]

Table == [phase : [Actions -> Nat], sequence : [Actions -> Nat],
          when : [Actions -> {NoWhen} \cup [refs : SUBSET Actions,
                                           on : {"all", "none", "error"}]]]

(* qsort() with CompareActions: by phase, then by sequence number; an       *)
(* action with a condition has sequence number 0.                           *)
CompareActions(tab, i, j) ==
  \/ tab.phase[i] < tab.phase[j]
  \/ tab.phase[i] = tab.phase[j] /\ tab.sequence[i] <= tab.sequence[j]

Sorted(tab) == \A i, j \in Actions : i < j => CompareActions(tab, i, j)

ASSUME SizesAssumption ==
  /\ IsFiniteSet(Actions) /\ Actions = 1 .. Cardinality(Actions)
  /\ Sync \in Nat
  /\ MaxSends \in Nat
  /\ Essential \subseteq Actions
  /\ "main" \notin DoneThreads

(* A shot: the table ServerBuildDispatchTable() left, the phases dispatched *)
(* one call after another, each once, what may become of a job that is not  *)
(* sent, and the threads that may come to process completed actions.  A     *)
(* phase has an action with a number: without one the code takes the end of *)
(* its last group (last_g) from uninitialized memory.                       *)
ASSUME ShotsAssumption ==
  \A s \in Shots :
    /\ s \in [table : Table, phases : Seq(Nat),
                 refusals : SUBSET {"refused", "lost"}, threads : SUBSET DoneThreads]
    /\ Sorted(s.table)
    /\ \A k, m \in DOMAIN s.phases : s.phases[k] = s.phases[m] => k = m
    /\ \A i \in Actions : s.table.when[i] = NoWhen <=> s.table.sequence[i] > 0
    /\ \A k \in DOMAIN s.phases :
         \E i \in Actions : s.table.phase[i] = s.phases[k] /\ s.table.sequence[i] > 0

VARIABLES
  shot,        \* the table and what is done with it
  noact,       \* dispatch without sending anything
  act,         \* the fields of each ActionInfo that change
  value,       \* the TDI variable PUBLIC _ACTION_<nid> of each action
  completed,   \* the queue of completed actions
  running,     \* ProcessActionDoneRunning
  abort,       \* AbortInProgress
  failed,      \* table->failed_essential
  mutex,       \* who holds dispatch_mutex
  at,          \* where each thread is
  item,        \* the action a thread is working on
  deps,        \* a thread's loop over the actions that refer to its item
  target,      \* the action a thread is dispatching
  first_g,     \* main: the start of the current group,
  last_g,      \*       its end,
  calls,       \*       and the phases still to be dispatched, the current first
  job,         \* the jobs given to the action servers
  sends,       \* how often an action has been sent
  tree,        \* the status in each action's tree node
  torn         \* history: a store to one flag has undone the store to another

vars == <<shot, noact, act, value, completed, running, abort, failed, mutex, at,
          item, deps, target, first_g, last_g, calls, job, sends, tree, torn>>

mainVars == <<first_g, last_g, calls>>
fixed    == <<shot, noact>>

Job == Actions \X (1 .. MaxSends)
Jobs == INSTANCE JobService

table == shot.table

Statuses == {"none", "ok", "error", "NOT_DISPATCHED", "INVALID_DEPENDENCY",
             "CANT_HAPPEN", "PATH_DOWN"}
Odd(s) == s = "ok"

Threads == {"main"} \cup DoneThreads
NoOne == "no one"
NoAction == 0

Places == {"absent", "starting", "idle", "taken", "refs", "done", "unrecord",
           "group", "next", "wait", "waitall", "cannot", "waitlast", "record",
           "returned", "lock", "send", "mark", "unsent"}

TypeOK ==
  /\ shot \in Shots /\ noact \in BOOLEAN
  /\ act \in [Actions -> [status : Statuses, done : BOOLEAN, doing : BOOLEAN,
                          dispatched : BOOLEAN, recorded : BOOLEAN]]
  /\ value \in [Actions -> Statuses]
  /\ completed \in Seq(Actions)
  /\ running \in BOOLEAN /\ abort \in BOOLEAN /\ failed \in BOOLEAN
  /\ mutex \in Threads \cup {NoOne}
  /\ at \in [Threads -> Places]
  /\ item \in [Threads -> Nat]
  /\ deps \in [DoneThreads -> SUBSET Actions]
  /\ target \in [Threads -> Actions \cup {NoAction}]
  /\ first_g \in Nat /\ last_g \in Nat
  /\ calls \in Seq(Nat)
  /\ Jobs!TypeOK
  /\ sends \in [Actions -> 0 .. MaxSends]
  /\ tree \in [Actions -> Statuses] /\ torn \in BOOLEAN

----------------------------------------------------------------------------
(* Ranges of the table *)

OfPhases(ps) == {i \in Actions : ps # <<>> /\ table.phase[i] = Head(ps)}
InPhase == OfPhases(calls)
Conditional(i) == table.when[i] # NoWhen

(* SetActionRanges(): first_c .. last_c - 1 and first_s .. last_s - 1 *)
Conditionals == {i \in InPhase : Conditional(i)}
Sequenced    == InPhase \ Conditionals
Num      == Cardinality(Actions)
First(S) == IF S = {} THEN Num + 1 ELSE CHOOSE i \in S : \A j \in S : i <= j
After(S) == IF S = {} THEN Num + 1 ELSE 1 + CHOOSE i \in S : \A j \in S : j <= i

(* SetGroup() *)
GroupOf(i) == table.sequence[i] \div (IF Sync < 1 THEN 1 ELSE Sync)

\* Mutant: the last action of the sequence is not seen.
GroupEndPastLast ==
  First({i \in first_g + 1 .. After(Sequenced) + 1 :
           i = After(Sequenced) + 1 \/ (i \in Sequenced /\ GroupOf(i) # GroupOf(first_g))})

GroupEnd ==
  First({i \in first_g + 1 .. After(Sequenced) :
           i = After(Sequenced) \/ GroupOf(i) # GroupOf(first_g)})

\* Mutant: only actions that have started are waited for.
OutstandingDoing(i) == act[i].dispatched /\ act[i].doing /\ ~act[i].done

(* NoOutstandingActions(), of one action of the range it looks at *)
Outstanding(i) == act[i].dispatched /\ ~act[i].done

ReferencedBy(i) == {c \in Actions : i \in table.when[c].refs}

\* Mutant: an action that is not done counts as done well.
ConditionOptimistic(c) ==
  IF \A r \in table.when[c].refs : value[r] = "none" \/ Odd(value[r])
    THEN "true" ELSE "false"

(* TdiGetLong() of the condition.  The variable of an action that is not    *)
(* done is undefined, and so is every expression it occurs in.              *)
Condition(c) ==
  LET refs == table.when[c].refs
      on   == table.when[c].on
  IN  IF \E r \in refs : value[r] = "none" THEN "unknown"
      ELSE CASE on = "error" -> "error"
             [] on = "all"   -> IF \A r \in refs : Odd(value[r])  THEN "true" ELSE "false"
             [] OTHER        -> IF \A r \in refs : ~Odd(value[r]) THEN "true" ELSE "false"

----------------------------------------------------------------------------
(* The queue of completed actions *)

(* DoActionDone(): the action is queued, and a thread is started when none  *)
(* has said that it runs, up to as many as the shot allows.                 *)
DoActionDone(i, atNext) ==
  /\ completed' = Append(completed, i)
  /\ IF running \/ \A t \in shot.threads : at[t] # "absent"
       THEN at' = atNext
       ELSE \E t \in shot.threads :
              at[t] = "absent" /\ at' = [atNext EXCEPT ![t] = "starting"]

NotDone == UNCHANGED completed

GoTo(t, place) == [at EXCEPT ![t] = place]

SetStatus(i, s) == act' = [act EXCEPT ![i].status = s]

----------------------------------------------------------------------------
(* Dispatch(i), by any thread *)

Return(t) == IF t = "main" THEN "next" ELSE "refs"

(* dispatch_mutex is taken and the action's flags are cleared. *)
Lock(t) ==
  /\ at[t] = "lock"
  /\ mutex = NoOne
  /\ mutex' = t
  /\ act' = [act EXCEPT ![target[t]] =
               [@ EXCEPT !.done = FALSE, !.doing = FALSE, !.dispatched = FALSE]]
  /\ at' = GoTo(t, "send")
  /\ UNCHANGED <<fixed, mainVars, value, completed, running, abort, failed, item,
                 deps, target, job, sends, tree, torn>>

(* noact: the action counts as dispatched and done. *)
SendNothing(t) ==
  /\ at[t] = "send" /\ noact
  /\ act' = [act EXCEPT ![target[t]] = [@ EXCEPT !.dispatched = TRUE, !.status = "ok"]]
  /\ DoActionDone(target[t], GoTo(t, Return(t)))
  /\ mutex' = NoOne
  /\ UNCHANGED <<fixed, mainVars, value, running, abort, failed, item, deps, target,
                 job, sends, tree, torn>>

(* ServerDispatchAction() under send_msg_mutex: the job is sent, or not. *)
Send(t) ==
  LET i == target[t] n == sends[target[t]] + 1 IN
  /\ at[t] = "send" /\ ~noact
  /\ n <= MaxSends
  /\ sends' = [sends EXCEPT ![i] = n]
  /\ \/ Jobs!Send(<<i, n>>) /\ at' = GoTo(t, "mark")
     \/ /\ \E how \in shot.refusals : Jobs!Refuse(<<i, n>>, how)
        /\ at' = GoTo(t, "unsent")
  /\ UNCHANGED <<fixed, mainVars, act, value, completed, running, abort, failed,
                 mutex, item, deps, target, tree, torn>>

(* The flags of an action are bits of one word, and the receiver or a done  *)
(* thread may store another bit between this thread's load and store.       *)
Mark(t) ==
  LET i == target[t] IN
  /\ at[t] = "mark"
  /\ \/ act' = [act EXCEPT ![i].dispatched = TRUE] /\ UNCHANGED torn
     \/ /\ act[i].done \/ act[i].doing
        /\ act' = [act EXCEPT ![i] =
                     [@ EXCEPT !.dispatched = TRUE, !.done = FALSE, !.doing = FALSE]]
        /\ torn' = TRUE
  /\ mutex' = NoOne
  /\ at' = GoTo(t, Return(t))
  /\ UNCHANGED <<fixed, mainVars, value, completed, running, abort, failed, item,
                 deps, target, job, sends, tree>>

NotSent(t) ==
  /\ at[t] = "unsent"
  /\ SetStatus(target[t], "PATH_DOWN")
  /\ DoActionDone(target[t], GoTo(t, Return(t)))
  /\ mutex' = NoOne
  /\ UNCHANGED <<fixed, mainVars, value, running, abort, failed, item, deps, target,
                 job, sends, tree, torn>>

Dispatch(t) == Lock(t) \/ SendNothing(t) \/ Send(t) \/ Mark(t) \/ NotSent(t)

----------------------------------------------------------------------------
(* ServerDispatchPhase(), on the main thread *)

(* One group after another *)
BeginGroup ==
  /\ at["main"] = "group"
  /\ IF first_g < After(Sequenced)
       THEN /\ last_g' = GroupEnd
            /\ item' = [item EXCEPT !["main"] = first_g]
            /\ at' = GoTo("main", "next")
       ELSE /\ at' = GoTo("main", "waitall")
            /\ item' = [item EXCEPT !["main"] = First(Conditionals)]
            /\ UNCHANGED last_g
  /\ UNCHANGED <<fixed, act, value, completed, running, abort, failed, mutex, deps,
                 target, first_g, calls, job, sends, tree, torn>>

DispatchNext ==
  /\ at["main"] = "next"
  /\ IF item["main"] < last_g
       THEN /\ target' = [target EXCEPT !["main"] = item["main"]]
            /\ item' = [item EXCEPT !["main"] = @ + 1]
            /\ at' = GoTo("main", "lock")
       ELSE /\ item' = [item EXCEPT !["main"] = first_g]
            /\ at' = GoTo("main", "wait")
            /\ UNCHANGED target
  /\ UNCHANGED <<fixed, mainVars, act, value, completed, running, abort, failed,
                 mutex, deps, job, sends, tree, torn>>

(* WaitForActions(): the flags are looked at one action at a time, without  *)
(* a lock; at the first that is outstanding it waits and starts again.      *)
Looking(place, from, to) ==
  /\ at["main"] = place
  /\ item["main"] < to
  /\ IF Outstanding(item["main"])
       THEN item' = [item EXCEPT !["main"] = from]
       ELSE item' = [item EXCEPT !["main"] = @ + 1]
  /\ UNCHANGED <<fixed, mainVars, act, value, completed, running, abort, failed,
                 mutex, at, deps, target, job, sends, tree, torn>>

(* At the end of the phase the range of the groups is empty, and only the   *)
(* actions with a condition are looked at.                                  *)
WaitForActions ==
  \/ Looking("wait", first_g, last_g)
  \/ Looking("waitall", First(Conditionals), After(Conditionals))
  \/ Looking("waitlast", First(Conditionals), After(Conditionals))

GroupDone ==
  /\ at["main"] = "wait" /\ item["main"] = last_g
  /\ first_g' = last_g
  /\ at' = GoTo("main", "group")
  /\ UNCHANGED <<fixed, act, value, completed, running, abort, failed, mutex, item,
                 deps, target, last_g, calls, job, sends, tree, torn>>

EndDependencies ==
  /\ at["main"] = "waitall" /\ item["main"] = After(Conditionals)
  /\ abort' = TRUE
  /\ item' = [item EXCEPT !["main"] = First(Conditionals)]
  /\ at' = GoTo("main", "cannot")
  /\ UNCHANGED <<fixed, mainVars, act, value, completed, running, failed, mutex,
                 deps, target, job, sends, tree, torn>>

\* Mutant: an action that cannot happen does not become done.
CannotHappenNotDone ==
  LET i == item["main"] IN
  /\ at["main"] = "cannot"
  /\ IF i < After(Conditionals)
       THEN /\ item' = [item EXCEPT !["main"] = i + 1]
            /\ IF act[i].done THEN UNCHANGED act ELSE SetStatus(i, "CANT_HAPPEN")
            /\ UNCHANGED at
       ELSE /\ item' = [item EXCEPT !["main"] = First(Conditionals)]
            /\ at' = GoTo("main", "waitlast")
            /\ UNCHANGED act
  /\ NotDone
  /\ UNCHANGED <<fixed, mainVars, value, running, abort, failed, mutex, deps, target,
                 job, sends, tree, torn>>

(* What has not been done by now cannot happen.  The code stores the status *)
(* a moment after its look at done; both are one step here.                 *)
CannotHappen ==
  LET i == item["main"] IN
  /\ at["main"] = "cannot"
  /\ IF i < After(Conditionals)
       THEN /\ item' = [item EXCEPT !["main"] = i + 1]
            /\ IF act[i].done
                 THEN UNCHANGED <<act, at>> /\ NotDone
                 ELSE SetStatus(i, "CANT_HAPPEN") /\ DoActionDone(i, at)
       ELSE /\ item' = [item EXCEPT !["main"] = First(Conditionals)]
            /\ at' = GoTo("main", "waitlast")
            /\ UNCHANGED act
            /\ NotDone
  /\ UNCHANGED <<fixed, mainVars, value, running, abort, failed, mutex, deps, target,
                 job, sends, tree, torn>>

BeginRecord ==
  /\ at["main"] = "waitlast" /\ item["main"] = After(Conditionals)
  /\ at' = GoTo("main", IF noact THEN "returned" ELSE "record")
  /\ item' = [item EXCEPT !["main"] = First(InPhase)]
  /\ UNCHANGED <<fixed, mainVars, act, value, completed, running, abort, failed,
                 mutex, deps, target, job, sends, tree, torn>>

\* Mutant: the next action's success hides a failure.
RecordStatusOfLast ==
  LET i == item["main"] IN
  /\ at["main"] = "record"
  /\ IF i < After(InPhase)
       THEN /\ item' = [item EXCEPT !["main"] = i + 1]
            /\ tree' = [tree EXCEPT ![i] = act[i].status]
            /\ act' = [act EXCEPT ![i].recorded = TRUE]
            /\ failed' = (~Odd(act[i].status) /\ i \in Essential)
            /\ UNCHANGED at
       ELSE at' = GoTo("main", "returned") /\ UNCHANGED <<item, tree, act, failed>>
  /\ UNCHANGED <<fixed, mainVars, value, completed, running, abort, mutex, deps,
                 target, job, sends, torn>>

(* RecordStatus(first_c, last_c) and RecordStatus(first_s, last_s) *)
RecordStatus ==
  LET i == item["main"] IN
  /\ at["main"] = "record"
  /\ IF i < After(InPhase)
       THEN /\ item' = [item EXCEPT !["main"] = i + 1]
            /\ UNCHANGED at
            /\ IF act[i].done /\ ~act[i].recorded
                 THEN /\ tree' = [tree EXCEPT ![i] = act[i].status]
                      /\ act' = [act EXCEPT ![i].recorded = TRUE]
                      /\ failed' = (failed \/ (~Odd(act[i].status) /\ i \in Essential))
                 ELSE UNCHANGED <<tree, act, failed>>
       ELSE at' = GoTo("main", "returned") /\ UNCHANGED <<item, tree, act, failed>>
  /\ UNCHANGED <<fixed, mainVars, value, completed, running, abort, mutex, deps,
                 target, job, sends, torn>>

(* The next call: AbortInProgress and failed_essential start again at 0. *)
NextPhase ==
  /\ at["main"] = "returned" /\ calls # <<>>
  /\ calls' = Tail(calls)
  /\ IF Tail(calls) = <<>>
       THEN UNCHANGED <<at, abort, failed, first_g>>
       ELSE /\ abort' = FALSE /\ failed' = FALSE
            /\ first_g' = First({i \in OfPhases(Tail(calls)) : ~Conditional(i)})
            /\ at' = GoTo("main", "group")
  /\ UNCHANGED <<fixed, act, value, completed, running, mutex, item, deps, target,
                 last_g, job, sends, tree, torn>>

Main == \/ BeginGroup \/ DispatchNext \/ WaitForActions \/ GroupDone
        \/ EndDependencies \/ CannotHappen \/ BeginRecord \/ RecordStatus
        \/ NextPhase

----------------------------------------------------------------------------
(* ProcessActionDone(), on its own thread *)

ThreadStarts(t) ==
  /\ at[t] = "starting"
  /\ running' = TRUE
  /\ at' = GoTo(t, "idle")
  /\ UNCHANGED <<fixed, mainVars, act, value, completed, abort, failed, mutex, item,
                 deps, target, job, sends, tree, torn>>

DequeueCompletedAction(t) ==
  /\ at[t] = "idle" /\ completed # <<>>
  /\ item' = [item EXCEPT ![t] = Head(completed)]
  /\ completed' = Tail(completed)
  /\ at' = GoTo(t, "taken")
  /\ UNCHANGED <<fixed, mainVars, act, value, running, abort, failed, mutex, deps,
                 target, job, sends, tree, torn>>

(* ActionDone(): unless the phase is over, the action's status becomes the  *)
(* value of its variable, and the actions that refer to it are considered.  *)
ActionDone(t) ==
  /\ at[t] = "taken"
  /\ IF abort
       THEN at' = GoTo(t, "done") /\ UNCHANGED <<value, deps>>
       ELSE /\ value' = [value EXCEPT ![item[t]] = act[item[t]].status]
            /\ deps' = [deps EXCEPT ![t] = ReferencedBy(item[t])]
            /\ at' = GoTo(t, "refs")
  /\ UNCHANGED <<fixed, mainVars, act, completed, running, abort, failed, mutex, item,
                 target, job, sends, tree, torn>>

Consider(t) ==
  LET c == First(deps[t]) IN
  /\ at[t] = "refs" /\ deps[t] # {}
  /\ deps' = [deps EXCEPT ![t] = @ \ {c}]
  /\ \/ /\ act[c].done \/ Condition(c) = "unknown"
        /\ UNCHANGED <<act, at, target>> /\ NotDone
     \/ /\ ~act[c].done /\ Condition(c) = "true"
        /\ target' = [target EXCEPT ![t] = c]
        /\ at' = GoTo(t, "lock")
        /\ UNCHANGED act /\ NotDone
     \/ /\ ~act[c].done /\ Condition(c) \in {"false", "error"}
        /\ SetStatus(c, IF Condition(c) = "false" THEN "NOT_DISPATCHED"
                                                  ELSE "INVALID_DEPENDENCY")
        /\ DoActionDone(c, at)
        /\ UNCHANGED target
  /\ UNCHANGED <<fixed, mainVars, value, running, abort, failed, mutex, item, job,
                 sends, tree, torn>>

SetDone(t) ==
  /\ at[t] = "done" \/ (at[t] = "refs" /\ deps[t] = {})
  /\ act' = [act EXCEPT ![item[t]].done = TRUE]
  /\ at' = GoTo(t, "unrecord")
  /\ UNCHANGED <<fixed, mainVars, value, completed, running, abort, failed, mutex,
                 item, deps, target, job, sends, tree, torn>>

ClearRecorded(t) ==
  /\ at[t] = "unrecord"
  /\ act' = [act EXCEPT ![item[t]].recorded = FALSE]
  /\ at' = GoTo(t, "idle")
  /\ UNCHANGED <<fixed, mainVars, value, completed, running, abort, failed, mutex,
                 item, deps, target, job, sends, tree, torn>>

ProcessActionDone(t) ==
  \/ ThreadStarts(t) \/ DequeueCompletedAction(t) \/ ActionDone(t)
  \/ Consider(t) \/ SetDone(t) \/ ClearRecorded(t)

----------------------------------------------------------------------------
(* The receiver's callbacks *)

(* Before() sets a flag too: its store may take back that the action is     *)
(* dispatched.  For a job that is lost the flag is of no use to anybody.    *)
Before(j) ==
  /\ Jobs!Start(j)
  /\ \/ act' = [act EXCEPT ![j[1]].doing = TRUE] /\ UNCHANGED torn
     \/ /\ act[j[1]].dispatched
        /\ act' = [act EXCEPT ![j[1]] = [@ EXCEPT !.doing = TRUE, !.dispatched = FALSE]]
        /\ torn' = TRUE
  /\ UNCHANGED <<fixed, mainVars, value, completed, running, abort, failed, mutex,
                 at, item, deps, target, sends, tree>>

(* The status of the action is set, then DoActionDone() is called. *)
Completion(j) ==
  /\ Jobs!Complete(j) \/ Jobs!CompleteLost(j)
  /\ \E s \in {"ok", "error"} : SetStatus(j[1], s)
  /\ DoActionDone(j[1], at)
  /\ UNCHANGED <<fixed, mainVars, value, running, abort, failed, mutex, item, deps,
                 target, sends, tree, torn>>

----------------------------------------------------------------------------

Init ==
  /\ shot \in Shots
  /\ noact \in BOOLEAN
  /\ act = [i \in Actions |-> [status |-> "none", done |-> FALSE, doing |-> FALSE,
                               dispatched |-> FALSE, recorded |-> FALSE]]
  /\ value = [i \in Actions |-> "none"]
  /\ completed = <<>>
  /\ running = FALSE /\ abort = FALSE /\ failed = FALSE
  /\ mutex = NoOne
  /\ at = [t \in Threads |-> IF t = "main" THEN "group" ELSE "absent"]
  /\ item = [t \in Threads |-> 0]
  /\ deps = [t \in DoneThreads |-> {}]
  /\ target = [t \in Threads |-> NoAction]
  /\ calls = shot.phases
  /\ first_g = First(Sequenced) /\ last_g = 0
  /\ Jobs!Init
  /\ sends = [i \in Actions |-> 0]
  /\ tree = [i \in Actions |-> "none"]
  /\ torn = FALSE

Idle ==
  /\ calls = <<>> /\ completed = <<>>
  /\ \A t \in DoneThreads : at[t] \in {"absent", "idle"}
  /\ \A j \in Job : ~Jobs!Running(j)

BoundReached == \E t \in Threads : at[t] = "send" /\ sends[target[t]] = MaxSends

(* Nothing is left to do, or the behaviour is not followed any further. *)
Rest == (Idle \/ torn \/ BoundReached) /\ UNCHANGED vars

(* A behaviour is followed up to the first flag that is lost: the action    *)
(* may then be waited for for ever, or not be waited for.                   *)
Next ==
  \/ /\ ~torn
     /\ \/ Main
        \/ \E t \in Threads : Dispatch(t)
        \/ \E t \in DoneThreads : ProcessActionDone(t)
        \/ \E j \in Job : Before(j) \/ Completion(j)
  \/ Rest

Spec == Init /\ [][Next]_vars

(* Each thread runs, dispatch_mutex is granted in turn, and every job that  *)
(* was sent is completed, with a status or because its path went down.      *)
Fairness ==
  /\ WF_vars(Main)
  /\ \A t \in Threads : SF_vars(Lock(t)) /\ WF_vars(Dispatch(t))
  /\ \A t \in DoneThreads : WF_vars(ProcessActionDone(t))
  /\ \A j \in Job : WF_vars(Jobs!Running(j) /\ Completion(j))

FairSpec == Spec /\ Fairness

----------------------------------------------------------------------------
(* Properties *)

Busy(i) == \E n \in 1 .. MaxSends : Jobs!Running(<<i, n>>)
Ran(i)  == \E n \in 1 .. MaxSends : job[<<i, n>>] = "done"

(* No second thread processes completed actions, ... *)
OneThread == \A s, t \in DoneThreads : at[s] # "absent" /\ at[t] # "absent" => s = t
(* ... no job is left behind whose sending was reported as failed, and no   *)
(* store to a flag was undone by another thread, ...                        *)
NoneLost  == ~torn /\ \A j \in Job : job[j] \notin {"lost", "late"}
(* ... and an action whose end triggers another one is one that main waits  *)
(* for, or ends while main looks at the actions before it in the table.     *)
Awaited ==
  \A c \in Actions : \A r \in table.when[c].refs :
    /\ table.phase[r] = table.phase[c]
    /\ Conditional(r) => r < c
    /\ table.when[c].on = "none" =>
         ~Conditional(r) /\ \A n \in 1 .. MaxSends : job[<<r, n>>] # "refused"

Regular == OneThread /\ NoneLost /\ Awaited

(* No action of a group is given to a server while one of an earlier group  *)
(* of the phase, as cut by SetGroup(), is still running.                    *)
GroupsInOrder ==
  ~torn =>
  \A i, k \in Sequenced : Busy(i) /\ sends[k] > 0 => GroupOf(k) <= GroupOf(i)

(* When an action with a condition has been dispatched, the actions its     *)
(* condition names have ended, and as the condition requires.               *)
DependenciesHold ==
  Regular =>
  \A c \in Actions : Conditional(c) /\ sends[c] > 0 =>
    \A r \in table.when[c].refs :
      /\ act[r].status # "none" /\ ~Busy(r)
      /\ table.when[c].on = IF Odd(act[r].status) THEN "all" ELSE "none"

(* An action is not run twice, although several actions trigger it and two  *)
(* threads dispatch.                                                        *)
DispatchedOnce == Regular => \A i \in Actions : sends[i] <= 1

(* When ServerDispatchPhase() returns, nothing of the phase is running, and *)
(* what ran has its status in the tree; a failed essential action is told.  *)
ReturnsComplete ==
  at["main"] = "returned" /\ ~noact /\ Regular =>
    \A i \in InPhase :
      /\ ~Busy(i)
      /\ Ran(i) => /\ tree[i] = act[i].status /\ tree[i] \in {"ok", "error"}
                   /\ tree[i] = "error" /\ i \in Essential => failed

(* An action that is said not to be able to happen has not been run: its    *)
(* condition is not fulfilled by what the actions it names did, or no       *)
(* server took it.                                                          *)
Fulfilled(c) ==
  /\ table.when[c].refs # {}
  /\ \A r \in table.when[c].refs :
       Ran(r) /\ table.when[c].on = IF Odd(act[r].status) THEN "all" ELSE "none"

CannotHappenTrue ==
  Regular =>
  \A c \in Actions : act[c].status = "CANT_HAPPEN" =>
    /\ \A n \in 1 .. MaxSends : job[<<c, n>>] \in {"none", "refused"}
    /\ Fulfilled(c) => sends[c] > 0

(* All calls return, and every action of their phases comes to an end.      *)
Settles ==
  <>torn \/ <>[](/\ calls = <<>>
       /\ \A i \in Actions :
            (\E k \in DOMAIN shot.phases : shot.phases[k] = table.phase[i]) => act[i].done)

=============================================================================

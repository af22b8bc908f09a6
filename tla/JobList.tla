------------------------------- MODULE JobList -------------------------------
(***************************************************************************)
(* The dispatcher's side of ServerSendMessage.c: the list of clients (the  *)
(* action servers it is connected to), the list of jobs it has sent, the   *)
(* thread that sends jobs ("main") and the receiver thread, which accepts  *)
(* the connections the servers make back to it and takes their replies.    *)
(*                                                                         *)
(* Both threads may give a client up.  Sockets are numbers, and a number   *)
(* that is closed is given to the next socket that is opened.              *)
(*                                                                         *)
(* A server here is one life of a server process: one that is started      *)
(* again is another element of Servers with the same Address.  What a      *)
(* server does with its jobs is ActionService's, but for aborts.           *)
(***************************************************************************)
EXTENDS Naturals, Sequences, FiniteSets, FiniteSetsExt

CONSTANTS
  Servers,     \* lives of the action servers
  Address,     \* host and port of each
  Host,        \* host of each
  Fds,         \* socket numbers, but for the listener's
  MaxJobs,     \* bound: jobs that are sent
  MaxClients   \* bound: entries ever made in the list of clients

Job     == 1 .. MaxJobs
Clients == 1 .. MaxClients

ASSUME ListAssumption ==
  /\ IsFiniteSet(Servers) /\ Servers \subseteq Nat \ {0}
  /\ IsFiniteSet(Fds) /\ Fds \subseteq Nat \ {0}
  /\ MaxJobs \in Nat /\ MaxClients \in Nat
  /\ Address \in [Servers -> Nat \ {0}] /\ Host \in [Servers -> Nat]
  /\ \A s, t \in Servers : Address[s] = Address[t] => Host[s] = Host[t]

VARIABLES
  list,        \* ClientList: the entries; a new one is put last, so they are in
               \* the order of their numbers
  client,      \* their fields: address, host, send_sock, reply_sock
  jobs,        \* Jobs: the entries; a new one is put first, so they are in the
               \* reverse order of their numbers
  sock,        \* j->sock
  marked,      \* j->marked_for_delete
  fd,          \* what each number names
  backlog,     \* servers that wait to be accepted
  active,      \* fdactive
  ready,       \* readfds
  failures,    \* the receiver's rep: selects that failed in a row
  at,          \* where each thread is
  held,        \* the client it has a pointer to
  heldJob,     \* the job it has a pointer to
  lastSock,    \* main: the socket ServerConnect() returned;
               \* both: the number of the client that is being removed
  next,        \* the job main sends, and
  to,          \* its address
  up, dead,    \* the servers that live, and those that have lived,
  work,        \* their jobs, the first in work,
  begun,       \* whether the first has been reported as starting,
  replying,    \* whether they have a connection to the dispatcher,
  wire,        \* and the replies on it
  job,         \* what became of each job, as JobService has it
  for,         \* history: the server that got the job
  why,         \* history: how it was completed
  doomed,      \* the servers that will not live to answer a request
  stray        \* history: the code has gone where it is not followed

clientVars == <<list, client>>
jobVars    == <<jobs, sock, marked>>
rcvVars    == <<active, ready, failures>>
callVars   == <<next, to>>
srvVars    == <<up, dead, work, begun>>
netVars    == <<backlog, replying, wire>>
vars == <<clientVars, jobVars, fd, rcvVars, at, held, heldJob, lastSock, callVars,
          srvVars, netVars, job, for, why, doomed, stray>>

Threads == {"main", "receiver"}
None == 0                       \* no client, no job, no number (the code's -1)
Free == <<"free">>
SendTo(s)    == <<"send", s>>     \* main's connection to s
ReplyFrom(s) == <<"reply", s>>    \* the connection s made back

Service == INSTANCE JobService

Messages == {"STARTING", "FINISHED"} \X Job

TypeOK ==
  /\ list \subseteq Clients
  /\ client \in [Clients -> [address : Nat, host : Nat, send : Fds \cup {None},
                             reply : Fds \cup {None}]]
  /\ jobs \subseteq Job
  /\ sock \in [Job -> Fds \cup {None}] /\ marked \in [Job -> BOOLEAN]
  /\ fd \in [Fds -> {Free} \cup {SendTo(s) : s \in Servers}
                           \cup {ReplyFrom(s) : s \in Servers}]
  /\ backlog \in Seq(Servers)
  /\ active \subseteq Fds /\ ready \subseteq Fds /\ failures \in {0, 1}
  /\ at \in [Threads -> {"idle", "check", "connect", "register", "send", "answer",
                         "select", "accept", "scan", "message", "completion",
                         "close", "unlink", "mark", "sweep", "swept"}]
  /\ held \in [Threads -> Clients \cup {None}]
  /\ heldJob \in [Threads -> Job \cup {None}]
  /\ lastSock \in [Threads -> Fds \cup {None}]
  /\ next \in 0 .. MaxJobs /\ to \in Nat
  /\ up \subseteq Servers /\ dead \subseteq Servers /\ work \in [Servers -> Seq(Job)]
  /\ begun \in [Servers -> BOOLEAN] /\ replying \in [Servers -> BOOLEAN]
  /\ wire \in [Servers -> Seq(Messages)]
  /\ Service!TypeOK
  /\ for \in [Job -> Servers \cup {None}]
  /\ why \in [Job -> {"none", "finished", "path down"}]
  /\ doomed \subseteq Servers /\ stray \in BOOLEAN

----------------------------------------------------------------------------
(* Sockets *)

Unused == {n \in Fds : fd[n] = Free}
Lowest == Min(Unused)

(* What select() finds to read on a number. *)
Readable(n) ==
  \/ \E s \in Servers : fd[n] = SendTo(s) /\ s \notin up
  \/ \E s \in Servers : fd[n] = ReplyFrom(s) /\ (s \notin up \/ wire[s] # <<>>)

(* ServerBadSocket(): a closed number is not called bad. *)
BadSocket(n) == n = None \/ Readable(n)

(* The servers whose reply connection is among these numbers lose it, and   *)
(* what is on it.                                                           *)
Cut(S) ==
  LET cut == {s \in Servers : \E n \in S : fd[n] = ReplyFrom(s)} IN
  /\ fd' = [n \in Fds |-> IF n \in S THEN Free ELSE fd[n]]
  /\ replying' = [s \in Servers |-> replying[s] /\ s \notin cut]
  /\ wire' = [s \in Servers |-> IF s \in cut THEN <<>> ELSE wire[s]]

GoTo(t, place) == at' = [at EXCEPT ![t] = place]

----------------------------------------------------------------------------
(* The list of jobs *)

Registered(j) == j \in jobs

(* The job is there, and has been sent: one that is completed before it is  *)
(* sent will not be found when its sending fails.                           *)
Completable(j) == Registered(j) /\ job[j] # "none"

(* What the caller is told of a job, when it is completed: JobService does  *)
(* not know "again".                                                        *)
Told(state) ==
  CASE state = "lost"              -> "late"
    [] state \in {"sent", "doing"} -> "done"
    [] OTHER                       -> "again"

(* DoCompletionAst(): the caller's routine is called, and the job removed.  *)
CompleteKeeping(j, how) ==
  /\ why' = [why EXCEPT ![j] = how]
  /\ job' = [job EXCEPT ![j] = Told(@)]
  /\ UNCHANGED jobs

Complete(j, how) ==
  /\ jobs' = jobs \ {j}
  /\ why' = [why EXCEPT ![j] = how]
  /\ job' = [job EXCEPT ![j] = Told(@)]

----------------------------------------------------------------------------
(* RemoveClient(), by any of the two threads *)

(* The threads' ways back. *)
After(t) == IF t = "main" THEN "connect" ELSE "scan"

(* Both connections are closed, of whatever is in the entry by now.         *)
Close(t) ==
  LET c == client[held[t]] IN
  /\ at[t] = "close"
  /\ stray' = (held[t] \notin list)
  /\ lastSock' = [lastSock EXCEPT ![t] = c.send]
  /\ Cut({c.reply, c.send} \ {None})
  /\ active' = IF t = "receiver" THEN active \ {c.reply} ELSE active
  /\ GoTo(t, "unlink")
  /\ UNCHANGED <<clientVars, jobVars, ready, failures, held, heldJob, callVars, srvVars,
                 backlog, job, for, why, doomed>>

(* The entry is taken out and freed; freed twice when it was not there.     *)
Unlink(t) ==
  /\ at[t] = "unlink"
  /\ list' = list \ {held[t]}
  /\ stray' = (held[t] \notin list)
  /\ held' = [held EXCEPT ![t] = None]
  /\ GoTo(t, "mark")
  /\ UNCHANGED <<client, jobVars, fd, rcvVars, heldJob, lastSock, callVars, srvVars,
                 netVars, job, for, why, doomed>>

(* The jobs sent on that socket, as a number, are lost ... *)
MarkAll(t) ==
  /\ at[t] = "mark"
  /\ marked' = [j \in Job |-> marked[j] \/ Registered(j)]
  /\ GoTo(t, "sweep")
  /\ UNCHANGED <<clientVars, jobs, sock, fd, rcvVars, held, heldJob, lastSock, callVars,
                 srvVars, netVars, job, for, why, doomed, stray>>

Mark(t) ==
  /\ at[t] = "mark"
  /\ marked' = [j \in Job |->
                  marked[j] \/ (Registered(j) /\ sock[j] = lastSock[t])]
  /\ GoTo(t, "sweep")
  /\ UNCHANGED <<clientVars, jobs, sock, fd, rcvVars, held, heldJob, lastSock, callVars,
                 srvVars, netVars, job, for, why, doomed, stray>>

(* ... and are completed one by one. *)
Sweep(t) ==
  LET lost == {j \in jobs : marked[j]} IN
  /\ at[t] = "sweep"
  /\ IF lost = {}
       THEN GoTo(t, After(t)) /\ UNCHANGED heldJob
       ELSE GoTo(t, "swept") /\ heldJob' = [heldJob EXCEPT ![t] = Max(lost)]
  /\ UNCHANGED <<clientVars, jobVars, fd, rcvVars, held, lastSock, callVars, srvVars,
                 netVars, job, for, why, doomed, stray>>

CompleteFirstLost(t) ==
  /\ at[t] = "swept"
  /\ IF Completable(heldJob[t])
       THEN Complete(heldJob[t], "path down") /\ UNCHANGED stray
       ELSE stray' = TRUE /\ UNCHANGED <<jobs, why, job>>
  /\ heldJob' = [heldJob EXCEPT ![t] = None]
  /\ GoTo(t, After(t))
  /\ UNCHANGED <<clientVars, sock, marked, fd, rcvVars, held, lastSock, callVars,
                 srvVars, netVars, for, doomed>>

CompleteLost(t) ==
  /\ at[t] = "swept"
  /\ IF Completable(heldJob[t])
       THEN Complete(heldJob[t], "path down") /\ UNCHANGED stray
       ELSE stray' = TRUE /\ UNCHANGED <<jobs, why, job>>
  /\ heldJob' = [heldJob EXCEPT ![t] = None]
  /\ GoTo(t, "sweep")
  /\ UNCHANGED <<clientVars, sock, marked, fd, rcvVars, held, lastSock, callVars,
                 srvVars, netVars, for, doomed>>

RemoveClient(t) == Close(t) \/ Unlink(t) \/ Mark(t) \/ Sweep(t) \/ CompleteLost(t)

----------------------------------------------------------------------------
(* ServerSendMessage(), on main.  Its callers take turns.                   *)

ClientsAt(a) == {c \in list : client[c].address = a}

(* ServerConnect(): the first client of that address, if there is one. *)
Begin(a) ==
  /\ at["main"] = "idle" /\ next < MaxJobs
  /\ next' = next + 1
  /\ to' = a
  /\ IF ClientsAt(a) = {}
       THEN GoTo("main", "connect") /\ UNCHANGED held
       ELSE GoTo("main", "check") /\ held' = [held EXCEPT !["main"] = Min(ClientsAt(a))]
  /\ UNCHANGED <<clientVars, jobVars, fd, rcvVars, heldJob, lastSock, srvVars, netVars,
                 job, for, why, doomed, stray>>

(* Is its connection still good?  The list is not locked any more. *)
Check ==
  LET n == client[held["main"]].send IN
  /\ at["main"] = "check"
  /\ IF BadSocket(n)
       THEN GoTo("main", "close") /\ UNCHANGED <<held, lastSock>>
       ELSE /\ GoTo("main", "register")
            /\ lastSock' = [lastSock EXCEPT !["main"] = n]
            /\ held' = [held EXCEPT !["main"] = None]
  /\ stray' = (held["main"] \notin list)
  /\ UNCHANGED <<clientVars, jobVars, fd, rcvVars, heldJob, callVars, srvVars, netVars,
                 job, for, why, doomed>>

(* ConnectToMds() and AddClient(), or PATH_DOWN is returned. *)
Connect ==
  /\ at["main"] = "connect"
  /\ \/ \E s \in up : \E c \in Clients :
          /\ Address[s] = to /\ Unused # {}
          /\ client[c].address = 0 /\ \A d \in 1 .. c - 1 : client[d].address # 0
          /\ fd' = [fd EXCEPT ![Lowest] = SendTo(s)]
          /\ client' = [client EXCEPT ![c] =
                [address |-> to, host |-> Host[s], send |-> Lowest, reply |-> None]]
          /\ list' = list \cup {c}
          /\ lastSock' = [lastSock EXCEPT !["main"] = Lowest]
          /\ GoTo("main", "register")
          /\ UNCHANGED job
     \/ /\ \A s \in up : Address[s] # to
        /\ Service!Refuse(next, "refused")
        /\ GoTo("main", "idle")
        /\ UNCHANGED <<fd, clientVars, lastSock>>
  /\ UNCHANGED <<jobVars, rcvVars, held, heldJob, callVars, srvVars, netVars, for, why,
                 doomed, stray>>

RegisterJob ==
  /\ at["main"] = "register"
  /\ jobs' = jobs \cup {next}
  /\ sock' = [sock EXCEPT ![next] = lastSock["main"]]
  /\ GoTo("main", "send")
  /\ UNCHANGED <<clientVars, marked, fd, rcvVars, held, heldJob, lastSock, callVars,
                 srvVars, netVars, job, for, why, doomed, stray>>

(* SendArg().  When the request cannot be written, CleanupJob() goes into   *)
(* a loop it does not leave: the behaviour is not followed.                 *)
Send ==
  LET n == sock[next] IN
  /\ at["main"] = "send"
  /\ \/ \E s \in up :
          /\ fd[n] = SendTo(s)
          /\ \/ /\ Service!Send(next) /\ UNCHANGED doomed
                /\ work' = [work EXCEPT ![s] = Append(@, next)]
             \/ /\ Service!Refuse(next, "lost") /\ doomed' = doomed \cup {s}
                /\ work' = [work EXCEPT ![s] = Append(@, next)]
             \/ Service!Refuse(next, "lost") /\ UNCHANGED <<work, doomed>>
          /\ for' = [for EXCEPT ![next] = s]
          /\ GoTo("main", "answer")
          /\ UNCHANGED stray
     \/ \E s \in Servers \ up :
          /\ fd[n] = SendTo(s)
          /\ Service!Refuse(next, "lost")
          /\ for' = [for EXCEPT ![next] = s]
          /\ GoTo("main", "answer")
          /\ stray' \in BOOLEAN
          /\ UNCHANGED <<work, doomed>>
     \/ /\ \A s \in Servers : fd[n] # SendTo(s)
        /\ stray' = TRUE
        /\ UNCHANGED <<job, for, at, work, doomed>>
  /\ UNCHANGED <<clientVars, jobVars, fd, rcvVars, held, heldJob, lastSock, callVars, up,
                 dead, begun, netVars, why>>

(* GetAnswerInfoTS(): there is no answer from a server that dies.  A bad    *)
(* answer, as none, leaves the job in the list.                             *)
Answer ==
  /\ at["main"] = "answer"
  /\ for[next] \notin doomed
  /\ GoTo("main", "idle")
  /\ UNCHANGED <<clientVars, jobVars, fd, rcvVars, held, heldJob, lastSock, callVars,
                 srvVars, netVars, job, for, why, doomed, stray>>

Main == Check \/ Connect \/ RegisterJob \/ Send \/ Answer

----------------------------------------------------------------------------
(* Worker(), the receiver *)

Closed == \E n \in active : fd[n] = Free

(* A select that fails has the set of numbers made anew.  When it fails     *)
(* twice in a row, clients are thrown away that have not connected back.    *)
Select ==
  /\ at["receiver"] = "select"
  /\ \/ /\ Closed /\ failures = 0
        /\ active' = {client[c].reply : c \in list} \ {None}
        /\ failures' = 1
        /\ UNCHANGED <<at, ready, stray>>
     \/ /\ Closed /\ failures = 1
        /\ stray' = TRUE
        /\ UNCHANGED <<at, active, ready, failures>>
     \/ /\ ~Closed
        /\ ready' = {n \in active : Readable(n)}
        /\ backlog # <<>> \/ ready' # {}
        /\ GoTo("receiver", IF backlog # <<>> THEN "accept" ELSE "scan")
        /\ failures' = 0
        /\ UNCHANGED <<active, stray>>
  /\ UNCHANGED <<clientVars, jobVars, fd, held, heldJob, lastSock, callVars, srvVars,
                 netVars, job, for, why, doomed>>

(* AcceptClient(): the first client of that host that has no connection     *)
(* back; if there is none, the connection is closed.                        *)
Accept ==
  LET s == Head(backlog)
      waiting == {c \in list : client[c].host = Host[s] /\ client[c].reply = None} IN
  /\ at["receiver"] = "accept" /\ Unused # {}
  /\ backlog' = Tail(backlog)
  /\ IF waiting = {}
       THEN /\ replying' = [replying EXCEPT ![s] = FALSE]
            /\ wire' = [wire EXCEPT ![s] = <<>>]
            /\ UNCHANGED <<fd, client, active>>
       ELSE /\ fd' = [fd EXCEPT ![Lowest] = ReplyFrom(s)]
            /\ client' = [client EXCEPT ![Min(waiting)].reply = Lowest]
            /\ active' = active \cup {Lowest}
            /\ UNCHANGED <<replying, wire>>
  /\ GoTo("receiver", "select")
  /\ UNCHANGED <<list, jobVars, ready, failures, held, heldJob, lastSock, callVars,
                 srvVars, job, for, why, doomed, stray>>

(* The next client with something to read; its number is taken out of the   *)
(* set when its message has been dealt with.                                *)
Scan ==
  LET those == {c \in list : client[c].reply \in ready} IN
  /\ at["receiver"] = "scan"
  /\ IF those = {}
       THEN GoTo("receiver", "select") /\ UNCHANGED <<held, ready>>
       ELSE /\ GoTo("receiver", "message")
            /\ held' = [held EXCEPT !["receiver"] = Min(those)]
            /\ ready' = ready \ {client[Min(those)].reply}
  /\ UNCHANGED <<clientVars, jobVars, fd, active, failures, heldJob, lastSock, callVars,
                 srvVars, netVars, job, for, why, doomed, stray>>

(* DoMessage(): a message, or the end of the connection. *)
Message ==
  LET n == client[held["receiver"]].reply IN
  /\ at["receiver"] = "message"
  /\ stray' = (held["receiver"] \notin list)
  /\ \/ \E s \in Servers :
          /\ fd[n] = ReplyFrom(s) /\ wire[s] # <<>>
          /\ LET m == Head(wire[s]) IN
             /\ wire' = [wire EXCEPT ![s] = Tail(@)]
             /\ IF m[1] = "FINISHED" /\ Registered(m[2])
                  THEN /\ heldJob' = [heldJob EXCEPT !["receiver"] = m[2]]
                       /\ GoTo("receiver", "completion")
                       /\ UNCHANGED job
                  ELSE /\ GoTo("receiver", "scan")
                       /\ IF m[1] = "STARTING" /\ Registered(m[2]) /\ job[m[2]] = "sent"
                            THEN Service!Start(m[2]) ELSE UNCHANGED job
                       /\ UNCHANGED heldJob
             /\ held' = [held EXCEPT !["receiver"] = None]
     \/ /\ \A s \in Servers : fd[n] = ReplyFrom(s) => wire[s] = <<>>
        /\ GoTo("receiver", "close")
        /\ UNCHANGED <<wire, held, heldJob, job>>
  /\ UNCHANGED <<clientVars, jobVars, fd, rcvVars, lastSock, callVars, srvVars, backlog,
                 replying, for, why, doomed>>

(* DoCompletionAst() found the job, and does not hold the list any more.    *)
Completion ==
  /\ at["receiver"] = "completion"
  /\ IF Completable(heldJob["receiver"])
       THEN Complete(heldJob["receiver"], "finished") /\ UNCHANGED stray
       ELSE stray' = TRUE /\ UNCHANGED <<jobs, why, job>>
  /\ heldJob' = [heldJob EXCEPT !["receiver"] = None]
  /\ GoTo("receiver", "scan")
  /\ UNCHANGED <<clientVars, sock, marked, fd, rcvVars, held, lastSock, callVars, srvVars,
                 netVars, for, doomed>>

Receiver == Select \/ Accept \/ Scan \/ Message \/ Completion

----------------------------------------------------------------------------
(* The servers *)

(* A reply, on the connection made for the first of them. *)
Reply(s, m) ==
  /\ wire' = [wire EXCEPT ![s] = Append(@, m)]
  /\ replying' = [replying EXCEPT ![s] = TRUE]
  /\ backlog' = IF replying[s] THEN backlog ELSE Append(backlog, s)

ServerStarts(s) ==
  /\ s \in up /\ work[s] # <<>> /\ ~begun[s]
  /\ begun' = [begun EXCEPT ![s] = TRUE]
  /\ Reply(s, <<"STARTING", Head(work[s])>>)
  /\ UNCHANGED <<clientVars, jobVars, fd, rcvVars, at, held, heldJob, lastSock, callVars,
                 up, dead, work, job, for, why, doomed, stray>>

ServerFinishes(s) ==
  /\ s \in up /\ work[s] # <<>> /\ begun[s]
  /\ begun' = [begun EXCEPT ![s] = FALSE]
  /\ work' = [work EXCEPT ![s] = Tail(@)]
  /\ Reply(s, <<"FINISHED", Head(work[s])>>)
  /\ UNCHANGED <<clientVars, jobVars, fd, rcvVars, at, held, heldJob, lastSock, callVars,
                 up, dead, job, for, why, doomed, stray>>

ServerDies(s) ==
  /\ s \in up
  /\ up' = up \ {s} /\ dead' = dead \cup {s} /\ doomed' = doomed \ {s}
  /\ work' = [work EXCEPT ![s] = <<>>]
  /\ UNCHANGED <<clientVars, jobVars, fd, rcvVars, at, held, heldJob, lastSock, callVars,
                 begun, netVars, job, for, why, stray>>

Awaited(s) == \E t \in Servers \ dead : t < s /\ Address[t] = Address[s]

(* It is started again, on the same port. *)
ServerRises(s) ==
  /\ s \notin up \cup dead /\ ~Awaited(s)
  /\ up' = up \cup {s}
  /\ UNCHANGED <<clientVars, jobVars, fd, rcvVars, at, held, heldJob, lastSock, callVars,
                 dead, work, begun, netVars, job, for, why, doomed, stray>>

Server(s) == ServerStarts(s) \/ ServerFinishes(s)

----------------------------------------------------------------------------

Init ==
  /\ list = {}
  /\ client = [c \in Clients |-> [address |-> 0, host |-> 0, send |-> None, reply |-> None]]
  /\ jobs = {}
  /\ sock = [j \in Job |-> None] /\ marked = [j \in Job |-> FALSE]
  /\ fd = [n \in Fds |-> Free]
  /\ backlog = <<>>
  /\ active = {} /\ ready = {} /\ failures = 0
  /\ at = [t \in Threads |-> IF t = "main" THEN "idle" ELSE "select"]
  /\ held = [t \in Threads |-> None]
  /\ heldJob = [t \in Threads |-> None]
  /\ lastSock = [t \in Threads |-> None]
  /\ next = 0 /\ to = 0
  /\ up = {s \in Servers : \A t \in Servers : t < s => Address[t] # Address[s]}
  /\ dead = {}
  /\ work = [s \in Servers |-> <<>>]
  /\ begun = [s \in Servers |-> FALSE] /\ replying = [s \in Servers |-> FALSE]
  /\ wire = [s \in Servers |-> <<>>]
  /\ Service!Init
  /\ for = [j \in Job |-> None] /\ why = [j \in Job |-> "none"]
  /\ doomed = {}
  /\ stray = FALSE

NoRoom == at["main"] = "connect" /\ (\A c \in Clients : client[c].address # 0)

(* Nothing is left to do, or the behaviour is not followed any further.     *)
Rest ==
  /\ \/ at["main"] = "idle" /\ at["receiver"] = "select" /\ \A s \in up : work[s] = <<>>
     \/ stray \/ NoRoom
  /\ UNCHANGED vars

Next ==
  \/ /\ ~stray
     /\ \/ \E a \in {Address[s] : s \in Servers} : Begin(a)
        \/ Main \/ RemoveClient("main")
        \/ Receiver \/ RemoveClient("receiver")
        \/ \E s \in Servers : Server(s) \/ ServerDies(s) \/ ServerRises(s)
  \/ Rest

Spec == Init /\ [][Next]_vars

(* Both threads run, servers that live do their work, and one that does not *)
(* answer a request has died.                                               *)
Fairness ==
  /\ WF_vars(Main \/ RemoveClient("main"))
  /\ WF_vars(Receiver \/ RemoveClient("receiver"))
  /\ \A s \in Servers : WF_vars(Server(s)) /\ WF_vars(s \in doomed /\ ServerDies(s))

FairSpec == Spec /\ Fairness

----------------------------------------------------------------------------
(* Properties *)

(* Up to a use of freed memory, what is said to the dispatcher of its jobs  *)
(* is what JobService promises: in particular each is completed once.       *)
ImplementsJobService == Service!Init /\ [][Service!Next \/ stray']_job

(* A job is said to have lost its path only when its server has gone.       *)
PathDownTrue ==
  \A j \in Job : why[j] = "path down" => for[j] \notin up

(* Two clients have had the number the job was sent on, one after the other. *)
NumberShared(j) ==
  \E c, d \in Clients : c # d /\ {client[c].send, client[d].send} = {sock[j]}

(* A thread is going to free a client the other thread has freed.           *)
FreedTwice == \E t \in Threads : at[t] = "unlink" /\ held[t] \notin list

(* It is said only when a server of its host has gone, whose connection     *)
(* back may have been taken for that of the job's server, or when numbers   *)
(* are mistaken because connections were closed twice or used again.        *)
PathDownExplained ==
  \A j \in Job : why[j] = "path down" =>
    \/ \E s \in dead : Host[s] = Host[for[j]]
    \/ NumberShared(j) \/ FreedTwice \/ stray

(* The receiver does not see the end of the server: the client waits for    *)
(* the connection back from it.                                             *)
Unwatched(s) ==
  /\ s \notin up
  /\ \E c \in list :
       client[c].reply = None /\ fd[client[c].send] = SendTo(s)

(* Every job that was sent is completed, unless its server died before it   *)
(* had connected back.                                                      *)
EveryJobEnds ==
  \A j \in Job :
    job[j] = "sent" ~>
      \/ job[j] = "done"
      \/ stray \/ NoRoom
      \/ for[j] # None /\ Unwatched(for[j])

=============================================================================

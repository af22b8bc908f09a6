---------------------------- MODULE JobListProofs ----------------------------
(***************************************************************************)
(* Theorems about JobList, for any servers, addresses, socket numbers and  *)
(* bounds.                                                                 *)
(***************************************************************************)
EXTENDS JobList, WellFoundedInduction, TLAPS

-----------------------------------------------------------------------------
(* The first and the last of a list. *)

LEMMA MinIn ==
  ASSUME NEW S, S \subseteq Nat, S # {}
  PROVE  Min(S) \in S /\ \A n \in S : Min(S) <= n
  <1> DEFINE R == OpToRel(<, Nat)
  <1>1. IsWellFoundedOn(R, Nat)
    BY NatLessThanWellFounded
  <1>2. \A x, y \in Nat : <<y, x>> \in R <=> y < x
    BY DEF OpToRel
  <1> HIDE DEF R
  <1>3. PICK n \in S : \A k \in S : <<k, n>> \notin R
    BY <1>1, WFMin
  <1>4. \A k \in S : ~ (k < n)
    BY <1>2, <1>3, Zenon
  <1>5. \A k \in S : n <= k
    BY <1>4
  <1> QED BY <1>5 DEF Min

LEMMA MaxIn == ASSUME NEW S, S \subseteq Job, S # {} PROVE Max(S) \in S
  <1>0. S \subseteq Nat /\ MaxJobs \in Nat /\ \A j \in S : MaxJobs - j \in Nat
    BY ListAssumption DEF Job
  <1> DEFINE T == {MaxJobs - j : j \in S}
  <1>1. T \subseteq Nat /\ T # {}
    BY <1>0
  <1>2. Min(T) \in T /\ \A n \in T : Min(T) <= n
    BY <1>1, MinIn
  <1>3. PICK m \in S : Min(T) = MaxJobs - m
    BY <1>2
  <1>4. \A j \in S : MaxJobs - m <= MaxJobs - j
    BY <1>2, <1>3
  <1>5. \A j \in S : m >= j
    BY <1>0, <1>4
  <1> QED BY <1>5 DEF Max

LEMMA FirstClient == ASSUME NEW S, S \subseteq Clients, S # {} PROVE Min(S) \in Clients
  <1>1. S \subseteq Nat
    BY DEF Clients
  <1> QED BY <1>1, MinIn

LEMMA LowestType == ASSUME TypeOK, Unused # {} PROVE Lowest \in Fds
  <1>1. Unused \subseteq Nat /\ Unused \subseteq Fds
    BY ListAssumption DEF Unused
  <1> QED BY <1>1, MinIn DEF Lowest

-----------------------------------------------------------------------------
(* The invariant. *)

(* A thread that looks at a client has one. *)
HoldsClient ==
  \A t \in Threads :
    at[t] \in {"check", "close", "unlink", "message"} => held[t] \in Clients

(* The receiver accepts only when a server waits. *)
AcceptsSomeone == at["receiver"] = "accept" => backlog # <<>>

BeforeRegistered ==
  {"check", "close", "unlink", "mark", "sweep", "swept", "connect", "register"}

(* The job that main has not sent is new, and jobs are registered once.     *)
NextIsNew ==
  /\ at["main"] \in BeforeRegistered \cup {"send"} => next \in Job /\ job[next] = "none"
  /\ at["main"] \in BeforeRegistered => next \notin jobs
  /\ \A j \in Job : j > next => job[j] = "none" /\ j \notin jobs

(* What is registered has not been completed, or refused. *)
RegisteredAreOpen == \A j \in jobs : job[j] \in {"none", "sent", "doing", "lost"}

IInv == TypeOK /\ HoldsClient /\ AcceptsSomeone /\ NextIsNew /\ RegisteredAreOpen

LEMMA InitIInv == Init => IInv
  <1> SUFFICES ASSUME Init PROVE IInv
    OBVIOUS
  <1>1. TypeOK
    <2>1. wire \in [Servers -> Seq(Messages)] /\ work \in [Servers -> Seq(Job)]
      BY DEF Init
    <2>2. Service!TypeOK
      BY DEF Init, Service!TypeOK, Service!Init, Service!JobStates
    <2>3. client \in [Clients -> [address : Nat, host : Nat, send : Fds \cup {None},
                                  reply : Fds \cup {None}]]
      BY DEF Init, None
    <2>4. fd \in [Fds -> {Free} \cup {SendTo(s) : s \in Servers}
                                 \cup {ReplyFrom(s) : s \in Servers}]
      BY DEF Init
    <2>5. MaxJobs \in Nat /\ next \in 0 .. MaxJobs /\ to \in Nat
      BY ListAssumption DEF Init
    <2>6. at \in [Threads -> {"idle", "check", "connect", "register", "send", "answer",
                         "select", "accept", "scan", "message", "completion",
                         "close", "unlink", "mark", "sweep", "swept"}]
      BY DEF Init
    <2>7. /\ sock \in [Job -> Fds \cup {None}] /\ marked \in [Job -> BOOLEAN]
          /\ held \in [Threads -> Clients \cup {None}]
          /\ heldJob \in [Threads -> Job \cup {None}]
          /\ lastSock \in [Threads -> Fds \cup {None}]
          /\ for \in [Job -> Servers \cup {None}]
          /\ why \in [Job -> {"none", "finished", "path down"}]
          /\ begun \in [Servers -> BOOLEAN] /\ replying \in [Servers -> BOOLEAN]
      BY DEF Init
    <2>8. backlog \in Seq(Servers)
      BY DEF Init
    <2>9. /\ list \subseteq Clients /\ jobs \subseteq Job
          /\ active \subseteq Fds /\ ready \subseteq Fds /\ failures \in {0, 1}
          /\ up \subseteq Servers /\ dead \subseteq Servers
          /\ doomed \subseteq Servers /\ stray \in BOOLEAN
      BY DEF Init
    <2> QED BY <2>1, <2>2, <2>3, <2>4, <2>5, <2>6, <2>7, <2>8, <2>9 DEF TypeOK
  <1>2. HoldsClient
    BY DEF Init, HoldsClient, Threads
  <1>3. AcceptsSomeone /\ NextIsNew /\ RegisteredAreOpen
    BY DEF Init, AcceptsSomeone, NextIsNew, RegisteredAreOpen, BeforeRegistered, Service!Init, Threads
  <1> QED BY <1>1, <1>2, <1>3 DEF IInv

-----------------------------------------------------------------------------
(* RemoveClient() *)

LEMMA CutType ==
  ASSUME TypeOK, NEW S, Cut(S)
  PROVE  /\ fd' \in [Fds -> {Free} \cup {SendTo(s) : s \in Servers}
                                   \cup {ReplyFrom(s) : s \in Servers}]
         /\ replying' \in [Servers -> BOOLEAN]
         /\ wire' \in [Servers -> Seq(Messages)]
  <1>1. fd' \in [Fds -> {Free} \cup {SendTo(s) : s \in Servers}
                                   \cup {ReplyFrom(s) : s \in Servers}]
    BY DEF Cut, TypeOK
  <1>2. replying' \in [Servers -> BOOLEAN]
    BY DEF Cut, TypeOK
  <1>3. wire' \in [Servers -> Seq(Messages)]
    <2>1. wire \in [Servers -> Seq(Messages)]
      BY DEF TypeOK
    <2>2. <<>> \in Seq(Messages)
      OBVIOUS
    <2> QED BY <2>1, <2>2 DEF Cut
  <1> QED BY <1>1, <1>2, <1>3

(* A job that is completed is open, and has been sent. *)
LEMMA CompleteType ==
  ASSUME IInv, NEW j, NEW how \in {"finished", "path down"}, Completable(j), Complete(j, how)
  PROVE  /\ j \in Job /\ job[j] \in {"sent", "doing", "lost"}
         /\ Service!Complete(j) \/ Service!CompleteLost(j)
         /\ jobs' \subseteq jobs /\ j \notin jobs'
         /\ \A k \in Job : k # j => job'[k] = job[k]
         /\ job' \in [Job -> Service!JobStates]
         /\ why' \in [Job -> {"none", "finished", "path down"}]
  <1>1. j \in Job /\ job[j] \in {"sent", "doing", "lost"}
    BY DEF Completable, Registered, IInv, TypeOK, RegisteredAreOpen
  <1>2. job \in [Job -> Service!JobStates]
    BY DEF IInv, TypeOK, Service!TypeOK
  <1>3. job' = [job EXCEPT ![j] = IF job[j] = "lost" THEN "late" ELSE "done"]
    BY <1>1, <1>2 DEF Complete, Told
  <1>4. Service!Complete(j) \/ Service!CompleteLost(j)
    BY <1>1, <1>3 DEF Service!Complete, Service!CompleteLost
  <1>5. job' \in [Job -> Service!JobStates]
    BY <1>1, <1>2, <1>3 DEF Service!JobStates
  <1>6. why' \in [Job -> {"none", "finished", "path down"}]
    BY <1>1 DEF Complete, IInv, TypeOK
  <1> QED BY <1>1, <1>2, <1>3, <1>4, <1>5, <1>6 DEF Complete

LEMMA RemoveType ==
  ASSUME IInv, NEW t \in Threads, RemoveClient(t)
  PROVE  TypeOK' /\ HoldsClient'
  <1> USE DEF IInv, clientVars, jobVars, rcvVars, callVars, srvVars, netVars, GoTo,
          Service!TypeOK
  <1>1. CASE Close(t)
    <2>1. held[t] \in Clients
      BY <1>1 DEF Close, HoldsClient
    <2>2. client[held[t]].send \in Fds \cup {None}
      BY <2>1 DEF TypeOK
    <2>3. PICK S : Cut(S)
      BY <1>1 DEF Close
    <2>4. /\ fd' \in [Fds -> {Free} \cup {SendTo(s) : s \in Servers}
                                    \cup {ReplyFrom(s) : s \in Servers}]
          /\ replying' \in [Servers -> BOOLEAN]
          /\ wire' \in [Servers -> Seq(Messages)]
      BY <2>3, CutType
    <2>5. TypeOK'
      BY <1>1, <2>2, <2>4 DEF Close, TypeOK
    <2>6. HoldsClient'
      BY <1>1, <2>1 DEF Close, HoldsClient, TypeOK
    <2> QED BY <2>5, <2>6
  <1>2. CASE Unlink(t)
    BY <1>2 DEF Unlink, TypeOK, HoldsClient, None
  <1>3. CASE Mark(t)
    BY <1>3 DEF Mark, TypeOK, HoldsClient
  <1>4. CASE Sweep(t)
    <2>1. ASSUME NEW S, S \subseteq jobs, S # {} PROVE Max(S) \in Job
      BY <2>1, MaxIn DEF TypeOK
    <2>2. heldJob' \in [Threads -> Job \cup {None}]
      <3>1. heldJob \in [Threads -> Job \cup {None}]
        BY DEF TypeOK
      <3>2. \/ UNCHANGED heldJob
            \/ \E S \in SUBSET jobs : S # {} /\ heldJob' = [heldJob EXCEPT ![t] = Max(S)]
        BY <1>4 DEF Sweep
      <3> QED BY <2>1, <3>1, <3>2
    <2>3. PICK place \in {"swept", After(t)} : at' = [at EXCEPT ![t] = place]
      BY <1>4 DEF Sweep
    <2>4. UNCHANGED <<clientVars, jobVars, fd, rcvVars, held, lastSock, callVars, srvVars,
                      netVars, job, for, why, doomed, stray>>
      BY <1>4 DEF Sweep
    <2>5. TypeOK'
      BY <2>2, <2>3, <2>4 DEF TypeOK, After
    <2>6. HoldsClient'
      BY <2>3, <2>4 DEF TypeOK, HoldsClient, After
    <2> QED BY <2>5, <2>6
  <1>5. CASE CompleteLost(t)
    <2>1. job' \in [Job -> Service!JobStates]
          /\ why' \in [Job -> {"none", "finished", "path down"}]
          /\ jobs' \subseteq Job /\ stray' \in BOOLEAN
      BY <1>5, CompleteType DEF CompleteLost, TypeOK
    <2> QED BY <1>5, <2>1 DEF CompleteLost, TypeOK, HoldsClient
  <1> QED BY <1>1, <1>2, <1>3, <1>4, <1>5 DEF RemoveClient

-----------------------------------------------------------------------------
(* ServerSendMessage() *)

LEMMA SendRequestType ==
  ASSUME TypeOK, next \in Job, NEW s \in Servers
  PROVE  [work EXCEPT ![s] = Append(@, next)] \in [Servers -> Seq(Job)]
  <1>1. work \in [Servers -> Seq(Job)]
    BY DEF TypeOK
  <1>2. Append(work[s], next) \in Seq(Job)
    BY <1>1
  <1> QED BY <1>1, <1>2

LEMMA BeginType ==
  ASSUME IInv, NEW a \in {Address[s] : s \in Servers}, Begin(a)
  PROVE  TypeOK' /\ HoldsClient'
  <1> USE DEF IInv, clientVars, jobVars, rcvVars, callVars, srvVars, netVars, GoTo,
          Service!TypeOK
  <1>1. a \in Nat
    BY ListAssumption
  <1>2. next' \in 0 .. MaxJobs
    <2>1. next \in 0 .. MaxJobs /\ next < MaxJobs /\ next' = next + 1
      BY DEF Begin, TypeOK
    <2> QED BY <2>1, ListAssumption
  <1>3. ClientsAt(a) # {} => Min(ClientsAt(a)) \in Clients
    BY FirstClient DEF ClientsAt, TypeOK
  <1>4. held' \in [Threads -> Clients \cup {None}]
    BY <1>3 DEF Begin, TypeOK
  <1>5. TypeOK'
    BY <1>1, <1>2, <1>4 DEF Begin, TypeOK
  <1>6. HoldsClient'
    BY <1>3 DEF Begin, HoldsClient, TypeOK
  <1> QED BY <1>5, <1>6

LEMMA MainType ==
  ASSUME IInv, Main
  PROVE  TypeOK' /\ HoldsClient'
  <1> USE DEF IInv, clientVars, jobVars, rcvVars, callVars, srvVars, netVars, GoTo,
          Service!TypeOK
  <1>0. "main" \in Threads /\ None \notin Job
    BY DEF Threads, None, Job
  <1>1. CASE Check
    <2>1. client[held["main"]].send \in Fds \cup {None}
      BY <1>0, <1>1 DEF Check, HoldsClient, TypeOK
    <2>2. TypeOK'
      BY <1>0, <1>1, <2>1 DEF Check, TypeOK
    <2>3. HoldsClient'
      <3>1. CASE at' = [at EXCEPT !["main"] = "close"] /\ UNCHANGED held
        BY <1>0, <1>1, <3>1 DEF Check, HoldsClient, TypeOK
      <3>2. CASE /\ at' = [at EXCEPT !["main"] = "register"]
                 /\ held' = [held EXCEPT !["main"] = None]
        BY <1>0, <1>1, <3>2 DEF HoldsClient, TypeOK
      <3> QED BY <1>1, <3>1, <3>2 DEF Check
    <2> QED BY <2>2, <2>3
  <1>2. CASE Connect
    <2>1. CASE Service!Refuse(next, "refused") /\ UNCHANGED <<fd, clientVars, lastSock>>
                 /\ GoTo("main", "idle")
      <3>1. job' \in [Job -> Service!JobStates]
        BY <2>1 DEF Service!Refuse, TypeOK, Service!JobStates
      <3> QED BY <1>0, <1>2, <2>1, <3>1 DEF Connect, TypeOK, HoldsClient
    <2>2. ASSUME NEW s \in up, NEW c \in Clients, Address[s] = to, Unused # {},
                 fd' = [fd EXCEPT ![Lowest] = SendTo(s)],
                 client' = [client EXCEPT ![c] =
                   [address |-> to, host |-> Host[s], send |-> Lowest, reply |-> None]],
                 list' = list \cup {c},
                 lastSock' = [lastSock EXCEPT !["main"] = Lowest],
                 GoTo("main", "register"), UNCHANGED job
          PROVE  TypeOK' /\ HoldsClient'
      <3>1. Lowest \in Fds /\ s \in Servers
        BY <2>2, LowestType DEF TypeOK
      <3>2. Host[s] \in Nat
        BY <3>1, ListAssumption
      <3>3. client' \in [Clients -> [address : Nat, host : Nat, send : Fds \cup {None},
                                     reply : Fds \cup {None}]]
        BY <2>2, <3>1, <3>2 DEF TypeOK
      <3>4. fd' \in [Fds -> {Free} \cup {SendTo(v) : v \in Servers}
                                   \cup {ReplyFrom(v) : v \in Servers}]
        BY <2>2, <3>1 DEF TypeOK
      <3>5. lastSock' \in [Threads -> Fds \cup {None}]
        BY <2>2, <3>1 DEF TypeOK
      <3>6. TypeOK'
        BY <1>0, <1>2, <2>2, <3>3, <3>4, <3>5 DEF Connect, TypeOK
      <3>7. HoldsClient'
        <4>1. at' = [at EXCEPT !["main"] = "register"] /\ UNCHANGED held
          BY <1>2, <2>2 DEF Connect
        <4> QED BY <1>0, <4>1 DEF TypeOK, HoldsClient
      <3> QED BY <3>6, <3>7
    <2> QED BY <1>2, <2>1, <2>2 DEF Connect
  <1>3. CASE RegisterJob
    <2>1. next \in Job
      BY <1>3 DEF RegisterJob, NextIsNew, BeforeRegistered
    <2> QED BY <1>0, <1>3, <2>1 DEF RegisterJob, TypeOK, HoldsClient
  <1>4. CASE Send
    <2>1. next \in Job /\ job[next] = "none"
      BY <1>4 DEF Send, NextIsNew
    <2>2. job' \in [Job -> Service!JobStates]
      <3>1. Service!Send(next) \/ Service!Refuse(next, "lost") \/ UNCHANGED job
        BY <1>4 DEF Send
      <3>2. job \in [Job -> Service!JobStates]
        BY DEF TypeOK
      <3> QED BY <2>1, <3>1, <3>2 DEF Service!Send, Service!Refuse, Service!JobStates
    <2>3. work' \in [Servers -> Seq(Job)]
      <3>1. \/ \E s \in Servers : work' = [work EXCEPT ![s] = Append(@, next)]
            \/ UNCHANGED work
        BY <1>4 DEF Send, TypeOK
      <3>2. work \in [Servers -> Seq(Job)]
        BY DEF TypeOK
      <3> QED BY <2>1, <3>1, <3>2, SendRequestType
    <2>4. for' \in [Job -> Servers \cup {None}] /\ doomed' \subseteq Servers
      <3>1. \/ UNCHANGED for
            \/ \E s \in Servers : for' = [for EXCEPT ![next] = s]
        BY <1>4, Zenon DEF Send, TypeOK
      <3>2. \/ UNCHANGED doomed
            \/ \E s \in Servers : doomed' = doomed \cup {s}
        BY <1>4, Zenon DEF Send, TypeOK
      <3>3. for \in [Job -> Servers \cup {None}] /\ doomed \subseteq Servers
        BY DEF TypeOK
      <3>4. for' \in [Job -> Servers \cup {None}]
        BY <3>1, <3>3
      <3> QED BY <3>2, <3>3, <3>4
    <2>5. at' \in [Threads -> {"idle", "check", "connect", "register", "send", "answer",
                         "select", "accept", "scan", "message", "completion",
                         "close", "unlink", "mark", "sweep", "swept"}]
          /\ stray' \in BOOLEAN
      BY <1>4 DEF Send, TypeOK
    <2>6. TypeOK'
      BY <1>4, <2>2, <2>3, <2>4, <2>5 DEF Send, TypeOK
    <2>7. HoldsClient'
      BY <1>0, <1>4 DEF Send, HoldsClient, TypeOK
    <2> QED BY <2>6, <2>7
  <1>5. CASE Answer
    BY <1>0, <1>5 DEF Answer, TypeOK, HoldsClient
  <1> QED BY <1>1, <1>2, <1>3, <1>4, <1>5 DEF Main

-----------------------------------------------------------------------------
(* Worker() *)

LEMMA MessageType ==
  ASSUME IInv, Message
  PROVE  TypeOK' /\ HoldsClient'
  <1> USE DEF IInv, clientVars, jobVars, rcvVars, callVars, srvVars, netVars, GoTo,
          Service!TypeOK
  <1>0. "receiver" \in Threads
    BY DEF Threads
  <1>1. stray' \in BOOLEAN
    BY DEF Message
  <1>2. CASE at' = [at EXCEPT !["receiver"] = "close"] /\ UNCHANGED <<wire, held, heldJob, job>>
    BY <1>0, <1>1, <1>2 DEF Message, TypeOK, HoldsClient
  <1>3. ASSUME NEW s \in Servers, NEW m, wire[s] # <<>>, m = Head(wire[s]),
               wire' = [wire EXCEPT ![s] = Tail(@)],
               IF m[1] = "FINISHED" /\ Registered(m[2])
                  THEN /\ heldJob' = [heldJob EXCEPT !["receiver"] = m[2]]
                       /\ GoTo("receiver", "completion")
                       /\ UNCHANGED job
                  ELSE /\ GoTo("receiver", "scan")
                       /\ IF m[1] = "STARTING" /\ Registered(m[2]) /\ job[m[2]] = "sent"
                            THEN Service!Start(m[2]) ELSE UNCHANGED job
                       /\ UNCHANGED heldJob,
               held' = [held EXCEPT !["receiver"] = None]
        PROVE  TypeOK' /\ HoldsClient'
    <2>1. wire' \in [Servers -> Seq(Messages)]
      <3>1. wire \in [Servers -> Seq(Messages)]
        BY DEF TypeOK
      <3>2. Tail(wire[s]) \in Seq(Messages)
        BY <1>3, <3>1
      <3> QED BY <1>3, <3>1, <3>2
    <2>2. Registered(m[2]) => m[2] \in Job
      BY DEF Registered, TypeOK
    <2>3. heldJob' \in [Threads -> Job \cup {None}]
      BY <1>3, <2>2 DEF TypeOK
    <2>4. job' \in [Job -> Service!JobStates]
      BY <1>3 DEF TypeOK, Service!Start, Service!JobStates
    <2>5. at' = [at EXCEPT !["receiver"] = "completion"] \/ at' = [at EXCEPT !["receiver"] = "scan"]
      BY <1>3
    <2>6. TypeOK'
      BY <1>0, <1>1, <1>3, <2>1, <2>3, <2>4, <2>5 DEF Message, TypeOK
    <2>7. HoldsClient'
      BY <1>0, <1>3, <2>5 DEF TypeOK, HoldsClient
    <2> QED BY <2>6, <2>7
  <1> QED BY <1>2, <1>3 DEF Message

LEMMA ReceiverType ==
  ASSUME IInv, Receiver
  PROVE  TypeOK' /\ HoldsClient'
  <1> USE DEF IInv, clientVars, jobVars, rcvVars, callVars, srvVars, netVars, GoTo,
          Service!TypeOK
  <1>0. "receiver" \in Threads
    BY DEF Threads
  <1>1. CASE Select
    <2>1. {client[c].reply : c \in list} \ {None} \subseteq Fds
      <3>1. \A c \in list : client[c].reply \in Fds \cup {None}
        BY DEF TypeOK
      <3> QED BY <3>1
    <2>2. active' \subseteq Fds /\ ready' \subseteq Fds /\ failures' \in {0, 1}
      BY <1>1, <2>1 DEF Select, TypeOK
    <2>3. at' = at \/ at' = [at EXCEPT !["receiver"] = "accept"]
                   \/ at' = [at EXCEPT !["receiver"] = "scan"]
      BY <1>1 DEF Select
    <2>4. stray' \in BOOLEAN
      BY <1>1 DEF Select, TypeOK
    <2>5. TypeOK'
      BY <1>0, <1>1, <2>2, <2>3, <2>4 DEF Select, TypeOK
    <2>6. HoldsClient'
      BY <1>0, <1>1, <2>3 DEF Select, HoldsClient, TypeOK
    <2> QED BY <2>5, <2>6
  <1>2. CASE Accept
    <2> DEFINE s == Head(backlog)
               waiting == {c \in list : client[c].host = Host[s] /\ client[c].reply = None}
    <2>1. s \in Servers /\ backlog' \in Seq(Servers)
      <3>1. backlog \in Seq(Servers) /\ backlog # <<>> /\ backlog' = Tail(backlog)
        BY <1>2 DEF Accept, TypeOK, AcceptsSomeone
      <3> QED BY <3>1
    <2>2. Lowest \in Fds
      BY <1>2, LowestType DEF Accept
    <2>3. waiting # {} => Min(waiting) \in Clients
      BY FirstClient DEF TypeOK
    <2>4. wire' \in [Servers -> Seq(Messages)]
      <3>1. wire \in [Servers -> Seq(Messages)]
        BY DEF TypeOK
      <3>2. <<>> \in Seq(Messages)
        OBVIOUS
      <3>3. wire' = [wire EXCEPT ![s] = <<>>] \/ UNCHANGED wire
        BY <1>2 DEF Accept
      <3> QED BY <2>1, <3>1, <3>2, <3>3
    <2>5. /\ fd' \in [Fds -> {Free} \cup {SendTo(v) : v \in Servers}
                                     \cup {ReplyFrom(v) : v \in Servers}]
          /\ client' \in [Clients -> [address : Nat, host : Nat, send : Fds \cup {None},
                                      reply : Fds \cup {None}]]
          /\ active' \subseteq Fds /\ replying' \in [Servers -> BOOLEAN]
      <3>1. CASE waiting = {}
        <4>1. UNCHANGED <<fd, client, active>> /\ replying' = [replying EXCEPT ![s] = FALSE]
          BY <1>2, <3>1 DEF Accept
        <4> QED BY <2>1, <4>1 DEF TypeOK
      <3>2. CASE waiting # {}
        <4>1. /\ UNCHANGED replying
              /\ fd' = [fd EXCEPT ![Lowest] = ReplyFrom(s)]
              /\ client' = [client EXCEPT ![Min(waiting)].reply = Lowest]
              /\ active' = active \cup {Lowest}
          BY <1>2, <3>2 DEF Accept
        <4>2. client' \in [Clients -> [address : Nat, host : Nat, send : Fds \cup {None},
                                      reply : Fds \cup {None}]]
          <5>1. PICK c \in Clients : client' = [client EXCEPT ![c].reply = Lowest]
            BY <2>3, <3>2, <4>1
          <5>2. client \in [Clients -> [address : Nat, host : Nat, send : Fds \cup {None},
                                        reply : Fds \cup {None}]]
            BY DEF TypeOK
          <5>3. [client[c] EXCEPT !.reply = Lowest]
                  \in [address : Nat, host : Nat, send : Fds \cup {None},
                      reply : Fds \cup {None}]
            BY <2>2, <5>2
          <5>4. client' = [client EXCEPT ![c] = [client[c] EXCEPT !.reply = Lowest]]
            BY <5>1
          <5> QED BY <5>2, <5>3, <5>4
        <4> QED BY <2>1, <2>2, <4>1, <4>2 DEF TypeOK
      <3> QED BY <3>1, <3>2
    <2>6. TypeOK'
      BY <1>0, <1>2, <2>1, <2>4, <2>5 DEF Accept, TypeOK
    <2>7. HoldsClient'
      BY <1>0, <1>2 DEF Accept, HoldsClient, TypeOK
    <2> QED BY <2>6, <2>7
  <1>3. CASE Scan
    <2> DEFINE those == {c \in list : client[c].reply \in ready}
    <2>1. those # {} => Min(those) \in Clients
      BY FirstClient DEF TypeOK
    <2>2. held' \in [Threads -> Clients \cup {None}] /\ ready' \subseteq Fds
      BY <1>3, <2>1 DEF Scan, TypeOK
    <2>3. \/ at' = [at EXCEPT !["receiver"] = "select"] /\ UNCHANGED held
          \/ /\ at' = [at EXCEPT !["receiver"] = "message"]
             /\ \E c \in Clients : held' = [held EXCEPT !["receiver"] = c]
      BY <1>3, <2>1 DEF Scan
    <2>4. TypeOK'
      BY <1>0, <1>3, <2>2, <2>3 DEF Scan, TypeOK
    <2>5. HoldsClient'
      BY <1>0, <2>3 DEF HoldsClient, TypeOK
    <2> QED BY <2>4, <2>5
  <1>4. CASE Message
    BY <1>4, MessageType
  <1>5. CASE Completion
    <2>1. job' \in [Job -> Service!JobStates]
          /\ why' \in [Job -> {"none", "finished", "path down"}]
          /\ jobs' \subseteq Job /\ stray' \in BOOLEAN
      BY <1>5, CompleteType DEF Completion, TypeOK
    <2> QED BY <1>0, <1>5, <2>1 DEF Completion, TypeOK, HoldsClient
  <1> QED BY <1>1, <1>2, <1>3, <1>4, <1>5 DEF Receiver

-----------------------------------------------------------------------------
(* The servers. *)

LEMMA ReplyType ==
  ASSUME TypeOK, NEW s \in Servers, NEW m \in Messages, Reply(s, m)
  PROVE  /\ wire' \in [Servers -> Seq(Messages)] /\ replying' \in [Servers -> BOOLEAN]
         /\ backlog' \in Seq(Servers) /\ (backlog # <<>> => backlog' # <<>>)
  <1>1. backlog \in Seq(Servers) /\ wire \in [Servers -> Seq(Messages)]
    BY DEF TypeOK
  <1>2. Append(wire[s], m) \in Seq(Messages)
    BY <1>1
  <1>3. Append(backlog, s) \in Seq(Servers) /\ Append(backlog, s) # <<>>
    BY <1>1
  <1>4. wire' \in [Servers -> Seq(Messages)] /\ replying' \in [Servers -> BOOLEAN]
    BY <1>1, <1>2 DEF Reply, TypeOK
  <1>5. backlog' = backlog \/ backlog' = Append(backlog, s)
    BY DEF Reply
  <1> QED BY <1>1, <1>3, <1>4, <1>5

LEMMA ServerType ==
  ASSUME IInv, NEW s \in Servers, Server(s) \/ ServerDies(s) \/ ServerRises(s)
  PROVE  TypeOK' /\ HoldsClient' /\ AcceptsSomeone'
  <1> USE DEF IInv, clientVars, jobVars, rcvVars, callVars, srvVars, netVars,
          Service!TypeOK
  <1>0. /\ work \in [Servers -> Seq(Job)]
        /\ work[s] # <<>> => Head(work[s]) \in Job /\ Tail(work[s]) \in Seq(Job)
        /\ <<>> \in Seq(Job)
    <2>1. work \in [Servers -> Seq(Job)]
      BY DEF TypeOK
    <2>2. work[s] \in Seq(Job)
      BY <2>1
    <2> QED BY <2>1, <2>2
  <1>1. CASE ServerStarts(s)
    <2>1. PICK m \in Messages : Reply(s, m)
      BY <1>0, <1>1 DEF ServerStarts, Messages
    <2>2. TypeOK'
      BY <1>1, <2>1, ReplyType DEF ServerStarts, TypeOK
    <2> QED BY <1>1, <2>1, <2>2, ReplyType DEF ServerStarts, HoldsClient, AcceptsSomeone
  <1>2. CASE ServerFinishes(s)
    <2>1. PICK m \in Messages : Reply(s, m)
      BY <1>0, <1>2 DEF ServerFinishes, Messages
    <2>2. work' \in [Servers -> Seq(Job)]
      BY <1>0, <1>2 DEF ServerFinishes
    <2>3. TypeOK'
      BY <1>2, <2>1, <2>2, ReplyType DEF ServerFinishes, TypeOK
    <2> QED BY <1>2, <2>1, <2>3, ReplyType DEF ServerFinishes, HoldsClient, AcceptsSomeone
  <1>3. CASE ServerDies(s)
    <2>1. work' \in [Servers -> Seq(Job)]
      BY <1>0, <1>3 DEF ServerDies
    <2> QED BY <1>3, <2>1 DEF ServerDies, TypeOK, HoldsClient, AcceptsSomeone
  <1>4. CASE ServerRises(s)
    BY <1>4 DEF ServerRises, TypeOK, HoldsClient, AcceptsSomeone
  <1> QED BY <1>1, <1>2, <1>3, <1>4 DEF Server

-----------------------------------------------------------------------------
(* The jobs, and what their callers are told. *)

LEMMA AcceptsKept ==
  ASSUME IInv,
         \/ \E a \in {Address[s] : s \in Servers} : Begin(a)
         \/ Main \/ Receiver
         \/ \E t \in Threads : RemoveClient(t)
  PROVE  AcceptsSomeone'
  <1> USE DEF GoTo, netVars, Threads
  <1>0. at \in [Threads -> {"idle", "check", "connect", "register", "send", "answer",
                         "select", "accept", "scan", "message", "completion",
                         "close", "unlink", "mark", "sweep", "swept"}]
    BY DEF IInv, TypeOK
  <1>1. CASE UNCHANGED backlog /\ (at'["receiver"] = "accept" => at["receiver"] = "accept")
    BY <1>1 DEF IInv, AcceptsSomeone
  <1>2. CASE \E a \in {Address[s] : s \in Servers} : Begin(a)
    BY <1>0, <1>1, <1>2 DEF Begin
  <1>3. CASE Main
    BY <1>0, <1>1, <1>3 DEF Main, Check, Connect, RegisterJob, Send, Answer
  <1>4. CASE Receiver
    <2>1. CASE Select
      BY <1>0, <2>1 DEF Select, AcceptsSomeone, IInv
    <2>2. CASE Accept
      BY <1>0, <2>2 DEF Accept, AcceptsSomeone
    <2>3. CASE Scan
      BY <1>0, <1>1, <2>3 DEF Scan
    <2>4. CASE Message
      BY <1>0, <1>1, <2>4 DEF Message
    <2>5. CASE Completion
      BY <1>0, <1>1, <2>5 DEF Completion
    <2> QED BY <1>4, <2>1, <2>2, <2>3, <2>4, <2>5 DEF Receiver
  <1>5. ASSUME NEW t \in Threads, RemoveClient(t) PROVE AcceptsSomeone'
    <2>1. CASE Close(t)
      BY <1>0, <1>1, <2>1 DEF Close
    <2>2. CASE Unlink(t)
      BY <1>0, <1>1, <2>2 DEF Unlink
    <2>3. CASE Mark(t)
      BY <1>0, <1>1, <2>3 DEF Mark
    <2>4. CASE Sweep(t)
      BY <1>0, <1>1, <2>4 DEF Sweep, After
    <2>5. CASE CompleteLost(t)
      BY <1>0, <1>1, <2>5 DEF CompleteLost
    <2> QED BY <1>5, <2>1, <2>2, <2>3, <2>4, <2>5 DEF RemoveClient
  <1> QED BY <1>2, <1>3, <1>4, <1>5

(* What a step has to keep of the place of main. *)
MainUndecided ==
  /\ at'["main"] \in BeforeRegistered \cup {"send"}
       => at["main"] \in BeforeRegistered \cup {"send"}
  /\ at'["main"] \in BeforeRegistered => at["main"] \in BeforeRegistered

JobsKept == NextIsNew' /\ RegisteredAreOpen' /\ [Service!Next \/ stray']_job

LEMMA NothingTold == ASSUME IInv, UNCHANGED <<jobs, job, next>>, MainUndecided PROVE JobsKept
  BY DEF IInv, NextIsNew, RegisteredAreOpen, MainUndecided, JobsKept

LEMMA CompletionTold ==
  ASSUME IInv, NEW j, NEW how \in {"finished", "path down"}, UNCHANGED next, MainUndecided,
         \/ Completable(j) /\ Complete(j, how)
         \/ UNCHANGED <<jobs, job>>
  PROVE  JobsKept
  <1>1. CASE UNCHANGED <<jobs, job>>
    BY <1>1, NothingTold
  <1>2. CASE Completable(j) /\ Complete(j, how)
    <2>1. /\ j \in Job /\ job[j] # "none"
          /\ Service!Complete(j) \/ Service!CompleteLost(j)
          /\ jobs' \subseteq jobs /\ j \notin jobs'
          /\ \A k \in Job : k # j => job'[k] = job[k]
      BY <1>2, CompleteType
    <2>2. jobs \subseteq Job
      BY DEF IInv, TypeOK
    <2>3. NextIsNew'
      BY <2>1 DEF IInv, NextIsNew, MainUndecided
    <2>4. RegisteredAreOpen'
      BY <2>1, <2>2 DEF IInv, RegisteredAreOpen
    <2>5. Service!Next
      BY <2>1 DEF Service!Next
    <2> QED BY <2>3, <2>4, <2>5 DEF JobsKept
  <1> QED BY <1>1, <1>2

LEMMA RemoveTold == ASSUME IInv, NEW t \in Threads, RemoveClient(t) PROVE JobsKept
  <1> USE DEF GoTo, callVars, jobVars, Threads
  <1>0. at \in [Threads -> {"idle", "check", "connect", "register", "send", "answer",
                         "select", "accept", "scan", "message", "completion",
                         "close", "unlink", "mark", "sweep", "swept"}]
    BY DEF IInv, TypeOK
  <1>1. CASE Close(t)
    <2>1. MainUndecided
      BY <1>0, <1>1 DEF Close, MainUndecided, BeforeRegistered
    <2> QED BY <1>1, <2>1, NothingTold DEF Close
  <1>2. CASE Unlink(t)
    <2>1. MainUndecided
      BY <1>0, <1>2 DEF Unlink, MainUndecided, BeforeRegistered
    <2> QED BY <1>2, <2>1, NothingTold DEF Unlink
  <1>3. CASE Mark(t)
    <2>1. MainUndecided
      BY <1>0, <1>3 DEF Mark, MainUndecided, BeforeRegistered
    <2> QED BY <1>3, <2>1, NothingTold DEF Mark
  <1>4. CASE Sweep(t)
    <2>1. MainUndecided
      BY <1>0, <1>4 DEF Sweep, After, MainUndecided, BeforeRegistered
    <2> QED BY <1>4, <2>1, NothingTold DEF Sweep
  <1>5. CASE CompleteLost(t)
    <2>1. MainUndecided
      BY <1>0, <1>5 DEF CompleteLost, MainUndecided, BeforeRegistered
    <2> QED BY <1>5, <2>1, CompletionTold DEF CompleteLost
  <1> QED BY <1>1, <1>2, <1>3, <1>4, <1>5 DEF RemoveClient

LEMMA BeginTold ==
  ASSUME IInv, NEW a \in {Address[s] : s \in Servers}, Begin(a)
  PROVE  JobsKept
  <1>1. next \in 0 .. MaxJobs /\ next < MaxJobs /\ next' = next + 1 /\ MaxJobs \in Nat
    BY ListAssumption DEF Begin, IInv, TypeOK
  <1>2. next' \in Job /\ next' > next /\ \A j \in Job : j > next' => j > next
    BY <1>1 DEF Job
  <1>3. UNCHANGED <<jobs, job>>
    BY DEF Begin, jobVars
  <1>4. NextIsNew' /\ RegisteredAreOpen'
    BY <1>2, <1>3 DEF IInv, NextIsNew, RegisteredAreOpen
  <1> QED BY <1>3, <1>4 DEF JobsKept

LEMMA MainTold == ASSUME IInv, Main PROVE JobsKept
  <1> USE DEF GoTo, callVars, jobVars, Threads
  <1>0. at \in [Threads -> {"idle", "check", "connect", "register", "send", "answer",
                         "select", "accept", "scan", "message", "completion",
                         "close", "unlink", "mark", "sweep", "swept"}]
    BY DEF IInv, TypeOK
  <1>j. job \in [Job -> Service!JobStates] /\ next \in 0 .. MaxJobs /\ jobs \subseteq Job
        /\ \A j \in Job : j \in Nat
    <2>1. \A j \in Job : j \in Nat
      BY DEF Job
    <2> QED BY <2>1 DEF IInv, TypeOK, Service!TypeOK
  <1>1. CASE Check
    <2>1. MainUndecided
      BY <1>0, <1>1 DEF Check, MainUndecided, BeforeRegistered
    <2> QED BY <1>1, <2>1, NothingTold DEF Check
  <1>2. CASE Connect
    <2>0. at["main"] = "connect" /\ UNCHANGED <<jobs, next>>
      BY <1>2 DEF Connect
    <2>n. next \in Job /\ job[next] = "none" /\ next \notin jobs
      BY <2>0 DEF IInv, NextIsNew, BeforeRegistered
    <2>1. CASE UNCHANGED job /\ GoTo("main", "register")
      <3>1. MainUndecided
        BY <1>0, <2>0, <2>1 DEF MainUndecided, BeforeRegistered
      <3> QED BY <2>0, <2>1, <3>1, NothingTold
    <2>2. CASE Service!Refuse(next, "refused") /\ GoTo("main", "idle")
      <3>1. job' = [job EXCEPT ![next] = "refused"]
        BY <2>2 DEF Service!Refuse
      <3>2. at'["main"] = "idle"
        BY <1>0, <2>2
      <3>3. NextIsNew'
        BY <1>j, <2>0, <2>n, <3>1, <3>2 DEF IInv, NextIsNew, BeforeRegistered
      <3>4. RegisteredAreOpen'
        BY <1>j, <2>0, <2>n, <3>1 DEF IInv, RegisteredAreOpen
      <3>5. Service!Next
        BY <2>2, <2>n DEF Service!Next
      <3> QED BY <3>3, <3>4, <3>5 DEF JobsKept
    <2> QED BY <1>2, <2>1, <2>2 DEF Connect
  <1>3. CASE RegisterJob
    <2>0. /\ at["main"] = "register" /\ jobs' = jobs \cup {next} /\ UNCHANGED <<job, next>>
          /\ at'["main"] = "send"
      BY <1>0, <1>3 DEF RegisterJob
    <2>n. next \in Job /\ job[next] = "none"
      BY <2>0 DEF IInv, NextIsNew, BeforeRegistered
    <2>1. NextIsNew'
      BY <1>j, <2>0, <2>n DEF IInv, NextIsNew, BeforeRegistered
    <2>2. RegisteredAreOpen'
      BY <2>0, <2>n DEF IInv, RegisteredAreOpen
    <2> QED BY <2>0, <2>1, <2>2 DEF JobsKept
  <1>4. CASE Send
    <2>0. at["main"] = "send" /\ UNCHANGED <<jobs, next>>
      BY <1>4 DEF Send
    <2>n. next \in Job /\ job[next] = "none"
      BY <2>0 DEF IInv, NextIsNew, BeforeRegistered
    <2>1. CASE UNCHANGED <<job, at>>
      <3>1. MainUndecided
        BY <2>1 DEF MainUndecided
      <3> QED BY <2>0, <2>1, <3>1, NothingTold
    <2>2. CASE (Service!Send(next) \/ Service!Refuse(next, "lost")) /\ GoTo("main", "answer")
      <3>1. PICK how \in {"sent", "lost"} : job' = [job EXCEPT ![next] = how]
        BY <2>2 DEF Service!Refuse, Service!Send
      <3>2. at'["main"] = "answer"
        BY <1>0, <2>2
      <3>3. NextIsNew'
        BY <1>j, <2>0, <2>n, <3>1, <3>2 DEF IInv, NextIsNew, BeforeRegistered
      <3>4. RegisteredAreOpen'
        BY <1>j, <2>0, <2>n, <3>1 DEF IInv, RegisteredAreOpen
      <3>5. Service!Next
        BY <2>2, <2>n DEF Service!Next
      <3> QED BY <3>3, <3>4, <3>5 DEF JobsKept
    <2> QED BY <1>4, <2>1, <2>2 DEF Send
  <1>5. CASE Answer
    <2>1. MainUndecided
      BY <1>0, <1>5 DEF Answer, MainUndecided, BeforeRegistered
    <2> QED BY <1>5, <2>1, NothingTold DEF Answer
  <1> QED BY <1>1, <1>2, <1>3, <1>4, <1>5 DEF Main

LEMMA ReceiverTold == ASSUME IInv, Receiver PROVE JobsKept
  <1> USE DEF GoTo, callVars, jobVars, Threads
  <1>0. at \in [Threads -> {"idle", "check", "connect", "register", "send", "answer",
                         "select", "accept", "scan", "message", "completion",
                         "close", "unlink", "mark", "sweep", "swept"}]
    BY DEF IInv, TypeOK
  <1>m. UNCHANGED next /\ at'["main"] = at["main"]
    BY <1>0 DEF Receiver, Select, Accept, Scan, Message, Completion
  <1>u. MainUndecided
    BY <1>m DEF MainUndecided
  <1>1. CASE Select \/ Accept \/ Scan
    BY <1>1, <1>u, NothingTold DEF Select, Accept, Scan
  <1>2. CASE Message
    <2>0. UNCHANGED jobs
      BY <1>2 DEF Message
    <2>1. CASE UNCHANGED job
      BY <1>m, <1>u, <2>0, <2>1, NothingTold
    <2>2. ASSUME NEW j, Registered(j), job[j] = "sent", Service!Start(j)
          PROVE  JobsKept
      <3>1. j \in Job /\ job \in [Job -> Service!JobStates] /\ jobs \subseteq Job
        BY <2>2 DEF Registered, IInv, TypeOK, Service!TypeOK
      <3>2. job' = [job EXCEPT ![j] = "doing"]
        BY <2>2 DEF Service!Start
      <3>3. NextIsNew'
        BY <1>m, <2>0, <2>2, <3>1, <3>2 DEF IInv, NextIsNew
      <3>4. RegisteredAreOpen'
        BY <2>0, <3>1, <3>2 DEF IInv, RegisteredAreOpen
      <3>5. Service!Next
        BY <2>2, <3>1 DEF Service!Next
      <3> QED BY <3>3, <3>4, <3>5 DEF JobsKept
    <2> QED BY <1>2, <2>1, <2>2 DEF Message
  <1>3. CASE Completion
    BY <1>3, <1>m, <1>u, CompletionTold DEF Completion
  <1> QED BY <1>1, <1>2, <1>3 DEF Receiver

LEMMA ServerTold ==
  ASSUME IInv, NEW s \in Servers, Server(s) \/ ServerDies(s) \/ ServerRises(s)
  PROVE  JobsKept
  <1>1. UNCHANGED <<jobs, job, next, at>>
    BY DEF Server, ServerStarts, ServerFinishes, ServerDies, ServerRises, callVars, jobVars
  <1>2. MainUndecided
    BY <1>1 DEF MainUndecided
  <1> QED BY <1>1, <1>2, NothingTold

LEMMA StepKeeps == ASSUME IInv, [Next]_vars PROVE IInv' /\ [Service!Next \/ stray']_job
  <1>1. CASE \E a \in {Address[s] : s \in Servers} : Begin(a)
    BY <1>1, BeginType, BeginTold, AcceptsKept DEF IInv, JobsKept
  <1>2. CASE Main
    BY <1>2, MainType, MainTold, AcceptsKept DEF IInv, JobsKept
  <1>3. CASE Receiver
    BY <1>3, ReceiverType, ReceiverTold, AcceptsKept DEF IInv, JobsKept
  <1>4. CASE \E t \in Threads : RemoveClient(t)
    BY <1>4, RemoveType, RemoveTold, AcceptsKept DEF IInv, JobsKept
  <1>5. CASE \E s \in Servers : Server(s) \/ ServerDies(s) \/ ServerRises(s)
    BY <1>5, ServerType, ServerTold DEF IInv, JobsKept
  <1>6. CASE UNCHANGED vars
    BY <1>6 DEF IInv, vars, clientVars, jobVars, rcvVars, callVars, srvVars, netVars,
      TypeOK, HoldsClient, AcceptsSomeone, NextIsNew, RegisteredAreOpen, Service!TypeOK
  <1> QED BY <1>1, <1>2, <1>3, <1>4, <1>5, <1>6 DEF Next, Rest, Threads

-----------------------------------------------------------------------------
(* The lists of clients and sockets. *)

Entered(c)  == client[c].address # 0
Removing(c) == \E t \in Threads : at[t] = "unlink" /\ held[t] = c
Whole(c)    == c \in list /\ ~Removing(c)

(* A client's host has lost a server. *)
HostGone(c) == Entered(c) /\ \E s \in dead : Host[s] = client[c].host

(* Both threads are in RemoveClient() with one client. *)
RemovedTwice ==
  \A t \in Threads : at[t] = "unlink" /\ held[t] = held["main"]

Mistaken == stray \/ FreedTwice \/ RemovedTwice

(* The entries of the list have been made, and those that have not been     *)
(* made are empty.                                                          *)
EntriesMade ==
  /\ \A c \in Clients : IF Entered(c) THEN client[c].send \in Fds
                                      ELSE c \notin list /\ client[c].send = None
  /\ \A t \in Threads : held[t] # None => Entered(held[t])

(* A server that has, or waits for, a connection lives or has lived; it has *)
(* one connection back, and waits for it once.                              *)
OneReply ==
  /\ \A n \in Fds, s \in Servers : fd[n] \in {SendTo(s), ReplyFrom(s)} => s \in up \cup dead
  /\ \A m, n \in Fds, s \in Servers : fd[m] = ReplyFrom(s) /\ fd[n] = ReplyFrom(s) => m = n
  /\ \A n \in Fds, s \in Servers : fd[n] = ReplyFrom(s) => replying[s]
  /\ \A k \in DOMAIN backlog :
       /\ backlog[k] \in up \cup dead /\ replying[backlog[k]]
       /\ \A n \in Fds : fd[n] # ReplyFrom(backlog[k])
       /\ \A m \in DOMAIN backlog : backlog[k] = backlog[m] => k = m

(* A connection to a server is, or was, one of its host's clients. *)
SendersListed ==
  \A n \in Fds, s \in Servers : fd[n] = SendTo(s) =>
    \E c \in Clients : Entered(c) /\ client[c].send = n /\ client[c].host = Host[s]

SocketsRight == OneReply /\ SendersListed

(* What the receiver found to read is still there to be read. *)
StillReadable(n) ==
  \A s \in Servers : fd[n] = ReplyFrom(s) => s \in dead \/ wire[s] # <<>>
ReadyTrue ==
  /\ at["receiver"] \notin {"select", "accept"} => \A n \in ready : StillReadable(n)
  /\ at["receiver"] = "message" =>
       LET n == client[held["receiver"]].reply IN n \in Fds \ ready /\ StillReadable(n)

(* A client nobody removes has the connections it was given, for itself. *)
Intact(c) ==
  /\ \E s \in Servers : fd[client[c].send] = SendTo(s) /\ Host[s] = client[c].host
  /\ client[c].reply # None =>
       \E s \in Servers : fd[client[c].reply] = ReplyFrom(s) /\ Host[s] = client[c].host
WholeIntact == \A c \in Clients : Whole(c) => Intact(c)
Apart ==
  \A c, d \in Clients : Whole(c) /\ Whole(d) /\ c # d =>
    /\ client[c].send # client[d].send
    /\ client[c].reply # None => client[c].reply # client[d].reply

(* A client is removed, and its jobs are marked, because of a server of its host. *)
RemovedRightly ==
  \A t \in Threads : at[t] \in {"close", "unlink"} => HostGone(held[t])
NumberGone(n) == \E c \in Clients : HostGone(c) /\ client[c].send = n
MarkedRightly ==
  /\ \A t \in Threads : at[t] \in {"unlink", "mark"} => NumberGone(lastSock[t])
  /\ \A j \in Job : marked[j] => NumberGone(sock[j])

SweepsMarked == \A t \in Threads : at[t] = "swept" => heldJob[t] \in Job /\ marked[heldJob[t]]

(* A job has been sent on the number of a client of its server's host. *)
SentOnClient ==
  /\ \A j \in Job : for[j] # None =>
       \E c \in Clients : Entered(c) /\ client[c].send = sock[j] /\ client[c].host = Host[for[j]]
  /\ \A j \in Job : job[j] \notin {"none", "refused"} \/ why[j] # "none" => for[j] # None

(* Nothing is known of a job that has not been sent. *)
NothingYet ==
  /\ \A j \in Job : j > next => ~marked[j] /\ for[j] = None /\ why[j] = "none"
  /\ at["main"] \in BeforeRegistered => ~marked[next]
  /\ at["main"] \in BeforeRegistered \cup {"send"} => for[next] = None /\ why[next] = "none"

(* What main sends a job on is a number. *)
SendsOnNumber ==
  /\ at["main"] = "register" => lastSock["main"] \in Fds
  /\ at["main"] = "send" => sock[next] \in Fds

JobsRight == SweepsMarked /\ SentOnClient /\ NothingYet /\ SendsOnNumber

Sound == ~Mistaken => WholeIntact /\ Apart /\ RemovedRightly /\ MarkedRightly

SocketInv ==
  EntriesMade /\ SocketsRight /\ ReadyTrue /\ JobsRight /\ Sound /\ PathDownExplained

AnyStep ==
  \/ \E a \in {Address[s] : s \in Servers} : Begin(a)
  \/ Main \/ Receiver
  \/ \E t \in Threads : RemoveClient(t)
  \/ \E s \in Servers : Server(s) \/ ServerDies(s) \/ ServerRises(s)

LEMMA InitSocketInv == Init => SocketInv
  <1> SUFFICES ASSUME Init PROVE SocketInv
    OBVIOUS
  <1> USE DEF Init, Threads, None
  <1>1. EntriesMade /\ SocketsRight
    BY DEF EntriesMade, SocketsRight, OneReply, SendersListed, Entered, Free, SendTo, ReplyFrom
  <1>2. ReadyTrue /\ SweepsMarked
    BY DEF ReadyTrue, SweepsMarked
  <1>3. SentOnClient /\ NothingYet /\ SendsOnNumber /\ PathDownExplained
    BY DEF SentOnClient, NothingYet, SendsOnNumber, PathDownExplained, Service!Init, BeforeRegistered
  <1>4. Sound
    BY DEF Sound, WholeIntact, Apart, RemovedRightly, MarkedRightly, Whole
  <1> QED BY <1>1, <1>2, <1>3, <1>4 DEF SocketInv, JobsRight

-----------------------------------------------------------------------------
(* The entries of the list. *)

EntriesKept ==
  /\ \A c \in Clients : Entered(c) =>
       Entered(c)' /\ client'[c].send = client[c].send /\ client'[c].host = client[c].host
  /\ dead \subseteq dead'

LEMMA ClientNumbers == Clients \subseteq Nat /\ None \notin Clients
  BY DEF Clients, None

LEMMA ClientType ==
  ASSUME TypeOK
  PROVE  /\ \A c \in Clients : /\ client[c].send \in Fds \cup {None}
                               /\ client[c].reply \in Fds \cup {None}
                               /\ client[c].address \in Nat /\ client[c].host \in Nat
         /\ list \subseteq Clients /\ None \notin Fds /\ None \notin Clients
  <1>1. list \subseteq Clients /\ None \notin Fds
    BY ListAssumption DEF TypeOK, None
  <1>2. client \in [Clients -> [address : Nat, host : Nat, send : Fds \cup {None},
                               reply : Fds \cup {None}]]
    BY DEF TypeOK
  <1> HIDE DEF None
  <1> QED BY <1>1, <1>2, ClientNumbers

LEMMA EntriesSame ==
  ASSUME IInv, EntriesMade, UNCHANGED client, list' \subseteq list, dead \subseteq dead',
         \A t \in Threads : held'[t] \in {held[t], None} \cup list
  PROVE  EntriesMade' /\ EntriesKept
  BY ClientType DEF IInv, EntriesMade, EntriesKept, Entered

LEMMA RemoveEntries ==
  ASSUME IInv, EntriesMade, NEW t \in Threads, RemoveClient(t)
  PROVE  EntriesMade' /\ EntriesKept
  <1> USE DEF clientVars, srvVars
  <1>1. /\ UNCHANGED client /\ list' \subseteq list /\ dead \subseteq dead'
        /\ held' = held \/ held' = [held EXCEPT ![t] = None]
    BY DEF RemoveClient, Close, Unlink, Mark, Sweep, CompleteLost
  <1>2. \A u \in Threads : held'[u] \in {held[u], None}
    BY <1>1 DEF IInv, TypeOK
  <1> QED BY <1>1, <1>2, EntriesSame

LEMMA ConnectIs ==
  ASSUME IInv, Connect
  PROVE  /\ at["main"] = "connect"
         /\ \/ \E s \in up : \E c \in Clients :
                 /\ Lowest \in Fds /\ fd[Lowest] = Free /\ client[c].address = 0
                 /\ fd' = [fd EXCEPT ![Lowest] = SendTo(s)]
                 /\ client' = [client EXCEPT ![c] =
                       [address |-> Address[s], host |-> Host[s], send |-> Lowest,
                        reply |-> None]]
                 /\ list' = list \cup {c}
                 /\ at' = [at EXCEPT !["main"] = "register"]
                 /\ lastSock' = [lastSock EXCEPT !["main"] = Lowest]
                 /\ UNCHANGED job
            \/ /\ UNCHANGED <<fd, clientVars, lastSock>>
               /\ job' = [job EXCEPT ![next] = "refused"]
               /\ at' = [at EXCEPT !["main"] = "idle"]
         /\ UNCHANGED <<jobVars, rcvVars, held, heldJob, callVars, srvVars, netVars, for,
                        why, doomed, stray>>
  <1>1. Unused # {} => Lowest \in Fds /\ fd[Lowest] = Free
    <2>1. Unused \subseteq Nat
      BY ListAssumption DEF Unused
    <2>2. Unused # {} => Lowest \in Unused
      BY <2>1, MinIn DEF Lowest
    <2> QED BY <2>2 DEF Unused
  <1>2. CASE Service!Refuse(next, "refused") /\ GoTo("main", "idle")
             /\ UNCHANGED <<fd, clientVars, lastSock>>
    BY <1>2 DEF Connect, Service!Refuse, GoTo
  <1>3. CASE \E s \in up : \E c \in Clients :
          /\ Address[s] = to /\ Unused # {}
          /\ client[c].address = 0
          /\ fd' = [fd EXCEPT ![Lowest] = SendTo(s)]
          /\ client' = [client EXCEPT ![c] =
                [address |-> to, host |-> Host[s], send |-> Lowest, reply |-> None]]
          /\ list' = list \cup {c}
          /\ lastSock' = [lastSock EXCEPT !["main"] = Lowest]
          /\ GoTo("main", "register")
          /\ UNCHANGED job
    BY <1>1, <1>3 DEF Connect, GoTo
  <1> QED BY <1>2, <1>3 DEF Connect

LEMMA AcceptIs ==
  ASSUME IInv, Accept
  PROVE  /\ at["receiver"] = "accept" /\ at' = [at EXCEPT !["receiver"] = "select"]
         /\ backlog # <<>> /\ backlog' = Tail(backlog) /\ Head(backlog) \in Servers
         /\ \/ /\ replying' = [replying EXCEPT ![Head(backlog)] = FALSE]
               /\ wire' = [wire EXCEPT ![Head(backlog)] = <<>>]
               /\ UNCHANGED <<fd, client, active>>
            \/ /\ Lowest \in Fds /\ fd[Lowest] = Free
               /\ fd' = [fd EXCEPT ![Lowest] = ReplyFrom(Head(backlog))]
               /\ \E c \in list :
                    /\ client[c].host = Host[Head(backlog)] /\ client[c].reply = None
                    /\ client' = [client EXCEPT ![c].reply = Lowest]
               /\ UNCHANGED <<replying, wire>>
         /\ UNCHANGED <<list, jobVars, ready, failures, held, heldJob, lastSock, callVars,
                        srvVars, job, for, why, doomed, stray>>
  <1> DEFINE s == Head(backlog)
             waiting == {c \in list : client[c].host = Host[s] /\ client[c].reply = None}
  <1>1. Lowest \in Fds /\ fd[Lowest] = Free
    <2>1. Unused \subseteq Nat /\ Unused # {}
      BY ListAssumption DEF Unused, Accept
    <2>2. Lowest \in Unused
      BY <2>1, MinIn DEF Lowest
    <2> QED BY <2>2 DEF Unused
  <1>2. backlog # <<>> /\ Head(backlog) \in Servers
    <2>1. backlog \in Seq(Servers) /\ backlog # <<>>
      BY DEF Accept, IInv, TypeOK, AcceptsSomeone
    <2> QED BY <2>1
  <1>3. waiting # {} => Min(waiting) \in waiting
    <2>1. list \subseteq Clients
      BY DEF IInv, TypeOK
    <2>2. waiting \subseteq Nat
      BY <2>1, ClientNumbers
    <2> QED BY <2>2, MinIn
  <1>4. CASE waiting = {}
    BY <1>2, <1>4 DEF Accept, GoTo
  <1>5. CASE waiting # {}
    BY <1>1, <1>2, <1>3, <1>5 DEF Accept, GoTo
  <1> QED BY <1>4, <1>5

LEMMA EntriesStep == ASSUME IInv, EntriesMade, AnyStep PROVE EntriesMade' /\ EntriesKept
  <1> USE DEF clientVars, srvVars, Threads
  <1>t. held \in [Threads -> Clients \cup {None}] /\ list \subseteq Clients
    BY DEF IInv, TypeOK
  <1>1. ASSUME NEW a, Begin(a) PROVE EntriesMade' /\ EntriesKept
    <2>1. ClientsAt(a) # {} => Min(ClientsAt(a)) \in list
      <3>1. ClientsAt(a) \subseteq Nat
        BY <1>t, ClientNumbers DEF ClientsAt
      <3> QED BY <3>1, MinIn DEF ClientsAt
    <2>2. held' = held \/ \E c \in list : held' = [held EXCEPT !["main"] = c]
      BY <1>1, <2>1 DEF Begin
    <2>3. \A t \in Threads : held'[t] \in {held[t], None} \cup list
      BY <1>t, <2>2
    <2> QED BY <1>1, <2>3, EntriesSame DEF Begin
  <1>2. CASE Check \/ RegisterJob \/ Send \/ Answer
    <2>1. /\ UNCHANGED <<client, list, dead>>
          /\ held' = held \/ held' = [held EXCEPT !["main"] = None]
      BY <1>2 DEF Check, RegisterJob, Send, Answer
    <2>2. \A t \in Threads : held'[t] \in {held[t], None} \cup list
      BY <1>t, <2>1
    <2> QED BY <2>1, <2>2, EntriesSame
  <1>3. CASE Connect
    <2>0. UNCHANGED <<held, dead>>
      BY <1>3, ConnectIs
    <2>1. CASE UNCHANGED <<client, list>>
      BY <2>0, <2>1, EntriesSame
    <2>2. ASSUME NEW s \in up, NEW c \in Clients, Lowest \in Fds, client[c].address = 0,
                 client' = [client EXCEPT ![c] =
                       [address |-> Address[s], host |-> Host[s], send |-> Lowest,
                        reply |-> None]],
                 list' = list \cup {c}
          PROVE  EntriesMade' /\ EntriesKept
      <3>1. Address[s] # 0
        BY ListAssumption DEF IInv, TypeOK
      <3>2. /\ client'[c].address # 0 /\ client'[c].send \in Fds
            /\ \A d \in Clients : d # c => client'[d] = client[d]
        BY <2>2, <3>1 DEF IInv, TypeOK
      <3>3. EntriesMade'
        BY <2>0, <2>2, <3>2, <1>t DEF EntriesMade, Entered
      <3>4. EntriesKept
        BY <2>0, <2>2, <3>2 DEF EntriesKept, Entered
      <3> QED BY <3>3, <3>4
    <2> QED BY <1>3, <2>1, <2>2, ConnectIs
  <1>4. CASE Accept
    <2>1. UNCHANGED <<held, dead, list>>
      BY <1>4, AcceptIs
    <2>2. \A c \in Clients : /\ client'[c].address = client[c].address
                             /\ client'[c].send = client[c].send
                             /\ client'[c].host = client[c].host
      <3>1. client \in [Clients -> [address : Nat, host : Nat, send : Fds \cup {None},
                                   reply : Fds \cup {None}]]
        BY DEF IInv, TypeOK
      <3>2. CASE UNCHANGED client
        BY <3>2
      <3>3. ASSUME NEW d \in list, client' = [client EXCEPT ![d].reply = Lowest]
            PROVE  \A c \in Clients : /\ client'[c].address = client[c].address
                                      /\ client'[c].send = client[c].send
                                      /\ client'[c].host = client[c].host
        BY <3>1, <3>3, <1>t
      <3> QED BY <1>4, <3>2, <3>3, AcceptIs
    <2>3. EntriesMade'
      BY <2>1, <2>2, <1>t DEF EntriesMade, Entered
    <2> QED BY <2>1, <2>2, <2>3 DEF EntriesKept, Entered
  <1>5. CASE Select \/ Completion
    BY <1>5, EntriesSame DEF Select, Completion
  <1>6. CASE Scan \/ Message
    <2>1. {c \in list : client[c].reply \in ready} # {} =>
             Min({c \in list : client[c].reply \in ready}) \in list
      <3>1. {c \in list : client[c].reply \in ready} \subseteq Nat
        BY <1>t, ClientNumbers
      <3> QED BY <3>1, MinIn
    <2>2. held' = held \/ \E c \in list \cup {None} : held' = [held EXCEPT !["receiver"] = c]
      BY <1>6, <2>1 DEF Scan, Message
    <2>3. \A t \in Threads : held'[t] \in {held[t], None} \cup list
      BY <1>t, <2>2
    <2>4. UNCHANGED <<client, list, dead>>
      BY <1>6 DEF Scan, Message
    <2> QED BY <2>3, <2>4, EntriesSame
  <1>7. ASSUME NEW s \in Servers, Server(s) \/ ServerDies(s) \/ ServerRises(s)
        PROVE  EntriesMade' /\ EntriesKept
    <2>1. UNCHANGED <<client, list, held>> /\ dead \subseteq dead'
      BY <1>7 DEF Server, ServerStarts, ServerFinishes, ServerDies, ServerRises
    <2> QED BY <2>1, EntriesSame
  <1> QED BY <1>1, <1>2, <1>3, <1>4, <1>5, <1>6, <1>7, RemoveEntries
       DEF AnyStep, Main, Receiver

-----------------------------------------------------------------------------
(* The sockets. *)

LEMMA Names ==
  /\ \A s \in Servers : SendTo(s) # Free /\ ReplyFrom(s) # Free
  /\ \A s, v \in Servers : SendTo(s) # ReplyFrom(v)
  /\ \A s, v \in Servers : SendTo(s) = SendTo(v) => s = v
  /\ \A s, v \in Servers : ReplyFrom(s) = ReplyFrom(v) => s = v
  BY DEF SendTo, ReplyFrom, Free

LEMMA Waiters ==
  ASSUME TypeOK
  PROVE  \A k \in DOMAIN backlog : backlog[k] \in Servers
  <1>1. backlog \in Seq(Servers)
    BY DEF TypeOK
  <1>2. DOMAIN backlog = 1 .. Len(backlog) /\ Len(backlog) \in Nat
    BY <1>1
  <1> QED BY <1>1, <1>2

LEMMA SocketsSame ==
  ASSUME SocketsRight, UNCHANGED <<fd, backlog, replying>>,
         up \cup dead \subseteq up' \cup dead', EntriesKept
  PROVE  SocketsRight'
  <1>1. OneReply'
    BY DEF SocketsRight, OneReply
  <1>2. SendersListed'
    BY DEF SocketsRight, SendersListed, EntriesKept
  <1> QED BY <1>1, <1>2 DEF SocketsRight

LEMMA CloseSockets ==
  ASSUME IInv, SocketsRight, NEW t \in Threads, Close(t), EntriesKept
  PROVE  SocketsRight'
  <1> DEFINE S == {client[held[t]].reply, client[held[t]].send} \ {None}
  <1>1. Cut(S)
    BY DEF Close
  <1>r. S \subseteq Fds
    BY ClientType DEF IInv, HoldsClient, Close
  <1> HIDE DEF S
  <1>2. /\ \A n \in Fds : fd'[n] \in {fd[n], Free}
        /\ \A n \in Fds : n \in S => fd'[n] = Free
        /\ \A n \in Fds : n \notin S => fd'[n] = fd[n]
        /\ \A s \in Servers : replying'[s] = (replying[s] /\ \A n \in S : fd[n] # ReplyFrom(s))
    BY <1>1 DEF Cut
  <1>3. UNCHANGED <<backlog, up, dead>>
    BY DEF Close, srvVars
  <1>s. \A k \in DOMAIN backlog : backlog[k] \in Servers
    BY Waiters DEF IInv
  <1>4. \A n \in Fds, s \in Servers : fd'[n] = ReplyFrom(s) => fd[n] = ReplyFrom(s) /\ n \notin S
    BY <1>2, Names
  <1>5. \A n \in Fds, s \in Servers : fd'[n] = SendTo(s) => fd[n] = SendTo(s)
    BY <1>2, Names
  <1>6. /\ \A n \in Fds, s \in Servers :
             fd'[n] \in {SendTo(s), ReplyFrom(s)} => s \in up' \cup dead'
        /\ \A m, n \in Fds, s \in Servers :
             fd'[m] = ReplyFrom(s) /\ fd'[n] = ReplyFrom(s) => m = n
    BY <1>3, <1>4, <1>5 DEF SocketsRight, OneReply
  <1>7. \A n \in Fds, s \in Servers : fd'[n] = ReplyFrom(s) => replying'[s]
    <2> SUFFICES ASSUME NEW n \in Fds, NEW s \in Servers, fd'[n] = ReplyFrom(s)
                 PROVE  replying'[s]
      OBVIOUS
    <2>1. fd[n] = ReplyFrom(s) /\ n \notin S /\ replying[s]
      BY <1>4 DEF SocketsRight, OneReply
    <2>2. \A m \in S : fd[m] # ReplyFrom(s)
      BY <2>1, <1>r DEF SocketsRight, OneReply
    <2> QED BY <1>2, <2>1, <2>2
  <1>8. \A k \in DOMAIN backlog' :
          /\ backlog'[k] \in up' \cup dead' /\ replying'[backlog'[k]]
          /\ \A n \in Fds : fd'[n] # ReplyFrom(backlog'[k])
          /\ \A m \in DOMAIN backlog' : backlog'[k] = backlog'[m] => k = m
    <2> SUFFICES ASSUME NEW k \in DOMAIN backlog
                 PROVE  /\ backlog[k] \in up \cup dead /\ replying'[backlog[k]]
                        /\ \A n \in Fds : fd'[n] # ReplyFrom(backlog[k])
                        /\ \A m \in DOMAIN backlog : backlog[k] = backlog[m] => k = m
      BY <1>3
    <2>1. backlog[k] \in Servers /\ replying[backlog[k]]
          /\ \A n \in Fds : fd[n] # ReplyFrom(backlog[k])
      BY <1>s DEF SocketsRight, OneReply
    <2>2. replying'[backlog[k]] /\ \A n \in Fds : fd'[n] # ReplyFrom(backlog[k])
      BY <1>2, <1>4, <1>r, <2>1
    <2> QED BY <2>2 DEF SocketsRight, OneReply
  <1>9. OneReply'
    BY <1>6, <1>7, <1>8 DEF OneReply
  <1>10. SendersListed'
    BY <1>5 DEF SocketsRight, SendersListed, EntriesKept
  <1> QED BY <1>9, <1>10 DEF SocketsRight

LEMMA ConnectSockets ==
  ASSUME IInv, EntriesMade, SocketsRight, Connect, EntriesKept
  PROVE  SocketsRight'
  <1>0. UNCHANGED <<backlog, replying, up, dead>>
    BY ConnectIs DEF netVars, srvVars
  <1>1. CASE UNCHANGED fd
    BY <1>0, <1>1, SocketsSame
  <1>2. ASSUME NEW v \in up, NEW c \in Clients, Lowest \in Fds, fd[Lowest] = Free,
               fd' = [fd EXCEPT ![Lowest] = SendTo(v)],
               client' = [client EXCEPT ![c] =
                       [address |-> Address[v], host |-> Host[v], send |-> Lowest,
                        reply |-> None]]
        PROVE  SocketsRight'
    <2>0. v \in Servers /\ Address[v] # 0
      BY ListAssumption DEF IInv, TypeOK
    <2>1. fd'[Lowest] = SendTo(v) /\ \A n \in Fds : n # Lowest => fd'[n] = fd[n]
      BY <1>2 DEF IInv, TypeOK
    <2>2. \A n \in Fds, s \in Servers : fd'[n] = ReplyFrom(s) => fd[n] = ReplyFrom(s)
      BY <2>0, <2>1, Names
    <2>3. \A n \in Fds, s \in Servers :
             fd'[n] = SendTo(s) => fd[n] = SendTo(s) \/ (n = Lowest /\ s = v)
      BY <2>0, <2>1, Names
    <2>s. \A k \in DOMAIN backlog : backlog[k] \in Servers
      BY Waiters DEF IInv
    <2>4. OneReply'
      BY <1>0, <1>2, <2>0, <2>2, <2>3, <2>s DEF SocketsRight, OneReply
    <2>5. Entered(c)' /\ client'[c].send = Lowest /\ client'[c].host = Host[v]
      BY <1>2, <2>0 DEF Entered, IInv, TypeOK
    <2>6. SendersListed'
      BY <2>3, <2>5 DEF SocketsRight, SendersListed, EntriesKept
    <2> QED BY <2>4, <2>6 DEF SocketsRight
  <1> QED BY <1>1, <1>2, ConnectIs

LEMMA AcceptSockets ==
  ASSUME IInv, SocketsRight, Accept, EntriesKept
  PROVE  SocketsRight'
  <1> DEFINE v == Head(backlog)
  <1>0. /\ UNCHANGED <<up, dead>> /\ backlog # <<>> /\ backlog' = Tail(backlog)
        /\ v \in Servers
    BY AcceptIs DEF srvVars
  <1>1. /\ 1 \in DOMAIN backlog /\ v = backlog[1]
        /\ \A k \in DOMAIN backlog' : /\ k \in Nat \ {0} /\ k + 1 \in DOMAIN backlog
                                      /\ backlog'[k] = backlog[k + 1]
    <2>1. backlog \in Seq(Servers)
      BY DEF IInv, TypeOK
    <2> QED BY <1>0, <2>1
  <1>s. \A k \in DOMAIN backlog : backlog[k] \in Servers
    BY Waiters DEF IInv
  <1>b. /\ v \in up \cup dead /\ replying[v] /\ \A n \in Fds : fd[n] # ReplyFrom(v)
    BY <1>1 DEF SocketsRight, OneReply
  <1>c. \A k, m \in DOMAIN backlog : backlog[k] = backlog[m] => k = m
    BY DEF SocketsRight, OneReply
  <1>d. \A k \in DOMAIN backlog' : k + 1 # 1 /\ \A m \in DOMAIN backlog' : k + 1 = m + 1 => k = m
    <2>1. \A k, m \in Nat \ {0} : k + 1 # 1 /\ (k + 1 = m + 1 => k = m)
      OBVIOUS
    <2> QED BY <1>1, <2>1, Zenon
  <1>e. \A k \in DOMAIN backlog' : backlog'[k] # v
    BY <1>1, <1>c, <1>d
  <1>f. \A k, m \in DOMAIN backlog' : backlog'[k] = backlog'[m] => k = m
    BY <1>1, <1>c, <1>d
  <1>2. /\ v \in up \cup dead /\ replying[v] /\ \A n \in Fds : fd[n] # ReplyFrom(v)
        /\ \A k \in DOMAIN backlog' : backlog'[k] # v
        /\ \A k, m \in DOMAIN backlog' : backlog'[k] = backlog'[m] => k = m
    BY <1>b, <1>e, <1>f
  <1>3. CASE replying' = [replying EXCEPT ![v] = FALSE] /\ UNCHANGED fd
    <2>1. \A s \in Servers : s # v => replying'[s] = replying[s]
      BY <1>3 DEF IInv, TypeOK
    <2>2. OneReply'
      BY <1>0, <1>1, <1>2, <1>3, <1>s, <2>1 DEF SocketsRight, OneReply
    <2>3. SendersListed'
      BY <1>3 DEF SocketsRight, SendersListed, EntriesKept
    <2> QED BY <2>2, <2>3 DEF SocketsRight
  <1>4. CASE /\ Lowest \in Fds /\ fd[Lowest] = Free
             /\ fd' = [fd EXCEPT ![Lowest] = ReplyFrom(v)]
             /\ UNCHANGED replying
    <2>1. fd'[Lowest] = ReplyFrom(v) /\ \A n \in Fds : n # Lowest => fd'[n] = fd[n]
      BY <1>4 DEF IInv, TypeOK
    <2>2. \A n \in Fds, s \in Servers :
             fd'[n] = ReplyFrom(s) => fd[n] = ReplyFrom(s) \/ (n = Lowest /\ s = v)
      BY <1>0, <2>1, Names
    <2>3. \A n \in Fds, s \in Servers : fd'[n] = SendTo(s) => fd[n] = SendTo(s)
      BY <1>0, <2>1, Names
    <2> HIDE DEF v
    <2>4. /\ \A n \in Fds, s \in Servers :
               fd'[n] \in {SendTo(s), ReplyFrom(s)} => s \in up' \cup dead'
          /\ \A n \in Fds, s \in Servers : fd'[n] = ReplyFrom(s) => replying'[s]
      BY <1>0, <1>2, <1>4, <2>2, <2>3 DEF SocketsRight, OneReply
    <2>5. \A m, n \in Fds, s \in Servers :
             fd'[m] = ReplyFrom(s) /\ fd'[n] = ReplyFrom(s) => m = n
      BY <1>2, <2>2 DEF SocketsRight, OneReply
    <2>6. \A k \in DOMAIN backlog' :
            /\ backlog'[k] \in up' \cup dead' /\ replying'[backlog'[k]]
            /\ \A n \in Fds : fd'[n] # ReplyFrom(backlog'[k])
      BY <1>0, <1>1, <1>2, <1>4, <1>s, <2>2 DEF SocketsRight, OneReply
    <2>7. OneReply'
      BY <1>2, <2>4, <2>5, <2>6 DEF OneReply
    <2>8. SendersListed'
      BY <2>3 DEF SocketsRight, SendersListed, EntriesKept
    <2> QED BY <2>7, <2>8 DEF SocketsRight
  <1> QED BY <1>3, <1>4, AcceptIs

LEMMA ReplySockets ==
  ASSUME IInv, SocketsRight, NEW v \in up, NEW m, Reply(v, m), UNCHANGED <<fd, up, dead>>,
         EntriesKept
  PROVE  SocketsRight'
  <1>1. v \in Servers /\ backlog \in Seq(Servers) /\ replying \in [Servers -> BOOLEAN]
    BY DEF IInv, TypeOK
  <1>2. CASE replying[v]
    BY <1>1, <1>2, SocketsSame DEF Reply
  <1>3. CASE ~replying[v]
    <2>1. replying'[v] /\ \A s \in Servers : replying[s] => replying'[s]
      BY <1>1 DEF Reply
    <2>2. \A n \in Fds : fd[n] # ReplyFrom(v)
      BY <1>1, <1>3 DEF SocketsRight, OneReply
    <2>3. \A k \in DOMAIN backlog : backlog[k] # v
      BY <1>3 DEF SocketsRight, OneReply
    <2>4. \A k \in DOMAIN backlog' : \/ k \in DOMAIN backlog /\ backlog'[k] = backlog[k]
                                     \/ k = Len(backlog) + 1 /\ backlog'[k] = v
      BY <1>1, <1>3 DEF Reply
    <2>s. \A k \in DOMAIN backlog : backlog[k] \in Servers
      BY <1>1
    <2>5. OneReply'
      BY <1>1, <2>1, <2>2, <2>3, <2>4, <2>s DEF SocketsRight, OneReply
    <2>6. SendersListed'
      BY DEF SocketsRight, SendersListed, EntriesKept
    <2> QED BY <2>5, <2>6 DEF SocketsRight
  <1> QED BY <1>2, <1>3

LEMMA SocketsStep ==
  ASSUME IInv, EntriesMade, SocketsRight, AnyStep, EntriesKept
  PROVE  SocketsRight'
  <1> USE DEF netVars, srvVars
  <1>1. CASE \E a \in {Address[s] : s \in Servers} : Begin(a)
    BY <1>1, SocketsSame DEF Begin
  <1>2. CASE Check \/ RegisterJob \/ Send \/ Answer
    <2>1. UNCHANGED <<fd, backlog, replying, up, dead>>
      BY <1>2 DEF Check, RegisterJob, Send, Answer
    <2> QED BY <2>1, SocketsSame
  <1>3. CASE Select \/ Scan \/ Message \/ Completion
    <2>1. UNCHANGED <<fd, backlog, replying, up, dead>>
      BY <1>3 DEF Select, Scan, Message, Completion
    <2> QED BY <2>1, SocketsSame
  <1>4. ASSUME NEW t \in Threads, Unlink(t) \/ Mark(t) \/ Sweep(t) \/ CompleteLost(t)
        PROVE  SocketsRight'
    <2>1. UNCHANGED <<fd, backlog, replying, up, dead>>
      BY <1>4 DEF Unlink, Mark, Sweep, CompleteLost
    <2> QED BY <2>1, SocketsSame
  <1>5. ASSUME NEW s \in Servers, Server(s)
        PROVE  SocketsRight'
    <2>1. \E m : s \in up /\ Reply(s, m) /\ UNCHANGED <<fd, up, dead>>
      BY <1>5 DEF Server, ServerStarts, ServerFinishes
    <2> QED BY <2>1, ReplySockets
  <1>6. ASSUME NEW s \in Servers, ServerDies(s) \/ ServerRises(s)
        PROVE  SocketsRight'
    <2>1. UNCHANGED <<fd, backlog, replying>> /\ up \cup dead \subseteq up' \cup dead'
      BY <1>6 DEF ServerDies, ServerRises
    <2> QED BY <2>1, SocketsSame
  <1> QED BY <1>1, <1>2, <1>3, <1>4, <1>5, <1>6, CloseSockets, ConnectSockets, AcceptSockets
       DEF AnyStep, Main, Receiver, RemoveClient

(* What the receiver has found to read. *)
LEMMA ReadyStep ==
  ASSUME IInv, EntriesMade, OneReply, ReadyTrue, AnyStep, dead \subseteq dead'
  PROVE  ReadyTrue'
  <1> USE DEF netVars, srvVars, rcvVars, clientVars, GoTo, Threads
  <1>t. /\ at \in [Threads -> {"idle", "check", "connect", "register", "send", "answer",
                         "select", "accept", "scan", "message", "completion",
                         "close", "unlink", "mark", "sweep", "swept"}]
        /\ held \in [Threads -> Clients \cup {None}] /\ ready \subseteq Fds
        /\ wire \in [Servers -> Seq(Messages)] /\ list \subseteq Clients
    BY DEF IInv, TypeOK
  <1> DEFINE Kept == \A n \in Fds : StillReadable(n) => StillReadable(n)'
             Same == /\ at'["receiver"] \notin {"select", "accept", "message"} =>
                          at["receiver"] \notin {"select", "accept"}
                     /\ at'["receiver"] = "message" =>
                          /\ at["receiver"] = "message"
                          /\ held'["receiver"] = held["receiver"]
                          /\ client'[held["receiver"]].reply = client[held["receiver"]].reply
                     /\ ready' = ready
  <1>s. Same /\ Kept => ReadyTrue'
    BY <1>t DEF ReadyTrue
  <1>k. UNCHANGED <<fd, wire>> => Kept
    BY DEF StillReadable
  <1>1. CASE \E a \in {Address[s] : s \in Servers} : Begin(a)
    BY <1>1, <1>s, <1>k, <1>t DEF Begin
  <1>2. CASE Check \/ RegisterJob \/ Send \/ Answer
    BY <1>2, <1>s, <1>k, <1>t DEF Check, RegisterJob, Send, Answer
  <1>3. CASE Connect
    <2>1. UNCHANGED <<wire, ready, held>> /\ at'["receiver"] = at["receiver"]
      BY <1>3, <1>t, ConnectIs
    <2>2. \A c \in Clients : Entered(c) => client'[c] = client[c]
      BY <1>3, ConnectIs DEF IInv, TypeOK, Entered
    <2>3. at["receiver"] = "message" =>
            client'[held["receiver"]].reply = client[held["receiver"]].reply
      BY <2>2 DEF IInv, HoldsClient, EntriesMade, None, Clients
    <2>4. \A n \in Fds, s \in Servers : fd'[n] = ReplyFrom(s) => fd[n] = ReplyFrom(s)
      <3>1. \/ UNCHANGED fd
            \/ \E v \in Servers : Lowest \in Fds /\ fd' = [fd EXCEPT ![Lowest] = SendTo(v)]
        BY <1>3, ConnectIs DEF IInv, TypeOK
      <3>2. fd \in [Fds -> {Free} \cup {SendTo(s) : s \in Servers}
                                  \cup {ReplyFrom(s) : s \in Servers}]
        BY DEF IInv, TypeOK
      <3> QED BY <3>1, <3>2, Names
    <2>5. Kept
      BY <2>1, <2>4 DEF StillReadable
    <2> QED BY <1>s, <2>1, <2>3, <2>5
  <1>4. CASE Select
    <2>1. ASSUME NEW n \in Fds, Readable(n) PROVE StillReadable(n)
      BY <2>1, Names DEF Readable, StillReadable, OneReply
    <2>2. CASE at' = at
      BY <1>4, <2>2 DEF Select, ReadyTrue
    <2>3. CASE ready' = {n \in active : Readable(n)} /\ at'["receiver"] # "message"
      <3>1. \A n \in ready' : StillReadable(n)
        BY <2>1, <2>3 DEF IInv, TypeOK
      <3>2. \A n \in ready' : StillReadable(n)'
        BY <1>4, <3>1 DEF Select, StillReadable
      <3> QED BY <2>3, <3>2 DEF ReadyTrue
    <2> QED BY <1>4, <1>t, <2>2, <2>3 DEF Select
  <1>5. CASE Accept
    BY <1>5, <1>t, AcceptIs DEF ReadyTrue
  <1>6. CASE Scan
    <2> DEFINE those == {c \in list : client[c].reply \in ready}
    <2>0. at["receiver"] = "scan" /\ UNCHANGED <<fd, wire, dead, client>>
      BY <1>6 DEF Scan
    <2>1. \A n \in ready : StillReadable(n)'
      BY <1>t, <2>0, <1>k DEF ReadyTrue
    <2>2. CASE those = {}
      BY <1>6, <1>t, <2>1, <2>2 DEF Scan, ReadyTrue
    <2>3. CASE those # {}
      <3>1. Min(those) \in those
        BY <1>t, <2>3, ClientNumbers, MinIn
      <3>2. /\ at'["receiver"] = "message" /\ held'["receiver"] = Min(those)
            /\ ready' = ready \ {client[Min(those)].reply}
        BY <1>6, <1>t, <2>3 DEF Scan
      <3> HIDE DEF those
      <3>3. client'[held'["receiver"]].reply \in ready \ ready'
        BY <2>0, <3>1, <3>2 DEF those
      <3> QED BY <1>t, <2>1, <3>2, <3>3 DEF ReadyTrue
    <2> QED BY <2>2, <2>3
  <1>7. CASE Message
    <2> DEFINE n == client[held["receiver"]].reply
    <2>0. /\ at["receiver"] = "message" /\ UNCHANGED <<fd, dead, ready>>
          /\ at'["receiver"] \in {"close", "scan", "completion"}
      BY <1>7, <1>t DEF Message
    <2>1. n \in Fds \ ready /\ \A m \in ready : StillReadable(m)
      BY <2>0 DEF ReadyTrue
    <2> HIDE DEF n
    <2>2. CASE UNCHANGED wire
      BY <1>t, <1>k, <2>0, <2>1, <2>2 DEF ReadyTrue
    <2>3. ASSUME NEW s \in Servers, fd[n] = ReplyFrom(s), wire' = [wire EXCEPT ![s] = Tail(@)]
          PROVE  ReadyTrue'
      <3>1. \A m \in ready : fd[m] # ReplyFrom(s)
        BY <1>t, <2>1, <2>3 DEF OneReply
      <3>2. \A m \in ready : StillReadable(m)'
        BY <1>t, <2>0, <2>1, <2>3, <3>1 DEF StillReadable
      <3> QED BY <2>0, <3>2 DEF ReadyTrue
    <2> QED BY <1>7, <2>2, <2>3 DEF Message, n
  <1>8. CASE Completion
    BY <1>8, <1>s, <1>k, <1>t DEF Completion
  <1>9. ASSUME NEW t \in Threads, Close(t) PROVE ReadyTrue'
    <2> DEFINE S == {client[held[t]].reply, client[held[t]].send} \ {None}
    <2>1. Cut(S) /\ UNCHANGED <<ready, client, held, dead>> /\ at' = [at EXCEPT ![t] = "unlink"]
          /\ at[t] = "close"
      BY <1>9 DEF Close
    <2>2. S \subseteq Fds
      BY <2>1, ClientType DEF IInv, HoldsClient
    <2> HIDE DEF S
    <2>3. \A n \in Fds, s \in Servers : fd'[n] = ReplyFrom(s) => fd[n] = ReplyFrom(s) /\ n \notin S
      BY <2>1, Names DEF Cut
    <2>4. \A n \in Fds, s \in Servers : fd'[n] = ReplyFrom(s) => \A m \in S : fd[m] # ReplyFrom(s)
      BY <2>2, <2>3 DEF OneReply
    <2>5. \A n \in Fds, s \in Servers : fd'[n] = ReplyFrom(s) => wire'[s] = wire[s]
      BY <2>1, <2>4 DEF Cut
    <2>6. Kept
      BY <2>1, <2>3, <2>5 DEF StillReadable
    <2> QED BY <1>s, <1>t, <2>1, <2>6
  <1>10. ASSUME NEW t \in Threads, Unlink(t) \/ Mark(t) \/ Sweep(t) \/ CompleteLost(t)
         PROVE  ReadyTrue'
    <2>1. /\ UNCHANGED <<fd, wire, ready, client>> /\ \A u \in Threads : u # t => held'[u] = held[u]
          /\ at[t] \in {"unlink", "mark", "sweep", "swept"}
          /\ \E place \in {"mark", "sweep", "swept", After(t)} : at' = [at EXCEPT ![t] = place]
      BY <1>10, <1>t DEF Unlink, Mark, Sweep, CompleteLost
    <2>2. CASE t = "receiver"
      BY <1>k, <1>s, <1>t, <2>1, <2>2 DEF After
    <2>3. CASE t # "receiver"
      BY <1>k, <1>s, <1>t, <2>1, <2>3
    <2> QED BY <2>2, <2>3
  <1>11. ASSUME NEW s \in Servers, Server(s) PROVE ReadyTrue'
    <2>1. PICK m : /\ wire' = [wire EXCEPT ![s] = Append(@, m)]
                   /\ UNCHANGED <<fd, ready, client, held, at, dead>>
      BY <1>11 DEF Server, ServerStarts, ServerFinishes, Reply
    <2>2. wire'[s] # <<>>
      BY <1>t, <2>1
    <2>3. \A v \in Servers : wire[v] # <<>> => wire'[v] # <<>>
      BY <1>t, <2>1, <2>2
    <2>4. Kept
      BY <2>1, <2>3 DEF StillReadable
    <2> QED BY <1>s, <2>1, <2>4
  <1>12. ASSUME NEW s \in Servers, ServerDies(s) \/ ServerRises(s) PROVE ReadyTrue'
    <2>1. UNCHANGED <<fd, wire, ready, client, held, at>>
      BY <1>12 DEF ServerDies, ServerRises
    <2> QED BY <1>k, <1>s, <2>1
  <1> QED BY <1>1, <1>2, <1>3, <1>4, <1>5, <1>6, <1>7, <1>8, <1>9, <1>10, <1>11, <1>12
       DEF AnyStep, Main, Receiver, RemoveClient

-----------------------------------------------------------------------------
(* What is known of the jobs. *)

(* What most steps do to the jobs. *)
JobsMove ==
  /\ UNCHANGED <<next, for, sock>> /\ MainUndecided
  /\ \A j \in Job : /\ marked[j] => marked'[j]
                    /\ marked'[j] => marked[j] \/ j \in jobs
                    /\ why'[j] # why[j] => j \in jobs /\ job[j] # "none"
                    /\ job'[j] \notin {"none", "refused"} => job[j] \notin {"none", "refused"}
  /\ \A t \in Threads : at'[t] = "swept" =>
       \/ at[t] = "swept" /\ UNCHANGED heldJob[t]
       \/ heldJob'[t] \in jobs /\ marked[heldJob'[t]]
  /\ at'["main"] = "register" => \/ at["main"] = "register" /\ UNCHANGED lastSock["main"]
                                 \/ lastSock'["main"] \in Fds
  /\ at'["main"] = "send" => at["main"] = "send"

LEMMA JobsMoved == ASSUME IInv, JobsRight, EntriesKept, JobsMove PROVE JobsRight'
  <1>t. jobs \subseteq Job
    BY DEF IInv, TypeOK
  <1>1. SweepsMarked'
    BY <1>t DEF JobsRight, SweepsMarked, JobsMove
  <1>2. SentOnClient'
    BY DEF JobsRight, SentOnClient, JobsMove, EntriesKept, IInv, RegisteredAreOpen
  <1>3. \A j \in Job : j > next => ~marked'[j] /\ why'[j] = "none"
    BY DEF JobsRight, NothingYet, JobsMove, IInv, NextIsNew
  <1>4. at'["main"] \in BeforeRegistered => ~marked'[next]
    BY DEF JobsRight, NothingYet, JobsMove, MainUndecided, IInv, NextIsNew
  <1>5. at'["main"] \in BeforeRegistered \cup {"send"} => why'[next] = "none"
    BY DEF JobsRight, NothingYet, JobsMove, MainUndecided, IInv, NextIsNew
  <1>6. NothingYet'
    BY <1>3, <1>4, <1>5 DEF JobsRight, NothingYet, JobsMove, MainUndecided
  <1>7. SendsOnNumber'
    BY DEF JobsRight, SendsOnNumber, JobsMove
  <1> QED BY <1>1, <1>2, <1>6, <1>7 DEF JobsRight

(* The jobs are not told anything, and no thread begins or ends to remove. *)
LEMMA JobsLeft ==
  ASSUME UNCHANGED <<next, for, sock, marked, why, job>>, MainUndecided,
         \A t \in Threads : at'[t] = "swept" => at[t] = "swept" /\ UNCHANGED heldJob[t],
         at'["main"] = "register" => \/ at["main"] = "register" /\ UNCHANGED lastSock["main"]
                                     \/ lastSock'["main"] \in Fds,
         at'["main"] = "send" => at["main"] = "send"
  PROVE  JobsMove
  BY DEF JobsMove

LEMMA CompletionMoves ==
  ASSUME IInv, NEW j, NEW how \in {"finished", "path down"},
         \/ Completable(j) /\ Complete(j, how)
         \/ UNCHANGED <<jobs, why, job>>
  PROVE  /\ \A k \in Job : why'[k] # why[k] => k \in jobs /\ job[k] # "none"
         /\ \A k \in Job : job'[k] \notin {"none", "refused"} => job[k] \notin {"none", "refused"}
  <1>1. CASE Completable(j) /\ Complete(j, how)
    <2>1. j \in Job /\ job[j] \in {"sent", "doing", "lost"}
          /\ \A k \in Job : k # j => job'[k] = job[k]
      BY <1>1, CompleteType
    <2>2. j \in jobs /\ \A k \in Job : k # j => why'[k] = why[k]
      BY <1>1 DEF Completable, Registered, Complete, IInv, TypeOK
    <2> QED BY <2>1, <2>2
  <1> QED BY <1>1

LEMMA RemoveJobs == ASSUME IInv, NEW t \in Threads, RemoveClient(t) PROVE JobsMove
  <1> USE DEF GoTo, callVars, jobVars, Threads
  <1>t. /\ at \in [Threads -> {"idle", "check", "connect", "register", "send", "answer",
                         "select", "accept", "scan", "message", "completion",
                         "close", "unlink", "mark", "sweep", "swept"}]
        /\ heldJob \in [Threads -> Job \cup {None}]
        /\ lastSock \in [Threads -> Fds \cup {None}]
        /\ marked \in [Job -> BOOLEAN]
    BY DEF IInv, TypeOK
  <1>1. CASE Close(t) \/ Unlink(t)
    <2>1. /\ UNCHANGED <<next, for, sock, marked, why, job, heldJob>>
          /\ at[t] \in {"close", "unlink"}
          /\ \E place \in {"unlink", "mark"} : at' = [at EXCEPT ![t] = place]
          /\ \A u \in Threads : u # t => lastSock'[u] = lastSock[u]
      BY <1>1, <1>t DEF Close, Unlink
    <2>2. MainUndecided
      BY <1>t, <2>1 DEF MainUndecided, BeforeRegistered
    <2> QED BY <1>t, <2>1, <2>2, JobsLeft
  <1>2. CASE Mark(t)
    <2>1. /\ UNCHANGED <<next, for, sock, why, job, heldJob, lastSock>>
          /\ at[t] = "mark" /\ at' = [at EXCEPT ![t] = "sweep"]
          /\ \A j \in Job : /\ marked[j] => marked'[j]
                            /\ marked'[j] => marked[j] \/ j \in jobs
      BY <1>2, <1>t DEF Mark, Registered
    <2>2. MainUndecided
      BY <1>t, <2>1 DEF MainUndecided, BeforeRegistered
    <2> QED BY <1>t, <2>1, <2>2 DEF JobsMove
  <1>3. CASE Sweep(t)
    <2> DEFINE lost == {j \in jobs : marked[j]}
    <2>1. lost # {} => Max(lost) \in lost
      <3>1. lost \subseteq Job
        BY DEF IInv, TypeOK
      <3> QED BY <3>1, MaxIn
    <2>2. /\ UNCHANGED <<next, for, sock, marked, why, job, lastSock>>
          /\ at[t] = "sweep"
          /\ \/ at' = [at EXCEPT ![t] = After(t)] /\ UNCHANGED heldJob
             \/ /\ at' = [at EXCEPT ![t] = "swept"]
                /\ heldJob' = [heldJob EXCEPT ![t] = Max(lost)] /\ lost # {}
      BY <1>3 DEF Sweep
    <2>3. MainUndecided
      BY <1>t, <2>2 DEF MainUndecided, BeforeRegistered, After
    <2>4. ASSUME NEW u \in Threads, at'[u] = "swept"
          PROVE  \/ at[u] = "swept" /\ UNCHANGED heldJob[u]
                 \/ heldJob'[u] \in lost
      BY <1>t, <2>1, <2>2, <2>4 DEF After
    <2> QED BY <1>t, <2>2, <2>3, <2>4 DEF JobsMove, After
  <1>4. CASE CompleteLost(t)
    <2>1. /\ UNCHANGED <<next, for, sock, marked, lastSock>>
          /\ at[t] = "swept" /\ at' = [at EXCEPT ![t] = "sweep"]
          /\ heldJob' = [heldJob EXCEPT ![t] = None]
          /\ \/ Completable(heldJob[t]) /\ Complete(heldJob[t], "path down")
             \/ UNCHANGED <<jobs, why, job>>
      BY <1>4 DEF CompleteLost
    <2>2. MainUndecided
      BY <1>t, <2>1 DEF MainUndecided, BeforeRegistered
    <2>3. /\ \A k \in Job : why'[k] # why[k] => k \in jobs /\ job[k] # "none"
          /\ \A k \in Job : job'[k] \notin {"none", "refused"} => job[k] \notin {"none", "refused"}
      BY <2>1, CompletionMoves
    <2> QED BY <1>t, <2>1, <2>2, <2>3 DEF JobsMove
  <1> QED BY <1>1, <1>2, <1>3, <1>4 DEF RemoveClient

LEMMA ReceiverJobs == ASSUME IInv, Receiver PROVE JobsMove
  <1> USE DEF GoTo, callVars, jobVars, Threads
  <1>t. /\ at \in [Threads -> {"idle", "check", "connect", "register", "send", "answer",
                         "select", "accept", "scan", "message", "completion",
                         "close", "unlink", "mark", "sweep", "swept"}]
        /\ heldJob \in [Threads -> Job \cup {None}]
    BY DEF IInv, TypeOK
  <1>1. /\ UNCHANGED <<next, for, sock, marked, lastSock>>
        /\ at'["main"] = at["main"] /\ at'["receiver"] # "swept"
        /\ heldJob'["main"] = heldJob["main"]
    BY <1>t DEF Receiver, Select, Accept, Scan, Message, Completion
  <1>2. MainUndecided
    BY <1>1 DEF MainUndecided
  <1>3. CASE UNCHANGED <<why, job>>
    BY <1>1, <1>2, <1>3, JobsLeft
  <1>4. CASE Completion
    <2>1. /\ \A k \in Job : why'[k] # why[k] => k \in jobs /\ job[k] # "none"
          /\ \A k \in Job : job'[k] \notin {"none", "refused"} => job[k] \notin {"none", "refused"}
      BY <1>4, CompletionMoves DEF Completion
    <2> QED BY <1>1, <1>2, <2>1 DEF JobsMove
  <1>5. CASE Message
    <2>1. UNCHANGED why
      BY <1>5 DEF Message
    <2>2. ASSUME NEW j, job[j] = "sent", Service!Start(j) PROVE JobsMove
      <3>1. \A k \in Job : job'[k] \notin {"none", "refused"} => job[k] \notin {"none", "refused"}
        BY <2>2 DEF Service!Start, IInv, TypeOK, Service!TypeOK
      <3> QED BY <1>1, <1>2, <2>1, <3>1 DEF JobsMove
    <2> QED BY <1>3, <1>5, <2>1, <2>2 DEF Message
  <1> QED BY <1>3, <1>4, <1>5 DEF Receiver, Select, Accept, Scan

LEMMA BeginJobs ==
  ASSUME IInv, JobsRight, EntriesKept, NEW a, Begin(a)
  PROVE  JobsRight'
  <1> USE DEF GoTo, jobVars, Threads
  <1>t. /\ at \in [Threads -> {"idle", "check", "connect", "register", "send", "answer",
                         "select", "accept", "scan", "message", "completion",
                         "close", "unlink", "mark", "sweep", "swept"}]
    BY DEF IInv, TypeOK
  <1>1. UNCHANGED <<for, sock, marked, why, job, heldJob, lastSock>>
    BY DEF Begin
  <1>2. next' \in Job /\ next' > next /\ \A j \in Job : j > next' => j > next
    <2>1. next \in 0 .. MaxJobs /\ next < MaxJobs /\ next' = next + 1 /\ MaxJobs \in Nat
      BY ListAssumption DEF Begin, IInv, TypeOK
    <2> QED BY <2>1 DEF Job
  <1>3. /\ at'["main"] \in {"connect", "check"} /\ at'["receiver"] = at["receiver"]
    BY <1>t DEF Begin
  <1>4. SweepsMarked'
    BY <1>1, <1>3 DEF JobsRight, SweepsMarked
  <1>5. SentOnClient'
    BY <1>1 DEF JobsRight, SentOnClient, EntriesKept
  <1>6. NothingYet' /\ SendsOnNumber'
    BY <1>1, <1>2, <1>3 DEF JobsRight, NothingYet, SendsOnNumber
  <1> QED BY <1>4, <1>5, <1>6 DEF JobsRight

LEMMA SendIs ==
  ASSUME IInv, Send
  PROVE  /\ at["main"] = "send"
         /\ UNCHANGED <<clientVars, jobVars, fd, rcvVars, held, heldJob, lastSock, callVars,
                        up, dead, begun, netVars, why>>
         /\ \/ \E s \in Servers : /\ fd[sock[next]] = SendTo(s)
                                  /\ for' = [for EXCEPT ![next] = s]
                                  /\ at' = [at EXCEPT !["main"] = "answer"]
                                  /\ \/ job' = [job EXCEPT ![next] = "sent"]
                                     \/ job' = [job EXCEPT ![next] = "lost"]
            \/ stray' = TRUE /\ UNCHANGED <<job, for, at>>
  <1>1. UNCHANGED <<clientVars, jobVars, fd, rcvVars, held, heldJob, lastSock, callVars,
                    up, dead, begun, netVars, why>> /\ at["main"] = "send"
    BY DEF Send
  <1>2. up \subseteq Servers
    BY DEF IInv, TypeOK
  <1>3. ASSUME NEW s \in up, fd[sock[next]] = SendTo(s), for' = [for EXCEPT ![next] = s],
               GoTo("main", "answer"),
               Service!Send(next) \/ Service!Refuse(next, "lost")
        PROVE  \E v \in Servers : /\ fd[sock[next]] = SendTo(v)
                                  /\ for' = [for EXCEPT ![next] = v]
                                  /\ at' = [at EXCEPT !["main"] = "answer"]
                                  /\ \/ job' = [job EXCEPT ![next] = "sent"]
                                     \/ job' = [job EXCEPT ![next] = "lost"]
    BY <1>2, <1>3 DEF Service!Send, Service!Refuse, GoTo
  <1>4. ASSUME NEW s \in Servers \ up, fd[sock[next]] = SendTo(s),
               Service!Refuse(next, "lost"), for' = [for EXCEPT ![next] = s],
               GoTo("main", "answer")
        PROVE  \E v \in Servers : /\ fd[sock[next]] = SendTo(v)
                                  /\ for' = [for EXCEPT ![next] = v]
                                  /\ at' = [at EXCEPT !["main"] = "answer"]
                                  /\ \/ job' = [job EXCEPT ![next] = "sent"]
                                     \/ job' = [job EXCEPT ![next] = "lost"]
    BY <1>4 DEF Service!Refuse, GoTo
  <1> QED BY <1>1, <1>3, <1>4 DEF Send

LEMMA MainJobs ==
  ASSUME IInv, EntriesMade, SocketsRight, JobsRight, EntriesKept, Main
  PROVE  JobsRight'
  <1> USE DEF GoTo, callVars, jobVars, Threads
  <1>t. /\ at \in [Threads -> {"idle", "check", "connect", "register", "send", "answer",
                         "select", "accept", "scan", "message", "completion",
                         "close", "unlink", "mark", "sweep", "swept"}]
        /\ lastSock \in [Threads -> Fds \cup {None}]
        /\ job \in [Job -> Service!JobStates] /\ for \in [Job -> Servers \cup {None}]
        /\ sock \in [Job -> Fds \cup {None}] /\ jobs \subseteq Job
        /\ None \notin Servers
    BY ListAssumption DEF IInv, TypeOK, Service!TypeOK, None
  <1>1. CASE Check
    <2>1. client[held["main"]].send \in Fds
      BY <1>1, ClientNumbers DEF Check, EntriesMade, IInv, HoldsClient
    <2>2. /\ UNCHANGED <<next, for, sock, marked, why, job, heldJob>>
          /\ at["main"] = "check"
          /\ at'["main"] \in {"close", "register"} /\ at'["receiver"] = at["receiver"]
          /\ at'["main"] = "register" => lastSock'["main"] \in Fds
      BY <1>1, <1>t, <2>1 DEF Check
    <2>3. MainUndecided
      BY <2>2 DEF MainUndecided, BeforeRegistered
    <2> QED BY <2>2, <2>3, JobsLeft, JobsMoved
  <1>2. CASE Connect
    <2>1. /\ UNCHANGED <<next, for, sock, marked, why, heldJob>> /\ at["main"] = "connect"
          /\ at'["main"] \in {"idle", "register"} /\ at'["receiver"] = at["receiver"]
          /\ at'["main"] = "register" => lastSock'["main"] \in Fds
          /\ \/ UNCHANGED job
             \/ job' = [job EXCEPT ![next] = "refused"]
      BY <1>2, <1>t, ConnectIs
    <2>2. MainUndecided
      BY <2>1 DEF MainUndecided, BeforeRegistered
    <2>3. \A j \in Job : job'[j] \notin {"none", "refused"} => job[j] \notin {"none", "refused"}
      BY <1>t, <2>1
    <2>4. JobsMove
      BY <2>1, <2>2, <2>3 DEF JobsMove
    <2> QED BY <2>4, JobsMoved
  <1>3. CASE RegisterJob
    <2>1. /\ UNCHANGED <<next, for, marked, why, job, heldJob, lastSock>>
          /\ at["main"] = "register" /\ at'["main"] = "send" /\ at'["receiver"] = at["receiver"]
          /\ sock' = [sock EXCEPT ![next] = lastSock["main"]]
      BY <1>3, <1>t DEF RegisterJob
    <2>2. next \in Job /\ for[next] = None /\ why[next] = "none"
      BY <2>1 DEF IInv, NextIsNew, BeforeRegistered, JobsRight, NothingYet
    <2>3. SweepsMarked'
      BY <2>1 DEF JobsRight, SweepsMarked
    <2>4. SentOnClient'
      BY <1>t, <2>1, <2>2 DEF JobsRight, SentOnClient, EntriesKept
    <2>5. NothingYet'
      BY <2>1, <2>2 DEF JobsRight, NothingYet, BeforeRegistered
    <2>6. SendsOnNumber'
      BY <1>t, <2>1, <2>2 DEF JobsRight, SendsOnNumber
    <2> QED BY <2>3, <2>4, <2>5, <2>6 DEF JobsRight
  <1>4. CASE Send
    <2>0. /\ UNCHANGED <<next, sock, marked, why, heldJob, lastSock>>
          /\ at["main"] = "send"
      BY <1>4, SendIs
    <2>1. next \in Job /\ sock[next] \in Fds /\ for[next] = None
      BY <2>0 DEF IInv, NextIsNew, JobsRight, SendsOnNumber, NothingYet
    <2>2. CASE UNCHANGED <<job, for, at>>
      BY <2>0, <2>2, JobsMoved DEF JobsMove, MainUndecided
    <2>3. ASSUME NEW s \in Servers, fd[sock[next]] = SendTo(s), for' = [for EXCEPT ![next] = s],
                 at' = [at EXCEPT !["main"] = "answer"],
                 \/ job' = [job EXCEPT ![next] = "sent"]
                 \/ job' = [job EXCEPT ![next] = "lost"]
          PROVE  JobsRight'
      <3>1. PICK c \in Clients : /\ Entered(c) /\ client[c].send = sock[next]
                                 /\ client[c].host = Host[s]
        BY <2>1, <2>3 DEF SocketsRight, SendersListed
      <3>2. Entered(c)' /\ client'[c].send = sock'[next] /\ client'[c].host = Host[s]
        BY <2>0, <3>1 DEF EntriesKept
      <3>3. for'[next] = s /\ \A j \in Job : j # next => for'[j] = for[j] /\ job'[j] = job[j]
        BY <1>t, <2>1, <2>3
      <3>4. SentOnClient'
        <4>1. ASSUME NEW j \in Job, j # next
              PROVE  /\ for'[j] # None => \E d \in Clients :
                          /\ Entered(d)' /\ client'[d].send = sock'[j]
                          /\ client'[d].host = Host[for'[j]]
                     /\ job'[j] \notin {"none", "refused"} \/ why'[j] # "none" => for'[j] # None
          BY <2>0, <3>3, <4>1 DEF JobsRight, SentOnClient, EntriesKept
        <4>2. \E d \in Clients : /\ Entered(d)' /\ client'[d].send = sock'[next]
                                 /\ client'[d].host = Host[for'[next]]
          BY <3>2, <3>3
        <4> QED BY <1>t, <3>3, <4>1, <4>2 DEF SentOnClient
      <3>5. at'["main"] = "answer" /\ at'["receiver"] = at["receiver"]
        BY <1>t, <2>3
      <3>6. SweepsMarked'
        BY <2>0, <3>5 DEF JobsRight, SweepsMarked
      <3>7. \A j \in Job : j > next => j # next
        BY DEF Job
      <3>8. NothingYet' /\ SendsOnNumber'
        BY <2>0, <3>3, <3>5, <3>7 DEF JobsRight, NothingYet, SendsOnNumber, BeforeRegistered
      <3> QED BY <3>4, <3>6, <3>8 DEF JobsRight
    <2> QED BY <1>4, <2>2, <2>3, SendIs
  <1>5. CASE Answer
    <2>1. UNCHANGED <<next, for, sock, marked, why, job, heldJob, lastSock>>
          /\ at'["main"] = "idle" /\ at'["receiver"] = at["receiver"]
      BY <1>5, <1>t DEF Answer
    <2>2. MainUndecided
      BY <2>1 DEF MainUndecided, BeforeRegistered
    <2> QED BY <2>1, <2>2, JobsLeft, JobsMoved
  <1> QED BY <1>1, <1>2, <1>3, <1>4, <1>5 DEF Main

LEMMA JobsStep ==
  ASSUME IInv, EntriesMade, SocketsRight, JobsRight, EntriesKept, AnyStep
  PROVE  JobsRight'
  <1>1. ASSUME NEW s \in Servers, Server(s) \/ ServerDies(s) \/ ServerRises(s)
        PROVE  JobsRight'
    <2>1. UNCHANGED <<next, for, sock, marked, why, job, heldJob, lastSock, at>>
      BY <1>1 DEF Server, ServerStarts, ServerFinishes, ServerDies, ServerRises, callVars, jobVars
    <2>2. MainUndecided
      BY <2>1 DEF MainUndecided
    <2> QED BY <2>1, <2>2, JobsLeft, JobsMoved
  <1> QED BY <1>1, BeginJobs, MainJobs, ReceiverJobs, RemoveJobs, JobsMoved DEF AnyStep

-----------------------------------------------------------------------------
(* The clients that are removed, and those that are not. *)

(* A thread that is going to free a client does that next. *)
LEMMA Unlinking ==
  ASSUME IInv, AnyStep, NEW t \in Threads, at[t] = "unlink", ~Unlink(t)
  PROVE  at'[t] = "unlink" /\ UNCHANGED <<held[t], lastSock[t]>>
  <1> USE DEF GoTo, Threads
  <1>t. /\ at \in [Threads -> {"idle", "check", "connect", "register", "send", "answer",
                         "select", "accept", "scan", "message", "completion",
                         "close", "unlink", "mark", "sweep", "swept"}]
        /\ held \in [Threads -> Clients \cup {None}]
        /\ lastSock \in [Threads -> Fds \cup {None}]
    BY DEF IInv, TypeOK
  <1>1. CASE \E a \in {Address[s] : s \in Servers} : Begin(a)
    BY <1>1, <1>t DEF Begin
  <1>2. CASE Check \/ RegisterJob \/ Answer
    BY <1>2, <1>t DEF Check, RegisterJob, Answer
  <1>3. CASE Connect
    BY <1>3, <1>t, ConnectIs
  <1>4. CASE Send
    <2>1. UNCHANGED <<held, lastSock>> /\ at["main"] = "send"
          /\ (at' = at \/ at' = [at EXCEPT !["main"] = "answer"])
      BY <1>4, SendIs
    <2> QED BY <1>t, <2>1
  <1>5. CASE Receiver
    <2>1. /\ at'["main"] = at["main"] /\ held'["main"] = held["main"] /\ UNCHANGED lastSock
          /\ at["receiver"] # "unlink"
      BY <1>5, <1>t DEF Receiver, Select, Accept, Scan, Message, Completion
    <2> QED BY <2>1
  <1>6. ASSUME NEW u \in Threads, RemoveClient(u)
        PROVE  at'[t] = "unlink" /\ UNCHANGED <<held[t], lastSock[t]>>
    <2>1. CASE Close(u)
      BY <1>t, <2>1 DEF Close
    <2>2. CASE Unlink(u)
      BY <1>t, <2>2 DEF Unlink
    <2>3. CASE Mark(u)
      BY <1>t, <2>3 DEF Mark
    <2>4. CASE Sweep(u)
      BY <1>t, <2>4 DEF Sweep
    <2>5. CASE CompleteLost(u)
      BY <1>t, <2>5 DEF CompleteLost
    <2> QED BY <1>6, <2>1, <2>2, <2>3, <2>4, <2>5 DEF RemoveClient
  <1>7. CASE \E s \in Servers : Server(s) \/ ServerDies(s) \/ ServerRises(s)
    BY <1>7 DEF Server, ServerStarts, ServerFinishes, ServerDies, ServerRises
  <1> QED BY <1>1, <1>2, <1>3, <1>4, <1>5, <1>6, <1>7 DEF AnyStep, Main

(* Nothing comes back into the list. *)
LEMMA ListMoves ==
  ASSUME IInv, AnyStep, NEW c \in Clients, Entered(c), c \notin list
  PROVE  c \notin list'
  <1> USE DEF clientVars
  <1>1. CASE Main
    <2>1. CASE Connect
      BY <2>1, ConnectIs DEF Entered
    <2>2. CASE Check \/ RegisterJob \/ Send \/ Answer
      BY <2>2 DEF Check, RegisterJob, Send, Answer
    <2> QED BY <1>1, <2>1, <2>2 DEF Main
  <1>2. CASE Receiver
    BY <1>2 DEF Receiver, Select, Accept, Scan, Message, Completion
  <1>3. CASE \E t \in Threads : RemoveClient(t)
    BY <1>3 DEF RemoveClient, Close, Unlink, Mark, Sweep, CompleteLost
  <1>4. CASE \E s \in Servers : Server(s) \/ ServerDies(s) \/ ServerRises(s)
    BY <1>4 DEF Server, ServerStarts, ServerFinishes, ServerDies, ServerRises
  <1>5. CASE \E a \in {Address[s] : s \in Servers} : Begin(a)
    BY <1>5 DEF Begin
  <1> QED BY <1>1, <1>2, <1>3, <1>4, <1>5 DEF AnyStep

LEMMA MistakenStays ==
  ASSUME IInv, EntriesMade, AnyStep
  PROVE  /\ FreedTwice => FreedTwice' \/ stray'
         /\ RemovedTwice => FreedTwice' \/ stray' \/ RemovedTwice'
  <1>t. held \in [Threads -> Clients \cup {None}]
    BY DEF IInv, TypeOK
  <1>1. ASSUME FreedTwice PROVE FreedTwice' \/ stray'
    <2>1. PICK t \in Threads : at[t] = "unlink" /\ held[t] \notin list
      BY <1>1 DEF FreedTwice
    <2>2. CASE Unlink(t)
      BY <2>1, <2>2 DEF Unlink
    <2>3. CASE ~Unlink(t)
      <3>1. held[t] \in Clients /\ Entered(held[t])
        BY <2>1, ClientNumbers DEF IInv, HoldsClient, EntriesMade
      <3>2. held'[t] \notin list' /\ at'[t] = "unlink"
        BY <2>1, <2>3, <3>1, ListMoves, Unlinking
      <3> QED BY <3>2 DEF FreedTwice
    <2> QED BY <2>2, <2>3
  <1>2. ASSUME RemovedTwice PROVE FreedTwice' \/ stray' \/ RemovedTwice'
    <2>1. \A t \in Threads : at[t] = "unlink" /\ held[t] = held["main"]
      BY <1>2 DEF RemovedTwice
    <2>2. CASE \A t \in Threads : ~Unlink(t)
      <3>1. \A t \in Threads : at'[t] = "unlink" /\ held'[t] = held[t]
        BY <2>1, <2>2, Unlinking
      <3> QED BY <2>1, <3>1 DEF RemovedTwice, Threads
    <2>3. ASSUME NEW t \in Threads, Unlink(t) PROVE FreedTwice' \/ stray'
      <3>1. PICK u \in Threads : u # t
        BY DEF Threads
      <3>2. at'[u] = at[u] /\ held'[u] = held[u] /\ list' = list \ {held[t]}
        BY <1>t, <2>3, <3>1 DEF Unlink, GoTo, IInv, TypeOK
      <3>3. held'[u] \notin list' /\ at'[u] = "unlink"
        BY <2>1, <3>2 DEF Threads
      <3> QED BY <3>3 DEF FreedTwice
    <2> QED BY <2>2, <2>3
  <1> QED BY <1>1, <1>2

LEMMA WholeBefore ==
  ASSUME IInv, AnyStep, NEW c \in list, Whole(c)'
  PROVE  Whole(c)
  <1>1. c \in list' /\ ~Removing(c)'
    BY DEF Whole
  <1>2. ASSUME NEW t \in Threads, at[t] = "unlink", held[t] = c PROVE FALSE
    <2>1. CASE Unlink(t)
      BY <1>1, <1>2, <2>1 DEF Unlink
    <2>2. CASE ~Unlink(t)
      BY <1>1, <1>2, <2>2, Unlinking DEF Removing
    <2> QED BY <2>1, <2>2
  <1> QED BY <1>2 DEF Whole, Removing

(* The numbers of a client are for its connections, and none is free. *)
LEMMA IntactNumbers ==
  ASSUME IInv, EntriesMade, NEW c \in list, Intact(c)
  PROVE  /\ client[c].send \in Fds /\ fd[client[c].send] # Free
         /\ client[c].reply # None => client[c].reply \in Fds /\ fd[client[c].reply] # Free
         /\ client[c].reply # client[c].send
  <1>1. /\ client[c].send \in Fds /\ client[c].reply \in Fds \cup {None} /\ None \notin Fds
    BY ClientType DEF IInv, EntriesMade
  <1>2. PICK s \in Servers : fd[client[c].send] = SendTo(s)
    BY DEF Intact
  <1>3. client[c].reply # None => \E v \in Servers : fd[client[c].reply] = ReplyFrom(v)
    BY DEF Intact
  <1> QED BY <1>1, <1>2, <1>3, Names

LEMMA WholeQuiet ==
  ASSUME IInv, AnyStep, WholeIntact, Apart, UNCHANGED <<fd, client>>, list' \subseteq list
  PROVE  WholeIntact' /\ Apart'
  <1>1. \A c \in Clients : Whole(c)' => Whole(c) /\ (Intact(c) => Intact(c)')
    BY WholeBefore DEF Whole, Intact
  <1> QED BY <1>1 DEF WholeIntact, Apart

LEMMA WholeClose ==
  ASSUME IInv, EntriesMade, AnyStep, WholeIntact, Apart, NEW t \in Threads, Close(t),
         ~stray', ~RemovedTwice'
  PROVE  WholeIntact' /\ Apart'
  <1> DEFINE h == held[t]
             S == {client[h].reply, client[h].send} \ {None}
  <1>1. /\ h \in list /\ at[t] = "close" /\ Cut(S)
        /\ UNCHANGED <<list, client, held>> /\ at' = [at EXCEPT ![t] = "unlink"]
    BY DEF Close, clientVars, GoTo
  <1>2. at'[t] = "unlink" /\ \A u \in Threads : u # t => at'[u] = at[u]
    BY <1>1 DEF IInv, TypeOK
  <1>3. Whole(h)
    <2>1. ASSUME NEW u \in Threads, at[u] = "unlink", held[u] = h PROVE FALSE
      <3>1. u # t /\ at'[u] = "unlink"
        BY <1>1, <1>2, <2>1
      <3>2. \A v \in Threads : v \in {t, u}
        BY <3>1 DEF Threads
      <3>3. RemovedTwice'
        BY <1>1, <1>2, <2>1, <3>1, <3>2 DEF RemovedTwice, Threads
      <3> QED BY <3>3
    <2> QED BY <1>1, <2>1 DEF Whole, Removing
  <1>4. Intact(h) /\ h \in Clients
    BY <1>1, <1>3, ClientType DEF WholeIntact, IInv
  <1> HIDE DEF S, h
  <1>5. ASSUME NEW c \in Clients, Whole(c)'
        PROVE  Whole(c) /\ Intact(c)'
    <2>1. Whole(c) /\ c # h /\ c \in list
      BY <1>1, <1>2, <1>5, WholeBefore DEF Whole, Removing, h
    <2>2. Intact(c)
      BY <2>1 DEF WholeIntact
    <2>3. /\ client[c].send \in Fds
          /\ client[c].reply # None => client[c].reply \in Fds
      BY <2>1, <2>2, IntactNumbers
    <2>4. client[c].send \notin S
      <3>1. client[c].send # client[h].send
        BY <1>3, <1>4, <2>1 DEF Apart
      <3>2. client[h].reply # None => client[c].send # client[h].reply
        BY <1>4, <2>2, Names DEF Intact
      <3> QED BY <3>1, <3>2 DEF S
    <2>5. client[c].reply # None => client[c].reply \notin S
      <3>1. client[c].reply # None => client[c].reply # client[h].reply
        BY <1>3, <1>4, <2>1 DEF Apart
      <3>2. client[c].reply # None => client[c].reply # client[h].send
        BY <1>4, <2>2, Names DEF Intact
      <3> QED BY <3>1, <3>2 DEF S
    <2>6. /\ fd'[client[c].send] = fd[client[c].send]
          /\ client[c].reply # None => fd'[client[c].reply] = fd[client[c].reply]
      BY <1>1, <2>3, <2>4, <2>5 DEF Cut
    <2>7. Intact(c)'
      BY <1>1, <2>2, <2>6 DEF Intact
    <2> QED BY <2>1, <2>7
  <1> QED BY <1>1, <1>5 DEF WholeIntact, Apart

LEMMA WholeConnect ==
  ASSUME IInv, EntriesMade, AnyStep, WholeIntact, Apart, Connect
  PROVE  WholeIntact' /\ Apart'
  <1>1. CASE UNCHANGED <<fd, client, list>>
    BY <1>1, WholeQuiet
  <1>2. ASSUME NEW v \in up, NEW d \in Clients, Lowest \in Fds, fd[Lowest] = Free,
               fd' = [fd EXCEPT ![Lowest] = SendTo(v)],
               client' = [client EXCEPT ![d] =
                       [address |-> Address[v], host |-> Host[v], send |-> Lowest,
                        reply |-> None]],
               list' = list \cup {d}, client[d].address = 0
        PROVE  WholeIntact' /\ Apart'
    <2>1. v \in Servers /\ d \notin list
      BY <1>2 DEF IInv, TypeOK, EntriesMade, Entered
    <2>2. /\ client'[d].send = Lowest /\ client'[d].reply = None /\ client'[d].host = Host[v]
          /\ \A c \in Clients : c # d => client'[c] = client[c]
          /\ fd'[Lowest] = SendTo(v) /\ \A n \in Fds : n # Lowest => fd'[n] = fd[n]
      BY <1>2 DEF IInv, TypeOK
    <2>3. Intact(d)'
      BY <2>1, <2>2 DEF Intact
    <2>4. ASSUME NEW c \in Clients, Whole(c)', c # d
          PROVE  Whole(c) /\ Intact(c)' /\ client[c].send # Lowest
      <3>1. c \in list /\ Whole(c)
        BY <1>2, <2>4, WholeBefore DEF Whole
      <3>2. Intact(c)
        BY <3>1 DEF WholeIntact
      <3>3. /\ client[c].send \in Fds /\ client[c].send # Lowest
            /\ client[c].reply # None => client[c].reply \in Fds /\ client[c].reply # Lowest
        BY <1>2, <3>1, <3>2, IntactNumbers
      <3>4. Intact(c)'
        BY <2>2, <2>4, <3>2, <3>3 DEF Intact
      <3> QED BY <3>1, <3>3, <3>4
    <2>5. WholeIntact'
      BY <2>3, <2>4 DEF WholeIntact
    <2>6. Apart'
      BY <2>2, <2>4 DEF Apart
    <2> QED BY <2>5, <2>6
  <1> QED BY <1>1, <1>2, ConnectIs DEF clientVars

LEMMA WholeAccept ==
  ASSUME IInv, EntriesMade, AnyStep, WholeIntact, Apart, Accept
  PROVE  WholeIntact' /\ Apart'
  <1>0. UNCHANGED list
    BY AcceptIs
  <1>1. CASE UNCHANGED <<fd, client>>
    BY <1>0, <1>1, WholeQuiet
  <1>2. ASSUME NEW d \in list, NEW v \in Servers, Lowest \in Fds, fd[Lowest] = Free,
               fd' = [fd EXCEPT ![Lowest] = ReplyFrom(v)],
               client[d].host = Host[v], client[d].reply = None,
               client' = [client EXCEPT ![d].reply = Lowest]
        PROVE  WholeIntact' /\ Apart'
    <2>1. /\ d \in Clients /\ Lowest # None
          /\ client \in [Clients -> [address : Nat, host : Nat, send : Fds \cup {None},
                                     reply : Fds \cup {None}]]
      BY <1>2, ClientType DEF IInv, TypeOK
    <2>2. /\ client'[d].send = client[d].send /\ client'[d].reply = Lowest
          /\ client'[d].host = client[d].host
          /\ \A c \in Clients : c # d => client'[c] = client[c]
          /\ fd'[Lowest] = ReplyFrom(v) /\ \A n \in Fds : n # Lowest => fd'[n] = fd[n]
      <3>1. /\ client'[d] = [client[d] EXCEPT !.reply = Lowest]
            /\ \A c \in Clients : c # d => client'[c] = client[c]
        BY <1>2, <2>1
      <3>2. client[d] \in [address : Nat, host : Nat, send : Fds \cup {None},
                           reply : Fds \cup {None}]
        BY <2>1
      <3>3. /\ client'[d].send = client[d].send /\ client'[d].reply = Lowest
            /\ client'[d].host = client[d].host
        BY <3>1, <3>2
      <3>4. fd'[Lowest] = ReplyFrom(v) /\ \A n \in Fds : n # Lowest => fd'[n] = fd[n]
        BY <1>2 DEF IInv, TypeOK
      <3> QED BY <3>1, <3>3, <3>4
    <2>3. ASSUME NEW c \in Clients, Whole(c)'
          PROVE  /\ Whole(c) /\ Intact(c)'
                 /\ client[c].reply # None => client[c].reply # Lowest
      <3>1. c \in list /\ Whole(c)
        BY <1>0, <2>3, WholeBefore DEF Whole
      <3>2. Intact(c)
        BY <3>1 DEF WholeIntact
      <3>3. /\ client[c].send \in Fds /\ client[c].send # Lowest
            /\ client[c].reply # None => client[c].reply \in Fds /\ client[c].reply # Lowest
        BY <1>2, <3>1, <3>2, IntactNumbers
      <3>4. client'[c].send = client[c].send /\ client'[c].host = client[c].host
        BY <2>2
      <3>5. \E s \in Servers : fd'[client'[c].send] = SendTo(s) /\ Host[s] = client'[c].host
        BY <2>2, <3>2, <3>3, <3>4 DEF Intact
      <3>6. client'[c].reply # None =>
              \E s \in Servers : fd'[client'[c].reply] = ReplyFrom(s) /\ Host[s] = client'[c].host
        <4>1. CASE c = d
          BY <1>2, <2>2, <4>1
        <4>2. CASE c # d
          <5>1. client'[c] = client[c] /\ (client[c].reply # None =>
                                            fd'[client[c].reply] = fd[client[c].reply])
            BY <2>2, <3>3, <4>2
          <5> QED BY <3>2, <5>1 DEF Intact
        <4> QED BY <4>1, <4>2
      <3>7. Intact(c)'
        BY <3>5, <3>6 DEF Intact
      <3> QED BY <3>1, <3>3, <3>7
    <2>4. WholeIntact'
      BY <2>3 DEF WholeIntact
    <2>5. Apart'
      <3> SUFFICES ASSUME NEW b \in Clients, NEW c \in Clients, Whole(b)', Whole(c)', b # c
                   PROVE  /\ client'[b].send # client'[c].send
                          /\ client'[b].reply # None => client'[b].reply # client'[c].reply
        BY DEF Apart
      <3>1. /\ client[b].send # client[c].send
            /\ client[b].reply # None => client[b].reply # client[c].reply
        BY <2>3 DEF Apart
      <3>2. client'[b].send # client'[c].send
        BY <2>2, <3>1
      <3>3. CASE b = d
        <4>1. client'[b].reply = Lowest /\ client'[c].reply = client[c].reply
          BY <2>2, <3>3
        <4>2. client[c].reply # Lowest
          BY <2>1, <2>3
        <4> QED BY <3>2, <4>1, <4>2
      <3>4. CASE b # d
        BY <2>2, <2>3, <3>1, <3>4
      <3> QED BY <3>2, <3>3, <3>4
    <2> QED BY <2>4, <2>5
  <1> QED BY <1>1, <1>2, AcceptIs

LEMMA WholeStep ==
  ASSUME IInv, EntriesMade, AnyStep, WholeIntact, Apart, ~stray', ~RemovedTwice'
  PROVE  WholeIntact' /\ Apart'
  <1> USE DEF clientVars
  <1>1. CASE \E a \in {Address[s] : s \in Servers} : Begin(a)
    BY <1>1, WholeQuiet DEF Begin
  <1>2. CASE Check \/ RegisterJob \/ Send \/ Answer
    <2>1. UNCHANGED <<fd, client, list>>
      BY <1>2 DEF Check, RegisterJob, Send, Answer
    <2> QED BY <2>1, WholeQuiet
  <1>3. CASE Select \/ Scan \/ Message \/ Completion
    <2>1. UNCHANGED <<fd, client, list>>
      BY <1>3 DEF Select, Scan, Message, Completion
    <2> QED BY <2>1, WholeQuiet
  <1>4. ASSUME NEW t \in Threads, Unlink(t) \/ Mark(t) \/ Sweep(t) \/ CompleteLost(t)
        PROVE  WholeIntact' /\ Apart'
    <2>1. UNCHANGED <<fd, client>> /\ list' \subseteq list
      BY <1>4 DEF Unlink, Mark, Sweep, CompleteLost
    <2> QED BY <2>1, WholeQuiet
  <1>5. ASSUME NEW s \in Servers, Server(s) \/ ServerDies(s) \/ ServerRises(s)
        PROVE  WholeIntact' /\ Apart'
    <2>1. UNCHANGED <<fd, client, list>>
      BY <1>5 DEF Server, ServerStarts, ServerFinishes, ServerDies, ServerRises
    <2> QED BY <2>1, WholeQuiet
  <1> QED BY <1>1, <1>2, <1>3, <1>4, <1>5, WholeClose, WholeConnect, WholeAccept
       DEF AnyStep, Main, Receiver, RemoveClient

-----------------------------------------------------------------------------
(* Clients are removed for a reason. *)

LEMMA GoneKept ==
  ASSUME EntriesKept
  PROVE  /\ \A c \in Clients : HostGone(c) => HostGone(c)'
         /\ \A n : NumberGone(n) => NumberGone(n)'
  <1>1. \A c \in Clients : HostGone(c) => HostGone(c)'
    BY DEF EntriesKept, HostGone
  <1>2. \A n : NumberGone(n) => NumberGone(n)'
    BY <1>1 DEF EntriesKept, NumberGone, HostGone
  <1> QED BY <1>1, <1>2

(* The other thread is removing a client that is not whole. *)
LEMMA NotWhole ==
  ASSUME RemovedRightly, NEW c \in list, ~Whole(c)
  PROVE  HostGone(c)
  BY DEF Whole, Removing, RemovedRightly

LEMMA CheckRightly ==
  ASSUME IInv, EntriesMade, OneReply, WholeIntact, RemovedRightly, Check, ~stray',
         at'["main"] # "register"
  PROVE  HostGone(held["main"]) /\ UNCHANGED held
  <1> DEFINE c == held["main"]
             n == client[c].send
  <1>1. c \in list /\ BadSocket(n) /\ UNCHANGED held
    BY DEF Check, GoTo, IInv, TypeOK, Threads
  <1>2. c \in Clients /\ Entered(c) /\ n \in Fds /\ n # None
    BY <1>1, ClientType DEF IInv, EntriesMade
  <1> HIDE DEF c
  <1>3. CASE Whole(c)
    <2>1. PICK s \in Servers : fd[n] = SendTo(s) /\ Host[s] = client[c].host
      BY <1>2, <1>3 DEF WholeIntact, Intact
    <2>2. Readable(n)
      BY <1>1, <1>2 DEF BadSocket
    <2>3. s \notin up
      BY <2>1, <2>2, Names DEF Readable
    <2>4. s \in dead
      BY <1>2, <2>1, <2>3 DEF OneReply
    <2> QED BY <1>1, <1>2, <2>1, <2>4 DEF HostGone, c
  <1>4. CASE ~Whole(c)
    BY <1>1, <1>4, NotWhole DEF c
  <1> QED BY <1>3, <1>4

LEMMA MessageRightly ==
  ASSUME IInv, EntriesMade, ReadyTrue, WholeIntact, RemovedRightly, Message, ~stray',
         at'["receiver"] = "close"
  PROVE  HostGone(held["receiver"]) /\ UNCHANGED held
  <1> DEFINE c == held["receiver"]
             n == client[c].reply
  <1>1. /\ c \in list /\ at["receiver"] = "message" /\ UNCHANGED held
        /\ \A s \in Servers : fd[n] = ReplyFrom(s) => wire[s] = <<>>
    BY DEF Message, GoTo, IInv, TypeOK, Threads
  <1>2. c \in Clients /\ Entered(c) /\ n \in Fds /\ n # None /\ StillReadable(n)
    BY <1>1, ClientType DEF IInv, EntriesMade, ReadyTrue
  <1> HIDE DEF c
  <1>3. CASE Whole(c)
    <2>1. PICK s \in Servers : fd[n] = ReplyFrom(s) /\ Host[s] = client[c].host
      BY <1>2, <1>3 DEF WholeIntact, Intact
    <2>2. s \in dead
      BY <1>1, <1>2, <2>1 DEF StillReadable
    <2> QED BY <1>1, <1>2, <2>1, <2>2 DEF HostGone, c
  <1>4. CASE ~Whole(c)
    BY <1>1, <1>4, NotWhole DEF c
  <1> QED BY <1>3, <1>4

(* How a thread comes to remove a client ... *)
LEMMA Removals ==
  ASSUME IInv, AnyStep, NEW t \in Threads, at'[t] \in {"close", "unlink"}
  PROVE  \/ at[t] \in {"close", "unlink"} /\ UNCHANGED held[t]
         \/ t = "main" /\ Check
         \/ t = "receiver" /\ Message
  <1> USE DEF GoTo, Threads
  <1>t. /\ at \in [Threads -> {"idle", "check", "connect", "register", "send", "answer",
                         "select", "accept", "scan", "message", "completion",
                         "close", "unlink", "mark", "sweep", "swept"}]
        /\ held \in [Threads -> Clients \cup {None}]
    BY DEF IInv, TypeOK
  <1>1. CASE \E a \in {Address[s] : s \in Servers} : Begin(a)
    BY <1>1, <1>t DEF Begin
  <1>2. CASE Check
    BY <1>2, <1>t DEF Check
  <1>3. CASE Connect
    BY <1>3, <1>t, ConnectIs
  <1>4. CASE RegisterJob \/ Answer
    BY <1>4, <1>t DEF RegisterJob, Answer
  <1>5. CASE Send
    <2>1. UNCHANGED held /\ (at' = at \/ at' = [at EXCEPT !["main"] = "answer"])
      BY <1>5, SendIs
    <2> QED BY <1>t, <2>1
  <1>6. CASE Select \/ Scan \/ Completion
    BY <1>6, <1>t DEF Select, Scan, Completion
  <1>7. CASE Accept
    BY <1>7, <1>t, AcceptIs
  <1>8. CASE Message
    BY <1>8, <1>t DEF Message
  <1>9. ASSUME NEW u \in Threads, RemoveClient(u)
        PROVE  at[t] \in {"close", "unlink"} /\ UNCHANGED held[t]
    <2>1. CASE Close(u)
      BY <1>t, <2>1 DEF Close
    <2>2. CASE Unlink(u)
      BY <1>t, <2>2 DEF Unlink
    <2>3. CASE Mark(u) \/ CompleteLost(u)
      BY <1>t, <2>3 DEF Mark, CompleteLost
    <2>4. CASE Sweep(u)
      BY <1>t, <2>4 DEF Sweep, After
    <2> QED BY <1>9, <2>1, <2>2, <2>3, <2>4 DEF RemoveClient
  <1>10. CASE \E s \in Servers : Server(s) \/ ServerDies(s) \/ ServerRises(s)
    BY <1>10 DEF Server, ServerStarts, ServerFinishes, ServerDies, ServerRises
  <1> QED BY <1>1, <1>2, <1>3, <1>4, <1>5, <1>6, <1>7, <1>8, <1>9, <1>10
       DEF AnyStep, Main, Receiver

(* ... and to mark its jobs. *)
LEMMA Markings ==
  ASSUME IInv, AnyStep, NEW t \in Threads, at'[t] \in {"unlink", "mark"}
  PROVE  \/ at[t] \in {"unlink", "mark"} /\ UNCHANGED lastSock[t]
         \/ Close(t)
  <1> USE DEF GoTo, Threads
  <1>t. /\ at \in [Threads -> {"idle", "check", "connect", "register", "send", "answer",
                         "select", "accept", "scan", "message", "completion",
                         "close", "unlink", "mark", "sweep", "swept"}]
        /\ lastSock \in [Threads -> Fds \cup {None}]
    BY DEF IInv, TypeOK
  <1>1. CASE \E a \in {Address[s] : s \in Servers} : Begin(a)
    BY <1>1, <1>t DEF Begin
  <1>2. CASE Check
    BY <1>2, <1>t DEF Check
  <1>3. CASE Connect
    BY <1>3, <1>t, ConnectIs
  <1>4. CASE RegisterJob \/ Answer
    BY <1>4, <1>t DEF RegisterJob, Answer
  <1>5. CASE Send
    <2>1. UNCHANGED lastSock /\ (at' = at \/ at' = [at EXCEPT !["main"] = "answer"])
      BY <1>5, SendIs
    <2> QED BY <1>t, <2>1
  <1>6. CASE Receiver
    <2>1. UNCHANGED lastSock /\ at'["main"] = at["main"] /\ at'["receiver"] \notin {"unlink", "mark"}
      BY <1>6, <1>t DEF Receiver, Select, Accept, Scan, Message, Completion
    <2> QED BY <2>1
  <1>7. ASSUME NEW u \in Threads, RemoveClient(u)
        PROVE  \/ at[t] \in {"unlink", "mark"} /\ UNCHANGED lastSock[t]
               \/ Close(t)
    <2>1. CASE Close(u)
      BY <1>t, <2>1 DEF Close
    <2>2. CASE Unlink(u)
      BY <1>t, <2>2 DEF Unlink
    <2>3. CASE Mark(u) \/ CompleteLost(u)
      BY <1>t, <2>3 DEF Mark, CompleteLost
    <2>4. CASE Sweep(u)
      BY <1>t, <2>4 DEF Sweep, After
    <2> QED BY <1>7, <2>1, <2>2, <2>3, <2>4 DEF RemoveClient
  <1>8. CASE \E s \in Servers : Server(s) \/ ServerDies(s) \/ ServerRises(s)
    BY <1>8 DEF Server, ServerStarts, ServerFinishes, ServerDies, ServerRises
  <1> QED BY <1>1, <1>2, <1>3, <1>4, <1>5, <1>6, <1>7, <1>8 DEF AnyStep, Main

(* What is marked, and the numbers of the jobs. *)
LEMMA MarkedMoves ==
  ASSUME IInv, NothingYet, AnyStep, NEW j \in Job, marked'[j]
  PROVE  /\ sock'[j] = sock[j]
         /\ \/ marked[j]
            \/ \E t \in Threads : at[t] = "mark" /\ sock[j] = lastSock[t]
  <1> USE DEF jobVars
  <1>1. CASE RegisterJob
    <2>1. next \in Job /\ ~marked[next] /\ UNCHANGED marked
          /\ sock' = [sock EXCEPT ![next] = lastSock["main"]]
      BY <1>1 DEF RegisterJob, NothingYet, BeforeRegistered, IInv, NextIsNew
    <2> QED BY <2>1 DEF IInv, TypeOK
  <1>2. CASE \E t \in Threads : Mark(t)
    BY <1>2 DEF Mark, IInv, TypeOK
  <1>3. CASE UNCHANGED <<marked, sock>>
    BY <1>3
  <1>4. CASE \E t \in Threads : Close(t) \/ Unlink(t) \/ Sweep(t) \/ CompleteLost(t)
    BY <1>3, <1>4 DEF Close, Unlink, Sweep, CompleteLost
  <1>5. CASE Check \/ Connect \/ Send \/ Answer \/ \E a \in {Address[s] : s \in Servers} : Begin(a)
    BY <1>3, <1>5 DEF Check, Connect, Send, Answer, Begin
  <1>6. CASE Receiver
    BY <1>3, <1>6 DEF Receiver, Select, Accept, Scan, Message, Completion
  <1>7. CASE \E s \in Servers : Server(s) \/ ServerDies(s) \/ ServerRises(s)
    BY <1>3, <1>7 DEF Server, ServerStarts, ServerFinishes, ServerDies, ServerRises
  <1> QED BY <1>1, <1>2, <1>4, <1>5, <1>6, <1>7 DEF AnyStep, Main, RemoveClient

LEMMA RightlyStep ==
  ASSUME IInv, EntriesMade, SocketsRight, ReadyTrue, NothingYet, EntriesKept, AnyStep,
         WholeIntact, RemovedRightly, MarkedRightly, ~stray'
  PROVE  RemovedRightly' /\ MarkedRightly'
  <1>1. ASSUME NEW t \in Threads, at'[t] \in {"close", "unlink"}
        PROVE  \E c \in Clients : held'[t] = c /\ HostGone(c)'
    <2>1. HostGone(held[t]) /\ UNCHANGED held[t] /\ held[t] \in Clients
      <3>1. CASE at[t] \in {"close", "unlink"} /\ UNCHANGED held[t]
        BY <3>1 DEF RemovedRightly, IInv, HoldsClient
      <3>2. CASE t = "main" /\ Check
        <4>1. at["main"] = "check" /\ at'["main"] # "register"
          BY <1>1, <3>2 DEF Check
        <4> QED BY <3>2, <4>1, CheckRightly DEF SocketsRight, IInv, HoldsClient
      <3>3. CASE t = "receiver" /\ Message
        <4>1. at["receiver"] = "message" /\ at'["receiver"] = "close"
          BY <1>1, <3>3 DEF Message, GoTo, IInv, TypeOK, Threads
        <4> QED BY <3>3, <4>1, MessageRightly DEF IInv, HoldsClient
      <3> QED BY <1>1, <3>1, <3>2, <3>3, Removals
    <2> QED BY <2>1, GoneKept
  <1>2. ASSUME NEW t \in Threads, at'[t] \in {"unlink", "mark"}
        PROVE  \E n : lastSock'[t] = n /\ NumberGone(n)'
    <2>1. CASE at[t] \in {"unlink", "mark"} /\ UNCHANGED lastSock[t]
      BY <2>1, GoneKept DEF MarkedRightly
    <2>2. CASE Close(t)
      <3>1. /\ lastSock'[t] = client[held[t]].send /\ HostGone(held[t]) /\ held[t] \in Clients
        BY <2>2 DEF Close, RemovedRightly, IInv, TypeOK, HoldsClient
      <3>2. NumberGone(client[held[t]].send)
        BY <3>1 DEF NumberGone
      <3>3. PICK n : n = client[held[t]].send
        OBVIOUS
      <3> QED BY <3>1, <3>2, <3>3, GoneKept
    <2> QED BY <1>2, <2>1, <2>2, Markings
  <1>3. ASSUME NEW j \in Job, marked'[j] PROVE \E n : sock'[j] = n /\ NumberGone(n)'
    <2>1. NumberGone(sock[j]) /\ sock'[j] = sock[j]
      BY <1>3, MarkedMoves DEF MarkedRightly
    <2> QED BY <2>1, GoneKept
  <1>4. RemovedRightly'
    BY <1>1 DEF RemovedRightly, HostGone, Entered
  <1>5. MarkedRightly'
    BY <1>2, <1>3 DEF MarkedRightly, NumberGone, HostGone, Entered
  <1> QED BY <1>4, <1>5

LEMMA SoundStep ==
  ASSUME IInv, EntriesMade, SocketsRight, ReadyTrue, NothingYet, EntriesKept, AnyStep,
         Sound, ~stray
  PROVE  Sound'
  <1> SUFFICES ASSUME ~Mistaken'
               PROVE  WholeIntact' /\ Apart' /\ RemovedRightly' /\ MarkedRightly'
    BY DEF Sound
  <1>1. ~stray' /\ ~FreedTwice' /\ ~RemovedTwice'
    BY DEF Mistaken
  <1>2. ~Mistaken
    BY <1>1, MistakenStays DEF Mistaken
  <1>3. WholeIntact /\ Apart /\ RemovedRightly /\ MarkedRightly
    BY <1>2 DEF Sound
  <1> QED BY <1>1, <1>3, WholeStep, RightlyStep

-----------------------------------------------------------------------------
(* Why a path is said to be down. *)

Explained(j) ==
  \/ \E s \in dead : Host[s] = Host[for[j]]
  \/ NumberShared(j) \/ FreedTwice \/ stray

(* A job that has been sent keeps its server and its number. *)
LEMMA ToldKept ==
  ASSUME IInv, JobsRight, AnyStep, NEW j \in Job,
         job[j] \notin {"none", "refused"} \/ why[j] # "none"
  PROVE  for'[j] = for[j] /\ sock'[j] = sock[j]
  <1> USE DEF jobVars
  <1>1. CASE RegisterJob
    <2>1. j # next /\ UNCHANGED for /\ sock' = [sock EXCEPT ![next] = lastSock["main"]]
      BY <1>1 DEF RegisterJob, JobsRight, NothingYet, BeforeRegistered, IInv, NextIsNew
    <2> QED BY <2>1 DEF IInv, TypeOK
  <1>2. CASE Send
    <2>1. j # next /\ UNCHANGED sock
          /\ (for' = for \/ \E s \in Servers : for' = [for EXCEPT ![next] = s])
      BY <1>2, SendIs DEF JobsRight, NothingYet, BeforeRegistered, IInv, NextIsNew
    <2> QED BY <2>1 DEF IInv, TypeOK
  <1>3. CASE Check \/ Connect \/ Answer \/ \E a \in {Address[s] : s \in Servers} : Begin(a)
    BY <1>3 DEF Check, Connect, Answer, Begin
  <1>4. CASE \E t \in Threads : RemoveClient(t)
    BY <1>4 DEF RemoveClient, Close, Unlink, Mark, Sweep, CompleteLost
  <1>5. CASE Receiver
    BY <1>5 DEF Receiver, Select, Accept, Scan, Message, Completion
  <1>6. CASE \E s \in Servers : Server(s) \/ ServerDies(s) \/ ServerRises(s)
    BY <1>6 DEF Server, ServerStarts, ServerFinishes, ServerDies, ServerRises
  <1> QED BY <1>1, <1>2, <1>3, <1>4, <1>5, <1>6 DEF AnyStep, Main

LEMMA ExplainedKept ==
  ASSUME IInv, EntriesMade, JobsRight, EntriesKept, AnyStep, ~stray,
         NEW j \in Job, job[j] \notin {"none", "refused"} \/ why[j] # "none", Explained(j)
  PROVE  Explained(j)'
  <1>1. for'[j] = for[j] /\ sock'[j] = sock[j]
    BY ToldKept
  <1>2. CASE \E s \in dead : Host[s] = Host[for[j]]
    BY <1>1, <1>2 DEF Explained, EntriesKept
  <1>3. CASE NumberShared(j)
    <2>1. PICK c, d \in Clients : c # d /\ {client[c].send, client[d].send} = {sock[j]}
      BY <1>3 DEF NumberShared
    <2>2. sock[j] # None
      <3>1. PICK e \in Clients : Entered(e) /\ client[e].send = sock[j]
        BY DEF JobsRight, SentOnClient
      <3> QED BY <3>1, ClientType DEF EntriesMade, IInv
    <2>3. client[c].send = sock[j] /\ client[d].send = sock[j]
      BY <2>1
    <2>4. Entered(c) /\ Entered(d)
      BY <2>2, <2>3 DEF EntriesMade
    <2>5. client'[c].send = sock'[j] /\ client'[d].send = sock'[j]
      BY <1>1, <2>3, <2>4 DEF EntriesKept
    <2>6. NumberShared(j)'
      BY <2>1, <2>5 DEF NumberShared
    <2> QED BY <2>6 DEF Explained
  <1>4. CASE FreedTwice
    BY <1>4, MistakenStays DEF Explained
  <1> QED BY <1>2, <1>3, <1>4 DEF Explained

(* A job a thread has found marked has lost its server, or another one of   *)
(* the same host or of the same number.                                     *)
LEMMA SweptExplained ==
  ASSUME IInv, EntriesMade, JobsRight, Sound, NEW t \in Threads, at[t] = "swept",
         NEW j, j = heldJob[t], job[j] \notin {"none", "refused"}
  PROVE  j \in Job /\ Explained(j)
  <1>1. j \in Job /\ marked[j] /\ for[j] # None
    BY DEF JobsRight, SweepsMarked, SentOnClient
  <1>2. CASE Mistaken
    <2>1. ~RemovedTwice
      BY DEF RemovedTwice
    <2> QED BY <1>1, <1>2, <2>1 DEF Mistaken, Explained
  <1>3. CASE ~Mistaken
    <2>1. NumberGone(sock[j])
      BY <1>1, <1>3 DEF Sound, MarkedRightly
    <2>2. PICK c \in Clients : HostGone(c) /\ client[c].send = sock[j]
      BY <2>1 DEF NumberGone
    <2>3. PICK d \in Clients : client[d].send = sock[j] /\ client[d].host = Host[for[j]]
      BY <1>1 DEF JobsRight, SentOnClient
    <2>4. CASE c = d
      BY <1>1, <2>2, <2>3, <2>4 DEF HostGone, Explained
    <2>5. CASE c # d
      BY <1>1, <2>2, <2>3, <2>5 DEF NumberShared, Explained
    <2> QED BY <2>4, <2>5
  <1> QED BY <1>2, <1>3

(* Only a thread that has found a job marked says that its path is down. *)
LEMMA PathDownSaid ==
  ASSUME IInv, AnyStep, NEW j \in Job, why'[j] = "path down", why[j] # "path down"
  PROVE  /\ \E t \in Threads : at[t] = "swept" /\ j = heldJob[t]
         /\ job[j] \in {"sent", "doing", "lost"}
  <1>1. ASSUME NEW t \in Threads, CompleteLost(t)
        PROVE  at[t] = "swept" /\ j = heldJob[t] /\ job[j] \in {"sent", "doing", "lost"}
    <2>1. Completable(heldJob[t]) /\ Complete(heldJob[t], "path down") /\ at[t] = "swept"
      BY <1>1 DEF CompleteLost
    <2>2. heldJob[t] \in Job /\ job[heldJob[t]] \in {"sent", "doing", "lost"}
      BY <2>1, CompleteType
    <2>3. \A k \in Job : k # heldJob[t] => why'[k] = why[k]
      BY <2>1 DEF Complete, IInv, TypeOK
    <2> QED BY <2>1, <2>2, <2>3
  <1>2. CASE Completion
    <2>1. \/ why' = why
          \/ \E k \in Job : why' = [why EXCEPT ![k] = "finished"]
      BY <1>2, CompleteType DEF Completion, Complete
    <2> QED BY <2>1 DEF IInv, TypeOK
  <1>3. why' # why
    OBVIOUS
  <1>4. ~Main /\ \A a \in {Address[s] : s \in Servers} : ~Begin(a)
    BY <1>3 DEF Main, Check, Connect, RegisterJob, Send, Answer, Begin
  <1>5. Receiver => Completion
    BY <1>3 DEF Receiver, Select, Accept, Scan, Message
  <1>6. \A t \in Threads : RemoveClient(t) => CompleteLost(t)
    BY <1>3 DEF RemoveClient, Close, Unlink, Mark, Sweep
  <1>7. \A s \in Servers : ~Server(s) /\ ~ServerDies(s) /\ ~ServerRises(s)
    BY <1>3 DEF Server, ServerStarts, ServerFinishes, ServerDies, ServerRises
  <1> QED BY <1>1, <1>2, <1>4, <1>5, <1>6, <1>7 DEF AnyStep

LEMMA ExplainedStep ==
  ASSUME IInv, EntriesMade, JobsRight, EntriesKept, Sound, PathDownExplained, AnyStep, ~stray
  PROVE  PathDownExplained'
  <1>0. \A j \in Job : why[j] = "path down" => Explained(j)
    BY DEF PathDownExplained, Explained
  <1>1. ASSUME NEW j \in Job, why'[j] = "path down" PROVE Explained(j)'
    <2>1. CASE why[j] = "path down"
      BY <1>0, <2>1, ExplainedKept
    <2>2. CASE why[j] # "path down"
      <3>1. PICK t \in Threads : at[t] = "swept" /\ j = heldJob[t]
        BY <1>1, <2>2, PathDownSaid
      <3>2. job[j] \in {"sent", "doing", "lost"}
        BY <1>1, <2>2, PathDownSaid
      <3>3. Explained(j)
        BY <3>1, <3>2, SweptExplained
      <3> QED BY <3>2, <3>3, ExplainedKept
    <2> QED BY <2>1, <2>2
  <1> QED BY <1>1 DEF PathDownExplained, Explained

LEMMA SocketStep ==
  ASSUME IInv, SocketInv, [Next]_vars
  PROVE  SocketInv'
  <1>1. CASE UNCHANGED vars
    <2> USE <1>1 DEF vars, clientVars, jobVars, rcvVars, callVars, srvVars, netVars, SocketInv
    <2>1. EntriesMade' /\ SocketsRight' /\ ReadyTrue'
      BY DEF EntriesMade, SocketsRight, OneReply, SendersListed, ReadyTrue, StillReadable, Entered
    <2>2. JobsRight'
      BY DEF JobsRight, SweepsMarked, SentOnClient, NothingYet, SendsOnNumber, Entered
    <2>3. Mistaken' = Mistaken
      BY DEF Mistaken, FreedTwice, RemovedTwice
    <2>4. WholeIntact' = WholeIntact /\ Apart' = Apart
      BY DEF WholeIntact, Apart, Whole, Removing, Intact
    <2>5. RemovedRightly' = RemovedRightly /\ MarkedRightly' = MarkedRightly
      BY DEF RemovedRightly, MarkedRightly, HostGone, NumberGone, Entered
    <2>6. Sound' /\ PathDownExplained'
      BY <2>3, <2>4, <2>5 DEF Sound, PathDownExplained, NumberShared, FreedTwice
    <2> QED BY <2>1, <2>2, <2>6
  <1>2. CASE AnyStep /\ ~stray
    <2> USE DEF SocketInv
    <2>1. EntriesMade' /\ EntriesKept
      BY <1>2, EntriesStep
    <2>2. SocketsRight'
      BY <1>2, <2>1, SocketsStep
    <2>3. ReadyTrue'
      BY <1>2, <2>1, ReadyStep DEF SocketsRight, EntriesKept
    <2>4. JobsRight'
      BY <1>2, <2>1, JobsStep
    <2>5. Sound'
      BY <1>2, <2>1, SoundStep DEF JobsRight
    <2>6. PathDownExplained'
      BY <1>2, <2>1, ExplainedStep
    <2> QED BY <2>1, <2>2, <2>3, <2>4, <2>5, <2>6
  <1> QED BY <1>1, <1>2 DEF Next, Rest, AnyStep, Threads

-----------------------------------------------------------------------------
(* The dispatcher's lists, its threads and the sockets are of their types:  *)
(* in particular no job is completed twice, or refused and then completed,  *)
(* for such a job would be "again".                                         *)
THEOREM TypeCorrect == Spec => []TypeOK
  <1>1. IInv /\ [Next]_vars => IInv'
    BY StepKeeps
  <1>2. IInv => TypeOK
    BY DEF IInv
  <1> QED BY InitIInv, <1>1, <1>2, PTL DEF Spec

(* What ServerSendMessage() and its two threads say of a job, to any number *)
(* of callers and with any servers that die at any time, is what JobService *)
(* promises, up to a use of freed memory.                                   *)
THEOREM Implementation == Spec => ImplementsJobService
  <1>1. IInv /\ [Next]_vars => IInv' /\ [Service!Next \/ stray']_job
    BY StepKeeps
  <1>2. Init => Service!Init
    BY DEF Init
  <1> QED BY InitIInv, <1>1, <1>2, PTL DEF Spec, ImplementsJobService

(* A job's path is said to be down only when a server of its host has gone, *)
(* whatever the order in which the two threads remove clients, unless two   *)
(* clients have had the job's number, or a client is freed twice.           *)
THEOREM PathsExplained == Spec => []PathDownExplained
  <1>1. IInv /\ [Next]_vars => IInv'
    BY StepKeeps
  <1>2. IInv /\ SocketInv /\ [Next]_vars => SocketInv'
    BY SocketStep
  <1>3. SocketInv => PathDownExplained
    BY DEF SocketInv
  <1> QED BY InitIInv, InitSocketInv, <1>1, <1>2, <1>3, PTL DEF Spec

=============================================================================

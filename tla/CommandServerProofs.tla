-------------------------- MODULE CommandServerProofs --------------------------
(***************************************************************************)
(* Theorems about CommandServer, for any number of clients, any descriptor *)
(* limits and any set of commands.                                         *)
(***************************************************************************)
EXTENDS CommandServer, TLAPS

-----------------------------------------------------------------------------
(* Type correctness.  TypeOK is inductive as it stands. *)

LEMMA InitTypeOK == Init => TypeOK
  <1> SUFFICES ASSUME Init PROVE TypeOK
    OBVIOUS
  <1> USE SizesAssumption DEF Init, Fds, DListenFd, CListenFd
  <1>1. fdtab \in [Fds -> Objects]
    BY DEF Objects, Things
  <1>2. watchset \subseteq Fds /\ inset \subseteq Fds
    OBVIOUS
  <1>3. cmd_active \in Fds /\ deb_active \in Fds /\ S_sock \in Fds \cup {NoSock}
    OBVIOUS
  <1>4. in \in [cmd : AllCommands, from : Peers \cup {Nobody}, fd : Fds]
    BY DEF AllCommands, LocalCommands
  <1>5. out \in [text : Texts, error : BOOLEAN, to : Peers \cup {Nobody}]
    BY DEF Texts
  <1>6. backlog \in Seq(Clients) /\ dbacklog \in Seq(DebugClients)
    OBVIOUS
  <1>7. c2s \in [Peers -> Seq(AllCommands)] /\ s2c \in [Peers -> Seq(Line)]
    OBVIOUS
  <1> QED BY <1>1, <1>2, <1>3, <1>4, <1>5, <1>6, <1>7 DEF TypeOK

\* CloseSocket() leaves a descriptor table.
LEMMA CloseSocketType ==
  ASSUME TypeOK, NEW fd \in Fds \cup {NoSock} PROVE CloseSocket(fd) \in [Fds -> Objects]
  BY DEF TypeOK, CloseSocket, Objects, Things

\* Delivering lines leaves the lines on their way to every peer.
LEMMA DeliverType ==
  ASSUME TypeOK, NEW obj, NEW lines \in Seq(Line)
  PROVE  Deliver(obj, lines) \in [Peers -> Seq(Line)]
  BY DEF TypeOK, Deliver

LEMMA PairInSeq == ASSUME NEW S, NEW a \in S, NEW b \in S PROVE <<a, b>> \in Seq(S)
  OBVIOUS

\* What iobFlush() writes are lines.
LEMMA ReplyLinesType == ASSUME TypeOK PROVE ReplyLines \in Seq(Line)
  <1>1. \A k \in {"text", "EOF", "EOF ERR", "glued"} : ReplyLine(k) \in Line
    BY DEF TypeOK, ReplyLine, Line
  <1>2. PICK k \in {"EOF", "EOF ERR", "glued"} : ReplyLines = <<ReplyLine("text"), ReplyLine(k)>>
    BY DEF ReplyLines
  <1>3. ReplyLine("text") \in Line /\ ReplyLine(k) \in Line
    BY <1>1
  <1> QED BY <1>2, <1>3, PairInSeq

\* So are the prompts on the debug connection ...
LEMMA PromptsType ==
  ASSUME TypeOK, NEW obj, NEW n \in Nat PROVE Prompts(obj, n) \in [Peers -> Seq(Line)]
  <1>1. CASE ~(stdoutOpen /\ obj \in Peers)
    BY <1>1, Zenon DEF Prompts, TypeOK
  <1>2. CASE stdoutOpen /\ obj \in Peers
    <2>1. Prompt(obj) \in Line
      BY <1>2 DEF Prompt, Line
    <2>2. [i \in 1..n |-> Prompt(obj)] \in Seq(Line)
      BY <2>1
    <2>3. Prompts(obj, n) = Deliver(obj, [i \in 1..n |-> Prompt(obj)])
      BY <1>2, Zenon DEF Prompts
    <2> QED BY <2>2, <2>3, DeliverType
  <1> QED BY <1>1, <1>2

\* ... and what is sent to the daemon's number.
LEMMA SendToType ==
  ASSUME TypeOK, NEW obj, SendTo(obj)
  PROVE  s2c' \in [Peers -> Seq(Line)] /\ c2s' \in [Peers -> Seq(AllCommands)]
  <1>1. MdsBytes(in.from) \in Line
    BY DEF TypeOK, MdsBytes, Line
  <1>2. <<MdsBytes(in.from)>> \in Seq(Line)
    BY <1>1
  <1>3. s2c' \in [Peers -> Seq(Line)]
    BY <1>2, DeliverType DEF SendTo
  <1>4. c2s' \in [Peers -> Seq(AllCommands)]
    BY DEF SendTo, TypeOK
  <1> QED BY <1>3, <1>4

\* The steps of the select() loop and of the command side of new_state().
LEMMA LoopTypeOK == ASSUME TypeOK, Loop \/ Commanding PROVE TypeOK'
  <1> USE DEF connVars, netVars, peerVars
  <1>1. CASE Flush
    <2>1. s2c' \in [Peers -> Seq(Line)]
      BY <1>1, DeliverType, ReplyLinesType DEF Flush, TypeOK
    <2>2. out' \in [text : Texts, error : BOOLEAN, to : Peers \cup {Nobody}]
      BY <1>1 DEF Flush, TypeOK, Texts
    <2> QED BY <1>1, <2>1, <2>2 DEF Flush, TypeOK, Go
  <1>2. CASE SelectFails
    BY <1>2 DEF SelectFails, Die, TypeOK
  <1>3. CASE Select
    BY <1>3 DEF Select, Go, TypeOK
  <1>4. CASE ReadCommand
    <2>1. PICK p \in Peers : /\ p = fdtab[cmd_active] /\ c2s[p] # <<>>
                             /\ in' = [in EXCEPT !.cmd = Head(c2s[p]), !.from = p]
                             /\ c2s' = [c2s EXCEPT ![p] = Tail(@)]
      BY <1>4 DEF ReadCommand
    <2>2. Head(c2s[p]) \in AllCommands /\ Tail(c2s[p]) \in Seq(AllCommands)
      BY <2>1 DEF TypeOK
    <2>3. in' \in [cmd : AllCommands, from : Peers \cup {Nobody}, fd : Fds]
      BY <2>1, <2>2 DEF TypeOK
    <2>4. c2s' \in [Peers -> Seq(AllCommands)]
      BY <2>1, <2>2 DEF TypeOK
    <2> QED BY <1>4, <2>3, <2>4 DEF ReadCommand, Go, TypeOK
  <1>5. CASE CommandReset
    BY <1>5 DEF CommandReset, ReadReset, Die, TypeOK
  <1>6. CASE CommandHangUp
    BY <1>6, SizesAssumption DEF CommandHangUp, HangUp, Go, TypeOK, Fds, Objects, Things
  <1>7. CASE AcceptCommand
    <2>1. Head(backlog) \in Clients /\ Tail(backlog) \in Seq(Clients)
      BY <1>7 DEF AcceptCommand, TypeOK
    <2>2. Head(backlog) \in Objects
      BY <2>1 DEF Objects, Peers
    <2>3. /\ fdtab' \in [Fds -> Objects]
          /\ cmd_active' \in Fds /\ watchset' \subseteq Fds
      BY <1>7, <2>2 DEF AcceptCommand, TypeOK
    <2>4. pc' = "debug" /\ backlog' \in Seq(Clients)
      BY <1>7, <2>1 DEF AcceptCommand
    <2>5. UNCHANGED <<deb_active, S_sock, stdoutOpen, mdsUp, inset, in, out, dbacklog, c2s,
                      s2c, peerVars, result>>
      BY <1>7 DEF AcceptCommand
    <2> QED BY <2>3, <2>4, <2>5 DEF TypeOK
  <1>8. CASE CommandAcceptAborts
    BY <1>8 DEF CommandAcceptAborts, Die, TypeOK
  <1>9. CASE NoCommand
    BY <1>9 DEF NoCommand, Go, TypeOK
  <1> QED BY <1>1, <1>2, <1>3, <1>4, <1>5, <1>6, <1>7, <1>8, <1>9 DEF Loop, Commanding

\* close() and dup() leave a descriptor table.
LEMMA RedirectType ==
  ASSUME NEW tab \in [Fds -> Objects], NEW fd \in Fds, NEW n
  PROVE  Redirect(tab, fd, n) \in [Fds -> Objects]
  BY DEF Redirect, Objects, Things

\* The steps of its debug side.
LEMMA DebuggingTypeOK == ASSUME TypeOK, Debugging PROVE TypeOK'
  <1> USE DEF connVars, netVars, peerVars
  <1>1. CASE DebugRead
    <2>1. s2c' \in [Peers -> Seq(Line)]
      BY <1>1, PromptsType DEF DebugRead
    <2>2. c2s' \in [Peers -> Seq(AllCommands)]
      BY <1>1 DEF DebugRead, TypeOK
    <2> QED BY <1>1, <2>1, <2>2 DEF DebugRead, Go, TypeOK
  <1>2. CASE DebugReset
    BY <1>2 DEF DebugReset, ReadReset, Die, TypeOK
  <1>3. CASE DebugHangUp
    BY <1>3, SizesAssumption DEF DebugHangUp, HangUp, Go, TypeOK, Fds, Objects, Things
  <1>4. CASE DebugAccept
    <2>1. Head(dbacklog) \in DebugClients /\ Tail(dbacklog) \in Seq(DebugClients)
      BY <1>4 DEF DebugAccept, TypeOK
    <2>2. Head(dbacklog) \in Objects
      BY <2>1 DEF Objects, Peers
    <2>3. s2c' \in [Peers -> Seq(Line)]
      BY <1>4, PromptsType DEF DebugAccept
    <2>a. PICK fd \in Fds :
            /\ fdtab' = Redirect(Redirect([fdtab EXCEPT ![fd] = Head(dbacklog)], fd, 1), fd, 2)
            /\ deb_active' = fd /\ watchset' = watchset \cup {fd}
      BY <1>4 DEF DebugAccept
    <2>4. /\ fdtab' \in [Fds -> Objects]
          /\ deb_active' \in Fds /\ watchset' \subseteq Fds
      <3>1. [fdtab EXCEPT ![fd] = Head(dbacklog)] \in [Fds -> Objects]
        BY <2>2 DEF TypeOK
      <3>2. fdtab' \in [Fds -> Objects]
        BY <2>a, <3>1, RedirectType
      <3> QED BY <2>a, <3>2 DEF TypeOK
    <2>5. pc' = "flush" /\ dbacklog' \in Seq(DebugClients)
      BY <1>4, <2>1 DEF DebugAccept, Go
    <2>6. UNCHANGED <<cmd_active, S_sock, stdoutOpen, mdsUp, inset, in, out, backlog, c2s,
                      peerVars, result>>
      BY <1>4 DEF DebugAccept
    <2> QED BY <2>3, <2>4, <2>5, <2>6 DEF TypeOK
  <1>5. CASE DebugAcceptAborts
    <2>1. Die
      BY <1>5 DEF DebugAcceptAborts
    <2> QED BY <2>1 DEF Die, TypeOK
  <1>6. CASE NoDebug
    BY <1>6 DEF NoDebug, Go, TypeOK
  <1> QED BY <1>1, <1>2, <1>3, <1>4, <1>5, <1>6 DEF Debugging

\* What a handler leaves behind when it returns.
LEMMA ReturnType ==
  ASSUME TypeOK, NEW text \in Texts, NEW error \in BOOLEAN, Return(text, error)
  PROVE  /\ pc' = "flush"
         /\ out' \in [text : Texts, error : BOOLEAN, to : Peers \cup {Nobody}]
         /\ result' \in [Peers -> {"none", "ok", "err"}]
  BY DEF TypeOK, Return

\* A question is asked: what is sent is typed, and so is the reply if it fails.
LEMMA AskType ==
  ASSUME TypeOK, NEW tab, Ask(tab)
  PROVE  /\ s2c' \in [Peers -> Seq(Line)] /\ c2s' \in [Peers -> Seq(AllCommands)]
         /\ pc' \in {"mds", "flush"}
         /\ out' \in [text : Texts, error : BOOLEAN, to : Peers \cup {Nobody}]
         /\ result' \in [Peers -> {"none", "ok", "err"}]
  <1> DEFINE obj == IF S_sock \in Fds THEN tab[S_sock] ELSE "free"
  <1>1. /\ SendTo(obj)
        /\ \/ pc' = "mds" /\ UNCHANGED <<out, result>>
           \/ Return("line", TRUE)
    BY DEF Ask
  <1> HIDE DEF obj
  <1>2. s2c' \in [Peers -> Seq(Line)] /\ c2s' \in [Peers -> Seq(AllCommands)]
    BY <1>1, SendToType
  <1>3. CASE Return("line", TRUE)
    BY <1>2, <1>3, ReturnType DEF Texts
  <1>4. CASE pc' = "mds" /\ UNCHANGED <<out, result>>
    BY <1>2, <1>4 DEF TypeOK
  <1> QED BY <1>1, <1>3, <1>4

LEMMA WithoutSockType == TypeOK => WithoutSock \in [Fds -> Objects]
  BY CloseSocketType DEF WithoutSock, TypeOK

\* The handlers.
LEMMA ExecuteTypeOK == ASSUME TypeOK, Execute PROVE TypeOK'
  <1> USE DEF connVars, netVars, peerVars
  <1>0. "line" \in Texts /\ "none" \in Texts /\ "open" \in Texts
        /\ "free" \in Objects /\ "leak" \in Objects /\ "file" \in Objects
        /\ "mds" \in Objects
    BY DEF Texts, Objects, Things
  <1>1. CASE DoHelp
    BY <1>0, <1>1, ReturnType DEF DoHelp, TypeOK
  <1>2. CASE DoComment
    BY <1>0, <1>2, ReturnType DEF DoComment, TypeOK
  <1>3. CASE DoUnknown
    BY <1>3 DEF DoUnknown, Die, TypeOK
  <1>4. CASE DoDisconnect
    <2>1. fdtab' \in [Fds -> Objects]
      BY <1>4, CloseSocketType DEF DoDisconnect, TypeOK
    <2> QED BY <1>0, <1>4, <2>1, ReturnType DEF DoDisconnect, TypeOK
  <1>5. CASE BeginConnect
    <2>0. PICK fd \in Fds : /\ fdtab' = [WithoutSock EXCEPT ![fd] = "mds"]
                            /\ in' = [in EXCEPT !.fd = fd]
      BY <1>5 DEF BeginConnect
    <2>1. /\ fdtab' \in [Fds -> Objects]
          /\ in' \in [cmd : AllCommands, from : Peers \cup {Nobody}, fd : Fds]
      BY <1>0, <2>0, WithoutSockType DEF TypeOK
    <2> QED BY <1>5, <2>1 DEF BeginConnect, TypeOK
  <1>6. CASE ConnectFailsEarly
    BY <1>0, <1>6, WithoutSockType, ReturnType DEF ConnectFailsEarly, TypeOK
  <1>7. CASE DoRequest
    BY <1>7, AskType DEF DoRequest, TypeOK
  <1>8. CASE DoSetEvent
    BY <1>0, <1>8, ReturnType DEF DoSetEvent, TypeOK
  <1>9. CASE DoPutFile
    <2>1. fdtab' \in [Fds -> Objects]
      BY <1>0, <1>9 DEF DoPutFile, TypeOK
    <2> QED BY <1>9, <2>1, AskType DEF DoPutFile, TypeOK
  <1>10. CASE PutFileAborted
    BY <1>0, <1>10, ReturnType DEF PutFileAborted, TypeOK
  <1>11. CASE PutStartCrashes
    BY <1>11 DEF PutStartCrashes, Die, TypeOK
  <1>12. CASE DoValueFile
    <2>1. fdtab' \in [Fds -> Objects]
      BY <1>0, <1>12 DEF DoValueFile, TypeOK
    <2> QED BY <1>12, <2>1, AskType DEF DoValueFile, TypeOK
  <1>13. CASE ValueFileFails
    BY <1>0, <1>13, ReturnType DEF ValueFileFails, TypeOK
  <1> QED BY <1>1, <1>2, <1>3, <1>4, <1>5, <1>6, <1>7, <1>8, <1>9, <1>10, <1>11, <1>12, <1>13
          DEF Execute

\* Answers, timeouts and the daemon.
LEMMA AnswerTypeOK ==
  ASSUME TypeOK, ConnectEnds \/ RequestEnds \/ MdsTimeout \/ MdsHangUp PROVE TypeOK'
  <1> USE DEF connVars, netVars, peerVars
  <1>0. "line" \in Texts /\ "none" \in Texts /\ "free" \in Objects /\ "leak" \in Objects
        /\ 0 \in Fds
    BY SizesAssumption DEF Texts, Objects, Things, Fds, CListenFd
  <1>a. ASSUME NEW ok \in BOOLEAN, NEW tab \in [Fds -> Objects], Answered(ok, tab)
        PROVE  /\ pc' = "flush"
               /\ out' \in [text : Texts, error : BOOLEAN, to : Peers \cup {Nobody}]
               /\ result' \in [Peers -> {"none", "ok", "err"}]
               /\ fdtab' \in [Fds -> Objects] /\ stdoutOpen' \in BOOLEAN
    <2>1. Return(IF ok /\ in.cmd = "mdsValueFloat" THEN "none" ELSE "line", ~ok)
      BY <1>a DEF Answered
    <2>2. fdtab' \in [Fds -> Objects]
      BY <1>0, <1>a DEF Answered, CloseOutput
    <2>3. stdoutOpen' \in BOOLEAN
      BY <1>a, Zenon DEF Answered
    <2> QED BY <1>0, <2>1, <2>2, <2>3, ReturnType
  <1>b. fdtab \in [Fds -> Objects] /\ CloseSocket(S_sock) \in [Fds -> Objects]
    BY CloseSocketType DEF TypeOK
  <1>1. CASE ConnectDone
    BY <1>0, <1>1, ReturnType DEF ConnectDone, TypeOK
  <1>2. CASE ConnectFails
    <2>1. fdtab' \in [Fds -> Objects]
      BY <1>0, <1>2 DEF ConnectFails, TypeOK
    <2> QED BY <1>0, <1>2, <2>1, ReturnType DEF ConnectFails, TypeOK
  <1>3. CASE MdsAnswer
    BY <1>3, <1>a, <1>b DEF MdsAnswer, TypeOK
  <1>4. CASE MdsGarbles
    BY <1>4, <1>a, <1>b DEF MdsGarbles, TypeOK
  <1>5. CASE PeerAnswer
    <2>1. c2s' \in [Peers -> Seq(AllCommands)]
      BY <1>5 DEF PeerAnswer, TypeOK
    <2> QED BY <1>5, <1>a, <1>b, <2>1 DEF PeerAnswer, TypeOK
  <1>6. CASE MdsTimeout
    <2>1. fdtab' \in [Fds -> Objects]
      BY <1>0, <1>6, <1>b DEF MdsTimeout, LeftOpen
    <2> QED BY <1>0, <1>6, <2>1, ReturnType DEF MdsTimeout, TypeOK
  <1>7. CASE MdsHangUp
    BY <1>7 DEF MdsHangUp, TypeOK
  <1> QED BY <1>1, <1>2, <1>3, <1>4, <1>5, <1>6, <1>7 DEF ConnectEnds, RequestEnds

\* The clients.
LEMMA ConnectTypeOK == ASSUME TypeOK, NEW p \in Peers, Connect(p) PROVE TypeOK'
  <1>1. backlog' \in Seq(Clients) /\ dbacklog' \in Seq(DebugClients)
    <2>1. backlog \in Seq(Clients) /\ dbacklog \in Seq(DebugClients)
      BY DEF TypeOK
    <2>2. CASE p \in Clients
      <3>1. backlog' = Append(backlog, p) /\ dbacklog' = dbacklog
        BY <2>2, Zenon DEF Connect
      <3> QED BY <2>1, <2>2, <3>1
    <2>3. CASE p \notin Clients
      <3>1. dbacklog' = Append(dbacklog, p) /\ backlog' = backlog
        BY <2>3, Zenon DEF Connect
      <3> QED BY <2>1, <2>3, <3>1 DEF Peers
    <2> QED BY <2>2, <2>3
  <1>2. cpc' \in [Peers -> {"start", "connected", "waiting", "exited"}]
    BY DEF Connect, TypeOK
  <1> QED BY <1>1, <1>2 DEF Connect, TypeOK, connVars, serverVars

LEMMA TailType ==
  ASSUME TypeOK, NEW p \in Peers, s2c[p] # <<>>, s2c' = [s2c EXCEPT ![p] = Tail(@)]
  PROVE  s2c' \in [Peers -> Seq(Line)]
  <1>1. s2c \in [Peers -> Seq(Line)]
    BY DEF TypeOK
  <1>2. Tail(s2c[p]) \in Seq(Line)
    BY <1>1
  <1> QED BY <1>1, <1>2

LEMMA ClientTypeOK == ASSUME TypeOK, NEW c \in Clients, Client(c) PROVE TypeOK'
  <1> USE DEF connVars, netVars, serverVars, peerVars, Peers
  <1>1. CASE Connect(c)
    BY <1>1, ConnectTypeOK
  <1>2. CASE SendCommand(c)
    <2>1. c2s' \in [Peers -> Seq(AllCommands)]
      BY <1>2, PeersAssumption DEF SendCommand, TypeOK
    <2> QED BY <1>2, <2>1 DEF SendCommand, TypeOK
  <1>3. CASE ReadLine(c)
    <2>1. s2c' \in [Peers -> Seq(Line)]
      BY <1>3, TailType DEF ReadLine
    <2>2. PICK v : verdict' = [verdict EXCEPT ![c] = v] /\ v \in {"err", "ok", verdict[c]}
      BY <1>3, Zenon DEF ReadLine
    <2>3. cpc' = [cpc EXCEPT ![c] = "connected"] \/ cpc' = cpc
      BY <1>3 DEF ReadLine
    <2>4. verdict' \in [Peers -> {"none", "ok", "err", "lost"}]
      BY <2>2 DEF TypeOK
    <2>5. cpc' \in [Peers -> {"start", "connected", "waiting", "exited"}]
      BY <2>3 DEF TypeOK
    <2>6. UNCHANGED <<serverVars, backlog, dbacklog, c2s, sent, result>>
      BY <1>3 DEF ReadLine
    <2> QED BY <2>1, <2>4, <2>5, <2>6 DEF TypeOK
  <1>4. CASE Leave(c)
    BY <1>4 DEF Leave, TypeOK
  <1>5. CASE Lost(c)
    BY <1>5 DEF Lost, TypeOK
  <1> QED BY <1>1, <1>2, <1>3, <1>4, <1>5 DEF Client

LEMMA DebugClientTypeOK == ASSUME TypeOK, NEW d \in DebugClients, DebugClient(d) PROVE TypeOK'
  <1> USE DEF connVars, netVars, serverVars, peerVars, Peers
  <1>1. CASE Connect(d)
    BY <1>1, ConnectTypeOK
  <1>2. CASE DebugSend(d)
    <2>1. "debugLine" \in AllCommands
      BY DEF AllCommands, LocalCommands
    <2>2. c2s \in [Peers -> Seq(AllCommands)] /\ Append(c2s[d], "debugLine") \in Seq(AllCommands)
      BY <2>1 DEF TypeOK
    <2>3. c2s' \in [Peers -> Seq(AllCommands)]
      BY <1>2, <2>2 DEF DebugSend
    <2>4. sent' \in [Peers -> Nat]
      BY <1>2 DEF DebugSend, TypeOK
    <2>5. UNCHANGED <<serverVars, backlog, dbacklog, s2c, cpc, verdict, result>>
      BY <1>2 DEF DebugSend
    <2>6. UNCHANGED <<fdtab, watchset, inset, cmd_active, deb_active, S_sock, stdoutOpen,
                      pc, in, out, mdsUp>>
      BY <2>5
    <2> QED BY <2>3, <2>4, <2>5, <2>6 DEF TypeOK
  <1>3. CASE DebugReceive(d)
    <2>1. s2c' \in [Peers -> Seq(Line)]
      BY <1>3, TailType DEF DebugReceive
    <2> QED BY <1>3, <2>1 DEF DebugReceive, TypeOK
  <1>4. CASE DebugLeave(d)
    BY <1>4 DEF DebugLeave, TypeOK
  <1>5. CASE Lost(d)
    BY <1>5 DEF Lost, TypeOK
  <1> QED BY <1>1, <1>2, <1>3, <1>4, <1>5 DEF DebugClient

LEMMA NextTypeOK == TypeOK /\ [Next]_vars => TypeOK'
  <1> SUFFICES ASSUME TypeOK, [Next]_vars PROVE TypeOK'
    OBVIOUS
  <1>1. CASE Server
    BY <1>1, LoopTypeOK, DebuggingTypeOK, ExecuteTypeOK DEF Server
  <1>2. CASE ConnectEnds \/ RequestEnds \/ MdsTimeout \/ MdsHangUp
    BY <1>2, AnswerTypeOK
  <1>3. CASE \E c \in Clients : Client(c)
    BY <1>3, ClientTypeOK
  <1>4. CASE \E d \in DebugClients : DebugClient(d)
    BY <1>4, DebugClientTypeOK
  <1>5. ASSUME NEW p \in Peers, Kill(p) PROVE TypeOK'
    BY <1>5 DEF Kill, TypeOK, connVars, netVars, serverVars, peerVars
  <1>6. CASE UNCHANGED vars
    BY <1>6 DEF vars, connVars, netVars, peerVars, TypeOK
  <1>7. CASE Rest
    BY <1>6, <1>7 DEF Rest
  <1> QED BY <1>1, <1>2, <1>3, <1>4, <1>5, <1>6, <1>7 DEF Next

\* Every variable of the server, the sockets and the clients keeps its type: no
\* handler leaves a descriptor number, a buffer or a queue it cannot name.
THEOREM TypeCorrect == Spec => []TypeOK
  <1>1. Init => TypeOK
    BY InitTypeOK
  <1>2. TypeOK /\ [Next]_vars => TypeOK'
    BY NextTypeOK
  <1> QED BY <1>1, <1>2, PTL DEF Spec

-----------------------------------------------------------------------------
(* Who gets which line.  What closes S_sock and keeps its number            *)
(* (mdsDisconnect, a header that makes no sense) breaks it: run             *)
(* v_disconnect shows how.  What closes stdout (mdsValue -o -) puts the     *)
(* next connection on descriptor 1, from which a debug connection pushes    *)
(* it.  Without them it holds with every other command.                     *)

Closers == {"mdsDisconnect", "mdsValueStdout"}
NumbersTrusted == Commands \cap Closers = {} /\ ~BadHeaders

\* The standard descriptors are never handed out again.
StdKept ==
  /\ fdtab[0] = "std"
  /\ \A fd \in {1, 2} : fdtab[fd] \in {"std"} \cup DebugClients
  /\ deb_active \notin {1, 2}

\* S_sock is the daemon's connection, and the daemon has no other; while a
\* connect is under way the socket is still a local variable.
SockIsMds ==
  /\ Connecting => fdtab[in.fd] = "mds"
  /\ ~Connecting /\ S_sock \in Fds \ {0} => fdtab[S_sock] = "mds"
  /\ Asking => S_sock \in Fds \ {0}
  /\ \A fd \in Fds : fdtab[fd] = "mds" => fd = IF Connecting THEN in.fd ELSE S_sock

\* command.fd_active and debug.fd_active name connections of their own kind, and
\* no other descriptor names a client.
ActiveIsClient ==
  /\ \A fd \in Fds : fdtab[fd] \in Clients => fd = cmd_active
  /\ cmd_active # 0 => fdtab[cmd_active] \in Clients
  /\ deb_active # 0 => fdtab[deb_active] \in DebugClients

\* While a command runs, its connection stays the active one ...
RequesterKept ==
  pc \in {"execute", "mds"} => in.from \in Clients /\ in.from = fdtab[cmd_active]

\* ... and until its reply is flushed.
ReplyKept == out.text # "none" => pc = "flush" /\ out.to = fdtab[cmd_active]

NoCloser ==
  /\ \A p \in Peers : \A i \in DOMAIN c2s[p] : c2s[p][i] \notin Closers
  /\ in.cmd \notin Closers

Numbers == StdKept /\ SockIsMds /\ ActiveIsClient
Kept == Numbers /\ RequesterKept /\ ReplyKept /\ NoCloser /\ ReplyToRequester
IInv == TypeOK /\ Kept

LEMMA PairElement ==
  ASSUME NEW a, NEW b, NEW i \in DOMAIN <<a, b>> PROVE <<a, b>>[i] \in {a, b}
  OBVIOUS

LEMMA TailElement ==
  ASSUME NEW S, NEW seq \in Seq(S), seq # <<>>, NEW i \in DOMAIN Tail(seq)
  PROVE  i + 1 \in DOMAIN seq /\ Tail(seq)[i] = seq[i + 1]
  OBVIOUS

LEMMA ConcatElement ==
  ASSUME NEW S, NEW s \in Seq(S), NEW t \in Seq(S), NEW i \in DOMAIN (s \o t)
  PROVE  \/ i \in DOMAIN s /\ (s \o t)[i] = s[i]
         \/ \E j \in DOMAIN t : (s \o t)[i] = t[j]
  <1>1. CASE i \in DOMAIN s
    BY <1>1
  <1>2. CASE i \notin DOMAIN s
    <2>1. i - Len(s) \in DOMAIN t /\ (s \o t)[i] = t[i - Len(s)]
      BY <1>2
    <2> QED BY <2>1
  <1> QED BY <1>1, <1>2

LEMMA InitIInv == Init => IInv
  <1> SUFFICES ASSUME Init PROVE IInv
    OBVIOUS
  <1>1. TypeOK
    BY InitTypeOK
  <1> USE SizesAssumption, PeersAssumption
      DEF Init, Fds, DListenFd, CListenFd, Things, Connecting, Asking
  <1>2. StdKept
    BY DEF StdKept
  <1>3. SockIsMds
    BY DEF SockIsMds
  <1>4. ActiveIsClient
    BY DEF ActiveIsClient, Peers
  <1>5. RequesterKept /\ ReplyKept /\ NoCloser
    BY DEF RequesterKept, ReplyKept, NoCloser, Closers
  <1>6. ReplyToRequester
    BY DEF ReplyToRequester, Peers
  <1> QED BY <1>1, <1>2, <1>3, <1>4, <1>5, <1>6 DEF IInv, Kept, Numbers

\* Lines delivered to their own addressee keep ReplyToRequester ...
LEMMA DeliverSafe ==
  ASSUME TypeOK, ReplyToRequester, NEW obj, NEW lines \in Seq(Line),
         obj \in Clients => \A i \in DOMAIN lines :
                              lines[i].to = obj /\ lines[i].kind \notin {"mdsmsg", "prompt"},
         s2c' = Deliver(obj, lines)
  PROVE  ReplyToRequester'
  <1> SUFFICES ASSUME NEW c \in Clients, NEW i \in DOMAIN s2c'[c]
               PROVE  s2c'[c][i].to = c /\ s2c'[c][i].kind \notin {"mdsmsg", "prompt"}
    BY DEF ReplyToRequester
  <1>0. s2c \in [Peers -> Seq(Line)] /\ c \in Peers
    BY DEF TypeOK, Peers
  <1>1. CASE s2c'[c] = s2c[c]
    BY <1>1 DEF ReplyToRequester
  <1>2. CASE obj = c /\ s2c'[c] = s2c[c] \o lines
    <2>1. s2c[c] \in Seq(Line)
      BY <1>0
    <2> DEFINE old == s2c[c]
    <2>3. i \in DOMAIN (old \o lines) /\ s2c'[c] = old \o lines /\ old \in Seq(Line)
      BY <1>2, <2>1
    <2>4. \A k \in DOMAIN old : old[k].to = c /\ old[k].kind \notin {"mdsmsg", "prompt"}
      BY DEF ReplyToRequester
    <2> HIDE DEF old
    <2>5. \/ i \in DOMAIN old /\ s2c'[c][i] = old[i]
          \/ \E j \in DOMAIN lines : s2c'[c][i] = lines[j]
      BY <2>3, ConcatElement
    <2> QED BY <1>2, <2>4, <2>5
  <1> QED BY <1>0, <1>1, <1>2 DEF Deliver

\* ... and so does taking the first one away.
LEMMA TailSafe ==
  ASSUME TypeOK, ReplyToRequester, NEW p \in Peers, s2c[p] # <<>>,
         s2c' = [s2c EXCEPT ![p] = Tail(@)]
  PROVE  ReplyToRequester'
  <1> SUFFICES ASSUME NEW c \in Clients, NEW i \in DOMAIN s2c'[c]
               PROVE  s2c'[c][i].to = c /\ s2c'[c][i].kind \notin {"mdsmsg", "prompt"}
    BY DEF ReplyToRequester
  <1>0. s2c \in [Peers -> Seq(Line)] /\ c \in Peers
    BY DEF TypeOK, Peers
  <1>1. CASE c # p
    BY <1>0, <1>1 DEF ReplyToRequester
  <1>2. CASE c = p
    <2>1. s2c[c] \in Seq(Line) /\ s2c'[c] = Tail(s2c[c]) /\ s2c[c] # <<>>
      BY <1>0, <1>2
    <2>2. i + 1 \in DOMAIN s2c[c] /\ s2c'[c][i] = s2c[c][i + 1]
      BY <2>1, TailElement
    <2> QED BY <2>2 DEF ReplyToRequester
  <1> QED BY <1>1, <1>2

\* Reading a command, and sending another one, keep the closers out.
LEMMA TakenSafe ==
  ASSUME TypeOK, NoCloser, NEW p \in Peers, c2s[p] # <<>>,
         c2s' = [c2s EXCEPT ![p] = Tail(@)], in'.cmd \in {in.cmd, Head(c2s[p])}
  PROVE  NoCloser'
  <1>0. c2s \in [Peers -> Seq(AllCommands)]
    BY DEF TypeOK
  <1>1. c2s[p] \in Seq(AllCommands)
    BY <1>0
  <1>2. in'.cmd \notin Closers
    BY <1>1 DEF NoCloser
  <1>3. ASSUME NEW q \in Peers, NEW i \in DOMAIN c2s'[q] PROVE c2s'[q][i] \notin Closers
    <2>1. CASE q # p
      BY <1>0, <1>3, <2>1 DEF NoCloser
    <2>2. CASE q = p
      <3>1. i + 1 \in DOMAIN c2s[p] /\ c2s'[q][i] = c2s[p][i + 1]
        BY <1>0, <1>1, <1>3, <2>2, TailElement
      <3> QED BY <3>1 DEF NoCloser
    <2> QED BY <2>1, <2>2
  <1> QED BY <1>2, <1>3 DEF NoCloser

LEMMA SentSafe ==
  ASSUME TypeOK, NoCloser, NEW p \in Peers, NEW k \in AllCommands, k \notin Closers,
         c2s' = [c2s EXCEPT ![p] = Append(@, k)], in' = in
  PROVE  NoCloser'
  <1>0. c2s \in [Peers -> Seq(AllCommands)]
    BY DEF TypeOK
  <1>1. ASSUME NEW q \in Peers, NEW i \in DOMAIN c2s'[q] PROVE c2s'[q][i] \notin Closers
    <2>1. CASE q # p
      BY <1>0, <1>1, <2>1 DEF NoCloser
    <2>2. CASE q = p
      <3>1. c2s[p] \in Seq(AllCommands) /\ c2s'[q] = Append(c2s[p], k)
        BY <1>0, <2>2
      <3>2. \/ i \in DOMAIN c2s[p] /\ c2s'[q][i] = c2s[p][i]
            \/ c2s'[q][i] = k
        BY <1>1, <3>1
      <3> QED BY <3>2 DEF NoCloser
    <2> QED BY <2>1, <2>2
  <1> QED BY <1>1 DEF NoCloser

\* Steps that change no number, no command and no reply keep what says so.
LEMMA SameNumbers ==
  ASSUME IInv, UNCHANGED <<fdtab, cmd_active, deb_active, S_sock, in>>,
         pc \notin {"execute", "mds"}, pc' \notin {"execute", "mds"}
  PROVE  Numbers' /\ RequesterKept'
  BY DEF IInv, Kept, Numbers, StdKept, SockIsMds, ActiveIsClient, RequesterKept, Connecting, Asking

LEMMA SameServer ==
  ASSUME IInv, UNCHANGED <<fdtab, cmd_active, deb_active, S_sock, pc, in, out>>
  PROVE  Numbers' /\ RequesterKept' /\ ReplyKept'
  BY DEF IInv, Kept, Numbers, StdKept, SockIsMds, ActiveIsClient, RequesterKept, ReplyKept,
         Connecting, Asking

LEMMA DieKept == ASSUME IInv, Die, pc \notin {"flush", "mds"} PROVE Kept'
  <1> USE DEF IInv, Kept
  <1>1. UNCHANGED <<fdtab, cmd_active, deb_active, S_sock, in, out, c2s, s2c>> /\ pc' = "dead"
    BY DEF Die, connVars, netVars
  <1>2. StdKept' /\ ActiveIsClient'
    BY <1>1 DEF Numbers, StdKept, ActiveIsClient
  <1>a. SockIsMds'
    BY <1>1 DEF Numbers, SockIsMds, Connecting, Asking
  <1>3. RequesterKept' /\ ReplyKept'
    BY <1>1 DEF RequesterKept, ReplyKept
  <1>4. NoCloser' /\ ReplyToRequester'
    BY <1>1 DEF NoCloser, ReplyToRequester
  <1> QED BY <1>2, <1>3, <1>4, <1>a DEF Numbers

\* What iobFlush() writes on the active connection is for the client there.
LEMMA FlushKept == ASSUME IInv, Flush PROVE Kept'
  <1> USE DEF connVars, netVars, peerVars, Go
  <1>1. Numbers' /\ RequesterKept'
    BY SameNumbers DEF Flush
  <1>2. ReplyKept'
    BY DEF Flush, ReplyKept, IInv, Kept, TypeOK, Texts
  <1>3. NoCloser'
    BY DEF Flush, NoCloser, IInv, Kept
  <1>4. CASE out.text = "none"
    <2>1. ReplyToRequester'
      BY <1>4 DEF Flush, ReplyToRequester, IInv, Kept
    <2> QED BY <1>1, <1>2, <1>3, <2>1 DEF Kept
  <1>5. CASE out.text # "none"
    <2>1. out.to = fdtab[cmd_active]
      BY <1>5 DEF ReplyKept, IInv, Kept
    <2>0. PICK k \in {"EOF", "EOF ERR", "glued"} : ReplyLines = <<ReplyLine("text"), ReplyLine(k)>>
      BY DEF ReplyLines
    <2>a. \A m \in {"text", k} : /\ ReplyLine(m).to = fdtab[cmd_active]
                                 /\ ReplyLine(m).kind \notin {"mdsmsg", "prompt"}
      BY <2>1 DEF ReplyLine
    <2>2. \A i \in DOMAIN ReplyLines : /\ ReplyLines[i].to = fdtab[cmd_active]
                                       /\ ReplyLines[i].kind \notin {"mdsmsg", "prompt"}
      <3>1. \A i \in DOMAIN ReplyLines : ReplyLines[i] \in {ReplyLine("text"), ReplyLine(k)}
        BY <2>0, PairElement
      <3> QED BY <3>1, <2>a
    <2>3. s2c' = Deliver(fdtab[cmd_active], ReplyLines)
      BY <1>5 DEF Flush
    <2>4. ReplyToRequester'
      <3>1. ReplyLines \in Seq(Line)
        BY ReplyLinesType DEF IInv
      <3> QED BY <2>2, <2>3, <3>1, DeliverSafe DEF IInv, Kept
    <2> QED BY <1>1, <1>2, <1>3, <2>4 DEF Kept
  <1> QED BY <1>4, <1>5

LEMMA HangUpNumbers ==
  ASSUME IInv, NEW active \in {cmd_active, deb_active}, HangUp(active),
         \/ active = cmd_active /\ cmd_active' = 0 /\ deb_active' = deb_active
         \/ active = deb_active /\ deb_active' = 0 /\ cmd_active' = cmd_active,
         pc \notin {"execute", "mds"}, pc' \notin {"execute", "mds"}
  PROVE  Numbers'
  <1>1. /\ active # 0 /\ fdtab' = [fdtab EXCEPT ![active] = "free"]
        /\ UNCHANGED <<S_sock, in>>
    BY DEF HangUp, DataPending
  <1>2. fdtab \in [Fds -> Objects] /\ active \in Fds /\ fdtab[active] \in Peers
    BY <1>1 DEF IInv, TypeOK, Kept, Numbers, ActiveIsClient, Peers
  <1> USE <1>1, <1>2, PeersAssumption DEF IInv, Kept, Numbers, Things, Peers
  <1>3. StdKept'
    BY DEF StdKept, ActiveIsClient
  <1>4. SockIsMds'
    BY DEF SockIsMds, Connecting, Asking
  <1>5. ActiveIsClient'
    BY DEF ActiveIsClient
  <1> QED BY <1>3, <1>4, <1>5

\* accept() gives a number that named nothing.
LEMMA AcceptNumbers ==
  ASSUME IInv, AcceptCommand PROVE Numbers'
  <1>1. PICK fd \in Fds : /\ fdtab[fd] = "free" /\ cmd_active' = fd
                          /\ fdtab' = [fdtab EXCEPT ![fd] = Head(backlog)]
    BY DEF AcceptCommand, LowestFree
  <1>2. Head(backlog) \in Clients
    BY DEF AcceptCommand, IInv, TypeOK
  <1>3. /\ UNCHANGED <<deb_active, S_sock, in>> /\ cmd_active = 0
        /\ pc = "dispatch" /\ pc' = "debug"
    BY DEF AcceptCommand
  <1>4. fdtab \in [Fds -> Objects]
    BY DEF IInv, TypeOK
  <1> USE <1>1, <1>2, <1>3, <1>4, PeersAssumption DEF IInv, Kept, Numbers, Things, Peers
  <1>5. StdKept'
    BY DEF StdKept
  <1>6. SockIsMds'
    BY DEF SockIsMds, Connecting, Asking
  <1>7. ActiveIsClient'
    BY DEF ActiveIsClient, StdKept
  <1> QED BY <1>5, <1>6, <1>7

\* Three numbers name an accepted debug connection: its own, 1 and 2.
LEMMA DebugAcceptTable ==
  ASSUME IInv, DebugAccept
  PROVE  /\ Head(dbacklog) \in DebugClients
         /\ \E fd \in Fds \ {0, 1, 2} :
              /\ fdtab[fd] = "free" /\ deb_active' = fd
              /\ fdtab' = [n \in Fds |-> IF n \in {fd, 1, 2} THEN Head(dbacklog) ELSE fdtab[n]]
  <1>1. PICK fd \in Fds :
          /\ fdtab[fd] = "free" /\ deb_active' = fd
          /\ fdtab' = Redirect(Redirect([fdtab EXCEPT ![fd] = Head(dbacklog)], fd, 1), fd, 2)
    BY DEF DebugAccept, LowestFree
  <1>2. Head(dbacklog) \in DebugClients
    BY DEF DebugAccept, IInv, TypeOK
  <1>3. fdtab \in [Fds -> Objects] /\ {1, 2} \subseteq Fds
    BY SizesAssumption DEF IInv, TypeOK, Fds, CListenFd
  <1>4. fd # 0
    BY <1>1 DEF IInv, Kept, Numbers, StdKept
  <1>5. fd \notin {1, 2}
    BY <1>1, PeersAssumption DEF IInv, Kept, Numbers, StdKept, Things, Peers
  <1>6. fdtab' = [n \in Fds |-> IF n \in {fd, 1, 2} THEN Head(dbacklog) ELSE fdtab[n]]
    BY <1>1, <1>3, <1>5 DEF Redirect
  <1> QED BY <1>1, <1>2, <1>4, <1>5, <1>6

LEMMA DebugAcceptNumbers ==
  ASSUME IInv, DebugAccept PROVE Numbers'
  <1>1. PICK fd \in Fds \ {0, 1, 2} :
          /\ fdtab[fd] = "free" /\ deb_active' = fd
          /\ fdtab' = [n \in Fds |-> IF n \in {fd, 1, 2} THEN Head(dbacklog) ELSE fdtab[n]]
    BY DebugAcceptTable
  <1>2. Head(dbacklog) \in DebugClients
    BY DebugAcceptTable
  <1>3. UNCHANGED <<cmd_active, S_sock, in>> /\ pc = "debug" /\ pc' = "flush"
    BY DEF DebugAccept, Go
  <1>4. fdtab \in [Fds -> Objects] /\ {0, 1, 2} \subseteq Fds /\ cmd_active \in Fds
    BY SizesAssumption DEF IInv, TypeOK, Fds, CListenFd
  <1>5. StdKept'
    <2>1. fdtab'[0] = "std" /\ fdtab'[1] = Head(dbacklog) /\ fdtab'[2] = Head(dbacklog)
      BY <1>1, <1>4 DEF IInv, Kept, Numbers, StdKept
    <2> QED BY <1>1, <1>2, <2>1 DEF StdKept
  <1> USE <1>1, <1>2, <1>3, <1>4, PeersAssumption DEF IInv, Kept, Numbers, Things, Peers
  <1>6. SockIsMds'
    BY DEF SockIsMds, Connecting, Asking, StdKept
  <1>7. ActiveIsClient'
    BY DEF ActiveIsClient, StdKept
  <1> QED BY <1>5, <1>6, <1>7

\* The loop and the command side of new_state().
LEMMA LoopKept == ASSUME IInv, Loop \/ Commanding PROVE Kept'
  <1> USE DEF connVars, netVars, peerVars, Go
  <1>1. CASE Flush
    BY <1>1, FlushKept
  <1>2. CASE SelectFails
    BY <1>2, DieKept DEF SelectFails
  <1>3. CASE Select
    <2>1. Numbers' /\ RequesterKept'
      BY <1>3, SameNumbers DEF Select
    <2>2. ReplyKept' /\ NoCloser' /\ ReplyToRequester'
      BY <1>3 DEF Select, IInv, Kept, ReplyKept, NoCloser, ReplyToRequester
    <2> QED BY <2>1, <2>2 DEF Kept
  <1>4. CASE ReadCommand
    <2>1. PICK p \in Peers : /\ p = fdtab[cmd_active] /\ c2s[p] # <<>>
                             /\ in' = [in EXCEPT !.cmd = Head(c2s[p]), !.from = p]
                             /\ c2s' = [c2s EXCEPT ![p] = Tail(@)]
      BY <1>4 DEF ReadCommand
    <2>2. in'.from = p /\ in'.cmd = Head(c2s[p]) /\ in'.fd = in.fd
      BY <2>1 DEF IInv, TypeOK
    <2>3. p \in Clients
      BY <1>4, <2>1 DEF ReadCommand, DataPending, IInv, Kept, Numbers, ActiveIsClient
    <2>4. /\ UNCHANGED <<fdtab, cmd_active, deb_active, S_sock, out, s2c>>
          /\ pc = "dispatch" /\ pc' = "execute"
      BY <1>4 DEF ReadCommand
    <2>5. StdKept' /\ ActiveIsClient'
      BY <2>4 DEF IInv, Kept, Numbers, StdKept, ActiveIsClient
    <2>6. SockIsMds'
      BY <2>4 DEF IInv, Kept, Numbers, SockIsMds, Connecting, Asking
    <2>7. RequesterKept' /\ ReplyKept'
      BY <2>1, <2>2, <2>3, <2>4 DEF IInv, Kept, RequesterKept, ReplyKept
    <2>8. NoCloser'
      BY <2>1, <2>2, TakenSafe DEF IInv, Kept
    <2>9. ReplyToRequester'
      BY <2>4 DEF IInv, Kept, ReplyToRequester
    <2> QED BY <2>5, <2>6, <2>7, <2>8, <2>9 DEF Kept, Numbers
  <1>5. CASE CommandReset
    BY <1>5, DieKept DEF CommandReset, ReadReset
  <1>6. CASE CommandHangUp
    <2>1. Numbers'
      BY <1>6, HangUpNumbers DEF CommandHangUp
    <2>2. /\ UNCHANGED <<in, out, c2s, s2c>> /\ pc = "dispatch" /\ pc' = "flush"
      BY <1>6 DEF CommandHangUp, HangUp
    <2>3. RequesterKept' /\ ReplyKept' /\ NoCloser' /\ ReplyToRequester'
      BY <2>2 DEF IInv, Kept, RequesterKept, ReplyKept, NoCloser, ReplyToRequester
    <2> QED BY <2>1, <2>3 DEF Kept
  <1>7. CASE AcceptCommand
    <2>1. /\ UNCHANGED <<in, out, c2s, s2c>> /\ pc = "dispatch" /\ pc' = "debug"
      BY <1>7 DEF AcceptCommand
    <2>2. RequesterKept' /\ ReplyKept' /\ NoCloser' /\ ReplyToRequester'
      BY <2>1 DEF IInv, Kept, RequesterKept, ReplyKept, NoCloser, ReplyToRequester
    <2> QED BY <1>7, <2>2, AcceptNumbers DEF Kept
  <1>8. CASE CommandAcceptAborts
    BY <1>8, DieKept DEF CommandAcceptAborts
  <1>9. CASE NoCommand
    <2>1. Numbers' /\ RequesterKept'
      BY <1>9, SameNumbers DEF NoCommand
    <2>2. ReplyKept' /\ NoCloser' /\ ReplyToRequester'
      BY <1>9 DEF NoCommand, IInv, Kept, ReplyKept, NoCloser, ReplyToRequester
    <2> QED BY <2>1, <2>2 DEF Kept
  <1> QED BY <1>1, <1>2, <1>3, <1>4, <1>5, <1>6, <1>7, <1>8, <1>9 DEF Loop, Commanding

\* Debug output goes where descriptor 1 points: never to a client.
LEMMA PromptsSafe ==
  ASSUME IInv, NEW obj, obj \notin Clients, NEW n \in Nat, s2c' = Prompts(obj, n)
  PROVE  ReplyToRequester'
  <1>1. CASE ~(stdoutOpen /\ obj \in Peers)
    <2>1. s2c' = s2c
      BY <1>1, Zenon DEF Prompts
    <2> QED BY <2>1 DEF IInv, Kept, ReplyToRequester
  <1>2. CASE stdoutOpen /\ obj \in Peers
    <2>1. Prompt(obj) \in Line
      BY <1>2 DEF Prompt, Line
    <2>2. [i \in 1..n |-> Prompt(obj)] \in Seq(Line)
      BY <2>1
    <2>3. s2c' = Deliver(obj, [i \in 1..n |-> Prompt(obj)])
      BY <1>2, Zenon DEF Prompts
    <2> QED BY <2>2, <2>3, DeliverSafe DEF IInv, Kept
  <1> QED BY <1>1, <1>2

LEMMA DebuggingKept == ASSUME IInv, Debugging PROVE Kept'
  <1> USE DEF connVars, netVars, peerVars, Go
  <1>1. CASE DebugRead
    <2>1. Numbers' /\ RequesterKept'
      BY <1>1, SameNumbers DEF DebugRead
    <2>2. /\ UNCHANGED <<fdtab, cmd_active, in, out>> /\ pc = "debug" /\ pc' = "flush"
          /\ s2c' = Prompts(fdtab[1], 2)
      BY <1>1 DEF DebugRead
    <2>3. ReplyKept'
      BY <2>2 DEF IInv, Kept, ReplyKept
    <2>4. PICK p \in Peers : c2s[p] # <<>> /\ c2s' = [c2s EXCEPT ![p] = Tail(@)]
      BY <1>1 DEF DebugRead
    <2>5. NoCloser'
      BY <2>2, <2>4, TakenSafe DEF IInv, Kept
    <2>6. fdtab[1] \notin Clients
      BY PeersAssumption DEF IInv, Kept, Numbers, StdKept, Peers, Things
    <2>7. ReplyToRequester'
      BY <2>2, <2>6, PromptsSafe
    <2> QED BY <2>1, <2>3, <2>5, <2>7 DEF Kept
  <1>2. CASE DebugReset
    BY <1>2, DieKept DEF DebugReset, ReadReset
  <1>3. CASE DebugHangUp
    <2>1. Numbers'
      BY <1>3, HangUpNumbers DEF DebugHangUp
    <2>2. /\ UNCHANGED <<in, out, c2s, s2c>> /\ pc = "debug" /\ pc' = "flush"
      BY <1>3 DEF DebugHangUp, HangUp
    <2>3. RequesterKept' /\ ReplyKept' /\ NoCloser' /\ ReplyToRequester'
      BY <2>2 DEF IInv, Kept, RequesterKept, ReplyKept, NoCloser, ReplyToRequester
    <2> QED BY <2>1, <2>3 DEF Kept
  <1>4. CASE DebugAccept
    <2>1. /\ UNCHANGED <<in, out, c2s>> /\ pc = "debug" /\ pc' = "flush"
          /\ s2c' = Prompts(Head(dbacklog), 1)
      BY <1>4 DEF DebugAccept
    <2>2. RequesterKept' /\ ReplyKept' /\ NoCloser'
      BY <2>1 DEF IInv, Kept, RequesterKept, ReplyKept, NoCloser
    <2>3. Head(dbacklog) \in DebugClients
      BY <1>4 DEF DebugAccept, IInv, TypeOK
    <2>4. ReplyToRequester'
      BY <2>1, <2>3, PromptsSafe, PeersAssumption
    <2> QED BY <1>4, <2>2, <2>4, DebugAcceptNumbers DEF Kept
  <1>5. CASE DebugAcceptAborts
    BY <1>5, DieKept DEF DebugAcceptAborts
  <1>6. CASE NoDebug
    <2>1. Numbers' /\ RequesterKept'
      BY <1>6, SameNumbers DEF NoDebug
    <2>2. ReplyKept' /\ NoCloser' /\ ReplyToRequester'
      BY <1>6 DEF NoDebug, IInv, Kept, ReplyKept, NoCloser, ReplyToRequester
    <2> QED BY <2>1, <2>2 DEF Kept
  <1> QED BY <1>1, <1>2, <1>3, <1>4, <1>5, <1>6 DEF Debugging

\* Closing S_sock while it is the daemon's closes that one number.
LEMMA CloseTrusted ==
  ASSUME IInv, ~Connecting, S_sock \in Fds \ {0}
  PROVE  CloseSocket(S_sock) = [fdtab EXCEPT ![S_sock] = "free"]
  <1>1. fdtab[S_sock] = "mds" /\ fdtab \in [Fds -> Objects]
    BY DEF IInv, Kept, Numbers, SockIsMds, TypeOK
  <1>2. fdtab[S_sock] \notin Peers
    BY <1>1, PeersAssumption DEF Things
  <1> QED BY <1>1, <1>2 DEF CloseSocket

\* Without S_sock nothing names the daemon, and nothing else has changed.
LEMMA WithoutSockNumbers ==
  ASSUME IInv, pc = "execute"
  PROVE  /\ WithoutSock \in [Fds -> Objects]
         /\ \A fd \in Fds : WithoutSock[fd] = IF fdtab[fd] = "mds" THEN "free" ELSE fdtab[fd]
  <1>1. WithoutSock \in [Fds -> Objects] /\ S_sock \in Fds \cup {NoSock}
    BY WithoutSockType DEF IInv, TypeOK
  <1>2. /\ fdtab \in [Fds -> Objects] /\ fdtab[0] = "std" /\ ~Connecting
        /\ \A fd \in Fds : fdtab[fd] = "mds" => fd = S_sock
        /\ S_sock \in Fds \ {0} => fdtab[S_sock] = "mds"
    BY DEF IInv, TypeOK, Kept, Numbers, SockIsMds, StdKept, Connecting
  <1>3. CASE S_sock = 0
    BY <1>1, <1>2, <1>3 DEF WithoutSock
  <1>4. CASE S_sock = NoSock
    BY <1>1, <1>2, <1>4 DEF WithoutSock, CloseSocket, NoSock, Fds
  <1>5. CASE S_sock \in Fds \ {0}
    BY <1>1, <1>2, <1>5, CloseTrusted DEF WithoutSock
  <1> QED BY <1>1, <1>3, <1>4, <1>5

\* A handler that returns leaves its reply for the connection it came from.
LEMMA ReturnKept ==
  ASSUME IInv, pc \in {"execute", "mds"}, NEW text, NEW error, Return(text, error),
         cmd_active' = cmd_active, fdtab'[cmd_active] = fdtab[cmd_active]
  PROVE  pc' = "flush" /\ RequesterKept' /\ ReplyKept'
  BY DEF IInv, Kept, RequesterKept, ReplyKept, Return

LEMMA SameTable ==
  ASSUME IInv, UNCHANGED <<fdtab, cmd_active, deb_active>> PROVE StdKept' /\ ActiveIsClient'
  BY DEF IInv, Kept, Numbers, StdKept, ActiveIsClient

\* A handler that only prints.
LEMMA OnlyReturnKept ==
  ASSUME IInv, pc = "execute" \/ Asking, NEW text, NEW error, Return(text, error),
         UNCHANGED <<fdtab, cmd_active, deb_active, S_sock, in>>
  PROVE  Numbers' /\ RequesterKept' /\ ReplyKept'
  <1>1. pc \in {"execute", "mds"}
    BY DEF Asking
  <1>2. pc' = "flush" /\ RequesterKept' /\ ReplyKept'
    BY <1>1, ReturnKept
  <1>3. SockIsMds'
    BY <1>2 DEF IInv, Kept, Numbers, SockIsMds, Connecting, Asking
  <1> QED BY <1>2, <1>3, SameTable DEF Numbers

LEMMA SameData ==
  ASSUME IInv, UNCHANGED <<in, c2s, s2c>> PROVE NoCloser' /\ ReplyToRequester'
  BY DEF IInv, Kept, NoCloser, ReplyToRequester

\* A question goes to the daemon or nowhere.
LEMMA AskKept ==
  ASSUME IInv, pc = "execute", in.cmd # "mdsConnect", NEW tab \in [Fds -> Objects], Ask(tab),
         S_sock \in Fds \ {0} => tab[S_sock] = "mds", tab[0] = "std"
  PROVE  /\ c2s' = c2s /\ s2c' = s2c /\ ReplyToRequester'
         /\ \/ pc' = "mds" /\ S_sock \in Fds \ {0} /\ UNCHANGED out
            \/ Return("line", TRUE)
  <1> DEFINE obj == IF S_sock \in Fds THEN tab[S_sock] ELSE "free"
  <1>1. /\ SendTo(obj)
        /\ \/ Reachable(obj) /\ pc' = "mds" /\ UNCHANGED <<out, result>>
           \/ Return("line", TRUE)
    BY DEF Ask
  <1>2. obj \in {"mds", "std", "free"} /\ (obj = "mds" => S_sock \in Fds \ {0})
    BY DEF IInv, TypeOK
  <1> HIDE DEF obj
  <1>3. obj \notin Peers
    BY <1>2, PeersAssumption DEF Things
  <1>4. c2s' = c2s /\ s2c' = s2c
    BY <1>1, <1>3 DEF SendTo, Deliver
  <1>5. Reachable(obj) => S_sock \in Fds \ {0}
    BY <1>2, <1>3 DEF Reachable
  <1> QED BY <1>1, <1>4, <1>5 DEF IInv, Kept, ReplyToRequester

\* Tables that differ only in numbers that name no client, no debug connection and
\* no standard stream.
SameForPeers(tab) ==
  /\ tab \in [Fds -> Objects]
  /\ \A fd \in Fds : /\ fdtab[fd] \in Peers \cup {"std"} => tab[fd] = fdtab[fd]
                     /\ tab[fd] \in Peers => fdtab[fd] = tab[fd]

LEMMA PeersKept ==
  ASSUME IInv, SameForPeers(fdtab'), UNCHANGED <<cmd_active, deb_active>>
  PROVE  StdKept' /\ ActiveIsClient'
  <1>1. {0, 1, 2} \subseteq Fds /\ cmd_active \in Fds /\ deb_active \in Fds
    BY SizesAssumption DEF IInv, TypeOK, Fds, CListenFd
  <1>2. StdKept'
    BY <1>1 DEF IInv, Kept, Numbers, StdKept, SameForPeers, Peers
  <1>3. ActiveIsClient'
    BY <1>1 DEF IInv, Kept, Numbers, ActiveIsClient, SameForPeers, Peers
  <1> QED BY <1>2, <1>3

\* The requester's number keeps its object, too.
LEMMA RequesterNumber ==
  ASSUME IInv, pc \in {"execute", "mds"}, NEW tab, SameForPeers(tab)
  PROVE  tab[cmd_active] = fdtab[cmd_active]
  BY DEF IInv, TypeOK, Kept, RequesterKept, SameForPeers, Peers

\* A step that asks, with a descriptor table that may have gained a leak.
LEMMA AskedKept ==
  ASSUME IInv, pc = "execute", in.cmd # "mdsConnect", Ask(fdtab),
         SameForPeers(fdtab'), \A fd \in Fds : fdtab'[fd] = "mds" <=> fdtab[fd] = "mds",
         UNCHANGED <<cmd_active, deb_active, S_sock, in>>
  PROVE  Kept'
  <1>1. fdtab \in [Fds -> Objects] /\ ~Connecting
    BY DEF IInv, TypeOK, Connecting
  <1>2. /\ S_sock \in Fds \ {0} => fdtab[S_sock] = "mds"
        /\ fdtab[0] = "std"
        /\ \A fd \in Fds : fdtab[fd] = "mds" => fd = S_sock
    BY <1>1 DEF IInv, Kept, Numbers, SockIsMds, StdKept
  <1>3. /\ c2s' = c2s /\ ReplyToRequester'
        /\ \/ pc' = "mds" /\ S_sock \in Fds \ {0} /\ UNCHANGED out
           \/ Return("line", TRUE)
    BY <1>1, <1>2, AskKept
  <1>4. StdKept' /\ ActiveIsClient' /\ fdtab'[cmd_active] = fdtab[cmd_active]
    BY PeersKept, RequesterNumber
  <1>5. NoCloser'
    BY <1>3 DEF IInv, Kept, NoCloser
  <1>6. CASE pc' = "mds" /\ S_sock \in Fds \ {0} /\ UNCHANGED out
    <2>1. SockIsMds'
      BY <1>2, <1>6 DEF SockIsMds, Connecting, Asking
    <2>2. RequesterKept' /\ ReplyKept'
      BY <1>4, <1>6 DEF IInv, Kept, RequesterKept, ReplyKept
    <2> QED BY <1>3, <1>4, <1>5, <2>1, <2>2 DEF Kept, Numbers
  <1>7. CASE Return("line", TRUE)
    <2>1. pc' = "flush" /\ RequesterKept' /\ ReplyKept'
      BY <1>4, <1>7, ReturnKept
    <2>2. SockIsMds'
      BY <1>2, <2>1 DEF SockIsMds, Connecting, Asking
    <2> QED BY <1>3, <1>4, <1>5, <2>1, <2>2 DEF Kept, Numbers
  <1> QED BY <1>3, <1>6, <1>7

\* Closing the output closes a file and nothing else.
LEMMA OutputClosed ==
  ASSUME IInv
  PROVE  /\ SameForPeers(CloseOutput(fdtab))
         /\ \A n \in Fds : CloseOutput(fdtab)[n] = "mds" <=> fdtab[n] = "mds"
  <1>1. in.cmd # "mdsValueStdout" /\ fdtab \in [Fds -> Objects]
    BY DEF IInv, TypeOK, Kept, NoCloser, Closers
  <1>2. CloseOutput(fdtab) = [fd \in Fds |-> IF fdtab[fd] = "file" THEN "free" ELSE fdtab[fd]]
    BY <1>1 DEF CloseOutput
  <1> QED BY <1>1, <1>2, PeersAssumption DEF SameForPeers, Things, Objects

\* The handlers, without the closers.
LEMMA ExecuteKept == ASSUME IInv, Execute PROVE Kept'
  <1> USE DEF connVars, netVars, peerVars, Executing
  <1>0. pc = "execute"
    BY DEF Execute, DoHelp, DoComment, DoUnknown, DoDisconnect, BeginConnect,
           ConnectFailsEarly, DoRequest, DoValueFile, ValueFileFails, DoSetEvent, DoPutFile,
           PutFileAborted, PutStartCrashes
  <1>a. ASSUME NEW text, NEW error, Return(text, error),
               UNCHANGED <<connVars, in, c2s, s2c>>
        PROVE  Kept'
    <2>1. Numbers' /\ RequesterKept' /\ ReplyKept'
      BY <1>0, <1>a, OnlyReturnKept
    <2> QED BY <1>a, <2>1, SameData DEF Kept
  <1>1. CASE DoHelp
    BY <1>a, <1>1 DEF DoHelp
  <1>2. CASE DoComment
    BY <1>a, <1>2 DEF DoComment
  <1>3. CASE DoUnknown
    BY <1>0, <1>3, DieKept DEF DoUnknown
  <1>4. CASE DoDisconnect
    BY <1>4 DEF DoDisconnect, IInv, Kept, NoCloser, Closers
  <1>5. CASE BeginConnect
    <2>1. PICK fd \in Fds : /\ WithoutSock[fd] = "free"
                            /\ fdtab' = [WithoutSock EXCEPT ![fd] = "mds"]
                            /\ in' = [in EXCEPT !.fd = fd]
      BY <1>5 DEF BeginConnect, LowestFree
    <2>2. /\ in'.cmd = "mdsConnect" /\ in'.from = in.from /\ in'.fd = fd /\ pc' = "mds"
          /\ UNCHANGED <<cmd_active, deb_active, S_sock, out, c2s, s2c>>
      BY <1>5, <2>1 DEF BeginConnect, IInv, TypeOK
    <2>3. /\ SameForPeers(fdtab')
          /\ \A n \in Fds : fdtab'[n] = "mds" <=> n = fd
      BY <1>0, <2>1, WithoutSockNumbers, PeersAssumption DEF SameForPeers, Things, Objects
    <2>4. StdKept' /\ ActiveIsClient' /\ fdtab'[cmd_active] = fdtab[cmd_active]
      BY <1>0, <2>2, <2>3, PeersKept, RequesterNumber
    <2>5. SockIsMds'
      BY <2>2, <2>3 DEF SockIsMds, Connecting, Asking
    <2>6. RequesterKept' /\ ReplyKept'
      BY <1>0, <2>2, <2>4 DEF IInv, Kept, RequesterKept, ReplyKept
    <2>7. NoCloser' /\ ReplyToRequester'
      BY <2>2 DEF IInv, Kept, NoCloser, Closers, ReplyToRequester
    <2> QED BY <2>4, <2>5, <2>6, <2>7 DEF Kept, Numbers
  <1>6. CASE ConnectFailsEarly
    <2>1. /\ fdtab' = WithoutSock /\ S_sock' = NoSock /\ Return("line", TRUE)
          /\ UNCHANGED <<cmd_active, deb_active, in, c2s, s2c>>
      BY <1>6 DEF ConnectFailsEarly
    <2>2. SameForPeers(fdtab') /\ \A n \in Fds : fdtab'[n] # "mds"
      BY <1>0, <2>1, WithoutSockNumbers, PeersAssumption DEF SameForPeers, Things
    <2>3. StdKept' /\ ActiveIsClient' /\ fdtab'[cmd_active] = fdtab[cmd_active]
      BY <1>0, <2>1, <2>2, PeersKept, RequesterNumber
    <2>4. pc' = "flush" /\ RequesterKept' /\ ReplyKept'
      BY <1>0, <2>1, <2>3, ReturnKept
    <2>5. SockIsMds'
      BY <2>1, <2>2, <2>4 DEF SockIsMds, Connecting, Asking, NoSock, Fds
    <2> QED BY <2>1, <2>3, <2>4, <2>5, SameData DEF Kept, Numbers
  <1>7. CASE DoRequest
    <2>1. SameForPeers(fdtab) /\ UNCHANGED fdtab
      BY <1>7 DEF DoRequest, SameForPeers, IInv, TypeOK
    <2> QED BY <1>0, <1>7, <2>1, AskedKept DEF DoRequest, Requests, SameForPeers
  <1>8. CASE DoSetEvent
    BY <1>a, <1>8 DEF DoSetEvent
  <1>9. CASE DoPutFile
    <2>1. PICK fd \in Fds : /\ fdtab[fd] = "free"
                            /\ fdtab' \in {fdtab, [fdtab EXCEPT ![fd] = "leak"]}
      BY <1>9 DEF DoPutFile, LowestFree
    <2>2. fdtab \in [Fds -> Objects]
      BY DEF IInv, TypeOK
    <2>3. /\ SameForPeers(fdtab')
          /\ \A n \in Fds : fdtab'[n] = "mds" <=> fdtab[n] = "mds"
      BY <2>1, <2>2, PeersAssumption DEF SameForPeers, Things, Objects
    <2> QED BY <1>0, <1>9, <2>3, AskedKept DEF DoPutFile, FileCommands
  <1>10. CASE PutFileAborted
    BY <1>a, <1>10 DEF PutFileAborted
  <1>11. CASE PutStartCrashes
    BY <1>0, <1>11, DieKept DEF PutStartCrashes
  <1>12. CASE DoValueFile
    <2>1. PICK fd \in Fds : /\ fdtab[fd] = "free"
                            /\ fdtab' \in {fdtab, [fdtab EXCEPT ![fd] = "file"]}
      BY <1>12 DEF DoValueFile, LowestFree
    <2>2. fdtab \in [Fds -> Objects]
      BY DEF IInv, TypeOK
    <2>3. /\ SameForPeers(fdtab')
          /\ \A n \in Fds : fdtab'[n] = "mds" <=> fdtab[n] = "mds"
      BY <2>1, <2>2, PeersAssumption DEF SameForPeers, Things, Objects
    <2> QED BY <1>0, <1>12, <2>3, AskedKept DEF DoValueFile
  <1>13. CASE ValueFileFails
    BY <1>a, <1>13 DEF ValueFileFails
  <1> QED BY <1>1, <1>2, <1>3, <1>4, <1>5, <1>6, <1>7, <1>8, <1>9, <1>10, <1>11, <1>12, <1>13
          DEF Execute

\* The end of a connect, answers and the alarm, with a daemon that keeps to its
\* protocol.
LEMMA AnswerKept ==
  ASSUME IInv, NumbersTrusted, ConnectEnds \/ RequestEnds \/ MdsTimeout \/ MdsHangUp
  PROVE  Kept'
  <1> USE DEF connVars, netVars, peerVars
  <1>0. fdtab \in [Fds -> Objects] /\ in.fd \in Fds
    BY DEF IInv, TypeOK
  <1>1. CASE ConnectDone
    <2>1. /\ S_sock' = in.fd /\ Return("line", FALSE) /\ Connecting /\ pc = "mds"
          /\ UNCHANGED <<fdtab, cmd_active, deb_active, in, c2s, s2c>>
      BY <1>1 DEF ConnectDone, Connecting
    <2>2. pc' = "flush" /\ RequesterKept' /\ ReplyKept'
      BY <2>1, ReturnKept
    <2>3. SockIsMds'
      BY <2>1, <2>2 DEF IInv, Kept, Numbers, SockIsMds, Connecting, Asking
    <2> QED BY <2>1, <2>2, <2>3, SameTable, SameData DEF Kept, Numbers
  <1>2. CASE ConnectFails
    <2>1. /\ S_sock' = NoSock /\ Return("line", TRUE) /\ Connecting /\ pc = "mds"
          /\ UNCHANGED <<cmd_active, deb_active, in, c2s, s2c>>
      BY <1>2 DEF ConnectFails, Connecting
    <2>2. PICK left \in {"free", "leak"} : fdtab' = [fdtab EXCEPT ![in.fd] = left]
      BY <1>2 DEF ConnectFails
    <2>3. SameForPeers(fdtab') /\ \A n \in Fds : fdtab'[n] # "mds"
      BY <1>0, <2>1, <2>2, PeersAssumption
         DEF SameForPeers, Things, Objects, IInv, Kept, Numbers, SockIsMds
    <2>4. StdKept' /\ ActiveIsClient' /\ fdtab'[cmd_active] = fdtab[cmd_active]
      BY <2>1, <2>3, PeersKept, RequesterNumber
    <2>5. pc' = "flush" /\ RequesterKept' /\ ReplyKept'
      BY <2>1, <2>4, ReturnKept
    <2>6. SockIsMds'
      BY <2>1, <2>3, <2>5 DEF SockIsMds, Connecting, Asking, NoSock, Fds
    <2> QED BY <2>1, <2>4, <2>5, <2>6, SameData DEF Kept, Numbers
  <1>3. CASE MdsAnswer
    <2>1. PICK ok \in BOOLEAN : Answered(ok, fdtab)
      BY <1>3 DEF MdsAnswer
    <2>2. /\ Asking /\ ~Connecting /\ pc = "mds"
          /\ UNCHANGED <<cmd_active, deb_active, S_sock, in, c2s, s2c>>
      BY <1>3 DEF MdsAnswer, Asking, Connecting
    <2>3. SameForPeers(fdtab') /\ \A n \in Fds : fdtab'[n] = "mds" <=> fdtab[n] = "mds"
      BY <2>1, OutputClosed DEF Answered
    <2>4. StdKept' /\ ActiveIsClient' /\ fdtab'[cmd_active] = fdtab[cmd_active]
      BY <2>2, <2>3, PeersKept, RequesterNumber
    <2>5. pc' = "flush" /\ RequesterKept' /\ ReplyKept'
      BY <2>1, <2>2, <2>4, ReturnKept DEF Answered
    <2>6. SockIsMds'
      BY <2>2, <2>3, <2>5 DEF IInv, Kept, Numbers, SockIsMds, Connecting, Asking
    <2> QED BY <2>2, <2>4, <2>5, <2>6, SameData DEF Kept, Numbers
  <1>4. CASE MdsGarbles
    BY <1>4 DEF MdsGarbles, NumbersTrusted
  <1>5. CASE PeerAnswer
    <2>1. Asking /\ ~Connecting /\ ObjectOf(S_sock) \in Peers
      BY <1>5 DEF PeerAnswer, Asking, Connecting
    <2>2. ObjectOf(S_sock) = "mds"
      BY <2>1 DEF IInv, Kept, Numbers, SockIsMds, ObjectOf
    <2> QED BY <2>1, <2>2, PeersAssumption DEF Things
  <1>6. CASE MdsTimeout
    <2>1. /\ Asking /\ ~Connecting /\ pc = "mds" /\ S_sock' = 0 /\ Return("line", TRUE)
          /\ fdtab' = LeftOpen(CloseSocket(S_sock))
          /\ UNCHANGED <<cmd_active, deb_active, in, c2s, s2c>>
      BY <1>6 DEF MdsTimeout, Asking, Connecting
    <2>2. /\ S_sock \in Fds \ {0} /\ fdtab[S_sock] = "mds"
          /\ \A fd \in Fds : fdtab[fd] = "mds" => fd = S_sock
          /\ fdtab' = LeftOpen([fdtab EXCEPT ![S_sock] = "free"])
      BY <2>1, CloseTrusted DEF IInv, Kept, Numbers, SockIsMds
    <2>3. SameForPeers(fdtab') /\ \A n \in Fds : fdtab'[n] # "mds"
      BY <1>0, <2>2, PeersAssumption DEF LeftOpen, SameForPeers, Things, Objects
    <2>4. StdKept' /\ ActiveIsClient' /\ fdtab'[cmd_active] = fdtab[cmd_active]
      BY <2>1, <2>3, PeersKept, RequesterNumber
    <2>5. pc' = "flush" /\ RequesterKept' /\ ReplyKept'
      BY <2>1, <2>4, ReturnKept
    <2>6. SockIsMds'
      BY <2>1, <2>3, <2>5 DEF SockIsMds, Connecting, Asking
    <2> QED BY <2>1, <2>4, <2>5, <2>6, SameData DEF Kept, Numbers
  <1>7. CASE MdsHangUp
    <2>1. UNCHANGED <<fdtab, cmd_active, deb_active, S_sock, pc, in, out, c2s, s2c>>
      BY <1>7 DEF MdsHangUp
    <2> QED BY <2>1, SameServer, SameData DEF Kept
  <1> QED BY <1>1, <1>2, <1>3, <1>4, <1>5, <1>6, <1>7 DEF ConnectEnds, RequestEnds

\* What the clients do changes nothing of the server's.
LEMMA PeersKeptByClients ==
  ASSUME IInv, NumbersTrusted,
         \/ \E c \in Clients : Client(c)
         \/ \E d \in DebugClients : DebugClient(d)
         \/ \E p \in Peers : Kill(p)
  PROVE  Kept'
  <1> USE DEF connVars, netVars, serverVars, peerVars, Peers
  <1>1. UNCHANGED <<fdtab, cmd_active, deb_active, S_sock, pc, in, out>>
    BY DEF Client, DebugClient, Connect, SendCommand, ReadLine, Leave, Lost, Kill,
           DebugSend, DebugReceive, DebugLeave
  <1>2. Numbers' /\ RequesterKept' /\ ReplyKept'
    BY <1>1, SameServer
  <1>3. ASSUME NEW p \in Peers, Connect(p) \/ Leave(p) \/ Lost(p) \/ Kill(p) \/ DebugLeave(p)
        PROVE  NoCloser' /\ ReplyToRequester'
    <2>1. UNCHANGED <<in, c2s, s2c>>
      BY <1>3 DEF Connect, Leave, Lost, Kill, DebugLeave
    <2> QED BY <2>1, SameData
  <1>4. ASSUME NEW p \in Peers, SendCommand(p) PROVE NoCloser' /\ ReplyToRequester'
    <2>1. PICK k \in Commands : c2s' = [c2s EXCEPT ![p] = Append(@, k)]
      BY <1>4 DEF SendCommand
    <2>2. k \in AllCommands /\ k \notin Closers /\ in' = in /\ s2c' = s2c
      BY <1>4, PeersAssumption DEF SendCommand, NumbersTrusted
    <2>3. NoCloser'
      BY <2>1, <2>2, SentSafe DEF IInv, Kept
    <2> QED BY <2>2, <2>3 DEF IInv, Kept, ReplyToRequester
  <1>5. ASSUME NEW p \in Peers, DebugSend(p) PROVE NoCloser' /\ ReplyToRequester'
    <2>1. c2s' = [c2s EXCEPT ![p] = Append(@, "debugLine")] /\ in' = in /\ s2c' = s2c
      BY <1>5 DEF DebugSend
    <2>2. "debugLine" \in AllCommands \ Closers
      BY DEF AllCommands, LocalCommands, Closers
    <2>3. NoCloser'
      BY <2>1, <2>2, SentSafe DEF IInv, Kept
    <2> QED BY <2>1, <2>3 DEF IInv, Kept, ReplyToRequester
  <1>6. ASSUME NEW p \in Peers, ReadLine(p) \/ DebugReceive(p)
        PROVE  NoCloser' /\ ReplyToRequester'
    <2>1. s2c[p] # <<>> /\ s2c' = [s2c EXCEPT ![p] = Tail(@)] /\ UNCHANGED <<in, c2s>>
      BY <1>6 DEF ReadLine, DebugReceive
    <2>2. ReplyToRequester'
      BY <2>1, TailSafe DEF IInv, Kept
    <2> QED BY <2>1, <2>2 DEF IInv, Kept, NoCloser
  <1>7. NoCloser' /\ ReplyToRequester'
    BY <1>3, <1>4, <1>5, <1>6 DEF Client, DebugClient
  <1> QED BY <1>2, <1>7 DEF Kept

LEMMA NextIInv == ASSUME NumbersTrusted PROVE IInv /\ [Next]_vars => IInv'
  <1> SUFFICES ASSUME IInv, [Next]_vars PROVE IInv'
    OBVIOUS
  <1>1. TypeOK'
    BY NextTypeOK DEF IInv
  <1>2. CASE Server
    BY <1>1, <1>2, LoopKept, DebuggingKept, ExecuteKept DEF Server, IInv
  <1>3. CASE ConnectEnds \/ RequestEnds \/ MdsTimeout \/ MdsHangUp
    BY <1>1, <1>3, AnswerKept DEF IInv
  <1>4. CASE \/ \E c \in Clients : Client(c)
             \/ \E d \in DebugClients : DebugClient(d)
             \/ \E p \in Peers : Kill(p)
    BY <1>1, <1>4, PeersKeptByClients DEF IInv
  <1>5. CASE UNCHANGED vars
    <2>1. UNCHANGED <<fdtab, cmd_active, deb_active, S_sock, pc, in, out, c2s, s2c>>
      BY <1>5 DEF vars, connVars, netVars
    <2> QED BY <1>1, <2>1, SameServer, SameData DEF IInv, Kept
  <1>6. CASE Rest
    BY <1>5, <1>6 DEF Rest
  <1> QED BY <1>2, <1>3, <1>4, <1>5, <1>6 DEF Next

\* Without mdsDisconnect and mdsValue -o -, and with a daemon that keeps to its protocol, a client
\* receives only the reply to its own command: no order of accepts, hang-ups,
\* connects, timeouts, leaked files and debug sessions makes the server write it
\* another client's reply, mdsip bytes or debug output.
THEOREM RepliesReachRequesters ==
  ASSUME NumbersTrusted PROVE Spec => []ReplyToRequester
  <1>1. Init => IInv
    BY InitIInv
  <1>2. IInv /\ [Next]_vars => IInv'
    BY NextIInv
  <1>3. IInv => ReplyToRequester
    BY DEF IInv, Kept
  <1> QED BY <1>1, <1>2, <1>3, PTL DEF Spec

\* Under the same assumptions the numbers the server keeps name what it believes:
\* one client at most, and it is the active one; one daemon connection at most, and
\* it is S_sock.
THEOREM NumbersAgree ==
  ASSUME NumbersTrusted PROVE Spec => []DescriptorsAgree
  <1>1. Init => IInv
    BY InitIInv
  <1>2. IInv /\ [Next]_vars => IInv'
    BY NextIInv
  <1>3. IInv => DescriptorsAgree
    <2> SUFFICES ASSUME IInv, pc \in {"select", "dispatch"} PROVE DescriptorsAgree
      BY DEF DescriptorsAgree
    <2>1. ~Connecting /\ (S_sock > 0 => S_sock \in Fds \ {0})
      BY DEF Connecting, IInv, TypeOK, NoSock, Fds
    <2> QED BY <2>1 DEF DescriptorsAgree, IInv, Kept, Numbers, SockIsMds, ActiveIsClient
  <1> QED BY <1>1, <1>2, <1>3, PTL DEF Spec

=============================================================================

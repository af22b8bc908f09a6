-------------------------- MODULE CommandProxyProofs --------------------------
(***************************************************************************)
(* Proofs that the server implements CommandProxy, answers once and tells  *)
(* the truth, as long as the numbers it keeps can be trusted.  The steps   *)
(* of the server come down to four kinds, as its clients see them; what a  *)
(* client has asked and what it was told is an invariant about each one.   *)
(***************************************************************************)
EXTENDS CommandServerProofs, FiniteSetTheorems, SequenceTheorems

-----------------------------------------------------------------------------
(* What the server's steps are to the clients. *)

\* The connection being served is the same, or its client has left, or there was none.
ActiveStays ==
  pc' = "dead" \/ /\ pc # "dead"
                  /\ \/ fdtab'[cmd_active'] = fdtab[cmd_active]
                     \/ fdtab[cmd_active] \notin Clients
                     \/ Closed(fdtab[cmd_active])

Unseen ==
  /\ UNCHANGED <<cpc, sent, verdict, result, out>> /\ ActiveStays
  /\ \A c \in Clients : c2s'[c] = c2s[c] /\ s2c'[c] = s2c[c]
  /\ pc' \in {"execute", "mds"} => pc \in {"execute", "mds"} /\ in'.from = in.from

Taken(p) ==
  /\ UNCHANGED <<cpc, sent, verdict, result, out, s2c, fdtab, cmd_active>>
  /\ pc = "dispatch" /\ pc' = "execute"
  /\ fdtab[cmd_active] = p /\ c2s[p] # <<>>
  /\ c2s' = [c2s EXCEPT ![p] = Tail(@)] /\ in'.from = p

Returned(text, error) ==
  /\ UNCHANGED <<cpc, sent, verdict, c2s, s2c, in>>
  /\ pc \in {"execute", "mds"} /\ Return(text, error) /\ ActiveStays

Flushed ==
  /\ UNCHANGED <<cpc, sent, verdict, result, c2s, fdtab, cmd_active>>
  /\ pc = "flush" /\ pc' = "select" /\ out.text # "none"
  /\ s2c' = Deliver(fdtab[cmd_active], ReplyLines)
  /\ out' = [out EXCEPT !.text = "none"]

Seen ==
  \/ Unseen \/ Flushed
  \/ \E p \in Clients : Taken(p)
  \/ \E text \in Texts, error \in BOOLEAN : Returned(text, error)

LEMMA SameActive ==
  ASSUME pc # "dead", UNCHANGED <<fdtab, cmd_active>>
  PROVE  ActiveStays
BY DEF ActiveStays

LEMMA DieUnseen == ASSUME Die PROVE Unseen
BY DEF Die, Unseen, ActiveStays, netVars, peerVars

LEMMA HangUpUnseen ==
  ASSUME IInv, CommandHangUp \/ DebugHangUp
  PROVE  Unseen
<1> USE DEF netVars, peerVars, Go
<1>1. CASE CommandHangUp
  <2>1. /\ UNCHANGED <<cpc, sent, verdict, result, out, c2s, s2c>>
        /\ pc = "dispatch" /\ pc' = "flush"
    BY <1>1 DEF CommandHangUp, HangUp
  <2>2. fdtab[cmd_active] \notin Clients \/ Closed(fdtab[cmd_active])
    BY <1>1, PeersAssumption DEF CommandHangUp, HangUp, AtEof, Peers, Things
  <2>3. QED BY <2>1, <2>2 DEF Unseen, ActiveStays
<1>2. CASE DebugHangUp
  <2>1. /\ UNCHANGED <<cpc, sent, verdict, result, out, c2s, s2c, cmd_active>>
        /\ pc = "debug" /\ pc' = "flush" /\ deb_active # 0
        /\ fdtab' = [fdtab EXCEPT ![deb_active] = "free"]
    BY <1>2 DEF DebugHangUp, HangUp, DataPending
  <2>2. fdtab[deb_active] \in DebugClients BY <2>1 DEF IInv, Kept, Numbers, ActiveIsClient
  <2>3. fdtab[cmd_active] \in Clients => cmd_active # deb_active
    BY <2>2, PeersAssumption
  <2>4. ActiveStays BY <2>1, <2>3 DEF ActiveStays, IInv, TypeOK
  <2>5. QED BY <2>1, <2>4 DEF Unseen
<1>3. QED BY <1>1, <1>2

LEMMA LoopSeen ==
  ASSUME IInv, Loop \/ Commanding
  PROVE  Seen
<1> USE DEF connVars, netVars, peerVars, Go
<1>1. CASE Flush
  <2>1. /\ UNCHANGED <<fdtab, cmd_active, cpc, sent, verdict, result, c2s>>
        /\ pc = "flush" /\ pc' = "select"
    BY <1>1 DEF Flush
  <2>2. CASE out.text = "none" BY <1>1, <2>1, <2>2, SameActive DEF Flush, Unseen, Seen
  <2>3. CASE out.text # "none" BY <1>1, <2>1, <2>3 DEF Flush, Flushed, Seen
  <2>4. QED BY <2>2, <2>3
<1>2. CASE SelectFails \/ CommandReset \/ CommandAcceptAborts
  BY <1>2, DieUnseen DEF SelectFails, CommandReset, ReadReset, CommandAcceptAborts, Seen
<1>3. CASE Select \/ NoCommand
  BY <1>3, SameActive DEF Select, NoCommand, Unseen, Seen
<1>4. CASE ReadCommand
  <2>1. PICK p \in Peers : /\ p = fdtab[cmd_active] /\ c2s[p] # <<>>
                           /\ in' = [in EXCEPT !.cmd = Head(c2s[p]), !.from = p]
                           /\ c2s' = [c2s EXCEPT ![p] = Tail(@)]
    BY <1>4 DEF ReadCommand
  <2>2. in'.from = p BY <2>1 DEF IInv, TypeOK
  <2>3. p \in Clients
    BY <1>4, <2>1 DEF ReadCommand, DataPending, IInv, Kept, Numbers, ActiveIsClient
  <2>4. Taken(p) BY <1>4, <2>1, <2>2 DEF ReadCommand, Taken
  <2>5. QED BY <2>3, <2>4 DEF Seen
<1>5. CASE CommandHangUp BY <1>5, HangUpUnseen DEF Seen
<1>6. CASE AcceptCommand
  <2>1. fdtab[cmd_active] \notin Clients
    BY <1>6, PeersAssumption DEF AcceptCommand, IInv, Kept, Numbers, StdKept, Peers, Things
  <2>2. QED BY <1>6, <2>1 DEF AcceptCommand, Unseen, ActiveStays, Seen
<1>7. QED BY <1>1, <1>2, <1>3, <1>4, <1>5, <1>6 DEF Loop, Commanding

\* Debug output goes to a debug client or nowhere.
LEMMA PromptsUnseen ==
  ASSUME IInv, NEW obj, obj \notin Clients, NEW n \in Nat, s2c' = Prompts(obj, n)
  PROVE  \A c \in Clients : s2c'[c] = s2c[c]
BY DEF Prompts, Deliver, IInv, TypeOK, Peers

LEMMA DebuggingUnseen ==
  ASSUME IInv, Debugging
  PROVE  Unseen
<1> USE DEF connVars, netVars, peerVars, Go
<1>1. CASE DebugRead
  <2>1. /\ UNCHANGED <<fdtab, cmd_active, cpc, sent, verdict, result, out>>
        /\ pc = "debug" /\ pc' = "flush" /\ deb_active # 0
        /\ c2s' = [c2s EXCEPT ![fdtab[deb_active]] = Tail(@)]
        /\ s2c' = Prompts(fdtab[1], 2)
    BY <1>1 DEF DebugRead, DataPending
  <2>2. fdtab[deb_active] \in DebugClients BY <2>1 DEF IInv, Kept, Numbers, ActiveIsClient
  <2>3. \A c \in Clients : c2s'[c] = c2s[c]
    BY <2>1, <2>2, PeersAssumption DEF IInv, TypeOK, Peers
  <2>4. fdtab[1] \notin Clients
    BY PeersAssumption DEF IInv, Kept, Numbers, StdKept, Peers, Things
  <2>5. \A c \in Clients : s2c'[c] = s2c[c] BY <2>1, <2>4, PromptsUnseen
  <2>6. QED BY <2>1, <2>3, <2>5, SameActive DEF Unseen
<1>2. CASE DebugReset \/ DebugAcceptAborts
  BY <1>2, DieUnseen DEF DebugReset, ReadReset, DebugAcceptAborts
<1>3. CASE DebugHangUp BY <1>3, HangUpUnseen
<1>4. CASE DebugAccept
  <2>1. PICK fd \in Fds \ {0, 1, 2} :
          /\ fdtab[fd] = "free"
          /\ fdtab' = [n \in Fds |-> IF n \in {fd, 1, 2} THEN Head(dbacklog) ELSE fdtab[n]]
    BY <1>4, DebugAcceptTable
  <2>2. /\ UNCHANGED <<cmd_active, cpc, sent, verdict, result, out, c2s>>
        /\ pc = "debug" /\ pc' = "flush" /\ s2c' = Prompts(Head(dbacklog), 1)
    BY <1>4 DEF DebugAccept
  <2>3. Head(dbacklog) \in DebugClients BY <1>4, DebugAcceptTable
  <2>4. \A c \in Clients : s2c'[c] = s2c[c] BY <2>2, <2>3, PromptsUnseen, PeersAssumption
  <2>5. fdtab[cmd_active] \in Clients => cmd_active \notin {fd, 1, 2}
    BY <2>1, PeersAssumption DEF IInv, Kept, Numbers, StdKept, Peers, Things
  <2>6. cmd_active \in Fds BY DEF IInv, TypeOK
  <2>7. ActiveStays BY <2>1, <2>2, <2>5, <2>6 DEF ActiveStays
  <2>8. QED BY <2>2, <2>4, <2>7 DEF Unseen
<1>5. CASE NoDebug BY <1>5, SameActive DEF NoDebug, Unseen
<1>6. QED BY <1>1, <1>2, <1>3, <1>4, <1>5 DEF Debugging

\* A handler's step, whatever it does to other numbers.
LEMMA RequesterStays ==
  ASSUME IInv, pc \in {"execute", "mds"}, UNCHANGED cmd_active, SameForPeers(fdtab')
  PROVE  ActiveStays
BY RequesterNumber DEF ActiveStays

LEMMA AskSeen ==
  ASSUME IInv, pc = "execute", in.cmd # "mdsConnect", Ask(fdtab),
         SameForPeers(fdtab'), UNCHANGED <<cmd_active, in, cpc, sent, verdict>>
  PROVE  Unseen \/ \E text \in Texts, error \in BOOLEAN : Returned(text, error)
<1>1. /\ fdtab \in [Fds -> Objects] /\ fdtab[0] = "std"
      /\ S_sock \in Fds \ {0} => fdtab[S_sock] = "mds"
  BY DEF IInv, TypeOK, Kept, Numbers, SockIsMds, StdKept, Connecting
<1>2. /\ c2s' = c2s /\ s2c' = s2c
      /\ \/ pc' = "mds" /\ S_sock \in Fds \ {0} /\ UNCHANGED out
         \/ Return("line", TRUE)
  BY <1>1, AskKept
<1>3. ActiveStays BY RequesterStays
<1>4. CASE Return("line", TRUE)
  <2>1. Returned("line", TRUE) BY <1>2, <1>3, <1>4 DEF Returned
  <2>2. QED BY <2>1 DEF Texts
<1>5. CASE ~Return("line", TRUE)
  <2>1. pc' = "mds" /\ UNCHANGED <<out, result>> BY <1>5 DEF Ask
  <2>2. QED BY <1>2, <1>3, <2>1 DEF Unseen
<1>6. QED BY <1>4, <1>5

LEMMA ExecuteSeen ==
  ASSUME IInv, Execute
  PROVE  Seen
<1> USE DEF connVars, netVars, peerVars, Executing
<1>0. pc = "execute" /\ SameForPeers(fdtab)
  BY DEF Execute, DoHelp, DoComment, DoUnknown, DoDisconnect, BeginConnect, SameForPeers,
         ConnectFailsEarly, DoRequest, DoValueFile, ValueFileFails, DoSetEvent, DoPutFile,
         PutFileAborted, PutStartCrashes, IInv, TypeOK
<1>a. ASSUME NEW text \in Texts, NEW error \in BOOLEAN, Return(text, error),
             SameForPeers(fdtab'), UNCHANGED <<cmd_active, in, c2s, s2c, cpc, sent, verdict>>
      PROVE  Seen
  BY <1>0, <1>a, RequesterStays DEF Returned, Seen
<1>1. CASE DoHelp BY <1>0, <1>1, <1>a DEF DoHelp, Texts
<1>2. CASE DoComment BY <1>0, <1>2, <1>a DEF DoComment, Texts
<1>3. CASE DoUnknown \/ PutStartCrashes
  BY <1>3, DieUnseen DEF DoUnknown, PutStartCrashes, Seen
<1>4. CASE DoDisconnect BY <1>4 DEF DoDisconnect, IInv, Kept, NoCloser, Closers
<1>5. CASE BeginConnect
  <2>1. PICK fd \in Fds : /\ WithoutSock[fd] = "free"
                          /\ fdtab' = [WithoutSock EXCEPT ![fd] = "mds"]
                          /\ in' = [in EXCEPT !.fd = fd]
    BY <1>5 DEF BeginConnect, LowestFree
  <2>2. SameForPeers(fdtab')
    BY <1>0, <2>1, WithoutSockNumbers, PeersAssumption DEF SameForPeers, Things, Objects
  <2>3. in'.from = in.from BY <2>1 DEF IInv, TypeOK
  <2>4. UNCHANGED <<cmd_active, out, c2s, s2c, cpc, sent, verdict, result>> /\ pc' = "mds"
    BY <1>5 DEF BeginConnect
  <2>5. ActiveStays BY <1>0, <2>2, <2>4, RequesterStays
  <2>6. QED BY <1>0, <2>3, <2>4, <2>5 DEF Unseen, Seen
<1>6. CASE ConnectFailsEarly
  <2>1. SameForPeers(fdtab')
    BY <1>0, <1>6, WithoutSockNumbers, PeersAssumption
       DEF ConnectFailsEarly, SameForPeers, Things
  <2>2. QED BY <1>6, <1>a, <2>1 DEF ConnectFailsEarly, Texts
<1>7. CASE DoRequest
  BY <1>0, <1>7, AskSeen DEF DoRequest, Requests, Seen
<1>8. CASE DoSetEvent BY <1>0, <1>8, <1>a DEF DoSetEvent, Texts
<1>9. CASE DoPutFile
  <2>1. PICK fd \in Fds : /\ fdtab[fd] = "free"
                          /\ fdtab' \in {fdtab, [fdtab EXCEPT ![fd] = "leak"]}
    BY <1>9 DEF DoPutFile, LowestFree
  <2>2. SameForPeers(fdtab')
    BY <2>1, PeersAssumption DEF SameForPeers, Things, Objects, IInv, TypeOK
  <2>3. in.cmd # "mdsConnect" BY <1>9 DEF DoPutFile, FileCommands
  <2>4. QED BY <1>0, <1>9, <2>2, <2>3, AskSeen DEF DoPutFile, Seen
<1>10. CASE PutFileAborted BY <1>0, <1>10, <1>a DEF PutFileAborted, Texts
<1>11. CASE DoValueFile
  <2>1. PICK fd \in Fds : /\ fdtab[fd] = "free"
                          /\ fdtab' \in {fdtab, [fdtab EXCEPT ![fd] = "file"]}
    BY <1>11 DEF DoValueFile, LowestFree
  <2>2. SameForPeers(fdtab')
    BY <2>1, PeersAssumption DEF SameForPeers, Things, Objects, IInv, TypeOK
  <2>3. in.cmd # "mdsConnect" BY <1>11 DEF DoValueFile
  <2>4. QED BY <1>0, <1>11, <2>2, <2>3, AskSeen DEF DoValueFile, Seen
<1>12. CASE ValueFileFails BY <1>0, <1>12, <1>a DEF ValueFileFails, Texts
<1>13. QED
  BY <1>1, <1>2, <1>3, <1>4, <1>5, <1>6, <1>7, <1>8, <1>9, <1>10, <1>11, <1>12 DEF Execute

LEMMA AnswerSeen ==
  ASSUME IInv, NumbersTrusted, ConnectEnds \/ RequestEnds \/ MdsTimeout \/ MdsHangUp
  PROVE  Seen
<1> USE DEF connVars, netVars, peerVars
<1>0. fdtab \in [Fds -> Objects] /\ in.fd \in Fds /\ SameForPeers(fdtab)
  BY DEF IInv, TypeOK, SameForPeers
<1>a. ASSUME NEW text \in Texts, NEW error \in BOOLEAN, Return(text, error), pc = "mds",
             SameForPeers(fdtab'), UNCHANGED <<cmd_active, in, c2s, s2c, cpc, sent, verdict>>
      PROVE  Seen
  BY <1>a, RequesterStays DEF Returned, Seen
<1>1. CASE ConnectDone BY <1>0, <1>1, <1>a DEF ConnectDone, Connecting, Texts
<1>2. CASE ConnectFails
  <2>1. PICK left \in {"free", "leak"} : fdtab' = [fdtab EXCEPT ![in.fd] = left]
    BY <1>2 DEF ConnectFails
  <2>2. SameForPeers(fdtab')
    BY <1>0, <1>2, <2>1, PeersAssumption
       DEF ConnectFails, SameForPeers, Things, Objects, IInv, Kept, Numbers, SockIsMds
  <2>3. QED BY <1>2, <1>a, <2>2 DEF ConnectFails, Connecting, Texts
<1>3. CASE MdsAnswer
  <2>1. PICK ok \in BOOLEAN : Answered(ok, fdtab) BY <1>3 DEF MdsAnswer
  <2>2. \E text \in Texts, error \in BOOLEAN : Return(text, error)
    BY <2>1 DEF Answered, Texts
  <2>3. SameForPeers(fdtab') BY <2>1, OutputClosed DEF Answered
  <2>4. QED BY <1>3, <1>a, <2>2, <2>3 DEF MdsAnswer, Asking
<1>4. CASE MdsGarbles BY <1>4 DEF MdsGarbles, NumbersTrusted
<1>5. CASE PeerAnswer
  <2>1. Asking /\ ~Connecting /\ ObjectOf(S_sock) \in Peers
    BY <1>5 DEF PeerAnswer, Asking, Connecting
  <2>2. ObjectOf(S_sock) = "mds"
    BY <2>1 DEF IInv, Kept, Numbers, SockIsMds, ObjectOf
  <2>3. QED BY <2>1, <2>2, PeersAssumption DEF Things
<1>6. CASE MdsTimeout
  <2>1. Asking /\ ~Connecting /\ pc = "mds" /\ fdtab' = LeftOpen(CloseSocket(S_sock))
    BY <1>6 DEF MdsTimeout, Asking, Connecting
  <2>2. /\ S_sock \in Fds \ {0} /\ fdtab[S_sock] = "mds"
        /\ fdtab' = LeftOpen([fdtab EXCEPT ![S_sock] = "free"])
    BY <2>1, CloseTrusted DEF IInv, Kept, Numbers, SockIsMds
  <2>3. SameForPeers(fdtab')
    BY <1>0, <2>2, PeersAssumption DEF LeftOpen, SameForPeers, Things, Objects
  <2>4. QED BY <1>6, <1>a, <2>1, <2>3 DEF MdsTimeout, Texts
<1>7. CASE MdsHangUp
  BY <1>7 DEF MdsHangUp, Unseen, ActiveStays, Seen
<1>8. QED BY <1>1, <1>2, <1>3, <1>4, <1>5, <1>6, <1>7 DEF ConnectEnds, RequestEnds
-----------------------------------------------------------------------------
(* Where the last command of a client is, and what it was told. *)

Running(c) == pc \in {"execute", "mds"} /\ in.from = c
Pending(c) == out.text # "none" /\ out.to = c
Outcome(error) == IF error THEN "err" ELSE "ok"

\* A line says what the command came to; a reply ends with its last line.
Truthful(line, o) ==
  /\ line.bad <=> o = "err"
  /\ line.kind = "EOF ERR" => line.bad
  /\ line.kind = "EOF" => ~line.bad
IsEnd(line) == line.kind \in {"EOF", "EOF ERR", "glued"}
Reply(lines, o) ==
  \A i \in DOMAIN lines :
    Truthful(lines[i], o) /\ (IsEnd(lines[i]) <=> i = Len(lines))

\* A command that was not read has not run; one that runs has no reply; a reply is
\* in the buffer, or on its way; between two commands there is nothing of any.
Awaited(c) ==
  c2s[c] # <<>> => /\ Len(c2s[c]) = 1 /\ s2c[c] = <<>> /\ result[c] = "none"
                   /\ ~Running(c) /\ ~Pending(c)
RunsOnce(c) == Running(c) => s2c[c] = <<>> /\ result[c] = "none"
PendingTrue(c) == Pending(c) => s2c[c] = <<>> /\ result[c] = Outcome(out.error)
RepliedTrue(c) == s2c[c] # <<>> => result[c] # "none" /\ Reply(s2c[c], result[c])
Between(c) ==
  cpc[c] \in {"start", "connected"} =>
    c2s[c] = <<>> /\ s2c[c] = <<>> /\ ~Running(c) /\ ~Pending(c)
VerdictTrue(c) == verdict[c] \in {"ok", "err"} => verdict[c] = result[c]

\* A client whose command was read is the one being served.
ServedIsActive(c) ==
  cpc[c] = "waiting" =>
    sent[c] > 0 /\ (c2s[c] = <<>> => pc = "dead" \/ fdtab[cmd_active] = c)

Stage(c) ==
  /\ Awaited(c) /\ RunsOnce(c) /\ PendingTrue(c) /\ RepliedTrue(c)
  /\ Between(c) /\ VerdictTrue(c) /\ ServedIsActive(c)

Stages == \A c \in Clients : Stage(c)

\* What is left of one element.
LEMMA LastTail ==
  ASSUME NEW S, NEW s \in Seq(S), Len(s) = 1
  PROVE  Tail(s) = <<>>
<1>1. Tail(s) \in Seq(S) /\ Len(Tail(s)) = 0 OBVIOUS
<1>2. QED BY <1>1, EmptySeq

LEMMA TwoLines ==
  ASSUME NEW o, NEW a, NEW b, Truthful(a, o), Truthful(b, o), ~IsEnd(a), IsEnd(b)
  PROVE  Reply(<<a, b>>, o)
<1>1. /\ DOMAIN <<a, b>> = 1..2 /\ Len(<<a, b>>) = 2
      /\ <<a, b>>[1] = a /\ <<a, b>>[2] = b
  OBVIOUS
<1>2. \A i \in 1..2 : i = 1 \/ i = 2 OBVIOUS
<1>3. QED BY <1>1, <1>2 DEF Reply

LEMMA ServedIsActiveKept ==
  ASSUME NEW c \in Clients, ServedIsActive(c), ActiveStays,
         UNCHANGED <<cpc, sent>>, c2s'[c] = c2s[c]
  PROVE  ServedIsActive(c)'
BY DEF ServedIsActive, ActiveStays, Closed

LEMMA UnseenStage ==
  ASSUME IInv, NEW c \in Clients, Stage(c), Unseen
  PROVE  Stage(c)'
<1>1. /\ UNCHANGED <<cpc, sent, verdict, result, out>> /\ ActiveStays
      /\ c2s'[c] = c2s[c] /\ s2c'[c] = s2c[c]
  BY DEF Unseen
<1>2. Running(c)' => Running(c) BY DEF Unseen, Running
<1>3. Pending(c)' <=> Pending(c) BY <1>1 DEF Pending
<1>4. Awaited(c)' /\ RunsOnce(c)' /\ PendingTrue(c)' /\ Between(c)' /\ VerdictTrue(c)'
  BY <1>1, <1>2, <1>3 DEF Stage, Awaited, RunsOnce, PendingTrue, Between, VerdictTrue
<1>5. RepliedTrue(c)' BY <1>1 DEF Stage, RepliedTrue
<1>6. ServedIsActive(c)' BY <1>1, ServedIsActiveKept DEF Stage
<1>7. QED BY <1>4, <1>5, <1>6 DEF Stage

LEMMA TakenStage ==
  ASSUME IInv, NEW c \in Clients, Stage(c), NEW p \in Clients, Taken(p)
  PROVE  Stage(c)'
<1>1. /\ UNCHANGED <<cpc, sent, verdict, result, out, s2c, fdtab, cmd_active>>
      /\ pc = "dispatch" /\ pc' = "execute" /\ fdtab[cmd_active] = p /\ c2s[p] # <<>>
      /\ c2s' = [c2s EXCEPT ![p] = Tail(@)] /\ in'.from = p
  BY DEF Taken
<1>2. c2s \in [Peers -> Seq(AllCommands)] /\ c \in Peers /\ p \in Peers
  BY DEF IInv, TypeOK, Peers
<1>3. Pending(c)' <=> Pending(c) BY <1>1 DEF Pending
<1>4. RepliedTrue(c)' BY <1>1 DEF Stage, RepliedTrue
<1>5. CASE c # p
  <2>1. c2s'[c] = c2s[c] /\ ~Running(c)' BY <1>1, <1>2, <1>5 DEF Running
  <2>2. ActiveStays BY <1>1 DEF ActiveStays
  <2>3. ServedIsActive(c)' BY <1>1, <2>1, <2>2, ServedIsActiveKept DEF Stage
  <2>4. Awaited(c)' /\ RunsOnce(c)' /\ PendingTrue(c)' /\ Between(c)' /\ VerdictTrue(c)'
    BY <1>1, <1>3, <2>1 DEF Stage, Awaited, RunsOnce, PendingTrue, Between, VerdictTrue
  <2>5. QED BY <1>4, <2>3, <2>4 DEF Stage
<1>6. CASE c = p
  <2>1. Len(c2s[c]) = 1 /\ s2c[c] = <<>> /\ result[c] = "none" /\ ~Pending(c)
    BY <1>1, <1>6 DEF Stage, Awaited
  <2>2. c2s'[c] = <<>>
    <3>1. c2s[c] \in Seq(AllCommands) /\ c2s'[c] = Tail(c2s[c]) BY <1>1, <1>2, <1>6
    <3>2. QED BY <2>1, <3>1, LastTail
  <2>3. cpc[c] \notin {"start", "connected"} BY <1>1, <1>6 DEF Stage, Between
  <2>4. Awaited(c)' BY <2>2 DEF Awaited
  <2>5. RunsOnce(c)' BY <1>1, <2>1 DEF RunsOnce
  <2>6. PendingTrue(c)' BY <1>3, <2>1 DEF PendingTrue
  <2>7. Between(c)' BY <1>1, <2>3 DEF Between
  <2>8. VerdictTrue(c)' BY <1>1 DEF Stage, VerdictTrue
  <2>9. ServedIsActive(c)' BY <1>1, <1>6 DEF Stage, ServedIsActive
  <2>10. QED BY <1>4, <2>4, <2>5, <2>6, <2>7, <2>8, <2>9 DEF Stage
<1>7. QED BY <1>5, <1>6

LEMMA ReturnedStage ==
  ASSUME IInv, NEW c \in Clients, Stage(c),
         NEW text \in Texts, NEW error \in BOOLEAN, Returned(text, error)
  PROVE  Stage(c)'
<1>1. /\ UNCHANGED <<cpc, sent, verdict, c2s, s2c, in>> /\ ActiveStays
      /\ pc \in {"execute", "mds"} /\ pc' = "flush"
      /\ out' = [text |-> text, error |-> error, to |-> in.from]
  BY DEF Returned, Return
<1>2. in.from \in Clients BY <1>1 DEF IInv, Kept, RequesterKept
<1>3. result' = [result EXCEPT ![in.from] = Outcome(error)]
  BY <1>2 DEF Returned, Return, Peers, Outcome
<1>4. ~Running(c)' BY <1>1 DEF Running
<1>5. ServedIsActive(c)' BY <1>1, ServedIsActiveKept DEF Stage
<1>6. result \in [Peers -> {"none", "ok", "err"}] /\ c \in Peers BY DEF IInv, TypeOK, Peers
<1>7. CASE c # in.from
  <2>1. result'[c] = result[c] /\ ~Pending(c)' BY <1>1, <1>3, <1>6, <1>7 DEF Pending
  <2>2. Awaited(c)' /\ RunsOnce(c)' /\ PendingTrue(c)' /\ Between(c)' /\ VerdictTrue(c)'
    BY <1>1, <1>4, <2>1 DEF Stage, Awaited, RunsOnce, PendingTrue, Between, VerdictTrue
  <2>3. RepliedTrue(c)' BY <1>1, <2>1 DEF Stage, RepliedTrue
  <2>4. QED BY <1>5, <2>2, <2>3 DEF Stage
<1>8. CASE c = in.from
  <2>1. Running(c) BY <1>1, <1>8 DEF Running
  <2>2. s2c[c] = <<>> /\ result[c] = "none" /\ c2s[c] = <<>>
    BY <2>1 DEF Stage, RunsOnce, Awaited
  <2>3. result'[c] = Outcome(error) BY <1>3, <1>6, <1>8
  <2>4. verdict[c] \notin {"ok", "err"} BY <2>2 DEF Stage, VerdictTrue
  <2>5. cpc[c] \notin {"start", "connected"} BY <2>1 DEF Stage, Between
  <2>6. Awaited(c)' BY <1>1, <2>2 DEF Awaited
  <2>7. RunsOnce(c)' /\ RepliedTrue(c)' BY <1>1, <1>4, <2>2 DEF RunsOnce, RepliedTrue
  <2>8. PendingTrue(c)' BY <1>1, <2>2, <2>3 DEF PendingTrue
  <2>9. Between(c)' /\ VerdictTrue(c)' BY <1>1, <2>4, <2>5 DEF Between, VerdictTrue
  <2>10. QED BY <1>5, <2>6, <2>7, <2>8, <2>9 DEF Stage
<1>9. QED BY <1>7, <1>8

LEMMA FlushedStage ==
  ASSUME IInv, NEW c \in Clients, Stage(c), Flushed
  PROVE  Stage(c)'
<1>1. /\ UNCHANGED <<cpc, sent, verdict, result, c2s, fdtab, cmd_active>>
      /\ pc = "flush" /\ pc' = "select" /\ out.text # "none"
      /\ s2c' = Deliver(fdtab[cmd_active], ReplyLines)
      /\ out'.text = "none"
  BY DEF Flushed, IInv, TypeOK
<1>2. out.to = fdtab[cmd_active] BY <1>1 DEF IInv, Kept, ReplyKept
<1>3. ~Running(c)' /\ ~Pending(c)' BY <1>1 DEF Running, Pending
<1>4. s2c \in [Peers -> Seq(Line)] /\ c \in Peers BY DEF IInv, TypeOK, Peers
<1>5. ServedIsActive(c)' BY <1>1 DEF Stage, ServedIsActive
<1>6. CASE s2c'[c] = s2c[c]
  <2>1. Awaited(c)' /\ RunsOnce(c)' /\ PendingTrue(c)' /\ Between(c)' /\ VerdictTrue(c)'
    BY <1>1, <1>3, <1>6 DEF Stage, Awaited, RunsOnce, PendingTrue, Between, VerdictTrue
  <2>2. RepliedTrue(c)' BY <1>1, <1>6 DEF Stage, RepliedTrue
  <2>3. QED BY <1>5, <2>1, <2>2 DEF Stage
<1>7. CASE s2c'[c] # s2c[c]
  <2>1. out.to = c /\ s2c'[c] = s2c[c] \o ReplyLines
    BY <1>1, <1>2, <1>4, <1>7 DEF Deliver
  <2>2. Pending(c) BY <1>1, <2>1 DEF Pending
  <2>3. s2c[c] = <<>> /\ result[c] = Outcome(out.error) /\ c2s[c] = <<>>
    BY <2>2 DEF Stage, PendingTrue, Awaited
  <2>4. cpc[c] \notin {"start", "connected"} BY <2>2 DEF Stage, Between
  <2>5. PICK a, b : /\ ReplyLines = <<a, b>> /\ a.kind = "text" /\ IsEnd(b)
                    /\ a.bad = out.error /\ b.bad = out.error
                    /\ b.kind = "EOF ERR" => out.error
                    /\ b.kind = "EOF" => ~out.error
    <3> DEFINE k == IF out.text = "open" THEN "glued"
                    ELSE IF out.error THEN "EOF ERR" ELSE "EOF"
    <3>1. /\ ReplyLine(k).kind = k /\ ReplyLine(k).bad = out.error
          /\ ReplyLine("text").kind = "text" /\ ReplyLine("text").bad = out.error
      BY DEF ReplyLine
    <3>2. ReplyLines = <<ReplyLine("text"), ReplyLine(k)>> BY DEF ReplyLines
    <3>3. /\ k \in {"EOF", "EOF ERR", "glued"}
          /\ k = "EOF ERR" => out.error
          /\ k = "EOF" => ~out.error
      OBVIOUS
    <3> HIDE DEF k
    <3>4. QED BY <3>1, <3>2, <3>3 DEF IsEnd
  <2>6. s2c'[c] = <<a, b>>
    <3>1. ReplyLines \in Seq(Line) BY ReplyLinesType DEF IInv
    <3>2. <<>> \o ReplyLines = ReplyLines BY <3>1
    <3>3. QED BY <2>1, <2>3, <2>5, <3>2
  <2>7. out.error <=> result'[c] = "err" BY <1>1, <2>3 DEF Outcome
  <2>8. Truthful(a, result'[c]) /\ ~IsEnd(a) /\ Truthful(b, result'[c])
    BY <2>5, <2>7 DEF Truthful, IsEnd
  <2>9. Reply(s2c'[c], result'[c]) BY <2>5, <2>6, <2>8, TwoLines
  <2>10. RepliedTrue(c)' BY <1>1, <2>3, <2>9 DEF RepliedTrue, Outcome
  <2>11. Awaited(c)' /\ RunsOnce(c)' /\ PendingTrue(c)'
    BY <1>1, <1>3, <2>3 DEF Awaited, RunsOnce, PendingTrue
  <2>12. Between(c)' /\ VerdictTrue(c)' BY <1>1, <2>4 DEF Stage, Between, VerdictTrue
  <2>13. QED BY <1>5, <2>10, <2>11, <2>12 DEF Stage
<1>8. QED BY <1>6, <1>7

-----------------------------------------------------------------------------
(* What the clients do keeps the stages. *)

LEMMA UntouchedStage ==
  ASSUME NEW c \in Clients, Stage(c), UNCHANGED serverVars,
         c2s'[c] = c2s[c], s2c'[c] = s2c[c], cpc'[c] = cpc[c],
         sent'[c] = sent[c], verdict'[c] = verdict[c], result'[c] = result[c]
  PROVE  Stage(c)'
<1>1. UNCHANGED <<pc, in, out, fdtab, cmd_active>> BY DEF serverVars, connVars
<1>2. (Running(c)' <=> Running(c)) /\ (Pending(c)' <=> Pending(c))
  BY <1>1 DEF Running, Pending
<1>3. Awaited(c)' /\ RunsOnce(c)' /\ PendingTrue(c)' /\ Between(c)' /\ VerdictTrue(c)'
  BY <1>1, <1>2 DEF Stage, Awaited, RunsOnce, PendingTrue, Between, VerdictTrue
<1>4. RepliedTrue(c)' BY DEF Stage, RepliedTrue
<1>5. ServedIsActive(c)' BY <1>1 DEF Stage, ServedIsActive
<1>6. QED BY <1>3, <1>4, <1>5 DEF Stage

LEMMA SendCommandStage ==
  ASSUME IInv, NEW c \in Clients, Stage(c), SendCommand(c)
  PROVE  Stage(c)'
<1> USE DEF Peers
<1>1. PICK k \in Commands : c2s' = [c2s EXCEPT ![c] = Append(@, k)]
  BY DEF SendCommand
<1>2. /\ cpc'[c] = "waiting" /\ sent'[c] = sent[c] + 1 /\ sent[c] \in Nat
      /\ verdict'[c] = "none" /\ result'[c] = "none"
      /\ UNCHANGED <<pc, in, out, s2c>>
  BY DEF SendCommand, IInv, TypeOK, serverVars
<1>3. c2s[c] = <<>> /\ s2c[c] = <<>> /\ ~Running(c) /\ ~Pending(c)
  BY DEF SendCommand, Stage, Between
<1>4. c2s'[c] # <<>> /\ Len(c2s'[c]) = 1
  <2>1. c2s'[c] = Append(<<>>, k) BY <1>1, <1>3 DEF IInv, TypeOK
  <2>2. QED BY <2>1
<1>5. ~Running(c)' /\ ~Pending(c)' BY <1>2, <1>3 DEF Running, Pending
<1>6. Awaited(c)' /\ RunsOnce(c)' /\ PendingTrue(c)' /\ RepliedTrue(c)'
  BY <1>2, <1>3, <1>4, <1>5 DEF Awaited, RunsOnce, PendingTrue, RepliedTrue
<1>7. Between(c)' /\ VerdictTrue(c)' BY <1>2 DEF Between, VerdictTrue
<1>8. ServedIsActive(c)' BY <1>2, <1>4 DEF ServedIsActive
<1>9. QED BY <1>6, <1>7, <1>8 DEF Stage

LEMMA ReplyTail ==
  ASSUME NEW s \in Seq(Line), s # <<>>, NEW o, Reply(s, o)
  PROVE  Reply(Tail(s), o)
<1>1. Len(s) \in Nat /\ Len(Tail(s)) = Len(s) - 1 /\ DOMAIN Tail(s) = 1..(Len(s) - 1)
  BY EmptySeq, HeadTailProperties
<1>2. SUFFICES ASSUME NEW i \in DOMAIN Tail(s)
               PROVE  /\ Truthful(Tail(s)[i], o)
                      /\ IsEnd(Tail(s)[i]) <=> i = Len(Tail(s))
  BY DEF Reply
<1>3. i + 1 \in DOMAIN s /\ Tail(s)[i] = s[i + 1] BY TailElement
<1>4. i = Len(Tail(s)) <=> i + 1 = Len(s) BY <1>1
<1>5. QED BY <1>3, <1>4 DEF Reply

\* Nothing else of a client is under way while lines of its reply are unread.
LEMMA Replied ==
  ASSUME IInv, NEW c \in Clients, Stage(c), s2c[c] # <<>>
  PROVE  /\ c2s[c] = <<>> /\ ~Running(c) /\ ~Pending(c)
         /\ result[c] \in {"ok", "err"} /\ s2c[c] \in Seq(Line) /\ Reply(s2c[c], result[c])
         /\ cpc[c] \in {"waiting", "exited"}
<1>1. /\ c2s[c] = <<>> /\ ~Running(c) /\ ~Pending(c)
      /\ result[c] # "none" /\ Reply(s2c[c], result[c])
      /\ cpc[c] \notin {"start", "connected"}
  BY DEF Stage, Awaited, RunsOnce, PendingTrue, RepliedTrue, Between
<1>2. QED BY <1>1 DEF IInv, TypeOK, Peers

LEMMA ReadLineStage ==
  ASSUME IInv, NEW c \in Clients, Stage(c), ReadLine(c)
  PROVE  Stage(c)'
<1> USE DEF Peers
<1>0. s2c[c] # <<>> BY DEF ReadLine
<1> DEFINE line == Head(s2c[c])
           last == line.kind \in {"EOF", "EOF ERR"} \cup
                               IF c \in Persistent THEN {"glued"} ELSE {}
           failed == \/ line.kind = "EOF ERR" /\ c \notin Persistent
                     \/ c \in Persistent /\ (line.bad \/ verdict[c] = "err")
<1>1. /\ c2s[c] = <<>> /\ ~Running(c) /\ ~Pending(c)
      /\ result[c] \in {"ok", "err"} /\ s2c[c] \in Seq(Line) /\ Reply(s2c[c], result[c])
  BY <1>0, Replied
<1>2. /\ UNCHANGED <<pc, in, out, fdtab, cmd_active, c2s, sent, result>>
      /\ cpc[c] = "waiting"
      /\ s2c'[c] = Tail(s2c[c])
      /\ cpc'[c] = IF last THEN "connected" ELSE "waiting"
      /\ verdict'[c] = IF failed THEN "err" ELSE IF last THEN "ok" ELSE verdict[c]
  BY DEF ReadLine, IInv, TypeOK, serverVars, connVars
<1>3. ~Running(c)' /\ ~Pending(c)' BY <1>1, <1>2 DEF Running, Pending
<1>4. 1 \in DOMAIN s2c[c] /\ line = s2c[c][1] BY <1>0, <1>1
<1>5. Truthful(line, result[c]) /\ (IsEnd(line) <=> 1 = Len(s2c[c]))
  BY <1>1, <1>4 DEF Reply
<1>6. last => s2c'[c] = <<>>
  <2>1. last => IsEnd(line) BY DEF IsEnd
  <2>2. QED BY <1>1, <1>2, <1>5, <2>1, LastTail
<1>7. VerdictTrue(c)'
  <2>1. failed => result[c] = "err" BY <1>5 DEF Truthful, Stage, VerdictTrue
  <2>2. last /\ ~failed => result[c] = "ok" BY <1>1, <1>5 DEF Truthful
  <2>3. verdict[c] \in {"ok", "err"} => verdict[c] = result[c] BY DEF Stage, VerdictTrue
  <2> HIDE DEF last, failed
  <2>4. QED BY <1>2, <2>1, <2>2, <2>3 DEF VerdictTrue
<1>8. Reply(s2c'[c], result'[c]) BY <1>0, <1>1, <1>2, ReplyTail
<1> HIDE DEF last, failed, line
<1>9. Between(c)' BY <1>1, <1>2, <1>3, <1>6 DEF Between
<1>10. Awaited(c)' /\ RunsOnce(c)' /\ PendingTrue(c)' /\ RepliedTrue(c)'
  BY <1>1, <1>2, <1>3, <1>8 DEF Awaited, RunsOnce, PendingTrue, RepliedTrue
<1>11. ServedIsActive(c)' BY <1>2 DEF Stage, ServedIsActive
<1>12. QED BY <1>7, <1>9, <1>10, <1>11 DEF Stage

LEMMA GoneStage ==
  ASSUME IInv, NEW c \in Clients, Stage(c), Leave(c) \/ Lost(c) \/ Kill(c)
  PROVE  Stage(c)'
<1> USE DEF Peers
<1>1. /\ UNCHANGED <<pc, in, out, fdtab, cmd_active, c2s, s2c, sent, result>>
      /\ cpc'[c] = "exited" /\ verdict'[c] \in {"lost", verdict[c]}
  BY DEF Leave, Lost, Kill, IInv, TypeOK, serverVars, connVars, netVars
<1>2. (Running(c)' <=> Running(c)) /\ (Pending(c)' <=> Pending(c))
  BY <1>1 DEF Running, Pending
<1>3. Awaited(c)' /\ RunsOnce(c)' /\ PendingTrue(c)' /\ RepliedTrue(c)'
  BY <1>1, <1>2 DEF Stage, Awaited, RunsOnce, PendingTrue, RepliedTrue
<1>4. Between(c)' /\ VerdictTrue(c)' /\ ServedIsActive(c)'
  BY <1>1 DEF Stage, Between, VerdictTrue, ServedIsActive
<1>5. QED BY <1>3, <1>4 DEF Stage

LEMMA ConnectStage ==
  ASSUME IInv, NEW c \in Clients, Stage(c), Connect(c)
  PROVE  Stage(c)'
<1> USE DEF Peers
<1>1. /\ UNCHANGED <<pc, in, out, c2s, s2c, sent, verdict, result>>
      /\ cpc[c] = "start" /\ cpc'[c] = "connected"
  BY DEF Connect, IInv, TypeOK, serverVars
<1>2. (Running(c)' <=> Running(c)) /\ (Pending(c)' <=> Pending(c))
  BY <1>1 DEF Running, Pending
<1>3. Awaited(c)' /\ RunsOnce(c)' /\ PendingTrue(c)' /\ RepliedTrue(c)'
  BY <1>1, <1>2 DEF Stage, Awaited, RunsOnce, PendingTrue, RepliedTrue
<1>4. Between(c)' /\ VerdictTrue(c)' /\ ServedIsActive(c)'
  BY <1>1, <1>2 DEF Stage, Between, VerdictTrue, ServedIsActive
<1>5. QED BY <1>3, <1>4 DEF Stage

PeerStep(p) ==
  \/ Client(p) \/ Kill(p)
  \/ p \in DebugClients /\ DebugClient(p)

\* What a peer does changes nothing of another one.
LEMMA PeerAlone ==
  ASSUME IInv, NEW p \in Peers, PeerStep(p), NEW c \in Clients, c # p
  PROVE  /\ UNCHANGED serverVars
         /\ c2s'[c] = c2s[c] /\ s2c'[c] = s2c[c] /\ cpc'[c] = cpc[c]
         /\ sent'[c] = sent[c] /\ verdict'[c] = verdict[c] /\ result'[c] = result[c]
<1> USE DEF netVars, peerVars
<1>1. CASE Connect(p) BY <1>1 DEF Connect, IInv, TypeOK, Peers
<1>2. CASE SendCommand(p) BY <1>2 DEF SendCommand, IInv, TypeOK, Peers
<1>3. CASE ReadLine(p) BY <1>3 DEF ReadLine, IInv, TypeOK, Peers
<1>4. CASE Leave(p) \/ Lost(p) \/ Kill(p) BY <1>4 DEF Leave, Lost, Kill, IInv, TypeOK, Peers
<1>5. CASE DebugSend(p) BY <1>5 DEF DebugSend, IInv, TypeOK, Peers
<1>6. CASE DebugReceive(p) BY <1>6 DEF DebugReceive, IInv, TypeOK, Peers
<1>7. CASE DebugLeave(p) BY <1>7 DEF DebugLeave, IInv, TypeOK, Peers
<1>8. QED BY <1>1, <1>2, <1>3, <1>4, <1>5, <1>6, <1>7 DEF PeerStep, Client, DebugClient

LEMMA PeerStage ==
  ASSUME IInv, NEW p \in Peers, PeerStep(p), NEW c \in Clients, Stage(c)
  PROVE  Stage(c)'
<1>1. CASE c # p BY <1>1, PeerAlone, UntouchedStage
<1>2. CASE c = p
  <2>1. Client(c) \/ Kill(c) BY <1>2, PeersAssumption DEF PeerStep
  <2>2. QED BY <2>1, ConnectStage, SendCommandStage, ReadLineStage, GoneStage DEF Client
<1>3. QED BY <1>1, <1>2

\* Every step is one of the server, of a peer, or of nobody.
LEMMA StepsSeen ==
  ASSUME IInv, NumbersTrusted, [Next]_vars
  PROVE  Seen \/ (\E p \in Peers : PeerStep(p)) \/ UNCHANGED vars
<1>1. CASE Server \/ ConnectEnds \/ RequestEnds \/ MdsTimeout \/ MdsHangUp
  BY <1>1, LoopSeen, DebuggingUnseen, ExecuteSeen, AnswerSeen DEF Server, Seen
<1>2. CASE \E c \in Clients : Client(c) BY <1>2 DEF PeerStep, Peers
<1>3. CASE \E d \in DebugClients : DebugClient(d) BY <1>3 DEF PeerStep, Peers
<1>4. CASE \E p \in Peers : Kill(p) BY <1>4 DEF PeerStep
<1>5. CASE Rest \/ UNCHANGED vars BY <1>5 DEF Rest
<1>6. QED BY <1>1, <1>2, <1>3, <1>4, <1>5 DEF Next

LEMMA StagesKept ==
  ASSUME IInv, NumbersTrusted, Stages, [Next]_vars
  PROVE  Stages'
<1>1. SUFFICES ASSUME NEW c \in Clients PROVE Stage(c)' BY DEF Stages
<1>2. Stage(c) BY DEF Stages
<1>3. CASE Seen
  BY <1>2, <1>3, UnseenStage, TakenStage, ReturnedStage, FlushedStage DEF Seen
<1>4. CASE \E p \in Peers : PeerStep(p) BY <1>2, <1>4, PeerStage
<1>5. CASE UNCHANGED vars
  BY <1>2, <1>5, UntouchedStage DEF vars, serverVars, connVars, netVars, peerVars
<1>6. QED BY <1>3, <1>4, <1>5, StepsSeen

LEMMA StagesInit == Init => Stages
<1>1. SUFFICES ASSUME Init, NEW c \in Clients PROVE Stage(c) BY DEF Stages
<1>2. /\ pc = "flush" /\ out.text = "none" /\ cpc[c] = "start"
      /\ c2s[c] = <<>> /\ s2c[c] = <<>> /\ verdict[c] = "none"
  BY <1>1 DEF Init, Peers
<1>3. ~Running(c) /\ ~Pending(c) BY <1>2 DEF Running, Pending
<1>4. QED
  BY <1>2, <1>3 DEF Stage, Awaited, RunsOnce, PendingTrue, RepliedTrue, Between,
                    VerdictTrue, ServedIsActive

\* A client that has not connected has sent nothing.
Fresh == \A c \in Clients : cpc[c] = "start" => sent[c] = 0

LEMMA FreshKept ==
  ASSUME IInv, NumbersTrusted, Fresh, [Next]_vars
  PROVE  Fresh'
<1>1. CASE Seen BY <1>1 DEF Seen, Unseen, Flushed, Taken, Returned, Fresh
<1>2. CASE \E p \in Peers : PeerStep(p)
  <2>1. PICK p \in Peers : PeerStep(p) BY <1>2
  <2>2. ASSUME NEW c \in Clients, c = p PROVE cpc'[c] # "start"
    BY <2>1, <2>2, PeersAssumption
       DEF PeerStep, Client, Connect, SendCommand, ReadLine, Leave, Lost, Kill, IInv, TypeOK
  <2>3. QED BY <2>1, <2>2, PeerAlone DEF Fresh
<1>3. CASE UNCHANGED vars BY <1>3 DEF vars, peerVars, Fresh
<1>4. QED BY <1>1, <1>2, <1>3, StepsSeen

TrueInv == IInv /\ Stages /\ Fresh

LEMMA TrueInvCorrect == ASSUME NumbersTrusted PROVE Spec => []TrueInv
<1>1. Init => TrueInv BY InitIInv, StagesInit DEF TrueInv, Fresh, Init, Peers
<1>2. TrueInv /\ [Next]_vars => TrueInv' BY NextIInv, StagesKept, FreshKept DEF TrueInv
<1>3. QED BY <1>1, <1>2, PTL DEF Spec

\* The outcome a client reports is the one its last command had: whatever commands,
\* errors, timeouts, disconnections and debug sessions went before, the flag on the
\* EOF line is that command's own.
THEOREM VerdictsTruthful ==
  ASSUME NumbersTrusted PROVE Spec => []VerdictTruthful
<1>1. TrueInv => VerdictTruthful
  BY DEF TrueInv, Stages, Stage, VerdictTrue, VerdictTruthful
<1>2. QED BY <1>1, TrueInvCorrect, PTL

\* A command runs once and is answered once: the end of a reply on its way to a
\* client is the only one, it follows the run, and no command waits behind it.
THEOREM AnswersOnce ==
  ASSUME NumbersTrusted PROVE Spec => []AnsweredOnce
<1>1. ASSUME TrueInv, NEW c \in Clients,
             NEW i \in DOMAIN s2c[c], IsEnd(s2c[c][i])
      PROVE  /\ c2s[c] = <<>> /\ result[c] # "none" /\ cpc[c] \in {"waiting", "exited"}
             /\ i = Len(s2c[c])
  <2>1. s2c[c] # <<>> BY <1>1
  <2>2. IInv /\ Stage(c) BY <1>1 DEF TrueInv, Stages
  <2>3. QED BY <1>1, <2>1, <2>2, Replied DEF Reply
<1>2. ASSUME TrueInv PROVE AnsweredOnce
  <2> DEFINE ends(c) == {i \in DOMAIN s2c[c] :
                           s2c[c][i].to = c /\ s2c[c][i].kind \in {"EOF", "EOF ERR", "glued"}}
  <2>1. SUFFICES ASSUME NEW c \in Clients, ends(c) # {}
                 PROVE  /\ Cardinality(ends(c)) = 1
                        /\ c2s[c] = <<>> /\ result[c] # "none"
                        /\ cpc[c] \in {"waiting", "exited"}
    BY DEF AnsweredOnce
  <2>2. \A i \in ends(c) : i \in DOMAIN s2c[c] /\ IsEnd(s2c[c][i]) BY DEF IsEnd
  <2>3. /\ c2s[c] = <<>> /\ result[c] # "none" /\ cpc[c] \in {"waiting", "exited"}
        /\ \A i \in ends(c) : i = Len(s2c[c])
    BY <1>1, <1>2, <2>1, <2>2
  <2>4. ends(c) = {Len(s2c[c])} BY <2>1, <2>3
  <2>5. QED BY <2>3, <2>4, FS_Singleton
<1>3. QED BY <1>2, TrueInvCorrect, PTL
-----------------------------------------------------------------------------
(* The steps, seen as steps of the proxy. *)

Phases == [c \in Clients |-> PhaseOf(c)]
Results == [c \in Clients |-> result[c]]

LEMMA PhaseSame ==
  ASSUME NEW c \in Clients, cpc'[c] = cpc[c], sent'[c] = sent[c], c2s'[c] = c2s[c]
  PROVE  PhaseOf(c)' = PhaseOf(c)
BY DEF PhaseOf

LEMMA OnePhase ==
  ASSUME NEW p \in Clients, NEW to, PhaseOf(p)' = to,
         \A c \in Clients : c # p => PhaseOf(c)' = PhaseOf(c)
  PROVE  Phases' = [Phases EXCEPT ![p] = to]
BY DEF Phases

LEMMA NoPhase ==
  ASSUME \A c \in Clients : cpc'[c] = cpc[c] /\ sent'[c] = sent[c] /\ c2s'[c] = c2s[c]
  PROVE  Phases' = Phases
BY PhaseSame DEF Phases

LEMMA PhaseTypes ==
  ASSUME IInv, NEW c \in Clients
  PROVE  /\ cpc[c] = "start" => PhaseOf(c) = "idle"
         /\ cpc[c] = "connected" => PhaseOf(c) \in {"idle", "answered"}
         /\ cpc[c] = "waiting" => PhaseOf(c) = IF c2s[c] # <<>> THEN "asked" ELSE "served"
         /\ cpc[c] = "exited" <=> PhaseOf(c) = "gone"
         /\ PhaseOf(c) = "served" => cpc[c] = "waiting" /\ c2s[c] = <<>>
         /\ cpc[c] \in {"start", "connected", "waiting", "exited"}
BY DEF PhaseOf, IInv, TypeOK, Peers

ProxyStep == Proxy!PNext \/ UNCHANGED Proxy!pvars

LEMMA SeenStep ==
  ASSUME TrueInv, Seen
  PROVE  ProxyStep
<1> USE DEF Proxy!PNext, Proxy!pvars, ProxyStep
<1>0. IInv BY DEF TrueInv
<1>1. CASE Unseen \/ Flushed
  <2>1. Phases' = Phases BY <1>1, NoPhase DEF Unseen, Flushed
  <2>2. Results' = Results BY <1>1 DEF Unseen, Flushed, Results
  <2>3. QED BY <2>1, <2>2 DEF Phases, Results
<1>2. ASSUME NEW p \in Clients, Taken(p) PROVE ProxyStep
  <2>1. /\ UNCHANGED <<cpc, sent, result>> /\ pc = "dispatch" /\ fdtab[cmd_active] = p
        /\ c2s[p] # <<>> /\ c2s' = [c2s EXCEPT ![p] = Tail(@)]
    BY <1>2 DEF Taken
  <2>2. Stage(p) /\ \A d \in Clients : ServedIsActive(d) BY DEF TrueInv, Stages, Stage
  <2>3. cpc[p] \in {"waiting", "exited"} BY <1>0, <2>1, <2>2, PhaseTypes DEF Stage, Between
  <2>4. c2s'[p] = <<>>
    <3>1. Len(c2s[p]) = 1 BY <2>1, <2>2 DEF Stage, Awaited
    <3>2. c2s[p] \in Seq(AllCommands) /\ c2s'[p] = Tail(c2s[p])
      BY <1>0, <2>1 DEF IInv, TypeOK, Peers
    <3>3. QED BY <3>1, <3>2, LastTail
  <2>5. Results' = Results BY <2>1 DEF Results
  <2>6. \A c \in Clients : c # p => PhaseOf(c)' = PhaseOf(c)
    BY <1>0, <2>1, PhaseSame DEF IInv, TypeOK, Peers
  <2>7. CASE cpc[p] = "exited"
    <3>1. PhaseOf(p)' = PhaseOf(p) BY <2>1, <2>7 DEF PhaseOf
    <3>2. Phases' = Phases BY <2>6, <3>1 DEF Phases
    <3>3. QED BY <2>5, <3>2 DEF Phases, Results
  <2>8. CASE cpc[p] = "waiting"
    <3>1. PhaseOf(p) = "asked" BY <1>0, <2>1, <2>8, PhaseTypes
    <3>2. PhaseOf(p)' = "served" BY <2>1, <2>4, <2>8 DEF PhaseOf
    <3>3. Phases' = [Phases EXCEPT ![p] = "served"] BY <2>6, <3>2, OnePhase
    <3>4. \A d \in Clients : PhaseOf(d) # "served"
      BY <1>0, <2>1, <2>2, PhaseTypes DEF ServedIsActive
    <3>5. Proxy!Take(p)
      BY <2>5, <3>1, <3>3, <3>4 DEF Phases, Results, Proxy!Take, Proxy!Move
    <3>6. QED BY <3>5
  <2>9. QED BY <2>3, <2>7, <2>8
<1>3. ASSUME NEW text \in Texts, NEW error \in BOOLEAN, Returned(text, error)
      PROVE  ProxyStep
  <2>1. UNCHANGED <<cpc, sent, c2s>> /\ pc \in {"execute", "mds"} BY <1>3 DEF Returned
  <2>2. PICK c \in Clients : c = in.from
    BY <1>0, <2>1 DEF IInv, Kept, RequesterKept
  <2>3. PICK o \in {"ok", "err"} : result' = [result EXCEPT ![c] = o]
    BY <1>3, <2>2 DEF Returned, Return, Peers
  <2>4. Phases' = Phases BY <2>1, NoPhase
  <2>5. Results' = [Results EXCEPT ![c] = o]
    BY <1>0, <2>3 DEF Results, IInv, TypeOK, Peers
  <2>6. result[c] = "none" /\ c2s[c] = <<>> /\ cpc[c] \notin {"start", "connected"}
    BY <2>1, <2>2 DEF TrueInv, Stages, Stage, Running, Awaited, RunsOnce, Between
  <2>7. PhaseOf(c) \in {"served", "gone"} BY <1>0, <2>6, PhaseTypes
  <2>8. Proxy!Decide(c)
    BY <2>4, <2>5, <2>6, <2>7 DEF Phases, Results, Proxy!Decide
  <2>9. QED BY <2>8
<1>4. QED BY <1>1, <1>2, <1>3 DEF Seen

LEMMA ClientStep ==
  ASSUME TrueInv, NEW c \in Clients, Client(c) \/ Kill(c),
         \A d \in Clients : d # c => PhaseOf(d)' = PhaseOf(d),
         \A d \in Clients : d # c => result'[d] = result[d]
  PROVE  ProxyStep
<1> USE DEF Proxy!PNext, Proxy!pvars, ProxyStep, Peers
<1>0. IInv /\ Stage(c) BY DEF TrueInv, Stages
<1>1. ASSUME result'[c] = result[c] PROVE Results' = Results BY <1>1 DEF Results
<1>2. CASE Connect(c)
  <2>1. sent[c] = 0 /\ cpc[c] = "start" /\ cpc'[c] = "connected" /\ UNCHANGED <<sent, result>>
    BY <1>0, <1>2 DEF Connect, TrueInv, Fresh, IInv, TypeOK
  <2>2. PhaseOf(c)' = "idle" /\ PhaseOf(c) = "idle" BY <2>1 DEF PhaseOf
  <2>3. Phases' = Phases BY <2>2 DEF Phases
  <2>4. QED BY <1>1, <2>1, <2>3 DEF Phases, Results
<1>3. CASE SendCommand(c)
  <2>1. PICK k \in Commands : c2s' = [c2s EXCEPT ![c] = Append(@, k)] BY <1>3 DEF SendCommand
  <2>2. cpc[c] = "connected" /\ cpc'[c] = "waiting" /\ result'[c] = "none"
    BY <1>0, <1>3 DEF SendCommand, IInv, TypeOK
  <2>3. c2s'[c] # <<>>
    <3>1. c2s[c] = <<>> BY <1>0, <2>2 DEF Stage, Between
    <3>2. c2s'[c] = Append(<<>>, k) BY <1>0, <2>1, <3>1 DEF IInv, TypeOK
    <3>3. QED BY <3>2
  <2>4. PhaseOf(c)' = "asked" BY <2>2, <2>3 DEF PhaseOf
  <2>5. PhaseOf(c) \in {"idle", "answered"} BY <1>0, <2>2, PhaseTypes
  <2>6. Phases' = [Phases EXCEPT ![c] = "asked"] BY <2>4, OnePhase
  <2>7. Results' = [Results EXCEPT ![c] = "none"] BY <2>2 DEF Results
  <2>8. Proxy!Submit(c)
    BY <2>5, <2>6, <2>7 DEF Phases, Results, Proxy!Submit, Proxy!Move
  <2>9. QED BY <2>8
<1>4. CASE ReadLine(c)
  <2>1. /\ cpc[c] = "waiting" /\ cpc'[c] \in {"waiting", "connected"}
        /\ s2c[c] # <<>> /\ UNCHANGED <<c2s, sent, result>>
    BY <1>0, <1>4 DEF ReadLine, IInv, TypeOK
  <2>2. Results' = Results BY <1>1, <2>1
  <2>3. CASE cpc'[c] = "waiting"
    <3>1. PhaseOf(c)' = PhaseOf(c) BY <2>1, <2>3, PhaseSame
    <3>2. Phases' = Phases BY <3>1 DEF Phases
    <3>3. QED BY <2>2, <3>2 DEF Phases, Results
  <2>4. CASE cpc'[c] = "connected"
    <3>1. c2s[c] = <<>> /\ result[c] # "none" BY <1>0, <2>1, Replied
    <3>2. sent[c] # 0
      <4>1. sent[c] > 0 BY <1>0, <2>1 DEF Stage, ServedIsActive
      <4>2. QED BY <4>1
    <3>3. PhaseOf(c) = "served" BY <1>0, <2>1, <3>1, PhaseTypes
    <3>4. PhaseOf(c)' = "answered" BY <2>1, <2>4, <3>2 DEF PhaseOf
    <3>5. Phases' = [Phases EXCEPT ![c] = "answered"] BY <3>4, OnePhase
    <3>6. Proxy!Answer(c)
      BY <2>2, <3>1, <3>3, <3>5 DEF Phases, Results, Proxy!Answer, Proxy!Move
    <3>7. QED BY <3>6
  <2>5. QED BY <2>1, <2>3, <2>4
<1>5. CASE Leave(c) \/ Lost(c) \/ Kill(c)
  <2>1. cpc[c] # "exited" /\ cpc'[c] = "exited" /\ UNCHANGED result
    BY <1>0, <1>5 DEF Leave, Lost, Kill, IInv, TypeOK
  <2>2. PhaseOf(c)' = "gone" BY <2>1 DEF PhaseOf
  <2>3. PhaseOf(c) \in {"idle", "asked", "served", "answered"} BY <1>0, <2>1, PhaseTypes
  <2>4. Phases' = [Phases EXCEPT ![c] = "gone"] BY <2>2, OnePhase
  <2>5. Results' = Results BY <1>1, <2>1
  <2>6. Proxy!Go(c) BY <2>3, <2>4, <2>5 DEF Phases, Results, Proxy!Go, Proxy!Move
  <2>7. QED BY <2>6
<1>6. QED BY <1>2, <1>3, <1>4, <1>5 DEF Client

LEMMA PeerStepStep ==
  ASSUME TrueInv, NEW p \in Peers, PeerStep(p)
  PROVE  ProxyStep
<1>0. IInv BY DEF TrueInv
<1>1. \A d \in Clients : d # p => PhaseOf(d)' = PhaseOf(d) /\ result'[d] = result[d]
  BY <1>0, PeerAlone, PhaseSame
<1>2. CASE p \in Clients
  <2>1. Client(p) \/ Kill(p) BY <1>2, PeersAssumption DEF PeerStep
  <2>2. QED BY <1>1, <1>2, <2>1, ClientStep
<1>3. CASE p \notin Clients
  <2>1. Phases' = Phases /\ Results' = Results BY <1>1, <1>3 DEF Phases, Results
  <2>2. QED BY <2>1 DEF Phases, Results, ProxyStep, Proxy!pvars
<1>4. QED BY <1>2, <1>3

\* The server implements the abstract proxy: it takes a client's command only when
\* no other client waits for its answer, runs it once, and a client that has asked
\* gets its own answer or goes.
THEOREM Implementation ==
  ASSUME NumbersTrusted PROVE Spec => ImplementsProxy
<1>1. Init => Proxy!PInit
  <2>1. SUFFICES ASSUME Init PROVE Proxy!PInit OBVIOUS
  <2>2. \A c \in Clients : cpc[c] = "start" /\ result[c] = "none" BY <2>1 DEF Init, Peers
  <2>3. \A c \in Clients : PhaseOf(c) = "idle" BY <2>2 DEF PhaseOf
  <2>4. QED BY <2>2, <2>3 DEF Proxy!PInit
<1>2. ASSUME TrueInv, [Next]_vars PROVE ProxyStep
  <2>1. CASE Seen BY <1>2, <2>1, SeenStep
  <2>2. CASE \E p \in Peers : PeerStep(p) BY <1>2, <2>2, PeerStepStep
  <2>3. CASE UNCHANGED vars
    <3>1. UNCHANGED <<cpc, sent, c2s, result>> BY <2>3 DEF vars, netVars, peerVars
    <3>2. Phases' = Phases /\ Results' = Results BY <3>1, NoPhase DEF Results
    <3>3. QED BY <3>2 DEF Phases, Results, ProxyStep, Proxy!pvars
  <2>4. QED BY <1>2, <2>1, <2>2, <2>3, StepsSeen DEF TrueInv
<1>3. TrueInv /\ [Next]_vars => [Proxy!PNext]_(Proxy!pvars) BY <1>2 DEF ProxyStep
<1>4. QED BY <1>1, <1>3, TrueInvCorrect, PTL DEF Spec, ImplementsProxy, Proxy!PSpec

=============================================================================

---------------------------- MODULE CommandServer ----------------------------
(***************************************************************************)
(* The mdsshell server (mdsshell.af_unix.c, usc.c, usc.h): one process,    *)
(* one thread, a select() loop over two AF_UNIX listeners and at most one  *)
(* accepted connection of each, in front of one persistent connection to a *)
(* remote mdsip daemon (S_sock).  The clients are client_work() (one       *)
(* command per connection) and MdsShellTransaction (several commands over  *)
(* one connection).                                                        *)
(*                                                                         *)
(* Descriptors are numbers handed out lowest-first, as the kernel does:    *)
(* the code uses 0 for "no connection" and keeps numbers after closing     *)
(* them, so which object a number names is the heart of the matter.        *)
(***************************************************************************)
EXTENDS Integers, Sequences, FiniteSets

CONSTANTS
  Clients,       \* connections made to the command socket
  DebugClients,  \* connections made to the debug socket
  Persistent,    \* clients that use MdsShellTransaction, and debug clients that
                 \* send more than a line
  MayDie,        \* clients that may be killed at any point
  UnreadDeath,   \* whether one may be killed with unread reply lines
  BadHeaders,    \* whether the daemon may send a header that makes no sense
  Commands,      \* the commands clients send, a subset of AllCommands
  FdLimit,       \* size of struct FdPool: 32 in usc.h
  NFd,           \* descriptors the process may open (RLIMIT_NOFILE)
  Backlog,       \* the argument of listen(): 5 in usc.c
  MaxCmds        \* bound: commands sent over one persistent connection

\* Commands by what their handler does to the state; mdsOpen stands for every
\* command that is one question to the daemon and one line of reply
\* (mdsOpen, mdsClose, mdsSetDef, mdsPut of a scalar), mdsValueFile for mdsValue
\* with -t and -o file, mdsValueStdout for -o -, mdsValuePutFile for mdsValuePut
\* with -d file.
FileCommands == {"mdsPutFile", "mdsPutStride", "mdsPutStart", "mdsValuePutFile"}
Requests == {"mdsOpen", "mdsValue", "mdsValueFloat", "mdsValueTimed", "mdsValueStdout"}
Timed == {"mdsValueTimed", "mdsValueFile"}
LocalCommands == {"help", "comment", "unknown", "debugLine"}
AllCommands == FileCommands \cup Requests \cup LocalCommands
                 \cup {"mdsConnect", "mdsDisconnect", "mdsSetEvent", "mdsValueFile"}

Peers == Clients \cup DebugClients
Fds == 0..(NFd - 1)
DListenFd == 3          \* uscMake(&debug) runs first
CListenFd == 4
NoSock == -1            \* INVALID_SOCKET

\* "file": the output of the running command; "leak": what nobody will close.
Things == {"free", "std", "dlisten", "listen", "file", "leak", "mds"}
Objects == Things \cup Peers

ASSUME SizesAssumption ==
  /\ FdLimit \in Nat /\ FdLimit > CListenFd
  /\ NFd \in Nat /\ NFd > FdLimit
  /\ Backlog \in Nat
  /\ MaxCmds \in Nat \ {0}
ASSUME PeersAssumption ==
  /\ Clients \cap DebugClients = {}
  /\ Peers \cap Things = {}
  /\ Persistent \subseteq Peers /\ MayDie \subseteq Peers
  /\ UnreadDeath \in BOOLEAN /\ BadHeaders \in BOOLEAN
  /\ Commands \subseteq AllCommands

VARIABLES
  fdtab,       \* the descriptor table: number -> object
  watchset,    \* descriptors select() watches (and those in fdpool)
  inset,       \* the descriptors the last select() reported
  cmd_active,  \* command.fd_active, 0 for none
  deb_active,  \* debug.fd_active, 0 for none
  S_sock,      \* number believed to be the daemon's connection
  stdoutOpen,  \* stdout was not closed: what is printed goes to descriptor 1
  pc,          \* where the server is
  in,          \* command being executed, who sent it, socket of a connect
  out,         \* cmd->out: the text, the error flag; and who asked
  mdsUp,       \* whether the daemon holds its end of the connection open
  backlog,     \* connections not yet accepted on the command socket
  dbacklog,    \* the same for the debug socket
  c2s,         \* peer -> data it wrote that the server has not read
  s2c,         \* peer -> lines written to it that it has not read
  cpc,         \* peer -> where it is
  sent,        \* peer -> commands it sent
  verdict,     \* client -> outcome it reports for its last command
  result       \* client -> outcome of its last command at the server

netVars == <<backlog, dbacklog, c2s, s2c>>
peerVars == <<cpc, sent, verdict>>
connVars == <<fdtab, watchset, cmd_active, deb_active, S_sock, stdoutOpen, mdsUp>>
vars == <<connVars, inset, pc, in, out, netVars, peerVars, result>>

Nobody == "nobody"
Line == [kind : {"text", "EOF", "EOF ERR", "glued", "mdsmsg", "prompt"},
         bad : BOOLEAN, to : Peers \cup {Nobody}]
Texts == {"none", "line", "open"}

TypeOK ==
  /\ fdtab \in [Fds -> Objects]
  /\ watchset \subseteq Fds /\ inset \subseteq Fds
  /\ cmd_active \in Fds /\ deb_active \in Fds
  /\ S_sock \in Fds \cup {NoSock} /\ stdoutOpen \in BOOLEAN
  /\ pc \in {"flush", "select", "dispatch", "debug", "execute", "mds", "dead"}
  /\ in \in [cmd : AllCommands, from : Peers \cup {Nobody}, fd : Fds]
  /\ out \in [text : Texts, error : BOOLEAN, to : Peers \cup {Nobody}]
  /\ mdsUp \in BOOLEAN
  /\ backlog \in Seq(Clients) /\ dbacklog \in Seq(DebugClients)
  /\ c2s \in [Peers -> Seq(AllCommands)]
  /\ s2c \in [Peers -> Seq(Line)]
  /\ cpc \in [Peers -> {"start", "connected", "waiting", "exited"}]
  /\ sent \in [Peers -> Nat]
  /\ verdict \in [Peers -> {"none", "ok", "err", "lost"}]
  /\ result \in [Peers -> {"none", "ok", "err"}]

-----------------------------------------------------------------------------
(* The kernel: descriptors and sockets. *)

LowestFree(tab, fd) == tab[fd] = "free" /\ \A g \in Fds : g < fd => tab[g] # "free"
ObjectOf(fd) == IF fd \in Fds THEN fdtab[fd] ELSE "free"
Closed(p) == cpc[p] = "exited"

\* CloseSocket(): shutdown() ends the connection under every number it has.
CloseSocket(fd) ==
  IF fd \notin Fds THEN fdtab
  ELSE [n \in Fds |-> IF n = fd THEN "free"
                      ELSE IF fdtab[fd] \in Peers /\ fdtab[n] = fdtab[fd] THEN "leak"
                      ELSE fdtab[n]]

\* The connection still exists on the server's side.
Held(p) == /\ pc # "dead"
           /\ \/ \E fd \in Fds : fdtab[fd] = p
              \/ \E i \in DOMAIN backlog : backlog[i] = p
              \/ \E i \in DOMAIN dbacklog : dbacklog[i] = p

\* write(): data for a peer that closed its end is lost (EPIPE, SIGPIPE blocked).
Deliver(obj, lines) ==
  IF obj \in Peers /\ ~Closed(obj) THEN [s2c EXCEPT ![obj] = @ \o lines] ELSE s2c

\* A stream peer that closes with unread data resets the other end.
Reset(p) == Closed(p) /\ s2c[p] # <<>>

Readable(fd) ==
  LET obj == fdtab[fd]
  IN  \/ obj = "listen" /\ backlog # <<>>
      \/ obj = "dlisten" /\ dbacklog # <<>>
      \/ obj = "mds" /\ ~mdsUp
      \/ obj \in Peers /\ (c2s[obj] # <<>> \/ Closed(obj))

-----------------------------------------------------------------------------
(* new_state(): flush, select, then one pass over what select reported. *)

Init ==
  /\ fdtab = [fd \in Fds |-> IF fd < 3 THEN "std"
                             ELSE IF fd = DListenFd THEN "dlisten"
                             ELSE IF fd = CListenFd THEN "listen" ELSE "free"]
  /\ watchset = {DListenFd, CListenFd}
  /\ inset = {}
  /\ cmd_active = 0 /\ deb_active = 0 /\ S_sock = 0
  /\ stdoutOpen = TRUE
  /\ pc = "flush"
  /\ in = [cmd |-> "comment", from |-> Nobody, fd |-> 0]
  /\ out = [text |-> "none", error |-> FALSE, to |-> Nobody]
  /\ mdsUp = FALSE
  /\ backlog = <<>> /\ dbacklog = <<>>
  /\ c2s = [p \in Peers |-> <<>>]
  /\ s2c = [p \in Peers |-> <<>>]
  /\ cpc = [p \in Peers |-> "start"]
  /\ sent = [p \in Peers |-> 0]
  /\ verdict = [p \in Peers |-> "none"]
  /\ result = [p \in Peers |-> "none"]

Go(from, to) == pc = from /\ pc' = to

\* _exit(), a failed assertion or a crash: the kernel closes everything.
Die == /\ pc' = "dead"
       /\ UNCHANGED <<connVars, inset, in, out, netVars, peerVars, result>>

ReplyLine(kind) == [kind |-> kind, bad |-> out.error, to |-> out.to]

\* What iobFlush() writes: the text, then the EOF line with the error flag.
\* Text that does not end in a newline swallows the EOF line.
ReplyLines ==
  <<ReplyLine("text"),
    ReplyLine(IF out.text = "open" THEN "glued" ELSE IF out.error THEN "EOF ERR" ELSE "EOF")>>

\* Mutant: iobFlush() leaves out.len as it is.
FlushKeepingText ==
  /\ Go("flush", "select")
  /\ s2c' = IF out.text = "none" THEN s2c ELSE Deliver(fdtab[cmd_active], ReplyLines)
  /\ UNCHANGED <<connVars, inset, in, out, backlog, dbacklog, c2s, peerVars, result>>

Flush ==
  /\ Go("flush", "select")
  /\ IF out.text = "none" THEN UNCHANGED <<s2c, out>>
     ELSE /\ s2c' = Deliver(fdtab[cmd_active], ReplyLines)
          /\ out' = [out EXCEPT !.text = "none"]
  /\ UNCHANGED <<connVars, inset, in, backlog, dbacklog, c2s, peerVars, result>>

\* EBADF: a watched descriptor was closed behind the loop's back.
SelectFails ==
  /\ pc = "select"
  /\ \E fd \in watchset : fdtab[fd] = "free"
  /\ Die

Select ==
  /\ Go("select", "dispatch")
  /\ \A fd \in watchset : fdtab[fd] # "free"
  /\ inset' = {fd \in watchset : Readable(fd)}
  /\ inset' # {}
  /\ UNCHANGED <<connVars, in, out, netVars, peerVars, result>>

DataPending(active) == active # 0 /\ active \in inset
ConnectionPending(listener) == listener \in inset

\* read(command.fd_active) > 0
ReadCommand ==
  /\ Go("dispatch", "execute")
  /\ DataPending(cmd_active)
  /\ LET p == fdtab[cmd_active]
     IN  /\ p \in Peers /\ c2s[p] # <<>>
         /\ in' = [in EXCEPT !.cmd = Head(c2s[p]), !.from = p]
         /\ c2s' = [c2s EXCEPT ![p] = Tail(@)]
  /\ UNCHANGED <<connVars, inset, out, backlog, dbacklog, s2c, peerVars, result>>

\* read() < 0, then die(): the peer went with lines unread.
ReadReset(active) ==
  /\ DataPending(active)
  /\ LET p == fdtab[active] IN p \in Peers /\ c2s[p] = <<>> /\ Reset(p)
  /\ Die

CommandReset == pc = "dispatch" /\ ReadReset(cmd_active)

AtEof(obj) == \/ obj \in Peers /\ c2s[obj] = <<>> /\ Closed(obj) /\ ~Reset(obj)
              \/ obj = "mds" /\ ~mdsUp

\* read() = 0, then FD_CLR, removeFd and uscClose.
HangUp(active) ==
  /\ DataPending(active) /\ AtEof(fdtab[active])
  /\ watchset' = watchset \ {active}
  /\ fdtab' = [fdtab EXCEPT ![active] = "free"]
  /\ UNCHANGED <<S_sock, stdoutOpen, mdsUp, inset, in, out, netVars, peerVars, result>>

\* Mutant: uscClose() marks "no connection" by -1.
CommandHangUpMinusOne ==
  /\ Go("dispatch", "flush")
  /\ HangUp(cmd_active)
  /\ cmd_active' = NoSock
  /\ UNCHANGED deb_active

CommandHangUp ==
  /\ Go("dispatch", "flush")
  /\ HangUp(cmd_active)
  /\ cmd_active' = 0
  /\ UNCHANGED deb_active

\* Mutant: uscAccept() without the test for a connection that is active.
AcceptWhileActive ==
  /\ pc = "dispatch" /\ ~DataPending(cmd_active) /\ ConnectionPending(CListenFd)
  /\ backlog # <<>>
  /\ \E fd \in Fds :
       /\ LowestFree(fdtab, fd) /\ fd < FdLimit
       /\ fdtab' = [fdtab EXCEPT ![fd] = Head(backlog)]
       /\ cmd_active' = fd
       /\ watchset' = watchset \cup {fd}
  /\ backlog' = Tail(backlog)
  /\ pc' = "debug"
  /\ UNCHANGED <<deb_active, S_sock, stdoutOpen, mdsUp, inset, in, out, dbacklog, c2s,
                 s2c, peerVars, result>>

\* uscAccept() is tried only with no connection active; else -EBUSY.
AcceptCommand ==
  /\ pc = "dispatch" /\ ~DataPending(cmd_active)
  /\ ConnectionPending(CListenFd) /\ cmd_active = 0
  /\ backlog # <<>>
  /\ \E fd \in Fds :
       /\ LowestFree(fdtab, fd) /\ fd < FdLimit
       /\ fdtab' = [fdtab EXCEPT ![fd] = Head(backlog)]
       /\ cmd_active' = fd
       /\ watchset' = watchset \cup {fd}
  /\ backlog' = Tail(backlog)
  /\ pc' = "debug"
  /\ UNCHANGED <<deb_active, S_sock, stdoutOpen, mdsUp, inset, in, out, dbacklog, c2s,
                 s2c, peerVars, result>>

\* assert(cn->fd_active >= 0) in uscAccept, assert(fd < 32) in addFd.
PoolExhausted == \A fd \in Fds : fd < FdLimit => fdtab[fd] # "free"

CommandAcceptAborts ==
  /\ pc = "dispatch" /\ ~DataPending(cmd_active)
  /\ ConnectionPending(CListenFd) /\ cmd_active = 0
  /\ PoolExhausted
  /\ Die

NoCommand ==
  /\ Go("dispatch", "debug")
  /\ ~DataPending(cmd_active)
  /\ ~ConnectionPending(CListenFd) \/ cmd_active # 0
  /\ UNCHANGED <<connVars, inset, in, out, netVars, peerVars, result>>

\* printf() goes wherever descriptor 1 points, until stdout is closed.
Prompt(p) == [kind |-> "prompt", bad |-> FALSE, to |-> p]
Prompts(obj, n) ==
  IF stdoutOpen /\ obj \in Peers THEN Deliver(obj, [i \in 1..n |-> Prompt(obj)]) ELSE s2c

\* Mutant: doDebug() prints to the command connection.
DebugReadToClient ==
  /\ Go("debug", "flush")
  /\ DataPending(deb_active)
  /\ LET p == fdtab[deb_active]
     IN  p \in Peers /\ c2s[p] # <<>> /\ c2s' = [c2s EXCEPT ![p] = Tail(@)]
  /\ s2c' = Prompts(fdtab[cmd_active], 2)
  /\ UNCHANGED <<connVars, inset, in, out, backlog, dbacklog, peerVars, result>>

\* A line on the debug connection, and doDebug(): two lines printed.
DebugRead ==
  /\ Go("debug", "flush")
  /\ DataPending(deb_active)
  /\ LET p == fdtab[deb_active]
     IN  p \in Peers /\ c2s[p] # <<>> /\ c2s' = [c2s EXCEPT ![p] = Tail(@)]
  /\ s2c' = Prompts(fdtab[1], 2)
  /\ UNCHANGED <<connVars, inset, in, out, backlog, dbacklog, peerVars, result>>

DebugReset == pc = "debug" /\ ReadReset(deb_active)

\* Mutant: the closed debug connection stays in the watch set.
DebugHangUpStillWatched ==
  /\ Go("debug", "flush")
  /\ DataPending(deb_active) /\ AtEof(fdtab[deb_active])
  /\ fdtab' = [fdtab EXCEPT ![deb_active] = "free"]
  /\ deb_active' = 0
  /\ UNCHANGED <<watchset, cmd_active, S_sock, stdoutOpen, mdsUp, inset, in, out,
                 netVars, peerVars, result>>

DebugHangUp ==
  /\ Go("debug", "flush")
  /\ HangUp(deb_active)
  /\ deb_active' = 0
  /\ UNCHANGED cmd_active

\* close(n) and dup(fd).  accept() took the lowest number, so dup() lands on the
\* number just closed, unless that is fd itself.
Redirect(tab, fd, n) == [tab EXCEPT ![n] = IF n = fd THEN "free" ELSE tab[fd]]

\* accept, then close and dup onto 1 and 2, whatever is there.
DebugAccept ==
  /\ Go("debug", "flush")
  /\ ~DataPending(deb_active)
  /\ ConnectionPending(DListenFd) /\ deb_active = 0
  /\ dbacklog # <<>>
  /\ \E fd \in Fds :
       /\ LowestFree(fdtab, fd) /\ fd < FdLimit
       /\ LET accepted == [fdtab EXCEPT ![fd] = Head(dbacklog)]
          IN  fdtab' = Redirect(Redirect(accepted, fd, 1), fd, 2)
       /\ deb_active' = fd
       /\ watchset' = watchset \cup {fd}
  /\ dbacklog' = Tail(dbacklog)
  /\ s2c' = Prompts(Head(dbacklog), 1)
  /\ UNCHANGED <<cmd_active, S_sock, stdoutOpen, mdsUp, inset, in, out, backlog, c2s,
                 peerVars, result>>

DebugAcceptAborts ==
  /\ pc = "debug" /\ ~DataPending(deb_active)
  /\ ConnectionPending(DListenFd) /\ deb_active = 0
  /\ PoolExhausted
  /\ Die

NoDebug ==
  /\ Go("debug", "flush")
  /\ ~DataPending(deb_active)
  /\ ~ConnectionPending(DListenFd) \/ deb_active # 0
  /\ UNCHANGED <<connVars, inset, in, out, netVars, peerVars, result>>

-----------------------------------------------------------------------------
(* mdsshell_doServerCommand() and the handlers of serverCommands[]. *)

\* Mutant: cmd->out.error accumulates over commands.
ReturnStickyError(text, error) ==
  /\ pc' = "flush"
  /\ out' = [text |-> text, error |-> out.error \/ error, to |-> in.from]
  /\ result' = IF in.from \in Peers
               THEN [result EXCEPT ![in.from] = IF error THEN "err" ELSE "ok"]
               ELSE result

\* The handler returns and the loop comes round to iobFlush().
Return(text, error) ==
  /\ pc' = "flush"
  /\ out' = [text |-> text, error |-> error, to |-> in.from]
  /\ result' = IF in.from \in Peers
               THEN [result EXCEPT ![in.from] = IF error THEN "err" ELSE "ok"]
               ELSE result

Executing(cmds) == pc = "execute" /\ in.cmd \in cmds

DoHelp == /\ Executing({"help"}) /\ Return("line", FALSE)
          /\ UNCHANGED <<connVars, inset, in, netVars, peerVars>>

\* An empty line or a comment: no text at all.
DoComment == /\ Executing({"comment"}) /\ Return("none", FALSE)
             /\ UNCHANGED <<connVars, inset, in, netVars, peerVars>>

\* No entry of the table matches, not even the last: assert(0).
DoUnknown == Executing({"unknown", "debugLine"}) /\ Die

\* CloseSocket() of whatever the number names now; the number is kept.
DoDisconnect ==
  /\ Executing({"mdsDisconnect"})
  /\ fdtab' = CloseSocket(S_sock)
  /\ Return("line", FALSE)
  /\ UNCHANGED <<watchset, cmd_active, deb_active, S_sock, stdoutOpen, mdsUp, inset, in,
                 netVars, peerVars>>

\* if (S_sock) DisconnectFromMds(S_sock), then socket() and connect().
WithoutSock == IF S_sock = 0 THEN fdtab ELSE CloseSocket(S_sock)

BeginConnect ==
  /\ Executing({"mdsConnect"})
  /\ \E fd \in Fds :
       /\ LowestFree(WithoutSock, fd)
       /\ fdtab' = [WithoutSock EXCEPT ![fd] = "mds"]
       /\ in' = [in EXCEPT !.fd = fd]
  /\ pc' = "mds"
  /\ mdsUp' = FALSE
  /\ UNCHANGED <<watchset, cmd_active, deb_active, S_sock, stdoutOpen, inset, out,
                 netVars, peerVars, result>>

\* The host is unknown, or socket() fails.
ConnectFailsEarly ==
  /\ Executing({"mdsConnect"})
  /\ fdtab' = WithoutSock
  /\ S_sock' = NoSock
  /\ Return("line", TRUE)
  /\ UNCHANGED <<watchset, cmd_active, deb_active, stdoutOpen, mdsUp, inset, in, netVars,
                 peerVars>>

Connecting == pc = "mds" /\ in.cmd = "mdsConnect"

ConnectDone ==
  /\ Connecting
  /\ S_sock' = in.fd
  /\ mdsUp' = TRUE
  /\ Return("line", FALSE)
  /\ UNCHANGED <<fdtab, watchset, cmd_active, deb_active, stdoutOpen, inset, in, netVars,
                 peerVars>>

\* Refused or denied: the socket is closed.  A handshake that breaks off
\* returns INVALID_SOCKET and leaves it open.
ConnectFails ==
  /\ Connecting
  /\ \E left \in {"free", "leak"} : fdtab' = [fdtab EXCEPT ![in.fd] = left]
  /\ S_sock' = NoSock
  /\ Return("line", TRUE)
  /\ UNCHANGED <<watchset, cmd_active, deb_active, stdoutOpen, mdsUp, inset, in, netVars,
                 peerVars>>

MdsBytes(p) == [kind |-> "mdsmsg", bad |-> FALSE, to |-> p]

\* SendArg() to S_sock: to the daemon, to a client whose connection has that
\* number now, or nowhere (EBADF, ENOTSOCK, EPIPE).  FlushSocket() first throws
\* away what that connection holds.
SendTo(obj) ==
  /\ s2c' = Deliver(obj, <<MdsBytes(in.from)>>)
  /\ c2s' = IF obj \in Peers THEN [c2s EXCEPT ![obj] = <<>>] ELSE c2s
Reachable(obj) == obj = "mds" \/ (obj \in Peers /\ ~Closed(obj))

Ask(tab) ==
  LET obj == IF S_sock \in Fds THEN tab[S_sock] ELSE "free"
  IN  /\ SendTo(obj)
      /\ IF Reachable(obj) THEN pc' = "mds" /\ UNCHANGED <<out, result>>
         ELSE Return("line", TRUE)

DoRequest ==
  /\ Executing(Requests)
  /\ Ask(fdtab)
  /\ UNCHANGED <<connVars, inset, in, backlog, dbacklog, peerVars>>

\* mdsValue -o: the output is opened first, and closed again when the question cannot
\* be asked.
DoValueFile ==
  /\ Executing({"mdsValueFile"})
  /\ Ask(fdtab)
  /\ \E fd \in Fds :
       /\ LowestFree(fdtab, fd)
       /\ fdtab' = IF pc' = "mds" THEN [fdtab EXCEPT ![fd] = "file"] ELSE fdtab
  /\ UNCHANGED <<watchset, cmd_active, deb_active, S_sock, stdoutOpen, mdsUp, inset, in,
                 backlog, dbacklog, peerVars>>

\* fopen() of what -o or -d gives fails.
ValueFileFails ==
  /\ Executing({"mdsValueFile", "mdsValuePutFile"})
  /\ Return("line", TRUE)
  /\ UNCHANGED <<connVars, inset, in, netVars, peerVars>>

\* mdsSetEvent: sent out of band, which only the daemon's socket supports; no
\* answer is read and nothing is printed.
DoSetEvent ==
  /\ Executing({"mdsSetEvent"})
  /\ Return("none", FALSE)
  /\ UNCHANGED <<connVars, inset, in, netVars, peerVars>>

\* A file is read first: a strided read in user space returns before fclose(), and
\* mdsValuePut has none.
DoPutFile ==
  /\ Executing(FileCommands)
  /\ \E fd \in Fds :
       /\ LowestFree(fdtab, fd)
       /\ fdtab' = IF in.cmd \in {"mdsPutStride", "mdsValuePutFile"}
                   THEN [fdtab EXCEPT ![fd] = "leak"] ELSE fdtab
  /\ Ask(fdtab)
  /\ UNCHANGED <<watchset, cmd_active, deb_active, S_sock, stdoutOpen, mdsUp, inset, in,
                 backlog, dbacklog, peerVars>>

\* fopen() fails: "mdsPut aborted", without a newline.
PutFileAborted ==
  /\ Executing({"mdsPutFile", "mdsPutStride"})
  /\ Return("open", TRUE)
  /\ UNCHANGED <<connVars, inset, in, netVars, peerVars>>

\* With a start offset, fseek() comes before the check of fopen()'s result.
PutStartCrashes == Executing({"mdsPutStart"}) /\ Die

Asking == pc = "mds" /\ in.cmd # "mdsConnect"

\* fclose() of the output: the file, or stdout, which is descriptor 1 whatever that
\* names, and nothing when it is closed already.
CloseOutput(tab) ==
  [fd \in Fds |->
     IF tab[fd] = "file" \/ (fd = 1 /\ in.cmd = "mdsValueStdout" /\ stdoutOpen)
     THEN "free" ELSE tab[fd]]

\* A float is printed only in octave format: by default the reply is empty.
Answered(ok, tab) ==
  /\ Return(IF ok /\ in.cmd = "mdsValueFloat" THEN "none" ELSE "line", ~ok)
  /\ fdtab' = CloseOutput(tab)
  /\ stdoutOpen' = (stdoutOpen /\ in.cmd # "mdsValueStdout")

\* The daemon answers; a status of failure or a broken connection is "FAIL".
MdsAnswer ==
  /\ Asking /\ ObjectOf(S_sock) = "mds"
  /\ \E ok \in BOOLEAN : (ok => mdsUp) /\ Answered(ok, fdtab)
  /\ UNCHANGED <<watchset, cmd_active, deb_active, S_sock, mdsUp, inset, in, netVars,
                 peerVars>>

\* GetMdsMsg() gives up on a header it cannot be: the socket is closed and its
\* number kept.
MdsGarbles ==
  /\ BadHeaders /\ Asking /\ ObjectOf(S_sock) = "mds" /\ mdsUp
  /\ Answered(FALSE, CloseSocket(S_sock))
  /\ UNCHANGED <<watchset, cmd_active, deb_active, S_sock, mdsUp, inset, in, netVars,
                 peerVars>>

\* The question went to a client; recv() eats what that client sends and
\* returns when it goes away.
PeerAnswer ==
  /\ Asking
  /\ LET obj == ObjectOf(S_sock)
     IN  /\ obj \in Peers /\ Closed(obj)
         /\ c2s' = [c2s EXCEPT ![obj] = <<>>]
  /\ Answered(FALSE, fdtab)
  /\ UNCHANGED <<watchset, cmd_active, deb_active, S_sock, mdsUp, inset, in, backlog,
                 dbacklog, s2c, peerVars>>

\* longjmp() passes fclose() over.
LeftOpen(tab) == [fd \in Fds |-> IF tab[fd] = "file" THEN "leak" ELSE tab[fd]]

\* Mutant: the timeout branch does not reset S_sock.
MdsTimeoutKeepingSock ==
  /\ Asking /\ in.cmd \in Timed
  /\ fdtab' = LeftOpen(CloseSocket(S_sock))
  /\ Return("line", TRUE)
  /\ UNCHANGED <<watchset, cmd_active, deb_active, S_sock, stdoutOpen, mdsUp, inset, in,
                 netVars, peerVars>>

\* Mutant: the timeout branch prints nothing.
MdsTimeoutSilently ==
  /\ Asking /\ in.cmd \in Timed
  /\ fdtab' = LeftOpen(CloseSocket(S_sock))
  /\ S_sock' = 0
  /\ Return("none", TRUE)
  /\ UNCHANGED <<watchset, cmd_active, deb_active, stdoutOpen, mdsUp, inset, in, netVars,
                 peerVars>>

\* SIGALRM: longjmp out of MdsValue, disconnect, S_sock = 0.
MdsTimeout ==
  /\ Asking /\ in.cmd \in Timed
  /\ fdtab' = LeftOpen(CloseSocket(S_sock))
  /\ S_sock' = 0
  /\ Return("line", TRUE)
  /\ UNCHANGED <<watchset, cmd_active, deb_active, stdoutOpen, mdsUp, inset, in, netVars,
                 peerVars>>

-----------------------------------------------------------------------------
(* The environment: the daemon, and the clients. *)

MdsHangUp ==
  /\ mdsUp /\ mdsUp' = FALSE
  /\ UNCHANGED <<fdtab, watchset, cmd_active, deb_active, S_sock, stdoutOpen, inset, pc,
                 in, out, netVars, peerVars, result>>

serverVars == <<connVars, inset, pc, in, out>>
Limit(p) == IF p \in Persistent THEN MaxCmds ELSE 1

\* connect() blocks while the listener's queue is full.
Connect(p) ==
  /\ cpc[p] = "start" /\ pc # "dead"
  /\ IF p \in Clients
     THEN Len(backlog) <= Backlog /\ backlog' = Append(backlog, p) /\ UNCHANGED dbacklog
     ELSE Len(dbacklog) <= Backlog /\ dbacklog' = Append(dbacklog, p) /\ UNCHANGED backlog
  /\ cpc' = [cpc EXCEPT ![p] = "connected"]
  /\ UNCHANGED <<serverVars, c2s, s2c, sent, verdict, result>>

SendCommand(c) ==
  /\ cpc[c] = "connected" /\ Held(c) /\ sent[c] < Limit(c)
  /\ \E k \in Commands : c2s' = [c2s EXCEPT ![c] = Append(@, k)]
  /\ cpc' = [cpc EXCEPT ![c] = "waiting"]
  /\ sent' = [sent EXCEPT ![c] = @ + 1]
  /\ verdict' = [verdict EXCEPT ![c] = "none"]
  /\ result' = [result EXCEPT ![c] = "none"]
  /\ UNCHANGED <<serverVars, backlog, dbacklog, s2c>>

\* One line of the reply.  client_work wants a line that starts with EOF and
\* takes the outcome from it; MdsShellTransaction wants a line that contains
\* EOF and counts the lines that contain ERROR or FAIL.
ReadLine(c) ==
  /\ cpc[c] = "waiting" /\ s2c[c] # <<>>
  /\ LET line == Head(s2c[c])
         last == line.kind \in {"EOF", "EOF ERR"} \cup
                               IF c \in Persistent THEN {"glued"} ELSE {}
         failed == \/ line.kind = "EOF ERR" /\ c \notin Persistent
                   \/ c \in Persistent /\ (line.bad \/ verdict[c] = "err")
     IN  /\ verdict' = [verdict EXCEPT ![c] =
                          IF failed THEN "err" ELSE IF last THEN "ok" ELSE @]
         /\ cpc' = IF last THEN [cpc EXCEPT ![c] = "connected"] ELSE cpc
  /\ s2c' = [s2c EXCEPT ![c] = Tail(@)]
  /\ UNCHANGED <<serverVars, backlog, dbacklog, c2s, sent, result>>

\* The commands are done.
Leave(c) ==
  /\ cpc[c] = "connected" /\ sent[c] > 0
  /\ sent[c] = Limit(c) \/ c \in Persistent
  /\ cpc' = [cpc EXCEPT ![c] = "exited"]
  /\ UNCHANGED <<serverVars, netVars, sent, verdict, result>>

\* The server is gone, or closed this connection.  client_work exits; a
\* transaction does not look for end of file and waits for ever.
Lost(c) ==
  /\ \/ cpc[c] = "start" /\ pc = "dead"
     \/ cpc[c] = "connected" /\ ~Held(c)
     \/ cpc[c] = "waiting" /\ ~Held(c) /\ s2c[c] = <<>> /\ c \notin Persistent
  /\ cpc' = [cpc EXCEPT ![c] = "exited"]
  /\ verdict' = [verdict EXCEPT ![c] = "lost"]
  /\ UNCHANGED <<serverVars, netVars, sent, result>>

Kill(p) ==
  /\ p \in MayDie /\ cpc[p] \in {"connected", "waiting"}
  /\ UnreadDeath \/ s2c[p] = <<>>
  /\ cpc' = [cpc EXCEPT ![p] = "exited"]
  /\ verdict' = [verdict EXCEPT ![p] = "lost"]
  /\ UNCHANGED <<serverVars, netVars, sent, result>>

\* A debug client: lines out, lines in, and away.
DebugSend(d) ==
  /\ cpc[d] = "connected" /\ Held(d) /\ sent[d] < Limit(d)
  /\ c2s' = [c2s EXCEPT ![d] = Append(@, "debugLine")]
  /\ sent' = [sent EXCEPT ![d] = @ + 1]
  /\ UNCHANGED <<serverVars, backlog, dbacklog, s2c, cpc, verdict, result>>

DebugReceive(d) ==
  /\ cpc[d] = "connected" /\ s2c[d] # <<>>
  /\ s2c' = [s2c EXCEPT ![d] = Tail(@)]
  /\ UNCHANGED <<serverVars, backlog, dbacklog, c2s, peerVars, result>>

DebugLeave(d) ==
  /\ cpc[d] = "connected" /\ s2c[d] = <<>>
  /\ cpc' = [cpc EXCEPT ![d] = "exited"]
  /\ UNCHANGED <<serverVars, netVars, sent, verdict, result>>

-----------------------------------------------------------------------------
Loop == Flush \/ SelectFails \/ Select
Commanding == ReadCommand \/ CommandReset \/ CommandHangUp \/ AcceptCommand
                \/ CommandAcceptAborts \/ NoCommand
Debugging == DebugRead \/ DebugReset \/ DebugHangUp \/ DebugAccept
               \/ DebugAcceptAborts \/ NoDebug
Execute == DoHelp \/ DoComment \/ DoUnknown \/ DoDisconnect \/ BeginConnect
             \/ ConnectFailsEarly \/ DoRequest \/ DoValueFile \/ ValueFileFails
             \/ DoSetEvent \/ DoPutFile \/ PutFileAborted \/ PutStartCrashes
ConnectEnds == ConnectDone \/ ConnectFails
RequestEnds == MdsAnswer \/ MdsGarbles \/ PeerAnswer

Server == Loop \/ Commanding \/ Debugging \/ Execute
Client(c) == Connect(c) \/ SendCommand(c) \/ ReadLine(c) \/ Leave(c) \/ Lost(c)
DebugClient(d) == Connect(d) \/ DebugSend(d) \/ DebugReceive(d) \/ DebugLeave(d) \/ Lost(d)

\* Everybody is gone and the server has nothing to do.
Rest ==
  /\ \A p \in Peers : Closed(p)
  /\ \/ pc = "dead"
     \/ pc = "select" /\ \A fd \in watchset : fdtab[fd] # "free" /\ ~Readable(fd)
  /\ UNCHANGED vars

Next ==
  \/ Server \/ ConnectEnds \/ RequestEnds \/ MdsTimeout \/ MdsHangUp
  \/ \E c \in Clients : Client(c)
  \/ \E d \in DebugClients : DebugClient(d)
  \/ \E p \in Peers : Kill(p)
  \/ Rest

Spec == Init /\ [][Next]_vars

\* The server runs, a connect ends, clients go on; nobody has to be killed.
BaseFairness ==
  /\ WF_vars(Server) /\ WF_vars(ConnectEnds)
  /\ \A c \in Clients : WF_vars(Client(c))
  /\ \A d \in DebugClients : WF_vars(DebugClient(d))

\* The daemon answers, or its connection breaks; where a command has a timeout it
\* need not, and the alarm goes off.
FairSpec ==
  Spec /\ BaseFairness /\ WF_vars(MdsTimeout)
       /\ WF_vars(in.cmd \notin Timed /\ RequestEnds)
-----------------------------------------------------------------------------
(* Properties. *)

\* Every line a client of the command socket receives belongs to the reply to
\* its own command: never another client's reply, never bytes of the mdsip
\* protocol, never debug output - whatever the order of accepts, closes and
\* reconnects did to the descriptor numbers.
ReplyToRequester ==
  \A c \in Clients : \A i \in DOMAIN s2c[c] :
    s2c[c][i].to = c /\ s2c[c][i].kind \notin {"mdsmsg", "prompt"}

\* The outcome a client reports is the outcome its own last command had at the
\* server: the flag on the EOF line is not left over from another command.
VerdictTruthful ==
  \A c \in Clients : verdict[c] \in {"ok", "err"} => verdict[c] = result[c]

\* A command runs at most once and its reply is written at most once: a finished
\* reply on its way to a client is the only one, and it comes after the command
\* has run.
AnsweredOnce ==
  \A c \in Clients :
    LET ends == {i \in DOMAIN s2c[c] :
                   s2c[c][i].to = c /\ s2c[c][i].kind \in {"EOF", "EOF ERR", "glued"}}
    IN  ends # {} => /\ Cardinality(ends) = 1
                     /\ c2s[c] = <<>> /\ result[c] # "none"
                     /\ cpc[c] \in {"waiting", "exited"}

\* The numbers the code keeps and the objects they name agree: each accepted
\* connection is the active one (none is orphaned by a second accept), the
\* daemon's socket is S_sock and S_sock names nothing but it.
DescriptorsAgree ==
  pc \in {"select", "dispatch"} =>
    /\ \A fd \in Fds :
         /\ fdtab[fd] \in Clients => fd = cmd_active
         /\ fdtab[fd] = "mds" => fd = S_sock
    /\ S_sock > 0 => fdtab[S_sock] = "mds"
    /\ cmd_active # 0 => fdtab[cmd_active] \in Clients

\* A client that has sent a command hears the end of the reply (or has gone).
EveryoneAnswered == \A c \in Clients : cpc[c] = "waiting" ~> cpc[c] # "waiting"

\* The server implements the abstract proxy: phases are read off where a
\* client's command and its reply are.
PhaseOf(c) ==
  CASE cpc[c] = "start" -> "idle"
    [] cpc[c] = "exited" -> "gone"
    [] cpc[c] = "connected" -> IF sent[c] = 0 THEN "idle" ELSE "answered"
    [] cpc[c] = "waiting" -> IF c2s[c] # <<>> THEN "asked" ELSE "served"

Proxy == INSTANCE CommandProxy
  WITH phase <- [c \in Clients |-> PhaseOf(c)],
       outcome <- [c \in Clients |-> result[c]]

ImplementsProxy == Proxy!PSpec
=============================================================================

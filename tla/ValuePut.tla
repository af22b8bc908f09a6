------------------------------- MODULE ValuePut -------------------------------
(***************************************************************************)
(* mdsValuePut in the server (doMdsValuePut, doMdsValuePutSegment,         *)
(* _doMdsValuePut in mdsshell.c) with the alarm of timeout.c: the channels *)
(* of a capture are sent to the daemon one question at a time, in segments *)
(* of a window, each answer is waited for, and one alarm() with one        *)
(* longjmp() target guards the wait.  mdsValue shares the alarm.           *)
(***************************************************************************)
EXTENDS Integers, Sequences, FiniteSets

CONSTANTS
  MaxChan,    \* MAXCHAN, 96 in mdsshell.c
  Requests,   \* the commands that may be given
  Files,      \* channels that have a data file
  FileLen,    \* samples in a data file
  SpanMod,    \* 2^32: seg_span is an unsigned
  MaxLosses   \* bound: times the daemon's connection breaks of itself

Unset == -1   \* the option -t was not given
Timebase == 0 \* CH00

\* A command.  For a put: channels, timebase wanted, -t, --nsegs, the window and
\* the constants k0, k1, k2 with the number of them that were given.
Request == [kind : {"put", "value", "connect"}, chans : SUBSET (1..MaxChan), tb : BOOLEAN,
            t : {Unset} \cup Nat, nsegs : Nat, start : Nat, len : Nat,
            k0 : Nat, k1 : Nat, k2 : Nat, nk : 0..3]

ASSUME SizesAssumption ==
  /\ MaxChan \in Nat \ {0} /\ FileLen \in Nat /\ SpanMod \in Nat \ {0} /\ MaxLosses \in Nat
  /\ Requests \subseteq Request /\ Requests # {} /\ Files \subseteq 1..MaxChan
  /\ \A r \in Requests : r.k0 <= r.k1

VARIABLES
  pc,       \* idle, channel, asking, answered, segment; dead (exit), wild (longjmp)
  req,      \* the command being executed
  timeout,  \* the global: what -t of an mdsValuePut left there
  alarm,    \* off; set, with its longjmp target live or dead
  up,       \* S_sock is a connection to the daemon
  owed,     \* questions the daemon has yet to answer on it
  todo,     \* channels the loop over ic has still to visit
  cur,      \* the put whose answer is awaited
  nelems,   \* length of the timebase, from the first channel of the segment
  status,   \* status of the last put
  seg,      \* segment: number, window and time range
  puts,     \* what the command takes for acknowledged
  result,   \* none, ok, err, timeout: outcome of the command
  losses    \* connections lost so far

vars == <<pc, req, timeout, alarm, up, owed, todo, cur, nelems, status, seg, puts,
          result, losses>>

Put == [ch : 0..MaxChan, seg : Nat, from : Nat, n : Nat, k0 : Nat, k1 : Nat]
Segment == [i : Nat, start : Nat, len : Nat, k0 : Nat, k1 : Nat]

TypeOK ==
  /\ pc \in {"idle", "channel", "asking", "answered", "segment", "dead", "wild"}
  /\ req \in Request
  /\ timeout \in Nat
  /\ alarm \in {"off", "live", "dead"}
  /\ up \in BOOLEAN /\ status \in BOOLEAN
  /\ owed \in Seq(Put)
  /\ todo \subseteq 1..MaxChan
  /\ cur \in Put
  /\ nelems \in Nat
  /\ seg \in Segment
  /\ puts \in Seq(Put)
  /\ result \in {"none", "ok", "err", "timeout"}
  /\ losses \in Nat

NoRequest == [kind |-> "connect", chans |-> {}, tb |-> FALSE, t |-> Unset, nsegs |-> 0,
              start |-> 0, len |-> 0, k0 |-> 0, k1 |-> 0, k2 |-> 0, nk |-> 0]
NoPut == [ch |-> 0, seg |-> 0, from |-> 0, n |-> 0, k0 |-> 0, k1 |-> 0]
NoSegment == [i |-> 0, start |-> 0, len |-> 0, k0 |-> 0, k1 |-> 0]

Init ==
  /\ pc = "idle" /\ req = NoRequest
  /\ timeout = 0 /\ alarm = "off"
  /\ up = FALSE /\ owed = <<>>
  /\ todo = {} /\ cur = NoPut /\ nelems = 0 /\ status = FALSE
  /\ seg = NoSegment /\ puts = <<>> /\ result = "none" /\ losses = 0

-----------------------------------------------------------------------------
(* Arithmetic of windows and segments. *)

Lesser(a, b) == IF a < b THEN a ELSE b
Segments(r) == IF r.nsegs <= 1 THEN 1 ELSE r.nsegs
Span(r) == ((r.k1 - r.k0) \div r.nsegs) % SpanMod

\* The loop `for (ic = 1; ic < MAXCHAN; ++ic)`.
Visited(r) == {c \in r.chans : c < MaxChan}

FirstSegment(r) ==
  IF r.nsegs <= 1
  THEN [i |-> 1, start |-> r.start, len |-> r.len, k0 |-> r.k0, k1 |-> r.k1]
  ELSE [i |-> 1, start |-> r.start, len |-> r.len \div r.nsegs,
        k0 |-> r.k0, k1 |-> r.k0 + Span(r)]

\* Mutant: windows overlap by a sample.
OverlappingSegment(r, s) ==
  [s EXCEPT !.i = @ + 1, !.k0 = s.k1 + r.k2, !.k1 = @ + Span(r), !.start = @ + s.len - 1]

\* Mutant: the end of the time range stays.
SameEndSegment(r, s) ==
  [s EXCEPT !.i = @ + 1, !.k0 = s.k1 + r.k2, !.start = @ + s.len]

NextSegment(r, s) ==
  [i |-> s.i + 1, start |-> s.start + s.len, len |-> s.len,
   k0 |-> s.k1 + r.k2, k1 |-> s.k1 + Span(r)]

\* Samples fread() returns: no window means the whole file.
SamplesRead(s) ==
  IF s.len = 0 THEN FileLen
  ELSE IF s.start >= FileLen THEN 0 ELSE Lesser(FileLen - s.start, s.len)

\* Mutant: the rest of the file as a signed number.
SignedElems(s) == IF s.len = 0 THEN FileLen ELSE Lesser(FileLen - s.start, s.len)

\* Mutant: the length of the window, whatever the file holds.
WindowElems(s) == IF s.len = 0 THEN FileLen ELSE s.len

\* chx->nelems, from flen: past the end of the file, `rembytes` wraps to a huge
\* unsigned and the window's length is taken.
Elems(s) ==
  IF s.len = 0 THEN FileLen
  ELSE IF s.start > FileLen THEN s.len ELSE Lesser(FileLen - s.start, s.len)

-----------------------------------------------------------------------------
(* The commands. *)

\* The handler returns: its stack frame, the longjmp() target, is gone.
Return(r, now) ==
  /\ pc' = "idle"
  /\ result' = r
  /\ alarm' = IF now = "live" THEN "dead" ELSE now

Armed(t) == IF t # 0 THEN "live" ELSE alarm

\* Asking for segments takes k0, k1 and a window; a put takes channels.
Unsuitable(r) ==
  \/ r.chans = {}
  \/ r.nsegs > 1 /\ (r.nk < 2 \/ r.len = 0)

\* poptGetContext() writes -t straight into the global.
TimeoutOption(r) == IF r.t = Unset THEN timeout ELSE r.t

RejectPut(r) ==
  /\ pc = "idle" /\ r.kind = "put" /\ Unsuitable(r)
  /\ req' = r /\ timeout' = TimeoutOption(r)
  /\ puts' = <<>>
  /\ Return("err", Armed(timeout'))
  /\ UNCHANGED <<up, owed, todo, cur, nelems, status, seg, losses>>

\* Mutant: the alarm is not set.
BeginPutUnarmed(r) ==
  /\ pc = "idle" /\ r.kind = "put" /\ ~Unsuitable(r)
  /\ req' = r /\ timeout' = TimeoutOption(r)
  /\ pc' = "channel" /\ result' = "none" /\ puts' = <<>>
  /\ seg' = FirstSegment(r) /\ todo' = Visited(r)
  /\ nelems' = 0 /\ status' = FALSE
  /\ UNCHANGED <<alarm, up, owed, cur, losses>>

BeginPut(r) ==
  /\ pc = "idle" /\ r.kind = "put" /\ ~Unsuitable(r)
  /\ req' = r /\ timeout' = TimeoutOption(r)
  /\ alarm' = Armed(timeout')
  /\ pc' = "channel" /\ result' = "none" /\ puts' = <<>>
  /\ seg' = FirstSegment(r) /\ todo' = Visited(r)
  /\ nelems' = 0 /\ status' = FALSE
  /\ UNCHANGED <<up, owed, cur, losses>>

\* The channel the loop comes to.
Upcoming(c) == c \in todo /\ \A d \in todo : c <= d

\* SendArg(): FlushSocket() throws away what has arrived, then the question.
Ask(p) ==
  /\ cur' = p
  /\ pc' = "asking"
  /\ \E kept \in {<<>>, owed} : owed' = IF up THEN Append(kept, p) ELSE <<>>

PutChannel ==
  /\ pc = "channel"
  /\ \E c \in Files :
       /\ Upcoming(c)
       /\ Ask([ch |-> c, seg |-> seg.i, from |-> seg.start, n |-> SamplesRead(seg),
               k0 |-> seg.k0, k1 |-> seg.k1])
       /\ todo' = todo \ {c}
  /\ nelems' = IF nelems = 0 THEN Elems(seg) ELSE nelems
  /\ UNCHANGED <<req, timeout, alarm, up, status, seg, puts, result, losses>>

\* The channel has no file: exit(errno), in the server.
ChannelMissing ==
  /\ pc = "channel"
  /\ \E c \in todo \ Files : Upcoming(c)
  /\ pc' = "dead"
  /\ UNCHANGED <<req, timeout, alarm, up, owed, todo, cur, nelems, status, seg, puts,
                 result, losses>>

PutTimebase ==
  /\ pc = "channel" /\ todo = {} /\ req.tb
  /\ Ask([ch |-> Timebase, seg |-> seg.i, from |-> seg.start, n |-> nelems,
          k0 |-> seg.k0, k1 |-> seg.k1])
  /\ UNCHANGED <<req, timeout, alarm, up, todo, nelems, status, seg, puts, result, losses>>

\* MdsValue() returns: with the first answer on the connection, or without one.
\* Nothing ties an answer to its question.
Answer ==
  /\ pc = "asking" /\ pc' = "answered"
  /\ \E ok \in BOOLEAN :
       /\ ok => owed # <<>>
       /\ status' = ok
       /\ puts' = IF ok THEN Append(puts, Head(owed)) ELSE puts
  /\ owed' = IF owed = <<>> THEN owed ELSE Tail(owed)
  /\ UNCHANGED <<req, timeout, alarm, up, todo, cur, nelems, seg, result, losses>>

\* Mutant: the alarm is left running after the answer.
PutAnsweredStillArmed ==
  /\ pc = "answered" /\ req.kind = "put"
  /\ todo' = IF status \/ cur.ch = Timebase THEN todo ELSE {}
  /\ pc' = IF cur.ch = Timebase THEN "segment" ELSE "channel"
  /\ UNCHANGED <<req, timeout, alarm, up, owed, cur, nelems, status, seg, puts, result,
                 losses>>

\* Mutant: the channel loop goes on after a failure.
PutAnsweredNoBreak ==
  /\ pc = "answered" /\ req.kind = "put"
  /\ alarm' = IF timeout # 0 THEN "off" ELSE alarm
  /\ pc' = IF cur.ch = Timebase THEN "segment" ELSE "channel"
  /\ UNCHANGED <<req, timeout, up, owed, todo, cur, nelems, status, seg, puts, result, losses>>

\* set_timeout(0, 0) after the first answer; a failure breaks the channel loop.
PutAnswered ==
  /\ pc = "answered" /\ req.kind = "put"
  /\ alarm' = IF timeout # 0 THEN "off" ELSE alarm
  /\ todo' = IF status \/ cur.ch = Timebase THEN todo ELSE {}
  /\ pc' = IF cur.ch = Timebase THEN "segment" ELSE "channel"
  /\ UNCHANGED <<req, timeout, up, owed, cur, nelems, status, seg, puts, result, losses>>

SegmentDone == \/ pc = "segment"
               \/ pc = "channel" /\ todo = {} /\ ~req.tb

BeginSegment ==
  /\ SegmentDone /\ status /\ seg.i < Segments(req)
  /\ seg' = NextSegment(req, seg)
  /\ todo' = Visited(req) /\ nelems' = 0 /\ status' = FALSE
  /\ pc' = "channel"
  /\ UNCHANGED <<req, timeout, alarm, up, owed, cur, puts, result, losses>>

FinishPut ==
  /\ SegmentDone
  /\ ~status \/ seg.i = Segments(req)
  /\ Return(IF status THEN "ok" ELSE "err", alarm)
  /\ UNCHANGED <<req, timeout, up, owed, todo, cur, nelems, status, seg, puts, losses>>

\* Mutant: mdsValue uses the global too.
BeginValueGlobal(r) ==
  /\ pc = "idle" /\ r.kind = "value"
  /\ req' = r /\ timeout' = TimeoutOption(r)
  /\ alarm' = Armed(timeout')
  /\ Ask(NoPut)
  /\ puts' = <<>> /\ result' = "none"
  /\ UNCHANGED <<up, todo, nelems, status, seg, losses>>

\* mdsValue has a timeout of its own.
BeginValue(r) ==
  /\ pc = "idle" /\ r.kind = "value"
  /\ req' = r
  /\ alarm' = Armed(IF r.t = Unset THEN 0 ELSE r.t)
  /\ Ask(NoPut)
  /\ puts' = <<>> /\ result' = "none"
  /\ UNCHANGED <<timeout, up, todo, nelems, status, seg, losses>>

ValueAnswered ==
  /\ pc = "answered" /\ req.kind = "value"
  /\ Return(IF status THEN "ok" ELSE "err", IF req.t > 0 THEN "off" ELSE alarm)
  /\ UNCHANGED <<req, timeout, up, owed, todo, cur, nelems, status, seg, puts, losses>>

Connect(r) ==
  /\ pc = "idle" /\ r.kind = "connect"
  /\ req' = r /\ puts' = <<>>
  /\ up' \in BOOLEAN /\ owed' = <<>>
  /\ Return(IF up' THEN "ok" ELSE "err", alarm)
  /\ UNCHANGED <<timeout, todo, cur, nelems, status, seg, losses>>

\* Mutant: the timeout branch leaves the connection open.
RingKeepingConnection ==
  /\ alarm = "live" /\ pc # "dead"
  /\ alarm' = "off"
  /\ pc' = "idle" /\ result' = "timeout" /\ status' = FALSE
  /\ UNCHANGED <<req, timeout, up, owed, todo, cur, nelems, seg, puts, losses>>

\* SIGALRM in the command that set the alarm: longjmp(), disconnect, S_sock = 0.
Ring ==
  /\ alarm = "live" /\ pc # "dead"
  /\ alarm' = "off"
  /\ up' = FALSE /\ owed' = <<>>
  /\ pc' = "idle" /\ result' = "timeout" /\ status' = FALSE
  /\ UNCHANGED <<req, timeout, todo, cur, nelems, seg, puts, losses>>

\* SIGALRM after that command has returned: longjmp() to a dead frame.
RingWild ==
  /\ alarm = "dead" /\ pc \notin {"dead", "wild"}
  /\ pc' = "wild"
  /\ UNCHANGED <<req, timeout, alarm, up, owed, todo, cur, nelems, status, seg, puts,
                 result, losses>>

Lose ==
  /\ up /\ losses < MaxLosses /\ pc \notin {"dead", "wild"}
  /\ up' = FALSE /\ owed' = <<>>
  /\ losses' = losses + 1
  /\ UNCHANGED <<pc, req, timeout, alarm, todo, cur, nelems, status, seg, puts, result>>

Stopped == pc \in {"dead", "wild"} /\ UNCHANGED vars

Work == PutChannel \/ ChannelMissing \/ PutTimebase \/ PutAnswered \/ BeginSegment
          \/ FinishPut \/ ValueAnswered
Begin == \E r \in Requests : RejectPut(r) \/ BeginPut(r) \/ BeginValue(r) \/ Connect(r)

Next == Begin \/ Work \/ Answer \/ Ring \/ RingWild \/ Lose \/ Stopped

Spec == Init /\ [][Next]_vars

\* The server runs and an alarm that is set goes off; nothing makes the daemon
\* answer, but a question to nobody fails at once.
TimedSpec == Spec /\ WF_vars(Work) /\ WF_vars(Ring) /\ WF_vars(~up /\ Answer)

-----------------------------------------------------------------------------
(* Properties. *)

Finished == req.kind = "put" /\ pc = "idle" /\ result = "ok"
Earlier(p, q) ==
  \/ p.seg < q.seg
  \/ p.seg = q.seg /\ p.ch # Timebase /\ (q.ch = Timebase \/ p.ch < q.ch)

\* The put of a segment has the window and the time range that the segment's
\* number gives in closed form.
Planned(r, p) ==
  IF r.nsegs <= 1
  THEN p.seg = 1 /\ p.from = r.start /\ p.k0 = r.k0 /\ p.k1 = r.k1
  ELSE /\ p.seg \in 1..r.nsegs
       /\ p.from = r.start + (p.seg - 1) * (r.len \div r.nsegs)
       /\ p.k1 = r.k0 + p.seg * Span(r)
       /\ p.k0 = IF p.seg = 1 THEN r.k0 ELSE r.k0 + (p.seg - 1) * Span(r) + r.k2

\* What a put of mdsValuePut takes for acknowledged was asked by this command:
\* in the order of segments and channels, each as planned.  A late answer to an
\* earlier question never counts.
PutsFollowPlan ==
  req.kind = "put" =>
    /\ \A j \in DOMAIN puts : Planned(req, puts[j])
    /\ \A i, j \in DOMAIN puts : i < j => Earlier(puts[i], puts[j])

\* A command that reports success has had every put it makes acknowledged, in
\* every segment: an error of one channel is not lost.
OkMeansAll ==
  Finished =>
    {<<puts[j].seg, puts[j].ch>> : j \in DOMAIN puts} =
      (1..Segments(req)) \X (Visited(req) \cup IF req.tb THEN {Timebase} ELSE {})

\* Splitting the upload into segments sends each sample of the window of each
\* channel once, and no other sample.
SamplesOnce ==
  Finished =>
    \A c \in req.chans : \A x \in 0..(FileLen - 1) :
      LET times == {j \in DOMAIN puts : puts[j].ch = c
                       /\ puts[j].from <= x /\ x < puts[j].from + puts[j].n}
          wanted == req.len = 0 \/ x \in req.start..(req.start + req.len - 1)
      IN  Cardinality(times) = IF wanted THEN 1 ELSE 0

\* The segments' time ranges reach from k0 to k1, but for the rounding of the
\* span.
TimeCovered ==
  Finished => /\ \E j \in DOMAIN puts : puts[j].k0 = req.k0
              /\ \E j \in DOMAIN puts : puts[j].k1 + Segments(req) > req.k1
              /\ \A j \in DOMAIN puts : puts[j].k1 <= req.k1

StartsInFile(p) == p.from <= FileLen   \* or at its end

\* The timebase of a segment that starts inside the file, or at its end, has a time for
\* each sample of its channels.  One that starts past the end has times, computed from
\* the window, and no samples.
TimebaseMatches ==
  \A i, j \in DOMAIN puts :
    /\ req.kind = "put" /\ puts[i].ch = Timebase
    /\ puts[j].seg = puts[i].seg /\ StartsInFile(puts[i])
    => puts[j].n = puts[i].n

\* No alarm outlives the command that set it: longjmp() never goes to a frame
\* that has returned.
NoWildJump == pc # "wild"

\* A command times out only if a timeout was asked of it.
OnlyAskedTimeouts == result = "timeout" => req.t > 0

\* A command with a timeout ends, whether or not the daemon answers.
EveryPutEnds == pc \in {"channel", "asking", "answered", "segment"} /\ req.t > 0 ~> pc = "idle"
=============================================================================

------------------------- MODULE ValuePutOutcomeProofs -------------------------
(***************************************************************************)
(* What a put that reports success has done, and what its alarm may do,    *)
(* for any files and constants.  Each theorem names the condition on the   *)
(* requests that it needs; MCValuePut's RegularRequests meets them all.    *)
(***************************************************************************)
EXTENDS ValuePutProofs, FiniteSetTheorems

-----------------------------------------------------------------------------
(* The alarm. *)

\* Every put gives -t, be it 0.
PutsSayTimeout == \A r \in Requests : r.kind = "put" => r.t # Unset

\* A put with a timeout gets as far as a first answer.
TimedPutsAsk ==
  \A r \in Requests :
    r.kind = "put" /\ r.t > 0 => ~Unsuitable(r) /\ (Visited(r) # {} \/ r.tb)

\* An alarm that is set belongs to the command being executed.
AlarmInv ==
  /\ alarm = "live" => pc # "idle" /\ req.t > 0
  /\ alarm = "live" /\ req.kind = "put" => timeout = req.t
  /\ result = "timeout" => req.t > 0

LEMMA TimeoutSaid ==
  ASSUME PutsSayTimeout, NEW r \in Requests, r.kind = "put"
  PROVE  r.t \in Nat /\ TimeoutOption(r) = r.t
BY SizesAssumption, RequestFields DEF PutsSayTimeout, TimeoutOption

LEMMA AlarmStep ==
  ASSUME PutsSayTimeout, SegmentInv, AlarmInv, [Next]_vars
  PROVE  AlarmInv'
<1> USE DEF AlarmInv
<1>1. ASSUME NEW r \in Requests, RejectPut(r) PROVE AlarmInv'
  BY <1>1 DEF RejectPut, Return
<1>2. ASSUME NEW r \in Requests, BeginPut(r) PROVE AlarmInv'
  BY <1>2, TimeoutSaid DEF BeginPut, Armed
<1>3. ASSUME NEW r \in Requests, BeginValue(r) PROVE AlarmInv'
  <2>1. r.t = Unset \/ r.t \in Nat BY SizesAssumption, RequestFields
  <2>2. QED BY <1>3, <2>1 DEF BeginValue, Armed, Ask, Unset
<1>4. ASSUME NEW r \in Requests, Connect(r) PROVE AlarmInv' BY <1>4 DEF Connect, Return
<1>5. CASE PutChannel \/ PutTimebase \/ Answer
  BY <1>5 DEF PutChannel, PutTimebase, Answer, Ask
<1>6. CASE ChannelMissing BY <1>6 DEF ChannelMissing
<1>7. CASE PutAnswered BY <1>7 DEF PutAnswered
<1>8. CASE BeginSegment BY <1>8 DEF BeginSegment
<1>9. CASE FinishPut \/ ValueAnswered BY <1>9 DEF FinishPut, ValueAnswered, Return
<1>10. CASE Ring BY <1>10 DEF Ring
<1>11. CASE RingWild \/ Lose BY <1>11 DEF RingWild, Lose
<1>12. CASE UNCHANGED vars BY <1>12 DEF vars
<1>13. QED
  BY <1>1, <1>2, <1>3, <1>4, <1>5, <1>6, <1>7, <1>8, <1>9, <1>10, <1>11, <1>12
     DEF Next, Begin, Work, Stopped

\* If every put says which timeout it wants, a command times out only when it asked
\* for that: what an earlier command left in the global never reaches it.
THEOREM TimeoutsAsked ==
  ASSUME PutsSayTimeout PROVE Spec => []OnlyAskedTimeouts
<1>1. Init => AlarmInv BY DEF Init, AlarmInv
<1>2. AlarmInv => OnlyAskedTimeouts BY DEF AlarmInv, OnlyAskedTimeouts
<1>3. QED BY <1>1, <1>2, SegmentInit, SegmentStep, AlarmStep, PTL DEF Spec

\* An alarm that is set is taken back by the first answer, and there will be one.
FirstAnswerInv ==
  /\ alarm # "dead" /\ pc # "wild"
  /\ alarm = "live" /\ req.kind = "put" =>
       pc # "segment" /\ (pc = "channel" => todo # {} \/ req.tb)

LEMMA FirstAnswerStep ==
  ASSUME PutsSayTimeout, TimedPutsAsk, SegmentInv, AlarmInv, FirstAnswerInv, [Next]_vars
  PROVE  FirstAnswerInv'
<1> USE DEF FirstAnswerInv
<1>0. alarm \in {"off", "live"} /\ (pc = "idle" => alarm = "off")
  BY DEF AlarmInv, SegmentInv, TypeOK
<1>a. SegmentDone => alarm = "off"
  BY <1>0 DEF SegmentDone, SegmentInv
<1>1. ASSUME NEW r \in Requests, RejectPut(r) PROVE FirstAnswerInv'
  <2>1. r.t = 0
    BY <1>1, TimeoutSaid DEF RejectPut, TimedPutsAsk
  <2>2. alarm' = "off" /\ pc' = "idle"
    BY <1>0, <1>1, <2>1, TimeoutSaid DEF RejectPut, Return, Armed
  <2>3. QED BY <2>2
<1>2. ASSUME NEW r \in Requests, BeginPut(r) PROVE FirstAnswerInv'
  <2>1. /\ pc' = "channel" /\ req' = r /\ todo' = Visited(r) /\ r.kind = "put"
        /\ alarm' = IF r.t # 0 THEN "live" ELSE alarm
        /\ pc = "idle" /\ r.t \in Nat
    BY <1>2, TimeoutSaid DEF BeginPut, Armed
  <2>2. r.t # 0 => Visited(r) # {} \/ r.tb BY <2>1 DEF TimedPutsAsk
  <2>3. QED BY <1>0, <2>1, <2>2
<1>3. ASSUME NEW r \in Requests, BeginValue(r) PROVE FirstAnswerInv'
  BY <1>0, <1>3 DEF BeginValue, Armed, Ask
<1>4. ASSUME NEW r \in Requests, Connect(r) PROVE FirstAnswerInv'
  BY <1>0, <1>4 DEF Connect, Return
<1>5. CASE PutChannel \/ PutTimebase \/ Answer
  BY <1>5 DEF PutChannel, PutTimebase, Answer, Ask
<1>6. CASE ChannelMissing BY <1>6 DEF ChannelMissing
<1>7. CASE PutAnswered
  <2>1. alarm' = "off" BY <1>0, <1>7 DEF PutAnswered, AlarmInv
  <2>2. QED BY <1>7, <2>1 DEF PutAnswered
<1>8. CASE BeginSegment BY <1>a, <1>8 DEF BeginSegment
<1>9. CASE FinishPut BY <1>a, <1>9 DEF FinishPut, Return
<1>10. CASE ValueAnswered BY <1>0, <1>10 DEF ValueAnswered, Return, AlarmInv
<1>11. CASE Ring \/ RingWild \/ Lose BY <1>11 DEF Ring, RingWild, Lose
<1>12. CASE UNCHANGED vars BY <1>12 DEF vars
<1>13. QED
  BY <1>1, <1>2, <1>3, <1>4, <1>5, <1>6, <1>7, <1>8, <1>9, <1>10, <1>11, <1>12
     DEF Next, Begin, Work, Stopped

\* If moreover every put with a timeout is accepted and has something to put, no
\* alarm outlives its command: longjmp() never goes to a frame that has returned.
THEOREM JumpsHome ==
  ASSUME PutsSayTimeout, TimedPutsAsk PROVE Spec => []NoWildJump
<1>1. Init => AlarmInv /\ FirstAnswerInv BY DEF Init, AlarmInv, FirstAnswerInv
<1>2. FirstAnswerInv => NoWildJump BY DEF FirstAnswerInv, NoWildJump
<1>3. QED
  BY <1>1, <1>2, SegmentInit, SegmentStep, AlarmStep, FirstAnswerStep, PTL DEF Spec

-----------------------------------------------------------------------------
(* Success means that everything was acknowledged. *)

\* No put sends a timebase: its answer would stand for all the channels'.
NoTimebase == \A r \in Requests : ~r.tb

Acked == {<<puts[j].seg, puts[j].ch>> : j \in DOMAIN puts}

\* All channels of the segments before the n-th, and some of the n-th.
UpTo(n, chans) == ((1..(n - 1)) \X Visited(req)) \cup ({n} \X chans)

AckedInv ==
  /\ ~req.tb /\ pc # "segment"
  /\ Working => seg.i \in 1..Segments(req) /\ todo \subseteq Visited(req)
  /\ req.kind = "put" /\ pc = "channel" =>
       \/ ~status /\ todo = {}
       \/ /\ Acked = UpTo(seg.i, Visited(req) \ todo)
          /\ status => Visited(req) # {}
  /\ req.kind = "put" /\ pc = "asking" =>
       /\ cur.seg = seg.i /\ cur.ch \in Visited(req) \ todo
       /\ Acked = UpTo(seg.i, Visited(req) \ (todo \cup {cur.ch}))
  /\ req.kind = "put" /\ pc = "answered" =>
       /\ cur.ch \in Visited(req)
       /\ status => Acked = UpTo(seg.i, Visited(req) \ todo)
  /\ Finished => Acked = (1..Segments(req)) \X Visited(req) /\ Visited(req) # {}

LEMMA WholeSegment ==
  ASSUME NEW n \in Nat \ {0}, NEW V
  PROVE  ((1..(n - 1)) \X V) \cup ({n} \X V) = (1..n) \X V
<1>1. 1..n = (1..(n - 1)) \cup {n} OBVIOUS
<1>2. QED BY <1>1

LEMMA OneMoreAcked ==
  ASSUME TypeOK, NEW p \in Put, puts' = Append(puts, p)
  PROVE  Acked' = Acked \cup {<<p.seg, p.ch>>}
<1>1. /\ DOMAIN puts' = DOMAIN puts \cup {Len(puts) + 1}
      /\ \A j \in DOMAIN puts : puts'[j] = puts[j]
      /\ puts'[Len(puts) + 1] = p
  BY Appended DEF TypeOK
<1>2. QED BY <1>1 DEF Acked

LEMMA FirstIsOne ==
  ASSUME NEW r \in Request
  PROVE  FirstSegment(r).i = 1 /\ 1 \in 1..Segments(r) /\ Segments(r) \in Nat \ {0}
BY RequestFields DEF FirstSegment, Segments

LEMMA AckedStep ==
  ASSUME NoTimebase, SegmentInv, OneQuestion, AckedInv, [Next]_vars
  PROVE  AckedInv'
<1> USE DEF AckedInv, Working, Finished
<1>0. TypeOK /\ (pc \in {"channel", "segment"} => req.kind = "put") BY DEF SegmentInv
<1>1. ASSUME NEW r \in Requests, RejectPut(r) \/ Connect(r) \/ BeginValue(r) PROVE AckedInv'
  BY <1>1 DEF NoTimebase, RejectPut, Connect, BeginValue, Return, Ask
<1>2. ASSUME NEW r \in Requests, BeginPut(r) PROVE AckedInv'
  <2>1. /\ pc' = "channel" /\ req' = r /\ todo' = Visited(r) /\ seg' = FirstSegment(r)
        /\ puts' = <<>> /\ status' = FALSE /\ result' = "none"
    BY <1>2 DEF BeginPut
  <2>2. Acked' = {} /\ Acked' = UpTo(1, {})'
    <3>1. DOMAIN puts' = {} /\ 1..(1 - 1) = {} BY <2>1
    <3>2. QED BY <3>1 DEF Acked, UpTo
  <2>3. r \in Request /\ ~r.tb BY SizesAssumption DEF NoTimebase
  <2>4. seg'.i = 1 /\ 1 \in 1..Segments(r) BY <2>1, <2>3, FirstIsOne
  <2>5. Acked' = UpTo(seg.i, Visited(req) \ todo)'
    <3>1. Visited(r) \ Visited(r) = {} OBVIOUS
    <3>2. QED BY <2>1, <2>2, <2>4, <3>1 DEF UpTo
  <2>6. QED BY <2>1, <2>3, <2>4, <2>5
<1>3. CASE PutChannel
  <2>1. PICK c \in Files :
          /\ Upcoming(c)
          /\ Ask([ch |-> c, seg |-> seg.i, from |-> seg.start, n |-> SamplesRead(seg),
                  k0 |-> seg.k0, k1 |-> seg.k1])
          /\ todo' = todo \ {c}
    BY <1>3 DEF PutChannel
  <2>2. /\ pc = "channel" /\ pc' = "asking" /\ UNCHANGED <<req, seg, puts, result>>
        /\ cur'.ch = c /\ cur'.seg = seg.i /\ c \in todo
    BY <1>3, <2>1 DEF PutChannel, Ask, Upcoming
  <2>3. /\ req.kind = "put" /\ todo \subseteq Visited(req)
        /\ Acked = UpTo(seg.i, Visited(req) \ todo)
    BY <1>0, <2>2
  <2>4. Visited(req) \ todo = Visited(req) \ (todo' \cup {c}) BY <2>1, <2>2
  <2>5. Acked' = UpTo(seg.i, Visited(req) \ (todo \cup {cur.ch}))'
    BY <2>2, <2>3, <2>4 DEF Acked, UpTo
  <2>6. QED BY <2>1, <2>2, <2>3, <2>5
<1>4. CASE PutTimebase BY <1>4 DEF PutTimebase
<1>5. CASE Answer
  <2>1. /\ pc = "asking" /\ pc' = "answered" /\ UNCHANGED <<req, todo, cur, seg, result>>
        /\ status' \in BOOLEAN
        /\ status' => owed # <<>> /\ puts' = Append(puts, Head(owed))
    BY <1>5 DEF Answer
  <2>2. CASE req.kind = "put" /\ status'
    <3>1. owed = <<cur>> BY <2>1, <2>2 DEF OneQuestion
    <3>2. puts' = Append(puts, cur) BY <2>1, <2>2, <3>1
    <3>3. Acked' = Acked \cup {<<cur.seg, cur.ch>>}
      BY <1>0, <3>2, OneMoreAcked DEF TypeOK
    <3>4. /\ cur.seg = seg.i /\ cur.ch \in Visited(req) \ todo
          /\ Acked = UpTo(seg.i, Visited(req) \ (todo \cup {cur.ch}))
      BY <2>1, <2>2
    <3>5. Acked' = UpTo(seg.i, Visited(req) \ todo) BY <3>3, <3>4 DEF UpTo
    <3>6. UpTo(seg.i, Visited(req) \ todo)' = UpTo(seg.i, Visited(req) \ todo)
      BY <2>1 DEF UpTo
    <3>7. QED BY <2>1, <2>2, <3>4, <3>5, <3>6
  <2>3. CASE req.kind # "put" BY <2>1, <2>3
  <2>4. CASE ~status' BY <2>1, <2>4
  <2>5. QED BY <2>2, <2>3, <2>4
<1>6. CASE PutAnswered
  <2>1. /\ pc = "answered" /\ req.kind = "put"
        /\ UNCHANGED <<req, cur, seg, puts, status, result>>
        /\ todo' = (IF status \/ cur.ch = Timebase THEN todo ELSE {})
        /\ pc' = IF cur.ch = Timebase THEN "segment" ELSE "channel"
    BY <1>6 DEF PutAnswered
  <2>2. cur.ch # Timebase /\ Visited(req) # {}
    BY <1>0, <2>1, VisitedType DEF TypeOK, Timebase
  <2>3. Acked' = Acked /\ UpTo(seg.i, Visited(req) \ todo)' = UpTo(seg.i, Visited(req) \ todo')
    BY <2>1 DEF Acked, UpTo
  <2>4. QED BY <2>1, <2>2, <2>3
<1>7. CASE BeginSegment
  <2>1. /\ pc = "channel" /\ todo = {} /\ status /\ seg.i < Segments(req)
        /\ pc' = "channel" /\ seg'.i = seg.i + 1 /\ todo' = Visited(req) /\ status' = FALSE
        /\ UNCHANGED <<req, puts, result>>
    BY <1>7 DEF BeginSegment, SegmentDone, NextSegment
  <2>2. req.kind = "put" /\ seg.i \in 1..Segments(req) BY <1>0, <2>1
  <2>3. Segments(req) \in Nat BY <1>0, FirstIsOne DEF TypeOK
  <2>4. seg'.i \in 1..Segments(req) BY <2>1, <2>2, <2>3
  <2>5. Acked = UpTo(seg.i, Visited(req)) BY <2>1, <2>2
  <2>6. Acked = (1..seg.i) \X Visited(req)
    BY <2>2, <2>3, <2>5, WholeSegment DEF UpTo
  <2>7. Acked' = UpTo(seg.i, Visited(req) \ todo)'
    <3>1. seg'.i - 1 = seg.i BY <2>1, <2>2, <2>3
    <3>2. Visited(req) \ todo' = {} BY <2>1
    <3>3. QED BY <2>1, <2>6, <3>1, <3>2 DEF Acked, UpTo
  <2>8. QED BY <2>1, <2>2, <2>4, <2>7
<1>8. CASE FinishPut
  <2>1. /\ pc = "channel" /\ todo = {} /\ pc' = "idle" /\ UNCHANGED <<req, puts>>
        /\ result' = IF status THEN "ok" ELSE "err"
        /\ ~status \/ seg.i = Segments(req)
    BY <1>8 DEF FinishPut, SegmentDone, Return
  <2>2. CASE ~status BY <2>1, <2>2
  <2>3. CASE status
    <3>1. req.kind = "put" /\ Acked = UpTo(seg.i, Visited(req)) /\ Visited(req) # {}
      BY <1>0, <2>1, <2>3
    <3>2. Segments(req) \in Nat \ {0} BY <1>0, FirstIsOne DEF TypeOK
    <3>3. Acked = (1..Segments(req)) \X Visited(req)
      BY <2>1, <2>3, <3>1, <3>2, WholeSegment DEF UpTo
    <3>4. QED BY <2>1, <3>1, <3>3 DEF Acked
  <2>4. QED BY <2>2, <2>3
<1>9. CASE ChannelMissing \/ ValueAnswered \/ Ring \/ RingWild
  BY <1>9 DEF ChannelMissing, ValueAnswered, Return, Ring, RingWild
<1>10. CASE Lose \/ UNCHANGED vars
  <2>1. UNCHANGED <<pc, req, todo, cur, status, seg, puts, result>> BY <1>10 DEF Lose, vars
  <2>2. Acked' = Acked BY <2>1 DEF Acked
  <2>3. UpTo(seg.i, Visited(req) \ todo)' = UpTo(seg.i, Visited(req) \ todo)
    BY <2>1 DEF UpTo
  <2>4. UpTo(seg.i, Visited(req) \ (todo \cup {cur.ch}))' =
          UpTo(seg.i, Visited(req) \ (todo \cup {cur.ch}))
    BY <2>1 DEF UpTo
  <2>5. QED BY <2>1, <2>2, <2>3, <2>4
<1>11. QED
  BY <1>1, <1>2, <1>3, <1>4, <1>5, <1>6, <1>7, <1>8, <1>9, <1>10
     DEF Next, Begin, Work, Stopped

OutcomeInv == SegmentInv /\ OneQuestion /\ PlanInv /\ AckedInv

LEMMA OutcomeCorrect == ASSUME NoTimebase PROVE Spec => []OutcomeInv
<1>1. Init => OneQuestion /\ PlanInv /\ AckedInv
  BY DEF Init, OneQuestion, PlanInv, PutsFollowPlan, AckedInv, Working, Finished, NoRequest
<1>2. OutcomeInv /\ [Next]_vars => OutcomeInv'
  BY SegmentStep, QuestionStep, PlanStep, AckedStep DEF OutcomeInv
<1>3. QED BY <1>1, <1>2, SegmentInit, PTL DEF Spec, OutcomeInv

\* Without a timebase, a command that reports success has had each of its puts
\* acknowledged, in every segment: a channel's error is never covered by a later
\* channel or segment that went well.
THEOREM SuccessMeansAll ==
  ASSUME NoTimebase PROVE Spec => []OkMeansAll
<1>1. ASSUME OutcomeInv, Finished
      PROVE  {<<puts[j].seg, puts[j].ch>> : j \in DOMAIN puts} =
               (1..Segments(req)) \X (Visited(req) \cup IF req.tb THEN {Timebase} ELSE {})
  BY <1>1 DEF OutcomeInv, AckedInv, Acked
<1>2. OutcomeInv => OkMeansAll BY <1>1 DEF OkMeansAll
<1>3. QED BY <1>2, OutcomeCorrect, PTL

-----------------------------------------------------------------------------
(* Segments of a range. *)

LEMMA Slices ==
  ASSUME NEW d \in Nat, NEW n \in Nat \ {0}
  PROVE  /\ d \div n \in Nat
         /\ n * (d \div n) <= d /\ d < n * (d \div n) + n
         /\ d % n = 0 => n * (d \div n) = d
OBVIOUS

LEMMA BlocksOrdered ==
  ASSUME NEW size \in Nat, NEW m \in Nat, NEW k \in Nat, m <= k
  PROVE  m * size <= k * size
OBVIOUS

LEMMA BlockAfter ==
  ASSUME NEW size \in Nat, NEW m \in Nat \ {0} PROVE m * size = (m - 1) * size + size
OBVIOUS

\* The m-th block of a size holds y.
InBlock(y, size, m) == (m - 1) * size <= y /\ y < (m - 1) * size + size

LEMMA BlockExists ==
  ASSUME NEW size \in Nat \ {0}, NEW n \in Nat, NEW y \in Nat, y < n * size
  PROVE  \E m \in 1..n : InBlock(y, size, m)
<1> DEFINE q == y \div size
<1>1. q \in Nat /\ size * q <= y /\ y < size * q + size BY Slices
<1> HIDE DEF q
<1>2. q < n
  <2>1. ASSUME n <= q PROVE FALSE
    <3>1. n * size <= q * size BY <1>1, <2>1, BlocksOrdered
    <3>2. n * size \in Nat /\ q * size = size * q /\ size * q \in Nat BY <1>1
    <3>3. QED BY <1>1, <3>1, <3>2
  <2>2. QED BY <1>1, <2>1
<1>3. q + 1 \in 1..n /\ (q + 1) - 1 = q BY <1>1, <1>2
<1>4. (q + 1 - 1) * size = size * q BY <1>1
<1>5. InBlock(y, size, q + 1) BY <1>1, <1>4 DEF InBlock
<1>6. QED BY <1>3, <1>5

LEMMA BlockBefore ==
  ASSUME NEW size \in Nat, NEW m \in Nat \ {0}, NEW k \in Nat \ {0}, NEW y \in Nat,
         m < k, InBlock(y, size, m)
  PROVE  ~InBlock(y, size, k)
<1>1. m * size <= (k - 1) * size BY BlocksOrdered
<1>2. m * size = (m - 1) * size + size BY BlockAfter
<1>3. /\ m * size \in Nat /\ (m - 1) * size \in Int /\ (k - 1) * size \in Int
  OBVIOUS
<1>4. QED BY <1>1, <1>2, <1>3 DEF InBlock

LEMMA BlockUnique ==
  ASSUME NEW size \in Nat, NEW m \in Nat \ {0}, NEW k \in Nat \ {0}, NEW y \in Nat,
         InBlock(y, size, m), InBlock(y, size, k)
  PROVE  m = k
<1>1. m < k \/ k < m \/ m = k OBVIOUS
<1>2. QED BY <1>1, BlockBefore

\* The samples of the window that each segment gets.
Share(r) == IF r.nsegs <= 1 THEN r.len ELSE r.len \div r.nsegs

LEMMA PlannedPut ==
  ASSUME NEW r \in Request, NEW p \in Put, Planned(r, p)
  PROVE  /\ Segments(r) \in Nat \ {0} /\ p.seg \in 1..Segments(r)
         /\ Share(r) \in Nat /\ p.from = r.start + (p.seg - 1) * Share(r)
<1>1. CASE r.nsegs <= 1
  <2>1. p.seg = 1 /\ p.from = r.start /\ Share(r) = r.len /\ Segments(r) = 1
    BY <1>1 DEF Planned, Share, Segments
  <2>2. r.start \in Nat /\ r.len \in Nat BY RequestFields
  <2>3. (1 - 1) * r.len = 0 BY <2>2
  <2>4. QED BY <2>1, <2>2, <2>3
<1>2. CASE ~(r.nsegs <= 1)
  <2>1. /\ p.seg \in 1..r.nsegs /\ p.from = r.start + (p.seg - 1) * (r.len \div r.nsegs)
        /\ Share(r) = r.len \div r.nsegs /\ Segments(r) = r.nsegs
    BY <1>2 DEF Planned, Share, Segments
  <2>2. r.nsegs \in Nat \ {0} /\ r.len \in Nat /\ r.nsegs > 1 BY <1>2, RequestFields
  <2>3. r.len \div r.nsegs \in Nat BY <2>2, SpanType
  <2>4. QED BY <2>1, <2>2, <2>3
<1>3. QED BY <1>1, <1>2

\* The command being executed is one of those that may be given.
Given == req \in Requests \cup {NoRequest}

LEMMA GivenStep == ASSUME Given, [Next]_vars PROVE Given'
<1> USE DEF Given
<1>1. ASSUME NEW r \in Requests, RejectPut(r) \/ BeginPut(r) \/ BeginValue(r) \/ Connect(r)
      PROVE  Given'
  BY <1>1 DEF RejectPut, BeginPut, BeginValue, Connect
<1>2. CASE Work \/ Answer \/ Ring \/ RingWild \/ Lose
  <2>1. req' = req
    BY <1>2 DEF Work, PutChannel, ChannelMissing, PutTimebase, PutAnswered, BeginSegment,
                FinishPut, ValueAnswered, Answer, Ring, RingWild, Lose
  <2>2. QED BY <2>1
<1>3. CASE UNCHANGED vars BY <1>3 DEF vars
<1>4. QED BY <1>1, <1>2, <1>3 DEF Next, Begin, Stopped

LEMMA GivenInit == Init => Given
BY DEF Init, Given

\* The length of a segment's time range fits the unsigned that holds it.
SpansFit ==
  \A r \in Requests :
    r.kind = "put" /\ r.nsegs > 1 => (r.k1 - r.k0) \div r.nsegs < SpanMod

\* A command that succeeded has had each put of its plan acknowledged.
LEMMA AckedPut ==
  ASSUME OutcomeInv, Finished, NEW m \in 1..Segments(req), NEW c \in Visited(req)
  PROVE  \E j \in DOMAIN puts : puts[j].seg = m /\ puts[j].ch = c
<1>1. <<m, c>> \in Acked BY DEF OutcomeInv, AckedInv
<1>2. QED BY <1>1 DEF Acked

LEMMA TimesCovered ==
  ASSUME SpansFit, OutcomeInv, Given, Finished
  PROVE  TimeCovered
<1>1. /\ req.kind = "put" /\ req \in Requests /\ req \in Request /\ ~req.tb
      /\ puts \in Seq(Put) /\ Visited(req) # {}
  BY DEF Finished, Given, NoRequest, OutcomeInv, SegmentInv, TypeOK, AckedInv
<1>2. \A j \in DOMAIN puts : puts[j] \in Put /\ Planned(req, puts[j])
  BY <1>1 DEF OutcomeInv, PlanInv, PutsFollowPlan
<1>3. req.k0 \in Nat /\ req.k1 \in Nat /\ req.k0 <= req.k1 /\ req.nsegs \in Nat
  BY <1>1, RequestFields, SizesAssumption
<1>4. PICK c \in Visited(req) : TRUE BY <1>1
<1>5. Segments(req) \in Nat \ {0} BY <1>1, FirstIsOne
<1>6. PICK i \in DOMAIN puts : puts[i].seg = 1 BY <1>4, <1>5, AckedPut
<1>7. PICK l \in DOMAIN puts : puts[l].seg = Segments(req) BY <1>4, <1>5, AckedPut
<1>8. CASE req.nsegs <= 1
  <2>1. \A j \in DOMAIN puts : puts[j].k0 = req.k0 /\ puts[j].k1 = req.k1
    BY <1>2, <1>8 DEF Planned
  <2>2. QED BY <1>3, <1>5, <1>6, <2>1 DEF TimeCovered
<1>9. CASE ~(req.nsegs <= 1)
  <2> DEFINE d == req.k1 - req.k0
             n == req.nsegs
             q == d \div n
  <2>1. d \in Nat /\ n \in Nat \ {0} /\ Segments(req) = n
    BY <1>3, <1>9 DEF Segments
  <2>2. q \in Nat /\ n * q <= d /\ d < n * q + n BY <2>1, Slices
  <2>3. q < SpanMod BY <1>1, <1>3, <1>9 DEF SpansFit
  <2>4. Span(req) = q
    <3>1. \A a \in Nat, b \in Nat \ {0} : a < b => a % b = a OBVIOUS
    <3>2. QED BY <2>2, <2>3, <3>1, SizesAssumption DEF Span
  <2> HIDE DEF q
  <2>5. \A j \in DOMAIN puts : /\ puts[j].seg \in 1..n
                               /\ puts[j].k1 = req.k0 + puts[j].seg * q
                               /\ puts[j].seg = 1 => puts[j].k0 = req.k0
    BY <1>2, <1>9, <2>4 DEF Planned
  <2>6. puts[i].k0 = req.k0 BY <1>6, <2>5
  <2>7. puts[l].k1 + Segments(req) > req.k1
    <3>1. puts[l].k1 = req.k0 + n * q BY <1>7, <2>1, <2>5
    <3>2. n * q \in Nat BY <2>1, <2>2
    <3>3. QED BY <1>3, <2>1, <2>2, <3>1, <3>2
  <2>8. ASSUME NEW j \in DOMAIN puts PROVE puts[j].k1 <= req.k1
    <3>1. puts[j].seg \in Nat /\ puts[j].seg <= n BY <2>1, <2>5
    <3>2. puts[j].seg * q <= n * q /\ puts[j].seg * q \in Nat /\ n * q \in Nat
      BY <2>1, <2>2, <3>1, BlocksOrdered
    <3>3. QED BY <1>3, <2>1, <2>2, <2>5, <3>2
  <2>9. QED BY <2>6, <2>7, <2>8 DEF TimeCovered
<1>10. QED BY <1>8, <1>9

\* The time ranges of the segments of a put that succeeded reach from k0 to k1, but for
\* the rounding, as long as a segment's span fits its 32 bits.
THEOREM TimesReach ==
  ASSUME NoTimebase, SpansFit PROVE Spec => []TimeCovered
<1>1. OutcomeInv /\ Given => TimeCovered BY TimesCovered DEF TimeCovered
<1>2. QED BY <1>1, OutcomeCorrect, GivenInit, GivenStep, PTL DEF Spec

-----------------------------------------------------------------------------
(* Samples. *)

\* A put without a window is of the file from its beginning, windows divide evenly, and
\* no channel is the one numbered MAXCHAN, which the loop over the channels leaves out.
WindowsRegular ==
  \A r \in Requests : r.kind = "put" =>
    /\ r.chans \subseteq 1..(MaxChan - 1)
    /\ r.len = 0 => r.start = 0
    /\ r.nsegs > 1 => r.len % r.nsegs = 0

\* A put of a channel has the samples that the file holds of its share.
Reads(r, p) == p.ch # Timebase => p.n = SamplesRead([start |-> p.from, len |-> Share(r)])

LengthInv ==
  /\ Working => seg.len = Share(req)
  /\ Working \/ Finished => (req.nsegs > 1 => req.len # 0)
  /\ req.kind = "put" => \A j \in DOMAIN puts : Reads(req, puts[j])
  /\ req.kind = "put" /\ pc = "asking" => Reads(req, cur)

LEMMA SameSamples ==
  ASSUME NEW s, NEW from, NEW len, s.start = from, s.len = len
  PROVE  SamplesRead(s) = SamplesRead([start |-> from, len |-> len])
BY DEF SamplesRead

LEMMA LengthStep ==
  ASSUME SegmentInv, OneQuestion, LengthInv, [Next]_vars
  PROVE  LengthInv'
<1> USE DEF LengthInv, Working, Finished
<1>0. TypeOK /\ (pc \in {"channel", "segment"} => req.kind = "put") BY DEF SegmentInv
<1>1. ASSUME NEW r \in Requests, RejectPut(r) \/ Connect(r) \/ BeginValue(r) PROVE LengthInv'
  <2>1. puts' = <<>> /\ (req'.kind = "put" => pc' = "idle" /\ result' # "ok")
    BY <1>1 DEF RejectPut, Connect, BeginValue, Return, Ask
  <2>2. QED BY <2>1
<1>2. ASSUME NEW r \in Requests, BeginPut(r) PROVE LengthInv'
  <2>1. /\ pc' = "channel" /\ req' = r /\ seg' = FirstSegment(r) /\ puts' = <<>>
        /\ r.nsegs > 1 => r.len # 0
    BY <1>2 DEF BeginPut, Unsuitable
  <2>2. FirstSegment(r).len = Share(r) BY DEF FirstSegment, Share
  <2>3. QED BY <2>1, <2>2
<1>3. CASE PutChannel
  <2>1. PICK c \in Files :
          Ask([ch |-> c, seg |-> seg.i, from |-> seg.start, n |-> SamplesRead(seg),
               k0 |-> seg.k0, k1 |-> seg.k1])
    BY <1>3 DEF PutChannel
  <2>2. /\ pc = "channel" /\ pc' = "asking" /\ UNCHANGED <<req, seg, puts>>
        /\ cur'.n = SamplesRead(seg) /\ cur'.from = seg.start
    BY <1>3, <2>1 DEF PutChannel, Ask
  <2>3. req.kind = "put" /\ seg.len = Share(req) BY <1>0, <2>2
  <2>4. Reads(req, cur') BY <2>2, <2>3, SameSamples DEF Reads
  <2>5. QED BY <2>2, <2>3, <2>4
<1>4. CASE PutTimebase
  <2>1. /\ pc = "channel" /\ pc' = "asking" /\ UNCHANGED <<req, seg, puts>>
        /\ cur'.ch = Timebase
    BY <1>4 DEF PutTimebase, Ask
  <2>2. QED BY <1>0, <2>1 DEF Reads
<1>5. CASE Answer
  <2>1. /\ pc = "asking" /\ pc' = "answered" /\ UNCHANGED <<req, cur, seg>>
        /\ puts' # puts => owed # <<>> /\ puts' = Append(puts, Head(owed))
    BY <1>5 DEF Answer
  <2>2. CASE req.kind = "put" /\ puts' # puts
    <3>1. owed = <<cur>> BY <2>1, <2>2 DEF OneQuestion
    <3>2. puts' = Append(puts, cur) BY <2>1, <2>2, <3>1
    <3>3. \A j \in DOMAIN puts' : puts'[j] = cur \/ (j \in DOMAIN puts /\ puts'[j] = puts[j])
      BY <1>0, <3>2, Appended DEF TypeOK
    <3>4. QED BY <2>1, <2>2, <3>3
  <2>3. CASE req.kind = "put" /\ puts' = puts BY <2>1, <2>3
  <2>4. CASE req.kind # "put" BY <2>1, <2>4
  <2>5. QED BY <2>2, <2>3, <2>4
<1>6. CASE PutAnswered
  BY <1>6 DEF PutAnswered
<1>7. CASE BeginSegment
  <2>1. /\ pc \in {"channel", "segment"} /\ pc' = "channel" /\ seg'.len = seg.len
        /\ UNCHANGED <<req, puts>>
    BY <1>7 DEF BeginSegment, SegmentDone, NextSegment
  <2>2. QED BY <1>0, <2>1
<1>8. CASE FinishPut
  <2>1. pc \in {"channel", "segment"} /\ pc' = "idle" /\ UNCHANGED <<req, puts>>
    BY <1>8 DEF FinishPut, SegmentDone, Return
  <2>2. QED BY <1>0, <2>1
<1>9. CASE ChannelMissing \/ ValueAnswered \/ Ring \/ RingWild
  <2>1. /\ UNCHANGED <<req, puts>>
        /\ pc' \in {"dead", "wild", "idle"}
        /\ pc' = "idle" => req.kind # "put" \/ result' # "ok"
    BY <1>9 DEF ChannelMissing, ValueAnswered, Return, Ring, RingWild
  <2>2. QED BY <2>1
<1>10. CASE Lose \/ UNCHANGED vars
  <2>1. UNCHANGED <<pc, req, seg, puts, cur, result>> BY <1>10 DEF Lose, vars
  <2>2. QED BY <2>1
<1>11. QED
  BY <1>1, <1>2, <1>3, <1>4, <1>5, <1>6, <1>7, <1>8, <1>9, <1>10
     DEF Next, Begin, Work, Stopped

\* Of the samples of the file, a put has those of its share.
LEMMA SamplesOfPut ==
  ASSUME NEW from \in Nat, NEW len \in Nat, NEW x \in 0..(FileLen - 1)
  PROVE  from <= x /\ x < from + SamplesRead([start |-> from, len |-> len])
           <=> from <= x /\ (len = 0 \/ x < from + len)
<1> DEFINE read == SamplesRead([start |-> from, len |-> len])
<1>1. x \in Nat /\ x < FileLen /\ FileLen \in Nat BY SizesAssumption
<1>2. CASE len = 0
  <2>1. read = FileLen BY <1>2 DEF SamplesRead
  <2>2. QED BY <1>1, <1>2, <2>1
<1>3. CASE len # 0 /\ from >= FileLen
  <2>1. ~(from <= x) BY <1>1, <1>3
  <2>2. QED BY <2>1
<1>4. CASE len # 0 /\ ~(from >= FileLen)
  <2>1. read = IF FileLen - from < len THEN FileLen - from ELSE len
    BY <1>4 DEF SamplesRead, Lesser
  <2>2. QED BY <1>1, <1>4, <2>1
<1>5. QED BY <1>2, <1>3, <1>4

\* A put has sample x of channel c.
Has(p, c, x) == p.ch = c /\ p.from <= x /\ x < p.from + p.n

LEMMA SamplesSent ==
  ASSUME WindowsRegular, OutcomeInv, Given, LengthInv, Finished
  PROVE  SamplesOnce
<1>1. /\ req.kind = "put" /\ req \in Requests /\ req \in Request
      /\ puts \in Seq(Put)
  BY DEF Finished, Given, NoRequest, OutcomeInv, SegmentInv, TypeOK
<1>2. /\ \A j \in DOMAIN puts : puts[j] \in Put /\ Planned(req, puts[j])
      /\ \A i, j \in DOMAIN puts : i < j => Earlier(puts[i], puts[j])
      /\ DOMAIN puts \subseteq Nat
  BY <1>1 DEF OutcomeInv, PlanInv, PutsFollowPlan
<1>3. req.start \in Nat /\ req.len \in Nat /\ req.nsegs \in Nat BY <1>1, RequestFields
<1> DEFINE size == Share(req)
           n == Segments(req)
<1>4. size \in Nat /\ n \in Nat \ {0}
  <2>1. CASE req.nsegs <= 1 BY <1>3, <2>1 DEF Share, Segments
  <2>2. CASE ~(req.nsegs <= 1)
    <3>1. req.nsegs \in Nat \ {0} BY <1>3, <2>2
    <3>2. req.len \div req.nsegs \in Nat BY <1>3, <3>1, DivType
    <3>3. QED BY <2>2, <3>1, <3>2 DEF Share, Segments
  <2>3. QED BY <2>1, <2>2
<1>5. n * size = req.len /\ (size = 0 <=> req.len = 0)
  <2>1. CASE req.nsegs <= 1
    <3>1. size = req.len /\ n = 1 BY <2>1 DEF Share, Segments
    <3>2. QED BY <1>3, <3>1
  <2>2. CASE ~(req.nsegs <= 1)
    <3>1. req.nsegs \in Nat \ {0} /\ size = req.len \div req.nsegs /\ n = req.nsegs
      BY <1>3, <2>2 DEF Share, Segments
    <3>2. req.len % req.nsegs = 0 BY <1>1, <1>3, <2>2 DEF WindowsRegular
    <3>3. n * size = req.len BY <1>3, <3>1, <3>2, Slices
    <3>4. req.len # 0 BY <1>3, <2>2 DEF LengthInv
    <3>5. n * 0 = 0 BY <1>4
    <3>6. QED BY <3>3, <3>4, <3>5
  <2>3. QED BY <2>1, <2>2
<1>6. SUFFICES ASSUME NEW c \in req.chans, NEW x \in 0..(FileLen - 1)
               PROVE  Cardinality({j \in DOMAIN puts : Has(puts[j], c, x)}) =
                        IF req.len = 0 \/ x \in req.start..(req.start + req.len - 1)
                        THEN 1 ELSE 0
  BY DEF SamplesOnce, Has
<1>7. x \in Nat BY SizesAssumption
<1>8. c \in Visited(req) /\ c # Timebase
  BY <1>1, SizesAssumption, RequestFields DEF WindowsRegular, Visited, Timebase
<1> DEFINE times == {j \in DOMAIN puts : Has(puts[j], c, x)}
           wanted == req.len = 0 \/ x \in req.start..(req.start + req.len - 1)
<1>9. ASSUME NEW j \in DOMAIN puts, puts[j].ch = c
      PROVE  /\ puts[j].seg \in 1..n /\ puts[j].from = req.start + (puts[j].seg - 1) * size
             /\ puts[j].from \in Nat
             /\ Has(puts[j], c, x) <=>
                  puts[j].from <= x /\ (size = 0 \/ x < puts[j].from + size)
  <2>1. puts[j].seg \in 1..n /\ puts[j].from = req.start + (puts[j].seg - 1) * size
    BY <1>1, <1>2, PlannedPut
  <2>2. puts[j].from \in Nat BY <1>2, PutFields
  <2>3. puts[j].n = SamplesRead([start |-> puts[j].from, len |-> size])
    BY <1>1, <1>8, <1>9 DEF LengthInv, Reads
  <2>4. Has(puts[j], c, x) <=> puts[j].from <= x /\ (size = 0 \/ x < puts[j].from + size)
    BY <1>4, <1>9, <2>2, <2>3, SamplesOfPut DEF Has
  <2>5. QED BY <2>1, <2>2, <2>4
<1> HIDE DEF size, n
\* A channel's puts are one to a segment.
<1>10. ASSUME NEW i \in DOMAIN puts, NEW j \in DOMAIN puts, puts[i].ch = c, puts[j].ch = c,
              puts[i].seg = puts[j].seg
       PROVE  i = j
  <2>1. ASSUME NEW k \in DOMAIN puts, NEW l \in DOMAIN puts, puts[k].ch = c, puts[l].ch = c,
               puts[k].seg = puts[l].seg, k < l
        PROVE  FALSE
    <3>1. Earlier(puts[k], puts[l]) BY <1>2, <2>1
    <3>2. puts[k].seg \in Nat /\ c \in Nat BY <1>2, <1>8, <2>1, PutFields
    <3>3. QED BY <1>8, <2>1, <3>1, <3>2 DEF Earlier
  <2>2. i \in Nat /\ j \in Nat BY <1>2
  <2>3. i < j \/ j < i \/ i = j BY <2>2
  <2>4. QED BY <1>10, <2>1, <2>3
<1>11. CASE req.len = 0
  <2>1. size = 0 /\ req.start = 0 BY <1>1, <1>5, <1>11 DEF WindowsRegular
  <2>2. n = 1
    <3>1. ~(req.nsegs > 1) BY <1>11 DEF LengthInv
    <3>2. QED BY <1>3, <3>1 DEF n, Segments
  <2>3. \A j \in DOMAIN puts : puts[j].ch = c => Has(puts[j], c, x) /\ puts[j].seg = 1
    <3>1. SUFFICES ASSUME NEW j \in DOMAIN puts, puts[j].ch = c
                   PROVE  Has(puts[j], c, x) /\ puts[j].seg = 1
      OBVIOUS
    <3>2. puts[j].seg = 1 BY <1>9, <2>2, <3>1
    <3>3. (1 - 1) * 0 = 0 OBVIOUS
    <3>4. (puts[j].seg - 1) * size = 0 BY <2>1, <3>2, <3>3
    <3>5. puts[j].from = req.start + (puts[j].seg - 1) * size BY <1>9, <3>1
    <3>6. puts[j].from = 0 BY <2>1, <3>4, <3>5
    <3>7. QED BY <1>7, <1>9, <2>1, <3>1, <3>2, <3>6
  <2>4. PICK i \in DOMAIN puts : puts[i].seg = 1 /\ puts[i].ch = c
    BY <1>8, <2>2, AckedPut DEF n
  <2>5. \A j \in times : j = i BY <1>10, <2>3, <2>4 DEF Has
  <2>6. times = {i} BY <2>3, <2>4, <2>5
  <2>7. Cardinality(times) = 1 BY <2>6, FS_Singleton
  <2>8. QED BY <1>11, <2>7
<1>12. CASE req.len # 0
  <2>0. size \in Nat \ {0} BY <1>4, <1>5, <1>12
  <2>1. ASSUME NEW j \in DOMAIN puts, puts[j].ch = c
        PROVE  Has(puts[j], c, x) <=>
                 x >= req.start /\ InBlock(x - req.start, size, puts[j].seg)
    <3>1. /\ puts[j].seg \in 1..n /\ puts[j].from = req.start + (puts[j].seg - 1) * size
          /\ Has(puts[j], c, x) <=> puts[j].from <= x /\ x < puts[j].from + size
      BY <1>9, <2>0, <2>1
    <3>2. (puts[j].seg - 1) * size \in Nat
      <4>1. puts[j].seg - 1 \in Nat BY <1>4, <3>1
      <4>2. QED BY <1>4, <4>1
    <3> DEFINE b == (puts[j].seg - 1) * size
    <3>3. InBlock(x - req.start, size, puts[j].seg)
            <=> b <= x - req.start /\ x - req.start < b + size
      BY DEF InBlock
    <3> HIDE DEF b
    <3>4. b \in Nat /\ puts[j].from = req.start + b BY <3>1, <3>2 DEF b
    <3>5. QED BY <1>3, <1>4, <1>7, <3>1, <3>3, <3>4
  <2>2. CASE ~wanted
    <3>1. ASSUME NEW j \in times PROVE FALSE
      <4>1. /\ j \in DOMAIN puts /\ puts[j].ch = c /\ x >= req.start
            /\ InBlock(x - req.start, size, puts[j].seg)
        BY <2>1, <3>1 DEF Has
      <4>2. puts[j].seg \in 1..n BY <1>9, <4>1
      <4>3. puts[j].seg \in Nat \ {0} /\ puts[j].seg \in Nat /\ puts[j].seg <= n
        BY <1>4, <4>2
      <4>4. /\ puts[j].seg * size <= n * size
            /\ puts[j].seg * size = (puts[j].seg - 1) * size + size
        BY <1>4, <4>3, BlocksOrdered, BlockAfter
      <4>5. x - req.start < req.len
        <5>1. x - req.start < (puts[j].seg - 1) * size + size BY <4>1 DEF InBlock
        <5>2. puts[j].seg * size \in Nat /\ n * size \in Nat BY <1>4, <4>3
        <5>3. QED BY <1>3, <1>5, <1>7, <4>4, <5>1, <5>2
      <4>6. QED BY <1>3, <1>7, <2>2, <4>1, <4>5
    <3>2. times = {} BY <3>1
    <3>3. Cardinality(times) = 0 BY <3>2, FS_EmptySet
    <3>4. QED BY <2>2, <3>3
  <2>3. CASE wanted
    <3>1. x - req.start \in Nat /\ x - req.start < n * size /\ x >= req.start
      BY <1>3, <1>5, <1>7, <1>12, <2>3
    <3>2. PICK m \in 1..n : InBlock(x - req.start, size, m)
      BY <1>4, <2>0, <3>1, BlockExists
    <3>3. PICK i \in DOMAIN puts : puts[i].seg = m /\ puts[i].ch = c
      BY <1>8, AckedPut DEF n
    <3>4. Has(puts[i], c, x) BY <2>1, <3>1, <3>2, <3>3
    <3>5. ASSUME NEW j \in times PROVE j = i
      <4>1. /\ j \in DOMAIN puts /\ puts[j].ch = c
            /\ InBlock(x - req.start, size, puts[j].seg)
        BY <2>1, <3>5 DEF Has
      <4>2. puts[j].seg \in Nat \ {0} /\ m \in Nat \ {0} BY <1>4, <1>9, <4>1
      <4>3. puts[j].seg = m BY <1>4, <3>1, <3>2, <4>1, <4>2, BlockUnique
      <4>4. QED BY <1>10, <3>3, <4>1, <4>3
    <3>6. times = {i} BY <3>4, <3>5
    <3>7. Cardinality(times) = 1 BY <3>6, FS_Singleton
    <3>8. QED BY <2>3, <3>7
  <2>4. QED BY <2>2, <2>3
<1>13. QED BY <1>11, <1>12

\* Splitting a window evenly into segments sends each of its samples that the file
\* holds once for each channel, and no other sample.
THEOREM SamplesSentOnce ==
  ASSUME NoTimebase, WindowsRegular PROVE Spec => []SamplesOnce
<1>1. Init => LengthInv BY DEF Init, LengthInv, Working, Finished, NoRequest
<1>2. OutcomeInv /\ Given /\ LengthInv => SamplesOnce BY SamplesSent DEF SamplesOnce
<1>3. OutcomeInv /\ LengthInv /\ [Next]_vars => LengthInv' BY LengthStep DEF OutcomeInv
<1>4. QED BY <1>1, <1>2, <1>3, OutcomeCorrect, GivenInit, GivenStep, PTL DEF Spec

-----------------------------------------------------------------------------
(* The timebase. *)

\* Up to the end of the file the length computed is the length read.
LEMMA LengthsAgree ==
  ASSUME NEW s \in Segment, s.start <= FileLen
  PROVE  Elems(s) = SamplesRead(s)
<1>1. s.start \in Nat /\ s.len \in Nat /\ FileLen \in Nat
  BY SegmentFields, SizesAssumption
<1>2. CASE s.start = FileLen BY <1>1, <1>2 DEF Elems, SamplesRead, Lesser
<1>3. CASE s.start < FileLen BY <1>1, <1>3 DEF Elems, SamplesRead
<1>4. QED BY <1>1, <1>2, <1>3

\* The puts of the segment are of its window, and inside the file of one length, the
\* one kept for the timebase.
Kept(p) ==
  /\ p.from = seg.start
  /\ StartsInFile(p) => p.n = nelems /\ (p.ch # Timebase => nelems = Elems(seg))

TimebaseInv ==
  /\ req.kind = "put" /\ req.tb =>
       /\ \A i, j \in DOMAIN puts :
            puts[i].seg = puts[j].seg /\ StartsInFile(puts[i]) => puts[i].n = puts[j].n
       /\ Working => /\ nelems \in {0, Elems(seg)}
                     /\ \A j \in DOMAIN puts : puts[j].seg = seg.i => Kept(puts[j])
       /\ pc = "asking" => Kept(cur)
  /\ req.kind = "put" /\ ~req.tb =>
       /\ \A j \in DOMAIN puts : puts[j].ch # Timebase
       /\ pc = "asking" => cur.ch # Timebase

LEMMA TimebaseStep ==
  ASSUME SegmentInv, OneQuestion, PlanInv, Given, TimebaseInv, [Next]_vars
  PROVE  TimebaseInv'
<1> USE DEF TimebaseInv, Working
<1>0. TypeOK /\ (pc \in {"channel", "segment"} => req.kind = "put") BY DEF SegmentInv
<1>1. ASSUME NEW r \in Requests, RejectPut(r) \/ Connect(r) \/ BeginValue(r) \/ BeginPut(r)
      PROVE  TimebaseInv'
  <2>1. /\ puts' = <<>>
        /\ req'.kind = "put" => pc' = "idle" \/ (pc' = "channel" /\ nelems' = 0)
    BY <1>1 DEF RejectPut, Connect, BeginValue, BeginPut, Return, Ask
  <2>2. QED BY <2>1
<1>2. CASE PutChannel
  <2>1. PICK c \in Files :
          /\ Upcoming(c)
          /\ Ask([ch |-> c, seg |-> seg.i, from |-> seg.start, n |-> SamplesRead(seg),
                  k0 |-> seg.k0, k1 |-> seg.k1])
    BY <1>2 DEF PutChannel
  <2>2. /\ pc = "channel" /\ pc' = "asking" /\ UNCHANGED <<req, seg, puts>>
        /\ cur'.n = SamplesRead(seg) /\ cur'.ch = c /\ cur'.from = seg.start /\ c \in todo
        /\ nelems' = IF nelems = 0 THEN Elems(seg) ELSE nelems
    BY <1>2, <2>1 DEF PutChannel, Ask, Upcoming
  <2>3. c # Timebase BY <1>0, <2>2 DEF TypeOK, Timebase
  <2>4. req.kind = "put" BY <1>0, <2>2
  <2>5. CASE ~req.tb BY <2>2, <2>3, <2>4, <2>5
  <2>6. CASE req.tb
    <3>1. nelems \in {0, Elems(seg)} /\ nelems' = Elems(seg) BY <2>2, <2>4, <2>6
    <3>2. seg.start <= FileLen => Elems(seg) = SamplesRead(seg)
      <4>1. seg \in Segment BY <1>0 DEF TypeOK
      <4>2. QED BY <4>1, LengthsAgree
    <3>3. ASSUME NEW j \in DOMAIN puts, puts[j].seg = seg.i
          PROVE  /\ puts[j].from = seg.start
                 /\ StartsInFile(puts[j]) => puts[j].n = nelems' /\ nelems' = Elems(seg)
      <4>1. puts[j].ch # Timebase BY <2>2, <3>3 DEF PlanInv, VisitedBefore
      <4>2. Kept(puts[j]) BY <2>2, <2>4, <2>6, <3>3
      <4>3. QED BY <3>1, <4>1, <4>2 DEF Kept
    <3>4. QED BY <2>2, <2>4, <2>6, <3>1, <3>2, <3>3 DEF Kept, StartsInFile
  <2>7. QED BY <2>5, <2>6
<1>3. CASE PutTimebase
  <2>1. /\ pc = "channel" /\ pc' = "asking" /\ UNCHANGED <<req, seg, puts, nelems>>
        /\ cur'.n = nelems /\ cur'.ch = Timebase /\ req.tb /\ cur'.from = seg.start
    BY <1>3 DEF PutTimebase, Ask
  <2>2. req.kind = "put" BY <1>0, <2>1
  <2>3. QED BY <2>1, <2>2 DEF Kept, StartsInFile
<1>4. CASE Answer
  <2>1. /\ pc = "asking" /\ pc' = "answered" /\ UNCHANGED <<req, cur, seg, nelems>>
        /\ puts' # puts => owed # <<>> /\ puts' = Append(puts, Head(owed))
    BY <1>4 DEF Answer
  <2>2. CASE req.kind = "put" /\ puts' # puts
    <3>1. owed = <<cur>> BY <2>1, <2>2 DEF OneQuestion
    <3>2. puts' = Append(puts, cur) BY <2>1, <2>2, <3>1
    <3>3. \A j \in DOMAIN puts' : puts'[j] = cur \/ (j \in DOMAIN puts /\ puts'[j] = puts[j])
      BY <1>0, <3>2, Appended DEF TypeOK
    <3>4. cur.seg = seg.i BY <2>1, <2>2 DEF PlanInv, AskedNext
    <3>5. CASE ~req.tb BY <2>1, <2>2, <3>3, <3>5
    <3>6. CASE req.tb
      <4>1. /\ Kept(cur) /\ nelems \in {0, Elems(seg)}
            /\ \A j \in DOMAIN puts : puts[j].seg = seg.i => Kept(puts[j])
            /\ \A i, j \in DOMAIN puts :
                 puts[i].seg = puts[j].seg /\ StartsInFile(puts[i]) => puts[i].n = puts[j].n
        BY <2>1, <2>2, <3>6
      <4>2. \A j \in DOMAIN puts' : puts'[j].seg = seg.i => Kept(puts'[j])
        BY <3>3, <4>1
      <4>3. ASSUME NEW i \in DOMAIN puts', NEW j \in DOMAIN puts',
                   puts'[i].seg = puts'[j].seg, StartsInFile(puts'[i])
            PROVE  puts'[i].n = puts'[j].n
        <5>1. CASE puts'[i].seg = seg.i BY <4>2, <4>3, <5>1 DEF Kept, StartsInFile
        <5>2. CASE puts'[i].seg # seg.i BY <3>3, <3>4, <4>1, <4>3, <5>2
        <5>3. QED BY <5>1, <5>2
      <4>4. QED BY <2>1, <2>2, <3>6, <4>1, <4>2, <4>3 DEF Kept
    <3>7. QED BY <3>5, <3>6
  <2>3. CASE req.kind = "put" /\ puts' = puts BY <2>1, <2>3 DEF Kept
  <2>4. CASE req.kind # "put" BY <2>1, <2>4
  <2>5. QED BY <2>2, <2>3, <2>4
<1>5. CASE PutAnswered
  <2>1. /\ pc = "answered" /\ UNCHANGED <<req, seg, puts, nelems>> /\ pc' # "asking"
    BY <1>5 DEF PutAnswered
  <2>2. QED BY <2>1 DEF Kept
<1>6. CASE BeginSegment
  <2>1. /\ pc \in {"channel", "segment"} /\ pc' = "channel" /\ nelems' = 0
        /\ UNCHANGED <<req, puts>> /\ seg'.i = seg.i + 1
    BY <1>6 DEF BeginSegment, SegmentDone, NextSegment
  <2>2. req.kind = "put" BY <1>0, <2>1
  <2>3. ASSUME NEW j \in DOMAIN puts PROVE puts[j].seg # seg'.i
    <3>1. puts[j].seg <= seg.i BY <2>1, <2>2 DEF PlanInv, Working
    <3>2. puts[j].seg \in Nat /\ seg.i \in Nat
      BY <1>0, PutFields, SegmentFields DEF TypeOK
    <3>3. QED BY <2>1, <3>1, <3>2
  <2>4. QED BY <2>1, <2>2, <2>3
<1>7. CASE ChannelMissing \/ FinishPut \/ ValueAnswered \/ Ring \/ RingWild
  <2>1. pc' \in {"dead", "wild", "idle"} /\ UNCHANGED <<req, puts>>
    BY <1>7 DEF ChannelMissing, FinishPut, ValueAnswered, Return, Ring, RingWild
  <2>2. QED BY <2>1
<1>8. CASE Lose \/ UNCHANGED vars
  <2>1. UNCHANGED <<pc, req, seg, puts, cur, nelems>> BY <1>8 DEF Lose, vars
  <2>2. QED BY <2>1 DEF Kept
<1>9. QED
  BY <1>1, <1>2, <1>3, <1>4, <1>5, <1>6, <1>7, <1>8 DEF Next, Begin, Work, Stopped

\* The timebase of a segment that starts inside the file, or at its end, has a time for
\* each sample of its channels, although its length is computed from the size of the
\* first channel's file and the samples are what fread() returns.
THEOREM TimebasesMatch == Spec => []TimebaseMatches
<1> DEFINE Inv == SegmentInv /\ OneQuestion /\ PlanInv /\ Given /\ TimebaseInv
<1>1. Init => OneQuestion /\ PlanInv /\ TimebaseInv
  BY DEF Init, OneQuestion, PlanInv, PutsFollowPlan, TimebaseInv, Working, NoRequest
<1>2. Inv => TimebaseMatches BY DEF TimebaseInv, TimebaseMatches
<1>3. Inv /\ [Next]_vars => Inv'
  BY SegmentStep, QuestionStep, PlanStep, GivenStep, TimebaseStep
<1>4. QED BY <1>1, <1>2, <1>3, SegmentInit, GivenInit, PTL DEF Spec

=============================================================================

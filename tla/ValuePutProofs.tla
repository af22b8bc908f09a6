--------------------------- MODULE ValuePutProofs ---------------------------
(***************************************************************************)
(* Theorems about ValuePut, for any channels, files, windows, numbers of   *)
(* segments and sets of commands.                                          *)
(***************************************************************************)
EXTENDS ValuePut, TLAPS

-----------------------------------------------------------------------------
(* Type correctness. *)

LEMMA DivType ==
  /\ \A a \in Nat, b \in Nat \ {0} : a \div b \in Nat
  /\ \A a \in Int, b \in Nat \ {0} : a \div b \in Int /\ a % b \in Nat
  OBVIOUS

LEMMA RequestFields ==
  ASSUME NEW r \in Request
  PROVE  /\ r.k0 \in Nat /\ r.k1 \in Nat /\ r.k2 \in Nat
         /\ r.start \in Nat /\ r.len \in Nat /\ r.nsegs \in Nat
         /\ r.chans \subseteq 1..MaxChan
         /\ r.t \in {Unset} \cup Nat
  BY DEF Request

LEMMA SegmentFields ==
  ASSUME NEW s \in Segment
  PROVE  s.i \in Nat /\ s.start \in Nat /\ s.len \in Nat /\ s.k0 \in Nat /\ s.k1 \in Nat
  BY DEF Segment

\* The span and the window's share of a request that asks for segments.
LEMMA SpanType ==
  ASSUME NEW r \in Request, r.nsegs > 1
  PROVE  Span(r) \in Nat /\ r.len \div r.nsegs \in Nat
  <1>1. r.nsegs \in Nat \ {0} /\ r.len \in Nat /\ r.k1 - r.k0 \in Int
    BY RequestFields
  <1>2. (r.k1 - r.k0) \div r.nsegs \in Int /\ r.len \div r.nsegs \in Nat
    BY <1>1, DivType
  <1> QED BY <1>2, DivType, SizesAssumption DEF Span

LEMMA FirstSegmentType == ASSUME NEW r \in Request PROVE FirstSegment(r) \in Segment
  <1>1. CASE r.nsegs <= 1
    BY <1>1, RequestFields DEF FirstSegment, Segment
  <1>2. CASE r.nsegs > 1
    <2>1. Span(r) \in Nat /\ r.len \div r.nsegs \in Nat
      BY <1>2, SpanType
    <2>2. r.k0 + Span(r) \in Nat
      BY <2>1, RequestFields
    <2> QED BY <1>2, <2>1, <2>2, RequestFields DEF FirstSegment, Segment
  <1> QED BY <1>1, <1>2, RequestFields

LEMMA NextSegmentType ==
  ASSUME NEW r \in Request, r.nsegs > 1, NEW s \in Segment
  PROVE  NextSegment(r, s) \in Segment
  <1>1. Span(r) \in Nat
    BY SpanType
  <1>2. /\ s.i + 1 \in Nat /\ s.start + s.len \in Nat /\ s.k1 + r.k2 \in Nat
        /\ s.k1 + Span(r) \in Nat /\ s.len \in Nat
    BY <1>1, RequestFields, SegmentFields
  <1> QED BY <1>2 DEF NextSegment, Segment

LEMMA SamplesType ==
  ASSUME NEW s \in Segment PROVE SamplesRead(s) \in Nat /\ Elems(s) \in Nat
  BY SizesAssumption DEF Segment, SamplesRead, Elems, Lesser

LEMMA VisitedType ==
  ASSUME NEW r \in Request PROVE Visited(r) \subseteq 1..MaxChan
  BY RequestFields DEF Visited

\* The fields of a put, and an option of the type.
LEMMA OptionType == ASSUME NEW r \in Request, timeout \in Nat PROVE TimeoutOption(r) \in Nat
  BY RequestFields DEF TimeoutOption, Unset

LEMMA ArmedType ==
  ASSUME NEW t, alarm \in {"off", "live", "dead"} PROVE Armed(t) \in {"off", "live", "dead"}
  BY DEF Armed

\* The rules the parts of the invariant share.
Working == req.kind = "put" /\ pc \in {"channel", "asking", "answered", "segment"}

\* A segment has the number, window and time range of the plan.
SegmentPlanned(r, s) ==
  IF r.nsegs <= 1
  THEN s.i = 1 /\ s.start = r.start /\ s.k0 = r.k0 /\ s.k1 = r.k1
  ELSE /\ s.i \in 1..r.nsegs
       /\ s.len = r.len \div r.nsegs
       /\ s.start = r.start + (s.i - 1) * (r.len \div r.nsegs)
       /\ s.k1 = r.k0 + s.i * Span(r)
       /\ s.k0 = IF s.i = 1 THEN r.k0 ELSE r.k0 + (s.i - 1) * Span(r) + r.k2

SegmentInv ==
  /\ TypeOK
  /\ Working => SegmentPlanned(req, seg)
  /\ pc \in {"channel", "segment"} => req.kind = "put"

LEMMA FirstPlanned ==
  ASSUME NEW r \in Request PROVE SegmentPlanned(r, FirstSegment(r))
  <1>1. CASE r.nsegs <= 1
    BY <1>1 DEF SegmentPlanned, FirstSegment
  <1>2. CASE ~(r.nsegs <= 1)
    <2>1. Span(r) \in Nat /\ r.len \div r.nsegs \in Nat
      BY <1>2, SpanType, RequestFields
    <2>2. /\ 1 \in 1..r.nsegs
          /\ r.start = r.start + (1 - 1) * (r.len \div r.nsegs)
          /\ r.k0 + Span(r) = r.k0 + 1 * Span(r)
      BY <1>2, <2>1, RequestFields
    <2>3. FirstSegment(r) = [i |-> 1, start |-> r.start, len |-> r.len \div r.nsegs,
                             k0 |-> r.k0, k1 |-> r.k0 + Span(r)]
      BY <1>2 DEF FirstSegment
    <2> QED BY <1>2, <2>2, <2>3 DEF SegmentPlanned
  <1> QED BY <1>1, <1>2

\* A segment that is not the last has a successor, as planned.
LEMMA NextPlanned ==
  ASSUME NEW r \in Request, NEW s \in Segment, SegmentPlanned(r, s), s.i < Segments(r)
  PROVE  NextSegment(r, s) \in Segment /\ SegmentPlanned(r, NextSegment(r, s))
  <1>1. r.nsegs > 1 /\ s.i \in 1..r.nsegs /\ s.i < r.nsegs
    BY RequestFields DEF SegmentPlanned, Segments
  <1> DEFINE d == r.len \div r.nsegs
             w == Span(r)
  <1>2. w \in Nat /\ d \in Nat
    BY <1>1, SpanType
  <1>3. /\ s.len = d /\ s.start = r.start + (s.i - 1) * d
        /\ s.k1 = r.k0 + s.i * w
    BY <1>1, RequestFields DEF SegmentPlanned
  <1> HIDE DEF d, w
  <1>4. s.i + 1 \in 1..r.nsegs /\ s.i + 1 # 1 /\ (s.i + 1) - 1 = s.i
    BY <1>1, RequestFields, SegmentFields
  <1>5. s.start + s.len = r.start + s.i * d
    <2>1. (s.i - 1) * d + d = s.i * d
      BY <1>2, SegmentFields
    <2>2. (s.i - 1) * d \in Int /\ s.i * d \in Int
      BY <1>2, SegmentFields
    <2> QED BY <1>2, <1>3, <2>1, <2>2, RequestFields
  <1>6. s.k1 + w = r.k0 + (s.i + 1) * w
    <2>1. s.i * w + w = (s.i + 1) * w
      BY <1>2, SegmentFields
    <2>2. s.i * w \in Int /\ (s.i + 1) * w \in Int
      BY <1>2, SegmentFields
    <2> QED BY <1>2, <1>3, <2>1, <2>2, RequestFields
  <1>7. s.k1 + r.k2 = r.k0 + s.i * w + r.k2
    BY <1>3
  <1>8. NextSegment(r, s) = [i |-> s.i + 1, start |-> s.start + s.len, len |-> s.len,
                             k0 |-> s.k1 + r.k2, k1 |-> s.k1 + w]
    BY DEF NextSegment, w
  <1>9. SegmentPlanned(r, NextSegment(r, s))
    BY <1>1, <1>3, <1>4, <1>5, <1>6, <1>7, <1>8, RequestFields DEF SegmentPlanned, d, w
  <1> QED BY <1>1, <1>9, NextSegmentType

LEMMA NoPuts == <<>> \in Seq(Put)
  <1>1. \A S : <<>> \in Seq(S)
    OBVIOUS
  <1> QED BY <1>1

\* What asking does to the types: shared by the three questions.
LEMMA AskType ==
  ASSUME NEW p \in Put, owed \in Seq(Put), Ask(p)
  PROVE  cur' \in Put /\ owed' \in Seq(Put) /\ pc' = "asking"
  <1>1. PICK kept \in {<<>>, owed} : owed' = IF up THEN Append(kept, p) ELSE <<>>
    BY DEF Ask
  <1>2. kept \in Seq(Put)
    BY NoPuts
  <1>3. Append(kept, p) \in Seq(Put)
    BY <1>2
  <1> QED BY <1>1, <1>3, NoPuts DEF Ask

LEMMA SegmentInit == Init => SegmentInv
  <1>1. NoRequest \in Request
    BY DEF NoRequest, Request, Unset
  <1>2. NoPut \in Put /\ NoSegment \in Segment
    BY SizesAssumption DEF NoPut, NoSegment, Put, Segment
  <1>3. ASSUME Init PROVE TypeOK
    BY <1>1, <1>2, <1>3, NoPuts DEF Init, TypeOK
  <1> QED BY <1>3 DEF Init, SegmentInv, Working

\* Every step keeps the types, and the segment on its plan.
LEMMA SegmentStep == SegmentInv /\ [Next]_vars => SegmentInv'
  <1> SUFFICES ASSUME SegmentInv, [Next]_vars PROVE SegmentInv'
    OBVIOUS
  <1> USE DEF SegmentInv, Working
  <1>0. TypeOK
    OBVIOUS
  <1>1. ASSUME NEW r \in Requests, RejectPut(r) PROVE SegmentInv'
    <2>1. r \in Request
      BY SizesAssumption
    <2>2. timeout' \in Nat /\ alarm' \in {"off", "live", "dead"}
      BY <1>0, <1>1, <2>1, OptionType DEF TypeOK, RejectPut, Return, Armed
    <2> QED BY <1>0, <1>1, <2>1, <2>2, NoPuts DEF TypeOK, RejectPut, Return
  <1>2. ASSUME NEW r \in Requests, BeginPut(r) PROVE SegmentInv'
    <2>1. r \in Request
      BY SizesAssumption
    <2>2. timeout' \in Nat /\ alarm' \in {"off", "live", "dead"}
      BY <1>0, <1>2, <2>1, OptionType, ArmedType DEF TypeOK, BeginPut
    <2>3. seg' \in Segment /\ SegmentPlanned(req', seg')
      BY <1>2, <2>1, FirstSegmentType, FirstPlanned DEF BeginPut
    <2>4. todo' \subseteq 1..MaxChan
      BY <1>2, <2>1, VisitedType DEF BeginPut
    <2> QED BY <1>0, <1>2, <2>1, <2>2, <2>3, <2>4, NoPuts DEF TypeOK, BeginPut
  <1>3. ASSUME NEW r \in Requests, BeginValue(r) PROVE SegmentInv'
    <2>1. r \in Request
      BY SizesAssumption
    <2>2. alarm' \in {"off", "live", "dead"}
      BY <1>0, <1>3, ArmedType DEF TypeOK, BeginValue
    <2>3. cur' \in Put /\ owed' \in Seq(Put) /\ pc' = "asking"
      <3>1. NoPut \in Put
        BY SizesAssumption DEF NoPut, Put
      <3> QED BY <1>0, <1>3, <3>1, AskType DEF TypeOK, BeginValue
    <2>4. req'.kind = "value"
      BY <1>3 DEF BeginValue
    <2> QED BY <1>0, <1>3, <2>1, <2>2, <2>3, <2>4, NoPuts DEF TypeOK, BeginValue
  <1>4. ASSUME NEW r \in Requests, Connect(r) PROVE SegmentInv'
    <2>1. r \in Request
      BY SizesAssumption
    <2> QED BY <1>0, <1>4, <2>1, NoPuts DEF TypeOK, Connect, Return
  <1>5. CASE PutChannel
    <2>1. PICK c \in Files :
            /\ Ask([ch |-> c, seg |-> seg.i, from |-> seg.start, n |-> SamplesRead(seg),
                    k0 |-> seg.k0, k1 |-> seg.k1])
            /\ todo' = todo \ {c}
      BY <1>5 DEF PutChannel
    <2>2. [ch |-> c, seg |-> seg.i, from |-> seg.start, n |-> SamplesRead(seg),
           k0 |-> seg.k0, k1 |-> seg.k1] \in Put
      BY <1>0, SizesAssumption, SamplesType, SegmentFields DEF TypeOK, Put
    <2>3. cur' \in Put /\ owed' \in Seq(Put) /\ pc' = "asking"
      BY <1>0, <2>1, <2>2, AskType DEF TypeOK
    <2>4. nelems' \in Nat
      BY <1>0, <1>5, SamplesType DEF TypeOK, PutChannel
    <2> QED BY <1>0, <1>5, <2>1, <2>3, <2>4 DEF TypeOK, PutChannel
  <1>6. CASE ChannelMissing
    BY <1>0, <1>6 DEF TypeOK, ChannelMissing
  <1>7. CASE PutTimebase
    <2>1. [ch |-> Timebase, seg |-> seg.i, from |-> seg.start, n |-> nelems,
           k0 |-> seg.k0, k1 |-> seg.k1] \in Put
      BY <1>0, SizesAssumption, SegmentFields DEF TypeOK, Put, Timebase
    <2>2. cur' \in Put /\ owed' \in Seq(Put) /\ pc' = "asking"
      BY <1>0, <1>7, <2>1, AskType DEF TypeOK, PutTimebase
    <2> QED BY <1>0, <1>7, <2>2 DEF TypeOK, PutTimebase
  <1>8. CASE Answer
    <2>1. PICK ok \in BOOLEAN : /\ ok => owed # <<>>
                                /\ status' = ok
                                /\ puts' = IF ok THEN Append(puts, Head(owed)) ELSE puts
      BY <1>8 DEF Answer
    <2>2. puts' \in Seq(Put) /\ status' \in BOOLEAN
      BY <1>0, <2>1 DEF TypeOK
    <2>3. owed' \in Seq(Put)
      BY <1>0, <1>8 DEF TypeOK, Answer
    <2> QED BY <1>0, <1>8, <2>2, <2>3 DEF TypeOK, Answer
  <1>9. CASE PutAnswered
    BY <1>0, <1>9 DEF TypeOK, PutAnswered
  <1>10. CASE BeginSegment
    <2>1. todo' \subseteq 1..MaxChan
      BY <1>0, <1>10, VisitedType DEF TypeOK, BeginSegment
    <2>2. Working
      BY <1>10 DEF BeginSegment, SegmentDone
    <2>3. seg' \in Segment /\ SegmentPlanned(req, seg')
      BY <1>0, <1>10, <2>2, NextPlanned DEF TypeOK, BeginSegment
    <2> QED BY <1>0, <1>10, <2>1, <2>2, <2>3 DEF TypeOK, BeginSegment
  <1>11. CASE FinishPut
    BY <1>0, <1>11 DEF TypeOK, FinishPut, Return
  <1>12. CASE ValueAnswered
    BY <1>0, <1>12 DEF TypeOK, ValueAnswered, Return
  <1>13. CASE Ring
    <2>1. TypeOK'
      BY <1>0, <1>13, NoPuts DEF TypeOK, Ring
    <2> QED BY <2>1, <1>13 DEF Ring
  <1>14. CASE RingWild
    BY <1>0, <1>14 DEF TypeOK, RingWild
  <1>15. CASE Lose
    <2>1. losses' \in Nat
      BY <1>0, <1>15 DEF TypeOK, Lose
    <2>2. up' \in BOOLEAN /\ owed' \in Seq(Put)
      BY <1>15, NoPuts DEF Lose
    <2>3. UNCHANGED <<pc, req, timeout, alarm, todo, cur, nelems, status, seg, puts, result>>
      BY <1>15 DEF Lose
    <2>4. TypeOK'
      BY <1>0, <2>1, <2>2, <2>3 DEF TypeOK
    <2> QED BY <2>3, <2>4
  <1>16. CASE UNCHANGED vars
    BY <1>0, <1>16 DEF TypeOK, vars
  <1> QED
    BY <1>1, <1>2, <1>3, <1>4, <1>5, <1>6, <1>7, <1>8, <1>9, <1>10, <1>11, <1>12, <1>13,
       <1>14, <1>15, <1>16 DEF Next, Begin, Work, Stopped

\* The type invariant of the server's puts: every variable has the type the code
\* gives it, whatever is asked.
THEOREM TypeCorrect == Spec => []TypeOK
  <1>1. SegmentInv => TypeOK
    BY DEF SegmentInv
  <1> QED BY <1>1, SegmentInit, SegmentStep, PTL DEF Spec

-----------------------------------------------------------------------------
(* Puts follow the plan. *)

\* Only the question being asked is with the daemon.
OneQuestion ==
  /\ pc \notin {"asking", "wild"} => owed = <<>>
  /\ pc = "asking" => owed \in {<<>>, <<cur>>}

\* What is acknowledged of this segment comes before the channels still to visit.
VisitedBefore ==
  \A j \in DOMAIN puts : puts[j].seg = seg.i =>
    puts[j].ch # Timebase /\ \A c \in todo : puts[j].ch < c

\* The put that is asked for is the next one of the plan.
AskedNext ==
  /\ Planned(req, cur) /\ cur.seg = seg.i
  /\ \A j \in DOMAIN puts : Earlier(puts[j], cur)
  /\ cur.ch # Timebase => \A c \in todo : cur.ch < c

PlanInv ==
  /\ PutsFollowPlan
  /\ Working => \A j \in DOMAIN puts : puts[j].seg <= seg.i
  /\ pc = "channel" => VisitedBefore
  /\ req.kind = "put" /\ pc = "asking" => AskedNext
  /\ req.kind = "put" /\ pc = "answered" /\ cur.ch # Timebase => VisitedBefore

LEMMA QuestionStep == SegmentInv /\ OneQuestion /\ [Next]_vars => OneQuestion'
  <1> SUFFICES ASSUME SegmentInv, OneQuestion, [Next]_vars PROVE OneQuestion'
    OBVIOUS
  <1> USE DEF OneQuestion
  <1>1. ASSUME NEW q, Ask(q), owed = <<>> PROVE OneQuestion'
    <2>1. Append(<<>>, q) = <<q>>
      OBVIOUS
    <2> QED BY <1>1, <2>1 DEF Ask
  <1>2. ASSUME NEW r \in Requests, RejectPut(r) \/ BeginPut(r) \/ Connect(r)
        PROVE  OneQuestion'
    BY <1>2 DEF RejectPut, BeginPut, Connect, Return
  <1>3. ASSUME NEW r \in Requests, BeginValue(r) PROVE OneQuestion'
    BY <1>1, <1>3 DEF BeginValue
  <1>4. CASE PutChannel
    BY <1>1, <1>4 DEF PutChannel
  <1>5. CASE PutTimebase
    BY <1>1, <1>5 DEF PutTimebase
  <1>6. CASE Answer
    <2>1. Tail(<<cur>>) = <<>>
      OBVIOUS
    <2>2. pc = "asking" /\ pc' = "answered"
      BY <1>6 DEF Answer
    <2>3. owed' = IF owed = <<>> THEN owed ELSE Tail(owed)
      BY <1>6 DEF Answer
    <2> QED BY <2>1, <2>2, <2>3
  <1>7. CASE ChannelMissing \/ PutAnswered \/ BeginSegment \/ FinishPut \/ ValueAnswered
    BY <1>7 DEF ChannelMissing, PutAnswered, BeginSegment, SegmentDone, FinishPut,
       ValueAnswered, Return
  <1>8. CASE Ring \/ RingWild \/ Lose
    BY <1>8 DEF Ring, RingWild, Lose
  <1>9. CASE UNCHANGED vars
    BY <1>9 DEF vars
  <1> QED
    BY <1>2, <1>3, <1>4, <1>5, <1>6, <1>7, <1>8, <1>9 DEF Next, Begin, Work, Stopped

\* What appending does to a sequence of puts.
LEMMA Appended ==
  ASSUME NEW s \in Seq(Put), NEW x \in Put
  PROVE  /\ DOMAIN Append(s, x) = DOMAIN s \cup {Len(s) + 1}
         /\ \A j \in DOMAIN s : Append(s, x)[j] = s[j] /\ j < Len(s) + 1
         /\ Append(s, x)[Len(s) + 1] = x
         /\ Len(s) + 1 \notin DOMAIN s /\ DOMAIN s \subseteq Nat /\ Len(s) \in Nat
         /\ \A j \in DOMAIN s : s[j] \in Put
  OBVIOUS

LEMMA PutFields ==
  ASSUME NEW x \in Put PROVE x.ch \in Nat /\ x.seg \in Nat /\ x.from \in Nat
  BY SizesAssumption DEF Put

\* A put with the segment's number, window and time range is planned.
LEMMA SegmentPutPlanned ==
  ASSUME NEW r \in Request, NEW s, NEW x, SegmentPlanned(r, s),
         x.seg = s.i, x.from = s.start, x.k0 = s.k0, x.k1 = s.k1
  PROVE  Planned(r, x)
  BY DEF SegmentPlanned, Planned

\* The answer to the question asked extends what is acknowledged by the next put of
\* the plan.
LEMMA PlanAnswer == SegmentInv /\ OneQuestion /\ PlanInv /\ Answer => PlanInv'
  <1> SUFFICES ASSUME SegmentInv, OneQuestion, PlanInv, Answer PROVE PlanInv'
    OBVIOUS
  <1>1. /\ pc = "asking" /\ pc' = "answered"
        /\ UNCHANGED <<req, todo, cur, seg>>
    BY DEF Answer
  <1>2. CASE req.kind # "put"
    BY <1>1, <1>2 DEF PlanInv, PutsFollowPlan, Working
  <1>3. CASE req.kind = "put" /\ puts' = puts
    <2>1. AskedNext /\ Working
      BY <1>1, <1>3 DEF PlanInv, Working
    <2>2. cur.ch # Timebase => VisitedBefore'
      <3> SUFFICES ASSUME cur.ch # Timebase, NEW j \in DOMAIN puts, puts[j].seg = seg.i
                   PROVE  puts[j].ch # Timebase /\ \A c \in todo : puts[j].ch < c
        BY <1>1, <1>3 DEF VisitedBefore
      <3>1. Earlier(puts[j], cur) /\ cur.seg = seg.i /\ \A c \in todo : cur.ch < c
        BY <2>1 DEF AskedNext
      <3>2. puts[j].ch # Timebase /\ puts[j].ch < cur.ch
        BY <3>1, SegmentFields DEF Earlier, SegmentInv, TypeOK
      <3>3. puts[j].ch \in Nat /\ cur.ch \in Nat /\ todo \subseteq Nat
        BY PutFields DEF SegmentInv, TypeOK
      <3> QED BY <3>1, <3>2, <3>3
    <2> QED BY <1>1, <1>3, <2>1, <2>2 DEF PlanInv, PutsFollowPlan, Working
  <1>4. CASE req.kind = "put" /\ puts' # puts
    <2>1. owed # <<>> /\ puts' = Append(puts, Head(owed))
      BY <1>4 DEF Answer
    <2>2. owed = <<cur>>
      BY <1>1, <2>1 DEF OneQuestion
    <2>3. puts' = Append(puts, cur)
      BY <2>1, <2>2
    <2> DEFINE n == Len(puts) + 1
    <2>4. /\ DOMAIN puts' = DOMAIN puts \cup {n} /\ puts'[n] = cur
          /\ \A j \in DOMAIN puts : puts'[j] = puts[j] /\ j < n
          /\ DOMAIN puts \subseteq Nat /\ n \in Nat
          /\ \A j \in DOMAIN puts : puts[j] \in Put
      BY <2>3, Appended DEF SegmentInv, TypeOK
    <2> HIDE DEF n
    <2>5. AskedNext /\ Working /\ PutsFollowPlan
      BY <1>1, <1>4 DEF PlanInv, Working
    <2>6. PutsFollowPlan'
      <3>1. ASSUME NEW j \in DOMAIN puts' PROVE Planned(req, puts'[j])
        BY <1>4, <2>4, <2>5 DEF AskedNext, PutsFollowPlan
      <3>2. ASSUME NEW i \in DOMAIN puts', NEW j \in DOMAIN puts', i < j
            PROVE  Earlier(puts'[i], puts'[j])
        <4>1. i \in DOMAIN puts
          BY <2>4, <3>2
        <4>2. CASE j = n
          BY <2>4, <2>5, <4>1, <4>2 DEF AskedNext
        <4>3. CASE j \in DOMAIN puts
          BY <1>4, <2>4, <2>5, <3>2, <4>1, <4>3 DEF PutsFollowPlan
        <4> QED BY <2>4, <4>2, <4>3
      <3> QED BY <1>1, <3>1, <3>2 DEF PutsFollowPlan
    <2>7. ASSUME NEW j \in DOMAIN puts' PROVE puts'[j].seg <= seg.i
      <3>1. seg.i \in Nat
        BY SegmentFields DEF SegmentInv, TypeOK
      <3> QED BY <1>1, <1>4, <2>4, <2>5, <3>1 DEF AskedNext, PlanInv
    <2>8. cur.ch # Timebase => VisitedBefore'
      <3> SUFFICES ASSUME cur.ch # Timebase, NEW j \in DOMAIN puts', puts'[j].seg = seg.i
                   PROVE  puts'[j].ch # Timebase /\ \A c \in todo : puts'[j].ch < c
        BY <1>1 DEF VisitedBefore
      <3>1. CASE j = n
        BY <2>4, <2>5, <3>1 DEF AskedNext
      <3>2. CASE j \in DOMAIN puts
        <4>1. Earlier(puts[j], cur) /\ cur.seg = seg.i /\ \A c \in todo : cur.ch < c
          BY <2>5, <3>2 DEF AskedNext
        <4>2. puts[j].seg = seg.i /\ puts'[j].ch = puts[j].ch
          BY <2>4, <3>2
        <4>3. puts[j].ch # Timebase /\ puts[j].ch < cur.ch
          BY <4>1, <4>2, SegmentFields DEF Earlier, SegmentInv, TypeOK
        <4>4. puts[j].ch \in Nat /\ cur.ch \in Nat /\ todo \subseteq Nat
          BY <2>4, <3>2, PutFields DEF SegmentInv, TypeOK
        <4> QED BY <4>1, <4>2, <4>3, <4>4
      <3> QED BY <2>4, <3>1, <3>2
    <2> QED BY <1>1, <2>6, <2>7, <2>8 DEF PlanInv
  <1> QED BY <1>2, <1>3, <1>4

\* The next channel's question is the next put of the plan.
LEMMA PlanPutChannel == SegmentInv /\ PlanInv /\ PutChannel => PlanInv'
  <1> SUFFICES ASSUME SegmentInv, PlanInv, PutChannel PROVE PlanInv'
    OBVIOUS
  <1>1. PICK c \in Files :
          /\ Upcoming(c)
          /\ Ask([ch |-> c, seg |-> seg.i, from |-> seg.start, n |-> SamplesRead(seg),
                  k0 |-> seg.k0, k1 |-> seg.k1])
          /\ todo' = todo \ {c}
    BY DEF PutChannel
  <1>2. /\ pc = "channel" /\ pc' = "asking"
        /\ UNCHANGED <<req, seg, puts>>
    BY <1>1 DEF PutChannel, Ask
  <1>3. /\ cur'.ch = c /\ cur'.seg = seg.i /\ cur'.from = seg.start
        /\ cur'.k0 = seg.k0 /\ cur'.k1 = seg.k1
    BY <1>1 DEF Ask
  <1>4. req.kind = "put" /\ Working /\ VisitedBefore
    BY <1>2 DEF SegmentInv, PlanInv, Working
  <1>5. c \in todo /\ (\A d \in todo : c <= d) /\ c # Timebase /\ todo \subseteq Nat /\ c \in Nat
    BY <1>1 DEF Upcoming, SegmentInv, TypeOK, Timebase
  <1>6. Planned(req, cur')
    BY <1>3, <1>4, SegmentPutPlanned DEF SegmentInv, TypeOK
  <1>7. ASSUME NEW j \in DOMAIN puts PROVE Earlier(puts[j], cur')
    <2>1. puts[j].seg <= seg.i /\ puts[j].seg \in Nat /\ seg.i \in Nat
      BY <1>4, PutFields, SegmentFields DEF PlanInv, SegmentInv, TypeOK
    <2>2. puts[j].seg = seg.i => puts[j].ch # Timebase /\ puts[j].ch < c
      BY <1>4, <1>5 DEF VisitedBefore
    <2> QED BY <1>3, <2>1, <2>2 DEF Earlier
  <1>8. \A d \in todo' : c < d
    BY <1>1, <1>5
  <1>9. AskedNext'
    BY <1>2, <1>3, <1>6, <1>7, <1>8 DEF AskedNext
  <1> QED BY <1>2, <1>4, <1>9 DEF PlanInv, PutsFollowPlan, Working

\* The timebase is the last put of the segment.
LEMMA PlanPutTimebase == SegmentInv /\ PlanInv /\ PutTimebase => PlanInv'
  <1> SUFFICES ASSUME SegmentInv, PlanInv, PutTimebase PROVE PlanInv'
    OBVIOUS
  <1>1. /\ pc = "channel" /\ pc' = "asking" /\ todo = {}
        /\ UNCHANGED <<req, seg, puts, todo>>
    BY DEF PutTimebase, Ask
  <1>2. /\ cur'.ch = Timebase /\ cur'.seg = seg.i /\ cur'.from = seg.start
        /\ cur'.k0 = seg.k0 /\ cur'.k1 = seg.k1
    BY DEF PutTimebase, Ask
  <1>3. req.kind = "put" /\ Working /\ VisitedBefore
    BY <1>1 DEF SegmentInv, PlanInv, Working
  <1>4. Planned(req, cur')
    BY <1>2, <1>3, SegmentPutPlanned DEF SegmentInv, TypeOK
  <1>5. ASSUME NEW j \in DOMAIN puts PROVE Earlier(puts[j], cur')
    <2>1. puts[j].seg <= seg.i /\ puts[j].seg \in Nat /\ seg.i \in Nat
      BY <1>3, PutFields, SegmentFields DEF PlanInv, SegmentInv, TypeOK
    <2>2. puts[j].seg = seg.i => puts[j].ch # Timebase
      BY <1>3 DEF VisitedBefore
    <2> QED BY <1>2, <2>1, <2>2 DEF Earlier
  <1>6. AskedNext'
    BY <1>1, <1>2, <1>4, <1>5 DEF AskedNext
  <1> QED BY <1>1, <1>3, <1>6 DEF PlanInv, PutsFollowPlan, Working

LEMMA PlanStep == SegmentInv /\ OneQuestion /\ PlanInv /\ [Next]_vars => PlanInv'
  <1> SUFFICES ASSUME SegmentInv, OneQuestion, PlanInv, [Next]_vars PROVE PlanInv'
    OBVIOUS
  <1> USE DEF PlanInv, PutsFollowPlan, Working
  <1>1. ASSUME puts' = <<>>, pc' \in {"idle", "channel", "asking"},
               pc' = "asking" => req'.kind # "put"
        PROVE  PlanInv'
    BY <1>1 DEF VisitedBefore
  <1>2. ASSUME NEW r \in Requests, RejectPut(r) \/ BeginPut(r) \/ Connect(r)
        PROVE  PlanInv'
    BY <1>1, <1>2 DEF RejectPut, BeginPut, Connect, Return
  <1>3. ASSUME NEW r \in Requests, BeginValue(r) PROVE PlanInv'
    BY <1>1, <1>3 DEF BeginValue, Ask
  <1>4. CASE PutChannel
    BY <1>4, PlanPutChannel
  <1>5. CASE PutTimebase
    BY <1>5, PlanPutTimebase
  <1>6. CASE Answer
    BY <1>6, PlanAnswer
  <1>7. CASE PutAnswered
    <2>1. /\ pc = "answered" /\ req.kind = "put" /\ todo' \subseteq todo
          /\ pc' = IF cur.ch = Timebase THEN "segment" ELSE "channel"
          /\ UNCHANGED <<req, cur, seg, puts>>
      BY <1>7 DEF PutAnswered
    <2> QED BY <2>1 DEF VisitedBefore
  <1>8. CASE BeginSegment
    <2>1. /\ pc \in {"channel", "segment"} /\ pc' = "channel"
          /\ UNCHANGED <<req, puts>> /\ seg'.i = seg.i + 1
      BY <1>8 DEF BeginSegment, SegmentDone, NextSegment
    <2>2. req.kind = "put" /\ seg.i \in Nat
      BY <2>1, SegmentFields DEF SegmentInv, TypeOK
    <2>3. ASSUME NEW j \in DOMAIN puts PROVE puts[j].seg <= seg'.i /\ puts[j].seg # seg'.i
      <3>1. puts[j].seg <= seg.i /\ puts[j].seg \in Nat
        BY <2>1, <2>2, PutFields DEF SegmentInv, TypeOK
      <3> QED BY <2>1, <2>2, <3>1
    <2> QED BY <2>1, <2>2, <2>3 DEF VisitedBefore
  <1>9. CASE ChannelMissing \/ FinishPut \/ ValueAnswered \/ Ring \/ RingWild
    <2>1. pc' \in {"dead", "idle", "wild"} /\ UNCHANGED <<req, puts>>
      BY <1>9 DEF ChannelMissing, FinishPut, ValueAnswered, Return, Ring, RingWild
    <2> QED BY <2>1
  <1>10. CASE Lose \/ UNCHANGED vars
    <2>1. UNCHANGED <<pc, req, todo, cur, seg, puts>>
      BY <1>10 DEF Lose, vars
    <2> QED BY <2>1 DEF VisitedBefore, AskedNext
  <1> QED
    BY <1>2, <1>3, <1>4, <1>5, <1>6, <1>7, <1>8, <1>9, <1>10 DEF Next, Begin, Work, Stopped

\* What a put takes for acknowledged was asked by this command, in the order of the
\* segments and channels, each with the window and time range of its segment.
THEOREM PutsPlanned == Spec => []PutsFollowPlan
  <1>1. Init => OneQuestion /\ PlanInv
    BY DEF Init, OneQuestion, PlanInv, PutsFollowPlan, Working, NoRequest
  <1>2. PlanInv => PutsFollowPlan
    BY DEF PlanInv
  <1> QED BY <1>1, <1>2, SegmentInit, SegmentStep, QuestionStep, PlanStep, PTL DEF Spec


=============================================================================

-------------------------- MODULE ChannelUploadProofs --------------------------
(***************************************************************************)
(* Proofs about ChannelUpload, for any sites, mask, commands and capture.  *)
(* The arithmetic of channels and of timebases comes first, then an        *)
(* inductive invariant about the puts that were made.                      *)
(***************************************************************************)
EXTENDS ChannelUpload, WellFoundedInduction, TLAPS

N == Len(Blocks)   \* sites

-----------------------------------------------------------------------------
(* Channels and sites. *)

LEMMA Least ==
  ASSUME NEW S, S \subseteq Nat, S # {}
  PROVE  \E x \in S : \A y \in S : x <= y
<1> DEFINE R == OpToRel(<, Nat)
<1>1. IsWellFoundedOn(R, Nat)
  BY NatLessThanWellFounded, Zenon
<1> HIDE DEF R
<1>2. PICK x \in S : \A y \in S : ~(<<y, x>> \in R)
  BY <1>1, WFMin, Zenon
<1>3. ASSUME NEW y \in S, y < x PROVE FALSE
  <2>1. <<y, x>> \in Nat \X Nat OBVIOUS
  <2>2. <<y, x>> \in R BY <1>3, <2>1 DEF R, OpToRel
  <2>3. QED BY <2>2, <1>2
<1>4. QED BY <1>3

LEMMA BlocksTyped == N \in Nat /\ N > 0 /\ \A i \in 1..N : Blocks[i] \in Nat \ {0}
BY UploadAssumption DEF N

\* The running sums exist: the shortest sequence of sites without them would have a
\* predecessor to extend.
LEMMA UptoDefined == Upto = [i \in 0..N |-> IF i = 0 THEN 0 ELSE Upto[i - 1] + Blocks[i]]
<1> DEFINE Sums(g, n) == g = [i \in 0..n |-> IF i = 0 THEN 0 ELSE g[i - 1] + Blocks[i]]
           Bad == {n \in 0..N : ~\E g : Sums(g, n)}
<1>0. N \in Nat BY BlocksTyped
<1>1. ASSUME Bad # {} PROVE FALSE
  <2>1. PICK n \in Bad : \A m \in Bad : n <= m
    <3>1. Bad \subseteq Nat BY <1>0
    <3> HIDE DEF Bad
    <3>2. QED BY <1>1, <3>1, Least
  <2>2. CASE n = 0
    <3> DEFINE z == [i \in 0..0 |-> 0]
    <3>1. Sums(z, 0) OBVIOUS
    <3>2. QED BY <2>2, <3>1
  <2>3. CASE n > 0
    <3>1. n - 1 \in 0..N /\ n - 1 \notin Bad BY <1>0, <2>1, <2>3
    <3>2. PICK g : Sums(g, n - 1) BY <3>1
    <3> DEFINE h == [i \in 0..n |-> IF i = n THEN g[n - 1] + Blocks[n] ELSE g[i]]
    <3>3. n \in Nat /\ n > 0 BY <1>0, <2>3
    <3>4. ASSUME NEW i \in 0..n
          PROVE  h[i] = IF i = 0 THEN 0 ELSE h[i - 1] + Blocks[i]
      <4>1. CASE i = n BY <3>3, <4>1
      <4>2. CASE i = 0 BY <3>2, <3>3, <4>2
      <4>3. CASE i \in 1..(n - 1)
        <5>1. g[i] = g[i - 1] + Blocks[i] BY <3>2, <3>3, <4>3
        <5>2. h[i] = g[i] /\ h[i - 1] = g[i - 1] BY <3>3, <4>3
        <5>3. QED BY <5>1, <5>2, <4>3
      <4>4. QED BY <3>3, <4>1, <4>2, <4>3
    <3>5. Sums(h, n) BY <3>4
    <3>6. QED BY <3>5
  <2>4. QED BY <1>0, <2>1, <2>2, <2>3
<1>2. N \in 0..N BY <1>0
<1>3. \E g : Sums(g, N) BY <1>1, <1>2
<1>4. Upto = CHOOSE g : Sums(g, N) BY DEF Upto, N
<1> HIDE DEF Sums
<1>5. Sums(Upto, N) BY <1>3, <1>4
<1>6. QED BY <1>5 DEF Sums

LEMMA UptoTyped ==
  /\ Upto \in [0..N -> Nat] /\ Upto[0] = 0
  /\ \A i \in 1..N : Upto[i] = Upto[i - 1] + Blocks[i]
<1>1. \A i \in 0..N : Upto[i] = IF i = 0 THEN 0 ELSE Upto[i - 1] + Blocks[i]
  BY UptoDefined, Zenon
<1>2. Upto[0] = 0 /\ \A i \in 1..N : Upto[i] = Upto[i - 1] + Blocks[i]
  BY <1>1, BlocksTyped
<1> DEFINE Bad == {i \in 0..N : Upto[i] \notin Nat}
<1>3. ASSUME Bad # {} PROVE FALSE
  <2>1. Bad \subseteq Nat BY BlocksTyped
  <2> HIDE DEF Bad
  <2>2. PICK i \in Bad : \A j \in Bad : i <= j BY <1>3, <2>1, Least
  <2> USE DEF Bad
  <2>3. i \in 1..N /\ i - 1 \in 0..N /\ i - 1 \notin Bad BY <1>2, <2>2, BlocksTyped
  <2>4. Upto[i - 1] \in Nat BY <2>3
  <2>5. QED BY <1>2, <2>2, <2>3, <2>4, BlocksTyped
<1>4. DOMAIN Upto = 0..N BY UptoDefined, Zenon
<1>5. \A i \in 0..N : Upto[i] \in Nat BY <1>3
<1>6. Upto = [i \in 0..N |-> Upto[i]] BY UptoDefined, <1>4, Zenon
<1>7. QED BY <1>2, <1>5, <1>6

\* A channel is on exactly the site whose running sums enclose it.
LEMMA MemberEncloses ==
  ASSUME NEW c \in Channels
  PROVE  Member(c) \in 1..N /\ c <= Upto[Member(c)] /\ c > Upto[Member(c) - 1]
<1> DEFINE Reach == {i \in 1..N : c <= Upto[i]}
<1>1. N \in Reach /\ c \in Nat /\ c > 0
  BY UptoTyped, BlocksTyped DEF Channels, N
<1>2. PICK i \in Reach : \A j \in Reach : i <= j
  <2>1. Reach \subseteq Nat BY BlocksTyped
  <2> HIDE DEF Reach
  <2>2. QED BY <1>1, <2>1, Least
<1>3. ASSUME NEW j \in 1..(i - 1) PROVE c > Upto[j]
  <2>1. j \in 1..N /\ j < i BY <1>2, BlocksTyped
  <2>2. j \notin Reach BY <1>2, <2>1
  <2>3. QED BY <1>1, <2>1, <2>2, UptoTyped
<1>4. Member(c) \in 1..N /\ c <= Upto[Member(c)]
        /\ \A j \in 1..(Member(c) - 1) : c > Upto[j]
  <2> DEFINE P(k) == c <= Upto[k] /\ \A j \in 1..(k - 1) : c > Upto[j]
  <2>1. i \in 1..N /\ P(i) BY <1>2, <1>3
  <2>2. Member(c) = CHOOSE k \in 1..N : P(k) BY DEF Member, N
  <2> HIDE DEF P
  <2>3. Member(c) \in 1..N /\ P(Member(c)) BY <2>1, <2>2
  <2>4. QED BY <2>3 DEF P
<1>5. c > Upto[Member(c) - 1]
  <2>1. CASE Member(c) = 1 BY <1>1, <2>1, UptoTyped
  <2>2. CASE Member(c) # 1 BY <1>4, <2>2, BlocksTyped
  <2>3. QED BY <2>1, <2>2
<1>6. QED BY <1>4, <1>5

\* The number on its site is one the site has, and gives the channel back.
LEMMA PhysicalGivesChannel ==
  ASSUME NEW c \in Channels
  PROVE  /\ Member(c) \in Nat
         /\ PhysicalChannel(c) \in 1..Blocks[Member(c)]
         /\ PhysicalChannel(c) + Upto[Member(c) - 1] = c
<1> DEFINE i == Member(c)
<1>1. i \in 1..N /\ c <= Upto[i] /\ c > Upto[i - 1] BY MemberEncloses
<1> HIDE DEF i
<1>2. i \in Nat /\ i - 1 \in 0..N /\ i \in 0..N BY <1>1, BlocksTyped
<1>3. Upto[i] \in Nat /\ Upto[i - 1] \in Nat /\ Upto[i] = Upto[i - 1] + Blocks[i]
  BY <1>1, <1>2, UptoTyped
<1>4. c \in Nat BY UptoTyped, BlocksTyped DEF Channels, N
<1>5. Blocks[i] \in Nat BY <1>1, BlocksTyped
<1>6. c - Upto[i - 1] \in 1..Blocks[i] BY <1>1, <1>3, <1>4, <1>5
<1>7. PhysicalChannel(c) = c - Upto[i - 1] BY DEF PhysicalChannel, i
<1>8. QED BY <1>2, <1>3, <1>4, <1>6, <1>7 DEF i
-----------------------------------------------------------------------------
(* Timebases. *)

LEMMA Division ==
  ASSUME NEW a \in Nat, NEW b \in Nat, b > 0
  PROVE  a \div b \in Nat /\ b * (a \div b) <= a /\ a < b * (a \div b) + b
OBVIOUS

LEMMA DivisionOfProduct ==
  ASSUME NEW a \in Nat, NEW b \in Nat, b > 0
  PROVE  (a * b) \div b = a
OBVIOUS

LEMMA DivisionMonotonic ==
  ASSUME NEW a \in Nat, NEW c \in Nat, NEW b \in Nat, b > 0, a <= c
  PROVE  a \div b <= c \div b
OBVIOUS

\* Towards zero: off by less than the divisor, to either side.
LEMMA QuotientNear ==
  ASSUME NEW a \in Int, NEW b \in Nat, b > 0
  PROVE  Quotient(a, b) \in Int /\ b * Quotient(a, b) - a \in (1 - b)..(b - 1)
BY DEF Quotient

LEMMA DefinitionParts ==
  ASSUME NEW d \in Definition
  PROVE  /\ d.n \in 1..3
         /\ d.start \in Nat \cup Defaults /\ d.samples \in Nat \cup Defaults
         /\ d.stride \in (Nat \ {0}) \cup Defaults
BY DEF Definition

LEMMA TimebaseTyped ==
  ASSUME NEW d \in Definition
  PROVE  /\ Length \in Nat /\ Stride(d) \in Nat /\ Stride(d) > 0 /\ First(d) \in Int
         /\ Samples(d) \in Nat /\ Dim(d) \in Nat
         /\ ServerStart(d) \in Nat /\ ServerSamples(d) \in Nat
         /\ ServerStride(d) \in Nat /\ ServerStride(d) > 0
<1>0. Length \in Nat BY CaptureAssumption DEF Length
<1>1. Stride(d) \in Nat /\ Stride(d) > 0
  BY DefinitionParts DEF Stride, Given, Larger
<1>2. Length \div Stride(d) \in Nat BY <1>0, <1>1, Division
<1>3. Samples(d) \in Nat
  BY <1>2, DefinitionParts DEF Samples, Given, Smaller, Larger
<1>4. Dim(d) \in Nat BY <1>3 DEF Dim, FullDim
<1>5. First(d) \in Int
  <2> DEFINE x == (IF Given(d, 1, d.start) THEN Smaller(d.start, Length) ELSE 0) - Pre
  <2>1. x \in Int BY <1>0, DefinitionParts, CaptureAssumption DEF Given, Smaller
  <2>2. First(d) = Quotient(x, Stride(d)) BY DEF First
  <2> HIDE DEF x
  <2>3. QED BY <1>1, <2>1, <2>2, QuotientNear
<1>6. ServerStart(d) \in Nat BY DefinitionParts DEF ServerStart, Given
<1>7. ServerSamples(d) \in Nat BY DefinitionParts DEF ServerSamples, Given
<1>8. ServerStride(d) \in Nat /\ ServerStride(d) > 0
  BY DefinitionParts DEF ServerStride, Given
<1>9. QED BY <1>0, <1>1, <1>3, <1>4, <1>5, <1>6, <1>7, <1>8

\* What Elements() computes, with its parts named.
LEMMA ElementsBounded ==
  ASSUME NEW d \in Definition,
         NEW wanted \in Nat, wanted = IF ServerSamples(d) = 0 THEN Dim(d) ELSE ServerSamples(d),
         NEW left \in Nat, left = Larger(0, Length - ServerStart(d))
  PROVE  /\ Elements(d) \in Nat /\ Elements(d) <= wanted
         /\ Elements(d) <= left \div ServerStride(d)
         /\ Elements(d) > 0 => left > 0
<1> DEFINE s == ServerStride(d)
           all == wanted * s
<1>1. s \in Nat /\ s > 0 BY TimebaseTyped
<1>2. Elements(d) = Smaller(all, left) \div s
  BY DEF Elements
<1> HIDE DEF s
<1>3. all \in Nat /\ all \div s = wanted BY <1>1, DivisionOfProduct
<1> HIDE DEF all
<1>4. Smaller(all, left) \in Nat /\ Smaller(all, left) <= all /\ Smaller(all, left) <= left
  BY <1>3 DEF Smaller
<1> DEFINE m == Smaller(all, left)
<1> HIDE DEF m
<1>5. m \in Nat /\ m <= all /\ m <= left /\ Elements(d) = m \div s BY <1>2, <1>4 DEF m
<1>6. m \div s \in Nat /\ m \div s <= all \div s /\ m \div s <= left \div s
  BY <1>1, <1>3, <1>5, Division, DivisionMonotonic
<1>7. m \div s > 0 => left > 0
  <2>1. s * (m \div s) <= m BY <1>1, <1>5, Division
  <2>2. m \div s > 0 => s * (m \div s) > 0 BY <1>1, <1>6
  <2>3. QED BY <1>1, <1>5, <1>6, <2>1, <2>2
<1>8. QED BY <1>3, <1>5, <1>6, <1>7 DEF s

\* The two readings of a definition agree on the size of the buffer.
LEMMA ElementsFit ==
  ASSUME NEW d \in Definition
  PROVE  Elements(d) <= Dim(d)
<1> DEFINE wanted == IF ServerSamples(d) = 0 THEN Dim(d) ELSE ServerSamples(d)
           left == Larger(0, Length - ServerStart(d))
<1>1. wanted \in Nat BY TimebaseTyped
<1>2. left \in Nat /\ left <= Length BY TimebaseTyped DEF Larger
<1> HIDE DEF left, wanted
<1>3. Elements(d) \in Nat /\ Elements(d) <= wanted /\ Elements(d) <= left \div ServerStride(d)
  BY <1>1, <1>2, ElementsBounded DEF left, wanted
<1>4. CASE ServerSamples(d) = 0 BY <1>3, <1>4 DEF wanted
<1>5. CASE ServerSamples(d) # 0
  <2>1. Given(d, 1, d.start) /\ Given(d, 2, d.samples) /\ wanted = d.samples
    BY <1>5 DEF ServerSamples, wanted
  <2>2. ServerStride(d) = Stride(d)
    BY <2>1, DefinitionParts DEF ServerStride, StrideTaken, Stride, Given, Larger
  <2> DEFINE all == Length \div Stride(d)
  <2>3. all \in Nat /\ Elements(d) <= all
    <3>1. left \div Stride(d) \in Nat /\ left \div Stride(d) <= Length \div Stride(d)
      BY <1>2, TimebaseTyped, Division, DivisionMonotonic
    <3>2. all \in Nat BY TimebaseTyped, Division
    <3>3. QED BY <1>3, <2>2, <3>1, <3>2
  <2>4. Samples(d) = Smaller(all, Larger(1, d.samples)) BY <2>1 DEF Samples
  <2> HIDE DEF all
  <2>5. d.samples \in Nat BY <2>1, DefinitionParts DEF Given
  <2>6. Elements(d) <= Samples(d)
    BY <1>3, <2>1, <2>3, <2>4, <2>5 DEF Smaller, Larger
  <2>7. QED BY <1>3, <2>6, TimebaseTyped DEF Dim, FullDim
<1>6. QED BY <1>4, <1>5

LEMMA StridesAgree ==
  ASSUME NEW d \in Definition, StrideTaken(d)
  PROVE  ServerStride(d) = Stride(d)
BY DefinitionParts DEF StrideTaken, ServerStride, Stride, Given, Larger

\* They agree on the time of an element, to less than a stride.
LEMMA LabelsNear ==
  ASSUME NEW d \in Definition, StrideTaken(d), Elements(d) > 0, NEW k \in Nat
  PROVE  (First(d) + k) * Stride(d) - (ServerStart(d) + k * ServerStride(d) - Pre)
           \in (1 - Stride(d))..(Stride(d) - 1)
<1> DEFINE s == Stride(d)
           f == First(d)
           a == ServerStart(d)
           left == Larger(0, Length - a)
<1>0. s \in Nat /\ s > 0 /\ f \in Int /\ a \in Nat /\ Length \in Nat BY TimebaseTyped
<1>1. a <= Length
  <2>1. left \in Nat BY <1>0 DEF Larger
  <2>2. left > 0
    <3> DEFINE wanted == IF ServerSamples(d) = 0 THEN Dim(d) ELSE ServerSamples(d)
    <3>1. wanted \in Nat BY TimebaseTyped
    <3> HIDE DEF wanted, left
    <3>2. QED BY <2>1, <3>1, ElementsBounded DEF wanted, left
  <2>3. QED BY <1>0, <2>2 DEF Larger
<1>2. f = Quotient(a - Pre, s)
  <2>1. (IF Given(d, 1, d.start) THEN Smaller(d.start, Length) ELSE 0) = a
    BY <1>0, <1>1 DEF ServerStart, Smaller
  <2>2. QED BY <2>1 DEF First
<1>3. ServerStride(d) = s BY StridesAgree
<1> HIDE DEF s, f, a
<1>4. Pre \in Nat BY CaptureAssumption
<1>5. s * f - (a - Pre) \in (1 - s)..(s - 1) BY <1>0, <1>2, <1>4, QuotientNear
<1>6. (f + k) * s = s * f + k * s BY <1>0
<1>7. k * s \in Int /\ s * f \in Int BY <1>0
<1>8. (f + k) * s - (a + k * s - Pre) = s * f - (a - Pre) BY <1>0, <1>4, <1>6, <1>7
<1>9. QED BY <1>3, <1>5, <1>8 DEF s, f, a

-----------------------------------------------------------------------------
(* Types. *)

LEMMA CommandTyped ==
  ASSUME NEW l \in Commands
  PROVE  /\ l.chans \subseteq Channels /\ l.tb \in Definition \cup {SameTimebase}
         /\ l.repeat \in {Unset, Forever} \cup Nat
BY UploadAssumption DEF Command

\* The put of a channel is typed, and made as the properties need it.
Made(p) ==
  /\ p.ch \in Channels /\ p.site = Member(p.ch) /\ p.pchan = PhysicalChannel(p.ch)
  /\ p.tb \in Definition /\ p.s0 = First(p.tb)
  /\ p.ok => Elements(p.tb) > 0

LEMMA PutChannelMakes ==
  ASSUME TypeOK, PutChannel
  PROVE  asked' \in Put /\ dt' \in Nat /\ strides' \subseteq Nat /\ Made(asked')
<1>1. PICK c \in Channels :
        /\ Upcoming(c) /\ cursor' = c
        /\ dt' = Interval /\ strides' = strides \cup {Stride(timebase)}
        /\ asked' = [ch |-> c, site |-> Member(c), pchan |-> PhysicalChannel(c),
                     s0 |-> Labels(timebase).s0, s2 |-> Labels(timebase).s2,
                     dt |-> Interval, tb |-> timebase, ok |-> FALSE]
  BY DEF PutChannel
<1>2. timebase \in Definition /\ dt \in Nat /\ strides \subseteq Nat BY DEF TypeOK
<1>3. Stride(timebase) \in Nat /\ First(timebase) \in Int /\ Samples(timebase) \in Nat
  BY <1>2, TimebaseTyped
<1>4. Interval \in Nat /\ strides' \subseteq Nat BY <1>1, <1>2, <1>3 DEF Interval
<1>5. c \in Nat /\ Member(c) \in Nat /\ PhysicalChannel(c) \in Nat
  <2>1. c \in Nat BY UptoTyped, BlocksTyped DEF Channels, N
  <2>2. PhysicalChannel(c) \in 1..Blocks[Member(c)] /\ Member(c) \in 1..N
    BY PhysicalGivesChannel, MemberEncloses
  <2>3. QED BY <2>1, <2>2, BlocksTyped
<1>6. asked' \in Put BY <1>1, <1>2, <1>3, <1>4, <1>5 DEF Put, Labels
<1>7. Made(asked') BY <1>1, <1>2 DEF Made, Labels
<1>8. QED BY <1>1, <1>4, <1>6, <1>7

LEMMA AnswerAppends ==
  ASSUME TypeOK, Answer
  PROVE  \E ok \in BOOLEAN :
           /\ acks' = Append(acks, [asked EXCEPT !.ok = ok])
           /\ [asked EXCEPT !.ok = ok] \in Put /\ acks' \in Seq(Put)
           /\ ok => Elements(asked.tb) > 0
           /\ IF ok THEN pc' = "channel" /\ status' = status
                    ELSE pc' = "exited" /\ status' = "err"
<1>1. PICK ok \in BOOLEAN :
        /\ ok => Elements(asked.tb) > 0
        /\ acks' = Append(acks, [asked EXCEPT !.ok = ok])
        /\ IF ok THEN pc' = "channel" /\ UNCHANGED status ELSE Exit("err")
  BY DEF Answer
<1>2. asked \in Put /\ acks \in Seq(Put) BY DEF TypeOK
<1>3. [asked EXCEPT !.ok = ok] \in Put BY <1>2 DEF Put
<1>4. acks' \in Seq(Put) BY <1>1, <1>2, <1>3
<1>5. QED BY <1>1, <1>3, <1>4 DEF Exit

LEMMA TypeInit == Init => TypeOK
<1> SUFFICES ASSUME Init PROVE TypeOK OBVIOUS
<1>1. timebase \in Definition BY DEF Init, Default, Definition, Defaults
<1>2. asked \in Put /\ acks \in Seq(Put)
  <2>1. Default \in Definition BY DEF Default, Definition, Defaults
  <2>2. NoPut \in Put BY <2>1 DEF NoPut, Put
  <2>3. QED BY <2>2 DEF Init
<1>3. cursor \in 0..Upto[Len(Blocks)]
  <2>1. Upto[Len(Blocks)] \in Nat BY UptoTyped, BlocksTyped DEF N
  <2>2. QED BY <2>1 DEF Init
<1>4. QED BY <1>1, <1>2, <1>3 DEF Init, TypeOK, Forever, Unset

LEMMA TypeStep ==
  ASSUME TypeOK, [Next]_vars
  PROVE  TypeOK'
<1> USE DEF TypeOK, options, selection, puts, interval, history, bounds
<1>1. ASSUME NEW l \in Commands, ReadCommand(l) PROVE TypeOK'
  <2>1. timebase' \in Definition BY <1>1, CommandTyped DEF ReadCommand
  <2>2. repeatn' \in Nat \cup {Forever} /\ mode' \in BOOLEAN /\ lines' \in Nat
    BY <1>1, CommandTyped DEF ReadCommand
  <2>3. CASE l.chans = {} BY <1>1, <2>1, <2>2, <2>3 DEF ReadCommand
  <2>4. CASE l.chans # {}
    <3>1. chans' \subseteq Channels /\ limit' \in Nat \cup {Forever, Unset}
      BY <1>1, <2>4, CommandTyped DEF ReadCommand
    <3>2. acks' = <<>> /\ turns' = 0 /\ handler' = (handler \/ mode')
      BY <1>1, <2>4 DEF ReadCommand
    <3>3. handler' \in BOOLEAN BY <2>2, <3>2, Zenon
    <3>4. pc' \in {"repeat", "create"} BY <1>1, <2>4 DEF ReadCommand
    <3>5. QED BY <1>1, <2>1, <2>2, <3>1, <3>2, <3>3, <3>4 DEF ReadCommand
  <2>5. QED BY <2>3, <2>4
<1>2. CASE EndOfInput BY <1>2 DEF EndOfInput, Exit
<1>3. CASE Turn
  <2>1. repeatn' \in Nat \cup {Forever} BY <1>3 DEF Turn, Forever
  <2>2. pc' \in {"pause", "command"} BY <1>3 DEF Turn
  <2>3. QED BY <1>3, <2>1, <2>2 DEF Turn
<1>4. CASE CreateTimebase
  <2>1. acks' \in Seq(Put) /\ turns' \in Nat BY <1>4 DEF CreateTimebase
  <2>2. cursor' \in 0..Upto[Len(Blocks)]
    BY <1>4, UptoTyped, BlocksTyped DEF CreateTimebase, N
  <2>3. QED BY <1>4, <2>1, <2>2 DEF CreateTimebase
<1>5. CASE ReadMask BY <1>5, UploadAssumption DEF ReadMask
<1>6. CASE PutChannel
  <2>1. asked' \in Put /\ dt' \in Nat /\ strides' \subseteq Nat BY <1>6, PutChannelMakes
  <2>2. cursor' \in 0..Upto[Len(Blocks)]
    <3>1. cursor' \in Channels BY <1>6 DEF PutChannel
    <3>2. QED BY <3>1, UptoTyped, BlocksTyped DEF Channels, N
  <2>3. pc' \in {"exited", "waiting"} /\ status' \in {"none", "ok", "err", "killed"}
    BY <1>6 DEF PutChannel, Exit
  <2>4. QED BY <1>6, <2>1, <2>2, <2>3 DEF PutChannel
<1>7. CASE Answer
  <2>1. acks' \in Seq(Put) BY <1>7, AnswerAppends
  <2>2. pc' \in {"channel", "exited"} /\ status' \in {"none", "ok", "err", "killed"}
    BY <1>7 DEF Answer, Exit
  <2>3. QED BY <1>7, <2>1, <2>2 DEF Answer
<1>8. CASE FinishUpload BY <1>8 DEF FinishUpload
<1>9. CASE Trigger BY <1>9 DEF Trigger
<1>10. CASE TriggerEnds BY <1>10 DEF TriggerEnds, Exit
<1>11. CASE TriggerSpoilsMask
  <2>1. mask' \subseteq Channels /\ maskRead' \in BOOLEAN /\ pc' \in {"channel", "exited"}
          /\ status' \in {"none", "ok", "err", "killed"}
    BY <1>11 DEF TriggerSpoilsMask, Exit
  <2>2. QED BY <1>11, <2>1 DEF TriggerSpoilsMask
<1>12. CASE ServerGoes BY <1>12 DEF ServerGoes, Exit
<1>13. CASE UNCHANGED vars BY <1>13 DEF vars
<1>14. QED
  BY <1>1, <1>2, <1>3, <1>4, <1>5, <1>6, <1>7, <1>8, <1>9, <1>10, <1>11, <1>12, <1>13
     DEF Next, Read, Work, Stopped

\* Every variable keeps its type, for any sites, mask, commands and capture.
THEOREM TypeCorrect == Spec => []TypeOK
<1>1. TypeOK /\ [Next]_vars => TypeOK' BY TypeStep
<1>2. QED BY TypeInit, <1>1, PTL DEF Spec

-----------------------------------------------------------------------------
(* The puts: files, buffers and labels. *)

PutsMade ==
  /\ \A j \in DOMAIN acks : Made(acks[j])
  /\ pc = "waiting" => Made(asked)

LEMMA AppendedOne ==
  ASSUME TypeOK, NEW p \in Put, acks' = Append(acks, p)
  PROVE  /\ Len(acks) \in Nat /\ Len(acks') = Len(acks) + 1
         /\ DOMAIN acks = 1..Len(acks) /\ DOMAIN acks' = 1..(Len(acks) + 1)
         /\ \A j \in DOMAIN acks : acks'[j] = acks[j]
         /\ acks'[Len(acks) + 1] = p
<1>1. acks \in Seq(Put) BY DEF TypeOK
<1>2. QED BY <1>1

\* What a step does to the puts.
LEMMA PutsStep ==
  ASSUME TypeOK, [Next]_vars
  PROVE  \/ acks' = acks \/ acks' = <<>>
         \/ \E ok \in BOOLEAN :
              /\ pc = "waiting" /\ asked' = asked /\ acks' = Append(acks, [asked EXCEPT !.ok = ok])
              /\ [asked EXCEPT !.ok = ok] \in Put
              /\ ok => Elements(asked.tb) > 0
<1>1. CASE Answer BY <1>1, AnswerAppends DEF Answer
<1>2. CASE CreateTimebase BY <1>2 DEF CreateTimebase
<1>3. ASSUME NEW l \in Commands, ReadCommand(l) PROVE acks' = acks \/ acks' = <<>>
  BY <1>3 DEF ReadCommand
<1>4. CASE EndOfInput \/ Turn \/ ReadMask \/ PutChannel \/ FinishUpload
  BY <1>4 DEF EndOfInput, Turn, ReadMask, PutChannel, FinishUpload, puts
<1>5. CASE Trigger \/ TriggerEnds \/ TriggerSpoilsMask \/ ServerGoes
  BY <1>5 DEF Trigger, TriggerEnds, TriggerSpoilsMask, ServerGoes, puts
<1>6. CASE UNCHANGED vars BY <1>6 DEF vars
<1>7. QED BY <1>1, <1>2, <1>3, <1>4, <1>5, <1>6 DEF Next, Read, Work, Stopped

LEMMA AskedStep ==
  ASSUME [Next]_vars, ~PutChannel
  PROVE  asked' = asked /\ (pc' = "waiting" => pc = "waiting")
<1>1. ASSUME NEW l \in Commands, ReadCommand(l)
      PROVE  asked' = asked /\ (pc' = "waiting" => pc = "waiting")
  BY <1>1 DEF ReadCommand
<1>2. CASE EndOfInput \/ Turn \/ ReadMask \/ CreateTimebase \/ FinishUpload
  BY <1>2 DEF EndOfInput, Turn, ReadMask, CreateTimebase, FinishUpload, puts, Exit
<1>3. CASE Answer BY <1>3 DEF Answer, Exit
<1>4. CASE Trigger \/ TriggerEnds \/ TriggerSpoilsMask \/ ServerGoes
  BY <1>4 DEF Trigger, TriggerEnds, TriggerSpoilsMask, ServerGoes, puts, Exit
<1>5. CASE UNCHANGED vars BY <1>5 DEF vars
<1>6. QED BY <1>1, <1>2, <1>3, <1>4, <1>5 DEF Next, Read, Work, Stopped

LEMMA PutsMadeStep ==
  ASSUME TypeOK, PutsMade, [Next]_vars
  PROVE  PutsMade'
<1>1. \A j \in DOMAIN acks' : Made(acks'[j])
  <2>1. CASE acks' = acks BY <2>1 DEF PutsMade
  <2>2. CASE acks' = <<>> BY <2>2
  <2>3. ASSUME NEW ok \in BOOLEAN, pc = "waiting", [asked EXCEPT !.ok = ok] \in Put,
               acks' = Append(acks, [asked EXCEPT !.ok = ok]), ok => Elements(asked.tb) > 0
        PROVE  \A j \in DOMAIN acks' : Made(acks'[j])
    <3> DEFINE p == [asked EXCEPT !.ok = ok]
    <3>1. Made(asked) BY <2>3 DEF PutsMade
    <3>2. asked \in Put BY DEF TypeOK
    <3>3. Made(p) BY <2>3, <3>1, <3>2 DEF Made, Put
    <3> HIDE DEF p
    <3>4. p \in Put /\ acks' = Append(acks, p) BY <2>3 DEF p
    <3>5. /\ DOMAIN acks' = DOMAIN acks \cup {Len(acks) + 1}
          /\ \A j \in DOMAIN acks : acks'[j] = acks[j]
          /\ acks'[Len(acks) + 1] = p
      BY <3>4, AppendedOne
    <3>6. QED BY <3>3, <3>5 DEF PutsMade
  <2>4. QED BY <2>1, <2>2, <2>3, PutsStep
<1>2. pc' = "waiting" => Made(asked')
  <2>1. CASE PutChannel BY <2>1, PutChannelMakes
  <2>2. CASE ~PutChannel BY <2>2, AskedStep DEF PutsMade
  <2>3. QED BY <2>1, <2>2
<1>3. QED BY <1>1, <1>2 DEF PutsMade

\* Every put that was answered was made for its channel, and succeeded only with
\* something to put.
THEOREM PutsAreMade == Spec => []PutsMade
<1>1. Init => PutsMade BY DEF Init, PutsMade
<1>2. TypeOK /\ PutsMade /\ [Next]_vars => PutsMade' BY PutsMadeStep
<1>3. QED BY <1>1, <1>2, TypeCorrect, PTL DEF Spec

\* The file put for a channel is that channel's, however the sites are cut.
THEOREM FilesCorrect == Spec => []FilesAreChannels
<1>1. PutsMade => FilesAreChannels
  BY PhysicalGivesChannel DEF PutsMade, Made, FilesAreChannels
<1>2. QED BY <1>1, PutsAreMade, PTL

\* The server reads no more elements than it allocated, whatever the timebase and the
\* capture.
THEOREM BuffersHold == Spec => []BufferHolds
<1>1. PutsMade => BufferHolds
  BY ElementsFit DEF PutsMade, Made, BufferHolds
<1>2. QED BY <1>1, PutsAreMade, PTL

\* The string is that of a put, and the strides are those of all of them.
Written(p) == p.dt \in strides /\ Stride(p.tb) \in strides

StringsTrue ==
  /\ dt # 0 => dt \in strides
  /\ pc = "waiting" => Written(asked)
  /\ \A j \in DOMAIN acks : Written(acks[j])

LEMMA StridesStep ==
  ASSUME [Next]_vars, ~PutChannel
  PROVE  strides' = strides /\ dt' = dt
<1> USE DEF puts, interval
<1>1. ASSUME NEW l \in Commands, ReadCommand(l) PROVE strides' = strides /\ dt' = dt
  BY <1>1 DEF ReadCommand
<1>2. CASE EndOfInput \/ Turn \/ ReadMask \/ CreateTimebase \/ FinishUpload \/ Answer
  BY <1>2 DEF EndOfInput, Turn, ReadMask, CreateTimebase, FinishUpload, Answer
<1>3. CASE Trigger \/ TriggerEnds \/ TriggerSpoilsMask \/ ServerGoes
  BY <1>3 DEF Trigger, TriggerEnds, TriggerSpoilsMask, ServerGoes
<1>4. CASE UNCHANGED vars BY <1>4 DEF vars
<1>5. QED BY <1>1, <1>2, <1>3, <1>4 DEF Next, Read, Work, Stopped

LEMMA StringsStep ==
  ASSUME TypeOK, StringsTrue, [Next]_vars
  PROVE  StringsTrue'
<1>1. CASE PutChannel
  <2>1. /\ strides' = strides \cup {Stride(timebase)} /\ dt' = Interval
        /\ asked'.dt = Interval /\ asked'.tb = timebase /\ acks' = acks
    BY <1>1 DEF PutChannel
  <2>2. Interval \in strides' BY <2>1 DEF Interval, StringsTrue
  <2>3. QED BY <2>1, <2>2 DEF StringsTrue, Written
<1>2. CASE ~PutChannel
  <2>1. strides' = strides /\ dt' = dt BY <1>2, StridesStep
  <2>2. asked' = asked /\ (pc' = "waiting" => pc = "waiting") BY <1>2, AskedStep
  <2>3. \A j \in DOMAIN acks' : Written(acks'[j])
    <3>1. CASE acks' = acks BY <3>1 DEF StringsTrue
    <3>2. CASE acks' = <<>> BY <3>2
    <3>3. ASSUME NEW ok \in BOOLEAN, pc = "waiting", [asked EXCEPT !.ok = ok] \in Put,
                 acks' = Append(acks, [asked EXCEPT !.ok = ok])
          PROVE  \A j \in DOMAIN acks' : Written(acks'[j])
      <4> DEFINE p == [asked EXCEPT !.ok = ok]
      <4>1. asked \in Put BY DEF TypeOK
      <4>2. p.tb = asked.tb /\ p.dt = asked.dt BY <4>1 DEF Put
      <4> HIDE DEF p
      <4>3. p \in Put /\ acks' = Append(acks, p) BY <3>3 DEF p
      <4>4. /\ DOMAIN acks' = DOMAIN acks \cup {Len(acks) + 1}
            /\ \A j \in DOMAIN acks : acks'[j] = acks[j]
            /\ acks'[Len(acks) + 1] = p
        BY <4>3, AppendedOne
      <4>5. Written(p) BY <3>3, <4>2 DEF StringsTrue, Written
      <4>6. QED BY <4>4, <4>5 DEF StringsTrue
    <3>4. QED BY <3>1, <3>2, <3>3, PutsStep
  <2>4. QED BY <2>1, <2>2, <2>3 DEF StringsTrue, Written
<1>3. QED BY <1>1, <1>2

\* In a process that has put with one stride only, an element is labelled with its time
\* to less than a stride, by the string that is really written, unless the server drops
\* the stride.
THEOREM LabelsCorrect == Spec => []LabelsTrue
<1>1. Init => StringsTrue BY DEF Init, StringsTrue
<1>2. TypeOK /\ StringsTrue /\ [Next]_vars => StringsTrue' BY StringsStep
<1>3. PutsMade /\ StringsTrue => LabelsTrue
  <2> SUFFICES ASSUME PutsMade, StringsTrue, OneStride, NEW j \in DOMAIN acks,
                      acks[j].ok, StrideTaken(acks[j].tb),
                      NEW k \in 0..(Elements(acks[j].tb) - 1)
               PROVE  (acks[j].s0 + k) * acks[j].dt
                        - (ServerStart(acks[j].tb) + k * ServerStride(acks[j].tb) - Pre)
                          \in (1 - acks[j].dt)..(acks[j].dt - 1)
    BY DEF LabelsTrue
  <2>1. Made(acks[j]) /\ Written(acks[j]) BY DEF PutsMade, StringsTrue
  <2>2. acks[j].tb \in Definition /\ Elements(acks[j].tb) > 0 BY <2>1 DEF Made
  <2>3. k \in Nat OBVIOUS
  <2>4. acks[j].s0 = First(acks[j].tb) BY <2>1 DEF Made
  <2>5. acks[j].dt = Stride(acks[j].tb) BY <2>1 DEF Written, OneStride
  <2>6. QED BY <2>2, <2>3, <2>4, <2>5, LabelsNear
<1>4. QED BY <1>1, <1>2, <1>3, TypeCorrect, PutsAreMade, PTL DEF Spec

-----------------------------------------------------------------------------
(* The turns. *)

\* Turns taken, turns that are left, and the one that waits for its signal.
TurnsLeft ==
  limit \in Nat =>
    /\ mode /\ turns <= limit
    /\ pc \in {"repeat", "create", "pause", "mask", "channel", "waiting"} =>
         /\ repeatn \in Nat
         /\ turns + repeatn + (IF pc \in {"pause", "create"} THEN 1 ELSE 0) <= limit

LEMMA TurnsStep ==
  ASSUME TypeOK, TurnsLeft, [Next]_vars
  PROVE  TurnsLeft'
<1> USE DEF TurnsLeft, TypeOK, options, history
<1>1. ASSUME NEW l \in Commands, ReadCommand(l) PROVE TurnsLeft'
  <2>1. CASE l.chans = {} BY <1>1, <2>1 DEF ReadCommand
  <2>2. CASE l.chans # {}
    <3>1. limit' = l.repeat /\ turns' = 0 /\ pc' = IF mode' THEN "repeat" ELSE "create"
      BY <1>1, <2>2 DEF ReadCommand
    <3>2. l.repeat \in Nat => l.repeat # Unset BY DEF Unset
    <3>3. mode' = (mode \/ l.repeat # Unset) BY <1>1 DEF ReadCommand
    <3>4. l.repeat \in Nat => mode' BY <3>2, <3>3, Zenon
    <3>5. l.repeat \in Nat => repeatn' = l.repeat BY <1>1 DEF ReadCommand
    <3>6. QED BY <3>1, <3>4, <3>5
  <2>3. QED BY <2>1, <2>2
<1>2. CASE EndOfInput BY <1>2 DEF EndOfInput, Exit
<1>3. CASE Turn BY <1>3 DEF Turn, Forever
<1>4. CASE CreateTimebase BY <1>4 DEF CreateTimebase
<1>5. CASE ReadMask BY <1>5 DEF ReadMask
<1>6. CASE PutChannel BY <1>6 DEF PutChannel, Exit
<1>7. CASE Answer BY <1>7 DEF Answer, Exit
<1>8. CASE FinishUpload BY <1>8 DEF FinishUpload
<1>9. CASE Trigger BY <1>9 DEF Trigger
<1>10. CASE TriggerEnds BY <1>10 DEF TriggerEnds, Exit
<1>11. CASE TriggerSpoilsMask BY <1>11 DEF TriggerSpoilsMask, Exit
<1>12. CASE ServerGoes BY <1>12 DEF ServerGoes, Exit
<1>13. CASE UNCHANGED vars BY <1>13 DEF vars
<1>14. QED
  BY <1>1, <1>2, <1>3, <1>4, <1>5, <1>6, <1>7, <1>8, <1>9, <1>10, <1>11, <1>12, <1>13
     DEF Next, Read, Work, Stopped

\* A command that asks for n turns gets no more, whatever signals arrive and when.
THEOREM TurnsCorrect == Spec => []TurnsBounded
<1>1. Init => TurnsLeft BY DEF Init, TurnsLeft, Unset
<1>2. TypeOK /\ TurnsLeft /\ [Next]_vars => TurnsLeft' BY TurnsStep
<1>3. TurnsLeft => TurnsBounded BY DEF TurnsLeft, TurnsBounded
<1>4. QED BY <1>1, <1>2, <1>3, TypeCorrect, PTL DEF Spec

-----------------------------------------------------------------------------
(* The order of an upload. *)

\* What was answered is what the iterator has come past.
Past ==
  /\ maskRead => mask = Mask
  /\ pc = "mask" => acks = <<>> /\ cursor = 0
  /\ maskRead /\ pc = "channel" => Answered(Len(acks)) = {c \in Plan : c <= cursor}
  /\ maskRead /\ pc = "waiting" =>
       /\ cursor \in Plan /\ asked.ch = cursor
       /\ Answered(Len(acks)) = {c \in Plan : c < cursor}

\* Only the failure of a put ends the program with that status.
Ends ==
  /\ pc # "exited" => status = "none"
  /\ status # "err" => \A j \in DOMAIN acks : acks[j].ok

InOrder == Past /\ Ends /\ ChannelsInOrder /\ OkMeansUploaded

LEMMA ChannelsAreNumbers == Channels \subseteq Nat \ {0}
BY UptoTyped, BlocksTyped DEF Channels, N

LEMMA AnsweredAppended ==
  ASSUME TypeOK, NEW p \in Put, acks' = Append(acks, p), NEW n \in Nat, n = Len(acks)
  PROVE  /\ \A i \in 0..n : Answered(i)' = Answered(i)
         /\ Answered(n + 1)' = Answered(n) \cup {p.ch}
<1>1. (\A j \in 1..n : acks'[j] = acks[j]) /\ acks'[n + 1] = p
  BY AppendedOne
<1>2. ASSUME NEW i \in 0..n PROVE {acks'[j].ch : j \in 1..i} = {acks[j].ch : j \in 1..i}
  <2>1. 1..i \subseteq 1..n OBVIOUS
  <2>2. \A j \in 1..i : acks'[j].ch = acks[j].ch BY <1>1, <2>1
  <2>3. QED BY <2>2, Zenon
<1>3. {acks'[j].ch : j \in 1..(n + 1)} = {acks[j].ch : j \in 1..n} \cup {p.ch}
  <2>1. 1..(n + 1) = 1..n \cup {n + 1} OBVIOUS
  <2>2. {acks'[j].ch : j \in 1..(n + 1)} = {acks'[j].ch : j \in 1..n} \cup {acks'[n + 1].ch}
    BY <2>1
  <2>3. {acks'[j].ch : j \in 1..n} = {acks[j].ch : j \in 1..n} BY <1>2
  <2>4. QED BY <1>1, <2>2, <2>3
<1>4. QED BY <1>2, <1>3 DEF Answered

\* Steps that leave alone what was answered, and where an upload is.
LEMMA QuietStep ==
  ASSUME TypeOK, InOrder,
         acks' = acks, chans' = chans, mask' = mask, maskRead' = maskRead,
         cursor' = cursor, asked' = asked, turns' = turns,
         pc' \in {"mask", "channel", "waiting"} => pc' = pc,
         pc' # "exited" => pc # "exited" /\ status' = status,
         pc' = "exited" /\ pc # "exited" =>
           (pc = "command" /\ status' = "ok") \/ status' \in {"err", "killed"},
         pc = "exited" => status' = status,
         pc' \in {"command", "repeat", "pause"} => pc \in {"command", "repeat", "pause"}
  PROVE  InOrder'
<1>1. Past' BY DEF InOrder, Past, Answered, Plan
<1>2. Ends' BY DEF InOrder, Ends
<1>3. ChannelsInOrder'
  <2>1. status = "err" => status' = "err" BY DEF InOrder, Ends
  <2>2. QED BY <2>1 DEF InOrder, ChannelsInOrder, Answered, Plan
<1>4. OkMeansUploaded'
  <2>1. pc' \in {"command", "repeat", "pause"} \/ status' = "ok"
          => pc \in {"command", "repeat", "pause"} \/ status = "ok"
    BY DEF InOrder, Ends
  <2>2. QED BY <2>1 DEF InOrder, OkMeansUploaded, Answered, Plan
<1>5. QED BY <1>1, <1>2, <1>3, <1>4 DEF InOrder

LEMMA ReadCommandInOrder ==
  ASSUME TypeOK, InOrder, NEW l \in Commands, ReadCommand(l)
  PROVE  InOrder'
<1>0. pc = "command" /\ status' = status /\ selection' = selection /\ asked' = asked
  BY DEF ReadCommand
<1>1. CASE l.chans = {}
  <2>1. pc' = pc /\ chans' = chans /\ acks' = acks /\ turns' = turns
    BY <1>1 DEF ReadCommand, history
  <2>2. QED BY <1>0, <2>1, QuietStep DEF selection
<1>2. CASE l.chans # {}
  <2>1. acks' = <<>> /\ turns' = 0 /\ pc' \in {"repeat", "create"}
    BY <1>2 DEF ReadCommand
  <2>2. Past' BY <1>0, <2>1 DEF InOrder, Past, selection
  <2>3. Ends' BY <1>0, <2>1 DEF InOrder, Ends
  <2>4. ChannelsInOrder' BY <2>1 DEF ChannelsInOrder
  <2>5. OkMeansUploaded' BY <2>1 DEF OkMeansUploaded
  <2>6. QED BY <2>2, <2>3, <2>4, <2>5 DEF InOrder
<1>3. QED BY <1>1, <1>2

LEMMA ReadMaskInOrder ==
  ASSUME TypeOK, InOrder,
         pc = "mask", pc' = "channel", status' = status, acks' = acks, cursor' = cursor,
         chans' = chans, maskRead' => mask' = Mask
  PROVE  InOrder'
<1>1. acks = <<>> /\ cursor = 0 /\ status = "none" BY DEF InOrder, Past, Ends
<1>2. Past'
  <2>1. {c \in Plan' : c <= 0} = {}
    <3>1. Plan' \subseteq Channels BY DEF Plan, TypeOK
    <3>2. \A c \in Channels : ~(c <= 0) BY ChannelsAreNumbers
    <3>3. QED BY <3>1, <3>2, Zenon
  <2>2. Answered(Len(acks))' = {} BY <1>1 DEF Answered
  <2>3. QED BY <1>1, <2>1, <2>2 DEF Past
<1>3. Ends' BY <1>1 DEF Ends
<1>4. ChannelsInOrder' BY <1>1 DEF ChannelsInOrder
<1>5. OkMeansUploaded' BY <1>1 DEF OkMeansUploaded
<1>6. QED BY <1>2, <1>3, <1>4, <1>5 DEF InOrder

LEMMA PutChannelInOrder ==
  ASSUME TypeOK, InOrder, PutChannel
  PROVE  InOrder'
<1>1. PICK c \in chans : Upcoming(c) /\ cursor' = c /\ asked'.ch = c
  BY DEF PutChannel
<1>2. /\ pc = "channel" /\ status = "none" /\ chans' = chans /\ mask' = mask
      /\ maskRead' = maskRead /\ acks' = acks
      /\ \/ pc' = "waiting" /\ status' = status
         \/ pc' = "exited" /\ status' = "killed"
  BY DEF PutChannel, Exit, InOrder, Ends, options
<1>3. ASSUME maskRead
      PROVE  c \in Plan /\ {d \in Plan : d < c} = {d \in Plan : d <= cursor}
  <2>1. mask = Mask BY <1>3 DEF InOrder, Past
  <2>2. c \in Plan /\ c > cursor /\ \A d \in Plan : d > cursor => c <= d
    BY <1>1, <2>1 DEF Upcoming, Plan
  <2>3. Plan \subseteq Nat BY ChannelsAreNumbers DEF Plan, TypeOK
  <2>4. cursor \in Nat BY UptoTyped, BlocksTyped DEF TypeOK, N
  <2>5. \A d \in Plan : d < c <=> d <= cursor BY <2>2, <2>3, <2>4
  <2>6. QED BY <2>2, <2>5
<1>4. Past' BY <1>1, <1>2, <1>3 DEF InOrder, Past, Answered, Plan
<1>5. Ends' BY <1>2 DEF InOrder, Ends
<1>6. ChannelsInOrder' BY <1>2 DEF InOrder, ChannelsInOrder, Answered, Plan
<1>7. OkMeansUploaded' BY <1>2 DEF OkMeansUploaded
<1>8. QED BY <1>4, <1>5, <1>6, <1>7 DEF InOrder

LEMMA AnswerInOrder ==
  ASSUME TypeOK, InOrder, Answer
  PROVE  InOrder'
<1>1. PICK ok \in BOOLEAN :
        /\ acks' = Append(acks, [asked EXCEPT !.ok = ok]) /\ [asked EXCEPT !.ok = ok] \in Put
        /\ IF ok THEN pc' = "channel" /\ status' = status
                 ELSE pc' = "exited" /\ status' = "err"
  BY AnswerAppends
<1> DEFINE p == [asked EXCEPT !.ok = ok]
<1>0. PICK n \in Nat : n = Len(acks) BY DEF TypeOK
<1>2. p.ch = asked.ch /\ p.ok = ok BY DEF TypeOK, Put
<1> HIDE DEF p
<1>3. p \in Put /\ acks' = Append(acks, p) BY <1>1 DEF p
<1>4. /\ n \in Nat /\ DOMAIN acks = 1..n /\ DOMAIN acks' = 1..(n + 1) /\ Len(acks') = n + 1
      /\ \A j \in 1..n : acks'[j] = acks[j]
      /\ acks'[n + 1] = p
  BY <1>0, <1>3, AppendedOne
<1>5. /\ \A i \in 0..n : Answered(i)' = Answered(i)
      /\ Answered(n + 1)' = Answered(n) \cup {asked.ch}
  BY <1>0, <1>2, <1>3, AnsweredAppended
<1>6. /\ pc = "waiting" /\ status = "none"
      /\ chans' = chans /\ mask' = mask /\ maskRead' = maskRead /\ cursor' = cursor
  BY DEF Answer, options, selection, InOrder, Ends
<1>7. \A j \in 1..n : acks[j].ok BY <1>4, <1>6 DEF InOrder, Ends
<1>8. maskRead => /\ cursor \in Plan /\ asked.ch = cursor
                  /\ Answered(n) = {c \in Plan : c < cursor}
  BY <1>0, <1>6 DEF InOrder, Past
<1>9. Plan' = Plan /\ Plan \subseteq Nat
  BY <1>6, ChannelsAreNumbers DEF Plan, TypeOK
<1>10. Past'
  <2>1. maskRead => Answered(n + 1)' = {c \in Plan : c <= cursor}
    <3>1. SUFFICES ASSUME maskRead
                   PROVE  {c \in Plan : c < cursor} \cup {cursor} = {c \in Plan : c <= cursor}
      BY <1>5, <1>8
    <3>2. cursor \in Plan BY <1>8, <3>1
    <3>3. \A c \in Plan : c <= cursor <=> c < cursor \/ c = cursor BY <1>9, <3>2
    <3>4. QED BY <3>2, <3>3
  <2>2. Answered(Len(acks))' = Answered(n + 1)'
    BY <1>4 DEF Answered
  <2>3. pc' # "mask" /\ pc' # "waiting" BY <1>1
  <2>4. maskRead => mask' = Mask BY <1>6 DEF InOrder, Past
  <2>5. QED BY <1>6, <1>9, <2>1, <2>2, <2>3, <2>4 DEF Past
<1>11. Ends'
  <2>1. ASSUME ok, NEW j \in 1..(n + 1) PROVE acks'[j].ok
    <3>1. CASE j = n + 1 BY <1>2, <1>4, <2>1, <3>1
    <3>2. CASE j \in 1..n BY <1>4, <1>7, <3>2
    <3>3. QED BY <1>4, <3>1, <3>2
  <2>2. QED BY <1>1, <1>4, <1>6, <2>1 DEF Ends
<1>12. ChannelsInOrder'
  <2>1. SUFFICES ASSUME maskRead', NEW j \in 1..(n + 1)
                 PROVE  /\ acks'[j].ch \in Plan
                        /\ Answered(j - 1)' = {c \in Plan : c < acks'[j].ch}
                        /\ ~acks'[j].ok => j = Len(acks') /\ status' = "err"
    BY <1>4, <1>9 DEF ChannelsInOrder
  <2>2. CASE j \in 1..n
    <3>1. acks'[j] = acks[j] /\ acks[j].ok BY <1>4, <1>7, <2>2
    <3>2. acks[j].ch \in Plan /\ Answered(j - 1) = {c \in Plan : c < acks[j].ch}
      BY <1>4, <1>6, <2>1, <2>2 DEF InOrder, ChannelsInOrder
    <3>3. Answered(j - 1)' = Answered(j - 1) BY <1>4, <1>5, <2>2
    <3>4. QED BY <3>1, <3>2, <3>3
  <2>3. CASE j = n + 1
    <3>1. acks'[j].ch = cursor /\ cursor \in Plan BY <1>2, <1>4, <1>6, <1>8, <2>1, <2>3
    <3>2. j - 1 = n /\ n \in 0..n BY <1>4, <2>3
    <3>3. Answered(j - 1)' = Answered(n) BY <1>5, <3>2
    <3>4. ~acks'[j].ok => status' = "err" BY <1>1, <1>2, <1>4, <2>3
    <3>5. QED BY <1>4, <1>6, <1>8, <2>1, <2>3, <3>1, <3>3, <3>4
  <2>4. QED BY <1>4, <2>2, <2>3
<1>13. OkMeansUploaded' BY <1>1, <1>6 DEF OkMeansUploaded
<1>14. QED BY <1>10, <1>11, <1>12, <1>13 DEF InOrder

LEMMA FinishUploadInOrder ==
  ASSUME TypeOK, InOrder, FinishUpload
  PROVE  InOrder'
<1>1. /\ pc = "channel" /\ ~\E c \in Channels : Upcoming(c)
      /\ pc' \in {"repeat", "command"} /\ status' = status /\ chans' = chans /\ acks' = acks
      /\ mask' = mask /\ maskRead' = maskRead
  BY DEF FinishUpload, options, selection, puts
<1>2. status = "none" /\ \A j \in DOMAIN acks : acks[j].ok BY <1>1 DEF InOrder, Ends
<1>3. Past' BY <1>1 DEF InOrder, Past
<1>4. Ends' BY <1>1 DEF InOrder, Ends
<1>5. ChannelsInOrder' BY <1>1 DEF InOrder, ChannelsInOrder, Answered, Plan
\* Were there a channel left, the iterator would come to the least of them.
<1>6. maskRead => Answered(Len(acks)) = Plan
  <2>1. SUFFICES ASSUME maskRead PROVE Answered(Len(acks)) = Plan OBVIOUS
  <2>2. mask = Mask /\ Answered(Len(acks)) = {c \in Plan : c <= cursor}
    BY <1>1, <2>1 DEF InOrder, Past
  <2> DEFINE After == {c \in Plan : c > cursor}
  <2>3. Plan \subseteq Channels /\ Channels \subseteq Nat
    BY ChannelsAreNumbers DEF Plan, TypeOK
  <2>4. ASSUME After # {} PROVE FALSE
    <3>1. After \subseteq Nat BY <2>3
    <3> HIDE DEF After
    <3>2. PICK c \in After : \A d \in After : c <= d BY <2>4, <3>1, Least
    <3>3. c \in Channels /\ Upcoming(c)
      BY <2>2, <2>3, <3>2 DEF After, Upcoming, Plan
    <3>4. QED BY <1>1, <3>3
  <2>5. cursor \in Nat BY UptoTyped, BlocksTyped DEF TypeOK, N
  <2>6. \A c \in Plan : c <= cursor BY <2>3, <2>4, <2>5
  <2>7. QED BY <2>2, <2>6
<1>7. OkMeansUploaded' BY <1>1, <1>2, <1>6 DEF OkMeansUploaded, Answered, Plan
<1>8. QED BY <1>3, <1>4, <1>5, <1>7 DEF InOrder

LEMMA InOrderStep ==
  ASSUME TypeOK, InOrder, [Next]_vars
  PROVE  InOrder'
<1> USE DEF options, selection, puts, history, bounds
<1>1. ASSUME NEW l \in Commands, ReadCommand(l) PROVE InOrder'
  BY <1>1, ReadCommandInOrder
<1>2. CASE EndOfInput BY <1>2, QuietStep DEF EndOfInput, Exit
<1>3. CASE Turn BY <1>3, QuietStep DEF Turn
<1>4. CASE CreateTimebase
  <2>1. /\ pc = "create" /\ pc' = "mask" /\ acks' = <<>> /\ cursor' = 0 /\ mask' = mask
        /\ maskRead' = maskRead /\ status' = status
    BY <1>4 DEF CreateTimebase
  <2>2. Past' BY <2>1 DEF InOrder, Past
  <2>3. Ends' BY <2>1 DEF InOrder, Ends
  <2>4. ChannelsInOrder' BY <2>1 DEF ChannelsInOrder
  <2>5. OkMeansUploaded' BY <2>1 DEF InOrder, Ends, OkMeansUploaded
  <2>6. QED BY <2>2, <2>3, <2>4, <2>5 DEF InOrder
<1>5. CASE ReadMask BY <1>5, ReadMaskInOrder DEF ReadMask
<1>6. CASE PutChannel BY <1>6, PutChannelInOrder
<1>7. CASE Answer BY <1>7, AnswerInOrder
<1>8. CASE FinishUpload BY <1>8, FinishUploadInOrder
<1>9. CASE Trigger
  <2>1. \/ pc = "pause" /\ pc' = "create"
        \/ pc' = pc /\ pc # "exited"
    BY <1>9 DEF Trigger
  <2>2. QED BY <1>9, <2>1, QuietStep DEF Trigger
<1>10. CASE TriggerEnds
  <2>1. /\ pc # "exited" /\ pc' = "exited"
        /\ (pc = "command" /\ status' = "ok") \/ status' \in {"err", "killed"}
    BY <1>10 DEF TriggerEnds, Exit
  <2>2. QED BY <1>10, <2>1, QuietStep DEF TriggerEnds
<1>11. CASE TriggerSpoilsMask
  <2>1. CASE pc' = "channel"
    <3>1. maskRead' = FALSE BY <1>11, <2>1 DEF TriggerSpoilsMask, Exit
    <3>2. QED BY <1>11, <2>1, <3>1, ReadMaskInOrder DEF TriggerSpoilsMask, Exit
  <2>2. CASE pc' # "channel" BY <1>11, <2>2, QuietStep DEF TriggerSpoilsMask, Exit
  <2>3. QED BY <2>1, <2>2
<1>12. CASE ServerGoes
  <2>1. \/ pc' = pc /\ status' = status
        \/ pc = "waiting" /\ pc' = "exited" /\ status' = "err"
    BY <1>12 DEF ServerGoes, Exit
  <2>2. QED BY <1>12, <2>1, QuietStep DEF ServerGoes
<1>13. CASE UNCHANGED vars BY <1>13, QuietStep DEF vars
<1>14. QED
  BY <1>1, <1>2, <1>3, <1>4, <1>5, <1>6, <1>7, <1>8, <1>9, <1>10, <1>11, <1>12, <1>13
     DEF Next, Read, Work, Stopped

LEMMA InOrderAlways == Spec => []InOrder
<1>1. Init => InOrder
  <2> SUFFICES ASSUME Init PROVE InOrder OBVIOUS
  <2>1. Past /\ Ends BY DEF Init, Past, Ends
  <2>2. ChannelsInOrder /\ OkMeansUploaded BY DEF Init, ChannelsInOrder, OkMeansUploaded
  <2>3. QED BY <2>1, <2>2 DEF InOrder
<1>2. TypeOK /\ InOrder /\ [Next]_vars => InOrder' BY InOrderStep
<1>3. QED BY <1>1, <1>2, TypeCorrect, PTL DEF Spec

\* An upload puts the selected channels of the mask in ascending order, each once, and
\* stops at the first failure, wherever signals and the end of the server fall.
THEOREM OrderCorrect == Spec => []ChannelsInOrder
<1>1. InOrder => ChannelsInOrder BY DEF InOrder
<1>2. QED BY <1>1, InOrderAlways, PTL

\* A program that goes on to another upload, or ends well, has put every channel.
THEOREM CompletenessCorrect == Spec => []OkMeansUploaded
<1>1. InOrder => OkMeansUploaded BY DEF InOrder
<1>2. QED BY <1>1, InOrderAlways, PTL

=============================================================================

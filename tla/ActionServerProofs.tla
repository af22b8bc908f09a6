------------------------- MODULE ActionServerProofs -------------------------
(***************************************************************************)
(* Theorems about ActionServer, for any number of jobs, workers and aborts.*)
(***************************************************************************)
EXTENDS ActionServer, FiniteSetTheorems, WellFoundedInduction, TLAPS

-----------------------------------------------------------------------------
(* The linked list as a sequence. *)

Waiting == {j \in Job : fate[j] = "queued"}

IsQueue(q) ==
  /\ q \in Seq(Job)
  /\ Forward(q) /\ Backward(q)
  /\ IsInjective(q)
  /\ Range(q) = Waiting

LEMMA JobType == Null \notin Job /\ Job \subseteq Nat /\ MaxJobs \in Nat
  BY ServerAssumption DEF Job, Null

(* A set of numbers has a least one. *)
LEMMA Least ==
  ASSUME NEW S, S \subseteq Nat, S # {}
  PROVE  \E n \in S : \A k \in S : n <= k
  <1> DEFINE R == OpToRel(<, Nat)
  <1>1. IsWellFoundedOn(R, Nat)
    BY NatLessThanWellFounded
  <1>2. \A x, y \in Nat : <<y, x>> \in R <=> y < x
    BY DEF OpToRel
  <1> HIDE DEF R
  <1>3. PICK n \in S : \A k \in S : <<k, n>> \notin R
    BY <1>1, WFMin
  <1>4. \A k \in S : ~ (k < n)
    BY <1>2, <1>3, Zenon
  <1>5. \A k \in S : n <= k
    BY <1>4
  <1> QED BY <1>5

(* No job is in the queue twice, so the queue is not longer than the jobs.  *)
LEMMA QueueBounded == ASSUME NEW q, IsQueue(q) PROVE q \in SeqOf(Job, MaxJobs)
  <1>1. q \in [1 .. Len(q) -> Job] /\ Len(q) \in Nat
    BY DEF IsQueue
  <1>2. IsFiniteSet(1 .. Len(q)) /\ Cardinality(1 .. Len(q)) = Len(q)
    <2> DEFINE n == Len(q)
    <2>1. n \in Nat
      BY <1>1
    <2> HIDE DEF n
    <2>2. n \in Int /\ 1 \in Int /\ (IF 1 > n THEN 0 ELSE n - 1 + 1) = n
      BY <2>1
    <2>3. IsFiniteSet(1 .. n) /\ Cardinality(1 .. n) = n
      BY <2>2, FS_Interval
    <2> QED BY <2>3 DEF n
  <1>3. IsFiniteSet(Job) /\ Cardinality(Job) = MaxJobs
    BY JobType, FS_Interval DEF Job
  <1>4. ~ (MaxJobs < Len(q))
    <2>1. SUFFICES ASSUME MaxJobs < Len(q) PROVE FALSE
      OBVIOUS
    <2>2. PICK a, b \in 1 .. Len(q) : a # b /\ q[a] = q[b]
      BY <1>1, <1>2, <1>3, <2>1, FS_PigeonHole
    <2> QED BY <1>1, <2>2 DEF IsQueue, IsInjective
  <1>5. Len(q) \in 0 .. MaxJobs
    BY <1>1, <1>4, JobType
  <1> QED BY <1>1, <1>5 DEF SeqOf

(* What is read from the first entry on does not depend on who reads it.    *)
LEMMA ForwardAgree ==
  ASSUME NEW p \in Seq(Job), NEW q \in Seq(Job), Forward(p), Forward(q)
  PROVE  \A i \in DOMAIN p : i \in DOMAIN q /\ p[i] = q[i]
  <1> DEFINE Bad == {i \in DOMAIN p : ~ (i \in DOMAIN q /\ p[i] = q[i])}
  <1>0. DOMAIN p = 1 .. Len(p) /\ DOMAIN q = 1 .. Len(q) /\ Len(p) \in Nat /\ Len(q) \in Nat
    OBVIOUS
  <1>1. SUFFICES ASSUME Bad # {} PROVE FALSE
    OBVIOUS
  <1>2. PICK n \in Bad : \A k \in Bad : n <= k
    <2>1. Bad \subseteq Nat
      BY <1>0
    <2> HIDE DEF Bad
    <2> QED BY <1>1, <2>1, Least
  <1>3. n \in 1 .. Len(p)
    BY <1>0
  <1>4. CASE n = 1
    <2>1. first = p[1] /\ p[1] \in Job
      BY <1>0, <1>3, <1>4 DEF Forward
    <2>2. q # <<>> /\ first = q[1]
      BY <2>1, JobType DEF Forward
    <2>3. 1 \in DOMAIN q
      BY <1>0, <2>2
    <2> QED BY <1>4, <2>1, <2>2, <2>3
  <1>5. CASE n # 1
    <2>1. n - 1 \in DOMAIN p /\ n - 1 \in 1 .. Len(p) - 1 /\ n - 1 \notin Bad
      BY <1>0, <1>2, <1>3, <1>5
    <2>2. n - 1 \in DOMAIN q /\ p[n - 1] = q[n - 1]
      BY <2>1
    <2>3. next[p[n - 1]] = p[n] /\ p[n] \in Job
      BY <1>0, <1>3, <2>1 DEF Forward
    <2>4. n - 1 # Len(q) /\ next[q[n - 1]] = q[n]
      BY <1>0, <1>3, <2>2, <2>3, JobType DEF Forward
    <2>5. n \in DOMAIN q
      BY <1>0, <1>3, <2>2, <2>4
    <2> QED BY <2>2, <2>3, <2>4, <2>5
  <1> QED BY <1>4, <1>5

LEMMA QueueIs == ASSUME NEW q, IsQueue(q) PROVE Queue = q
  <1>1. q \in SeqOf(Job, MaxJobs) /\ Forward(q)
    BY QueueBounded DEF IsQueue
  <1>2. Queue \in SeqOf(Job, MaxJobs) /\ Forward(Queue)
    BY <1>1 DEF Queue
  <1>3. PICK m \in 0 .. MaxJobs : Queue \in [1 .. m -> Job]
    BY <1>2 DEF SeqOf
  <1>4. Queue \in Seq(Job) /\ q \in Seq(Job)
    BY <1>3, JobType DEF IsQueue
  <1>5. /\ \A i \in DOMAIN q : i \in DOMAIN Queue /\ q[i] = Queue[i]
        /\ \A i \in DOMAIN Queue : i \in DOMAIN q /\ q[i] = Queue[i]
    BY <1>1, <1>2, <1>4, ForwardAgree
  <1> QED BY <1>4, <1>5

-----------------------------------------------------------------------------
(* QJob(), NextJob() and RemoveLast() on the list. *)

LinkType ==
  /\ next \in [Job -> Job \cup {Null}] /\ prev \in [Job -> Job \cup {Null}]
  /\ fate \in [Job -> {"none", "queued", "taken", "done", "aborted", "removed", "twice"}]

LEMMA Members ==
  ASSUME NEW q, IsQueue(q)
  PROVE  /\ Len(q) \in Nat /\ DOMAIN q = 1 .. Len(q)
         /\ \A i \in 1 .. Len(q) : q[i] \in Job /\ q[i] # Null /\ fate[q[i]] = "queued"
         /\ \A i, k \in 1 .. Len(q) : q[i] = q[k] => i = k
         /\ \A j \in Job : fate[j] = "queued" => \E i \in 1 .. Len(q) : q[i] = j
         /\ q = <<>> <=> first = Null
         /\ q = <<>> <=> last = Null
         /\ q = <<>> <=> Len(q) = 0
         /\ q # <<>> => first = q[1] /\ last = q[Len(q)]
  <1>1. q \in Seq(Job) /\ Len(q) \in Nat /\ DOMAIN q = 1 .. Len(q)
    BY DEF IsQueue
  <1>2. \A i \in 1 .. Len(q) : q[i] \in Job /\ q[i] # Null
    BY <1>1, JobType
  <1>3. \A i \in 1 .. Len(q) : fate[q[i]] = "queued"
    BY <1>1 DEF IsQueue, Range, Waiting
  <1>4. \A j \in Job : fate[j] = "queued" => \E i \in 1 .. Len(q) : q[i] = j
    BY <1>1 DEF IsQueue, Range, Waiting
  <1>5. \A i, k \in 1 .. Len(q) : q[i] = q[k] => i = k
    BY <1>1 DEF IsQueue, IsInjective
  <1>6. q = <<>> <=> Len(q) = 0
    BY <1>1
  <1>7. q # <<>> => first = q[1] /\ last = q[Len(q)] /\ first # Null /\ last # Null
    BY <1>1, <1>2, <1>6 DEF IsQueue, Forward, Backward
  <1>8. q = <<>> => first = Null /\ last = Null
    BY DEF IsQueue, Forward, Backward
  <1> QED BY <1>1, <1>2, <1>3, <1>4, <1>5, <1>6, <1>7, <1>8

LEMMA LinkQueue ==
  ASSUME LinkType, NEW q, IsQueue(q), NEW j \in Job, fate[j] # "queued",
         Link(j), fate' = [fate EXCEPT ![j] = "queued"]
  PROVE  IsQueue(Append(q, j))'
  <1> DEFINE n == Len(q)
             r == Append(q, j)
  <1>0. /\ n \in Nat /\ r \in Seq(Job) /\ Len(r) = n + 1 /\ DOMAIN r = 1 .. n + 1
        /\ r[n + 1] = j /\ \A i \in 1 .. n : r[i] = q[i]
    BY DEF IsQueue
  <1>1. \A i \in 1 .. n : q[i] # j
    BY Members
  <1>m. /\ DOMAIN q = 1 .. n
        /\ \A i \in 1 .. n : q[i] \in Job /\ q[i] # Null
        /\ \A i, k \in 1 .. n : q[i] = q[k] => i = k
        /\ q = <<>> <=> n = 0
        /\ q # <<>> => first = q[1] /\ last = q[n] /\ first # Null
        /\ q = <<>> => first = Null /\ last = Null
    BY Members
  <1> HIDE DEF n, r
  <1>2. Forward(r)'
    <2>1. first' = r[1] /\ r # <<>>
      BY <1>0, <1>m DEF Link
    <2>2. ASSUME NEW i \in 1 .. n + 1
          PROVE  next'[r[i]] = IF i = n + 1 THEN Null ELSE r[i + 1]
      <3>1. CASE i = n + 1
        BY <1>0, <3>1 DEF Link
      <3>2. CASE i = n
        <4>1. n # 0 /\ r[i] = last /\ r[i] # j /\ r[i] \in Job /\ r[i + 1] = j
          BY <1>0, <1>1, <1>m, <3>2
        <4> QED BY <1>0, <3>2, <4>1 DEF Link
      <3>3. CASE i \in 1 .. n - 1
        <4>1. r[i] = q[i] /\ r[i + 1] = q[i + 1] /\ q[i] # j /\ q[i] # last /\ q[i] \in Job
          BY <1>0, <1>1, <1>m, <3>3
        <4>2. next[q[i]] = q[i + 1]
          BY <1>0, <1>m, <3>3 DEF IsQueue, Forward, n
        <4> QED BY <1>0, <3>3, <4>1, <4>2 DEF Link
      <3> QED BY <1>0, <2>2, <3>1, <3>2, <3>3
    <2> QED BY <1>0, <2>1, <2>2 DEF Forward
  <1>3. Backward(r)'
    <2>1. last' = r[n + 1] /\ r # <<>>
      BY <1>0 DEF Link
    <2>2. ASSUME NEW i \in 1 .. n + 1
          PROVE  prev'[r[i]] = IF i = 1 THEN Null ELSE r[i - 1]
      <3>1. CASE i = n + 1 /\ n = 0
        BY <1>0, <1>m, <3>1 DEF Link, LinkType
      <3>2. CASE i = n + 1 /\ n # 0
        <4>1. r[i - 1] = last /\ i # 1
          BY <1>0, <1>m, <3>2
        <4> QED BY <1>0, <3>2, <4>1 DEF Link, LinkType
      <3>3. CASE i \in 1 .. n
        <4>1. r[i] = q[i] /\ q[i] # j /\ (i # 1 => r[i - 1] = q[i - 1])
          BY <1>0, <1>1, <1>m, <3>3
        <4>2. prev[q[i]] = IF i = 1 THEN Null ELSE q[i - 1]
          BY <1>0, <1>m, <3>3 DEF IsQueue, Backward
        <4>3. prev'[r[i]] = prev[q[i]]
          BY <1>m, <3>3, <4>1 DEF Link, LinkType
        <4> QED BY <4>1, <4>2, <4>3
      <3> QED BY <1>0, <2>2, <3>1, <3>2, <3>3
    <2> QED BY <1>0, <2>1, <2>2 DEF Backward
  <1>4. IsInjective(r)
    <2>1. ASSUME NEW a \in 1 .. n + 1, NEW b \in 1 .. n + 1, r[a] = r[b] PROVE a = b
      BY <1>0, <1>1, <1>m, <2>1
    <2> QED BY <1>0, <2>1 DEF IsInjective
  <1>5. Range(r) = Waiting'
    <2>1. Waiting' = Waiting \cup {j}
      BY DEF Waiting, LinkType
    <2>2. Range(r) = Range(q) \cup {j}
      <3>1. \A x \in Range(r) : x \in Range(q) \cup {j}
        BY <1>0, <1>m DEF Range
      <3>2. \A i \in 1 .. n : q[i] \in Range(r)
        BY <1>0 DEF Range
      <3>3. j \in Range(r)
        BY <1>0 DEF Range
      <3> QED BY <1>m, <3>1, <3>2, <3>3 DEF Range
    <2> QED BY <2>1, <2>2 DEF IsQueue
  <1> QED BY <1>0, <1>2, <1>3, <1>4, <1>5 DEF IsQueue, r

LEMMA SequenceFacts ==
  ASSUME NEW s \in Seq(Job)
  PROVE  (s = <<>> <=> Len(s) = 0) /\ DOMAIN s = 1 .. Len(s)
  <1>1. s = <<>> <=> Len(s) = 0
    OBVIOUS
  <1>2. DOMAIN s = 1 .. Len(s)
    OBVIOUS
  <1> QED BY <1>1, <1>2

LEMMA UnlinkFirstQueue ==
  ASSUME LinkType, NEW q, IsQueue(q), q # <<>>, UnlinkFirst,
         NEW how, how # "queued", fate' = [fate EXCEPT ![first] = how]
  PROVE  IsQueue(Tail(q))' /\ first = Head(q)
  <1> DEFINE n == Len(q)
             r == Tail(q)
  <1>0. /\ n \in Nat \ {0} /\ r \in Seq(Job) /\ Len(r) = n - 1 /\ DOMAIN r = 1 .. n - 1
        /\ \A i \in 1 .. n - 1 : r[i] = q[i + 1]
        /\ r = <<>> <=> n = 1
        /\ Head(q) = q[1]
    <2>1. q \in Seq(Job) /\ n \in Nat \ {0} /\ Head(q) = q[1]
      BY DEF IsQueue
    <2>2. r \in Seq(Job) /\ Len(r) = n - 1
      BY <2>1
    <2>3. \A i \in 1 .. n - 1 : r[i] = q[i + 1]
      BY <2>1
    <2> HIDE DEF r, n
    <2>4. (r = <<>> <=> Len(r) = 0) /\ DOMAIN r = 1 .. Len(r)
      BY <2>2, SequenceFacts
    <2> QED BY <2>1, <2>2, <2>3, <2>4
  <1>m. /\ DOMAIN q = 1 .. n
        /\ \A i \in 1 .. n : q[i] \in Job /\ q[i] # Null
        /\ \A i, k \in 1 .. n : q[i] = q[k] => i = k
        /\ first = q[1] /\ last = q[n]
    BY Members
  <1>f. \A i \in 1 .. n : /\ next[q[i]] = IF i = n THEN Null ELSE q[i + 1]
                          /\ prev[q[i]] = IF i = 1 THEN Null ELSE q[i - 1]
    BY <1>m DEF IsQueue, Forward, Backward
  <1> HIDE DEF n, r
  <1>1. next[first] = IF n = 1 THEN Null ELSE r[1]
    BY <1>0, <1>m, <1>f
  <1>2. Forward(r)'
    <2>1. first' = IF r = <<>> THEN Null ELSE r[1]
      BY <1>0, <1>1 DEF UnlinkFirst
    <2>2. ASSUME NEW i \in 1 .. n - 1
          PROVE  next'[r[i]] = IF i = n - 1 THEN Null ELSE r[i + 1]
      <3>1. r[i] = q[i + 1] /\ i + 1 \in 1 .. n /\ (i + 1 = n <=> i = n - 1)
        BY <1>0
      <3>2. i # n - 1 => r[i + 1] = q[i + 1 + 1]
        BY <1>0
      <3> QED BY <1>f, <3>1, <3>2 DEF UnlinkFirst
    <2> QED BY <1>0, <2>1, <2>2 DEF Forward
  <1>3. Backward(r)'
    <2>1. last' = IF r = <<>> THEN Null ELSE r[n - 1]
      <3>1. CASE n = 1
        BY <1>0, <1>1, <3>1 DEF UnlinkFirst
      <3>2. CASE n # 1
        <4>1. next[first] # Null /\ r[n - 1] = q[n]
          BY <1>0, <1>1, <1>m, <3>2
        <4> QED BY <1>0, <1>m, <3>2, <4>1 DEF UnlinkFirst
      <3> QED BY <3>1, <3>2
    <2>2. ASSUME NEW i \in 1 .. n - 1
          PROVE  prev'[r[i]] = IF i = 1 THEN Null ELSE r[i - 1]
      <3>1. r[i] = q[i + 1] /\ i + 1 \in 1 .. n /\ r[i] \in Job /\ n # 1
        BY <1>0, <1>m
      <3>2. CASE i = 1
        BY <1>1, <3>1, <3>2 DEF UnlinkFirst
      <3>3. CASE i # 1
        <4>1. r[i] # next[first] /\ r[i - 1] = q[i]
          BY <1>0, <1>1, <1>m, <3>1, <3>3
        <4>2. prev[r[i]] = q[i]
          BY <1>0, <1>f, <3>1, <3>3
        <4> QED BY <3>1, <3>3, <4>1, <4>2 DEF UnlinkFirst
      <3> QED BY <3>2, <3>3
    <2> QED BY <1>0, <2>1, <2>2 DEF Backward
  <1>4. IsInjective(r)
    <2>1. ASSUME NEW a \in 1 .. n - 1, NEW b \in 1 .. n - 1, r[a] = r[b] PROVE a = b
      <3>1. q[a + 1] = q[b + 1] /\ a + 1 \in 1 .. n /\ b + 1 \in 1 .. n
        BY <1>0, <2>1
      <3>2. a + 1 = b + 1
        BY <1>m, <3>1
      <3> QED BY <1>0, <3>2
    <2> QED BY <1>0, <2>1 DEF IsInjective
  <1>5. Range(r) = Waiting'
    <2>1. Waiting' = Waiting \ {first}
      BY DEF Waiting, LinkType
    <2>2. Waiting = {q[i] : i \in 1 .. n}
      BY <1>m DEF IsQueue, Range
    <2>3. Range(r) = {q[i] : i \in 1 .. n} \ {first}
      <3>1. \A x \in Range(r) : x \in {q[i] : i \in 1 .. n} \ {first}
        <4>1. ASSUME NEW i \in 1 .. n - 1 PROVE r[i] \in {q[k] : k \in 1 .. n} \ {first}
          <5>1. r[i] = q[i + 1] /\ i + 1 \in 1 .. n /\ i + 1 # 1
            BY <1>0
          <5>2. q[i + 1] # q[1]
            BY <1>0, <1>m, <5>1
          <5> QED BY <1>m, <5>1, <5>2
        <4> QED BY <1>0, <4>1 DEF Range
      <3>2. ASSUME NEW i \in 1 .. n, q[i] # first PROVE q[i] \in Range(r)
        <4>1. i # 1 /\ i - 1 \in 1 .. n - 1 /\ r[i - 1] = q[i]
          BY <1>0, <1>m, <3>2
        <4> QED BY <1>0, <4>1 DEF Range
      <3> QED BY <3>1, <3>2
    <2> QED BY <2>1, <2>2, <2>3
  <1> QED BY <1>0, <1>m, <1>2, <1>3, <1>4, <1>5 DEF IsQueue, r

LEMMA UnlinkLastQueue ==
  ASSUME LinkType, NEW q, IsQueue(q), q # <<>>, UnlinkLast,
         NEW how, how # "queued", fate' = [fate EXCEPT ![last] = how]
  PROVE  IsQueue(SubSeq(q, 1, Len(q) - 1))' /\ last = q[Len(q)]
  <1> DEFINE n == Len(q)
             r == SubSeq(q, 1, n - 1)
  <1>0. /\ n \in Nat \ {0} /\ r \in Seq(Job) /\ Len(r) = n - 1 /\ DOMAIN r = 1 .. n - 1
        /\ \A i \in 1 .. n - 1 : r[i] = q[i]
        /\ r = <<>> <=> n = 1
    <2>1. q \in Seq(Job) /\ n \in Nat \ {0}
      BY DEF IsQueue
    <2>2. r \in Seq(Job) /\ Len(r) = n - 1
      <3>1. n - 1 \in 0 .. n /\ n - 1 \in Nat /\ n - 1 - 1 + 1 = n - 1
        BY <2>1
      <3>2. \A i \in 1 .. n - 1 : i \in 1 .. n
        BY <2>1
      <3>3. r = [i \in 1 .. n - 1 |-> q[i]]
        BY <2>1
      <3>4. \A i \in 1 .. n - 1 : q[i] \in Job
        BY <2>1, <3>2
      <3> HIDE DEF r, n
      <3>5. r \in [1 .. n - 1 -> Job]
        BY <3>3, <3>4
      <3> QED BY <3>1, <3>3, <3>5
    <2>3. \A i \in 1 .. n - 1 : r[i] = q[i]
      BY <2>1
    <2> HIDE DEF r, n
    <2>4. (r = <<>> <=> Len(r) = 0) /\ DOMAIN r = 1 .. Len(r)
      BY <2>2, SequenceFacts
    <2> QED BY <2>1, <2>2, <2>3, <2>4
  <1>m. /\ DOMAIN q = 1 .. n
        /\ \A i \in 1 .. n : q[i] \in Job /\ q[i] # Null
        /\ \A i, k \in 1 .. n : q[i] = q[k] => i = k
        /\ first = q[1] /\ last = q[n]
    BY Members
  <1>f. \A i \in 1 .. n : /\ next[q[i]] = IF i = n THEN Null ELSE q[i + 1]
                          /\ prev[q[i]] = IF i = 1 THEN Null ELSE q[i - 1]
    BY <1>m DEF IsQueue, Forward, Backward
  <1> HIDE DEF n, r
  <1>1. prev[last] = IF n = 1 THEN Null ELSE r[n - 1]
    BY <1>0, <1>m, <1>f
  <1>2. Backward(r)'
    <2>1. last' = IF r = <<>> THEN Null ELSE r[n - 1]
      BY <1>0, <1>1 DEF UnlinkLast
    <2>2. ASSUME NEW i \in 1 .. n - 1
          PROVE  prev'[r[i]] = IF i = 1 THEN Null ELSE r[i - 1]
      BY <1>0, <1>f DEF UnlinkLast
    <2> QED BY <1>0, <2>1, <2>2 DEF Backward
  <1>3. Forward(r)'
    <2>1. first' = IF r = <<>> THEN Null ELSE r[1]
      <3>1. CASE n = 1
        BY <1>0, <1>1, <3>1 DEF UnlinkLast
      <3>2. CASE n # 1
        <4>1. prev[last] # Null /\ r[1] = q[1]
          BY <1>0, <1>1, <1>m, <3>2
        <4> QED BY <1>0, <1>m, <3>2, <4>1 DEF UnlinkLast
      <3> QED BY <3>1, <3>2
    <2>2. ASSUME NEW i \in 1 .. n - 1
          PROVE  next'[r[i]] = IF i = n - 1 THEN Null ELSE r[i + 1]
      <3>1. r[i] = q[i] /\ i \in 1 .. n /\ r[i] \in Job /\ n # 1
        BY <1>0, <1>m
      <3>2. CASE i = n - 1
        BY <1>1, <3>1, <3>2 DEF UnlinkLast
      <3>3. CASE i # n - 1
        <4>1. r[i] # prev[last] /\ r[i + 1] = q[i + 1]
          BY <1>0, <1>1, <1>m, <3>1, <3>3
        <4>2. next[r[i]] = q[i + 1]
          BY <1>0, <1>f, <3>1, <3>3
        <4> QED BY <3>1, <3>3, <4>1, <4>2 DEF UnlinkLast
      <3> QED BY <3>2, <3>3
    <2> QED BY <1>0, <2>1, <2>2 DEF Forward
  <1>4. IsInjective(r)
    <2>1. ASSUME NEW a \in 1 .. n - 1, NEW b \in 1 .. n - 1, r[a] = r[b] PROVE a = b
      BY <1>0, <1>m, <2>1
    <2> QED BY <1>0, <2>1 DEF IsInjective
  <1>5. Range(r) = Waiting'
    <2>1. Waiting' = Waiting \ {last}
      BY DEF Waiting, LinkType
    <2>2. Waiting = {q[i] : i \in 1 .. n}
      BY <1>m DEF IsQueue, Range
    <2>3. Range(r) = {q[i] : i \in 1 .. n} \ {last}
      <3>1. \A x \in Range(r) : x \in {q[i] : i \in 1 .. n} \ {last}
        <4>1. ASSUME NEW i \in 1 .. n - 1 PROVE r[i] \in {q[k] : k \in 1 .. n} \ {last}
          <5>1. r[i] = q[i] /\ i \in 1 .. n /\ n \in 1 .. n /\ i # n
            BY <1>0
          <5>2. q[i] # q[n]
            BY <1>m, <5>1
          <5> QED BY <1>m, <5>1, <5>2
        <4> QED BY <1>0, <4>1 DEF Range
      <3>2. ASSUME NEW i \in 1 .. n, q[i] # last PROVE q[i] \in Range(r)
        <4>1. i \in 1 .. n - 1 /\ r[i] = q[i]
          BY <1>0, <1>m, <3>2
        <4> QED BY <1>0, <4>1 DEF Range
      <3> QED BY <3>1, <3>2
    <2> QED BY <2>1, <2>2, <2>3
  <1> QED BY <1>0, <1>m, <1>2, <1>3, <1>4, <1>5 DEF IsQueue, r, n

-----------------------------------------------------------------------------
(* The invariant. *)

Working == {"took", "before", "doing", "answer"}
Busy    == Working \cup {"clear", "free"}

(* What a worker is at is not in the queue, and is its own until it is      *)
(* answered, or freed under it.                                             *)
WorkOK ==
  /\ \A w \in Workers : at[w] \in Busy =>
       mine[w] \in Job /\ fate[mine[w]] \notin {"none", "queued"}
  /\ \A w \in Workers : at[w] \in Working =>
       fate[mine[w]] = "taken" \/ mine[w] \in freed
  /\ \A w, v \in Workers :
       w # v /\ at[w] \in Working /\ at[v] \in Working => mine[w] # mine[v]
  /\ \A j \in freed : fate[j] \notin {"none", "queued"}
  /\ current # NoJob => fate[current] \notin {"none", "queued"}
  /\ thread = Null => ~ running /\ \A w \in Workers : at[w] = "absent"

(* Before the first abort there is one worker, and it has what is taken.    *)
AloneOK ==
  aborts = 0 =>
    /\ cancelled = {}
    /\ server \notin {"abort", "clear", "flush"}
    /\ \A w \in Workers : at[w] # "dying" /\ (at[w] # "absent" => running)
    /\ \A w, v \in Workers : w # v => at[w] = "absent" \/ at[v] = "absent"
    /\ \A j \in Job : fate[j] = "taken" =>
         \E w \in Workers : at[w] \in Working /\ mine[w] = j

IInv == TypeOK /\ WorkOK /\ AloneOK /\ \E q : IsQueue(q)

LEMMA InitIInv == Init => IInv /\ Queue = <<>>
  <1> SUFFICES ASSUME Init PROVE IInv /\ Queue = <<>>
    OBVIOUS
  <1>1. TypeOK
    <2>1. at \in [Workers -> Places] /\ aborts \in 0 .. MaxAborts
      BY ServerAssumption DEF Init, Places
    <2>2. /\ next \in [Job -> Job \cup {Null}] /\ prev \in [Job -> Job \cup {Null}]
          /\ mine \in [Workers -> Job \cup {NoJob}]
          /\ fate \in [Job -> {"none", "queued", "taken", "done", "aborted", "removed",
                               "twice"}]
      BY DEF Init
    <2>3. \A w \in Workers : at[w] = "absent"
      BY DEF Init
    <2> QED BY <2>1, <2>2, <2>3 DEF Init, TypeOK, NoJob
  <1>2. WorkOK
    BY DEF Init, WorkOK, Busy, Working
  <1>3. AloneOK
    BY DEF Init, AloneOK
  <1>4. IsQueue(<<>>)
    <2>1. Waiting = {}
      BY DEF Init, Waiting
    <2>2. <<>> \in Seq(Job) /\ DOMAIN <<>> = {}
      OBVIOUS
    <2> QED BY <2>1, <2>2 DEF Init, IsQueue, Forward, Backward, IsInjective, Range
  <1> QED BY <1>1, <1>2, <1>3, <1>4, QueueIs DEF IInv

LEMMA FirstAndLast ==
  ASSUME IInv
  PROVE  /\ first # Null => first \in Job /\ fate[first] = "queued"
         /\ last # Null => last \in Job /\ fate[last] = "queued"
  <1>1. PICK q : IsQueue(q)
    BY DEF IInv
  <1>2. first # Null => q # <<>> /\ first = q[1] /\ 1 \in 1 .. Len(q)
    BY <1>1, Members
  <1>3. last # Null => q # <<>> /\ last = q[Len(q)] /\ Len(q) \in 1 .. Len(q)
    BY <1>1, Members
  <1> QED BY <1>1, <1>2, <1>3, Members

-----------------------------------------------------------------------------
(* Types. *)

MainAction ==
  \/ \E j \in Job : QJob(j)
  \/ RemoveLast \/ (\E all \in BOOLEAN : KillThread(all))
  \/ StartThread \/ AbortCurrent \/ ClearCurrent \/ FlushQueue

LEMMA MainType == ASSUME IInv, MainAction PROVE TypeOK'
  <1> USE DEF IInv, TypeOK, listVars, workerVars, mainVars, Finished
  <1>1. ASSUME NEW j \in Job, QJob(j) PROVE TypeOK'
    BY <1>1 DEF QJob, Link
  <1>2. CASE RemoveLast
    BY <1>2, FirstAndLast DEF RemoveLast, UnlinkLast
  <1>3. ASSUME NEW all \in BOOLEAN, KillThread(all) PROVE TypeOK'
    <2>1. aborts' \in 0 .. MaxAborts
      BY <1>3, ServerAssumption DEF KillThread
    <2>2. cancelled' \subseteq Workers
      BY <1>3 DEF KillThread, WorkOK
    <2> QED BY <1>3, <2>1, <2>2 DEF KillThread
  <1>4. CASE StartThread
    BY <1>4 DEF StartThread, Places
  <1>5. CASE AbortCurrent
    BY <1>5 DEF AbortCurrent
  <1>6. CASE ClearCurrent
    BY <1>6 DEF ClearCurrent
  <1>7. CASE FlushQueue
    BY <1>7, FirstAndLast DEF FlushQueue, UnlinkFirst
  <1> QED BY <1>1, <1>2, <1>3, <1>4, <1>5, <1>6, <1>7 DEF MainAction

LEMMA WorkerType == ASSUME IInv, NEW w \in Workers, Worker(w) PROVE TypeOK'
  <1> USE DEF IInv, TypeOK, listVars, workerVars, mainVars, Finished, GoTo, Places
  <1>0. Null \notin Job
    BY JobType
  <1>1. CASE Start(w)
    BY <1>1 DEF Start
  <1>2. CASE NextJob(w)
    BY <1>0, <1>2, FirstAndLast DEF NextJob, UnlinkFirst, NoJob
  <1>3. CASE WaitForJob(w) \/ WaitEnds(w)
    BY <1>3 DEF WaitForJob, WaitEnds
  <1>4. CASE SetCurrentJob(w)
    BY <1>4 DEF SetCurrentJob
  <1>5. CASE ReplyStarting(w)
    BY <1>5 DEF ReplyStarting
  <1>6. CASE DoJob(w)
    <2>1. stray' \in BOOLEAN
      BY <1>6 DEF DoJob
    <2>2. /\ at' = [at EXCEPT ![w] = "answer"]
          /\ UNCHANGED <<listVars, current, running, mainVars, mine, cancelled, mutexLost,
                         freed, fate>>
      BY <1>6 DEF DoJob
    <2>3. \A v \in Workers :
            at'[v] \in {"took", "before", "doing", "answer", "clear", "free"} => mine'[v] # NoJob
      BY <1>6, <2>2 DEF DoJob
    <2> QED BY <2>1, <2>2, <2>3
  <1>7. CASE ReplyFinished(w)
    BY <1>7 DEF ReplyFinished, WorkOK, Busy, Working
  <1>8. CASE ClearJob(w)
    BY <1>8 DEF ClearJob
  <1>9. CASE FreeJob(w)
    BY <1>9 DEF FreeJob, WorkOK, Busy, Working
  <1>10. CASE Die(w)
    <2>1. at' \in [Workers -> Places] /\ mutexLost' \in BOOLEAN
      BY <1>10 DEF Die
    <2>2. \A v \in Workers : at'[v] = at[v] \/ at'[v] = "dying"
      BY <1>10 DEF Die
    <2>3. UNCHANGED <<listVars, current, running, mainVars, mine, cancelled, freed, fate,
                      stray>>
      BY <1>10 DEF Die
    <2> QED BY <2>1, <2>2, <2>3
  <1>11. CASE ThreadCleanup(w)
    <2>1. at' \in [Workers -> Places] /\ mine' \in [Workers -> Job \cup {NoJob}]
      BY <1>11 DEF ThreadCleanup
    <2>2. \A v \in Workers : \/ at'[v] = at[v] /\ mine'[v] = mine[v]
                            \/ at'[v] = "absent"
      BY <1>11 DEF ThreadCleanup
    <2>3. running' \in BOOLEAN /\ cancelled' \subseteq Workers
      BY <1>11 DEF ThreadCleanup
    <2>4. UNCHANGED <<listVars, current, mainVars, mutexLost, freed, fate, stray>>
      BY <1>11 DEF ThreadCleanup
    <2> QED BY <2>1, <2>2, <2>3, <2>4
  <1> QED BY <1>1, <1>2, <1>3, <1>4, <1>5, <1>6, <1>7, <1>8, <1>9, <1>10, <1>11 DEF Worker

-----------------------------------------------------------------------------
(* The workers. *)

LEMMA MainWork == ASSUME IInv, MainAction PROVE WorkOK'
  <1> USE DEF IInv, listVars, workerVars, mainVars, Busy, Working
  <1>t. /\ fate \in [Job -> {"none", "queued", "taken", "done", "aborted", "removed", "twice"}]
        /\ freed \subseteq Job /\ current \in Job \cup {NoJob}
        /\ mine \in [Workers -> Job \cup {NoJob}] /\ at \in [Workers -> Places]
    BY DEF TypeOK
  <1>1. ASSUME NEW j \in Job, QJob(j) PROVE WorkOK'
    BY <1>t, <1>1 DEF QJob, WorkOK, NoJob
  <1>2. CASE RemoveLast
    BY <1>t, <1>2, FirstAndLast DEF RemoveLast, WorkOK, NoJob
  <1>3. ASSUME NEW all \in BOOLEAN, KillThread(all) PROVE WorkOK'
    BY <1>t, <1>3 DEF KillThread, WorkOK
  <1>4. CASE StartThread
    <2>0. UNCHANGED <<mine, fate, freed, current>>
      BY <1>4 DEF StartThread
    <2>1. CASE UNCHANGED <<running, thread, at>>
      BY <2>0, <2>1 DEF WorkOK
    <2>2. ASSUME NEW w \in Workers, at[w] = "absent", at' = [at EXCEPT ![w] = "starting"],
                 thread' = w
          PROVE  WorkOK'
      <3>1. thread' # Null
        BY <2>2 DEF Workers, Null
      <3>2. \A v \in Workers : at'[v] \in Busy => at[v] \in Busy /\ at'[v] = at[v]
        BY <1>t, <2>2
      <3> QED BY <2>0, <3>1, <3>2 DEF WorkOK
    <2> QED BY <1>4, <2>1, <2>2 DEF StartThread
  <1>5. CASE AbortCurrent
    <2>1. CASE current = NoJob
      BY <1>5, <2>1 DEF AbortCurrent, WorkOK
    <2>2. CASE current # NoJob
      <3>1. /\ fate' = [fate EXCEPT ![current] =
                          IF @ \in {"done", "aborted"} THEN "twice" ELSE "aborted"]
            /\ freed' = freed \cup {current}
            /\ UNCHANGED <<at, mine, current, thread, running>>
        BY <1>5, <2>2 DEF AbortCurrent, Finished
      <3>2. \A j \in Job : \/ fate'[j] = fate[j]
                           \/ j = current /\ fate'[j] \in {"twice", "aborted"}
        BY <1>t, <2>2, <3>1
      <3> QED BY <1>t, <2>2, <3>1, <3>2 DEF WorkOK
    <2> QED BY <2>1, <2>2
  <1>6. CASE ClearCurrent
    BY <1>6 DEF ClearCurrent, WorkOK
  <1>7. CASE FlushQueue
    <2>1. CASE first = Null
      BY <1>7, <2>1 DEF FlushQueue, WorkOK
    <2>2. CASE first # Null
      <3>1. first \in Job /\ fate[first] = "queued"
        BY <2>2, FirstAndLast
      <3>2. /\ fate' = [fate EXCEPT ![first] = "aborted"]
            /\ freed' = freed \cup {first}
            /\ UNCHANGED <<at, mine, current, thread, running>>
        BY <1>7, <2>2, <3>1 DEF FlushQueue, Finished
      <3> QED BY <1>t, <3>1, <3>2 DEF WorkOK, NoJob
    <2> QED BY <2>1, <2>2
  <1> QED BY <1>1, <1>2, <1>3, <1>4, <1>5, <1>6, <1>7 DEF MainAction

LEMMA WorkerWork == ASSUME IInv, NEW w \in Workers, Worker(w) PROVE WorkOK'
  <1> USE DEF IInv, listVars, workerVars, mainVars, Busy, Working, GoTo
  <1>t. /\ fate \in [Job -> {"none", "queued", "taken", "done", "aborted", "removed", "twice"}]
        /\ freed \subseteq Job /\ current \in Job \cup {NoJob}
        /\ mine \in [Workers -> Job \cup {NoJob}] /\ at \in [Workers -> Places]
    BY DEF TypeOK
  <1>s. at[w] # "absent" => thread # Null
    BY DEF WorkOK
  <1>1. CASE Start(w)
    BY <1>t, <1>s, <1>1 DEF Start, WorkOK
  <1>2. CASE NextJob(w)
    <2>1. CASE first = Null
      BY <1>t, <1>s, <1>2, <2>1 DEF NextJob, WorkOK
    <2>2. CASE first # Null
      <3>1. first \in Job /\ fate[first] = "queued"
        BY <2>2, FirstAndLast
      <3>2. /\ fate' = [fate EXCEPT ![first] = "taken"]
            /\ mine' = [mine EXCEPT ![w] = first]
            /\ at' = [at EXCEPT ![w] = "took"]
            /\ at[w] = "next"
            /\ UNCHANGED <<freed, current, thread, running>>
        BY <1>2, <2>2 DEF NextJob
      <3>3. \A v \in Workers : v # w /\ at[v] \in Busy => mine[v] # first
        BY <3>1 DEF WorkOK
      <3>4. \A j \in Job : fate'[j] = fate[j] \/ (j = first /\ fate'[j] = "taken")
        BY <1>t, <3>1, <3>2
      <3>5. \A v \in Workers : v # w => at'[v] = at[v] /\ mine'[v] = mine[v]
        BY <1>t, <3>2
      <3>6. at'[w] = "took" /\ mine'[w] = first
        BY <1>t, <3>2
      <3>7. \A v \in Workers : at'[v] \in Busy =>
              mine'[v] \in Job /\ fate'[mine'[v]] \notin {"none", "queued"}
        <4>1. fate'[first] = "taken"
          BY <1>t, <3>1, <3>2
        <4>2. \A v \in Workers : v # w /\ at[v] \in Busy =>
                mine[v] \in Job /\ fate'[mine[v]] \notin {"none", "queued"}
          BY <3>3, <3>4 DEF WorkOK
        <4> QED BY <3>1, <3>5, <3>6, <4>1, <4>2
      <3>8. \A v \in Workers : at'[v] \in Working =>
              fate'[mine'[v]] = "taken" \/ mine'[v] \in freed'
        <4>1. fate'[mine'[w]] = "taken"
          BY <1>t, <3>1, <3>2, <3>6
        <4>2. \A v \in Workers : v # w /\ at[v] \in Working =>
                fate'[mine[v]] = "taken" \/ mine[v] \in freed
          BY <1>t, <3>3, <3>4 DEF WorkOK
        <4> QED BY <3>2, <3>5, <3>6, <4>1, <4>2
      <3>9. \A u, v \in Workers :
              u # v /\ at'[u] \in Working /\ at'[v] \in Working => mine'[u] # mine'[v]
        BY <3>3, <3>5, <3>6 DEF WorkOK
      <3>10. /\ \A j \in freed' : fate'[j] \notin {"none", "queued"}
             /\ current' # NoJob => fate'[current'] \notin {"none", "queued"}
             /\ thread' # Null
        BY <1>t, <1>s, <3>2, <3>4 DEF WorkOK
      <3> QED BY <3>7, <3>8, <3>9, <3>10 DEF WorkOK
    <2> QED BY <2>1, <2>2
  <1>3. CASE WaitForJob(w) \/ WaitEnds(w)
    BY <1>t, <1>s, <1>3 DEF WaitForJob, WaitEnds, WorkOK
  <1>4. CASE SetCurrentJob(w)
    BY <1>t, <1>s, <1>4 DEF SetCurrentJob, WorkOK
  <1>5. CASE ReplyStarting(w)
    BY <1>t, <1>s, <1>5 DEF ReplyStarting, WorkOK
  <1>6. CASE DoJob(w)
    BY <1>t, <1>s, <1>6 DEF DoJob, WorkOK
  <1>7. CASE ReplyFinished(w)
    <2>1. /\ at[w] = "answer" /\ mine[w] \in Job
          /\ fate' = [fate EXCEPT ![mine[w]] =
                        IF @ \in {"done", "aborted"} THEN "twice" ELSE "done"]
          /\ at' = [at EXCEPT ![w] = "clear"]
          /\ UNCHANGED <<mine, freed, current, thread, running>>
      BY <1>7 DEF ReplyFinished, Finished, WorkOK
    <2>2. \A j \in Job : \/ fate'[j] = fate[j]
                         \/ j = mine[w] /\ fate'[j] \in {"twice", "done"}
      BY <1>t, <2>1
    <2>3. \A v \in Workers : v # w => at'[v] = at[v]
      BY <1>t, <2>1
    <2>4. at'[w] = "clear"
      BY <1>t, <2>1
    <2> QED BY <1>t, <1>s, <2>1, <2>2, <2>3, <2>4 DEF WorkOK
  <1>8. CASE ClearJob(w)
    BY <1>t, <1>s, <1>8 DEF ClearJob, WorkOK
  <1>9. CASE FreeJob(w)
    <2>1. /\ at[w] = "free" /\ mine[w] \in Job /\ fate[mine[w]] \notin {"none", "queued"}
          /\ freed' = freed \cup {mine[w]}
          /\ at' = [at EXCEPT ![w] = "next"] /\ mine' = [mine EXCEPT ![w] = NoJob]
          /\ UNCHANGED <<fate, current, thread, running>>
      BY <1>9 DEF FreeJob, WorkOK
    <2>2. \A v \in Workers : v # w => at'[v] = at[v] /\ mine'[v] = mine[v]
      BY <1>t, <2>1
    <2>3. at'[w] = "next"
      BY <1>t, <2>1
    <2> QED BY <1>t, <1>s, <2>1, <2>2, <2>3 DEF WorkOK
  <1>10. CASE Die(w)
    BY <1>t, <1>s, <1>10 DEF Die, WorkOK
  <1>11. CASE ThreadCleanup(w)
    BY <1>t, <1>s, <1>11 DEF ThreadCleanup, WorkOK
  <1> QED BY <1>1, <1>2, <1>3, <1>4, <1>5, <1>6, <1>7, <1>8, <1>9, <1>10, <1>11 DEF Worker

LEMMA MainAlone == ASSUME IInv, MainAction PROVE AloneOK'
  <1> USE DEF IInv, listVars, workerVars, mainVars, Working
  <1>t. /\ fate \in [Job -> {"none", "queued", "taken", "done", "aborted", "removed", "twice"}]
        /\ at \in [Workers -> Places] /\ aborts \in Nat
    BY ServerAssumption DEF TypeOK
  <1>1. ASSUME NEW j \in Job, QJob(j) PROVE AloneOK'
    BY <1>t, <1>1 DEF QJob, AloneOK
  <1>2. CASE RemoveLast
    BY <1>t, <1>2, FirstAndLast DEF RemoveLast, AloneOK
  <1>3. ASSUME NEW all \in BOOLEAN, KillThread(all) PROVE AloneOK'
    BY <1>t, <1>3 DEF KillThread, AloneOK
  <1>4. CASE StartThread
    <2>0. UNCHANGED <<mine, fate, aborts, cancelled>> /\ server' = "idle"
      BY <1>4 DEF StartThread
    <2>1. CASE UNCHANGED <<running, thread, at>>
      BY <2>0, <2>1 DEF AloneOK
    <2>2. ASSUME NEW w \in Workers, ~ running, at' = [at EXCEPT ![w] = "starting"],
                 running' = TRUE, aborts = 0
          PROVE  AloneOK'
      <3>1. \A v \in Workers : at[v] = "absent"
        BY <2>2 DEF AloneOK
      <3>2. \A j \in Job : fate[j] # "taken"
        BY <2>2, <3>1 DEF AloneOK
      <3> QED BY <1>t, <2>0, <2>2, <3>1, <3>2 DEF AloneOK
    <2> QED BY <1>4, <2>0, <2>1, <2>2 DEF StartThread, AloneOK
  <1>5. CASE AbortCurrent \/ ClearCurrent \/ FlushQueue
    <2>1. aborts # 0 /\ UNCHANGED aborts
      BY <1>5 DEF AbortCurrent, ClearCurrent, FlushQueue, AloneOK
    <2> QED BY <2>1 DEF AloneOK
  <1> QED BY <1>1, <1>2, <1>3, <1>4, <1>5 DEF MainAction

LEMMA WorkerAlone == ASSUME IInv, NEW w \in Workers, Worker(w) PROVE AloneOK'
  <1> USE DEF IInv, listVars, workerVars, mainVars, Working, Busy, GoTo
  <1>t. /\ fate \in [Job -> {"none", "queued", "taken", "done", "aborted", "removed", "twice"}]
        /\ at \in [Workers -> Places] /\ mine \in [Workers -> Job \cup {NoJob}]
    BY DEF TypeOK
  <1>0. UNCHANGED <<aborts, server>>
    BY DEF Worker, Start, NextJob, WaitForJob, WaitEnds, SetCurrentJob, ReplyStarting, DoJob,
       ReplyFinished, ClearJob, FreeJob, Die, ThreadCleanup
  <1> SUFFICES ASSUME aborts = 0 PROVE AloneOK'
    BY <1>0 DEF AloneOK
  <1>a. /\ cancelled = {} /\ server \notin {"abort", "clear", "flush"}
        /\ \A v \in Workers : at[v] # "dying" /\ (at[v] # "absent" => running)
        /\ \A u, v \in Workers : u # v => at[u] = "absent" \/ at[v] = "absent"
        /\ \A j \in Job : fate[j] = "taken" =>
             \E v \in Workers : at[v] \in Working /\ mine[v] = j
    BY DEF AloneOK
  <1>b. at[w] # "absent" => \A v \in Workers : v # w => at[v] = "absent"
    BY <1>a
  \* A step that goes on with the worker's job, or on without one.
  <1>k. ASSUME NEW place \in Places \ {"absent", "dying"}, at[w] # "absent",
               at' = [at EXCEPT ![w] = place],
               UNCHANGED cancelled, running' = running \/ running' = TRUE,
               \A j \in Job : fate'[j] = "taken" => place \in Working /\ mine'[w] = j
        PROVE  AloneOK'
    BY <1>t, <1>0, <1>a, <1>b, <1>k DEF AloneOK
  <1>m. \A j \in Job : fate[j] = "taken" /\ at[w] # "absent" => at[w] \in Working /\ mine[w] = j
    BY <1>a, <1>b
  <1>1. CASE Start(w)
    BY <1>k, <1>m, <1>1 DEF Start, Places
  <1>2. CASE NextJob(w)
    <2>1. CASE first = Null
      BY <1>k, <1>m, <1>2, <2>1 DEF NextJob, Places
    <2>2. CASE first # Null
      <3>1. first \in Job
        BY <2>2, FirstAndLast
      <3>2. /\ fate' = [fate EXCEPT ![first] = "taken"] /\ mine' = [mine EXCEPT ![w] = first]
            /\ at' = [at EXCEPT ![w] = "took"] /\ at[w] = "next"
            /\ UNCHANGED <<cancelled, running>>
        BY <1>2, <2>2 DEF NextJob
      <3>3. \A j \in Job : fate'[j] = "taken" => mine'[w] = j
        BY <1>t, <1>m, <3>1, <3>2
      <3> QED BY <1>k, <3>2, <3>3 DEF Places
    <2> QED BY <2>1, <2>2
  <1>3. CASE WaitForJob(w) \/ WaitEnds(w)
    BY <1>k, <1>m, <1>3 DEF WaitForJob, WaitEnds, Places
  <1>4. CASE SetCurrentJob(w)
    BY <1>k, <1>m, <1>4 DEF SetCurrentJob, Places
  <1>5. CASE ReplyStarting(w)
    BY <1>k, <1>m, <1>5 DEF ReplyStarting, Places
  <1>6. CASE DoJob(w)
    BY <1>k, <1>m, <1>6 DEF DoJob, Places
  <1>7. CASE ReplyFinished(w)
    <2>1. /\ at[w] = "answer" /\ mine[w] \in Job
          /\ fate' = [fate EXCEPT ![mine[w]] =
                        IF @ \in {"done", "aborted"} THEN "twice" ELSE "done"]
          /\ at' = [at EXCEPT ![w] = "clear"] /\ UNCHANGED <<cancelled, running>>
      BY <1>7 DEF ReplyFinished, Finished, WorkOK
    <2>2. \A j \in Job : fate'[j] # "taken"
      BY <1>t, <1>m, <2>1
    <2> QED BY <1>k, <2>1, <2>2 DEF Places
  <1>8. CASE ClearJob(w)
    BY <1>k, <1>m, <1>8 DEF ClearJob, Places
  <1>9. CASE FreeJob(w)
    BY <1>k, <1>m, <1>9 DEF FreeJob, Places
  <1>10. CASE Die(w) \/ ThreadCleanup(w)
    BY <1>a, <1>10 DEF Die, ThreadCleanup
  <1> QED BY <1>1, <1>2, <1>3, <1>4, <1>5, <1>6, <1>7, <1>8, <1>9, <1>10 DEF Worker

-----------------------------------------------------------------------------
(* The queue, and what the server promises of the jobs. *)

LEMMA QueueDetermined == \A q : IsQueue(q) => Queue = q
  BY QueueIs

LEMMA NewQueueDetermined == (\A q : IsQueue(q) => Queue = q)'
  BY QueueDetermined, PTL

QueueServed ==
  /\ \E q : IsQueue(q)'
  /\ [Service!Next \/ stray']_<<Queue, fate, aborts>>

(* A step that leaves the list, and who waits, alone. *)
LEMMA QueueKept ==
  ASSUME NEW q, IsQueue(q), UNCHANGED listVars, Waiting' = Waiting
  PROVE  IsQueue(q)' /\ Queue' = Queue
  <1>1. IsQueue(q)'
    BY DEF IsQueue, Forward, Backward, listVars
  <1> QED BY <1>1, QueueDetermined, NewQueueDetermined

LEMMA NothingServed ==
  ASSUME IInv, UNCHANGED <<listVars, fate, aborts>>
  PROVE  QueueServed
  <1>1. PICK q : IsQueue(q)
    BY DEF IInv
  <1>2. IsQueue(q)' /\ Queue' = Queue
    BY <1>1, QueueKept DEF Waiting
  <1> QED BY <1>2 DEF QueueServed

LEMMA AcceptServed == ASSUME IInv, NEW j \in Job, QJob(j) PROVE QueueServed
  <1>1. PICK q : IsQueue(q)
    BY DEF IInv
  <1>2. LinkType
    BY DEF IInv, TypeOK, LinkType
  <1>3. /\ fate[j] = "none" /\ Link(j) /\ fate' = [fate EXCEPT ![j] = "queued"]
        /\ UNCHANGED aborts
    BY DEF QJob
  <1>4. IsQueue(Append(q, j))'
    BY <1>1, <1>2, <1>3, LinkQueue
  <1>5. Queue = q /\ Queue' = Append(q, j)
    BY <1>1, <1>4, QueueDetermined, NewQueueDetermined
  <1>6. Service!Accept(j)
    BY <1>3, <1>5 DEF Service!Accept
  <1> QED BY <1>4, <1>6 DEF QueueServed, Service!Next

LEMMA RemoveLastServed == ASSUME IInv, RemoveLast PROVE QueueServed
  <1>1. PICK q : IsQueue(q)
    BY DEF IInv
  <1>2. LinkType
    BY DEF IInv, TypeOK, LinkType
  <1>3. /\ last # Null /\ UnlinkLast /\ fate' = [fate EXCEPT ![last] = "removed"]
        /\ UNCHANGED aborts
    BY DEF RemoveLast, mainVars
  <1>4. q # <<>>
    BY <1>1, <1>3, Members
  <1>5. IsQueue(SubSeq(q, 1, Len(q) - 1))' /\ last = q[Len(q)]
    BY <1>1, <1>2, <1>3, <1>4, UnlinkLastQueue
  <1>6. Queue = q /\ Queue' = SubSeq(q, 1, Len(q) - 1)
    BY <1>1, <1>5, QueueDetermined, NewQueueDetermined
  <1>7. Service!RemoveLast
    BY <1>3, <1>4, <1>5, <1>6 DEF Service!RemoveLast
  <1> QED BY <1>5, <1>7 DEF QueueServed, Service!Next

(* Both ways of taking the first one out. *)
LEMMA FirstServed ==
  ASSUME IInv, first # Null, UnlinkFirst, UNCHANGED aborts,
         \/ fate' = [fate EXCEPT ![first] = "taken"] /\ (aborts = 0 => \A j \in Job : fate[j] # "taken")
         \/ fate' = [fate EXCEPT ![first] = "aborted"] /\ aborts # 0
  PROVE  QueueServed
  <1>1. PICK q : IsQueue(q)
    BY DEF IInv
  <1>2. LinkType /\ aborts \in Nat
    BY ServerAssumption DEF IInv, TypeOK, LinkType
  <1>3. q # <<>>
    BY <1>1, Members
  <1>4. IsQueue(Tail(q))' /\ first = Head(q)
    BY <1>1, <1>2, <1>3, UnlinkFirstQueue
  <1>5. Queue = q /\ Queue' = Tail(q)
    BY <1>1, <1>4, QueueDetermined, NewQueueDetermined
  <1>6. Service!Take \/ Service!Flush
    BY <1>2, <1>3, <1>4, <1>5 DEF Service!Take, Service!Flush
  <1> QED BY <1>4, <1>6 DEF QueueServed, Service!Next

LEMMA AnswerServed ==
  ASSUME IInv, NEW j \in Job, NEW how \in {"done", "aborted"}, how = "aborted" => aborts # 0,
         Finished(j, how), fate[j] \notin {"none", "queued"}, fate[j] = "taken" \/ stray',
         UNCHANGED <<listVars, aborts>>
  PROVE  QueueServed
  <1>1. PICK q : IsQueue(q)
    BY DEF IInv
  <1>2. /\ fate \in [Job -> {"none", "queued", "taken", "done", "aborted", "removed", "twice"}]
        /\ aborts \in Nat
    BY ServerAssumption DEF IInv, TypeOK
  <1>3. Waiting' = Waiting
    BY <1>2 DEF Waiting, Finished
  <1>4. IsQueue(q)' /\ Queue' = Queue
    BY <1>1, <1>3, QueueKept
  <1>5. CASE fate[j] = "taken"
    <2>1. Service!Answer(j, how)
      BY <1>2, <1>4, <1>5 DEF Service!Answer, Finished
    <2> QED BY <1>4, <2>1 DEF QueueServed, Service!Next
  <1>6. CASE stray'
    BY <1>4, <1>6 DEF QueueServed
  <1> QED BY <1>5, <1>6

LEMMA MainServed == ASSUME IInv, MainAction PROVE QueueServed
  <1> USE DEF workerVars, mainVars
  <1>1. CASE \E j \in Job : QJob(j)
    BY <1>1, AcceptServed
  <1>2. CASE RemoveLast
    BY <1>2, RemoveLastServed
  <1>3. ASSUME NEW all \in BOOLEAN, KillThread(all) PROVE QueueServed
    <2>1. PICK q : IsQueue(q)
      BY DEF IInv
    <2>2. UNCHANGED <<listVars, fate>> /\ aborts' = aborts + 1
      BY <1>3 DEF KillThread
    <2>3. IsQueue(q)' /\ Queue' = Queue
      BY <2>1, <2>2, QueueKept DEF Waiting
    <2>4. (aborts > 0)' = TRUE
      BY <2>2, ServerAssumption DEF IInv, TypeOK
    <2>5. Service!Kill
      BY <2>2, <2>3, <2>4 DEF Service!Kill
    <2> QED BY <2>3, <2>5 DEF QueueServed, Service!Next
  <1>4. CASE StartThread
    BY <1>4, NothingServed DEF StartThread
  <1>5. CASE AbortCurrent
    <2>1. CASE current = NoJob
      BY <1>5, <2>1, NothingServed DEF AbortCurrent
    <2>2. CASE current # NoJob
      <3>1. current \in Job /\ fate[current] \notin {"none", "queued"}
        BY <2>2 DEF IInv, TypeOK, WorkOK
      <3>2. /\ Finished(current, "aborted") /\ (fate[current] = "taken" \/ stray')
            /\ UNCHANGED <<listVars, aborts>> /\ aborts # 0
        BY <1>5, <2>2 DEF AbortCurrent, IInv, AloneOK
      <3> QED BY <3>1, <3>2, AnswerServed
    <2> QED BY <2>1, <2>2
  <1>6. CASE ClearCurrent
    BY <1>6, NothingServed DEF ClearCurrent
  <1>7. CASE FlushQueue
    <2>1. CASE first = Null
      BY <1>7, <2>1, NothingServed DEF FlushQueue
    <2>2. CASE first # Null
      <3>1. first \in Job /\ fate[first] = "queued"
        BY <2>2, FirstAndLast
      <3>2. fate' = [fate EXCEPT ![first] = "aborted"] /\ UnlinkFirst /\ UNCHANGED aborts
        BY <1>7, <2>2, <3>1 DEF FlushQueue, Finished
      <3>3. aborts # 0
        BY <1>7 DEF FlushQueue, IInv, AloneOK
      <3> QED BY <2>2, <3>2, <3>3, FirstServed
    <2> QED BY <2>1, <2>2
  <1> QED BY <1>1, <1>2, <1>3, <1>4, <1>5, <1>6, <1>7 DEF MainAction

LEMMA WorkerServed == ASSUME IInv, NEW w \in Workers, Worker(w) PROVE QueueServed
  <1> USE DEF workerVars, mainVars
  <1>1. CASE Start(w) \/ WaitForJob(w) \/ WaitEnds(w) \/ SetCurrentJob(w) \/ ReplyStarting(w)
             \/ DoJob(w) \/ ClearJob(w) \/ FreeJob(w) \/ Die(w) \/ ThreadCleanup(w)
    BY <1>1, NothingServed DEF Start, WaitForJob, WaitEnds, SetCurrentJob, ReplyStarting, DoJob,
      ClearJob, FreeJob, Die, ThreadCleanup
  <1>2. CASE NextJob(w)
    <2>1. CASE first = Null
      BY <1>2, <2>1, NothingServed DEF NextJob
    <2>2. CASE first # Null
      <3>1. /\ UnlinkFirst /\ fate' = [fate EXCEPT ![first] = "taken"]
            /\ UNCHANGED aborts /\ at[w] = "next"
        BY <1>2, <2>2 DEF NextJob
      <3>2. aborts = 0 => \A j \in Job : fate[j] # "taken"
        BY <3>1 DEF IInv, AloneOK, Working
      <3> QED BY <2>2, <3>1, <3>2, FirstServed
    <2> QED BY <2>1, <2>2
  <1>3. CASE ReplyFinished(w)
    <2>1. /\ at[w] = "answer" /\ Finished(mine[w], "done") /\ stray' = (mine[w] \in freed)
          /\ UNCHANGED <<listVars, aborts>>
      BY <1>3 DEF ReplyFinished
    <2>2. /\ mine[w] \in Job /\ fate[mine[w]] \notin {"none", "queued"}
          /\ fate[mine[w]] = "taken" \/ stray'
      BY <2>1 DEF IInv, WorkOK, Busy, Working
    <2> QED BY <2>1, <2>2, AnswerServed
  <1> QED BY <1>1, <1>2, <1>3 DEF Worker

LEMMA StepKeeps ==
  ASSUME IInv, [Next]_vars
  PROVE  IInv' /\ [Service!Next \/ stray']_<<Queue, fate, aborts>>
  <1>1. CASE MainAction
    BY <1>1, MainType, MainWork, MainAlone, MainServed DEF IInv, QueueServed
  <1>2. ASSUME NEW w \in Workers, Worker(w)
        PROVE  IInv' /\ [Service!Next \/ stray']_<<Queue, fate, aborts>>
    BY <1>2, WorkerType, WorkerWork, WorkerAlone, WorkerServed DEF IInv, QueueServed
  <1>3. CASE UNCHANGED vars
    <2> USE DEF vars, listVars, workerVars, mainVars
    <2>1. TypeOK'
      BY <1>3 DEF IInv, TypeOK
    <2>2. WorkOK' /\ AloneOK'
      BY <1>3 DEF IInv, WorkOK, AloneOK
    <2>3. QueueServed
      BY <1>3, NothingServed
    <2> QED BY <2>1, <2>2, <2>3 DEF IInv, QueueServed
  <1> QED BY <1>1, <1>2, <1>3 DEF Next, Rest, Request, MainStep, MainAction

-----------------------------------------------------------------------------
(* Every variable of the server keeps its type; a worker that is at a job   *)
(* has one.                                                                 *)
THEOREM TypeCorrect == Spec => []TypeOK
  <1>1. IInv /\ [Next]_vars => IInv'
    BY StepKeeps
  <1>2. Init => IInv
    BY InitIInv
  <1>3. IInv => TypeOK
    BY DEF IInv
  <1> QED BY <1>1, <1>2, <1>3, PTL DEF Spec

(* However QJob(), NextJob(), RemoveLast() and an abort take turns, the     *)
(* list they leave is a queue in both directions, without a job twice, and  *)
(* holds just the jobs that wait.                                           *)
THEOREM ListIsQueue == Spec => []QueueLinked
  <1>1. IInv /\ [Next]_vars => IInv'
    BY StepKeeps
  <1>2. Init => IInv
    BY InitIInv
  <1>3. IInv => QueueLinked
    <2>1. ASSUME NEW q, IsQueue(q) PROVE QueueLinked
      BY <2>1, QueueBounded DEF IsQueue, QueueLinked, Waiting
    <2> QED BY <2>1 DEF IInv
  <1> QED BY <1>1, <1>2, <1>3, PTL DEF Spec

(* The server is the one of ActionService: first come, first served, one    *)
(* job at a time until something is aborted, and one answer for each, up to *)
(* a use of freed memory.                                                   *)
THEOREM Implementation == Spec => ImplementsService
  <1>1. IInv /\ [Next]_vars => IInv' /\ [Service!Next \/ stray']_<<Queue, fate, aborts>>
    BY StepKeeps
  <1>2. Init => IInv /\ Service!Init
    <2>1. Init => (aborts > 0) = FALSE
      BY DEF Init
    <2>2. Init => fate = [j \in Job |-> "none"]
      BY DEF Init
    <2> QED BY <2>1, <2>2, InitIInv DEF Service!Init
  <1> QED BY <1>1, <1>2, PTL DEF Spec, ImplementsService

=============================================================================

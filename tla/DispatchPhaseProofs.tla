------------------------ MODULE DispatchPhaseProofs ------------------------
(***************************************************************************)
(* Theorems about DispatchPhase, for any table of actions, any phases, any *)
(* number of threads that process completed actions and any division into  *)
(* groups.                                                                 *)
(***************************************************************************)
EXTENDS DispatchPhase, FiniteSetTheorems, WellFoundedInduction, TLAPS

-----------------------------------------------------------------------------
(* Ranges of the table. *)

LEMMA Least ==
  ASSUME NEW S, S \subseteq Nat, S # {}
  PROVE  \E n \in S : \A k \in S : n <= k
  <1> DEFINE R == OpToRel(<, Nat)
  <1>1. IsWellFoundedOn(R, Nat)
    BY NatLessThanWellFounded
  <1>2. \A x, y \in Nat : <<y, x>> \in R <=> y < x
    BY DEF OpToRel
  <1> HIDE DEF R
  <1>3. PICK n \in S : \A k \in S : <<k, n>> \notin R
    BY <1>1, WFMin
  <1>4. \A k \in S : ~ (k < n)
    BY <1>2, <1>3, Zenon
  <1>5. \A k \in S : n <= k
    BY <1>4
  <1> QED BY <1>5

LEMMA Numbers == Num \in Nat /\ Actions = 1 .. Num /\ NoAction \notin Actions
  <1>1. Num \in Nat
    BY SizesAssumption, FS_CardinalityType DEF Num
  <1>2. Actions = 1 .. Num
    BY SizesAssumption, Zenon DEF Num
  <1> QED BY <1>1, <1>2 DEF NoAction

LEMMA FirstIs ==
  ASSUME NEW S, S \subseteq Nat, S # {}
  PROVE  First(S) \in S /\ \A n \in S : First(S) <= n
  BY Least DEF First

LEMMA AfterIs ==
  ASSUME NEW S, S \subseteq Actions, S # {}
  PROVE  After(S) \in Nat /\ After(S) - 1 \in S /\ \A n \in S : n < After(S)
  <1> DEFINE T == {Num - n : n \in S}
  <1>1. S \subseteq Nat /\ \A n \in S : Num - n \in Nat
    BY Numbers
  <1>2. T \subseteq Nat /\ T # {}
    BY <1>1
  <1>x. PICK k \in T : \A n \in T : k <= n
    BY <1>2, Least
  <1>3. PICK m \in S : \A n \in S : Num - m <= Num - n
    BY <1>x
  <1>4. \A n \in S : n <= m
    BY <1>1, <1>3, Numbers
  <1> HIDE DEF T
  <1>5. \E i \in S : \A j \in S : j <= i
    BY <1>4
  <1> DEFINE c == CHOOSE i \in S : \A j \in S : j <= i
  <1>6. c \in S /\ \A j \in S : j <= c
    BY <1>5
  <1>7. After(S) = 1 + c
    BY DEF After
  <1> HIDE DEF c
  <1> QED BY <1>1, <1>6, <1>7

(* A set of actions without gaps is what First() and After() enclose. *)
LEMMA RangeIs ==
  ASSUME NEW S, S \subseteq Actions,
         \A i, k \in S : \A j \in Actions : i <= j /\ j <= k => j \in S
  PROVE  /\ First(S) \in Nat /\ After(S) \in Nat /\ First(S) <= After(S)
         /\ S = First(S) .. After(S) - 1
  <1>1. CASE S = {}
    <2>1. First(S) = Num + 1 /\ After(S) = Num + 1
      BY <1>1 DEF First, After
    <2> QED BY <1>1, <2>1, Numbers
  <1>2. CASE S # {}
    <2>1. S \subseteq Nat
      BY Numbers
    <2>2. First(S) \in S /\ \A n \in S : First(S) <= n
      BY <1>2, <2>1, FirstIs
    <2>3. After(S) \in Nat /\ After(S) - 1 \in S /\ \A n \in S : n < After(S)
      BY <1>2, AfterIs
    <2> DEFINE f == First(S)
               l == After(S)
    <2>4. f \in Nat /\ l \in Nat /\ l - 1 \in Actions /\ f \in Actions
      BY <2>1, <2>2, <2>3
    <2>5. f \in S /\ l - 1 \in S
      BY <2>2, <2>3
    <2>6. \A n \in S : f <= n /\ n <= l - 1
      BY <2>1, <2>2, <2>3
    <2> HIDE DEF f, l
    <2>7. ASSUME NEW j \in f .. l - 1 PROVE j \in S
      <3>1. j \in Actions
        BY <2>4, Numbers
      <3> QED BY <3>1, <2>4, <2>5
    <2>8. S \subseteq f .. l - 1 /\ f <= l
      <3>1. \A n \in S : n \in Nat
        BY <2>1
      <3> QED BY <3>1, <2>4, <2>5, <2>6
    <2>9. S = f .. l - 1
      BY <2>7, <2>8
    <2> QED BY <2>4, <2>8, <2>9 DEF f, l
  <1> QED BY <1>1, <1>2

LEMMA TableType ==
  ASSUME TypeOK
  PROVE  /\ table \in Table /\ Sorted(table)
         /\ \A i \in Actions : table.when[i] = NoWhen <=> table.sequence[i] > 0
         /\ shot.threads \subseteq DoneThreads
  BY ShotsAssumption DEF TypeOK, table

LEMMA PhaseRanges ==
  ASSUME TypeOK, NEW ps \in Seq(Nat)
  PROVE  /\ \A i, k \in OfPhases(ps) : \A j \in Actions :
              i <= j /\ j <= k => j \in OfPhases(ps)
         /\ \A i, k \in OfPhases(ps) : \A j \in Actions :
              i <= j /\ j <= k /\ Conditional(k) => Conditional(j)
         /\ \A i, k \in OfPhases(ps) : \A j \in Actions :
              i <= j /\ j <= k /\ ~Conditional(i) => ~Conditional(j)
  <1>1. table.phase \in [Actions -> Nat] /\ table.sequence \in [Actions -> Nat]
    BY TableType DEF Table
  <1>2. \A i, j \in Actions : i <= j => CompareActions(table, i, j)
    <2>1. ASSUME NEW i \in Actions, NEW j \in Actions, i <= j PROVE CompareActions(table, i, j)
      <3>1. CASE i = j
        BY <1>1, <3>1 DEF CompareActions
      <3>2. CASE i < j
        BY <3>2, TableType DEF Sorted
      <3> QED BY <2>1, <3>1, <3>2, Numbers
    <2> QED BY <2>1
  <1>3. \A i \in Actions : Conditional(i) <=> ~(table.sequence[i] > 0)
    BY TableType DEF Conditional
  <1> SUFFICES ASSUME NEW i \in OfPhases(ps), NEW k \in OfPhases(ps), NEW j \in Actions,
                      i <= j, j <= k
               PROVE  /\ j \in OfPhases(ps)
                      /\ Conditional(k) => Conditional(j)
                      /\ ~Conditional(i) => ~Conditional(j)
    OBVIOUS
  <1>4. i \in Actions /\ k \in Actions /\ table.phase[i] = table.phase[k] /\ ps # <<>>
        /\ table.phase[i] = Head(ps)
    BY DEF OfPhases
  <1> DEFINE p == table.phase
             s == table.sequence
  <1>5. CompareActions(table, i, j) /\ CompareActions(table, j, k)
    BY <1>2, <1>4
  <1>6. /\ p[i] < p[j] \/ (p[i] = p[j] /\ s[i] <= s[j])
        /\ p[j] < p[k] \/ (p[j] = p[k] /\ s[j] <= s[k])
    BY <1>5 DEF CompareActions
  <1>7. p \in [Actions -> Nat] /\ s \in [Actions -> Nat] /\ p[i] = p[k]
        /\ \A a \in Actions : Conditional(a) <=> ~(s[a] > 0)
    BY <1>1, <1>3, <1>4
  <1> HIDE DEF p, s
  <1>8. p[i] = p[j] /\ s[i] <= s[j] /\ s[j] <= s[k]
    BY <1>4, <1>6, <1>7
  <1>9. table.phase[i] = table.phase[j]
    BY <1>8 DEF p
  <1> QED BY <1>4, <1>7, <1>8, <1>9 DEF OfPhases

LEMMA Ranges ==
  ASSUME TypeOK
  PROVE  /\ First(Conditionals) \in Nat /\ After(Conditionals) \in Nat
         /\ First(Conditionals) <= After(Conditionals)
         /\ Conditionals = First(Conditionals) .. After(Conditionals) - 1
         /\ First(Sequenced) \in Nat /\ After(Sequenced) \in Nat
         /\ First(Sequenced) <= After(Sequenced)
         /\ Sequenced = First(Sequenced) .. After(Sequenced) - 1
         /\ First(InPhase) \in Nat /\ After(InPhase) \in Nat
  <1>0. calls \in Seq(Nat)
    BY DEF TypeOK
  <1>1. InPhase \subseteq Actions /\ Conditionals \subseteq Actions /\ Sequenced \subseteq Actions
    BY DEF InPhase, Conditionals, Sequenced, OfPhases
  <1>2. \A i, k \in InPhase : \A j \in Actions : i <= j /\ j <= k => j \in InPhase
    BY <1>0, PhaseRanges DEF InPhase
  <1>3. \A i, k \in Conditionals : \A j \in Actions : i <= j /\ j <= k => j \in Conditionals
    BY <1>0, <1>2, PhaseRanges DEF InPhase, Conditionals
  <1>4. \A i, k \in Sequenced : \A j \in Actions : i <= j /\ j <= k => j \in Sequenced
    BY <1>0, <1>2, PhaseRanges DEF InPhase, Conditionals, Sequenced
  <1>5. First(InPhase) \in Nat /\ After(InPhase) \in Nat
    BY <1>1, <1>2, RangeIs
  <1>6. /\ First(Conditionals) \in Nat /\ After(Conditionals) \in Nat
        /\ First(Conditionals) <= After(Conditionals)
        /\ Conditionals = First(Conditionals) .. After(Conditionals) - 1
    BY <1>1, <1>3, RangeIs
  <1>7. /\ First(Sequenced) \in Nat /\ After(Sequenced) \in Nat
        /\ First(Sequenced) <= After(Sequenced)
        /\ Sequenced = First(Sequenced) .. After(Sequenced) - 1
    BY <1>1, <1>4, RangeIs
  <1> QED BY <1>5, <1>6, <1>7

-----------------------------------------------------------------------------
(* Groups. *)

LEMMA Divided ==
  ASSUME NEW a \in Nat, NEW b \in Nat, NEW d \in Nat, d > 0, a <= b
  PROVE  a \div d <= b \div d
  OBVIOUS

LEMMA GroupsSorted ==
  ASSUME TypeOK
  PROVE  /\ \A i \in Sequenced : GroupOf(i) \in Nat
         /\ \A i, k \in Sequenced : i <= k => GroupOf(i) <= GroupOf(k)
  <1> DEFINE d == IF Sync < 1 THEN 1 ELSE Sync
             q == table.sequence
  <1>1. d \in Nat /\ d > 0
    BY SizesAssumption
  <1>2. q \in [Actions -> Nat]
    BY TableType DEF Table
  <1>3. \A i, k \in Sequenced : i <= k => q[i] <= q[k]
    <2>1. ASSUME NEW i \in Sequenced, NEW k \in Sequenced, i <= k PROVE q[i] <= q[k]
      <3>1. CASE i = k
        BY <1>2, <3>1 DEF Sequenced, InPhase, OfPhases
      <3>2. CASE i < k
        <4>1. CompareActions(table, i, k)
          BY <3>2, TableType DEF Sorted, Sequenced, InPhase, OfPhases
        <4>2. table.phase[i] = table.phase[k] /\ table.phase[i] \in Nat
          BY TableType DEF Sequenced, InPhase, OfPhases, Table
        <4> QED BY <4>1, <4>2 DEF CompareActions
      <3>3. i \in Nat /\ k \in Nat
        BY Numbers DEF Sequenced, InPhase, OfPhases
      <3> QED BY <2>1, <3>1, <3>2, <3>3
    <2> QED BY <2>1
  <1>4. \A i \in Sequenced : GroupOf(i) = q[i] \div d /\ q[i] \in Nat
    BY <1>2 DEF GroupOf, Sequenced, InPhase, OfPhases
  <1> HIDE DEF d, q
  <1>5. \A i \in Sequenced : q[i] \div d \in Nat
    BY <1>1, <1>4
  <1> QED BY <1>1, <1>3, <1>4, <1>5, Divided

(* SetGroup(): the group goes on from its first action to the end of the    *)
(* sequence or to the first that belongs to another one.                    *)
LEMMA GroupIs ==
  ASSUME TypeOK, first_g < After(Sequenced)
  PROVE  /\ GroupEnd \in Nat /\ first_g < GroupEnd /\ GroupEnd <= After(Sequenced)
         /\ \A i \in first_g .. GroupEnd - 1 : GroupOf(i) = GroupOf(first_g)
  <1> DEFINE l == After(Sequenced)
             S == {i \in first_g + 1 .. l : i = l \/ GroupOf(i) # GroupOf(first_g)}
  <1>1. l \in Nat /\ first_g \in Nat /\ first_g < l /\ GroupEnd = First(S)
    BY Ranges DEF TypeOK, GroupEnd
  <1> HIDE DEF l
  <1>2. S \subseteq Nat /\ l \in S
    BY <1>1
  <1>3. First(S) \in S /\ \A n \in S : First(S) <= n
    BY <1>2, FirstIs
  <1> DEFINE e == First(S)
  <1>4. e \in first_g + 1 .. l /\ \A n \in S : e <= n
    BY <1>3
  <1> HIDE DEF e
  <1>5. ASSUME NEW i \in first_g .. e - 1 PROVE GroupOf(i) = GroupOf(first_g)
    <2>1. CASE i = first_g
      BY <2>1
    <2>2. CASE i # first_g
      <3>1. i \in first_g + 1 .. l /\ i < e
        BY <1>1, <1>4, <2>2
      <3>2. i \notin S
        BY <1>1, <1>4, <3>1
      <3> QED BY <3>1, <3>2
    <2> QED BY <2>1, <2>2
  <1> HIDE DEF S
  <1>6. GroupEnd = e
    BY <1>1 DEF e
  <1> QED BY <1>1, <1>4, <1>5, <1>6 DEF l

-----------------------------------------------------------------------------
(* The invariant. *)

Numbered == {i \in Actions : ~Conditional(i)}

Dispatching == {"lock", "send", "mark", "unsent"}
GroupPlaces == {"next", "wait"} \cup Dispatching
EndPlaces   == {"waitall", "cannot", "waitlast"}

(* The group is a part of the sequence, and of one group as SetGroup() has  *)
(* it.                                                                      *)
GroupSet ==
  /\ first_g < last_g /\ last_g <= After(Sequenced)
  /\ \A i \in first_g .. last_g - 1 : GroupOf(i) = GroupOf(first_g)

(* Where main is in the phase. *)
MainPlaced ==
  /\ \A k, m \in DOMAIN calls : calls[k] = calls[m] => k = m
  /\ at["main"] \in {"group", "record", "returned"} \cup GroupPlaces \cup EndPlaces
  /\ at["main"] \in {"group"} \cup GroupPlaces =>
       First(Sequenced) <= first_g /\ first_g <= After(Sequenced)
  /\ at["main"] \in GroupPlaces =>
       GroupSet /\ first_g <= item["main"] /\ item["main"] <= last_g
  /\ at["main"] \in Dispatching =>
       first_g < item["main"] /\ target["main"] = item["main"] - 1
  /\ at["main"] \in EndPlaces =>
       First(Conditionals) <= item["main"] /\ item["main"] <= After(Conditionals)

(* A thread of completed actions has one, and dispatches only actions with  *)
(* a condition.                                                             *)
Holding == {"taken", "refs", "done"} \cup Dispatching

ThreadsPlaced ==
  \A t \in DoneThreads :
    /\ at[t] \in {"absent", "starting", "idle", "unrecord"} \cup Holding
    /\ at[t] \in Holding \cup {"unrecord"} => item[t] \in Actions
    /\ at[t] \in Dispatching => target[t] \in Actions \ Numbered
    /\ deps[t] \cap Numbered = {}

(* The sequence has been dispatched up to here. *)
Frontier ==
  CASE at["main"] = "group"                    -> first_g
    [] at["main"] \in {"next", "mark", "unsent"} -> item["main"]
    [] at["main"] \in {"lock", "send"}           -> item["main"] - 1
    [] at["main"] = "wait"                     -> last_g
    [] OTHER                                   -> After(Sequenced)

NumberedPlan ==
  /\ \A i \in Numbered : \A m \in 2 .. Len(calls) :
       table.phase[i] = calls[m] => sends[i] = 0
  /\ \A i \in Sequenced : i >= Frontier => sends[i] = 0
  /\ \A i \in Numbered : sends[i] <= 1

(* Jobs are made by sending. *)
SendsCount ==
  /\ \A i \in Actions : \A n \in 1 .. MaxSends : n > sends[i] => job[<<i, n>>] = "none"
  /\ noact => \A i \in Actions : sends[i] = 0

Pending(i) ==
  \/ \E k \in DOMAIN completed : completed[k] = i
  \/ \E t \in DoneThreads : at[t] \in Holding /\ item[t] = i

(* An action on its way to being done does not run. *)
NumberedPending == \A i \in Numbered : Pending(i) => ~Busy(i) /\ (noact \/ sends[i] > 0)

(* One that runs is outstanding, or is going to be. *)
NumberedFlags ==
  /\ \A i \in Numbered : Busy(i) =>
       /\ ~act[i].done
       /\ act[i].dispatched \/ (at["main"] = "mark" /\ target["main"] = i)
  /\ at["main"] = "send" /\ ~noact => ~act[target["main"]].done
  /\ at["main"] = "unsent" => ~Busy(target["main"]) /\ sends[target["main"]] > 0

(* What runs of the sequence is in the current group, and has not been      *)
(* passed by the loop that waits.                                           *)
NumberedBusy ==
  \A i \in Numbered : Busy(i) =>
    /\ at["main"] \in GroupPlaces
    /\ first_g <= i /\ i < Frontier
    /\ at["main"] = "wait" => item["main"] <= i

IInv ==
  /\ TypeOK /\ MainPlaced /\ ThreadsPlaced /\ SendsCount
  /\ NumberedPlan /\ NumberedPending
  /\ ~torn => NumberedFlags /\ NumberedBusy

LEMMA FrontierIs ==
  /\ at["main"] = "group" => Frontier = first_g
  /\ at["main"] \in {"next", "mark", "unsent"} => Frontier = item["main"]
  /\ at["main"] \in {"lock", "send"} => Frontier = item["main"] - 1
  /\ at["main"] = "wait" => Frontier = last_g
  /\ at["main"] \in {"record", "returned"} \cup EndPlaces => Frontier = After(Sequenced)
  BY DEF Frontier, EndPlaces

LEMMA NumberedAre ==
  /\ Numbered \subseteq Actions /\ Sequenced \subseteq Numbered
  /\ \A i \in Actions : i \in Numbered <=> table.when[i] = NoWhen
  BY DEF Numbered, Sequenced, InPhase, OfPhases, Conditionals, Conditional

LEMMA Inclusion == ASSUME IInv PROVE GroupsInOrder
  <1> SUFFICES ASSUME ~torn, NEW i \in Sequenced, NEW k \in Sequenced, Busy(i), sends[k] > 0
               PROVE  GroupOf(k) <= GroupOf(i)
    BY DEF GroupsInOrder
  <1>0. TypeOK
    BY DEF IInv
  <1>1. /\ at["main"] \in GroupPlaces
        /\ first_g <= i /\ i < Frontier
    BY NumberedAre DEF IInv, NumberedBusy
  <1>2. ~(k >= Frontier)
    BY DEF IInv, NumberedPlan
  <1>3. GroupSet /\ item["main"] <= last_g /\ first_g \in Nat /\ last_g \in Nat
        /\ item["main"] \in Nat
    BY <1>1 DEF IInv, MainPlaced, TypeOK, Threads
  <1>4. Frontier \in Int /\ Frontier <= last_g
    BY <1>1, <1>3, FrontierIs DEF GroupPlaces, Dispatching
  <1>5. i \in Nat /\ k \in Nat
    BY Numbers, NumberedAre
  <1>6. i < last_g /\ k < last_g
    BY <1>1, <1>2, <1>3, <1>4, <1>5
  <1>7. GroupOf(i) = GroupOf(first_g)
    BY <1>1, <1>3, <1>5, <1>6 DEF GroupSet
  <1>8. CASE first_g <= k
    <2>1. GroupOf(k) = GroupOf(first_g)
      BY <1>3, <1>5, <1>6, <1>8 DEF GroupSet
    <2>2. GroupOf(i) \in Nat
      BY <1>0, GroupsSorted
    <2> QED BY <1>7, <2>1, <2>2
  <1>9. CASE k < first_g
    <2>1. k <= i
      BY <1>1, <1>3, <1>5, <1>9
    <2> QED BY <1>0, <2>1, GroupsSorted
  <1> QED BY <1>3, <1>5, <1>8, <1>9

LEMMA InitIInv == Init => IInv
  <1> SUFFICES ASSUME Init PROVE IInv
    OBVIOUS
  <1>t. "main" \in Threads /\ "main" \notin DoneThreads /\ DoneThreads \subseteq Threads
    BY SizesAssumption DEF Threads
  <1>s. shot \in Shots /\ calls = shot.phases /\ calls \in Seq(Nat)
        /\ \A k, m \in DOMAIN calls : calls[k] = calls[m] => k = m
    BY ShotsAssumption DEF Init
  <1>j. job = [j \in Job |-> "none"] /\ Jobs!TypeOK
    BY DEF Init, Jobs!Init, Jobs!TypeOK, Jobs!JobStates
  <1>f. First(Sequenced) \in Nat
    <2>1. CASE Sequenced = {}
      BY <2>1, Numbers DEF First
    <2>2. CASE Sequenced # {}
      <3>1. Sequenced \subseteq Nat
        BY Numbers DEF Sequenced, InPhase, OfPhases
      <3> QED BY <2>2, <3>1, FirstIs
    <2> QED BY <2>1, <2>2
  <1>1. TypeOK
    <2>1. at \in [Threads -> Places] /\ item \in [Threads -> Nat]
          /\ deps \in [DoneThreads -> SUBSET Actions]
          /\ target \in [Threads -> Actions \cup {NoAction}]
      BY DEF Init, Places
    <2>2. sends \in [Actions -> 0 .. MaxSends]
      BY SizesAssumption DEF Init
    <2>3. completed \in Seq(Actions)
      BY DEF Init
    <2>4. /\ act \in [Actions -> [status : Statuses, done : BOOLEAN, doing : BOOLEAN,
                                  dispatched : BOOLEAN, recorded : BOOLEAN]]
          /\ value \in [Actions -> Statuses] /\ tree \in [Actions -> Statuses]
      BY DEF Init, Statuses
    <2> QED BY <1>s, <1>j, <1>f, <2>1, <2>2, <2>3, <2>4 DEF Init, TypeOK
  <1>2. at["main"] = "group" /\ first_g = First(Sequenced)
    BY <1>t DEF Init
  <1>3. MainPlaced
    BY <1>s, <1>1, <1>2, Ranges DEF MainPlaced, GroupPlaces, Dispatching, EndPlaces
  <1>4. ThreadsPlaced
    BY <1>t DEF Init, ThreadsPlaced, Holding, Dispatching
  <1>5. SendsCount
    BY <1>j DEF Init, SendsCount, Job
  <1>6. NumberedPlan
    BY NumberedAre DEF Init, NumberedPlan
  <1>7. \A i \in Actions : ~Busy(i)
    BY <1>j DEF Busy, Jobs!Running, Job
  <1>8. \A i : ~Pending(i)
    BY <1>t DEF Init, Pending, Holding, Dispatching
  <1>9. NumberedPending /\ NumberedFlags /\ NumberedBusy
    BY <1>2, <1>7, <1>8, NumberedAre DEF NumberedPending, NumberedFlags, NumberedBusy
  <1> QED BY <1>1, <1>3, <1>4, <1>5, <1>6, <1>9 DEF IInv

-----------------------------------------------------------------------------
(* Types. *)

LEMMA ThreadsAre ==
  /\ "main" \in Threads /\ "main" \notin DoneThreads /\ DoneThreads \subseteq Threads
  /\ Threads = {"main"} \cup DoneThreads
  BY SizesAssumption DEF Threads

(* An action is queued, and a thread may be started. *)
LEMMA DoneType ==
  ASSUME TypeOK, NEW i \in Actions, NEW atNext \in [Threads -> Places],
         DoActionDone(i, atNext)
  PROVE  /\ completed' \in Seq(Actions)
         /\ at' \in [Threads -> Places] /\ at'["main"] = atNext["main"]
         /\ \A t \in DoneThreads :
              at'[t] = atNext[t] \/ (at[t] = "absent" /\ at'[t] = "starting")
         /\ \A k \in DOMAIN completed' :
              completed'[k] = i \/ \E m \in DOMAIN completed : completed[m] = completed'[k]
  <1>1. completed \in Seq(Actions) /\ completed' = Append(completed, i)
    BY DEF TypeOK, DoActionDone
  <1>2. completed' \in Seq(Actions)
        /\ \A k \in DOMAIN completed' :
              completed'[k] = i \/ \E m \in DOMAIN completed : completed[m] = completed'[k]
    BY <1>1
  <1>3. \/ at' = atNext
        \/ \E t \in DoneThreads : at[t] = "absent" /\ at' = [atNext EXCEPT ![t] = "starting"]
    BY TableType DEF DoActionDone
  <1>4. /\ at' \in [Threads -> Places] /\ at'["main"] = atNext["main"]
        /\ \A t \in DoneThreads :
              at'[t] = atNext[t] \/ (at[t] = "absent" /\ at'[t] = "starting")
    BY <1>3, ThreadsAre DEF Places
  <1> QED BY <1>2, <1>4

LEMMA GoToType ==
  ASSUME TypeOK, NEW t \in Threads, NEW place \in Places
  PROVE  /\ GoTo(t, place) \in [Threads -> Places]
         /\ GoTo(t, place)[t] = place
         /\ \A u \in Threads : u # t => GoTo(t, place)[u] = at[u]
  BY DEF TypeOK, GoTo

ActionInfo == [status : Statuses, done : BOOLEAN, doing : BOOLEAN,
               dispatched : BOOLEAN, recorded : BOOLEAN]

LEMMA FlagsType ==
  ASSUME TypeOK, NEW i
  PROVE  /\ act \in [Actions -> ActionInfo]
         /\ \A s \in Statuses : [act EXCEPT ![i].status = s] \in [Actions -> ActionInfo]
         /\ [act EXCEPT ![i].done = TRUE] \in [Actions -> ActionInfo]
         /\ [act EXCEPT ![i].doing = TRUE] \in [Actions -> ActionInfo]
         /\ [act EXCEPT ![i].dispatched = TRUE] \in [Actions -> ActionInfo]
         /\ [act EXCEPT ![i].recorded = TRUE] \in [Actions -> ActionInfo]
         /\ [act EXCEPT ![i].recorded = FALSE] \in [Actions -> ActionInfo]
         /\ [act EXCEPT ![i] = [@ EXCEPT !.done = FALSE, !.doing = FALSE,
                                        !.dispatched = FALSE]] \in [Actions -> ActionInfo]
         /\ [act EXCEPT ![i] = [@ EXCEPT !.dispatched = TRUE, !.done = FALSE,
                                        !.doing = FALSE]] \in [Actions -> ActionInfo]
         /\ [act EXCEPT ![i] = [@ EXCEPT !.doing = TRUE, !.dispatched = FALSE]]
              \in [Actions -> ActionInfo]
         /\ \A s \in Statuses :
              [act EXCEPT ![i] = [@ EXCEPT !.dispatched = TRUE, !.status = s]]
                \in [Actions -> ActionInfo]
  <1>1. act \in [Actions -> ActionInfo]
    BY DEF TypeOK, ActionInfo
  <1>2. ASSUME NEW a \in ActionInfo, NEW b \in BOOLEAN, NEW s \in Statuses
        PROVE  /\ [a EXCEPT !.status = s] \in ActionInfo
               /\ [a EXCEPT !.done = b] \in ActionInfo
               /\ [a EXCEPT !.doing = b] \in ActionInfo
               /\ [a EXCEPT !.dispatched = b] \in ActionInfo
               /\ [a EXCEPT !.recorded = b] \in ActionInfo
               /\ [a EXCEPT !.done = FALSE, !.doing = FALSE, !.dispatched = FALSE] \in ActionInfo
               /\ [a EXCEPT !.dispatched = TRUE, !.done = FALSE, !.doing = FALSE] \in ActionInfo
               /\ [a EXCEPT !.doing = TRUE, !.dispatched = FALSE] \in ActionInfo
               /\ [a EXCEPT !.dispatched = TRUE, !.status = s] \in ActionInfo
    BY DEF ActionInfo
  <1>4. Statuses # {}
    BY DEF Statuses
  <1> QED BY <1>1, <1>2, <1>4

LEMMA DispatchType ==
  ASSUME IInv, NEW t \in Threads, Dispatch(t)
  PROVE  TypeOK' /\ at[t] \in Dispatching /\ target[t] \in Actions
  <1>0. TypeOK
    BY DEF IInv
  <1>1. at[t] \in Dispatching
    BY DEF Dispatch, Lock, SendNothing, Send, Mark, NotSent, Dispatching
  <1>2. target[t] \in Actions
    <2>1. CASE t = "main"
      <3>1. GroupSet /\ item["main"] <= last_g /\ first_g < item["main"]
            /\ target["main"] = item["main"] - 1 /\ First(Sequenced) <= first_g
        BY <1>1, <2>1 DEF IInv, MainPlaced, GroupPlaces
      <3>2. /\ first_g \in Nat /\ last_g \in Nat /\ item["main"] \in Nat
        BY <1>0, ThreadsAre DEF TypeOK
      <3>3. target["main"] \in First(Sequenced) .. After(Sequenced) - 1
        BY <1>0, <3>1, <3>2, Ranges DEF GroupSet
      <3> QED BY <1>0, <2>1, <3>3, Ranges, NumberedAre
    <2>2. CASE t # "main"
      BY <1>1, <2>2, ThreadsAre DEF IInv, ThreadsPlaced
    <2> QED BY <2>1, <2>2
  <1>3. Return(t) \in Places /\ {"send", "mark", "unsent"} \subseteq Places
    BY DEF Return, Places
  <1> USE DEF mainVars, fixed, Jobs!TypeOK
  <1>4. CASE Lock(t)
    <2>1. at' \in [Threads -> Places]
      BY <1>0, <1>3, <1>4, GoToType DEF Lock
    <2>2. act' \in [Actions -> ActionInfo]
      BY <1>0, <1>4, FlagsType DEF Lock
    <2>3. TypeOK'
      BY <1>0, <1>4, <2>1, <2>2 DEF Lock, TypeOK, ActionInfo
    <2> QED BY <1>1, <1>2, <2>3
  <1>5. CASE SendNothing(t)
    <2>1. at' \in [Threads -> Places] /\ completed' \in Seq(Actions)
      BY <1>0, <1>2, <1>3, <1>5, GoToType, DoneType DEF SendNothing
    <2>2. act' \in [Actions -> ActionInfo]
      BY <1>0, <1>5, FlagsType DEF SendNothing, Statuses
    <2>3. TypeOK'
      BY <1>0, <1>5, <2>1, <2>2 DEF SendNothing, TypeOK, ActionInfo
    <2> QED BY <1>1, <1>2, <2>3
  <1>6. CASE Send(t)
    <2>1. at' \in [Threads -> Places]
      BY <1>0, <1>3, <1>6, GoToType DEF Send
    <2>2. sends[target[t]] + 1 \in 1 .. MaxSends
      <3>1. sends[target[t]] \in 0 .. MaxSends /\ sends[target[t]] + 1 <= MaxSends
        BY <1>0, <1>2, <1>6 DEF Send, TypeOK
      <3> QED BY <3>1, SizesAssumption
    <2>3. sends' \in [Actions -> 0 .. MaxSends]
      BY <1>0, <1>2, <1>6, <2>2 DEF Send, TypeOK
    <2>4. \E s \in {"sent", "refused", "lost"} :
            job' = [job EXCEPT ![<<target[t], sends[target[t]] + 1>>] = s]
      BY <1>6 DEF Send, Jobs!Send, Jobs!Refuse
    <2>5. job' \in [Job -> Jobs!JobStates]
      BY <1>0, <2>4 DEF TypeOK, Jobs!JobStates
    <2>6. TypeOK'
      BY <1>0, <1>6, <2>1, <2>3, <2>5 DEF Send, TypeOK
    <2> QED BY <1>1, <1>2, <2>6
  <1>7. CASE Mark(t)
    <2>1. at' \in [Threads -> Places]
      BY <1>0, <1>3, <1>7, GoToType DEF Mark
    <2>2. act' \in [Actions -> ActionInfo]
      <3>1. \/ act' = [act EXCEPT ![target[t]].dispatched = TRUE]
            \/ act' = [act EXCEPT ![target[t]] =
                        [@ EXCEPT !.dispatched = TRUE, !.done = FALSE, !.doing = FALSE]]
        BY <1>7 DEF Mark
      <3>2. /\ [act EXCEPT ![target[t]].dispatched = TRUE] \in [Actions -> ActionInfo]
            /\ [act EXCEPT ![target[t]] =
                  [@ EXCEPT !.dispatched = TRUE, !.done = FALSE, !.doing = FALSE]]
                 \in [Actions -> ActionInfo]
        BY <1>0, FlagsType, Zenon
      <3> QED BY <3>1, <3>2, Zenon
    <2>3. torn' \in BOOLEAN
      BY <1>0, <1>7 DEF Mark, TypeOK, ActionInfo
    <2>4. TypeOK'
      BY <1>0, <1>7, <2>1, <2>2, <2>3 DEF Mark, TypeOK, ActionInfo
    <2> QED BY <1>1, <1>2, <2>4
  <1>8. CASE NotSent(t)
    <2>1. at' \in [Threads -> Places] /\ completed' \in Seq(Actions)
      BY <1>0, <1>2, <1>3, <1>8, GoToType, DoneType DEF NotSent
    <2>2. act' \in [Actions -> ActionInfo]
      BY <1>0, <1>8, FlagsType DEF NotSent, SetStatus, Statuses
    <2>3. TypeOK'
      BY <1>0, <1>8, <2>1, <2>2 DEF NotSent, TypeOK, ActionInfo
    <2> QED BY <1>1, <1>2, <2>3
  <1> QED BY <1>4, <1>5, <1>6, <1>7, <1>8 DEF Dispatch

LEMMA MainType ==
  ASSUME IInv, Main
  PROVE  TypeOK'
  <1>0. TypeOK /\ "main" \in Threads
    BY ThreadsAre DEF IInv
  <1>1. item["main"] \in Nat /\ first_g \in Nat /\ last_g \in Nat
    BY <1>0 DEF TypeOK
  <1>2. ASSUME NEW n \in Nat PROVE [item EXCEPT !["main"] = n] \in [Threads -> Nat]
    BY <1>0 DEF TypeOK
  <1>p. {"next", "lock", "wait", "waitall", "group", "cannot", "waitlast", "record",
         "returned"} \subseteq Places
    BY DEF Places
  <1> USE DEF mainVars, fixed, Jobs!TypeOK
  <1>3. CASE BeginGroup
    <2>1. at' \in [Threads -> Places]
      BY <1>0, <1>p, <1>3, GoToType DEF BeginGroup
    <2>2. item' \in [Threads -> Nat]
      BY <1>0, <1>1, <1>2, <1>3, Ranges DEF BeginGroup
    <2>3. last_g' \in Nat
      BY <1>0, <1>1, <1>3, GroupIs DEF BeginGroup
    <2> QED BY <1>0, <1>3, <2>1, <2>2, <2>3 DEF BeginGroup, TypeOK
  <1>4. CASE DispatchNext
    <2>1. at' \in [Threads -> Places]
      BY <1>0, <1>p, <1>4, GoToType DEF DispatchNext
    <2>2. item' \in [Threads -> Nat]
      BY <1>0, <1>1, <1>2, <1>4 DEF DispatchNext
    <2>3. target' \in [Threads -> Actions \cup {NoAction}]
      <3>1. CASE item["main"] < last_g
        <4>1. GroupSet /\ first_g <= item["main"] /\ First(Sequenced) <= first_g
          BY <1>4 DEF DispatchNext, IInv, MainPlaced, GroupPlaces
        <4>2. item["main"] \in First(Sequenced) .. After(Sequenced) - 1
          BY <1>0, <1>1, <3>1, <4>1, Ranges DEF GroupSet
        <4>3. item["main"] \in Actions
          BY <1>0, <4>2, Ranges, NumberedAre
        <4> QED BY <1>0, <1>4, <3>1, <4>3 DEF DispatchNext, TypeOK
      <3>2. CASE ~(item["main"] < last_g)
        BY <1>0, <1>4, <3>2 DEF DispatchNext, TypeOK
      <3> QED BY <3>1, <3>2
    <2> QED BY <1>0, <1>4, <2>1, <2>2, <2>3 DEF DispatchNext, TypeOK
  <1>5. CASE WaitForActions
    <2>1. \E place : \E from, to \in Nat : Looking(place, from, to)
      BY <1>0, <1>1, <1>5, Ranges DEF WaitForActions
    <2>x. PICK place : \E from, to \in Nat : Looking(place, from, to)
      BY <2>1
    <2>y. PICK from \in Nat, to \in Nat : Looking(place, from, to)
      BY <2>x
    <2>2. item' \in [Threads -> Nat]
      BY <1>0, <1>1, <1>2, <2>y DEF Looking
    <2> QED BY <1>0, <2>y, <2>2 DEF Looking, TypeOK
  <1>6. CASE GroupDone
    <2>1. at' \in [Threads -> Places]
      BY <1>0, <1>p, <1>6, GoToType DEF GroupDone
    <2> QED BY <1>0, <1>6, <2>1 DEF GroupDone, TypeOK
  <1>7. CASE EndDependencies
    <2>1. at' \in [Threads -> Places]
      BY <1>0, <1>p, <1>7, GoToType DEF EndDependencies
    <2>2. item' \in [Threads -> Nat]
      BY <1>0, <1>2, <1>7, Ranges DEF EndDependencies
    <2> QED BY <1>0, <1>7, <2>1, <2>2 DEF EndDependencies, TypeOK
  <1>8. CASE CannotHappen
    <2>1. CASE item["main"] < After(Conditionals)
      <3>1. First(Conditionals) <= item["main"]
        BY <1>8 DEF CannotHappen, IInv, MainPlaced, EndPlaces
      <3>2. item["main"] \in Actions
        <4>1. item["main"] \in First(Conditionals) .. After(Conditionals) - 1
          BY <1>0, <1>1, <2>1, <3>1, Ranges
        <4>2. item["main"] \in Conditionals
          BY <1>0, <4>1, Ranges
        <4> QED BY <4>2 DEF Conditionals, InPhase, OfPhases
      <3>3. at' \in [Threads -> Places] /\ completed' \in Seq(Actions)
        <4>1. at \in [Threads -> Places] /\ completed \in Seq(Actions)
          BY <1>0 DEF TypeOK
        <4>2. UNCHANGED <<at, completed>> \/ DoActionDone(item["main"], at)
          BY <1>8, <2>1 DEF CannotHappen, NotDone
        <4> QED BY <1>0, <3>2, <4>1, <4>2, DoneType
      <3>4. act' \in [Actions -> ActionInfo]
        <4>1. UNCHANGED act \/ act' = [act EXCEPT ![item["main"]].status = "CANT_HAPPEN"]
          BY <1>8, <2>1 DEF CannotHappen, SetStatus
        <4>2. "CANT_HAPPEN" \in Statuses
          BY DEF Statuses
        <4>3. /\ act \in [Actions -> ActionInfo]
              /\ [act EXCEPT ![item["main"]].status = "CANT_HAPPEN"] \in [Actions -> ActionInfo]
          BY <1>0, <4>2, FlagsType, Zenon
        <4> QED BY <4>1, <4>3, Zenon
      <3>5. item' \in [Threads -> Nat]
        BY <1>0, <1>1, <1>2, <1>8, <2>1 DEF CannotHappen
      <3> QED BY <1>0, <1>8, <3>3, <3>4, <3>5 DEF CannotHappen, TypeOK, ActionInfo
    <2>2. CASE ~(item["main"] < After(Conditionals))
      <3>1. at' \in [Threads -> Places]
        BY <1>0, <1>p, <1>8, <2>2, GoToType DEF CannotHappen
      <3>2. item' \in [Threads -> Nat]
        BY <1>0, <1>2, <1>8, <2>2, Ranges DEF CannotHappen
      <3> QED BY <1>0, <1>8, <2>2, <3>1, <3>2 DEF CannotHappen, NotDone, TypeOK
    <2> QED BY <2>1, <2>2
  <1>9. CASE BeginRecord
    <2>1. at' \in [Threads -> Places]
      BY <1>0, <1>p, <1>9, GoToType DEF BeginRecord
    <2>2. item' \in [Threads -> Nat]
      BY <1>0, <1>2, <1>9, Ranges DEF BeginRecord
    <2> QED BY <1>0, <1>9, <2>1, <2>2 DEF BeginRecord, TypeOK
  <1>10. CASE RecordStatus
    <2>1. at' \in [Threads -> Places]
      <3>1. at \in [Threads -> Places]
        BY <1>0 DEF TypeOK
      <3> QED BY <1>0, <1>p, <1>10, <3>1, GoToType DEF RecordStatus
    <2>2. item' \in [Threads -> Nat]
      <3>1. item \in [Threads -> Nat]
        BY <1>0 DEF TypeOK
      <3> QED BY <1>0, <1>1, <1>2, <1>10, <3>1 DEF RecordStatus
    <2>3. act' \in [Actions -> ActionInfo]
      <3>1. UNCHANGED act \/ act' = [act EXCEPT ![item["main"]].recorded = TRUE]
        BY <1>10 DEF RecordStatus
      <3>2. /\ act \in [Actions -> ActionInfo]
            /\ [act EXCEPT ![item["main"]].recorded = TRUE] \in [Actions -> ActionInfo]
        BY <1>0, FlagsType, Zenon
      <3> QED BY <3>1, <3>2, Zenon
    <2>4. tree' \in [Actions -> Statuses] /\ failed' \in BOOLEAN
      BY <1>0, <1>10 DEF RecordStatus, TypeOK, ActionInfo
    <2> QED BY <1>0, <1>10, <2>1, <2>2, <2>3, <2>4 DEF RecordStatus, TypeOK, ActionInfo
  <1>11. CASE NextPhase
    <2>1. calls \in Seq(Nat) /\ calls # <<>> /\ calls' = Tail(calls)
      BY <1>0, <1>11 DEF NextPhase, TypeOK
    <2>2. calls' \in Seq(Nat)
      BY <2>1
    <2>3. at' \in [Threads -> Places]
      <3>1. at \in [Threads -> Places]
        BY <1>0 DEF TypeOK
      <3> QED BY <1>0, <1>p, <1>11, <3>1, GoToType DEF NextPhase
    <2>4. first_g' \in Nat
      <3> DEFINE S == {i \in OfPhases(Tail(calls)) : ~Conditional(i)}
      <3>1. S \subseteq Nat
        BY Numbers DEF OfPhases
      <3>2. First(S) \in Nat
        <4>1. CASE S = {}
          BY <4>1, Numbers DEF First
        <4>2. CASE S # {}
          BY <3>1, <4>2, FirstIs
        <4> QED BY <4>1, <4>2
      <3> HIDE DEF S
      <3>3. first_g' = First(S) \/ UNCHANGED first_g
        BY <1>11 DEF NextPhase, S
      <3> QED BY <1>1, <3>2, <3>3
    <2>5. abort' \in BOOLEAN /\ failed' \in BOOLEAN
      BY <1>0, <1>11 DEF NextPhase, TypeOK
    <2> QED BY <1>0, <1>11, <2>2, <2>3, <2>4, <2>5 DEF NextPhase, TypeOK
  <1> QED BY <1>3, <1>4, <1>5, <1>6, <1>7, <1>8, <1>9, <1>10, <1>11 DEF Main

LEMMA ThreadType ==
  ASSUME IInv, NEW t \in DoneThreads, ProcessActionDone(t)
  PROVE  TypeOK'
  <1>0. TypeOK /\ t \in Threads
    BY ThreadsAre DEF IInv
  <1>1. at[t] \in Holding \cup {"unrecord"} => item[t] \in Actions
    BY DEF IInv, ThreadsPlaced
  <1>p. {"idle", "taken", "done", "refs", "lock", "unrecord"} \subseteq Places
    BY DEF Places
  <1>a. at \in [Threads -> Places] /\ completed \in Seq(Actions)
    BY <1>0 DEF TypeOK
  <1> USE DEF mainVars, fixed, Jobs!TypeOK
  <1>2. CASE ThreadStarts(t)
    <2>1. at' \in [Threads -> Places]
      BY <1>0, <1>p, <1>2, GoToType DEF ThreadStarts
    <2> QED BY <1>0, <1>2, <2>1 DEF ThreadStarts, TypeOK
  <1>3. CASE DequeueCompletedAction(t)
    <2>1. at' \in [Threads -> Places]
      BY <1>0, <1>p, <1>3, GoToType DEF DequeueCompletedAction
    <2>2. completed # <<>> /\ item' = [item EXCEPT ![t] = Head(completed)]
          /\ completed' = Tail(completed)
      BY <1>3 DEF DequeueCompletedAction
    <2>3. Head(completed) \in Actions /\ completed' \in Seq(Actions)
      BY <1>a, <2>2
    <2>4. item' \in [Threads -> Nat]
      BY <1>0, <2>2, <2>3, Numbers DEF TypeOK
    <2> QED BY <1>0, <1>3, <2>1, <2>3, <2>4 DEF DequeueCompletedAction, TypeOK
  <1>4. CASE ActionDone(t)
    <2>1. at' \in [Threads -> Places]
      BY <1>0, <1>p, <1>4, GoToType DEF ActionDone
    <2>2. item[t] \in Actions
      BY <1>1, <1>4 DEF ActionDone, Holding
    <2>3. act[item[t]].status \in Statuses
      BY <1>0, <2>2 DEF TypeOK
    <2>4. value' \in [Actions -> Statuses] /\ deps' \in [DoneThreads -> SUBSET Actions]
      <3>1. ReferencedBy(item[t]) \subseteq Actions
        BY DEF ReferencedBy
      <3>2. CASE abort
        BY <1>0, <1>4, <3>2 DEF ActionDone, TypeOK
      <3>3. CASE ~abort
        BY <1>0, <1>4, <2>2, <2>3, <3>1, <3>3 DEF ActionDone, TypeOK
      <3> QED BY <3>2, <3>3
    <2> QED BY <1>0, <1>4, <2>1, <2>4 DEF ActionDone, TypeOK
  <1>5. CASE Consider(t)
    <2>1. First(deps[t]) \in Actions /\ First(deps[t]) \in deps[t]
      <3>1. deps[t] \subseteq Actions /\ deps[t] # {}
        BY <1>0, <1>5 DEF Consider, TypeOK
      <3> QED BY <3>1, FirstIs, Numbers
    <2> DEFINE c == First(deps[t])
    <2>2. deps' \in [DoneThreads -> SUBSET Actions]
      BY <1>0, <1>5 DEF Consider, TypeOK
    <2>3. \/ UNCHANGED <<act, at, target, completed>>
          \/ /\ target' = [target EXCEPT ![t] = c] /\ at' = GoTo(t, "lock")
             /\ UNCHANGED <<act, completed>>
          \/ /\ UNCHANGED target /\ DoActionDone(c, at)
             /\ \/ act' = [act EXCEPT ![c].status = "NOT_DISPATCHED"]
                \/ act' = [act EXCEPT ![c].status = "INVALID_DEPENDENCY"]
      BY <1>5 DEF Consider, NotDone, SetStatus
    <2> HIDE DEF c
    <2>4. c \in Actions
      BY <2>1 DEF c
    <2>5. act' \in [Actions -> ActionInfo]
      <3>1. {"NOT_DISPATCHED", "INVALID_DEPENDENCY"} \subseteq Statuses
        BY DEF Statuses
      <3>2. /\ act \in [Actions -> ActionInfo]
            /\ [act EXCEPT ![c].status = "NOT_DISPATCHED"] \in [Actions -> ActionInfo]
            /\ [act EXCEPT ![c].status = "INVALID_DEPENDENCY"] \in [Actions -> ActionInfo]
        BY <1>0, <3>1, FlagsType, Zenon
      <3> QED BY <2>3, <3>2, Zenon
    <2>6. at' \in [Threads -> Places] /\ completed' \in Seq(Actions)
      BY <1>0, <1>a, <1>p, <2>3, <2>4, GoToType, DoneType
    <2>7. target' \in [Threads -> Actions \cup {NoAction}]
      BY <1>0, <2>3, <2>4 DEF TypeOK
    <2> QED BY <1>0, <1>5, <2>2, <2>5, <2>6, <2>7 DEF Consider, TypeOK, ActionInfo
  <1>6. CASE SetDone(t)
    <2>1. at' \in [Threads -> Places]
      BY <1>0, <1>p, <1>6, GoToType DEF SetDone
    <2>2. act' \in [Actions -> ActionInfo]
      <3>1. act' = [act EXCEPT ![item[t]].done = TRUE]
        BY <1>6 DEF SetDone
      <3>2. [act EXCEPT ![item[t]].done = TRUE] \in [Actions -> ActionInfo]
        BY <1>0, FlagsType, Zenon
      <3> QED BY <3>1, <3>2, Zenon
    <2> QED BY <1>0, <1>6, <2>1, <2>2 DEF SetDone, TypeOK, ActionInfo
  <1>7. CASE ClearRecorded(t)
    <2>1. at' \in [Threads -> Places]
      BY <1>0, <1>p, <1>7, GoToType DEF ClearRecorded
    <2>2. act' \in [Actions -> ActionInfo]
      BY <1>0, <1>7, FlagsType DEF ClearRecorded
    <2> QED BY <1>0, <1>7, <2>1, <2>2 DEF ClearRecorded, TypeOK, ActionInfo
  <1> QED BY <1>2, <1>3, <1>4, <1>5, <1>6, <1>7 DEF ProcessActionDone

LEMMA JobType ==
  ASSUME IInv, NEW j \in Job, Before(j) \/ Completion(j)
  PROVE  TypeOK' /\ j[1] \in Actions
  <1>0. TypeOK
    BY DEF IInv
  <1>1. j[1] \in Actions
    BY DEF Job
  <1>a. at \in [Threads -> Places] /\ completed \in Seq(Actions)
    BY <1>0 DEF TypeOK
  <1>j. job' \in [Job -> Jobs!JobStates]
    <2>1. \E s \in {"doing", "done", "late"} : job' = [job EXCEPT ![j] = s]
      BY DEF Before, Completion, Jobs!Start, Jobs!Complete, Jobs!CompleteLost
    <2> QED BY <1>0, <2>1 DEF TypeOK, Jobs!TypeOK, Jobs!JobStates
  <1> USE DEF mainVars, fixed, Jobs!TypeOK
  <1>2. CASE Before(j)
    <2>1. \/ act' = [act EXCEPT ![j[1]].doing = TRUE]
          \/ act' = [act EXCEPT ![j[1]] = [@ EXCEPT !.doing = TRUE, !.dispatched = FALSE]]
      BY <1>2 DEF Before
    <2>2. /\ [act EXCEPT ![j[1]].doing = TRUE] \in [Actions -> ActionInfo]
          /\ [act EXCEPT ![j[1]] = [@ EXCEPT !.doing = TRUE, !.dispatched = FALSE]]
               \in [Actions -> ActionInfo]
      BY <1>0, FlagsType, Zenon
    <2>3. act' \in [Actions -> ActionInfo]
      BY <2>1, <2>2, Zenon
    <2>4. torn' \in BOOLEAN
      BY <1>0, <1>2 DEF Before, TypeOK
    <2> QED BY <1>0, <1>1, <1>2, <1>j, <2>3, <2>4 DEF Before, TypeOK, ActionInfo
  <1>3. CASE Completion(j)
    <2>1. PICK s \in {"ok", "error"} : act' = [act EXCEPT ![j[1]].status = s]
      BY <1>3 DEF Completion, SetStatus
    <2>2. s \in Statuses
      BY DEF Statuses
    <2>3. act' \in [Actions -> ActionInfo]
      BY <1>0, <2>1, <2>2, FlagsType
    <2>4. at' \in [Threads -> Places] /\ completed' \in Seq(Actions)
      BY <1>0, <1>1, <1>3, <1>a, DoneType DEF Completion
    <2> QED BY <1>0, <1>1, <1>3, <1>j, <2>3, <2>4 DEF Completion, TypeOK, ActionInfo
  <1> QED BY <1>2, <1>3

-----------------------------------------------------------------------------
(* Steps of the others, while main stays where it is. *)

MainStays ==
  /\ UNCHANGED <<shot, noact, calls, first_g, last_g>>
  /\ at'["main"] = at["main"] /\ item'["main"] = item["main"]
  /\ target'["main"] = target["main"]

(* No action with a sequence number is sent, or starts to run. *)
QuietJobs == \A i \in Numbered : sends'[i] = sends[i] /\ (Busy(i)' => Busy(i))

LEMMA TableKept ==
  ASSUME UNCHANGED <<shot, calls>>
  PROVE  /\ Numbered' = Numbered /\ Sequenced' = Sequenced /\ Conditionals' = Conditionals
         /\ InPhase' = InPhase /\ table' = table
         /\ \A i : GroupOf(i)' = GroupOf(i)
         /\ \A i : Conditional(i)' = Conditional(i)
  BY DEF Numbered, Sequenced, Conditionals, InPhase, OfPhases, Conditional, table, GroupOf

(* What main dispatches is an action of the current group. *)
LEMMA MainTarget ==
  ASSUME IInv, at["main"] \in Dispatching
  PROVE  /\ target["main"] \in Sequenced /\ first_g <= target["main"]
         /\ target["main"] = item["main"] - 1 /\ item["main"] \in Nat
         /\ at["main"] \in {"lock", "send"} => target["main"] >= Frontier
  <1>0. TypeOK
    BY DEF IInv
  <1>1. GroupSet /\ item["main"] <= last_g /\ first_g < item["main"]
        /\ target["main"] = item["main"] - 1 /\ First(Sequenced) <= first_g
    BY DEF IInv, MainPlaced, GroupPlaces
  <1>2. /\ first_g \in Nat /\ last_g \in Nat /\ item["main"] \in Nat
    BY <1>0, ThreadsAre DEF TypeOK
  <1>3. target["main"] \in First(Sequenced) .. After(Sequenced) - 1
    BY <1>0, <1>1, <1>2, Ranges DEF GroupSet
  <1>4. target["main"] \in Sequenced
    BY <1>0, <1>3, Ranges
  <1> QED BY <1>1, <1>2, <1>4, FrontierIs

LEMMA MainKept ==
  ASSUME IInv, MainStays
  PROVE  MainPlaced' /\ Frontier' = Frontier
  <1>1. /\ Numbered' = Numbered /\ Sequenced' = Sequenced /\ Conditionals' = Conditionals
        /\ \A i : GroupOf(i)' = GroupOf(i)
    BY TableKept DEF MainStays
  <1>2. GroupSet' = GroupSet
    BY <1>1 DEF GroupSet, MainStays
  <1>3. MainPlaced'
    BY <1>1, <1>2 DEF MainPlaced, MainStays, IInv
  <1>4. Frontier' = Frontier
    BY <1>1 DEF Frontier, MainStays
  <1> QED BY <1>3, <1>4

LEMMA QuietKept ==
  ASSUME IInv, MainStays, QuietJobs
  PROVE  /\ MainPlaced' /\ NumberedPlan'
         /\ ~torn => NumberedBusy'
  <1>1. /\ MainPlaced' /\ Frontier' = Frontier /\ Numbered' = Numbered /\ table' = table
        /\ Sequenced' = Sequenced /\ Sequenced \subseteq Numbered
    BY MainKept, TableKept, NumberedAre DEF MainStays
  <1>2. NumberedPlan'
    BY <1>1 DEF IInv, NumberedPlan, QuietJobs, MainStays
  <1>3. ~torn => NumberedBusy'
    BY <1>1 DEF IInv, NumberedBusy, QuietJobs, MainStays
  <1> QED BY <1>1, <1>2, <1>3

(* The whole invariant, but for types, after such a step. *)
LEMMA StaysKept ==
  ASSUME IInv, TypeOK', MainStays, QuietJobs, SendsCount', ThreadsPlaced', ~torn,
         \A i \in Numbered : Pending(i)' =>
           Pending(i) \/ (~Busy(i)' /\ (noact \/ sends[i] > 0)),
         torn' \/ \A i \in Numbered :
           /\ act'[i].done => act[i].done \/ Pending(i)
           /\ act[i].dispatched => act'[i].dispatched
  PROVE  IInv'
  <1>1. /\ MainPlaced' /\ NumberedPlan' /\ NumberedBusy'
    BY QuietKept
  <1>2. Numbered' = Numbered
    BY TableKept DEF MainStays
  <1>3. NumberedPending'
    BY <1>2 DEF IInv, NumberedPending, QuietJobs, MainStays
  <1>4. ~torn' => NumberedFlags'
    <2> SUFFICES ASSUME ~torn' PROVE NumberedFlags'
      OBVIOUS
    <2>1. \A i \in Numbered : act'[i].done => act[i].done \/ (~Busy(i) /\ (noact \/ sends[i] > 0))
      BY DEF IInv, NumberedPending
    <2>2. \A i \in Numbered : Busy(i)' =>
       /\ ~act'[i].done
       /\ act'[i].dispatched \/ (at'["main"] = "mark" /\ target'["main"] = i)
      BY <2>1 DEF IInv, NumberedFlags, QuietJobs, MainStays
    <2>3. at["main"] \in Dispatching => target["main"] \in Sequenced
      BY MainTarget
    <2>4. at'["main"] = "send" /\ ~noact' => ~act'[target'["main"]].done
      <3> SUFFICES ASSUME at["main"] = "send", ~noact PROVE ~act'[target["main"]].done
        BY DEF MainStays
      <3>1. target["main"] \in Sequenced /\ target["main"] >= Frontier /\ target["main"] \in Numbered
        BY <2>3, MainTarget, NumberedAre DEF Dispatching
      <3>2. sends[target["main"]] = 0
        BY <3>1 DEF IInv, NumberedPlan
      <3>3. ~act[target["main"]].done
        BY DEF IInv, NumberedFlags
      <3> QED BY <2>1, <3>1, <3>2, <3>3
    <2>5. at'["main"] = "unsent" => ~Busy(target["main"])' /\ sends'[target'["main"]] > 0
      BY <2>3, NumberedAre DEF IInv, NumberedFlags, QuietJobs, MainStays, Dispatching
    <2> QED BY <1>2, <2>2, <2>4, <2>5 DEF NumberedFlags
  <1> QED BY <1>1, <1>3, <1>4 DEF IInv

LEMMA JobsStill ==
  ASSUME IInv, UNCHANGED <<shot, noact, sends, job>>
  PROVE  QuietJobs /\ SendsCount'
  BY DEF IInv, QuietJobs, SendsCount, Busy, Jobs!Running

LEMMA ThreadKept ==
  ASSUME IInv, ~torn, NEW t \in DoneThreads, ProcessActionDone(t)
  PROVE  IInv'
  <1>0. TypeOK /\ TypeOK' /\ t \in Threads /\ t # "main" /\ "main" \in Threads
    BY ThreadType, ThreadsAre DEF IInv
  <1>a. at \in [Threads -> Places] /\ item \in [Threads -> Nat] /\ completed \in Seq(Actions)
        /\ deps \in [DoneThreads -> SUBSET Actions]
        /\ target \in [Threads -> Actions \cup {NoAction}]
    BY <1>0 DEF TypeOK
  <1>b. UNCHANGED <<shot, noact, calls, first_g, last_g, sends, job>>
    BY DEF ProcessActionDone, ThreadStarts, DequeueCompletedAction, ActionDone, Consider,
      SetDone, ClearRecorded, mainVars, fixed
  <1>c. QuietJobs /\ SendsCount' /\ Numbered' = Numbered
    BY <1>b, JobsStill, TableKept
  <1>d. ThreadsPlaced
    BY DEF IInv
  <1>f. act \in [Actions -> ActionInfo] /\ Numbered \subseteq Actions
    BY <1>0, FlagsType, NumberedAre
  <1>2. CASE ThreadStarts(t)
    <2>1. at' = [at EXCEPT ![t] = "idle"] /\ UNCHANGED <<item, target, deps, act, completed>>
      BY <1>2 DEF ThreadStarts, GoTo
    <2>2. MainStays
      BY <1>0, <1>a, <1>b, <2>1 DEF MainStays
    <2>3. ThreadsPlaced'
      BY <1>0, <1>a, <1>c, <1>d, <2>1 DEF ThreadsPlaced, Holding, Dispatching
    <2>4. \A i : Pending(i)' => Pending(i)
      BY <1>0, <1>a, <2>1, ThreadsAre DEF Pending, Holding, Dispatching
    <2> QED BY <1>0, <1>c, <2>1, <2>2, <2>3, <2>4, StaysKept
  <1>3. CASE DequeueCompletedAction(t)
    <2>1. /\ at' = [at EXCEPT ![t] = "taken"] /\ UNCHANGED <<target, deps, act>>
          /\ completed # <<>> /\ completed' = Tail(completed)
          /\ item' = [item EXCEPT ![t] = Head(completed)]
      BY <1>3 DEF DequeueCompletedAction, GoTo
    <2>2. MainStays
      BY <1>0, <1>a, <1>b, <2>1 DEF MainStays
    <2>3. /\ Head(completed) \in Actions /\ 1 \in DOMAIN completed
          /\ Head(completed) = completed[1]
          /\ \A k \in DOMAIN completed' : k + 1 \in DOMAIN completed
                                          /\ completed'[k] = completed[k + 1]
      BY <1>a, <2>1
    <2>4. ThreadsPlaced'
      BY <1>0, <1>a, <1>c, <1>d, <2>1, <2>3, ThreadsAre DEF ThreadsPlaced, Holding, Dispatching
    <2>5. ASSUME NEW i, Pending(i)' PROVE Pending(i)
      <3>1. CASE \E k \in DOMAIN completed' : completed'[k] = i
        BY <2>3, <3>1 DEF Pending
      <3>2. CASE \E u \in DoneThreads : at'[u] \in Holding /\ item'[u] = i
        BY <1>0, <1>a, <2>1, <2>3, <3>2, ThreadsAre DEF Pending
      <3> QED BY <2>5, <3>1, <3>2 DEF Pending
    <2> QED BY <1>0, <1>c, <2>1, <2>2, <2>4, <2>5, StaysKept
  <1>4. CASE ActionDone(t)
    <2>1. /\ at[t] = "taken" /\ UNCHANGED <<target, act, item, completed>>
          /\ \/ at' = [at EXCEPT ![t] = "done"] /\ UNCHANGED deps
             \/ /\ at' = [at EXCEPT ![t] = "refs"]
                /\ deps' = [deps EXCEPT ![t] = ReferencedBy(item[t])]
      BY <1>4 DEF ActionDone, GoTo
    <2>2. MainStays
      BY <1>0, <1>a, <1>b, <2>1 DEF MainStays
    <2>3. ReferencedBy(item[t]) \cap Numbered = {}
      BY DEF ReferencedBy, Numbered, Conditional, NoWhen
    <2>4. ThreadsPlaced'
      BY <1>0, <1>a, <1>c, <1>d, <2>1, <2>3, ThreadsAre DEF ThreadsPlaced, Holding, Dispatching
    <2>5. \A i : Pending(i)' => Pending(i)
      BY <1>0, <1>a, <2>1, ThreadsAre DEF Pending, Holding
    <2> QED BY <1>0, <1>c, <2>1, <2>2, <2>4, <2>5, StaysKept
  <1>5. CASE Consider(t)
    <2> DEFINE c == First(deps[t])
    <2>1. c \in Actions \ Numbered
      <3>1. deps[t] \subseteq Actions /\ deps[t] # {}
        BY <1>a, <1>5 DEF Consider
      <3>2. c \in deps[t]
        BY <3>1, FirstIs, Numbers
      <3> QED BY <1>d, <3>1, <3>2 DEF ThreadsPlaced
    <2>2. /\ at[t] = "refs" /\ UNCHANGED <<item, torn>>
          /\ deps' = [deps EXCEPT ![t] = @ \ {c}]
          /\ \/ UNCHANGED <<act, at, target, completed>>
             \/ /\ target' = [target EXCEPT ![t] = c] /\ at' = [at EXCEPT ![t] = "lock"]
                /\ UNCHANGED <<act, completed>>
             \/ /\ UNCHANGED target /\ DoActionDone(c, at)
                /\ \E s : act' = [act EXCEPT ![c].status = s]
      BY <1>5 DEF Consider, NotDone, SetStatus, GoTo
    <2> HIDE DEF c
    <2>3. /\ at'["main"] = at["main"]
          /\ at'[t] \in {"refs", "lock"} /\ (at'[t] = "lock" => target'[t] = c)
          /\ \A u \in DoneThreads : u # t =>
               target'[u] = target[u] /\ (at'[u] = at[u] \/ at'[u] = "starting")
          /\ target'["main"] = target["main"]
          /\ \A k \in DOMAIN completed' :
               completed'[k] = c \/ \E m \in DOMAIN completed : completed[m] = completed'[k]
      <3>1. CASE UNCHANGED <<act, at, target, completed>>
        BY <1>0, <2>2, <3>1
      <3>2. CASE /\ target' = [target EXCEPT ![t] = c] /\ at' = [at EXCEPT ![t] = "lock"]
                 /\ UNCHANGED <<act, completed>>
        BY <1>0, <1>a, <2>2, <3>2, ThreadsAre
      <3>3. CASE UNCHANGED target /\ DoActionDone(c, at)
        BY <1>0, <1>a, <2>1, <2>2, <3>3, DoneType
      <3> QED BY <2>2, <3>1, <3>2, <3>3
    <2>4. MainStays
      BY <1>0, <1>b, <2>2, <2>3 DEF MainStays
    <2>5. ThreadsPlaced'
      BY <1>0, <1>a, <1>c, <1>d, <2>1, <2>2, <2>3, ThreadsAre DEF ThreadsPlaced, Holding, Dispatching
    <2>6. \A i \in Numbered : Pending(i)' => Pending(i)
      <3>1. SUFFICES ASSUME NEW i \in Numbered, Pending(i)' PROVE Pending(i)
        OBVIOUS
      <3>2. CASE \E k \in DOMAIN completed' : completed'[k] = i
        BY <2>1, <2>3, <3>2 DEF Pending
      <3>3. CASE \E u \in DoneThreads : at'[u] \in Holding /\ item'[u] = i
        BY <1>0, <1>a, <2>2, <2>3, <3>3, ThreadsAre DEF Pending, Holding, Dispatching
      <3> QED BY <3>1, <3>2, <3>3 DEF Pending
    <2>7. \A i \in Numbered : act'[i] = act[i]
      BY <1>f, <2>1, <2>2
    <2> QED BY <1>0, <1>c, <2>2, <2>4, <2>5, <2>6, <2>7, StaysKept
  <1>6. CASE SetDone(t)
    <2>1. /\ at[t] \in {"done", "refs"} /\ at' = [at EXCEPT ![t] = "unrecord"]
          /\ UNCHANGED <<target, item, deps, completed>>
          /\ act' = [act EXCEPT ![item[t]].done = TRUE]
      BY <1>6 DEF SetDone, GoTo
    <2>2. MainStays
      BY <1>0, <1>a, <1>b, <2>1 DEF MainStays
    <2>3. ThreadsPlaced'
      BY <1>0, <1>a, <1>c, <1>d, <2>1, ThreadsAre DEF ThreadsPlaced, Holding, Dispatching
    <2>4. \A i : Pending(i)' => Pending(i)
      BY <1>0, <1>a, <2>1, ThreadsAre DEF Pending, Holding, Dispatching
    <2>5. \A i \in Numbered : /\ act'[i].done => act[i].done \/ Pending(i)
                              /\ act[i].dispatched => act'[i].dispatched
      <3>1. Pending(item[t])
        BY <2>1 DEF Pending, Holding
      <3> QED BY <1>f, <2>1, <3>1 DEF ActionInfo
    <2> QED BY <1>0, <1>c, <2>2, <2>3, <2>4, <2>5, StaysKept
  <1>7. CASE ClearRecorded(t)
    <2>1. /\ at[t] = "unrecord" /\ at' = [at EXCEPT ![t] = "idle"]
          /\ UNCHANGED <<target, item, deps, completed>>
          /\ act' = [act EXCEPT ![item[t]].recorded = FALSE]
      BY <1>7 DEF ClearRecorded, GoTo
    <2>2. MainStays
      BY <1>0, <1>a, <1>b, <2>1 DEF MainStays
    <2>3. ThreadsPlaced'
      BY <1>0, <1>a, <1>c, <1>d, <2>1, ThreadsAre DEF ThreadsPlaced, Holding, Dispatching
    <2>4. \A i : Pending(i)' => Pending(i)
      BY <1>0, <1>a, <2>1, ThreadsAre DEF Pending, Holding, Dispatching
    <2>5. \A i \in Numbered : act'[i].done = act[i].done /\ act'[i].dispatched = act[i].dispatched
      BY <1>f, <2>1 DEF ActionInfo
    <2> QED BY <1>0, <1>c, <2>2, <2>3, <2>4, <2>5, StaysKept
  <1> QED BY <1>2, <1>3, <1>4, <1>5, <1>6, <1>7 DEF ProcessActionDone

(* A job of one action is sent, or refused. *)
LEMMA SendJobs ==
  ASSUME IInv, NEW t \in Threads, Send(t), target[t] \in Actions
  PROVE  LET c == target[t] IN
         /\ SendsCount'
         /\ \A i \in Actions : i # c => sends'[i] = sends[i] /\ (Busy(i)' => Busy(i))
         /\ sends'[c] = sends[c] + 1 /\ sends[c] \in Nat
         /\ \A m \in 1 .. MaxSends : m # sends[c] + 1 => job'[<<c, m>>] = job[<<c, m>>]
         /\ sends[c] + 1 \in 1 .. MaxSends
         /\ \/ job'[<<c, sends[c] + 1>>] = "sent" /\ at' = GoTo(t, "mark")
            \/ job'[<<c, sends[c] + 1>>] \in {"refused", "lost"} /\ at' = GoTo(t, "unsent")
  <1> DEFINE c == target[t]
             n == sends[target[t]] + 1
  <1>1. /\ sends \in [Actions -> 0 .. MaxSends] /\ job \in [Job -> Jobs!JobStates]
        /\ MaxSends \in Nat
    BY SizesAssumption DEF IInv, TypeOK, Jobs!TypeOK
  <1>2. /\ sends' = [sends EXCEPT ![c] = n] /\ n <= MaxSends /\ ~noact
        /\ UNCHANGED <<noact, shot>>
        /\ \/ job' = [job EXCEPT ![<<c, n>>] = "sent"] /\ at' = GoTo(t, "mark")
           \/ \E how \in {"refused", "lost"} :
                job' = [job EXCEPT ![<<c, n>>] = how] /\ at' = GoTo(t, "unsent")
    BY DEF Send, Jobs!Send, Jobs!Refuse, fixed
  <1>3. c \in Actions /\ sends[c] \in Nat /\ n = sends[c] + 1
    BY <1>1
  <1> HIDE DEF c, n
  <1>4. n \in 1 .. MaxSends /\ <<c, n>> \in Job
    BY <1>1, <1>2, <1>3 DEF Job
  <1>5. /\ \A i \in Actions : \A m \in 1 .. MaxSends : <<i, m>> \in Job
        /\ \A i \in Actions : \A m \in 1 .. MaxSends :
             i # c \/ m # n => job'[<<i, m>>] = job[<<i, m>>]
    BY <1>1, <1>2, <1>4 DEF Job
  <1>6. \A i \in Actions : i # c => sends'[i] = sends[i] /\ (Busy(i)' => Busy(i))
    BY <1>1, <1>2, <1>5 DEF Busy, Jobs!Running
  <1>7. SendsCount'
    <2>1. ASSUME NEW i \in Actions, NEW m \in 1 .. MaxSends, m > sends'[i]
          PROVE  job'[<<i, m>>] = "none"
      <3>1. CASE i # c
        BY <1>5, <1>6, <2>1, <3>1 DEF IInv, SendsCount
      <3>2. CASE i = c
        <4>1. m > n /\ m > sends[i]
          BY <1>1, <1>2, <1>3, <2>1, <3>2
        <4> QED BY <1>3, <1>4, <1>5, <2>1, <4>1 DEF IInv, SendsCount
      <3> QED BY <3>1, <3>2
    <2> QED BY <1>2, <2>1 DEF SendsCount
  <1>8. /\ sends'[c] = n
        /\ \/ job'[<<c, n>>] = "sent" /\ at' = GoTo(t, "mark")
           \/ job'[<<c, n>>] \in {"refused", "lost"} /\ at' = GoTo(t, "unsent")
    <2>1. sends'[c] = n
      BY <1>1, <1>2, <1>3
    <2>2. CASE job' = [job EXCEPT ![<<c, n>>] = "sent"] /\ at' = GoTo(t, "mark")
      BY <1>1, <1>4, <2>1, <2>2
    <2>3. ASSUME NEW how \in {"refused", "lost"}, job' = [job EXCEPT ![<<c, n>>] = how],
                 at' = GoTo(t, "unsent")
          PROVE  job'[<<c, n>>] \in {"refused", "lost"} /\ at' = GoTo(t, "unsent")
      BY <1>1, <1>4, <2>3
    <2> QED BY <1>2, <2>1, <2>2, <2>3
  <1> QED BY <1>3, <1>4, <1>5, <1>6, <1>7, <1>8 DEF c

LEMMA OthersDispatchKept ==
  ASSUME IInv, ~torn, NEW t \in DoneThreads, Dispatch(t)
  PROVE  IInv'
  <1> DEFINE c == target[t]
  <1>0. TypeOK /\ TypeOK' /\ t \in Threads /\ t # "main" /\ "main" \in Threads
    BY DispatchType, ThreadsAre DEF IInv
  <1>a. at \in [Threads -> Places] /\ at[t] \in Dispatching
    BY <1>0, DispatchType DEF TypeOK
  <1>d. ThreadsPlaced /\ c \in Actions \ Numbered
    BY <1>a DEF IInv, ThreadsPlaced
  <1>f. act \in [Actions -> ActionInfo] /\ Numbered \subseteq Actions
    BY <1>0, FlagsType, NumberedAre
  <1>r. Return(t) = "refs"
    BY <1>0 DEF Return
  <1>b. UNCHANGED <<shot, noact, calls, first_g, last_g, item, deps, target>>
    BY DEF Dispatch, Lock, SendNothing, Send, Mark, NotSent, mainVars, fixed
  <1>c. Numbered' = Numbered
    BY <1>b, TableKept
  <1>1. ASSUME /\ at'["main"] = at["main"]
               /\ at'[t] \in {"refs"} \cup Dispatching
               /\ \A u \in DoneThreads : u # t => at'[u] = at[u] \/ at'[u] = "starting",
               \A k \in DOMAIN completed' :
                 completed'[k] = c \/ \E m \in DOMAIN completed : completed[m] = completed'[k],
               \A i \in Numbered : act'[i] = act[i],
               SendsCount', QuietJobs
        PROVE  IInv'
    <2>1. MainStays
      BY <1>b, <1>1 DEF MainStays
    <2>2. ThreadsPlaced'
      BY <1>a, <1>b, <1>c, <1>d, <1>1 DEF ThreadsPlaced, Holding, Dispatching
    <2>3. \A i \in Numbered : Pending(i)' => Pending(i)
      BY <1>a, <1>b, <1>d, <1>1 DEF Pending, Holding, Dispatching
    <2> HIDE DEF c
    <2> QED BY <1>0, <1>1, <2>1, <2>2, <2>3, StaysKept
  <1>2. ASSUME NEW place \in Places, DoActionDone(c, GoTo(t, place))
        PROVE  /\ at'["main"] = at["main"]
               /\ at'[t] = place \/ at[t] = "absent"
               /\ \A u \in DoneThreads : u # t => at'[u] = at[u] \/ at'[u] = "starting"
               /\ \A k \in DOMAIN completed' :
                   completed'[k] = c \/ \E m \in DOMAIN completed : completed[m] = completed'[k]
    <2>1. /\ GoTo(t, place) \in [Threads -> Places] /\ GoTo(t, place)[t] = place
          /\ \A u \in Threads : u # t => GoTo(t, place)[u] = at[u]
      BY <1>0, GoToType
    <2>2. /\ at'["main"] = GoTo(t, place)["main"]
          /\ \A u \in DoneThreads :
              at'[u] = GoTo(t, place)[u] \/ (at[u] = "absent" /\ at'[u] = "starting")
          /\ \A k \in DOMAIN completed' :
              completed'[k] = c \/ \E m \in DOMAIN completed : completed[m] = completed'[k]
      <3> HIDE DEF c
      <3> QED BY <1>0, <1>2, <1>d, <2>1, DoneType
    <2> QED BY <1>0, <2>1, <2>2, ThreadsAre
  <1>3. CASE Lock(t)
    <2>1. /\ at' = GoTo(t, "send") /\ UNCHANGED <<completed, sends, job>>
          /\ \E r : act' = [act EXCEPT ![c] = r]
      BY <1>3 DEF Lock
    <2>2. QuietJobs /\ SendsCount'
      BY <1>b, <2>1, JobsStill
    <2>3. \A i \in Numbered : act'[i] = act[i]
      BY <1>d, <1>f, <2>1
    <2>4. at'["main"] = at["main"] /\ at'[t] = "send"
          /\ \A u \in DoneThreads : u # t => at'[u] = at[u]
      BY <1>0, <2>1, GoToType, ThreadsAre DEF Places
    <2> QED BY <1>1, <2>1, <2>2, <2>3, <2>4 DEF Dispatching
  <1>4. CASE SendNothing(t)
    <2>1. /\ DoActionDone(c, GoTo(t, "refs")) /\ UNCHANGED <<sends, job>>
          /\ \E r : act' = [act EXCEPT ![c] = r]
      BY <1>r, <1>4 DEF SendNothing
    <2>2. QuietJobs /\ SendsCount'
      BY <1>b, <2>1, JobsStill
    <2>3. \A i \in Numbered : act'[i] = act[i]
      BY <1>d, <1>f, <2>1
    <2>4. "refs" \in Places /\ at[t] # "absent"
      BY <1>a DEF Places, Dispatching
    <2> QED BY <1>1, <1>2, <2>1, <2>2, <2>3, <2>4
  <1>5. CASE Send(t)
    <2>1. /\ SendsCount' /\ QuietJobs
          /\ at' = GoTo(t, "mark") \/ at' = GoTo(t, "unsent")
      BY <1>0, <1>d, <1>f, <1>5, SendJobs DEF QuietJobs
    <2>2. UNCHANGED <<act, completed>>
      BY <1>5 DEF Send
    <2>3. at'["main"] = at["main"] /\ at'[t] \in {"mark", "unsent"}
          /\ \A u \in DoneThreads : u # t => at'[u] = at[u]
      BY <1>0, <2>1, GoToType, ThreadsAre DEF Places
    <2> QED BY <1>1, <2>1, <2>2, <2>3 DEF Dispatching
  <1>6. CASE Mark(t)
    <2>1. /\ at' = GoTo(t, "refs") /\ UNCHANGED <<completed, sends, job>>
          /\ \E r : act' = [act EXCEPT ![c] = r]
      BY <1>r, <1>6 DEF Mark
    <2>2. QuietJobs /\ SendsCount'
      BY <1>b, <2>1, JobsStill
    <2>3. \A i \in Numbered : act'[i] = act[i]
      BY <1>d, <1>f, <2>1
    <2>4. at'["main"] = at["main"] /\ at'[t] = "refs"
          /\ \A u \in DoneThreads : u # t => at'[u] = at[u]
      BY <1>0, <2>1, GoToType, ThreadsAre DEF Places
    <2> QED BY <1>1, <2>1, <2>2, <2>3, <2>4
  <1>7. CASE NotSent(t)
    <2>1. /\ DoActionDone(c, GoTo(t, "refs")) /\ UNCHANGED <<sends, job>>
          /\ \E s : act' = [act EXCEPT ![c].status = s]
      BY <1>r, <1>7 DEF NotSent, SetStatus
    <2>2. QuietJobs /\ SendsCount'
      BY <1>b, <2>1, JobsStill
    <2>3. \A i \in Numbered : act'[i] = act[i]
      BY <1>d, <1>f, <2>1
    <2>4. "refs" \in Places /\ at[t] # "absent"
      BY <1>a DEF Places, Dispatching
    <2> QED BY <1>1, <1>2, <2>1, <2>2, <2>3, <2>4
  <1> QED BY <1>3, <1>4, <1>5, <1>6, <1>7 DEF Dispatch

(* The receiver's callbacks. *)
LEMMA JobKept ==
  ASSUME IInv, ~torn, NEW j \in Job, Before(j) \/ Completion(j)
  PROVE  IInv'
  <1> DEFINE i0 == j[1]
             n0 == j[2]
  <1>0. TypeOK /\ TypeOK' /\ "main" \in Threads
    BY JobType, ThreadsAre DEF IInv
  <1>a. /\ at \in [Threads -> Places] /\ job \in [Job -> Jobs!JobStates]
        /\ sends \in [Actions -> 0 .. MaxSends] /\ MaxSends \in Nat
    BY <1>0, SizesAssumption DEF TypeOK, Jobs!TypeOK
  <1>j. i0 \in Actions /\ n0 \in 1 .. MaxSends /\ j = <<i0, n0>>
    BY DEF Job
  <1>f. act \in [Actions -> ActionInfo] /\ Numbered \subseteq Actions
    BY <1>0, FlagsType, NumberedAre
  <1>b. UNCHANGED <<shot, noact, calls, first_g, last_g, item, deps, target, sends>>
    BY DEF Before, Completion, mainVars, fixed
  <1>c. Numbered' = Numbered
    BY <1>b, TableKept
  <1>d. ThreadsPlaced
    BY DEF IInv
  <1>1. /\ job[j] # "none"
        /\ \E s \in {"doing", "done", "late"} : job' = [job EXCEPT ![j] = s]
        /\ Before(j) => Jobs!Running(j)
        /\ Completion(j) => \E s \in {"done", "late"} : job' = [job EXCEPT ![j] = s]
    BY DEF Before, Completion, Jobs!Start, Jobs!Complete, Jobs!CompleteLost, Jobs!Running
  <1>2. \A k \in Job : k # j => job'[k] = job[k]
    BY <1>a, <1>1
  <1>3. sends[i0] >= n0
    <2>1. ~(n0 > sends[i0])
      BY <1>1, <1>j DEF IInv, SendsCount
    <2> QED BY <1>a, <1>j, <2>1
  <1>4. SendsCount'
    <2>1. ASSUME NEW i \in Actions, NEW m \in 1 .. MaxSends, m > sends'[i]
          PROVE  job'[<<i, m>>] = "none"
      <3>1. job[<<i, m>>] = "none" /\ <<i, m>> \in Job
        BY <1>b, <2>1 DEF IInv, SendsCount, Job
      <3> QED BY <1>1, <1>2, <3>1
    <2> QED BY <1>b, <2>1 DEF IInv, SendsCount
  <1>5. QuietJobs
    <2>1. ASSUME NEW i \in Numbered, Busy(i)' PROVE Busy(i)
      <3>1. PICK n \in 1 .. MaxSends : job'[<<i, n>>] \in {"sent", "doing"}
        BY <2>1 DEF Busy, Jobs!Running
      <3>2. CASE <<i, n>> = j
        <4>1. ~Completion(j)
          BY <1>a, <1>1, <3>1, <3>2
        <4>2. job[<<i, n>>] \in {"sent", "doing"}
          BY <1>1, <3>2, <4>1 DEF Jobs!Running
        <4> QED BY <4>2 DEF Busy, Jobs!Running
      <3>3. CASE <<i, n>> # j
        <4>1. <<i, n>> \in Job
          BY <1>f DEF Job
        <4> QED BY <1>2, <3>1, <3>3, <4>1 DEF Busy, Jobs!Running
      <3> QED BY <3>2, <3>3
    <2> QED BY <1>b, <2>1 DEF QuietJobs
  <1> HIDE DEF i0, n0
  <1>6. CASE Before(j)
    <2>1. /\ UNCHANGED <<at, completed>>
          /\ \/ act' = [act EXCEPT ![i0].doing = TRUE]
             \/ torn' = TRUE
      BY <1>6 DEF Before, i0
    <2>2. MainStays
      BY <1>b, <2>1 DEF MainStays
    <2>3. ThreadsPlaced'
      BY <1>b, <1>c, <1>d, <2>1 DEF ThreadsPlaced
    <2>4. \A i : Pending(i)' => Pending(i)
      BY <1>b, <2>1 DEF Pending
    <2>5. torn' \/ \A i \in Numbered :
            act'[i].done = act[i].done /\ act'[i].dispatched = act[i].dispatched
      BY <1>f, <2>1 DEF ActionInfo
    <2> QED BY <1>0, <1>4, <1>5, <2>2, <2>3, <2>4, <2>5, StaysKept
  <1>7. CASE Completion(j)
    <2>1. /\ DoActionDone(i0, at)
          /\ \E s : act' = [act EXCEPT ![i0].status = s]
      BY <1>7 DEF Completion, SetStatus, i0
    <2>2. /\ at'["main"] = at["main"]
          /\ \A u \in DoneThreads : at'[u] = at[u] \/ at'[u] = "starting"
          /\ \A k \in DOMAIN completed' :
               completed'[k] = i0 \/ \E m \in DOMAIN completed : completed[m] = completed'[k]
      BY <1>0, <1>a, <1>j, <2>1, DoneType
    <2>3. MainStays
      BY <1>b, <2>2 DEF MainStays
    <2>4. ThreadsPlaced'
      BY <1>b, <1>c, <1>d, <2>2 DEF ThreadsPlaced, Holding, Dispatching
    <2>5. \A i : Pending(i)' => Pending(i) \/ i = i0
      BY <1>b, <2>2 DEF Pending, Holding, Dispatching
    <2>6. i0 \in Numbered => ~Busy(i0)' /\ sends[i0] > 0
      <3> SUFFICES ASSUME i0 \in Numbered PROVE ~Busy(i0)' /\ sends[i0] > 0
        OBVIOUS
      <3>1. sends[i0] <= 1 /\ sends[i0] \in Nat
        BY <1>a, <1>j DEF IInv, NumberedPlan
      <3>2. sends[i0] = 1 /\ n0 = 1
        BY <1>3, <1>j, <3>1
      <3>3. ASSUME NEW n \in 1 .. MaxSends PROVE job'[<<i0, n>>] \notin {"sent", "doing"}
        <4>1. CASE n = 1
          <5>1. job'[j] \in {"done", "late"}
            BY <1>a, <1>1, <1>7
          <5> QED BY <1>j, <3>2, <4>1, <5>1
        <4>2. CASE n # 1
          <5>1. n > sends'[i0]
            BY <1>b, <3>2, <4>2
          <5>2. job'[<<i0, n>>] = "none"
            BY <1>4, <1>j, <5>1 DEF SendsCount
          <5> QED BY <5>2
        <4> QED BY <4>1, <4>2
      <3>4. ~Busy(i0)'
        BY <3>3 DEF Busy, Jobs!Running
      <3> QED BY <3>2, <3>4
    <2>7. \A i \in Numbered : act'[i].done = act[i].done /\ act'[i].dispatched = act[i].dispatched
      BY <1>f, <2>1 DEF ActionInfo
    <2> QED BY <1>0, <1>4, <1>5, <2>3, <2>4, <2>5, <2>6, <2>7, StaysKept
  <1> QED BY <1>6, <1>7

-----------------------------------------------------------------------------
(* Main dispatches an action of the current group. *)

LEMMA GroupStep ==
  ASSUME IInv, at["main"] \in Dispatching,
         UNCHANGED <<shot, noact, calls, first_g, last_g, item, target, deps>>,
         at'["main"] \in {"next"} \cup Dispatching,
         \A u \in DoneThreads : at'[u] = at[u] \/ at'[u] = "starting"
  PROVE  /\ MainPlaced' /\ ThreadsPlaced'
         /\ \A i : (\E u \in DoneThreads : at'[u] \in Holding /\ item'[u] = i) => Pending(i)
  <1>1. /\ Numbered' = Numbered /\ Sequenced' = Sequenced /\ Conditionals' = Conditionals
        /\ \A i : GroupOf(i)' = GroupOf(i)
    BY TableKept
  <1>2. GroupSet' = GroupSet
    BY <1>1 DEF GroupSet
  <1>3. MainPlaced'
    BY <1>1, <1>2 DEF IInv, MainPlaced, GroupPlaces, EndPlaces, Dispatching
  <1>4. ThreadsPlaced'
    BY <1>1 DEF IInv, ThreadsPlaced, Holding, Dispatching
  <1>5. \A i : (\E u \in DoneThreads : at'[u] \in Holding /\ item'[u] = i) => Pending(i)
    BY DEF Pending, Holding, Dispatching
  <1> QED BY <1>3, <1>4, <1>5

LEMMA NotYetSent ==
  ASSUME IInv, NEW i \in Numbered, sends[i] = 0
  PROVE  ~Busy(i)
  <1>1. \A n \in 1 .. MaxSends : job[<<i, n>>] = "none"
    BY NumberedAre DEF IInv, SendsCount
  <1> QED BY <1>1 DEF Busy, Jobs!Running

LEMMA MainDispatchKept ==
  ASSUME IInv, ~torn, Dispatch("main")
  PROVE  IInv'
  <1> DEFINE i0 == target["main"]
             m0 == item["main"]
  <1>0. TypeOK /\ TypeOK' /\ "main" \in Threads /\ at["main"] \in Dispatching
    BY DispatchType, ThreadsAre DEF IInv
  <1>g. /\ i0 \in Sequenced /\ i0 \in Numbered /\ i0 \in Actions /\ first_g <= i0
        /\ i0 = m0 - 1 /\ m0 \in Nat /\ first_g \in Nat
        /\ at["main"] \in {"lock", "send"} => i0 >= Frontier
    <2>1. /\ i0 \in Sequenced /\ first_g <= i0 /\ i0 = m0 - 1 /\ m0 \in Nat
          /\ at["main"] \in {"lock", "send"} => i0 >= Frontier
      BY <1>0, MainTarget
    <2>2. first_g \in Nat
      BY <1>0 DEF TypeOK
    <2> HIDE DEF i0, m0
    <2>3. i0 \in Numbered /\ i0 \in Actions
      BY <2>1, NumberedAre
    <2> QED BY <2>1, <2>2, <2>3, Zenon
  <1>f. act \in [Actions -> ActionInfo] /\ Numbered \subseteq Actions
        /\ Sequenced \subseteq Numbered /\ Actions \subseteq Nat
    <2>1. act \in [Actions -> ActionInfo]
      BY <1>0, FlagsType, Zenon
    <2>2. Actions \subseteq Nat
      BY Numbers
    <2> QED BY <2>1, <2>2, NumberedAre
  <1>b. UNCHANGED <<shot, noact, calls, first_g, last_g, item, deps, target>>
    BY DEF Dispatch, Lock, SendNothing, Send, Mark, NotSent, mainVars, fixed
  <1>c. Numbered' = Numbered /\ Sequenced' = Sequenced /\ table' = table
    BY <1>b, TableKept
  <1>s. \A place \in Places :
          /\ GoTo("main", place) \in [Threads -> Places]
          /\ GoTo("main", place)["main"] = place
          /\ \A u \in DoneThreads : GoTo("main", place)[u] = at[u]
    BY <1>0, GoToType, ThreadsAre
  <1>p. {"send", "mark", "unsent", "next"} \subseteq Places /\ Return("main") = "next"
    BY DEF Places, Return
  <1>q. /\ at["main"] \in {"lock", "send"} => Frontier = i0
        /\ at["main"] \in {"mark", "unsent"} => Frontier = m0
    BY <1>g, FrontierIs
  <1>r. /\ at'["main"] \in {"lock", "send"} => Frontier' = i0
        /\ at'["main"] \in {"mark", "unsent", "next"} => Frontier' = m0
    BY <1>b, <1>g DEF Frontier
  <1>k. ASSUME at'["main"] \in {"next"} \cup Dispatching,
               \A u \in DoneThreads : at'[u] = at[u] \/ at'[u] = "starting",
               \A k \in DOMAIN completed' :
                 completed'[k] = i0 \/ \E m \in DOMAIN completed : completed[m] = completed'[k]
        PROVE  MainPlaced' /\ ThreadsPlaced' /\ \A i : Pending(i)' => Pending(i) \/ i = i0
    <2>1. /\ MainPlaced' /\ ThreadsPlaced'
          /\ \A i : (\E u \in DoneThreads : at'[u] \in Holding /\ item'[u] = i) => Pending(i)
      BY <1>0, <1>b, <1>k, GroupStep
    <2> HIDE DEF i0
    <2>2. \A i : Pending(i)' => Pending(i) \/ i = i0
      BY <1>k, <2>1 DEF Pending
    <2> QED BY <2>1, <2>2
  <1>l. ASSUME UNCHANGED <<sends, job>>
        PROVE  QuietJobs /\ SendsCount' /\ \A i : Busy(i)' = Busy(i)
    BY <1>b, <1>l, JobsStill DEF Busy, Jobs!Running
  <1>h. ASSUME at["main"] \in {"lock", "send"} PROVE sends[i0] = 0 /\ ~Busy(i0)
    BY <1>h, <1>g, NotYetSent DEF IInv, NumberedPlan
  <1>x. i0' = i0
    BY <1>b
  <1> HIDE DEF i0, m0
  <1>3. CASE Lock("main")
    <2>1. /\ at["main"] = "lock" /\ at' = GoTo("main", "send")
          /\ UNCHANGED <<completed, sends, job, torn>>
          /\ act' = [act EXCEPT ![i0] =
                      [@ EXCEPT !.done = FALSE, !.doing = FALSE, !.dispatched = FALSE]]
      BY <1>3 DEF Lock, i0
    <2>2. at'["main"] = "send" /\ \A u \in DoneThreads : at'[u] = at[u]
      BY <1>p, <1>s, <2>1
    <2>3. /\ MainPlaced' /\ ThreadsPlaced' /\ SendsCount' /\ \A i : Busy(i)' = Busy(i)
      BY <1>k, <1>l, <2>1, <2>2 DEF Dispatching
    <2>4. Frontier' = Frontier
      BY <1>q, <1>r, <2>1, <2>2
    <2>5. NumberedPlan'
      BY <1>b, <1>c, <2>1, <2>4 DEF IInv, NumberedPlan
    <2>6. \A i : Pending(i)' => Pending(i)
      BY <1>b, <2>1, <2>2 DEF Pending
    <2>7. NumberedPending'
      BY <1>b, <1>c, <2>1, <2>3, <2>6 DEF IInv, NumberedPending
    <2>8. NumberedBusy'
      BY <1>b, <1>c, <2>1, <2>2, <2>3, <2>4 DEF IInv, NumberedBusy, GroupPlaces, Dispatching
    <2>9. NumberedFlags'
      <3>1. ~act'[i0].done
        BY <1>f, <1>g, <2>1 DEF ActionInfo
      <3>2. \A i \in Numbered : Busy(i) => i # i0 /\ act'[i] = act[i]
        BY <1>f, <1>h, <2>1
      <3>3. \A i \in Numbered : Busy(i) => ~act[i].done /\ act[i].dispatched
        BY <2>1 DEF IInv, NumberedFlags
      <3>4. target'["main"] = i0
        BY <1>b DEF i0
      <3> QED BY <1>c, <2>2, <2>3, <3>1, <3>2, <3>3, <3>4 DEF NumberedFlags
    <2> QED BY <1>0, <2>3, <2>5, <2>7, <2>8, <2>9 DEF IInv
  <1>4. CASE SendNothing("main")
    <2>1. /\ at["main"] = "send" /\ noact /\ DoActionDone(i0, GoTo("main", "next"))
          /\ UNCHANGED <<sends, job, torn>>
      BY <1>p, <1>4 DEF SendNothing, i0
    <2>2. /\ at'["main"] = "next"
          /\ \A u \in DoneThreads : at'[u] = at[u] \/ at'[u] = "starting"
          /\ \A k \in DOMAIN completed' :
               completed'[k] = i0 \/ \E m \in DOMAIN completed : completed[m] = completed'[k]
      BY <1>0, <1>g, <1>p, <1>s, <2>1, DoneType
    <2>3. /\ MainPlaced' /\ ThreadsPlaced' /\ SendsCount' /\ \A i : Busy(i)' = Busy(i)
      BY <1>k, <1>l, <2>1, <2>2
    <2>4. \A i \in Numbered : sends[i] = 0 /\ ~Busy(i)
      BY <1>f, <2>1, NotYetSent DEF IInv, SendsCount
    <2>5. NumberedPlan' /\ NumberedPending'
      BY <1>b, <1>c, <1>f, <2>1, <2>3, <2>4 DEF NumberedPlan, NumberedPending
    <2>6. NumberedBusy' /\ NumberedFlags'
      BY <1>c, <2>2, <2>3, <2>4 DEF NumberedBusy, NumberedFlags
    <2> QED BY <1>0, <2>3, <2>5, <2>6 DEF IInv
  <1>5. CASE Send("main")
    <2>1. at["main"] = "send" /\ ~noact /\ UNCHANGED <<act, completed, torn>>
      BY <1>5 DEF Send
    <2>2. /\ SendsCount'
          /\ \A i \in Actions : i # i0 => sends'[i] = sends[i] /\ (Busy(i)' => Busy(i))
          /\ sends[i0] = 0 /\ sends'[i0] = 1 /\ ~Busy(i0)
          /\ \/ at' = GoTo("main", "mark")
             \/ /\ job'[<<i0, 1>>] \in {"refused", "lost"} /\ at' = GoTo("main", "unsent")
      BY <1>0, <1>5, <1>g, <1>h, <2>1, SendJobs DEF i0
    <2>3. /\ at'["main"] \in {"mark", "unsent"}
          /\ at'["main"] = "unsent" => job'[<<i0, 1>>] \in {"refused", "lost"}
          /\ \A u \in DoneThreads : at'[u] = at[u]
      BY <1>p, <1>s, <2>2
    <2>4. MainPlaced' /\ ThreadsPlaced' /\ Frontier' = m0
      BY <1>k, <1>r, <2>1, <2>3 DEF Dispatching
    <2>5. NumberedPlan'
      <3>1. \A i \in Numbered : \A m \in 2 .. Len(calls) : table.phase[i] = calls[m] => i # i0
        <4>1. calls \in Seq(Nat) /\ calls # <<>> /\ table.phase[i0] = calls[1]
          BY <1>0, <1>g DEF TypeOK, Sequenced, InPhase, OfPhases
        <4>2. \A m \in 2 .. Len(calls) : calls[m] # calls[1]
          BY <4>1 DEF IInv, MainPlaced
        <4> QED BY <4>1, <4>2
      <3>2. \A i \in Numbered : \A m \in 2 .. Len(calls) :
              table.phase[i] = calls[m] => sends'[i] = 0
        BY <1>f, <2>2, <3>1 DEF IInv, NumberedPlan
      <3>3. ASSUME NEW i \in Sequenced, i >= m0 PROVE sends'[i] = 0
        <4>1. i # i0 /\ i >= Frontier
          BY <1>f, <1>g, <1>q, <2>1, <3>3
        <4> QED BY <1>f, <2>2, <4>1 DEF IInv, NumberedPlan
      <3>4. \A i \in Numbered : sends'[i] <= 1
        BY <1>f, <2>2 DEF IInv, NumberedPlan
      <3> QED BY <1>b, <1>c, <2>4, <3>2, <3>3, <3>4 DEF NumberedPlan
    <2>6. \A i : Pending(i)' => Pending(i)
      BY <1>b, <2>1, <2>3 DEF Pending
    <2>7. NumberedPending'
      <3>1. ~Pending(i0)
        BY <1>g, <2>1, <2>2 DEF IInv, NumberedPending
      <3> QED BY <1>b, <1>c, <1>f, <2>2, <2>6, <3>1 DEF IInv, NumberedPending
    <2>8. NumberedBusy'
      <3>1. ASSUME NEW i \in Numbered, Busy(i)' PROVE first_g <= i /\ i < m0
        <4>1. CASE i = i0
          BY <1>g, <4>1
        <4>2. CASE i # i0
          <5>1. first_g <= i /\ i < i0
            BY <1>f, <1>q, <2>1, <2>2, <3>1, <4>2 DEF IInv, NumberedBusy
          <5> QED BY <1>f, <1>g, <5>1
        <4> QED BY <4>1, <4>2
      <3> QED BY <1>b, <1>c, <2>3, <2>4, <3>1 DEF NumberedBusy, GroupPlaces, Dispatching
    <2>9. NumberedFlags'
      <3>1. ~act[i0].done
        BY <2>1 DEF IInv, NumberedFlags, i0
      <3>2. \A i \in Numbered : i # i0 /\ Busy(i)' => ~act[i].done /\ act[i].dispatched
        BY <1>f, <2>1, <2>2 DEF IInv, NumberedFlags
      <3>3. at'["main"] = "unsent" => ~Busy(i0)'
        <4>1. ASSUME NEW n \in 1 .. MaxSends, n # 1 PROVE job'[<<i0, n>>] = "none"
          <5>1. n > sends'[i0]
            BY <2>2, <4>1
          <5> QED BY <1>g, <2>2, <5>1 DEF SendsCount
        <4>2. ASSUME NEW n \in 1 .. MaxSends, at'["main"] = "unsent"
              PROVE  job'[<<i0, n>>] \notin {"sent", "doing"}
          <5>1. CASE n = 1
            <6>1. job'[<<i0, n>>] = job'[<<i0, 1>>]
              BY <5>1, Zenon
            <6>2. job'[<<i0, 1>>] \in {"refused", "lost"}
              BY <2>3, <4>2
            <6> QED BY <6>1, <6>2
          <5>2. CASE n # 1
            BY <4>1, <5>2
          <5> QED BY <5>1, <5>2
        <4> QED BY <1>x, <4>2 DEF Busy, Jobs!Running
      <3>4. target'["main"] = i0
        BY <1>b DEF i0
      <3>5. \A i \in Numbered : Busy(i)' =>
              /\ ~act'[i].done
              /\ act'[i].dispatched \/ (at'["main"] = "mark" /\ target'["main"] = i)
        <4> SUFFICES ASSUME NEW i \in Numbered, Busy(i)'
                     PROVE  /\ ~act'[i].done
                            /\ act'[i].dispatched \/ (at'["main"] = "mark" /\ target'["main"] = i)
          OBVIOUS
        <4>1. CASE i = i0
          BY <1>x, <2>1, <2>3, <3>1, <3>3, <3>4, <4>1
        <4>2. CASE i # i0
          BY <2>1, <3>2, <4>2
        <4> QED BY <4>1, <4>2
      <3>6. at'["main"] = "unsent" => ~Busy(target["main"])' /\ sends'[target'["main"]] > 0
        <4>1. target["main"] = i0
          BY DEF i0
        <4>2. target["main"]' = i0' /\ Busy(target["main"])' = Busy(i0)'
          BY <1>x, <3>4, <4>1
        <4> QED BY <2>2, <3>3, <3>4, <4>2
      <3> QED BY <1>c, <2>3, <3>5, <3>6 DEF NumberedFlags
    <2> QED BY <1>0, <2>2, <2>4, <2>5, <2>7, <2>8, <2>9 DEF IInv
  <1>6. CASE Mark("main")
    <2>1. /\ at["main"] = "mark" /\ at' = GoTo("main", "next")
          /\ UNCHANGED <<completed, sends, job>>
          /\ \/ act' = [act EXCEPT ![i0].dispatched = TRUE]
             \/ torn' = TRUE
      BY <1>p, <1>6 DEF Mark, i0
    <2>2. at'["main"] = "next" /\ \A u \in DoneThreads : at'[u] = at[u]
      BY <1>p, <1>s, <2>1
    <2>3. /\ MainPlaced' /\ ThreadsPlaced' /\ SendsCount' /\ \A i : Busy(i)' = Busy(i)
      BY <1>k, <1>l, <2>1, <2>2
    <2>4. Frontier' = Frontier
      BY <1>q, <1>r, <2>1, <2>2
    <2>5. NumberedPlan'
      BY <1>b, <1>c, <2>1, <2>4 DEF IInv, NumberedPlan
    <2>6. \A i : Pending(i)' => Pending(i)
      BY <1>b, <2>1, <2>2 DEF Pending
    <2>7. NumberedPending'
      BY <1>b, <1>c, <2>1, <2>3, <2>6 DEF IInv, NumberedPending
    <2>8. NumberedBusy'
      BY <1>b, <1>c, <2>1, <2>2, <2>3, <2>4 DEF IInv, NumberedBusy, GroupPlaces, Dispatching
    <2>9. ~torn' => NumberedFlags'
      <3> SUFFICES ASSUME ~torn' PROVE NumberedFlags'
        OBVIOUS
      <3>0. act' = [act EXCEPT ![i0].dispatched = TRUE]
        BY <2>1
      <3>1. \A i \in Numbered : /\ act'[i].done = act[i].done
                                /\ (act[i].dispatched \/ i = i0) => act'[i].dispatched
        BY <1>f, <1>g, <3>0 DEF ActionInfo
      <3>2. \A i \in Numbered : Busy(i) => ~act[i].done /\ (act[i].dispatched \/ i = i0)
        BY DEF IInv, NumberedFlags, i0
      <3> QED BY <1>c, <2>2, <2>3, <3>1, <3>2 DEF NumberedFlags
    <2> QED BY <1>0, <2>3, <2>5, <2>7, <2>8, <2>9 DEF IInv
  <1>7. CASE NotSent("main")
    <2>1. /\ at["main"] = "unsent" /\ DoActionDone(i0, GoTo("main", "next"))
          /\ UNCHANGED <<sends, job, torn>>
          /\ act' = [act EXCEPT ![i0].status = "PATH_DOWN"]
      BY <1>p, <1>7 DEF NotSent, SetStatus, i0
    <2>2. /\ at'["main"] = "next"
          /\ \A u \in DoneThreads : at'[u] = at[u] \/ at'[u] = "starting"
          /\ \A k \in DOMAIN completed' :
               completed'[k] = i0 \/ \E m \in DOMAIN completed : completed[m] = completed'[k]
      BY <1>0, <1>g, <1>p, <1>s, <2>1, DoneType
    <2>3. /\ MainPlaced' /\ ThreadsPlaced' /\ SendsCount' /\ \A i : Busy(i)' = Busy(i)
      BY <1>k, <1>l, <2>1, <2>2
    <2>x. \A i : Pending(i)' => Pending(i) \/ i = i0
      BY <1>k, <2>2
    <2>4. Frontier' = Frontier
      BY <1>q, <1>r, <2>1, <2>2
    <2>5. NumberedPlan'
      BY <1>b, <1>c, <2>1, <2>4 DEF IInv, NumberedPlan
    <2>6. ~Busy(i0) /\ sends[i0] > 0
      BY <2>1 DEF IInv, NumberedFlags, i0
    <2>7. NumberedPending'
      BY <1>b, <1>c, <2>1, <2>3, <2>6, <2>x DEF IInv, NumberedPending
    <2>8. NumberedBusy'
      BY <1>b, <1>c, <2>1, <2>2, <2>3, <2>4 DEF IInv, NumberedBusy, GroupPlaces, Dispatching
    <2>9. NumberedFlags'
      <3>1. \A i \in Numbered : act'[i].done = act[i].done /\ act'[i].dispatched = act[i].dispatched
        BY <1>f, <2>1 DEF ActionInfo
      <3>2. \A i \in Numbered : Busy(i) => ~act[i].done /\ act[i].dispatched
        BY <2>1 DEF IInv, NumberedFlags
      <3> QED BY <1>c, <2>2, <2>3, <3>1, <3>2 DEF NumberedFlags
    <2> QED BY <1>0, <2>3, <2>5, <2>7, <2>8, <2>9 DEF IInv
  <1> QED BY <1>3, <1>4, <1>5, <1>6, <1>7 DEF Dispatch

-----------------------------------------------------------------------------
(* Main goes on by itself. *)

OthersStill ==
  \A u \in DoneThreads :
    /\ item'[u] = item[u] /\ target'[u] = target[u]
    /\ at'[u] = at[u] \/ at'[u] = "starting"

FlagsStill ==
  \A i \in Numbered : act'[i].done = act[i].done /\ act'[i].dispatched = act[i].dispatched

LEMMA MainMoves ==
  ASSUME IInv, TypeOK', ~torn, UNCHANGED <<shot, noact, sends, job, deps>>,
         at["main"] \notin Dispatching, at'["main"] \notin {"send", "mark", "unsent"},
         OthersStill, FlagsStill,
         \A k \in DOMAIN completed' :
           completed'[k] \notin Numbered \/ \E m \in DOMAIN completed : completed[m] = completed'[k],
         MainPlaced', NumberedPlan', NumberedBusy'
  PROVE  IInv'
  <1>1. /\ Numbered' = Numbered /\ Numbered \subseteq Actions
        /\ SendsCount' /\ \A i \in Numbered : Busy(i)' = Busy(i)
    <2>1. Numbered' = Numbered /\ Numbered \subseteq Actions
      BY DEF Numbered, Conditional, table
    <2> QED BY <2>1 DEF IInv, SendsCount, Busy, Jobs!Running
  <1>2. ThreadsPlaced'
    BY <1>1 DEF IInv, ThreadsPlaced, OthersStill, Holding, Dispatching
  <1>3. \A i \in Numbered : Pending(i)' => Pending(i)
    BY DEF Pending, OthersStill, Holding, Dispatching
  <1>4. NumberedPending'
    BY <1>1, <1>3 DEF IInv, NumberedPending
  <1>5. NumberedFlags'
    <2>1. \A i \in Numbered : Busy(i) => ~act[i].done /\ act[i].dispatched
      BY DEF IInv, NumberedFlags, Dispatching
    <2> QED BY <1>1, <2>1 DEF NumberedFlags, FlagsStill
  <1> QED BY <1>2, <1>1, <1>4, <1>5 DEF IInv

LEMMA PlanMoves ==
  ASSUME IInv, UNCHANGED <<shot, calls, sends>>,
         Frontier \in Int, Frontier' \in Int, Frontier <= Frontier'
  PROVE  NumberedPlan'
  <1>1. Numbered' = Numbered /\ Sequenced' = Sequenced /\ table' = table
        /\ Sequenced \subseteq Numbered /\ Numbered \subseteq Actions /\ Actions \subseteq Nat
    BY TableKept, NumberedAre, Numbers
  <1>2. \A i \in Sequenced : i >= Frontier' => i >= Frontier
    BY <1>1
  <1> QED BY <1>1, <1>2 DEF IInv, NumberedPlan

LEMMA NobodyBusy ==
  ASSUME IInv, ~torn, at["main"] \notin GroupPlaces
  PROVE  \A i \in Numbered : ~Busy(i)
  BY DEF IInv, NumberedBusy

LEMMA GroupsMove ==
  ASSUME IInv, ~torn, BeginGroup \/ DispatchNext \/ GroupDone
  PROVE  IInv'
  <1>0. TypeOK /\ TypeOK' /\ "main" \in Threads
    BY MainType, ThreadsAre DEF IInv, Main
  <1>a. /\ at \in [Threads -> Places] /\ item \in [Threads -> Nat]
        /\ target \in [Threads -> Actions \cup {NoAction}]
        /\ first_g \in Nat /\ last_g \in Nat /\ item["main"] \in Nat
    BY <1>0 DEF TypeOK
  <1>b. UNCHANGED <<shot, noact, calls, sends, job, deps, act, completed>>
    BY DEF BeginGroup, DispatchNext, GroupDone, mainVars, fixed
  <1>c. /\ Numbered' = Numbered /\ Sequenced' = Sequenced /\ Conditionals' = Conditionals
        /\ Numbered \subseteq Actions /\ Actions \subseteq Nat
        /\ \A i : GroupOf(i)' = GroupOf(i)
        /\ \A i : Busy(i)' = Busy(i)
    BY <1>b, TableKept, NumberedAre, Numbers DEF Busy, Jobs!Running
  <1>r. /\ First(Sequenced) \in Nat /\ After(Sequenced) \in Nat
        /\ First(Sequenced) <= After(Sequenced)
        /\ First(Conditionals) \in Nat /\ After(Conditionals) \in Nat
        /\ First(Conditionals) <= After(Conditionals)
    BY <1>0, Ranges
  <1>m. MainPlaced
    BY DEF IInv
  <1>f. FlagsStill
    BY <1>b DEF FlagsStill
  <1>s. \A place \in Places :
          /\ GoTo("main", place)["main"] = place
          /\ \A u \in DoneThreads : GoTo("main", place)[u] = at[u]
    BY <1>0, GoToType, ThreadsAre
  <1>k. ASSUME at["main"] \notin Dispatching, at'["main"] \notin {"send", "mark", "unsent"},
               OthersStill, MainPlaced', NumberedBusy',
               Frontier \in Int, Frontier' \in Int, Frontier <= Frontier'
        PROVE  IInv'
    <2>1. NumberedPlan'
      BY <1>b, <1>k, PlanMoves
    <2> QED BY <1>0, <1>b, <1>f, <1>k, <2>1, MainMoves
  <1>p. {"next", "waitall", "lock", "wait", "group"} \subseteq Places
    BY DEF Places
  <1>1. CASE BeginGroup /\ first_g < After(Sequenced)
    <2>1. /\ at["main"] = "group" /\ last_g' = GroupEnd /\ UNCHANGED <<first_g, target>>
          /\ item' = [item EXCEPT !["main"] = first_g] /\ at' = GoTo("main", "next")
      BY <1>1 DEF BeginGroup
    <2>2. /\ at'["main"] = "next" /\ item'["main"] = first_g
          /\ OthersStill
      BY <1>0, <1>a, <1>p, <1>s, <2>1, ThreadsAre DEF OthersStill
    <2>3. /\ GroupEnd \in Nat /\ first_g < GroupEnd /\ GroupEnd <= After(Sequenced)
          /\ \A i \in first_g .. GroupEnd - 1 : GroupOf(i) = GroupOf(first_g)
      BY <1>0, <1>1, GroupIs
    <2>4. GroupSet'
      BY <1>c, <2>1, <2>3 DEF GroupSet
    <2>5. MainPlaced'
      BY <1>a, <1>b, <1>c, <1>m, <2>1, <2>2, <2>3, <2>4
        DEF MainPlaced, GroupPlaces, Dispatching, EndPlaces
    <2>6. NumberedBusy'
      BY <1>c, <2>1, NobodyBusy DEF NumberedBusy, GroupPlaces, Dispatching
    <2>7. Frontier = first_g /\ Frontier' = first_g
      BY <2>1, <2>2 DEF Frontier
    <2> QED BY <1>a, <1>k, <2>1, <2>2, <2>5, <2>6, <2>7 DEF Dispatching
  <1>2. CASE BeginGroup /\ ~(first_g < After(Sequenced))
    <2>1. /\ at["main"] = "group" /\ UNCHANGED <<first_g, last_g, target>>
          /\ item' = [item EXCEPT !["main"] = First(Conditionals)]
          /\ at' = GoTo("main", "waitall")
      BY <1>2 DEF BeginGroup
    <2>2. /\ at'["main"] = "waitall" /\ item'["main"] = First(Conditionals)
          /\ OthersStill
      BY <1>0, <1>a, <1>p, <1>s, <2>1, ThreadsAre DEF OthersStill
    <2>5. MainPlaced'
      BY <1>a, <1>b, <1>c, <1>m, <1>r, <2>1, <2>2
        DEF MainPlaced, GroupPlaces, Dispatching, EndPlaces
    <2>6. NumberedBusy'
      BY <1>c, <2>1, NobodyBusy DEF NumberedBusy, GroupPlaces, Dispatching
    <2>7. Frontier = first_g /\ Frontier' = After(Sequenced)
      BY <1>c, <2>1, <2>2 DEF Frontier
    <2>8. first_g <= After(Sequenced)
      BY <1>m, <2>1 DEF MainPlaced
    <2> QED BY <1>a, <1>k, <1>r, <2>1, <2>2, <2>5, <2>6, <2>7, <2>8 DEF Dispatching
  <1>3. CASE DispatchNext /\ item["main"] < last_g
    <2>1. /\ at["main"] = "next" /\ UNCHANGED <<first_g, last_g>>
          /\ target' = [target EXCEPT !["main"] = item["main"]]
          /\ item' = [item EXCEPT !["main"] = @ + 1] /\ at' = GoTo("main", "lock")
      BY <1>3 DEF DispatchNext, mainVars
    <2>2. /\ at'["main"] = "lock" /\ item'["main"] = item["main"] + 1
          /\ target'["main"] = item["main"]
          /\ OthersStill
      BY <1>0, <1>a, <1>p, <1>s, <2>1, ThreadsAre DEF OthersStill
    <2>3. GroupSet' /\ first_g <= item["main"]
      BY <1>c, <1>m, <2>1 DEF GroupSet, MainPlaced, GroupPlaces
    <2>5. MainPlaced'
      BY <1>a, <1>b, <1>c, <1>m, <1>3, <2>1, <2>2, <2>3
        DEF MainPlaced, GroupPlaces, Dispatching, EndPlaces
    <2>7. Frontier = item["main"] /\ Frontier' = item["main"]
      BY <1>a, <2>1, <2>2 DEF Frontier
    <2>6. NumberedBusy'
      BY <1>c, <2>1, <2>2, <2>7 DEF IInv, NumberedBusy, GroupPlaces, Dispatching
    <2> QED BY <1>a, <1>k, <2>1, <2>2, <2>5, <2>6, <2>7 DEF Dispatching
  <1>4. CASE DispatchNext /\ ~(item["main"] < last_g)
    <2>1. /\ at["main"] = "next" /\ UNCHANGED <<first_g, last_g, target>>
          /\ item' = [item EXCEPT !["main"] = first_g] /\ at' = GoTo("main", "wait")
      BY <1>4 DEF DispatchNext, mainVars
    <2>2. /\ at'["main"] = "wait" /\ item'["main"] = first_g
          /\ OthersStill
      BY <1>0, <1>a, <1>p, <1>s, <2>1, ThreadsAre DEF OthersStill
    <2>3. GroupSet' /\ first_g <= item["main"] /\ item["main"] <= last_g
      BY <1>c, <1>m, <2>1 DEF GroupSet, MainPlaced, GroupPlaces
    <2>5. MainPlaced'
      BY <1>a, <1>b, <1>c, <1>m, <1>4, <2>1, <2>2, <2>3
        DEF MainPlaced, GroupPlaces, Dispatching, EndPlaces
    <2>7. Frontier = last_g /\ Frontier' = last_g
      BY <1>a, <1>4, <2>1, <2>2, <2>3 DEF Frontier
    <2>6. NumberedBusy'
      BY <1>c, <2>1, <2>2, <2>7 DEF IInv, NumberedBusy, GroupPlaces, Dispatching
    <2> QED BY <1>a, <1>k, <2>1, <2>2, <2>5, <2>6, <2>7 DEF Dispatching
  <1>5. CASE GroupDone
    <2>1. /\ at["main"] = "wait" /\ item["main"] = last_g /\ UNCHANGED <<item, last_g, target>>
          /\ first_g' = last_g /\ at' = GoTo("main", "group")
      BY <1>5 DEF GroupDone
    <2>2. at'["main"] = "group" /\ OthersStill
      BY <1>0, <1>a, <1>p, <1>s, <2>1, ThreadsAre DEF OthersStill
    <2>3. First(Sequenced) <= last_g /\ last_g <= After(Sequenced)
      <3>1. First(Sequenced) <= first_g /\ first_g < last_g /\ last_g <= After(Sequenced)
        BY <1>m, <2>1 DEF GroupSet, MainPlaced, GroupPlaces
      <3> QED BY <1>a, <1>r, <3>1
    <2>5. MainPlaced'
      BY <1>b, <1>c, <1>m, <2>1, <2>2, <2>3
        DEF MainPlaced, GroupPlaces, Dispatching, EndPlaces
    <2>7. Frontier = last_g /\ Frontier' = last_g
      BY <2>1, <2>2 DEF Frontier
    <2>6. NumberedBusy'
      <3>1. \A i \in Numbered : Busy(i) => last_g <= i /\ i < last_g
        BY <2>1, <2>7 DEF IInv, NumberedBusy
      <3>2. \A i \in Numbered : ~Busy(i)
        BY <1>a, <1>c, <3>1
      <3> QED BY <1>c, <3>2 DEF NumberedBusy
    <2> QED BY <1>a, <1>k, <2>1, <2>2, <2>5, <2>6, <2>7 DEF Dispatching
  <1> QED BY <1>1, <1>2, <1>3, <1>4, <1>5

(* The loops over the phase leave the groups alone. *)
LEMMA LoopsMove ==
  ASSUME IInv, ~torn,
         WaitForActions \/ EndDependencies \/ CannotHappen \/ BeginRecord \/ RecordStatus
  PROVE  IInv'
  <1>0. TypeOK /\ TypeOK' /\ "main" \in Threads
    BY MainType, ThreadsAre DEF IInv, Main
  <1>a. /\ at \in [Threads -> Places] /\ item \in [Threads -> Nat]
        /\ first_g \in Nat /\ last_g \in Nat /\ item["main"] \in Nat
        /\ act \in [Actions -> ActionInfo]
    BY <1>0 DEF TypeOK, ActionInfo
  <1>b. UNCHANGED <<shot, noact, calls, sends, job, deps, target, first_g, last_g>>
    BY DEF WaitForActions, Looking, EndDependencies, CannotHappen, BeginRecord,
      RecordStatus, mainVars, fixed
  <1>c. /\ Numbered' = Numbered /\ Sequenced' = Sequenced /\ Conditionals' = Conditionals
        /\ Numbered \subseteq Actions /\ Actions \subseteq Nat
        /\ GroupSet' = GroupSet
        /\ \A i : Busy(i)' = Busy(i)
    <2>1. \A i : GroupOf(i)' = GroupOf(i)
      BY <1>b, TableKept
    <2> QED BY <1>b, <2>1, TableKept, NumberedAre, Numbers DEF Busy, Jobs!Running, GroupSet
  <1>r. /\ First(Sequenced) \in Nat /\ After(Sequenced) \in Nat
        /\ First(Conditionals) \in Nat /\ After(Conditionals) \in Nat
        /\ First(Conditionals) <= After(Conditionals)
        /\ Conditionals = First(Conditionals) .. After(Conditionals) - 1
    BY <1>0, Ranges
  <1>m. MainPlaced
    BY DEF IInv
  <1>s. \A place \in Places :
          /\ GoTo("main", place)["main"] = place
          /\ \A u \in DoneThreads : GoTo("main", place)[u] = at[u]
    BY <1>0, GoToType, ThreadsAre
  <1>i. ASSUME NEW n \in Nat, item' = [item EXCEPT !["main"] = n]
        PROVE  item'["main"] = n /\ \A u \in DoneThreads : item'[u] = item[u]
    BY <1>a, <1>i, ThreadsAre
  <1>k. ASSUME at["main"] \notin Dispatching, at'["main"] \notin {"send", "mark", "unsent"},
               OthersStill, FlagsStill, MainPlaced', NumberedBusy',
               \A k \in DOMAIN completed' :
                 completed'[k] \notin Numbered \/ \E m \in DOMAIN completed : completed[m] = completed'[k],
               Frontier \in Int, Frontier' = Frontier
        PROVE  IInv'
    <2>1. NumberedPlan'
      BY <1>b, <1>k, PlanMoves
    <2> QED BY <1>0, <1>b, <1>k, <2>1, MainMoves
  (* The groups are behind main. *)
  <1>e. ASSUME at["main"] \in EndPlaces \cup {"record"},
               at'["main"] \in EndPlaces \cup {"record", "returned"},
               at'["main"] \in EndPlaces =>
                 First(Conditionals) <= item'["main"] /\ item'["main"] <= After(Conditionals),
               OthersStill, FlagsStill,
               \A k \in DOMAIN completed' :
                 completed'[k] \notin Numbered \/ \E m \in DOMAIN completed : completed[m] = completed'[k]
        PROVE  IInv'
    <2>1. MainPlaced'
      BY <1>b, <1>c, <1>m, <1>e DEF MainPlaced, GroupPlaces, Dispatching, EndPlaces
    <2>2. NumberedBusy'
      BY <1>c, <1>e, NobodyBusy DEF NumberedBusy, GroupPlaces, Dispatching, EndPlaces
    <2>3. Frontier = After(Sequenced) /\ Frontier' = After(Sequenced)
      BY <1>c, <1>e DEF Frontier, EndPlaces
    <2> QED BY <1>e, <1>k, <1>r, <2>1, <2>2, <2>3 DEF Dispatching, EndPlaces
  <1>p. {"cannot", "waitlast", "record", "returned"} \subseteq Places
    BY DEF Places
  <1>1. CASE Looking("wait", first_g, last_g)
    <2>1. /\ at["main"] = "wait" /\ item["main"] < last_g /\ UNCHANGED <<at, act, completed>>
          /\ \/ item' = [item EXCEPT !["main"] = first_g]
             \/ /\ item' = [item EXCEPT !["main"] = item["main"] + 1]
                /\ ~Outstanding(item["main"])
      BY <1>1 DEF Looking
    <2>2. /\ \/ item'["main"] = first_g
             \/ item'["main"] = item["main"] + 1 /\ ~Outstanding(item["main"])
          /\ \A u \in DoneThreads : item'[u] = item[u]
      BY <1>a, <1>i, <2>1
    <2>3. OthersStill /\ FlagsStill
      BY <1>b, <2>1, <2>2 DEF OthersStill, FlagsStill
    <2>4. /\ GroupSet /\ first_g <= item["main"] /\ first_g < last_g
          /\ First(Sequenced) <= first_g /\ first_g <= After(Sequenced)
      BY <1>m, <2>1 DEF MainPlaced, GroupPlaces, GroupSet
    <2>5. MainPlaced'
      BY <1>a, <1>b, <1>c, <1>m, <2>1, <2>2, <2>4
        DEF MainPlaced, GroupPlaces, Dispatching, EndPlaces
    <2>6. Frontier = last_g /\ Frontier' = last_g
      BY <1>b, <2>1 DEF Frontier
    <2>7. NumberedBusy'
      <3>1. ASSUME NEW i \in Numbered, Busy(i) PROVE item'["main"] <= i
        <4>1. first_g <= i /\ item["main"] <= i /\ i \in Nat
          BY <1>c, <2>1, <3>1 DEF IInv, NumberedBusy
        <4>2. Outstanding(i)
          BY <2>1, <3>1 DEF IInv, NumberedFlags, Outstanding
        <4>3. ~Outstanding(item["main"]) => i # item["main"]
          BY <4>2
        <4> QED BY <1>a, <2>2, <4>1, <4>3
      <3> QED BY <1>b, <1>c, <2>1, <2>6, <3>1 DEF IInv, NumberedBusy
    <2> QED BY <1>a, <1>k, <2>1, <2>3, <2>5, <2>6, <2>7 DEF Dispatching
  <1>2. ASSUME NEW place \in {"waitall", "waitlast"},
               Looking(place, First(Conditionals), After(Conditionals))
        PROVE  IInv'
    <2>1. /\ at["main"] = place /\ item["main"] < After(Conditionals)
          /\ UNCHANGED <<at, act, completed>>
          /\ \/ item' = [item EXCEPT !["main"] = First(Conditionals)]
             \/ item' = [item EXCEPT !["main"] = item["main"] + 1]
      BY <1>2 DEF Looking
    <2>2. /\ \/ item'["main"] = First(Conditionals)
             \/ item'["main"] = item["main"] + 1
          /\ \A u \in DoneThreads : item'[u] = item[u]
      BY <1>a, <1>i, <1>r, <2>1
    <2>3. OthersStill /\ FlagsStill
      BY <1>b, <2>1, <2>2 DEF OthersStill, FlagsStill
    <2>4. First(Conditionals) <= item["main"]
      BY <1>m, <1>2, <2>1 DEF MainPlaced, EndPlaces
    <2>5. First(Conditionals) <= item'["main"] /\ item'["main"] <= After(Conditionals)
      BY <1>a, <1>r, <2>1, <2>2, <2>4
    <2> QED BY <1>2, <1>e, <2>1, <2>3, <2>5 DEF EndPlaces
  <1>3. CASE EndDependencies
    <2>1. /\ at["main"] = "waitall" /\ at' = GoTo("main", "cannot") /\ UNCHANGED <<act, completed>>
          /\ item' = [item EXCEPT !["main"] = First(Conditionals)]
      BY <1>3 DEF EndDependencies
    <2>2. /\ at'["main"] = "cannot" /\ item'["main"] = First(Conditionals)
          /\ OthersStill /\ FlagsStill
      BY <1>b, <1>i, <1>p, <1>r, <1>s, <2>1 DEF OthersStill, FlagsStill
    <2> QED BY <1>e, <1>r, <2>1, <2>2 DEF EndPlaces
  <1>4. CASE CannotHappen /\ item["main"] < After(Conditionals)
    <2> DEFINE c == item["main"]
    <2>1. /\ at["main"] = "cannot" /\ item' = [item EXCEPT !["main"] = item["main"] + 1]
          /\ \/ UNCHANGED <<act, at, completed>>
             \/ act' = [act EXCEPT ![c].status = "CANT_HAPPEN"] /\ DoActionDone(c, at)
      BY <1>4 DEF CannotHappen, NotDone, SetStatus
    <2>2. /\ First(Conditionals) <= c /\ c \in Nat
      BY <1>a, <1>m, <2>1 DEF MainPlaced, EndPlaces
    <2> HIDE DEF c
    <2>3. c \in First(Conditionals) .. After(Conditionals) - 1
      BY <1>4, <1>r, <2>2 DEF c
    <2>4. c \in Conditionals
      BY <1>r, <2>3, Zenon
    <2>5. c \in Actions /\ c \notin Numbered
      BY <2>4 DEF Conditionals, InPhase, OfPhases, Numbered
    <2>6. /\ at'["main"] = at["main"]
          /\ \A u \in DoneThreads : at'[u] = at[u] \/ at'[u] = "starting"
          /\ \A k \in DOMAIN completed' :
               completed'[k] = c \/ \E m \in DOMAIN completed : completed[m] = completed'[k]
      <3>1. CASE UNCHANGED <<at, completed>>
        BY <3>1
      <3>2. CASE DoActionDone(c, at)
        BY <1>0, <1>a, <2>5, <3>2, DoneType
      <3> QED BY <2>1, <3>1, <3>2
    <2>7. FlagsStill
      <3>1. \A i \in Numbered : act'[i] = act[i]
        BY <1>a, <1>c, <2>1, <2>5
      <3> QED BY <3>1 DEF FlagsStill
    <2>8. item'["main"] = c + 1 /\ OthersStill
      <3>1. item'["main"] = item["main"] + 1 /\ \A u \in DoneThreads : item'[u] = item[u]
        <4>1. item' = [item EXCEPT !["main"] = item["main"] + 1] /\ item["main"] + 1 \in Nat
          BY <1>a, <2>1
        <4> QED BY <1>i, <4>1
      <3> QED BY <1>b, <2>6, <3>1 DEF OthersStill, c
    <2>9. First(Conditionals) <= item'["main"] /\ item'["main"] <= After(Conditionals)
      BY <1>r, <2>3, <2>8
    <2> QED BY <1>e, <2>1, <2>5, <2>6, <2>7, <2>8, <2>9 DEF EndPlaces
  <1>5. CASE CannotHappen /\ ~(item["main"] < After(Conditionals))
    <2>1. /\ at["main"] = "cannot" /\ item' = [item EXCEPT !["main"] = First(Conditionals)]
          /\ at' = GoTo("main", "waitlast") /\ UNCHANGED <<act, completed>>
      BY <1>5 DEF CannotHappen, NotDone
    <2>2. /\ at'["main"] = "waitlast" /\ item'["main"] = First(Conditionals)
          /\ OthersStill /\ FlagsStill
      BY <1>b, <1>i, <1>p, <1>r, <1>s, <2>1 DEF OthersStill, FlagsStill
    <2> QED BY <1>e, <1>r, <2>1, <2>2 DEF EndPlaces
  <1>6. CASE BeginRecord
    <2>1. /\ at["main"] = "waitlast" /\ UNCHANGED <<act, completed>>
          /\ item' = [item EXCEPT !["main"] = First(InPhase)]
          /\ at' = GoTo("main", IF noact THEN "returned" ELSE "record")
      BY <1>6 DEF BeginRecord
    <2>2. First(InPhase) \in Nat
      BY <1>0, Ranges
    <2>3. /\ at'["main"] \in {"returned", "record"}
          /\ OthersStill /\ FlagsStill
      BY <1>b, <1>i, <1>p, <1>s, <2>1, <2>2 DEF OthersStill, FlagsStill
    <2> QED BY <1>e, <2>1, <2>3 DEF EndPlaces
  <1>7. CASE RecordStatus
    <2>1. /\ at["main"] = "record" /\ UNCHANGED completed
          /\ act' = act \/ act' = [act EXCEPT ![item["main"]].recorded = TRUE]
          /\ at' = at \/ at' = GoTo("main", "returned")
          /\ item' = item \/ item' = [item EXCEPT !["main"] = item["main"] + 1]
      BY <1>7 DEF RecordStatus
    <2>2. FlagsStill
      <3>1. CASE act' = act
        BY <3>1 DEF FlagsStill
      <3>2. CASE act' = [act EXCEPT ![item["main"]].recorded = TRUE]
        <4> DEFINE c == item["main"]
        <4> HIDE DEF c
        <4>1. act' = [act EXCEPT ![c].recorded = TRUE]
          BY <3>2 DEF c
        <4> QED BY <1>a, <1>c, <4>1 DEF FlagsStill, ActionInfo
      <3> QED BY <2>1, <3>1, <3>2
    <2>3. at'["main"] \in {"returned", "record"}
          /\ \A u \in DoneThreads : at'[u] = at[u]
      BY <1>p, <1>s, <2>1
    <2>4. \A u \in DoneThreads : item'[u] = item[u]
      BY <1>a, <1>i, <2>1
    <2>5. OthersStill
      BY <1>b, <2>3, <2>4 DEF OthersStill
    <2> QED BY <1>e, <2>1, <2>2, <2>3, <2>5 DEF EndPlaces
  <1> QED BY <1>1, <1>2, <1>3, <1>4, <1>5, <1>6, <1>7 DEF WaitForActions

LEMMA SecondIs ==
  ASSUME NEW s \in Seq(Nat), s # <<>>, Tail(s) # <<>>
  PROVE  2 \in 2 .. Len(s) /\ Head(Tail(s)) = s[2]
  <1> DEFINE u == Tail(s)
  <1>1. u \in Seq(Nat) /\ Len(s) \in Nat /\ Len(u) = Len(s) - 1
    OBVIOUS
  <1>2. \A m \in 1 .. Len(u) : u[m] = s[m + 1]
    OBVIOUS
  <1>3. u # <<>>
    OBVIOUS
  <1> HIDE DEF u
  <1>4. Len(u) \in Nat /\ Len(u) > 0 /\ Head(u) = u[1]
    BY <1>1, <1>3
  <1>5. u[1] = s[1 + 1]
    BY <1>2, <1>4
  <1>6. Head(u) = s[2]
    BY <1>4, <1>5
  <1>7. 2 \in 2 .. Len(s)
    BY <1>1, <1>4
  <1> QED BY <1>6, <1>7 DEF u

LEMMA RangesTyped ==
  TypeOK => /\ First(Sequenced) \in Nat /\ First(Sequenced) <= After(Sequenced)
            /\ After(Sequenced) \in Nat
  BY Ranges

(* The next phase: none of its actions has been sent. *)
LEMMA PhaseMoves ==
  ASSUME IInv, ~torn, NextPhase
  PROVE  IInv'
  <1>0. TypeOK /\ TypeOK' /\ "main" \in Threads
    BY MainType, ThreadsAre DEF IInv, Main
  <1>1. /\ at["main"] = "returned" /\ calls # <<>> /\ calls' = Tail(calls) /\ calls \in Seq(Nat)
        /\ UNCHANGED <<shot, noact, sends, job, deps, target, item, last_g, act, completed>>
    BY <1>0 DEF NextPhase, TypeOK, fixed
  <1>2. /\ Tail(calls) = <<>> => UNCHANGED <<at, first_g>>
        /\ Tail(calls) # <<>> =>
             /\ first_g' = First({i \in OfPhases(Tail(calls)) : ~Conditional(i)})
             /\ at' = GoTo("main", "group")
    BY DEF NextPhase
  <1>3. /\ OfPhases(Tail(calls)) = InPhase'
        /\ Sequenced' = {i \in InPhase' : ~Conditional(i)}
        /\ Sequenced' = {i \in OfPhases(Tail(calls)) : ~Conditional(i)}
    BY <1>1 DEF OfPhases, InPhase, Sequenced, Conditionals, Conditional, table
  <1>4. /\ Numbered' = Numbered /\ table' = table
        /\ Numbered \subseteq Actions
        /\ \A i : Busy(i)' = Busy(i)
    BY <1>1 DEF Numbered, Conditional, table, Busy, Jobs!Running
  <1>5. \A i \in Numbered : ~Busy(i)
    BY <1>1, NobodyBusy DEF GroupPlaces, Dispatching
  <1>6. NumberedBusy'
    BY <1>4, <1>5 DEF NumberedBusy
  <1>7. /\ at'["main"] \in {"returned", "group"}
        /\ OthersStill /\ FlagsStill
        /\ Tail(calls) # <<>> => at'["main"] = "group"
    <2>1. "group" \in Places
      BY DEF Places
    <2>2. GoTo("main", "group")["main"] = "group"
          /\ \A u \in DoneThreads : GoTo("main", "group")[u] = at[u]
      BY <1>0, <2>1, GoToType, ThreadsAre
    <2> QED BY <1>1, <1>2, <2>2 DEF OthersStill, FlagsStill
  <1>8. /\ First(Sequenced)' \in Nat /\ First(Sequenced)' <= After(Sequenced)'
        /\ After(Sequenced)' \in Nat
    <2>1. (/\ First(Sequenced) \in Nat /\ First(Sequenced) <= After(Sequenced)
           /\ After(Sequenced) \in Nat)'
      BY <1>0, RangesTyped, PTL
    <2> QED BY <2>1
  <1>9. Len(calls) \in Nat /\ Len(calls) > 0 /\ Len(Tail(calls)) = Len(calls) - 1
        /\ \A m \in 1 .. Len(Tail(calls)) : Tail(calls)[m] = calls[m + 1]
    BY <1>1
  <1>m. MainPlaced'
    <2>1. \A k, m \in DOMAIN calls' : calls'[k] = calls'[m] => k = m
      <3>1. ASSUME NEW k \in 1 .. Len(Tail(calls)), NEW m \in 1 .. Len(Tail(calls)),
                   Tail(calls)[k] = Tail(calls)[m]
            PROVE  k = m
        <4>1. k + 1 \in DOMAIN calls /\ m + 1 \in DOMAIN calls /\ calls[k + 1] = calls[m + 1]
          BY <1>1, <1>9, <3>1
        <4>2. k + 1 = m + 1
          BY <4>1 DEF IInv, MainPlaced
        <4> QED BY <4>2
      <3>2. DOMAIN Tail(calls) = 1 .. Len(Tail(calls))
        BY <1>1
      <3> QED BY <1>1, <3>1, <3>2
    <2>2. Tail(calls) # <<>> => first_g' = First(Sequenced)'
      BY <1>2, <1>3 DEF First
    <2>3. at'["main"] = "group" => Tail(calls) # <<>>
      BY <1>1, <1>2
    <2> QED BY <1>7, <1>8, <2>1, <2>2, <2>3 DEF MainPlaced, GroupPlaces, Dispatching, EndPlaces
  <1>n. NumberedPlan'
    <2>1. ASSUME NEW i \in Numbered, NEW m \in 2 .. Len(Tail(calls)),
                 table.phase[i] = Tail(calls)[m]
          PROVE  sends[i] = 0
      <3>1. m + 1 \in 2 .. Len(calls) /\ table.phase[i] = calls[m + 1]
        BY <1>9, <2>1
      <3> QED BY <3>1 DEF IInv, NumberedPlan
    <2>2. ASSUME NEW i \in Sequenced' PROVE sends[i] = 0
      <3>1. i \in Numbered /\ Tail(calls) # <<>> /\ table.phase[i] = Head(Tail(calls))
        BY <1>3, <2>2 DEF OfPhases, Numbered
      <3>2. 2 \in 2 .. Len(calls) /\ Head(Tail(calls)) = calls[2]
        BY <1>1, <3>1, SecondIs
      <3> QED BY <3>1, <3>2 DEF IInv, NumberedPlan
    <2>3. \A i \in Numbered : sends[i] <= 1
      BY DEF IInv, NumberedPlan
    <2> QED BY <1>1, <1>4, <2>1, <2>2, <2>3 DEF NumberedPlan
  <1> QED BY <1>0, <1>1, <1>6, <1>7, <1>m, <1>n, MainMoves DEF Dispatching

-----------------------------------------------------------------------------

LEMMA StepKeeps == IInv /\ [Next]_vars => IInv'
  <1> SUFFICES ASSUME IInv, [Next]_vars PROVE IInv'
    OBVIOUS
  <1>1. CASE UNCHANGED vars
    <2>1. /\ Numbered' = Numbered /\ Sequenced' = Sequenced /\ Frontier' = Frontier
          /\ table' = table /\ Conditionals' = Conditionals
          /\ \A i : Busy(i)' = Busy(i) /\ Pending(i)' = Pending(i)
      <3>1. UNCHANGED <<shot, calls, at, item, first_g, last_g, job, completed>>
        BY <1>1 DEF vars
      <3>2. Sequenced' = Sequenced
        BY <3>1, TableKept
      <3> QED BY <3>1, <3>2, TableKept DEF Frontier, Busy, Jobs!Running, Pending
    <2>2. TypeOK' = TypeOK
      BY <1>1 DEF vars, TypeOK, Jobs!TypeOK
    <2>3. MainPlaced' /\ ThreadsPlaced' /\ SendsCount'
      <3>1. MainStays
        BY <1>1 DEF vars, MainStays
      <3> QED BY <1>1, <2>1, <3>1, MainKept DEF vars, IInv, ThreadsPlaced, SendsCount
    <2>4. NumberedPlan' /\ NumberedPending'
      BY <1>1, <2>1 DEF vars, IInv, NumberedPlan, NumberedPending
    <2>5. ~torn' => NumberedFlags' /\ NumberedBusy'
      BY <1>1, <2>1 DEF vars, IInv, NumberedFlags, NumberedBusy
    <2> QED BY <2>2, <2>3, <2>4, <2>5 DEF IInv
  <1>2. CASE ~torn /\ Main
    <2>1. \/ BeginGroup \/ DispatchNext \/ GroupDone
          \/ WaitForActions \/ EndDependencies \/ CannotHappen \/ BeginRecord \/ RecordStatus
          \/ NextPhase
      BY <1>2 DEF Main
    <2> QED BY <1>2, <2>1, GroupsMove, LoopsMove, PhaseMoves
  <1>3. ASSUME ~torn, NEW t \in Threads, Dispatch(t) PROVE IInv'
    <2>1. CASE t = "main"
      BY <1>3, <2>1, MainDispatchKept
    <2>2. CASE t # "main"
      <3>1. t \in DoneThreads
        BY <2>2, ThreadsAre
      <3> QED BY <1>3, <3>1, OthersDispatchKept
    <2> QED BY <2>1, <2>2
  <1>4. ASSUME ~torn, NEW t \in DoneThreads, ProcessActionDone(t) PROVE IInv'
    BY <1>4, ThreadKept
  <1>5. ASSUME ~torn, NEW j \in Job, Before(j) \/ Completion(j) PROVE IInv'
    BY <1>5, JobKept
  <1> QED BY <1>1, <1>2, <1>3, <1>4, <1>5 DEF Next, Rest

LEMMA Invariance == Spec => []IInv
  <1> QED BY InitIInv, StepKeeps, PTL DEF Spec

(* Every variable has its type: in particular, what is dispatched and what  *)
(* is completed are actions of the table.                                   *)
THEOREM TypeCorrect == Spec => []TypeOK
  <1>1. IInv => TypeOK
    BY DEF IInv
  <1> QED BY <1>1, Invariance, PTL

(* ServerDispatchPhase() starts no group before the one before it has       *)
(* ended: no two actions of different groups run at a time, in whatever     *)
(* order the threads of completed actions and the receiver run.             *)
THEOREM GroupsKept == Spec => []GroupsInOrder
  <1> QED BY Inclusion, Invariance, PTL

-----------------------------------------------------------------------------
(* What holds of every action when the premises of the properties do: one   *)
(* thread processes what is completed, no job is left behind, and main      *)
(* waits for what can trigger another action.                               *)

Orderly == Regular /\ ~noact

Refs(c) == table.when[c].refs

Refused(i) == \E n \in 1 .. MaxSends : job[<<i, n>>] = "refused"

(* What action r came to is what the condition of c asks for. *)
Fits(r, c) == table.when[c].on = IF Odd(act[r].status) THEN "all" ELSE "none"

Queued(i)  == \E k \in DOMAIN completed : completed[k] = i
Held(i)    == \E t \in DoneThreads : at[t] \in Holding /\ item[t] = i
Waiting(i) == Queued(i) \/ \E t \in DoneThreads : at[t] = "taken" /\ item[t] = i
Single(i)  == \A k, m \in DOMAIN completed : completed[k] = i /\ completed[m] = i => k = m

OutOfCalls(i) == \A k \in DOMAIN calls : calls[k] # table.phase[i]
Targeted(c) == \E t \in Threads : at[t] \in {"lock", "send"} /\ target[t] = c
Marked(i) == act[i].dispatched \/ \E t \in Threads : at[t] = "mark" /\ target[t] = i

(* An action is dead when it has not been sent and will never be: it is of  *)
(* no phase to come, or it has a condition that asks for what is not so, or *)
(* for an action that is itself dead.                                       *)
Hopeless(c, D) ==
  \/ Refs(c) = {} \/ table.when[c].on = "error"
  \/ \E r \in Refs(c) : (Ran(r) /\ ~Fits(r, c)) \/ Refused(r) \/ r \in D
DeadSet(D) ==
  \A c \in D : /\ sends[c] = 0 /\ ~Targeted(c)
               /\ Conditional(c) => Hopeless(c, D)
               /\ ~Conditional(c) => OutOfCalls(c)
Dead(i) == \E D \in SUBSET Actions : DeadSet(D) /\ i \in D

(* Nothing more comes of it. *)
Over(i) == Ran(i) \/ Refused(i) \/ (Conditional(i) /\ Dead(i))

(* Every action is sent at most once, ... *)
Once == \A i \in Actions :
  sends[i] <= 1 /\ (sends[i] = 1 => job[<<i, 1>>] \in {"sent", "doing", "done", "refused"})

(* ... and while it runs, nothing says that it is done; when it has ended,  *)
(* it is once on its way to being done, or it is done.  Its variable has a  *)
(* value only when a thread has begun to process it.                        *)
ActionTrue(i) ==
  /\ Busy(i) => ~Pending(i) /\ ~act[i].done /\ Marked(i)
  /\ Ran(i) => /\ act[i].status \in {"ok", "error"} /\ Single(i) /\ ~(Queued(i) /\ Held(i))
               /\ Pending(i) => ~act[i].done /\ Marked(i)
               /\ ~Pending(i) => act[i].done
               /\ Waiting(i) => value[i] = "none"
               /\ ~Waiting(i) => value[i] = act[i].status
  /\ Pending(i) => Over(i)
  /\ act[i].done => sends[i] > 0 \/ (Conditional(i) /\ Dead(i))
  /\ act[i].status = "ok" => Ran(i)
  /\ act[i].status = "CANT_HAPPEN" => ~Ran(i) /\ Over(i)
  /\ value[i] # "none" /\ ~Ran(i) => value[i] # "ok" /\ Over(i)

ActionsTrue == \A i \in Actions : ActionTrue(i)

(* Nothing of a phase to come has been sent, and all of the sequence up to  *)
(* where main is.                                                           *)
Plan ==
  /\ \A i \in Actions : \A m \in 2 .. Len(calls) : table.phase[i] = calls[m] => sends[i] = 0
  /\ \A i \in Sequenced : i < Frontier => sends[i] > 0

(* The actions that c waits for have been processed as far as c goes. *)
Considered(c) == \A r \in Refs(c) :
  /\ ~Waiting(r)
  /\ \A t \in DoneThreads :
       at[t] \in {"refs"} \cup Dispatching /\ item[t] = r => c \notin deps[t]

(* A thread of completed actions dispatches what its action triggers. *)
Triggers ==
  \A t \in DoneThreads :
    /\ at[t] \in {"refs"} \cup Dispatching => deps[t] \subseteq ReferencedBy(item[t])
    /\ at[t] \in Dispatching => /\ item[t] \in Refs(target[t])
                                /\ Fulfilled(target[t]) /\ Considered(target[t])

(* How far a thread is with what it dispatches. *)
Sendings ==
  \A t \in Threads :
    /\ at[t] \in {"lock", "send"} => sends[target[t]] = 0
    /\ at[t] = "mark" => sends[target[t]] = 1 /\ ~Refused(target[t])
    /\ at[t] = "unsent" => Refused(target[t])

(* What has been sent was triggered, and what is triggered is sent. *)
Triggered ==
  \A c \in Actions : Conditional(c) /\ sends[c] > 0 => Fulfilled(c) /\ Considered(c)
NotLost ==
  \A c \in Actions : Conditional(c) /\ Fulfilled(c) =>
    sends[c] > 0 \/ Targeted(c) \/ ~Considered(c)

(* What main has waited for is settled. *)
Late == at["main"] \in {"cannot", "waitlast", "record", "returned"}
Passed(i) ==
  \/ OutOfCalls(i)
  \/ /\ i \in InPhase
     /\ \/ Late
        \/ at["main"] = "waitall" /\ (Conditional(i) => i < item["main"])
        \/ /\ at["main"] \in {"group"} \cup GroupPlaces /\ ~Conditional(i)
           /\ i < first_g \/ (at["main"] = "wait" /\ i < item["main"])
Settled(i) == ~Busy(i) /\ (Ran(i) => ~Pending(i)) /\ (sends[i] = 0 => Dead(i))
AllSettled == \A i \in Actions : Passed(i) => Settled(i)

(* What main has recorded. *)
Reached(i) ==
  i \in InPhase /\ (at["main"] = "returned" \/ (at["main"] = "record" /\ i < item["main"]))
Recorded ==
  /\ abort => Late
  /\ at["main"] = "record" => First(InPhase) <= item["main"]
  /\ \A i \in Actions :
       /\ act[i].recorded => OutOfCalls(i) \/ Reached(i)
       /\ Reached(i) /\ Ran(i) =>
            tree[i] = act[i].status /\ (tree[i] = "error" /\ i \in Essential => failed)

OrderInv == /\ Once /\ ActionsTrue /\ Plan /\ Triggers /\ Sendings /\ Triggered /\ NotLost
            /\ AllSettled /\ Recorded

CInv == IInv /\ (Orderly => OrderInv)

(* The premises, once they fail, have failed for good. *)
LEMMA RefsAre ==
  ASSUME TypeOK, NEW c \in Actions
  PROVE  /\ Refs(c) \subseteq Actions
         /\ Conditional(c) => table.when[c].on \in {"all", "none", "error"}
         /\ ~Conditional(c) => Refs(c) = {}
         /\ \A i : i \in Refs(c) <=> c \in ReferencedBy(i)
  <1>1. table.when[c] \in {NoWhen} \cup [refs : SUBSET Actions, on : {"all", "none", "error"}]
    BY TableType DEF Table
  <1>2. \A i : i \in Refs(c) <=> c \in ReferencedBy(i)
    BY DEF Refs, ReferencedBy
  <1>3. CASE table.when[c] = NoWhen
    BY <1>2, <1>3 DEF Refs, Conditional, NoWhen
  <1>4. CASE table.when[c] \in [refs : SUBSET Actions, on : {"all", "none", "error"}]
    <2>1. table.when[c].refs \in SUBSET Actions /\ table.when[c].on \in {"all", "none", "error"}
      BY <1>4
    <2>2. Conditional(c)
      BY <2>1 DEF Conditional, NoWhen
    <2> QED BY <1>2, <2>1, <2>2 DEF Refs
  <1> QED BY <1>1, <1>3, <1>4

LEMMA FulfilledIs ==
  ASSUME NEW c
  PROVE  Fulfilled(c) <=> Refs(c) # {} /\ \A r \in Refs(c) : Ran(r) /\ Fits(r, c)
  BY DEF Fulfilled, Refs, Fits

LEMMA JobIs ==
  ASSUME IInv
  PROVE  /\ MaxSends \in Nat /\ job \in [Job -> Jobs!JobStates]
         /\ sends \in [Actions -> 0 .. MaxSends]
         /\ \A i \in Actions, n \in 1 .. MaxSends : <<i, n>> \in Job
         /\ \A i \in Actions, n \in 1 .. MaxSends : n > sends[i] => job[<<i, n>>] = "none"
  BY SizesAssumption DEF IInv, TypeOK, Jobs!TypeOK, SendsCount, Job

(* What has been sent runs, or has run, or was refused. *)
LEMMA Stages ==
  ASSUME IInv, Once, NEW i \in Actions
  PROVE  /\ sends[i] \in {0, 1}
         /\ sends[i] = 0 => ~Busy(i) /\ ~Ran(i) /\ ~Refused(i)
         /\ sends[i] = 1 => /\ Busy(i) <=> job[<<i, 1>>] \in {"sent", "doing"}
                            /\ Ran(i) <=> job[<<i, 1>>] = "done"
                            /\ Refused(i) <=> job[<<i, 1>>] = "refused"
                            /\ Busy(i) \/ Ran(i) \/ Refused(i)
         /\ ~(Busy(i) /\ Ran(i)) /\ ~(Busy(i) /\ Refused(i)) /\ ~(Ran(i) /\ Refused(i))
  <1>1. sends[i] \in {0, 1} /\ sends[i] <= MaxSends
    <2>1. sends[i] \in 0 .. MaxSends /\ MaxSends \in Nat
      BY JobIs
    <2>2. sends[i] <= 1
      BY DEF Once
    <2> QED BY <2>1, <2>2
  <1>2. \A n \in 1 .. MaxSends : n # 1 \/ sends[i] = 0 => job[<<i, n>>] = "none"
    BY <1>1, JobIs
  <1>3. sends[i] = 0 => ~Busy(i) /\ ~Ran(i) /\ ~Refused(i)
    BY <1>2 DEF Busy, Ran, Refused, Jobs!Running
  <1>4. ASSUME sends[i] = 1
        PROVE  /\ Busy(i) <=> job[<<i, 1>>] \in {"sent", "doing"}
               /\ Ran(i) <=> job[<<i, 1>>] = "done"
               /\ Refused(i) <=> job[<<i, 1>>] = "refused"
    <2>1. 1 \in 1 .. MaxSends
      BY <1>1, <1>4, JobIs
    <2>2. \A n \in 1 .. MaxSends : job[<<i, n>>] # "none" => n = 1
      BY <1>2
    <2> QED BY <2>1, <2>2 DEF Busy, Ran, Refused, Jobs!Running
  <1>5. sends[i] = 1 => job[<<i, 1>>] \in {"sent", "doing", "done", "refused"}
    BY DEF Once
  <1> QED BY <1>1, <1>3, <1>4, <1>5

LEMMA FulfilledNotDead ==
  ASSUME IInv, Once, NEW c \in Actions, Conditional(c), Fulfilled(c)
  PROVE  ~Dead(c)
  <1> SUFFICES ASSUME NEW D \in SUBSET Actions, DeadSet(D), c \in D PROVE FALSE
    BY DEF Dead
  <1>1. Hopeless(c, D)
    BY DEF DeadSet
  <1>2. Refs(c) # {} /\ \A r \in Refs(c) : Ran(r) /\ Fits(r, c)
    BY FulfilledIs
  <1>3. Refs(c) \subseteq Actions
    BY RefsAre DEF IInv
  <1>4. table.when[c].on # "error"
    BY <1>2 DEF Fits
  <1>5. \A r \in Refs(c) : ~Refused(r) /\ r \notin D
    BY <1>2, <1>3, Stages DEF DeadSet
  <1> QED BY <1>1, <1>2, <1>4, <1>5 DEF Hopeless

LEMMA DeadIs ==
  ASSUME NEW c \in Actions, Dead(c)
  PROVE  sends[c] = 0 /\ ~Targeted(c) /\ (~Conditional(c) => OutOfCalls(c))
  BY DEF Dead, DeadSet

(* The dead stay dead. *)
Grows ==
  \A i \in Actions : /\ Ran(i) => Ran(i)' /\ act'[i].status = act[i].status
                     /\ Refused(i) => Refused(i)'
                     /\ OutOfCalls(i) => OutOfCalls(i)'

LEMMA DeadGrows ==
  ASSUME TypeOK, UNCHANGED shot, Grows,
         \A k \in Actions : Dead(k) => sends'[k] = 0 /\ ~Targeted(k)'
  PROVE  \A i \in Actions : Dead(i) => Dead(i)'
  <1> SUFFICES ASSUME NEW i \in Actions, NEW D \in SUBSET Actions, DeadSet(D), i \in D
               PROVE  DeadSet(D)'
    BY DEF Dead
  <1>1. \A k \in D : Dead(k)
    BY DEF Dead
  <1>2. ASSUME NEW k \in D, Conditional(k) PROVE Hopeless(k, D)'
    <2>1. Hopeless(k, D) /\ Refs(k) \subseteq Actions
      BY <1>2, RefsAre DEF DeadSet
    <2>2. Refs(k)' = Refs(k) /\ table' = table
      BY DEF Refs, table
    <2>3. \A r \in Refs(k) : (Ran(r) => Ran(r)' /\ (Fits(r, k)' <=> Fits(r, k)))
                             /\ (Refused(r) => Refused(r)')
      BY <2>1, <2>2 DEF Grows, Fits
    <2> QED BY <2>1, <2>2, <2>3 DEF Hopeless
  <1>3. \A k : Conditional(k)' <=> Conditional(k)
    BY DEF Conditional, table
  <1> QED BY <1>1, <1>2, <1>3 DEF DeadSet, Grows

-----------------------------------------------------------------------------
(* What a step does to the queue, and to what the threads hold. *)

LEMMA PendingIs ==
  ASSUME NEW i
  PROVE  /\ Pending(i) <=> Queued(i) \/ Held(i)
         /\ Waiting(i) => Pending(i)
  BY DEF Pending, Queued, Held, Waiting, Holding

LEMMA Appended ==
  ASSUME TypeOK, NEW i \in Actions, completed' = Append(completed, i)
  PROVE  /\ \A k : Queued(k)' <=> Queued(k) \/ k = i
         /\ \A k : k # i /\ Single(k) => Single(k)'
         /\ ~Queued(i) => Single(i)'
  <1> DEFINE n == Len(completed)
  <1>1. /\ n \in Nat /\ DOMAIN completed = 1 .. n /\ DOMAIN completed' = 1 .. n + 1
        /\ \A k \in 1 .. n : completed'[k] = completed[k]
        /\ completed'[n + 1] = i
    BY DEF TypeOK
  <1> HIDE DEF n
  <1>2. \A k \in DOMAIN completed' :
          \/ k \in DOMAIN completed /\ completed'[k] = completed[k]
          \/ k = n + 1 /\ completed'[k] = i
    BY <1>1
  <1>3. n + 1 \in DOMAIN completed' /\ \A k \in DOMAIN completed : k \in DOMAIN completed'
    BY <1>1
  <1> QED BY <1>1, <1>2, <1>3 DEF Queued, Single

LEMMA Dequeued ==
  ASSUME TypeOK, completed # <<>>, completed' = Tail(completed)
  PROVE  /\ Head(completed) \in Actions
         /\ \A k : Queued(k) <=> Queued(k)' \/ k = Head(completed)
         /\ \A k : Single(k) => Single(k)'
         /\ \A k : k = Head(completed) /\ Single(k) => ~Queued(k)'
  <1> DEFINE n == Len(completed)
  <1>1. /\ n \in Nat /\ n > 0 /\ DOMAIN completed = 1 .. n /\ DOMAIN completed' = 1 .. n - 1
        /\ \A k \in 1 .. n - 1 : completed'[k] = completed[k + 1]
        /\ Head(completed) = completed[1] /\ completed[1] \in Actions
    BY DEF TypeOK
  <1> HIDE DEF n
  <1>2. \A k \in DOMAIN completed' : k + 1 \in DOMAIN completed /\ k + 1 # 1
                                     /\ completed'[k] = completed[k + 1]
    BY <1>1
  <1>3. \A k \in DOMAIN completed : k = 1 \/ (k - 1 \in DOMAIN completed'
                                             /\ completed'[k - 1] = completed[k])
    BY <1>1
  <1>4. 1 \in DOMAIN completed
    BY <1>1
  <1>5. \A k : Queued(k) <=> Queued(k)' \/ k = Head(completed)
    BY <1>1, <1>2, <1>3, <1>4 DEF Queued
  <1>6. ASSUME NEW k, Single(k) PROVE Single(k)'
    <2> SUFFICES ASSUME NEW a \in DOMAIN completed', NEW b \in DOMAIN completed',
                        completed'[a] = k, completed'[b] = k
                 PROVE  a = b
      BY DEF Single
    <2>1. a + 1 = b + 1
      BY <1>2, <1>6 DEF Single
    <2> QED BY <1>1, <2>1
  <1>7. ASSUME NEW k, k = Head(completed), Single(k), Queued(k)' PROVE FALSE
    <2>1. PICK a \in DOMAIN completed' : completed'[a] = k
      BY <1>7 DEF Queued
    <2>2. a + 1 = 1
      BY <1>1, <1>2, <1>4, <1>7, <2>1 DEF Single
    <2> QED BY <1>2, <2>1, <2>2
  <1> QED BY <1>1, <1>5, <1>6, <1>7

(* The threads of completed actions keep what they have in hand. *)
Alike(a, b) == \/ a = b \/ (a \notin Holding /\ b \notin Holding)
               \/ {a, b} \subseteq {"refs"} \cup Dispatching
ThreadsNear ==
  \A t \in DoneThreads : /\ item'[t] = item[t] /\ deps'[t] \subseteq deps[t]
                         /\ Alike(at[t], at'[t])
ThreadsStill ==
  /\ ThreadsNear
  /\ \A t \in DoneThreads : /\ deps'[t] = deps[t] /\ target'[t] = target[t]
                            /\ at'[t] \in Dispatching => at[t] \in Dispatching

LEMMA StillAre ==
  ASSUME ThreadsNear
  PROVE  /\ \A i : Held(i)' <=> Held(i)
         /\ \A i : (Queued(i)' <=> Queued(i)) => (Waiting(i)' <=> Waiting(i))
         /\ \A i : Queued(i) /\ Queued(i)' => Waiting(i) /\ Waiting(i)'
         /\ \A t \in DoneThreads :
              at'[t] \in {"refs"} \cup Dispatching <=> at[t] \in {"refs"} \cup Dispatching
  <1>1. \A t \in DoneThreads :
          /\ at'[t] \in {"refs"} \cup Dispatching <=> at[t] \in {"refs"} \cup Dispatching
          /\ at'[t] \in Holding <=> at[t] \in Holding
          /\ at'[t] = "taken" <=> at[t] = "taken"
    BY DEF ThreadsNear, Alike, Holding, Dispatching
  <1>2. \A i : Held(i)' <=> Held(i)
    BY <1>1 DEF Held, ThreadsNear
  <1>3. \A i : (\E t \in DoneThreads : at'[t] = "taken" /\ item'[t] = i)
               <=> (\E t \in DoneThreads : at[t] = "taken" /\ item[t] = i)
    BY <1>1 DEF ThreadsNear
  <1> QED BY <1>1, <1>2, <1>3 DEF Waiting

LEMMA ConsideredStays ==
  ASSUME UNCHANGED shot, ThreadsNear, NEW c
  PROVE  /\ (\A r \in Refs(c) : Waiting(r)' => Waiting(r)) => (Considered(c) => Considered(c)')
         /\ (\A t \in DoneThreads : c \in deps[t] => c \in deps'[t])
            /\ (\A r \in Refs(c) : Waiting(r) => Waiting(r)') => (Considered(c)' => Considered(c))
  <1>1. Refs(c)' = Refs(c)
    BY DEF Refs, table
  <1>2. \A t \in DoneThreads :
          /\ at'[t] \in {"refs"} \cup Dispatching <=> at[t] \in {"refs"} \cup Dispatching
          /\ item'[t] = item[t] /\ deps'[t] \subseteq deps[t]
    BY StillAre DEF ThreadsNear
  <1> QED BY <1>1, <1>2 DEF Considered

LEMMA FulfilledGrows ==
  ASSUME TypeOK, UNCHANGED shot, Grows, NEW c \in Actions
  PROVE  /\ Refs(c)' = Refs(c)
         /\ Fulfilled(c) => Fulfilled(c)'
         /\ Fulfilled(c)' /\ (\A r \in Refs(c) : Ran(r)' => Ran(r)) => Fulfilled(c)
  <1>1. Refs(c)' = Refs(c) /\ table' = table /\ Refs(c) \subseteq Actions
    BY RefsAre DEF Refs, table
  <1>2. \A r \in Refs(c) : Ran(r) => Ran(r)' /\ (Fits(r, c)' <=> Fits(r, c))
    BY <1>1 DEF Grows, Fits
  <1>3. Fulfilled(c)' <=> Refs(c)' # {} /\ \A r \in Refs(c)' : Ran(r)' /\ Fits(r, c)'
    BY DEF Fulfilled, Refs, Fits
  <1> QED BY <1>1, <1>2, <1>3, FulfilledIs

-----------------------------------------------------------------------------
(* The parts of the invariant after a step that disturbs little. *)

Mild(i) ==
  /\ sends'[i] = sends[i] /\ (Busy(i)' <=> Busy(i)) /\ (Ran(i)' <=> Ran(i))
  /\ Refused(i)' <=> Refused(i)
  /\ act'[i].status = act[i].status /\ value'[i] = value[i]
  /\ (Pending(i)' <=> Pending(i)) /\ (Waiting(i)' <=> Waiting(i))
  /\ Ran(i) => (Single(i) => Single(i)') /\ (Queued(i)' /\ Held(i)' => Queued(i) /\ Held(i))
  /\ act'[i].done => act[i].done
  /\ Ran(i) /\ act[i].done => act'[i].done
  /\ (Busy(i) \/ Ran(i)) /\ Marked(i) => Marked(i)'

LEMMA OverGrows ==
  ASSUME UNCHANGED shot, Grows, NEW i \in Actions, Dead(i) => Dead(i)'
  PROVE  Over(i) => Over(i)'
  BY DEF Over, Grows, Conditional, table

LEMMA MildKept ==
  ASSUME NEW i \in Actions, ActionTrue(i), Mild(i), UNCHANGED shot, Dead(i) => Dead(i)'
  PROVE  ActionTrue(i)'
  <1>1. Conditional(i)' <=> Conditional(i)
    BY DEF Conditional, table
  <1>2. Over(i) => Over(i)'
    BY <1>1 DEF Over, Mild
  <1> QED BY <1>1, <1>2 DEF ActionTrue, Mild

LEMMA SettledStays ==
  ASSUME NEW i, Settled(i), Busy(i)' => Busy(i), Ran(i)' => Ran(i) \/ Busy(i),
         Ran(i) /\ Pending(i)' => Pending(i), sends'[i] = 0 => sends[i] = 0,
         Dead(i) => Dead(i)'
  PROVE  Settled(i)'
  BY DEF Settled

(* What the threads trigger, and what has been triggered. *)
LEMMA TriggeredNear ==
  ASSUME IInv, OrderInv, UNCHANGED shot, ThreadsNear, Grows,
         \A r \in Actions : Ran(r) /\ Waiting(r)' => Waiting(r),
         \A c \in Actions : Conditional(c) /\ sends'[c] > 0 =>
           sends[c] > 0 \/ (Fulfilled(c) /\ Considered(c)),
         \A t \in DoneThreads : at'[t] \in Dispatching =>
           \/ at[t] \in Dispatching /\ target'[t] = target[t]
           \/ /\ target'[t] \in Actions /\ item[t] \in Refs(target'[t])
              /\ \A c \in Actions : c = target'[t] => Fulfilled(c) /\ Considered(c)'
  PROVE  Triggers' /\ Triggered'
  <1>0. TypeOK
    BY DEF IInv
  <1>a. \A c \in Actions : Fulfilled(c) => Fulfilled(c)'
    BY <1>0, FulfilledGrows
  <1>1. \A c \in Actions : Fulfilled(c) /\ Considered(c) => Fulfilled(c)' /\ Considered(c)'
    <2> SUFFICES ASSUME NEW c \in Actions, Fulfilled(c), Considered(c)
                 PROVE  Considered(c)'
      BY <1>a
    <2>2. \A r \in Refs(c) : r \in Actions /\ Ran(r)
      BY <1>0, RefsAre, FulfilledIs
    <2> QED BY <2>2, ConsideredStays
  <1>2. Triggered'
    BY <1>1 DEF OrderInv, Triggered, Conditional, table
  <1>3. ASSUME NEW t \in DoneThreads
        PROVE  /\ at'[t] \in {"refs"} \cup Dispatching => deps'[t] \subseteq ReferencedBy(item[t])'
               /\ at'[t] \in Dispatching =>
                    /\ item'[t] \in Refs(target[t])'
                    /\ Fulfilled(target[t])' /\ Considered(target[t])'
    <2>1. /\ at'[t] \in {"refs"} \cup Dispatching <=> at[t] \in {"refs"} \cup Dispatching
          /\ item'[t] = item[t] /\ deps'[t] \subseteq deps[t]
      BY StillAre DEF ThreadsNear
    <2>2. ReferencedBy(item[t])' = ReferencedBy(item[t])
      BY <2>1 DEF ReferencedBy, table
    <2>3. at[t] \in Dispatching => target[t] \in Actions
      BY DEF IInv, ThreadsPlaced, Numbered
    <2>5. ASSUME at'[t] \in Dispatching
          PROVE  /\ item'[t] \in Refs(target[t])'
                 /\ Fulfilled(target[t])' /\ Considered(target[t])'
      <3>1. target'[t] \in Actions
        BY <2>3, <2>5
      <3> SUFFICES ASSUME NEW c \in Actions, c = target'[t]
                   PROVE  /\ item'[t] \in Refs(target[t])'
                          /\ Fulfilled(target[t])' /\ Considered(target[t])'
        BY <3>1
      <3>2. item[t] \in Refs(c) /\ Fulfilled(c)' /\ Considered(c)'
        <4>1. CASE at[t] \in Dispatching /\ target'[t] = target[t]
          BY <1>1, <4>1 DEF OrderInv, Triggers
        <4>2. CASE /\ target'[t] \in Actions /\ item[t] \in Refs(target'[t])
                   /\ \A k \in Actions : k = target'[t] => Fulfilled(k) /\ Considered(k)'
          BY <1>a, <4>2
        <4> QED BY <2>5, <4>1, <4>2
      <3>3. Refs(target[t])' = Refs(c)
        BY DEF Refs, table
      <3> QED BY <2>1, <3>2, <3>3
    <2> QED BY <2>1, <2>2, <2>5 DEF OrderInv, Triggers
  <1>4. Triggers'
    BY <1>3 DEF Triggers
  <1> QED BY <1>2, <1>4

LEMMA NotLostNear ==
  ASSUME IInv, OrderInv, UNCHANGED shot, ThreadsNear, Grows,
         \A r \in Actions : /\ Waiting(r) => Waiting(r)'
                            /\ Ran(r)' => Ran(r) \/ Waiting(r)',
         NEW c \in Actions, Conditional(c), Fulfilled(c)',
         sends[c] > 0 \/ Targeted(c) => sends'[c] > 0 \/ Targeted(c)',
         \A t \in DoneThreads : c \in deps[t] => c \in deps'[t]
  PROVE  sends'[c] > 0 \/ Targeted(c)' \/ ~Considered(c)'
  <1>0. TypeOK
    BY DEF IInv
  <1>1. Refs(c)' = Refs(c) /\ Refs(c) \subseteq Actions
    BY <1>0, RefsAre, FulfilledGrows
  <1>2. CASE \E r \in Refs(c) : Waiting(r)'
    BY <1>1, <1>2 DEF Considered
  <1>3. CASE ~ \E r \in Refs(c) : Waiting(r)'
    <2>1. \A r \in Refs(c) : Ran(r)' => Ran(r)
      BY <1>1, <1>3
    <2>2. Fulfilled(c)
      BY <1>0, <2>1, FulfilledGrows
    <2>3. Considered(c)' => Considered(c)
      BY <1>1, ConsideredStays
    <2> QED BY <2>2, <2>3 DEF OrderInv, NotLost
  <1> QED BY <1>2, <1>3

LEMMA TriggeredKept ==
  ASSUME IInv, OrderInv, UNCHANGED shot, ThreadsStill, Grows,
         \A r \in Actions : Ran(r) /\ Waiting(r)' => Waiting(r),
         \A c \in Actions : Conditional(c) /\ sends'[c] > 0 =>
           sends[c] > 0 \/ (Fulfilled(c) /\ Considered(c))
  PROVE  Triggers' /\ Triggered'
  BY TriggeredNear DEF ThreadsStill

LEMMA NotLostKept ==
  ASSUME IInv, OrderInv, UNCHANGED shot, ThreadsStill, Grows,
         \A r \in Actions : /\ Waiting(r) => Waiting(r)'
                            /\ Ran(r)' => Ran(r) \/ Waiting(r)',
         \A c \in Actions : Conditional(c) =>
           (sends[c] > 0 \/ Targeted(c) => sends'[c] > 0 \/ Targeted(c)')
  PROVE  NotLost'
  <1> SUFFICES ASSUME NEW c \in Actions, Conditional(c), Fulfilled(c)'
               PROVE  sends'[c] > 0 \/ Targeted(c)' \/ ~Considered(c)'
    BY DEF NotLost, Conditional, table
  <1> QED BY NotLostNear DEF ThreadsStill

(* Where main is. *)
MainAlike ==
  /\ UNCHANGED <<shot, noact, calls, first_g>> /\ item'["main"] = item["main"]
  /\ \/ at'["main"] = at["main"]
     \/ {at["main"], at'["main"]} \subseteq GroupPlaces \ {"wait"}

LEMMA MainAlikeIs ==
  ASSUME MainAlike
  PROVE  /\ \A i : (Passed(i)' <=> Passed(i)) /\ (Reached(i)' <=> Reached(i))
                   /\ (OutOfCalls(i)' <=> OutOfCalls(i))
         /\ Late' <=> Late
         /\ InPhase' = InPhase /\ Sequenced' = Sequenced
         /\ \A i : Conditional(i)' <=> Conditional(i)
  <1>1. InPhase' = InPhase /\ Sequenced' = Sequenced
        /\ \A i : (Conditional(i)' <=> Conditional(i)) /\ (OutOfCalls(i)' <=> OutOfCalls(i))
    BY TableKept DEF MainAlike, OutOfCalls, table
  <1>2. /\ at'["main"] \in {"group"} \cup GroupPlaces <=> at["main"] \in {"group"} \cup GroupPlaces
        /\ \A p \in {"wait", "waitall", "record", "returned", "cannot", "waitlast"} :
             at'["main"] = p <=> at["main"] = p
    BY DEF MainAlike, GroupPlaces, Dispatching
  <1>3. Late' <=> Late
    BY <1>2 DEF Late
  <1>4. \A i : Passed(i)' <=> Passed(i)
    BY <1>1, <1>2, <1>3 DEF Passed, MainAlike
  <1>5. \A i : Reached(i)' <=> Reached(i)
    BY <1>1, <1>2 DEF Reached, MainAlike
  <1> QED BY <1>1, <1>3, <1>4, <1>5

LEMMA SettledKept ==
  ASSUME OrderInv, MainAlike,
         \A i \in Actions : Settled(i) =>
           /\ Busy(i)' => Busy(i)
           /\ Ran(i)' => Ran(i) \/ Busy(i)
           /\ Ran(i) /\ Pending(i)' => Pending(i)
           /\ sends'[i] = 0 => sends[i] = 0
           /\ Dead(i) => Dead(i)'
  PROVE  AllSettled'
  BY MainAlikeIs, SettledStays DEF OrderInv, AllSettled

LEMMA RecordedKept ==
  ASSUME OrderInv, MainAlike, UNCHANGED <<abort, tree, failed>>, Grows,
         \A i \in Actions : /\ act'[i].recorded => act[i].recorded
                            /\ Ran(i)' => Ran(i) \/ Busy(i)
  PROVE  Recorded'
  <1>2. abort' => Late'
    BY MainAlikeIs DEF OrderInv, Recorded
  <1>3. at'["main"] = "record" => First(InPhase)' <= item'["main"]
    <2>1. First(InPhase)' = First(InPhase)
      BY MainAlikeIs DEF First
    <2> QED BY <2>1 DEF OrderInv, Recorded, MainAlike, GroupPlaces, Dispatching
  <1>4. ASSUME NEW i \in Actions
        PROVE  /\ act'[i].recorded => OutOfCalls(i)' \/ Reached(i)'
               /\ Reached(i)' /\ Ran(i)' =>
                    tree'[i] = act'[i].status /\ (tree'[i] = "error" /\ i \in Essential => failed')
    <2>1. act'[i].recorded => OutOfCalls(i)' \/ Reached(i)'
      BY MainAlikeIs DEF OrderInv, Recorded
    <2>2. Reached(i)' /\ Ran(i)' => Reached(i) /\ Ran(i)
      <3>1. Reached(i) => ~Busy(i)
        BY DEF Reached, Passed, Late, OrderInv, AllSettled, Settled
      <3> QED BY <3>1, MainAlikeIs
    <2>3. Ran(i) => act'[i].status = act[i].status
      BY DEF Grows
    <2> QED BY <2>1, <2>2, <2>3 DEF OrderInv, Recorded
  <1> QED BY <1>2, <1>3, <1>4 DEF Recorded

LEMMA QueueStill ==
  ASSUME ThreadsStill, UNCHANGED completed
  PROVE  \A i : /\ (Queued(i)' <=> Queued(i)) /\ (Held(i)' <=> Held(i))
                /\ (Pending(i)' <=> Pending(i)) /\ (Waiting(i)' <=> Waiting(i))
                /\ (Single(i)' <=> Single(i))
  <1>1. \A i : (Queued(i)' <=> Queued(i)) /\ (Single(i)' <=> Single(i))
    BY DEF Queued, Single
  <1>2. \A i : (Held(i)' <=> Held(i)) /\ (Waiting(i)' <=> Waiting(i))
    BY <1>1, StillAre DEF ThreadsStill
  <1>3. \A i : Pending(i)' <=> Queued(i)' \/ Held(i)'
    BY DEF Pending, Queued, Held
  <1> QED BY <1>1, <1>2, <1>3, PendingIs

LEMMA PlanKept ==
  ASSUME OrderInv, UNCHANGED <<shot, calls>>, Frontier' = Frontier,
         \A i \in Actions : sends'[i] = sends[i]
  PROVE  Plan'
  <1>1. Sequenced' = Sequenced /\ table' = table /\ Sequenced \subseteq Actions
    BY TableKept DEF Sequenced, InPhase, OfPhases
  <1> QED BY <1>1 DEF OrderInv, Plan

(* The places do not tell where main's sequence has been dispatched up to.  *)
FrontierKept ==
  /\ UNCHANGED <<shot, calls, first_g, last_g>> /\ item'["main"] = item["main"]
  /\ \/ at'["main"] = at["main"]
     \/ {at["main"], at'["main"]} \subseteq {"lock", "send"}
     \/ {at["main"], at'["main"]} \subseteq {"next", "mark", "unsent"}

LEMMA FrontierStays == ASSUME FrontierKept PROVE Frontier' = Frontier
  <1>1. Sequenced' = Sequenced
    BY TableKept DEF FrontierKept
  <1>2. CASE at'["main"] = at["main"]
    BY <1>1, <1>2 DEF FrontierKept, Frontier
  <1>3. CASE {at["main"], at'["main"]} \subseteq {"lock", "send"}
    BY <1>3 DEF FrontierKept, Frontier
  <1>4. CASE {at["main"], at'["main"]} \subseteq {"next", "mark", "unsent"}
    BY <1>4 DEF FrontierKept, Frontier
  <1> QED BY <1>2, <1>3, <1>4 DEF FrontierKept

(* A step that changes flags, or a job that runs, and where a thread is     *)
(* with its dispatching.                                                    *)
LEMMA QuietStep ==
  ASSUME IInv, OrderInv, MainAlike, ThreadsStill, UNCHANGED <<abort, tree, failed>>,
         \A i \in Actions : Mild(i) /\ (act'[i].recorded => act[i].recorded),
         \A i \in Actions : /\ Conditional(i) /\ Targeted(i) => Targeted(i)'
                            /\ Targeted(i)' => Targeted(i),
         Once', Sendings', Frontier' = Frontier
  PROVE  OrderInv'
  <1>0. TypeOK /\ UNCHANGED <<shot, calls>>
    BY DEF IInv, MainAlike
  <1>1. Grows
    BY MainAlikeIs DEF Grows, Mild
  <1>2. \A i \in Actions : Dead(i) => Dead(i)'
    <2>1. \A k \in Actions : Dead(k) => sends'[k] = 0 /\ ~Targeted(k)'
      BY DeadIs DEF Mild
    <2> QED BY <1>0, <1>1, <2>1, DeadGrows
  <1>3. ActionsTrue'
    BY <1>0, <1>2, MildKept DEF OrderInv, ActionsTrue
  <1>4. Plan'
    BY <1>0, PlanKept DEF Mild
  <1>5. Triggers' /\ Triggered'
    BY <1>0, <1>1, TriggeredKept DEF Mild
  <1>6. NotLost'
    BY <1>0, <1>1, NotLostKept DEF Mild
  <1>7. AllSettled'
    BY <1>2, SettledKept DEF Mild
  <1>8. Recorded'
    BY <1>1, RecordedKept DEF Mild
  <1> QED BY <1>3, <1>4, <1>5, <1>6, <1>7, <1>8 DEF OrderInv

LEMMA JobsSame ==
  ASSUME UNCHANGED <<job, sends>>
  PROVE  /\ \A i : (Busy(i)' <=> Busy(i)) /\ (Ran(i)' <=> Ran(i)) /\ (Refused(i)' <=> Refused(i))
         /\ OrderInv => Once'
  BY DEF Busy, Ran, Refused, Jobs!Running, OrderInv, Once

-----------------------------------------------------------------------------
(* The steps that are quiet in this sense. *)

LEMMA StartsKept ==
  ASSUME IInv, OrderInv, NEW t \in DoneThreads, ThreadStarts(t) \/ ClearRecorded(t)
  PROVE  OrderInv'
  <1>0. TypeOK /\ t \in Threads /\ t # "main" /\ "main" \in Threads /\ DoneThreads \subseteq Threads
    BY ThreadsAre DEF IInv
  <1>1. /\ UNCHANGED <<shot, noact, calls, first_g, last_g, abort, tree, failed, job, sends,
                       item, deps, target, completed, value>>
        /\ at[t] \notin Holding /\ at' = [at EXCEPT ![t] = "idle"]
        /\ \/ UNCHANGED act
           \/ act' = [act EXCEPT ![item[t]].recorded = FALSE]
    BY DEF ThreadStarts, ClearRecorded, mainVars, fixed, GoTo, Holding, Dispatching
  <1>2. at \in [Threads -> Places] /\ act \in [Actions -> ActionInfo]
    BY <1>0, FlagsType DEF TypeOK
  <1>3. /\ at'["main"] = at["main"] /\ at'[t] = "idle"
        /\ \A u \in Threads : u # t => at'[u] = at[u]
    BY <1>0, <1>1, <1>2
  <1>4. \A i \in Actions :
          /\ act'[i].status = act[i].status /\ act'[i].done = act[i].done
          /\ act'[i].dispatched = act[i].dispatched
          /\ act'[i].recorded => act[i].recorded
    BY <1>1, <1>2 DEF ActionInfo
  <1>5. MainAlike /\ ThreadsStill /\ FrontierKept
    BY <1>0, <1>1, <1>3 DEF MainAlike, ThreadsStill, ThreadsNear, Alike, FrontierKept, Holding, Dispatching
  <1>6. \A i : (Targeted(i)' <=> Targeted(i)) /\ (Marked(i) <=> act[i].dispatched
                  \/ \E u \in Threads : at'[u] = "mark" /\ target'[u] = i)
    BY <1>1, <1>3 DEF Targeted, Marked, Holding, Dispatching
  <1>7. \A i \in Actions : Mild(i)
    BY <1>1, <1>4, <1>5, <1>6, JobsSame, QueueStill DEF Mild, Marked
  <1>8. Sendings'
    BY <1>1, <1>3, JobsSame DEF OrderInv, Sendings
  <1> QED BY <1>1, <1>4, <1>5, <1>6, <1>7, <1>8, JobsSame, FrontierStays, QuietStep

LEMMA TargetsAre ==
  ASSUME IInv
  PROVE  /\ \A t \in Threads : at[t] \in Dispatching => target[t] \in Actions
         /\ \A t \in DoneThreads : at[t] \in Dispatching => Conditional(target[t])
         /\ at["main"] \in Dispatching =>
              ~Conditional(target["main"]) /\ target["main"] \in Sequenced
  <1>1. at["main"] \in Dispatching => target["main"] \in Sequenced
    BY MainTarget
  <1>2. \A t \in DoneThreads : at[t] \in Dispatching => target[t] \in Actions \ Numbered
    BY DEF IInv, ThreadsPlaced
  <1> QED BY <1>1, <1>2, ThreadsAre DEF Numbered, Sequenced, InPhase, OfPhases, Conditionals

LEMMA LockKept ==
  ASSUME IInv, OrderInv, NEW t \in Threads, Lock(t)
  PROVE  OrderInv'
  <1>0. TypeOK /\ "main" \in Threads /\ "main" \notin DoneThreads /\ DoneThreads \subseteq Threads
    BY ThreadsAre DEF IInv
  <1>a. target[t] \in Actions
    BY DispatchType DEF Dispatch
  <1>b. PICK c \in Actions : c = target[t]
    BY <1>a
  <1>1. /\ UNCHANGED <<shot, noact, calls, first_g, last_g, abort, tree, failed, job, sends,
                       item, deps, target, completed, value>>
        /\ at[t] = "lock" /\ at' = [at EXCEPT ![t] = "send"]
        /\ act' = [act EXCEPT ![c] =
               [@ EXCEPT !.done = FALSE, !.doing = FALSE, !.dispatched = FALSE]]
    BY <1>b DEF Lock, mainVars, fixed, GoTo
  <1>2. at \in [Threads -> Places] /\ act \in [Actions -> ActionInfo]
    BY <1>0, FlagsType DEF TypeOK
  <1>3. at'[t] = "send" /\ \A u \in Threads : u # t => at'[u] = at[u]
    BY <1>1, <1>2
  <1>4. /\ \A i \in Actions : i # c => act'[i] = act[i]
        /\ act'[c].status = act[c].status /\ ~act'[c].done /\ act'[c].recorded = act[c].recorded
    BY <1>1, <1>2 DEF ActionInfo
  <1>5. MainAlike /\ ThreadsStill /\ FrontierKept
    <2>1. at'["main"] = at["main"] \/ {at["main"], at'["main"]} \subseteq {"lock", "send"}
      BY <1>0, <1>1, <1>3
    <2>2. \A u \in DoneThreads : Alike(at[u], at'[u])
      BY <1>0, <1>1, <1>3 DEF Alike, Dispatching
    <2>3. \A u \in DoneThreads : at'[u] \in Dispatching => at[u] \in Dispatching
      BY <1>0, <1>1, <1>3 DEF Dispatching
    <2> QED BY <1>1, <2>1, <2>2, <2>3
          DEF MainAlike, ThreadsStill, ThreadsNear, FrontierKept, GroupPlaces, Dispatching
  <1>6. \A i : (Targeted(i)' <=> Targeted(i))
               /\ ((\E u \in Threads : at[u] = "mark" /\ target[u] = i) =>
                     \E u \in Threads : at'[u] = "mark" /\ target'[u] = i)
    BY <1>1, <1>3 DEF Targeted
  <1>7. sends[c] = 0 /\ ~Busy(c) /\ ~Ran(c)
    BY <1>1, <1>b, Stages DEF OrderInv, Sendings
  <1>8. \A i \in Actions : Mild(i)
    BY <1>1, <1>4, <1>5, <1>6, <1>7, JobsSame, QueueStill DEF Mild, Marked
  <1>9. Sendings'
    BY <1>1, <1>3, JobsSame DEF OrderInv, Sendings
  <1> QED BY <1>1, <1>4, <1>5, <1>6, <1>8, <1>9, JobsSame, FrontierStays, QuietStep

LEMMA BeforeKept ==
  ASSUME IInv, OrderInv, NEW j \in Job, Before(j), ~torn'
  PROVE  OrderInv'
  <1>0. TypeOK /\ "main" \in Threads /\ "main" \notin DoneThreads /\ DoneThreads \subseteq Threads
    BY ThreadsAre DEF IInv
  <1>a. PICK i \in Actions, n \in 1 .. MaxSends : j = <<i, n>>
    BY DEF Job
  <1>1. /\ UNCHANGED <<shot, noact, calls, first_g, last_g, abort, tree, failed, sends,
                       item, deps, target, completed, value, at>>
        /\ job[j] = "sent" /\ job' = [job EXCEPT ![j] = "doing"]
        /\ act' = [act EXCEPT ![i].doing = TRUE]
    BY <1>a DEF Before, Jobs!Start, mainVars, fixed
  <1>2. act \in [Actions -> ActionInfo] /\ job \in [Job -> Jobs!JobStates]
    BY <1>0, FlagsType, JobIs
  <1>3. \A k \in Actions : /\ act'[k].status = act[k].status /\ act'[k].done = act[k].done
                           /\ act'[k].dispatched = act[k].dispatched
                           /\ act'[k].recorded = act[k].recorded
    BY <1>1, <1>2 DEF ActionInfo
  <1>4. \A k \in Actions, m \in 1 .. MaxSends :
          \/ job'[<<k, m>>] = job[<<k, m>>]
          \/ job[<<k, m>>] = "sent" /\ job'[<<k, m>>] = "doing"
    BY <1>1, <1>2, JobIs
  <1>5. \A k \in Actions : (Busy(k)' <=> Busy(k)) /\ (Ran(k)' <=> Ran(k))
                           /\ (Refused(k)' <=> Refused(k))
    BY <1>4 DEF Busy, Ran, Refused, Jobs!Running
  <1>6. Once'
    <2> SUFFICES ASSUME NEW k \in Actions, sends[k] = 1
                 PROVE  job'[<<k, 1>>] \in {"sent", "doing", "done", "refused"}
      BY <1>1 DEF OrderInv, Once
    <2>1. 1 \in 1 .. MaxSends
      BY JobIs, <1>0
    <2> QED BY <1>4, <2>1 DEF OrderInv, Once
  <1>7. MainAlike /\ ThreadsStill /\ FrontierKept
    BY <1>0, <1>1 DEF MainAlike, ThreadsStill, ThreadsNear, Alike, FrontierKept
  <1>8. \A k : (Targeted(k)' <=> Targeted(k))
    BY <1>1 DEF Targeted
  <1>9. \A k \in Actions : Mild(k)
    BY <1>1, <1>3, <1>5, <1>7, QueueStill DEF Mild, Marked
  <1>10. Sendings'
    <2>1. \A u \in Threads : at[u] \in Dispatching => target[u] \in Actions
      BY TargetsAre
    <2>2. \A u \in Threads : at[u] \in Dispatching => (Refused(target[u])' <=> Refused(target[u]))
      <3> SUFFICES ASSUME NEW u \in Threads, at[u] \in Dispatching,
                          NEW c \in Actions, c = target[u], c = target'[u]
                   PROVE  Refused(target[u])' <=> Refused(target[u])
        BY <1>1, <2>1
      <3>1. Refused(c)' <=> Refused(c)
        BY <1>5
      <3> QED BY <3>1
    <2> QED BY <1>1, <2>2 DEF OrderInv, Sendings, Dispatching
  <1> QED BY <1>1, <1>3, <1>6, <1>7, <1>8, <1>9, <1>10, FrontierStays, QuietStep

-----------------------------------------------------------------------------
(* The receiver's callback: a job has ended. *)

LEMMA CompletionKept ==
  ASSUME IInv, Orderly, OrderInv, NEW j \in Job, Completion(j)
  PROVE  OrderInv'
  <1>0. TypeOK /\ "main" \in Threads /\ "main" \notin DoneThreads /\ DoneThreads \subseteq Threads
    BY ThreadsAre DEF IInv
  <1>a. PICK i \in Actions, n \in 1 .. MaxSends : j = <<i, n>>
    BY DEF Job
  <1>1. /\ UNCHANGED <<shot, noact, calls, first_g, last_g, abort, tree, failed, sends,
                       item, deps, target, value>>
        /\ job[j] \in {"sent", "doing"} /\ job' = [job EXCEPT ![j] = "done"]
        /\ \E s \in {"ok", "error"} : act' = [act EXCEPT ![i].status = s]
        /\ DoActionDone(i, at) /\ completed' = Append(completed, i)
    BY <1>a DEF Completion, Jobs!Complete, Jobs!CompleteLost, mainVars, fixed, SetStatus,
      Orderly, Regular, NoneLost, DoActionDone
  <1>2. act \in [Actions -> ActionInfo] /\ job \in [Job -> Jobs!JobStates]
        /\ at \in [Threads -> Places]
    BY <1>0, FlagsType, JobIs DEF TypeOK
  <1>3. /\ \A k \in Actions : /\ act'[k].done = act[k].done
                              /\ act'[k].dispatched = act[k].dispatched
                              /\ act'[k].recorded = act[k].recorded
        /\ \A k \in Actions : k # i => act'[k].status = act[k].status
        /\ act'[i].status \in {"ok", "error"}
    BY <1>1, <1>2 DEF ActionInfo
  <1>4. /\ at'["main"] = at["main"]
        /\ \A t \in DoneThreads : at'[t] = at[t] \/ (at[t] = "absent" /\ at'[t] = "starting")
    BY <1>0, <1>1, <1>2, DoneType
  <1>5. MainAlike /\ ThreadsStill /\ FrontierKept
    BY <1>0, <1>1, <1>4 DEF MainAlike, ThreadsStill, ThreadsNear, Alike, FrontierKept, Holding, Dispatching
  <1>6. /\ job'[<<i, n>>] = "done" /\ <<i, n>> \in Job
        /\ \A k \in Actions, m \in 1 .. MaxSends :
             k # i \/ m # n => job'[<<k, m>>] = job[<<k, m>>]
    BY <1>1, <1>2, <1>a, JobIs
  <1>7. Busy(i) /\ ~Ran(i) /\ ~Refused(i) /\ sends[i] = 1 /\ n = 1
    <2>1. Busy(i)
      BY <1>1, <1>a DEF Busy, Jobs!Running
    <2>2. sends[i] = 1 /\ ~Ran(i) /\ ~Refused(i)
      BY <2>1, Stages DEF OrderInv
    <2>3. ~(n > 1)
      BY <1>1, <1>a, <2>2, JobIs
    <2> QED BY <2>1, <2>2, <2>3
  <1>8. /\ Ran(i)' /\ ~Busy(i)' /\ ~Refused(i)'
        /\ \A k \in Actions : k # i => /\ (Busy(k)' <=> Busy(k)) /\ (Ran(k)' <=> Ran(k))
                                       /\ (Refused(k)' <=> Refused(k))
    <2>1. \A m \in 1 .. MaxSends : m # 1 => job'[<<i, m>>] = "none"
      BY <1>6, <1>7, JobIs
    <2>2. Ran(i)' /\ ~Busy(i)' /\ ~Refused(i)'
      BY <1>6, <1>7, <2>1 DEF Ran, Busy, Refused, Jobs!Running
    <2> QED BY <1>6, <2>2 DEF Ran, Busy, Refused, Jobs!Running
  <1>9. /\ ~Pending(i) /\ ~act[i].done /\ Marked(i) /\ value[i] = "none" /\ ~Dead(i)
    <2>1. ~Dead(i)
      BY <1>7, DeadIs
    <2> QED BY <1>7, <2>1 DEF OrderInv, ActionsTrue, ActionTrue, Over
  <1>10. /\ \A k \in Actions : k # i => (Queued(k)' <=> Queued(k)) /\ (Single(k) => Single(k)')
         /\ Queued(i)' /\ Single(i)'
    BY <1>0, <1>1, <1>9, Appended, PendingIs
  <1>11. \A k : (Held(k)' <=> Held(k)) /\ ((Queued(k)' <=> Queued(k)) => (Waiting(k)' <=> Waiting(k)))
    BY <1>5, StillAre DEF ThreadsStill
  <1>12. \A k : Pending(k)' <=> Queued(k)' \/ Held(k)'
    BY DEF Pending, Queued, Held
  <1>13. \A k \in Actions : (Targeted(k)' <=> Targeted(k)) /\ (Marked(k)' <=> Marked(k))
    <2>1. \A t \in Threads : /\ at'[t] \in {"lock", "send"} <=> at[t] \in {"lock", "send"}
                             /\ at'[t] = "mark" <=> at[t] = "mark"
      BY <1>4, ThreadsAre
    <2> QED BY <1>1, <1>3, <2>1 DEF Targeted, Marked
  <1>14. \A k \in Actions : k # i => Mild(k)
    BY <1>1, <1>3, <1>8, <1>10, <1>11, <1>12, <1>13, PendingIs DEF Mild
  <1>15. Grows
    BY <1>3, <1>5, <1>7, <1>8, MainAlikeIs DEF Grows
  <1>16. \A k \in Actions : Dead(k) => Dead(k)'
    <2>1. \A k \in Actions : Dead(k) => sends'[k] = 0 /\ ~Targeted(k)'
      BY <1>1, <1>13, DeadIs
    <2> QED BY <1>0, <1>1, <1>15, <2>1, DeadGrows
  <1>17. ActionTrue(i)'
    <2>1. Single(i)' /\ ~Held(i)' /\ Pending(i)' /\ Waiting(i)'
      BY <1>9, <1>10, <1>11, <1>12, PendingIs DEF Waiting
    <2>2. ~act'[i].done /\ Marked(i)' /\ value'[i] = "none" /\ act'[i].status \in {"ok", "error"}
      BY <1>1, <1>3, <1>9, <1>13
    <2> QED BY <1>8, <2>1, <2>2 DEF ActionTrue, Over
  <1>18. ActionsTrue'
    BY <1>1, <1>14, <1>16, <1>17, MildKept DEF OrderInv, ActionsTrue
  <1>19. \A k \in Actions : (Waiting(k) => Waiting(k)') /\ (Ran(k) /\ Waiting(k)' => Waiting(k))
                            /\ (Ran(k)' => Ran(k) \/ Waiting(k)')
    BY <1>7, <1>8, <1>9, <1>10, <1>11, PendingIs DEF Waiting
  <1>20. Triggers' /\ Triggered' /\ NotLost'
    BY <1>1, <1>5, <1>13, <1>15, <1>19, TriggeredKept, NotLostKept
  <1>21. AllSettled'
    BY <1>1, <1>5, <1>7, <1>14, <1>16, SettledKept DEF Mild, Settled
  <1>22. Recorded'
    BY <1>1, <1>3, <1>5, <1>7, <1>8, <1>15, RecordedKept
  <1>23. Plan'
    BY <1>1, <1>5, FrontierStays, PlanKept
  <1>24. Once'
    <2>1. \A k \in Actions : k # i /\ sends[k] = 1 => job'[<<k, 1>>] = job[<<k, 1>>]
      <3>1. \A k \in Actions : sends[k] = 1 => 1 \in 1 .. MaxSends
        BY JobIs
      <3> QED BY <1>6, <3>1
    <2> QED BY <1>1, <1>6, <1>7, <2>1 DEF OrderInv, Once
  <1>25. Sendings'
    <2> SUFFICES ASSUME NEW t \in Threads
                 PROVE  /\ at'[t] \in {"lock", "send"} => sends'[target'[t]] = 0
                        /\ at'[t] = "mark" => sends'[target'[t]] = 1 /\ ~Refused(target[t])'
                        /\ at'[t] = "unsent" => Refused(target[t])'
      BY DEF Sendings
    <2>1. at'[t] = at[t] \/ at'[t] = "starting"
      BY <1>4, ThreadsAre
    <2>2. ASSUME at[t] \in Dispatching, NEW c \in Actions, c = target[t], c = target'[t]
          PROVE  Refused(target[t])' <=> Refused(target[t])
      <3>1. Refused(c)' <=> Refused(c)
        BY <1>7, <1>8
      <3> QED BY <2>2, <3>1
    <2>3. at[t] \in Dispatching => (Refused(target[t])' <=> Refused(target[t]))
      BY <1>1, <2>2, TargetsAre
    <2> QED BY <1>1, <2>1, <2>3 DEF OrderInv, Sendings, Dispatching
  <1> QED BY <1>18, <1>20, <1>21, <1>22, <1>23, <1>24, <1>25 DEF OrderInv

-----------------------------------------------------------------------------
(* Main's own steps. *)

MainMove ==
  /\ UNCHANGED <<shot, noact, job, sends, completed, value, deps>>
  /\ \A t \in DoneThreads : UNCHANGED <<at[t], item[t], target[t]>>
  /\ \A i \in Actions : /\ act'[i].status = act[i].status /\ act'[i].done = act[i].done
                        /\ act'[i].dispatched = act[i].dispatched
                        /\ OutOfCalls(i) => OutOfCalls(i)'
  /\ at["main"] \notin Dispatching
  /\ at'["main"] \in Dispatching =>
       /\ at'["main"] = "lock" /\ ~Conditional(target'["main"])
       /\ target'["main"] \in Actions /\ sends[target'["main"]] = 0
       /\ \E k \in DOMAIN calls : calls[k] = table.phase[target'["main"]]

LEMMA MoveKept ==
  ASSUME IInv, OrderInv, MainMove
  PROVE  /\ ActionsTrue' /\ Once' /\ Triggers' /\ Triggered' /\ NotLost' /\ Sendings'
         /\ Grows /\ \A i \in Actions : Mild(i) /\ (Dead(i) => Dead(i)')
  <1>0. TypeOK /\ Threads = {"main"} \cup DoneThreads /\ "main" \notin DoneThreads
    BY ThreadsAre DEF IInv
  <1>1. ThreadsStill
    BY DEF MainMove, ThreadsStill, ThreadsNear, Alike
  <1>2. \A i : (Marked(i) /\ i \in Actions => Marked(i)')
    BY <1>0 DEF MainMove, Marked, Dispatching
  <1>3. \A i \in Actions : Mild(i)
    BY <1>1, <1>2, JobsSame, QueueStill DEF Mild, MainMove
  <1>4. Grows
    BY <1>3 DEF Grows, Mild, MainMove
  <1>5. \A i \in Actions : Conditional(i) \/ OutOfCalls(i) =>
          (Targeted(i)' => Targeted(i)) /\ (Conditional(i) /\ Targeted(i) => Targeted(i)')
    <2> SUFFICES ASSUME NEW i \in Actions, Conditional(i) \/ OutOfCalls(i)
                 PROVE  (Targeted(i)' => Targeted(i)) /\ (Conditional(i) /\ Targeted(i) => Targeted(i)')
      OBVIOUS
    <2>1. at'["main"] \in {"lock", "send"} => target'["main"] # i
      BY DEF MainMove, OutOfCalls, Dispatching
    <2> QED BY <1>0, <2>1 DEF Targeted, MainMove, Dispatching
  <1>6. \A i \in Actions : Dead(i) => Dead(i)'
    <2>1. \A k \in Actions : Dead(k) => sends'[k] = 0 /\ ~Targeted(k)'
      BY <1>5, DeadIs DEF MainMove
    <2> QED BY <1>0, <1>4, <2>1, DeadGrows DEF MainMove
  <1>7. ActionsTrue'
    BY <1>3, <1>6, MildKept DEF OrderInv, ActionsTrue, MainMove
  <1>8. Triggers' /\ Triggered' /\ NotLost'
    BY <1>1, <1>3, <1>4, <1>5, TriggeredKept, NotLostKept DEF Mild, MainMove
  <1>9. Sendings'
    <2> SUFFICES ASSUME NEW t \in Threads
                 PROVE  /\ at'[t] \in {"lock", "send"} => sends'[target'[t]] = 0
                        /\ at'[t] = "mark" => sends'[target'[t]] = 1 /\ ~Refused(target[t])'
                        /\ at'[t] = "unsent" => Refused(target[t])'
      BY DEF Sendings
    <2>1. CASE t = "main"
      BY <2>1 DEF MainMove, Dispatching
    <2>2. CASE t \in DoneThreads
      <3>1. at'[t] = at[t] /\ target'[t] = target[t] /\ UNCHANGED <<job, sends>>
        BY <2>2 DEF MainMove
      <3>2. Refused(target[t])' <=> Refused(target[t])
        BY <3>1 DEF Refused
      <3> QED BY <3>1, <3>2 DEF OrderInv, Sendings
    <2> QED BY <1>0, <2>1, <2>2
  <1> QED BY <1>3, <1>4, <1>6, <1>7, <1>8, <1>9, JobsSame DEF MainMove

(* Nothing that main has not waited for before is passed. *)
LEMMA MoveSettled ==
  ASSUME IInv, OrderInv, MainMove, NEW i \in Actions, Settled(i)
  PROVE  Settled(i)'
  BY MoveKept, SettledStays DEF Mild

(* Main passes an action that is not outstanding. *)
LEMMA NumberedSettled ==
  ASSUME IInv, Orderly, OrderInv, NEW i \in Sequenced, i < Frontier, ~Outstanding(i),
         at["main"] \notin Dispatching
  PROVE  Settled(i)
  <1>0. i \in Actions /\ ~Conditional(i) /\ sends[i] > 0
    BY NumberedAre DEF OrderInv, Plan, Sequenced, Conditionals, InPhase, OfPhases
  <1>1. ASSUME Marked(i) PROVE act[i].dispatched
    <2>1. \A t \in DoneThreads : at[t] = "mark" => target[t] # i
      BY <1>0, TargetsAre DEF Dispatching
    <2> QED BY <1>1, <2>1, ThreadsAre DEF Marked, Dispatching
  <1>2. ~Busy(i) /\ (Ran(i) => ~Pending(i))
    BY <1>0, <1>1 DEF OrderInv, ActionsTrue, ActionTrue, Outstanding
  <1> QED BY <1>0, <1>2, Stages DEF Settled, OrderInv

LEMMA ConditionalSettled ==
  ASSUME IInv, Orderly, OrderInv, NEW c \in Actions, Conditional(c), ~Outstanding(c),
         \A r \in Refs(c) : Settled(r)
  PROVE  Settled(c)
  <1>0. TypeOK /\ Refs(c) \subseteq Actions
    BY RefsAre DEF IInv
  <1>1. ASSUME Fulfilled(c), NEW t \in DoneThreads, at[t] \in Dispatching, target[t] = c PROVE FALSE
    <2>1. item[t] \in Refs(c) /\ Pending(item[t])
      BY <1>1 DEF OrderInv, Triggers, Pending, Holding
    <2>2. Ran(item[t])
      BY <1>1, <2>1, FulfilledIs
    <2> QED BY <2>1, <2>2 DEF Settled
  <1>2. ASSUME sends[c] > 0 PROVE ~Busy(c) /\ (Ran(c) => ~Pending(c))
    <2>1. Fulfilled(c)
      BY <1>2 DEF OrderInv, Triggered
    <2>2. Marked(c) => act[c].dispatched
      <3>1. at["main"] = "mark" => target["main"] # c
        BY TargetsAre DEF Dispatching
      <3> QED BY <1>1, <2>1, <3>1, ThreadsAre DEF Marked, Dispatching
    <2> QED BY <2>2 DEF OrderInv, ActionsTrue, ActionTrue, Outstanding
  <1>3. ASSUME sends[c] = 0 PROVE Dead(c) /\ ~Busy(c) /\ ~Ran(c)
    <2>1. ~Busy(c) /\ ~Ran(c)
      BY <1>3, Stages DEF OrderInv
    <2>2. ~Fulfilled(c)
      <3> SUFFICES ASSUME Fulfilled(c) PROVE FALSE
        OBVIOUS
      <3>1. ~Targeted(c)
        <4>1. at["main"] \in {"lock", "send"} => target["main"] # c
          BY TargetsAre DEF Dispatching
        <4> QED BY <1>1, <4>1, ThreadsAre DEF Targeted, Dispatching
      <3>2. ~Considered(c)
        BY <1>3, <3>1 DEF OrderInv, NotLost
      <3>3. PICK r \in Refs(c) : Pending(r)
        BY <3>2, PendingIs DEF Considered, Pending, Holding
      <3> QED BY <3>3, FulfilledIs DEF Settled
    <2>3. \E D \in SUBSET Actions : DeadSet(D) /\ Hopeless(c, D)
      <3>1. CASE Refs(c) = {}
        <4>1. DeadSet({}) /\ Hopeless(c, {})
          BY <3>1 DEF DeadSet, Hopeless
        <4> QED BY <4>1
      <3>2. ASSUME NEW r \in Refs(c), Ran(r), ~Fits(r, c)
            PROVE  \E D \in SUBSET Actions : DeadSet(D) /\ Hopeless(c, D)
        <4>1. DeadSet({}) /\ Hopeless(c, {})
          BY <3>2 DEF DeadSet, Hopeless
        <4> QED BY <4>1
      <3>3. ASSUME NEW r \in Refs(c), ~Ran(r)
            PROVE  \E D \in SUBSET Actions : DeadSet(D) /\ Hopeless(c, D)
        <4>1. CASE sends[r] = 0
          <5>1. PICK D \in SUBSET Actions : DeadSet(D) /\ r \in D
            BY <4>1 DEF Settled, Dead
          <5> QED BY <5>1 DEF Hopeless
        <4>2. CASE sends[r] # 0
          <5>1. Refused(r)
            BY <1>0, <3>3, <4>2, Stages DEF Settled, OrderInv
          <5>2. DeadSet({}) /\ Hopeless(c, {})
            BY <5>1 DEF DeadSet, Hopeless
          <5> QED BY <5>2
        <4> QED BY <4>1, <4>2
      <3> QED BY <2>2, <3>1, <3>2, <3>3, FulfilledIs
    <2>4. ~Targeted(c)
      <3>1. at["main"] \in {"lock", "send"} => target["main"] # c
        BY TargetsAre DEF Dispatching
      <3>2. \A t \in DoneThreads : at[t] \in {"lock", "send"} => target[t] # c
        BY <2>2 DEF OrderInv, Triggers, Dispatching
      <3> QED BY <3>1, <3>2, ThreadsAre DEF Targeted
    <2>5. PICK D \in SUBSET Actions : DeadSet(D) /\ Hopeless(c, D)
      BY <2>3
    <2>6. DeadSet(D \cup {c}) /\ D \cup {c} \in SUBSET Actions
      BY <1>3, <2>4, <2>5 DEF DeadSet, Hopeless
    <2> QED BY <2>1, <2>6 DEF Dead
  <1>4. sends[c] \in {0, 1}
    BY Stages DEF OrderInv
  <1> QED BY <1>2, <1>3, <1>4 DEF Settled

LEMMA MainGoes ==
  ASSUME IInv, OrderInv, MainMove, Plan', Recorded',
         \A i \in Actions : Passed(i)' => Settled(i)
  PROVE  OrderInv'
  <1>1. AllSettled'
    BY MoveSettled DEF AllSettled
  <1> QED BY <1>1, MoveKept DEF OrderInv

(* Not recording, main leaves what is recorded alone. *)
LEMMA NotRecording ==
  ASSUME OrderInv, at["main"] \notin {"record", "returned"},
         at'["main"] \notin {"record", "returned"}, UNCHANGED <<shot, calls>>,
         abort' => Late',
         \A i \in Actions : act'[i].recorded => act[i].recorded
  PROVE  Recorded'
  <1>1. \A i : ~Reached(i) /\ ~Reached(i)'
    BY DEF Reached
  <1>2. \A i : OutOfCalls(i)' <=> OutOfCalls(i)
    BY DEF OutOfCalls, table
  <1> QED BY <1>1, <1>2 DEF OrderInv, Recorded

LEMMA SentSoFar ==
  ASSUME OrderInv, UNCHANGED <<shot, calls, sends>>,
         \A i \in Sequenced : i < Frontier' => i < Frontier
  PROVE  Plan'
  <1>1. Sequenced' = Sequenced /\ table' = table
    BY TableKept
  <1> QED BY <1>1 DEF OrderInv, Plan

LEMMA SettledNow ==
  ASSUME OrderInv, NEW i \in Actions, Passed(i)
  PROVE  Settled(i)
  BY DEF OrderInv, AllSettled

LEMMA Positions ==
  ASSUME IInv
  PROVE  /\ first_g \in Nat /\ last_g \in Nat /\ item["main"] \in Nat
         /\ at \in [Threads -> Places] /\ item \in [Threads -> Nat]
         /\ target \in [Threads -> Actions \cup {NoAction}]
         /\ Sequenced \subseteq Actions /\ Conditionals \subseteq Actions /\ Actions \subseteq Nat
         /\ InPhase = Sequenced \cup Conditionals
         /\ \A i \in Sequenced : ~Conditional(i) /\ First(Sequenced) <= i /\ i < After(Sequenced)
         /\ \A i \in Conditionals : Conditional(i) /\ First(Conditionals) <= i /\ i < After(Conditionals)
         /\ First(Sequenced) \in Nat /\ After(Sequenced) \in Nat
         /\ First(Conditionals) \in Nat /\ After(Conditionals) \in Nat
         /\ \A i \in First(Sequenced) .. After(Sequenced) - 1 : i \in Sequenced
         /\ \A i \in First(Conditionals) .. After(Conditionals) - 1 : i \in Conditionals
  <1>0. TypeOK
    BY DEF IInv
  <1>1. /\ first_g \in Nat /\ last_g \in Nat /\ item["main"] \in Nat
        /\ at \in [Threads -> Places] /\ item \in [Threads -> Nat]
        /\ target \in [Threads -> Actions \cup {NoAction}]
    BY <1>0, ThreadsAre DEF TypeOK
  <1>2. /\ Sequenced \subseteq Actions /\ Conditionals \subseteq Actions
        /\ InPhase = Sequenced \cup Conditionals
        /\ \A i \in Sequenced : ~Conditional(i)
        /\ \A i \in Conditionals : Conditional(i)
    BY DEF Sequenced, Conditionals, InPhase, OfPhases
  <1>3. /\ First(Conditionals) \in Nat /\ After(Conditionals) \in Nat
        /\ Conditionals = First(Conditionals) .. After(Conditionals) - 1
        /\ First(Sequenced) \in Nat /\ After(Sequenced) \in Nat
        /\ Sequenced = First(Sequenced) .. After(Sequenced) - 1
    BY <1>0, Ranges
  <1>4. \A f, l \in Nat : \A i \in f .. l - 1 : f <= i /\ i < l
    OBVIOUS
  <1>5. (\A i \in Sequenced : First(Sequenced) <= i /\ i < After(Sequenced))
        /\ (\A i \in Conditionals : First(Conditionals) <= i /\ i < After(Conditionals))
    BY <1>3, <1>4
  <1>6. Actions \subseteq Nat
    BY Numbers
  <1> QED BY <1>1, <1>2, <1>3, <1>5, <1>6

LEMMA BeginGroupKept ==
  ASSUME IInv, OrderInv, BeginGroup
  PROVE  OrderInv'
  <1>0. TypeOK /\ "main" \in Threads /\ "main" \notin DoneThreads /\ DoneThreads \subseteq Threads
    BY ThreadsAre DEF IInv
  <1>1. /\ at["main"] = "group" /\ first_g <= After(Sequenced) /\ Frontier = first_g
        /\ UNCHANGED <<shot, noact, calls, first_g, job, sends, completed, value, deps,
                       act, abort, target>>
        /\ \/ /\ item' = [item EXCEPT !["main"] = first_g]
              /\ at' = [at EXCEPT !["main"] = "next"]
           \/ /\ ~(first_g < After(Sequenced))
              /\ item' = [item EXCEPT !["main"] = First(Conditionals)]
              /\ at' = [at EXCEPT !["main"] = "waitall"]
    BY FrontierIs DEF BeginGroup, fixed, GoTo, IInv, MainPlaced
  <1>2. /\ \A t \in DoneThreads : at'[t] = at[t] /\ item'[t] = item[t]
        /\ \/ at'["main"] = "next" /\ item'["main"] = first_g
           \/ /\ at'["main"] = "waitall" /\ item'["main"] = First(Conditionals)
              /\ first_g = After(Sequenced)
    BY <1>0, <1>1, Positions
  <1>3. /\ InPhase' = InPhase /\ Sequenced' = Sequenced
        /\ \A i : (Conditional(i)' <=> Conditional(i)) /\ (OutOfCalls(i)' <=> OutOfCalls(i))
    BY <1>1, TableKept DEF OutOfCalls, table
  <1>4. MainMove
    BY <1>1, <1>2, <1>3 DEF MainMove, Dispatching
  <1>5. Plan'
    <2>1. Frontier' = first_g
      <3>1. CASE at'["main"] = "next" /\ item'["main"] = first_g
        BY <3>1 DEF Frontier
      <3>2. CASE at'["main"] = "waitall" /\ first_g = After(Sequenced)
        BY <1>3, <3>2 DEF Frontier
      <3> QED BY <1>2, <3>1, <3>2
    <2> QED BY <1>1, <2>1, SentSoFar
  <1>6. Recorded'
    BY <1>1, <1>2, NotRecording DEF OrderInv, Recorded, Late
  <1>7. ASSUME NEW i \in Actions, Passed(i)' PROVE Settled(i)
    <2>1. Passed(i)
      <3>1. CASE at'["main"] = "next"
        BY <1>1, <1>3, <1>7, <3>1 DEF Passed, GroupPlaces, Dispatching, Late
      <3>2. CASE at'["main"] = "waitall"
        <4>1. OutOfCalls(i) \/ (i \in InPhase /\ (Conditional(i) => i < First(Conditionals)))
          BY <1>2, <1>3, <1>7, <3>2 DEF Passed, GroupPlaces, Dispatching, Late
        <4>2. i \in Conditionals => ~(i < First(Conditionals))
          BY Positions
        <4>3. i \in Sequenced => i < first_g
          BY <1>2, <3>2, Positions
        <4> QED BY <1>1, <4>1, <4>2, <4>3, Positions DEF Passed
      <3> QED BY <1>2, <3>1, <3>2
    <2> QED BY <2>1, SettledNow
  <1> QED BY <1>4, <1>5, <1>6, <1>7, MainGoes

LEMMA DispatchNextKept ==
  ASSUME IInv, Orderly, OrderInv, DispatchNext
  PROVE  OrderInv'
  <1>0. TypeOK /\ "main" \in Threads /\ "main" \notin DoneThreads /\ DoneThreads \subseteq Threads
    BY ThreadsAre DEF IInv
  <1>1. /\ at["main"] = "next" /\ Frontier = item["main"] /\ GroupSet
        /\ First(Sequenced) <= first_g /\ first_g <= item["main"] /\ item["main"] <= last_g
        /\ UNCHANGED <<shot, noact, calls, first_g, last_g, job, sends, completed, value, deps,
                       act, abort>>
        /\ \/ /\ item["main"] < last_g
              /\ target' = [target EXCEPT !["main"] = item["main"]]
              /\ item' = [item EXCEPT !["main"] = @ + 1]
              /\ at' = [at EXCEPT !["main"] = "lock"]
           \/ /\ ~(item["main"] < last_g) /\ UNCHANGED target
              /\ item' = [item EXCEPT !["main"] = first_g]
              /\ at' = [at EXCEPT !["main"] = "wait"]
    BY FrontierIs DEF DispatchNext, fixed, mainVars, GoTo, IInv, MainPlaced, GroupPlaces
  <1>2. /\ \A t \in DoneThreads : at'[t] = at[t] /\ item'[t] = item[t] /\ target'[t] = target[t]
        /\ \/ /\ at'["main"] = "lock" /\ item'["main"] = item["main"] + 1
              /\ target'["main"] = item["main"] /\ item["main"] < last_g
           \/ at'["main"] = "wait" /\ item'["main"] = first_g /\ item["main"] = last_g
    BY <1>0, <1>1, Positions
  <1>3. /\ InPhase' = InPhase /\ Sequenced' = Sequenced
        /\ \A i : (Conditional(i)' <=> Conditional(i)) /\ (OutOfCalls(i)' <=> OutOfCalls(i))
    BY <1>1, TableKept DEF OutOfCalls, table
  <1>4. ASSUME at'["main"] = "lock"
        PROVE  /\ item["main"] \in Sequenced /\ sends[item["main"]] = 0
               /\ \E k \in DOMAIN calls : calls[k] = table.phase[item["main"]]
    <2>1. item["main"] \in First(Sequenced) .. After(Sequenced) - 1
      BY <1>1, <1>2, <1>4, Positions DEF GroupSet
    <2>2. item["main"] \in Sequenced
      BY <2>1, Positions
    <2>3. sends[item["main"]] = 0
      BY <1>1, <2>2, Positions DEF IInv, NumberedPlan
    <2>4. calls \in Seq(Nat) /\ calls # <<>> /\ table.phase[item["main"]] = Head(calls)
      BY <1>0, <2>2 DEF Sequenced, InPhase, OfPhases, TypeOK
    <2>5. 1 \in DOMAIN calls /\ calls[1] = Head(calls)
      BY <2>4
    <2> QED BY <2>2, <2>3, <2>4, <2>5
  <1>5. MainMove
    <2>1. at'["main"] \in Dispatching =>
             /\ at'["main"] = "lock" /\ ~Conditional(target'["main"])
             /\ target'["main"] \in Actions /\ sends[target'["main"]] = 0
             /\ \E k \in DOMAIN calls : calls[k] = table.phase[target'["main"]]
      BY <1>2, <1>4, Positions DEF Dispatching
    <2> QED BY <1>1, <1>2, <1>3, <2>1 DEF MainMove, Dispatching
  <1>6. Plan'
    <2>1. Frontier' = item["main"]
      <3>1. CASE at'["main"] = "lock" /\ item'["main"] = item["main"] + 1
        BY <3>1, Positions DEF Frontier
      <3>2. CASE at'["main"] = "wait" /\ item["main"] = last_g
        BY <1>1, <3>2 DEF Frontier
      <3> QED BY <1>2, <3>1, <3>2
    <2> QED BY <1>1, <2>1, SentSoFar
  <1>7. Recorded'
    BY <1>1, <1>2, NotRecording DEF OrderInv, Recorded, Late
  <1>8. ASSUME NEW i \in Actions, Passed(i)' PROVE Settled(i)
    <2>1. Passed(i)
      BY <1>1, <1>2, <1>3, <1>8 DEF Passed, GroupPlaces, Dispatching, Late
    <2> QED BY <2>1, SettledNow
  <1> QED BY <1>5, <1>6, <1>7, <1>8, MainGoes

LEMMA LookingKept ==
  ASSUME IInv, Orderly, OrderInv, WaitForActions
  PROVE  OrderInv'
  <1>0. TypeOK /\ "main" \in Threads /\ "main" \notin DoneThreads /\ DoneThreads \subseteq Threads
    BY ThreadsAre DEF IInv
  <1> DEFINE i == item["main"]
  <1>1. /\ at["main"] \in {"wait", "waitall", "waitlast"}
        /\ at["main"] = "wait" => i < last_g
        /\ at["main"] \in {"waitall", "waitlast"} => i < After(Conditionals)
        /\ UNCHANGED <<shot, noact, calls, first_g, last_g, job, sends, completed, value, deps,
                       act, abort, target, at>>
        /\ \/ item' = [item EXCEPT !["main"] = first_g] /\ at["main"] = "wait"
           \/ item' = [item EXCEPT !["main"] = First(Conditionals)]
              /\ at["main"] \in {"waitall", "waitlast"}
           \/ item' = [item EXCEPT !["main"] = @ + 1] /\ ~Outstanding(i)
    BY DEF WaitForActions, Looking, fixed, mainVars
  <1>2. /\ \A t \in DoneThreads : item'[t] = item[t]
        /\ i \in Nat
        /\ \/ item'["main"] = first_g /\ at["main"] = "wait"
           \/ item'["main"] = First(Conditionals) /\ at["main"] \in {"waitall", "waitlast"}
           \/ item'["main"] = i + 1 /\ ~Outstanding(i)
    BY <1>0, <1>1, Positions
  <1>3. /\ InPhase' = InPhase /\ Sequenced' = Sequenced
        /\ \A k : (Conditional(k)' <=> Conditional(k)) /\ (OutOfCalls(k)' <=> OutOfCalls(k))
    BY <1>1, TableKept DEF OutOfCalls, table
  <1>4. MainMove
    BY <1>1, <1>2, <1>3 DEF MainMove, Dispatching
  <1>5. Plan'
    <2>1. Frontier' = Frontier
      BY <1>1, <1>3 DEF Frontier
    <2> QED BY <1>1, <2>1, SentSoFar
  <1>6. Recorded'
    <2>1. abort' => Late'
      BY <1>1 DEF OrderInv, Recorded, Late
    <2> QED BY <1>1, <2>1, NotRecording
  <1> HIDE DEF i
  <1>7. ASSUME NEW k \in Actions, Passed(k)' PROVE Settled(k)
    <2>1. CASE Passed(k)
      BY <2>1, SettledNow
    <2>2. CASE ~Passed(k)
      <3>1. k \in InPhase /\ at["main"] \in {"wait", "waitall"}
            /\ (at["main"] = "wait" => ~Conditional(k) /\ k < item'["main"] /\ ~(k < first_g))
            /\ (at["main"] = "waitall" => Conditional(k) /\ k < item'["main"])
            /\ ~(k < i)
        BY <1>1, <1>3, <1>7, <2>2 DEF Passed, Late, i, GroupPlaces, Dispatching
      <3>2. k = i /\ ~Outstanding(k)
        <4>1. k \in Nat /\ (k \in Conditionals => ~(k < First(Conditionals)))
          BY Positions
        <4>2. at["main"] = "waitall" => k \in Conditionals
          BY <3>1, Positions
        <4>3. item'["main"] = i + 1 /\ ~Outstanding(i)
          BY <1>2, <3>1, <4>1, <4>2
        <4> QED BY <1>2, <3>1, <4>1, <4>3
      <3>3. CASE at["main"] = "wait"
        <4>1. k \in Sequenced /\ k < Frontier
          BY <1>1, <3>1, <3>2, <3>3, Positions, FrontierIs
        <4> QED BY <3>2, <3>3, <4>1, NumberedSettled DEF Dispatching
      <3>4. CASE at["main"] = "waitall"
        <4>1. ASSUME NEW r \in Refs(k) PROVE Settled(r)
          <5>1. r \in Actions /\ table.phase[r] = table.phase[k]
                /\ (Conditional(r) => r < k)
            BY <1>0, RefsAre DEF Orderly, Regular, Awaited, Refs
          <5>2. r \in InPhase
            BY <3>1, <5>1 DEF InPhase, OfPhases
          <5>3. Passed(r)
            BY <3>2, <3>4, <5>1, <5>2 DEF Passed, i
          <5> QED BY <5>1, <5>3, SettledNow
        <4> QED BY <3>1, <3>2, <3>4, <4>1, ConditionalSettled
      <3> QED BY <3>1, <3>3, <3>4
    <2> QED BY <2>1, <2>2
  <1> QED BY <1>4, <1>5, <1>6, <1>7, MainGoes

LEMMA GroupDoneKept ==
  ASSUME IInv, OrderInv, GroupDone
  PROVE  OrderInv'
  <1>0. TypeOK /\ "main" \in Threads /\ "main" \notin DoneThreads /\ DoneThreads \subseteq Threads
    BY ThreadsAre DEF IInv
  <1>1. /\ at["main"] = "wait" /\ item["main"] = last_g /\ Frontier = last_g
        /\ UNCHANGED <<shot, noact, calls, last_g, job, sends, completed, value, deps,
                       act, abort, target, item>>
        /\ first_g' = last_g /\ at' = [at EXCEPT !["main"] = "group"]
    BY FrontierIs DEF GroupDone, fixed, GoTo
  <1>2. (\A t \in DoneThreads : at'[t] = at[t]) /\ at'["main"] = "group"
    BY <1>0, <1>1, Positions
  <1>3. /\ InPhase' = InPhase /\ Sequenced' = Sequenced
        /\ \A k : (Conditional(k)' <=> Conditional(k)) /\ (OutOfCalls(k)' <=> OutOfCalls(k))
    BY <1>1, TableKept DEF OutOfCalls, table
  <1>4. MainMove
    BY <1>1, <1>2, <1>3 DEF MainMove, Dispatching
  <1>5. Plan'
    <2>1. Frontier' = last_g
      BY <1>1, <1>2 DEF Frontier
    <2> QED BY <1>1, <2>1, SentSoFar
  <1>6. Recorded'
    BY <1>1, <1>2, NotRecording DEF OrderInv, Recorded, Late
  <1>7. ASSUME NEW i \in Actions, Passed(i)' PROVE Settled(i)
    <2>1. Passed(i)
      BY <1>1, <1>2, <1>3, <1>7 DEF Passed, GroupPlaces, Dispatching, Late
    <2> QED BY <2>1, SettledNow
  <1> QED BY <1>4, <1>5, <1>6, <1>7, MainGoes

LEMMA EndDependenciesKept ==
  ASSUME IInv, OrderInv, EndDependencies
  PROVE  OrderInv'
  <1>0. TypeOK /\ "main" \in Threads /\ "main" \notin DoneThreads /\ DoneThreads \subseteq Threads
    BY ThreadsAre DEF IInv
  <1>1. /\ at["main"] = "waitall" /\ item["main"] = After(Conditionals)
        /\ Frontier = After(Sequenced)
        /\ UNCHANGED <<shot, noact, calls, first_g, last_g, job, sends, completed, value, deps,
                       act, target>>
        /\ item' = [item EXCEPT !["main"] = First(Conditionals)]
        /\ at' = [at EXCEPT !["main"] = "cannot"]
    BY FrontierIs DEF EndDependencies, fixed, mainVars, GoTo, EndPlaces
  <1>2. (\A t \in DoneThreads : at'[t] = at[t] /\ item'[t] = item[t]) /\ at'["main"] = "cannot"
    BY <1>0, <1>1, Positions
  <1>3. /\ InPhase' = InPhase /\ Sequenced' = Sequenced
        /\ \A k : (Conditional(k)' <=> Conditional(k)) /\ (OutOfCalls(k)' <=> OutOfCalls(k))
    BY <1>1, TableKept DEF OutOfCalls, table
  <1>4. MainMove
    BY <1>1, <1>2, <1>3 DEF MainMove, Dispatching
  <1>5. Plan'
    <2>1. Frontier' = After(Sequenced)
      BY <1>2, <1>3 DEF Frontier
    <2> QED BY <1>1, <2>1, SentSoFar
  <1>6. Recorded'
    BY <1>1, <1>2, NotRecording DEF Late
  <1>7. ASSUME NEW i \in Actions, Passed(i)' PROVE Settled(i)
    <2>1. OutOfCalls(i) \/ i \in InPhase
      BY <1>3, <1>7 DEF Passed
    <2>2. Passed(i)
      BY <1>1, <2>1, Positions DEF Passed
    <2> QED BY <2>2, SettledNow
  <1> QED BY <1>4, <1>5, <1>6, <1>7, MainGoes

LEMMA BeginRecordKept ==
  ASSUME IInv, Orderly, OrderInv, BeginRecord
  PROVE  OrderInv'
  <1>0. TypeOK /\ "main" \in Threads /\ "main" \notin DoneThreads /\ DoneThreads \subseteq Threads
    BY ThreadsAre DEF IInv
  <1>1. /\ at["main"] = "waitlast" /\ Frontier = After(Sequenced)
        /\ UNCHANGED <<shot, noact, calls, first_g, last_g, job, sends, completed, value, deps,
                       act, target, abort, tree, failed>>
        /\ item' = [item EXCEPT !["main"] = First(InPhase)]
        /\ at' = [at EXCEPT !["main"] = "record"]
    BY FrontierIs DEF BeginRecord, fixed, mainVars, GoTo, EndPlaces, Orderly
  <1>2. /\ \A t \in DoneThreads : at'[t] = at[t] /\ item'[t] = item[t]
        /\ at'["main"] = "record" /\ item'["main"] = First(InPhase)
    BY <1>0, <1>1, Positions
  <1>3. /\ InPhase' = InPhase /\ Sequenced' = Sequenced
        /\ \A k : (Conditional(k)' <=> Conditional(k)) /\ (OutOfCalls(k)' <=> OutOfCalls(k))
    BY <1>1, TableKept DEF OutOfCalls, table
  <1>4. MainMove
    BY <1>1, <1>2, <1>3 DEF MainMove, Dispatching
  <1>5. Plan'
    <2>1. Frontier' = After(Sequenced)
      BY <1>2, <1>3 DEF Frontier
    <2> QED BY <1>1, <2>1, SentSoFar
  <1>6. Recorded'
    <2>1. \A i \in InPhase : First(InPhase) <= i
      BY FirstIs, Positions
    <2>2. \A i \in InPhase : i \in Nat /\ First(InPhase) \in Nat
      BY FirstIs, Positions
    <2>3. \A i : ~Reached(i)'
      BY <1>2, <1>3, <2>1, <2>2 DEF Reached
    <2>4. \A i : ~Reached(i)
      BY <1>1 DEF Reached
    <2>5. First(InPhase)' <= item'["main"]
      <3>1. First(InPhase) \in Nat
        BY <1>0, Ranges
      <3>2. First(InPhase)' = First(InPhase)
        BY <1>3 DEF First
      <3> QED BY <1>2, <3>1, <3>2
    <2> QED BY <1>1, <1>2, <1>3, <2>3, <2>4, <2>5 DEF OrderInv, Recorded, Late
  <1>7. ASSUME NEW i \in Actions, Passed(i)' PROVE Settled(i)
    <2>1. Passed(i)
      BY <1>1, <1>3, <1>7 DEF Passed, Late
    <2> QED BY <2>1, SettledNow
  <1> QED BY <1>4, <1>5, <1>6, <1>7, MainGoes

-----------------------------------------------------------------------------
(* An action that does not run is given a status, and is queued.            *)
NotWell(i) == \E s \in Statuses \ {"ok"} : act' = [act EXCEPT ![i].status = s]

LEMMA EndKept ==
  ASSUME IInv, OrderInv, NEW i \in Actions, ~Ran(i), ~Busy(i), Over(i),
         UNCHANGED <<shot, noact, calls, job, sends, value>>, ThreadsNear,
         NotWell(i),
         completed' = Append(completed, i),
         \A k \in Actions : /\ Dead(k) => ~Targeted(k)'
                            /\ (Busy(k) \/ Ran(k)) /\ Marked(k) => Marked(k)'
  PROVE  /\ ActionsTrue' /\ Once' /\ Grows
         /\ \A k \in Actions : /\ act'[k].recorded = act[k].recorded
                               /\ (Dead(k) => Dead(k)') /\ (Settled(k) => Settled(k)')
                               /\ (Waiting(k) => Waiting(k)') /\ (Ran(k)' => Ran(k))
                               /\ Ran(k) /\ Waiting(k)' => Waiting(k)
  <1>0. TypeOK /\ act \in [Actions -> ActionInfo]
    BY FlagsType DEF IInv
  <1>1. /\ \A k \in Actions : /\ act'[k].done = act[k].done
                              /\ act'[k].dispatched = act[k].dispatched
                              /\ act'[k].recorded = act[k].recorded
        /\ \A k \in Actions : k # i => act'[k].status = act[k].status
        /\ act'[i].status # "ok"
    BY <1>0 DEF NotWell, ActionInfo
  <1>2. /\ \A k \in Actions : k # i => (Queued(k)' <=> Queued(k)) /\ (Single(k) => Single(k)')
        /\ Queued(i)'
        /\ \A k : (Held(k)' <=> Held(k))
                  /\ ((Queued(k)' <=> Queued(k)) => (Waiting(k)' <=> Waiting(k)))
        /\ \A k : Pending(k)' <=> Queued(k)' \/ Held(k)'
    <2>1. \A k : Pending(k)' <=> Queued(k)' \/ Held(k)'
      BY DEF Pending, Queued, Held
    <2> QED BY <1>0, <2>1, Appended, StillAre
  <1>3. \A k : (Conditional(k)' <=> Conditional(k)) /\ (OutOfCalls(k)' <=> OutOfCalls(k))
    BY DEF Conditional, OutOfCalls, table
  <1>4. \A k \in Actions : k # i => Mild(k)
    BY <1>1, <1>2, JobsSame, PendingIs DEF Mild
  <1>5. Grows
    BY <1>1, <1>3, JobsSame DEF Grows
  <1>6. \A k \in Actions : Dead(k) => Dead(k)'
    <2>1. \A k \in Actions : Dead(k) => sends'[k] = 0 /\ ~Targeted(k)'
      BY DeadIs
    <2> QED BY <1>0, <1>5, <2>1, DeadGrows
  <1>7. ActionTrue(i)'
    <2>1. Over(i)' /\ ~Ran(i)' /\ ~Busy(i)'
      BY <1>5, <1>6, OverGrows, JobsSame
    <2>2. act'[i].done => sends'[i] > 0 \/ (Conditional(i)' /\ Dead(i)')
      BY <1>1, <1>3, <1>6 DEF OrderInv, ActionsTrue, ActionTrue
    <2>3. value'[i] # "none" => value'[i] # "ok"
      BY DEF OrderInv, ActionsTrue, ActionTrue
    <2> QED BY <1>1, <2>1, <2>2, <2>3 DEF ActionTrue
  <1>8. ActionsTrue'
    BY <1>4, <1>6, <1>7, MildKept DEF OrderInv, ActionsTrue
  <1>9. \A k \in Actions : (Waiting(k) => Waiting(k)') /\ (Ran(k) /\ Waiting(k)' => Waiting(k))
    <2>1. Waiting(i)'
      BY <1>2 DEF Waiting
    <2> QED BY <1>2, <2>1
  <1>10. ASSUME NEW k \in Actions, Settled(k) PROVE Settled(k)'
    <2>1. Ran(k) /\ Pending(k)' => Pending(k)
      BY <1>2, PendingIs
    <2> QED BY <1>6, <1>10, <2>1, JobsSame, SettledStays
  <1> QED BY <1>1, <1>5, <1>6, <1>8, <1>9, <1>10, JobsSame

-----------------------------------------------------------------------------
(* The end of a phase: what has not been done cannot happen, ...            *)

LEMMA CannotHappenMove ==
  ASSUME IInv, OrderInv, CannotHappen, UNCHANGED <<act, completed>>,
         at'["main"] \in {"cannot", "waitlast"},
         \A t \in DoneThreads : at'[t] = at[t]
  PROVE  OrderInv'
  <1>0. TypeOK /\ "main" \in Threads /\ "main" \notin DoneThreads /\ DoneThreads \subseteq Threads
    BY ThreadsAre DEF IInv
  <1>1. /\ at["main"] = "cannot" /\ Frontier = After(Sequenced)
        /\ UNCHANGED <<shot, noact, calls, first_g, last_g, job, sends, completed, value, deps,
                       act, target, abort>>
        /\ \E n : item' = [item EXCEPT !["main"] = n]
    BY FrontierIs DEF CannotHappen, fixed, mainVars, EndPlaces
  <1>2. \A t \in DoneThreads : item'[t] = item[t]
    BY <1>0, <1>1, Positions
  <1>3. /\ InPhase' = InPhase /\ Sequenced' = Sequenced
        /\ \A k : (Conditional(k)' <=> Conditional(k)) /\ (OutOfCalls(k)' <=> OutOfCalls(k))
    BY <1>1, TableKept DEF OutOfCalls, table
  <1>4. MainMove
    BY <1>1, <1>2, <1>3 DEF MainMove, Dispatching
  <1>5. Plan'
    <2>1. Frontier' = After(Sequenced)
      BY <1>3 DEF Frontier
    <2> QED BY <1>1, <2>1, SentSoFar
  <1>6. Recorded'
    BY <1>1, NotRecording DEF Late
  <1>7. ASSUME NEW i \in Actions, Passed(i)' PROVE Settled(i)
    <2>1. Passed(i)
      BY <1>1, <1>3, <1>7 DEF Passed, Late
    <2> QED BY <2>1, SettledNow
  <1> QED BY <1>4, <1>5, <1>6, <1>7, MainGoes

LEMMA CannotHappenEnds ==
  ASSUME IInv, Orderly, OrderInv, CannotHappen, NEW i \in Actions, i = item["main"],
         i < After(Conditionals), ~act[i].done
  PROVE  OrderInv'
  <1>0. TypeOK /\ "main" \in Threads /\ "main" \notin DoneThreads /\ DoneThreads \subseteq Threads
    BY ThreadsAre DEF IInv
  <1>t. at \in [Threads -> Places] /\ act \in [Actions -> ActionInfo]
        /\ item \in [Threads -> Nat]
    BY <1>0, FlagsType DEF TypeOK
  <1>1. /\ at["main"] = "cannot" /\ Frontier = After(Sequenced)
        /\ UNCHANGED <<shot, noact, calls, first_g, last_g, job, sends, value, deps,
                       target, abort, tree, failed>>
        /\ item' = [item EXCEPT !["main"] = i + 1]
        /\ act' = [act EXCEPT ![i].status = "CANT_HAPPEN"]
        /\ DoActionDone(i, at) /\ completed' = Append(completed, i)
    BY FrontierIs DEF CannotHappen, SetStatus, DoActionDone, fixed, mainVars, EndPlaces
  <1>2. i \in Conditionals /\ i \in Actions /\ Conditional(i)
    <2>1. i \in First(Conditionals) .. After(Conditionals) - 1
      BY <1>1, Positions DEF IInv, MainPlaced, EndPlaces
    <2> QED BY <2>1, Positions
  <1>3. Settled(i) /\ Over(i) /\ ~Ran(i) /\ ~Busy(i)
    <2>1. Passed(i)
      BY <1>1, <1>2 DEF Passed, Late, Conditionals
    <2>2. Settled(i)
      BY <1>2, <2>1, SettledNow
    <2>3. ~Ran(i) /\ ~Busy(i)
      BY <1>2, <2>2 DEF Settled, OrderInv, ActionsTrue, ActionTrue
    <2>4. Over(i)
      BY <1>2, <2>2, <2>3, Stages DEF Settled, Over, OrderInv
    <2> QED BY <2>2, <2>3, <2>4
  <1>4. /\ at'["main"] = at["main"]
        /\ \A t \in DoneThreads : at'[t] = at[t] \/ (at[t] = "absent" /\ at'[t] = "starting")
        /\ \A t \in DoneThreads : item'[t] = item[t]
    BY <1>0, <1>t, <1>1, <1>2, DoneType
  <1>5. ThreadsStill
    BY <1>0, <1>1, <1>4 DEF ThreadsStill, ThreadsNear, Alike, Holding, Dispatching
  <1>6. /\ InPhase' = InPhase /\ Sequenced' = Sequenced
        /\ \A k : (Conditional(k)' <=> Conditional(k)) /\ (OutOfCalls(k)' <=> OutOfCalls(k))
    BY <1>1, TableKept DEF OutOfCalls, table
  <1>7. \A k : (Targeted(k)' <=> Targeted(k))
               /\ ((\E t \in Threads : at[t] = "mark" /\ target[t] = k) =>
                     \E t \in Threads : at'[t] = "mark" /\ target'[t] = k)
    <2>1. \A t \in Threads : /\ at'[t] \in {"lock", "send"} <=> at[t] \in {"lock", "send"}
                             /\ at'[t] = "mark" <=> at[t] = "mark"
      BY <1>4, ThreadsAre
    <2> QED BY <1>1, <2>1 DEF Targeted
  <1>8. \A k \in Actions : /\ Dead(k) => ~Targeted(k)'
                           /\ Marked(k) => Marked(k)'
    <2>1. \A k \in Actions : act'[k].dispatched = act[k].dispatched
      BY <1>t, <1>1 DEF ActionInfo
    <2> QED BY <1>7, <2>1, DeadIs DEF Marked
  <1>9. /\ ActionsTrue' /\ Once' /\ Grows
        /\ \A k \in Actions : /\ act'[k].recorded = act[k].recorded
                              /\ (Settled(k) => Settled(k)')
                              /\ (Waiting(k) => Waiting(k)') /\ (Ran(k)' => Ran(k))
                              /\ Ran(k) /\ Waiting(k)' => Waiting(k)
    <2>1. NotWell(i)
      BY <1>1 DEF NotWell, Statuses
    <2>2. ThreadsNear /\ UNCHANGED <<shot, noact, calls, job, sends, value>>
          /\ completed' = Append(completed, i)
      BY <1>1, <1>5 DEF ThreadsStill
    <2>3. ~Ran(i) /\ ~Busy(i) /\ Over(i)
      BY <1>3
    <2>4. \A k \in Actions : /\ Dead(k) => ~Targeted(k)'
                             /\ (Busy(k) \/ Ran(k)) /\ Marked(k) => Marked(k)'
      BY <1>8
    <2> QED BY <2>1, <2>2, <2>3, <2>4, EndKept
  <1>10. Triggers' /\ Triggered' /\ NotLost'
    BY <1>1, <1>5, <1>7, <1>9, TriggeredKept, NotLostKept
  <1>11. AllSettled'
    <2> SUFFICES ASSUME NEW k \in Actions, Passed(k)' PROVE Settled(k)'
      BY DEF AllSettled
    <2>1. Passed(k)
      BY <1>1, <1>4, <1>6 DEF Passed, Late
    <2> QED BY <1>9, <2>1, SettledNow
  <1>12. Recorded'
    BY <1>1, <1>4, <1>9, NotRecording DEF Late
  <1>13. Plan'
    <2>1. Frontier' = After(Sequenced)
      BY <1>1, <1>4, <1>6 DEF Frontier
    <2> QED BY <1>1, <2>1, SentSoFar
  <1>14. Sendings'
    <2> SUFFICES ASSUME NEW t \in Threads
                 PROVE  /\ at'[t] \in {"lock", "send"} => sends'[target'[t]] = 0
                        /\ at'[t] = "mark" => sends'[target'[t]] = 1 /\ ~Refused(target[t])'
                        /\ at'[t] = "unsent" => Refused(target[t])'
      BY DEF Sendings
    <2>1. at'[t] = at[t] \/ at'[t] = "starting"
      BY <1>4, ThreadsAre
    <2>2. Refused(target[t])' <=> Refused(target[t])
      BY <1>1 DEF Refused
    <2> QED BY <1>1, <2>1, <2>2 DEF OrderInv, Sendings
  <1> QED BY <1>9, <1>10, <1>11, <1>12, <1>13, <1>14 DEF OrderInv

LEMMA CannotHappenKept ==
  ASSUME IInv, Orderly, OrderInv, CannotHappen
  PROVE  OrderInv'
  <1>0. TypeOK /\ "main" \in Threads /\ "main" \notin DoneThreads /\ DoneThreads \subseteq Threads
    BY ThreadsAre DEF IInv
  <1>t. at \in [Threads -> Places] /\ act \in [Actions -> ActionInfo]
        /\ item \in [Threads -> Nat]
    BY <1>0, FlagsType DEF TypeOK
  <1> DEFINE i == item["main"]
  <1>1. CASE ~(i < After(Conditionals))
    <2>1. UNCHANGED <<act, completed>> /\ at' = [at EXCEPT !["main"] = "waitlast"]
      BY <1>1 DEF CannotHappen, GoTo, NotDone
    <2> QED BY <1>0, <1>t, <2>1, CannotHappenMove
  <1>2. CASE i < After(Conditionals) /\ act[i].done
    <2>1. UNCHANGED <<act, completed, at>> /\ at["main"] = "cannot"
      BY <1>2 DEF CannotHappen, NotDone
    <2> QED BY <2>1, CannotHappenMove
  <1>3. CASE i < After(Conditionals) /\ ~act[i].done
    <2>1. i \in Actions
      <3>1. i \in First(Conditionals) .. After(Conditionals) - 1
        BY <1>3, Positions DEF CannotHappen, IInv, MainPlaced, EndPlaces
      <3> QED BY <3>1, Positions
    <2> QED BY <1>3, <2>1, CannotHappenEnds
  <1> QED BY <1>1, <1>2, <1>3

(* ... what has been is recorded, ...                                       *)

LEMMA PhaseRange ==
  ASSUME IInv
  PROVE  /\ InPhase \subseteq Actions /\ First(InPhase) \in Nat /\ After(InPhase) \in Nat
         /\ \A n \in Nat : n \in InPhase <=> First(InPhase) <= n /\ n < After(InPhase)
         /\ \A i \in InPhase : i \in Nat /\ ~OutOfCalls(i)
  <1>0. TypeOK /\ calls \in Seq(Nat)
    BY DEF IInv, TypeOK
  <1>1. InPhase \subseteq Actions
    BY DEF InPhase, OfPhases
  <1>2. \A i, k \in InPhase : \A j \in Actions : i <= j /\ j <= k => j \in InPhase
    BY <1>0, PhaseRanges DEF InPhase
  <1>3. /\ First(InPhase) \in Nat /\ After(InPhase) \in Nat
        /\ InPhase = First(InPhase) .. After(InPhase) - 1
    BY <1>1, <1>2, RangeIs
  <1>4. ASSUME NEW i \in InPhase PROVE ~OutOfCalls(i)
    <2>1. calls # <<>> /\ table.phase[i] = Head(calls)
      BY DEF InPhase, OfPhases
    <2>2. 1 \in DOMAIN calls /\ calls[1] = Head(calls)
      BY <1>0, <2>1
    <2> QED BY <2>1, <2>2 DEF OutOfCalls
  <1>5. \A f, l \in Nat : \A n \in Nat : n \in f .. l - 1 <=> f <= n /\ n < l
    OBVIOUS
  <1>6. \A n \in Nat : n \in InPhase <=> First(InPhase) <= n /\ n < After(InPhase)
    BY <1>3, <1>5
  <1>7. \A i \in InPhase : i \in Nat
    BY <1>1, Numbers
  <1> QED BY <1>1, <1>3, <1>4, <1>6, <1>7

LEMMA RecordStatusKept ==
  ASSUME IInv, Orderly, OrderInv, RecordStatus
  PROVE  OrderInv'
  <1>0. TypeOK /\ "main" \in Threads /\ "main" \notin DoneThreads /\ DoneThreads \subseteq Threads
    BY ThreadsAre DEF IInv
  <1>t. at \in [Threads -> Places] /\ act \in [Actions -> ActionInfo]
        /\ item \in [Threads -> Nat] /\ tree \in [Actions -> Statuses]
    BY <1>0, FlagsType DEF TypeOK
  <1>p. PICK i \in Nat : i = item["main"]
    BY <1>0, <1>t
  <1>1. /\ at["main"] = "record" /\ Frontier = After(Sequenced)
        /\ UNCHANGED <<shot, noact, calls, first_g, last_g, job, sends, completed, value, deps,
                       target, abort>>
        /\ \/ /\ i < After(InPhase) /\ UNCHANGED at
              /\ item' = [item EXCEPT !["main"] = i + 1]
              /\ \/ /\ act[i].done /\ ~act[i].recorded
                    /\ tree' = [tree EXCEPT ![i] = act[i].status]
                    /\ act' = [act EXCEPT ![i].recorded = TRUE]
                    /\ failed' = (failed \/ (~Odd(act[i].status) /\ i \in Essential))
                 \/ ~(act[i].done /\ ~act[i].recorded) /\ UNCHANGED <<tree, act, failed>>
           \/ /\ ~(i < After(InPhase)) /\ UNCHANGED <<item, tree, act, failed>>
              /\ at' = [at EXCEPT !["main"] = "returned"]
    BY <1>p, FrontierIs DEF RecordStatus, fixed, mainVars, GoTo
  <1>2. /\ \A t \in DoneThreads : at'[t] = at[t] /\ item'[t] = item[t]
        /\ at'["main"] \in {"record", "returned"}
        /\ at'["main"] = "record" => i < After(InPhase) /\ item'["main"] = i + 1
        /\ at'["main"] = "returned" => ~(i < After(InPhase))
    BY <1>0, <1>t, <1>1
  <1>3. /\ InPhase' = InPhase /\ Sequenced' = Sequenced
        /\ \A k : (Conditional(k)' <=> Conditional(k)) /\ (OutOfCalls(k)' <=> OutOfCalls(k))
    BY <1>1, TableKept DEF OutOfCalls, table
  <1>4. /\ \A k \in Actions : /\ act'[k].status = act[k].status /\ act'[k].done = act[k].done
                              /\ act'[k].dispatched = act[k].dispatched
        /\ \A k \in Actions : k # i => act'[k].recorded = act[k].recorded
    BY <1>t, <1>1 DEF ActionInfo
  <1>5. MainMove
    BY <1>1, <1>2, <1>3, <1>4 DEF MainMove, Dispatching
  <1>6. Plan'
    <2>1. Frontier' = After(Sequenced)
      BY <1>2, <1>3 DEF Frontier
    <2> QED BY <1>1, <2>1, SentSoFar
  <1>7. \A k \in InPhase : Settled(k)
    BY <1>1, PhaseRange, SettledNow DEF Passed, Late
  <1>8. i < After(InPhase) =>
          /\ i \in InPhase /\ i \in Actions /\ ~act[i].recorded
          /\ Ran(i) => act[i].done /\ act[i].status \in {"ok", "error"}
    <2> SUFFICES ASSUME i < After(InPhase)
                 PROVE  /\ i \in InPhase /\ i \in Actions /\ ~act[i].recorded
                        /\ Ran(i) => act[i].done /\ act[i].status \in {"ok", "error"}
      OBVIOUS
    <2>1. i \in InPhase /\ i \in Actions
      BY <1>1, <1>p, PhaseRange DEF OrderInv, Recorded
    <2>2. ~act[i].recorded
      <3>1. ~Reached(i)
        BY <1>1, <1>p DEF Reached
      <3> QED BY <2>1, <3>1, PhaseRange DEF OrderInv, Recorded
    <2> QED BY <1>7, <2>1, <2>2 DEF Settled, OrderInv, ActionsTrue, ActionTrue
  <1>9. \A k \in Actions : Ran(k)' <=> Ran(k)
    BY <1>1, JobsSame
  <1>10. Recorded'
    <2>1. abort' => Late'
      BY <1>2 DEF Late
    <2>2. at'["main"] = "record" => First(InPhase)' <= item'["main"]
      <3>1. First(InPhase)' = First(InPhase) /\ First(InPhase) \in Nat
        BY <1>3, PhaseRange DEF First
      <3> QED BY <1>1, <1>2, <1>p, <3>1 DEF OrderInv, Recorded
    <2>3. ASSUME NEW k \in Actions, Reached(k)'
          PROVE  Reached(k) \/ (k = i /\ i < After(InPhase))
      <3>1. k \in InPhase /\ k \in Nat
        BY <1>3, <2>3, PhaseRange DEF Reached
      <3>2. CASE at'["main"] = "returned"
        <4>1. k < item["main"]
          BY <1>2, <1>p, <3>1, <3>2, PhaseRange
        <4> QED BY <1>1, <3>1, <4>1 DEF Reached
      <3>3. CASE at'["main"] = "record"
        <4>1. k < i + 1
          BY <1>2, <2>3, <3>3 DEF Reached
        <4> QED BY <1>1, <1>2, <1>p, <3>1, <3>3, <4>1 DEF Reached
      <3> QED BY <1>2, <3>2, <3>3
    <2>4. ASSUME NEW k \in Actions, Reached(k) \/ (k = i /\ i < After(InPhase)) PROVE Reached(k)'
      <3>1. k \in InPhase /\ k \in Nat
        BY <1>8, <2>4, PhaseRange DEF Reached
      <3> QED BY <1>1, <1>2, <1>3, <1>p, <2>4, <3>1 DEF Reached
    <2>5. ASSUME NEW k \in Actions
          PROVE  /\ act'[k].recorded => OutOfCalls(k)' \/ Reached(k)'
                 /\ Reached(k)' /\ Ran(k)' =>
                      tree'[k] = act'[k].status /\ (tree'[k] = "error" /\ k \in Essential => failed')
      <3>1. CASE k # i
        <4>1. act'[k].recorded = act[k].recorded /\ tree'[k] = tree[k] /\ (failed => failed')
          <5>1. act'[k].recorded = act[k].recorded /\ tree'[k] = tree[k]
            BY <1>t, <1>1, <1>4, <3>1
          <5>2. failed => failed'
            BY <1>1, Zenon
          <5> QED BY <5>1, <5>2, Zenon
        <4> QED BY <1>3, <1>4, <1>9, <2>3, <2>4, <3>1, <4>1 DEF OrderInv, Recorded
      <3>2. CASE k = i /\ i < After(InPhase)
        <4>1. Reached(k)'
          BY <2>4, <3>2
        <4>2. Ran(k) => tree'[k] = act'[k].status
                        /\ (tree'[k] = "error" /\ k \in Essential => failed')
          <5> SUFFICES ASSUME Ran(k)
                       PROVE  tree'[k] = act'[k].status
                              /\ (tree'[k] = "error" /\ k \in Essential => failed')
            OBVIOUS
          <5>1. tree'[k] = act[k].status /\ failed' = (failed \/ (~Odd(act[k].status) /\ k \in Essential))
            BY <1>t, <1>1, <1>8, <3>2
          <5> QED BY <1>4, <5>1 DEF Odd
        <4> QED BY <1>9, <4>1, <4>2
      <3>3. CASE k = i /\ ~(i < After(InPhase))
        <4>1. UNCHANGED <<act, tree, failed>>
          BY <1>1, <3>3
        <4> QED BY <1>3, <1>9, <2>3, <2>4, <3>3, <4>1 DEF OrderInv, Recorded
      <3> QED BY <3>1, <3>2, <3>3
    <2> QED BY <2>1, <2>2, <2>5 DEF Recorded
  <1>11. ASSUME NEW k \in Actions, Passed(k)' PROVE Settled(k)
    <2>1. Passed(k)
      BY <1>1, <1>3, <1>11 DEF Passed, Late
    <2> QED BY <2>1, SettledNow
  <1> QED BY <1>5, <1>6, <1>10, <1>11, MainGoes

(* ... and the next phase begins.                                           *)
LEMMA NextPhaseKept ==
  ASSUME IInv, IInv', Orderly, OrderInv, NextPhase
  PROVE  OrderInv'
  <1>0. TypeOK /\ "main" \in Threads /\ "main" \notin DoneThreads /\ DoneThreads \subseteq Threads
    BY ThreadsAre DEF IInv
  <1>t. at \in [Threads -> Places] /\ calls \in Seq(Nat)
    BY <1>0 DEF TypeOK
  <1>1. /\ at["main"] = "returned" /\ calls # <<>> /\ calls' = Tail(calls)
        /\ UNCHANGED <<shot, noact, last_g, job, sends, completed, value, deps,
                       target, act, item, tree>>
        /\ \/ Tail(calls) = <<>> /\ UNCHANGED <<at, abort, failed, first_g>>
           \/ /\ Tail(calls) # <<>> /\ ~abort'
              /\ first_g' = First({i \in OfPhases(Tail(calls)) : ~Conditional(i)})
              /\ at' = [at EXCEPT !["main"] = "group"]
    BY DEF NextPhase, fixed, GoTo
  <1>2. /\ \A t \in DoneThreads : at'[t] = at[t]
        /\ \/ at'["main"] = "returned" /\ calls' = <<>>
           \/ at'["main"] = "group" /\ ~abort'
    BY <1>0, <1>t, <1>1
  <1>3. /\ Len(calls) \in Nat /\ Len(calls) > 0 /\ DOMAIN calls = 1 .. Len(calls)
        /\ DOMAIN calls' = 1 .. Len(calls) - 1 /\ Len(calls') = Len(calls) - 1
        /\ \A m \in 1 .. Len(calls) - 1 : calls'[m] = calls[m + 1]
        /\ Head(calls) = calls[1]
    BY <1>t, <1>1
  <1>4. /\ table' = table /\ \A k : Conditional(k)' <=> Conditional(k)
        /\ calls' = <<>> => InPhase' = {}
        /\ at'["main"] = "group" => first_g' = First(Sequenced)'
    <2>1. table' = table /\ \A k : Conditional(k)' <=> Conditional(k)
      BY <1>1 DEF Conditional, table
    <2>2. calls' = <<>> => InPhase' = {}
      BY DEF InPhase, OfPhases
    <2>3. Sequenced' = {i \in OfPhases(Tail(calls)) : ~Conditional(i)}
      BY <1>1, <2>1 DEF OfPhases, InPhase, Sequenced, Conditionals
    <2>4. at'["main"] = "group" => first_g' = First(Sequenced)'
      BY <1>1, <2>3 DEF First
    <2> QED BY <2>1, <2>2, <2>4
  <1>5. \A i : OutOfCalls(i) \/ i \in InPhase => OutOfCalls(i)'
    <2> SUFFICES ASSUME NEW i, OutOfCalls(i) \/ i \in InPhase,
                        NEW k \in DOMAIN calls', calls'[k] = table.phase[i]
                 PROVE  FALSE
      BY <1>4 DEF OutOfCalls
    <2>1. k + 1 \in DOMAIN calls /\ calls[k + 1] = table.phase[i] /\ k + 1 # 1
      BY <1>3
    <2>2. 1 \in DOMAIN calls /\ (i \in InPhase => calls[1] = table.phase[i])
      BY <1>3 DEF InPhase, OfPhases
    <2> QED BY <2>1, <2>2 DEF OutOfCalls, IInv, MainPlaced
  <1>6. \A i \in Actions : OutOfCalls(i)' => OutOfCalls(i) \/ i \in InPhase
    <2> SUFFICES ASSUME NEW i \in Actions, OutOfCalls(i)', i \notin InPhase,
                        NEW k \in DOMAIN calls, calls[k] = table.phase[i]
                 PROVE  FALSE
      BY DEF OutOfCalls
    <2>1. k # 1
      BY <1>1, <1>3 DEF InPhase, OfPhases
    <2>2. k - 1 \in DOMAIN calls' /\ calls'[k - 1] = calls[k]
      BY <1>3, <2>1
    <2> QED BY <1>4, <2>2 DEF OutOfCalls
  <1>7. MainMove
    BY <1>1, <1>2, <1>5 DEF MainMove, Dispatching
  <1>8. \A i \in Sequenced' : at'["main"] = "group" /\ ~(i < first_g')
    <2>1. Sequenced' \subseteq InPhase'
      BY DEF Sequenced
    <2>2. (\A i \in Sequenced : i \in Nat /\ First(Sequenced) \in Nat /\ First(Sequenced) <= i)'
      <3>1. \A i \in Sequenced : i \in Nat
        BY Numbers DEF Sequenced, InPhase, OfPhases
      <3>2. (\A i \in Sequenced : i \in Nat)'
        BY Numbers DEF Sequenced, InPhase, OfPhases
      <3>3. Sequenced' # {} => (First(Sequenced)' \in Sequenced'
                                /\ \A i \in Sequenced' : First(Sequenced)' <= i)
        BY <3>2, Least DEF First
      <3> QED BY <3>2, <3>3
    <2> QED BY <1>2, <1>4, <2>1, <2>2
  <1>9. Plan'
    <2>1. ASSUME NEW i \in Actions, NEW m \in 2 .. Len(calls'), table'.phase[i] = calls'[m]
          PROVE  sends'[i] = 0
      <3>1. m + 1 \in 2 .. Len(calls) /\ table.phase[i] = calls[m + 1]
        BY <1>3, <1>4, <2>1
      <3> QED BY <1>1, <3>1 DEF OrderInv, Plan
    <2>2. \A i \in Sequenced' : ~(i < Frontier')
      BY <1>8 DEF Frontier
    <2> QED BY <2>1, <2>2 DEF Plan
  <1>10. Recorded'
    <2>1. abort' => Late'
      BY <1>2 DEF Late
    <2>2. \A i \in Actions : ~Reached(i)'
      BY <1>2, <1>4 DEF Reached
    <2>3. \A i \in Actions : act'[i].recorded => OutOfCalls(i)'
      BY <1>1, <1>5 DEF OrderInv, Recorded, Reached
    <2> QED BY <1>2, <2>1, <2>2, <2>3 DEF Recorded
  <1>11. ASSUME NEW i \in Actions, Passed(i)' PROVE Settled(i)
    <2>1. CASE OutOfCalls(i)'
      BY <1>1, <1>6, <2>1, SettledNow DEF Passed, Late
    <2>2. CASE ~OutOfCalls(i)'
      <3>1. i \in InPhase' /\ at'["main"] = "group"
        BY <1>2, <1>4, <1>11, <2>2 DEF Passed
      <3>2. ~Conditional(i) /\ i < first_g'
        BY <1>4, <1>11, <2>2, <3>1 DEF Passed, Late, GroupPlaces
      <3>3. i \in Sequenced'
        BY <1>4, <3>1, <3>2 DEF Sequenced, Conditionals
      <3> QED BY <1>8, <3>2, <3>3
    <2> QED BY <2>1, <2>2
  <1> QED BY <1>7, <1>9, <1>10, <1>11, MainGoes

-----------------------------------------------------------------------------
(* An action is dispatched, by main or by a thread of completed actions.    *)

LEMMA DispatchStill ==
  ASSUME IInv, NEW t \in Threads, at[t] \in Dispatching,
         at'[t] \in Dispatching \cup {Return(t)},
         UNCHANGED <<shot, noact, calls, first_g, item, deps, target>>,
         t # "main" => at'["main"] = at["main"],
         \A u \in DoneThreads : u # t =>
           at'[u] = at[u] \/ (at[u] = "absent" /\ at'[u] = "starting")
  PROVE  ThreadsStill /\ MainAlike
  <1>1. MainAlike
    <2>1. CASE t = "main"
      BY <2>1 DEF MainAlike, Return, GroupPlaces, Dispatching
    <2>2. CASE t # "main"
      BY <2>2 DEF MainAlike
    <2> QED BY <2>1, <2>2
  <1>2. ASSUME NEW u \in DoneThreads
        PROVE  Alike(at[u], at'[u]) /\ (at'[u] \in Dispatching => at[u] \in Dispatching)
    <2>1. CASE u = t
      <3>1. at'[u] \in {"refs"} \cup Dispatching
        BY <2>1, ThreadsAre DEF Return
      <3> QED BY <2>1, <3>1 DEF Alike
    <2>2. CASE u # t
      BY <2>2 DEF Alike, Holding, Dispatching
    <2> QED BY <2>1, <2>2
  <1> QED BY <1>1, <1>2 DEF ThreadsStill, ThreadsNear

(* What is sent is not on its way anywhere yet. *)
LEMMA NewlySent ==
  ASSUME IInv, Orderly, OrderInv, NEW t \in Threads, at[t] = "send",
         NEW c \in Actions, c = target[t]
  PROVE  /\ sends[c] = 0 /\ ~Busy(c) /\ ~Ran(c) /\ ~Refused(c) /\ ~Dead(c) /\ ~Over(c)
         /\ ~Pending(c) /\ ~act[c].done
         /\ \A m \in 2 .. Len(calls) : table.phase[c] # calls[m]
         /\ Conditional(c) => Fulfilled(c) /\ Considered(c)
         /\ \A u \in Threads : at[u] \in Dispatching /\ target[u] = c => u = t
  <1>0. TypeOK /\ Threads = {"main"} \cup DoneThreads /\ "main" \notin DoneThreads
        /\ at[t] \in Dispatching
    BY ThreadsAre DEF IInv, Dispatching
  <1>1. sends[c] = 0
    BY DEF OrderInv, Sendings
  <1>2. ~Busy(c) /\ ~Ran(c) /\ ~Refused(c)
    BY <1>1, Stages DEF OrderInv
  <1>3. ~Dead(c)
    BY DeadIs DEF Targeted
  <1>4. ~Over(c) /\ ~Pending(c) /\ ~act[c].done
    BY <1>1, <1>2, <1>3 DEF Over, OrderInv, ActionsTrue, ActionTrue
  <1>5. Conditional(c) => t \in DoneThreads /\ Fulfilled(c) /\ Considered(c) /\ item[t] \in Refs(c)
    BY <1>0, TargetsAre DEF OrderInv, Triggers
  <1>6. \A m \in 2 .. Len(calls) : table.phase[c] # calls[m]
    <2>1. CASE ~Conditional(c)
      <3>1. c \in Sequenced
        BY <1>0, <2>1, TargetsAre
      <3>2. calls # <<>> /\ table.phase[c] = Head(calls)
        BY <3>1 DEF Sequenced, InPhase, OfPhases
      <3>3. calls \in Seq(Nat) /\ Len(calls) \in Nat /\ DOMAIN calls = 1 .. Len(calls)
            /\ Head(calls) = calls[1] /\ 1 \in DOMAIN calls
        BY <1>0, <3>2 DEF TypeOK
      <3>4. \A m \in 2 .. Len(calls) : m \in DOMAIN calls /\ m # 1
        BY <3>3
      <3> QED BY <3>2, <3>3, <3>4 DEF IInv, MainPlaced
    <2>2. CASE Conditional(c)
      <3>1. item[t] \in Actions /\ Ran(item[t]) /\ table.phase[item[t]] = table.phase[c]
        BY <1>0, <1>5, <2>2, RefsAre, FulfilledIs DEF Orderly, Regular, Awaited, Refs
      <3>2. sends[item[t]] # 0
        BY <3>1, Stages DEF OrderInv
      <3> QED BY <3>1, <3>2 DEF OrderInv, Plan
    <2> QED BY <2>1, <2>2
  <1>7. ASSUME NEW u \in Threads, at[u] \in Dispatching, target[u] = c PROVE u = t
    <2>1. u \in DoneThreads <=> t \in DoneThreads
      BY <1>0, <1>7, TargetsAre
    <2>2. u \in DoneThreads /\ t \in DoneThreads => u = t
      <3>1. at[u] # "absent" /\ at[t] # "absent"
        BY <1>7 DEF Dispatching
      <3> QED BY <3>1 DEF Orderly, Regular, OneThread
    <2> QED BY <1>0, <2>1, <2>2
  <1> QED BY <1>1, <1>2, <1>3, <1>4, <1>5, <1>6, <1>7

LEMMA SendKept ==
  ASSUME IInv, Orderly, OrderInv, NoneLost', NEW t \in Threads, Send(t)
  PROVE  OrderInv'
  <1>0. TypeOK /\ Threads = {"main"} \cup DoneThreads /\ "main" \notin DoneThreads
        /\ at \in [Threads -> Places]
    BY ThreadsAre DEF IInv, TypeOK
  <1>a. target[t] \in Actions /\ at[t] = "send" /\ at[t] \in Dispatching
    BY DispatchType DEF Dispatch, Send, Dispatching
  <1>b. PICK c \in Actions : c = target[t]
    BY <1>a
  <1>1. /\ UNCHANGED <<shot, noact, calls, first_g, last_g, abort, tree, failed, item, deps,
                       target, act, value, completed>>
    BY DEF Send, fixed, mainVars
  <1>2. /\ sends[c] = 0 /\ ~Busy(c) /\ ~Ran(c) /\ ~Refused(c) /\ ~Dead(c) /\ ~Over(c)
        /\ ~Pending(c) /\ ~act[c].done
        /\ \A m \in 2 .. Len(calls) : table.phase[c] # calls[m]
        /\ Conditional(c) => Fulfilled(c) /\ Considered(c)
        /\ \A u \in Threads : at[u] \in Dispatching /\ target[u] = c => u = t
    BY <1>a, <1>b, NewlySent
  <1>3. /\ sends'[c] = 1 /\ \A i \in Actions : i # c => sends'[i] = sends[i]
        /\ 1 \in 1 .. MaxSends
        /\ \A m \in 1 .. MaxSends : m # 1 => job'[<<c, m>>] = job[<<c, m>>]
        /\ \/ job'[<<c, 1>>] = "sent" /\ at' = GoTo(t, "mark")
           \/ job'[<<c, 1>>] = "refused" /\ at' = GoTo(t, "unsent")
    <2>1. sends[c] + 1 = 1
      BY <1>2
    <2>2. job'[<<c, 1>>] # "lost" \/ 1 \notin 1 .. MaxSends
      BY DEF NoneLost, Job
    <2> QED BY <1>a, <1>b, <2>1, <2>2, SendJobs
  <1>4. \A i \in Actions : i # c => /\ (Busy(i)' <=> Busy(i)) /\ (Ran(i)' <=> Ran(i))
                                    /\ (Refused(i)' <=> Refused(i))
                                    /\ (sends[i] = 1 => job'[<<i, 1>>] = job[<<i, 1>>])
    <2>1. /\ job \in [Job -> Jobs!JobStates] /\ \A i \in Actions, n \in 1 .. MaxSends : <<i, n>> \in Job
      BY JobIs
    <2>2. \E n, how : job' = [job EXCEPT ![<<c, n>>] = how]
      BY <1>b DEF Send, Jobs!Send, Jobs!Refuse
    <2>3. \A i \in Actions, m \in 1 .. MaxSends : i # c => job'[<<i, m>>] = job[<<i, m>>]
      BY <2>1, <2>2
    <2>4. 1 \in 1 .. MaxSends
      BY <1>3
    <2> QED BY <2>3, <2>4 DEF Busy, Ran, Refused, Jobs!Running
  <1>5. /\ Busy(c)' <=> at'[t] = "mark"
        /\ Refused(c)' <=> at'[t] = "unsent"
        /\ ~Ran(c)' /\ at'[t] \in {"mark", "unsent"}
        /\ \A u \in Threads : u # t => at'[u] = at[u]
    <2>1. \A m \in 1 .. MaxSends : m # 1 => job'[<<c, m>>] = "none"
      BY <1>2, <1>3, JobIs
    <2>2. \/ job'[<<c, 1>>] = "sent" /\ at'[t] = "mark"
          \/ job'[<<c, 1>>] = "refused" /\ at'[t] = "unsent"
      BY <1>0, <1>3 DEF GoTo
    <2>3. \A u \in Threads : u # t => at'[u] = at[u]
      BY <1>0, <1>3 DEF GoTo
    <2> QED BY <1>3, <2>1, <2>2, <2>3 DEF Busy, Ran, Refused, Jobs!Running
  <1>6. ThreadsStill /\ MainAlike
    BY <1>0, <1>1, <1>5, <1>a, DispatchStill DEF Dispatching
  <1>7. \A i \in Actions : i # c => /\ Targeted(i)' <=> Targeted(i)
                                    /\ Marked(i) => Marked(i)'
    BY <1>1, <1>5, <1>a, <1>b DEF Targeted, Marked
  <1>8. \A i \in Actions : i # c => Mild(i)
    BY <1>1, <1>3, <1>4, <1>6, <1>7, QueueStill DEF Mild
  <1>9. Grows
    BY <1>1, <1>2, <1>4, <1>6, MainAlikeIs DEF Grows
  <1>10. \A i \in Actions : Dead(i) => Dead(i)'
    <2>1. \A i \in Actions : Dead(i) => sends'[i] = 0 /\ ~Targeted(i)'
      BY <1>2, <1>3, <1>7, DeadIs
    <2> QED BY <1>0, <1>1, <1>9, <2>1, DeadGrows
  <1>11. ActionTrue(c)'
    <2>1. ~Pending(c)' /\ ~act'[c].done /\ ~Ran(c)'
      BY <1>1, <1>2, <1>5, <1>6, QueueStill
    <2>2. Busy(c)' => Marked(c)'
      BY <1>1, <1>5, <1>b DEF Marked
    <2>3. act'[c].status # "ok" /\ act'[c].status # "CANT_HAPPEN" /\ value'[c] = "none"
      BY <1>1, <1>2 DEF OrderInv, ActionsTrue, ActionTrue
    <2> QED BY <2>1, <2>2, <2>3 DEF ActionTrue
  <1>12. ActionsTrue'
    BY <1>1, <1>8, <1>10, <1>11, MildKept DEF OrderInv, ActionsTrue
  <1>13. Once'
    <2> SUFFICES ASSUME NEW i \in Actions
                 PROVE  /\ sends'[i] <= 1
                        /\ sends'[i] = 1 => job'[<<i, 1>>] \in {"sent", "doing", "done", "refused"}
      BY DEF Once
    <2>1. CASE i = c
      BY <1>3, <2>1
    <2>2. CASE i # c
      BY <1>3, <1>4, <2>2 DEF OrderInv, Once
    <2> QED BY <2>1, <2>2
  <1>14. Plan'
    <2>1. Sequenced' = Sequenced /\ table' = table /\ Sequenced \subseteq Actions
      BY <1>1, TableKept DEF Sequenced, InPhase, OfPhases
    <2>2. \A i \in Sequenced : i < Frontier' => i < Frontier \/ i = c
      <3>1. CASE t = "main"
        <4>1. c = item["main"] - 1 /\ item["main"] \in Nat /\ Frontier = item["main"] - 1
          BY <1>a, <1>b, <3>1, MainTarget, FrontierIs
        <4>2. Frontier' = item["main"]
          BY <1>1, <1>5, <3>1 DEF Frontier
        <4>3. \A i \in Sequenced : i \in Nat
          BY Numbers, <2>1
        <4> QED BY <4>1, <4>2, <4>3
      <3>2. CASE t # "main"
        <4>1. FrontierKept
          BY <1>0, <1>1, <1>5, <3>2 DEF FrontierKept
        <4> QED BY <4>1, FrontierStays
      <3> QED BY <3>1, <3>2
    <2>3. \A i \in Actions : \A m \in 2 .. Len(calls) : table.phase[i] = calls[m] => sends'[i] = 0
      BY <1>2, <1>3 DEF OrderInv, Plan
    <2>4. \A i \in Sequenced : i < Frontier' => sends'[i] > 0
      BY <1>3, <2>1, <2>2 DEF OrderInv, Plan
    <2> QED BY <1>1, <2>1, <2>3, <2>4 DEF Plan
  <1>15. Triggers' /\ Triggered'
    <2>1. \A i \in Actions : Conditional(i) /\ sends'[i] > 0 =>
            sends[i] > 0 \/ (Fulfilled(i) /\ Considered(i))
      BY <1>2, <1>3
    <2>2. \A r \in Actions : Ran(r) /\ Waiting(r)' => Waiting(r)
      BY <1>1, <1>6, QueueStill
    <2> QED BY <1>1, <1>6, <1>9, <2>1, <2>2, TriggeredKept
  <1>16. NotLost'
    <2>1. \A i \in Actions : sends[i] > 0 \/ Targeted(i) => sends'[i] > 0 \/ Targeted(i)'
      BY <1>3, <1>7
    <2>2. \A r \in Actions : (Waiting(r) => Waiting(r)') /\ (Ran(r)' => Ran(r))
      BY <1>1, <1>2, <1>4, <1>5, <1>6, QueueStill
    <2> QED BY <1>1, <1>6, <1>9, <2>1, <2>2, NotLostKept
  <1>17. AllSettled'
    <2>1. ~Settled(c)
      BY <1>2 DEF Settled
    <2> QED BY <1>6, <1>8, <1>10, <2>1, SettledKept DEF Mild
  <1>18. Recorded'
    BY <1>1, <1>4, <1>5, <1>6, <1>9, RecordedKept
  <1>19. Sendings'
    <2> SUFFICES ASSUME NEW u \in Threads
                 PROVE  /\ at'[u] \in {"lock", "send"} => sends'[target'[u]] = 0
                        /\ at'[u] = "mark" => sends'[target'[u]] = 1 /\ ~Refused(target[u])'
                        /\ at'[u] = "unsent" => Refused(target[u])'
      BY DEF Sendings
    <2>1. CASE u = t
      <3>1. (at'[t] = "mark" => ~Refused(c)') /\ (at'[t] = "unsent" => Refused(c)')
        BY <1>5
      <3>2. target'[u] = c
        BY <1>1, <1>b, <2>1
      <3>3. (Refused(target[u]))' <=> Refused(c)'
        BY <3>2
      <3> QED BY <1>3, <1>5, <2>1, <3>1, <3>2, <3>3
    <2>2. CASE u # t /\ at[u] \in Dispatching
      <3>1. target[u] \in Actions /\ target[u] # c
        BY <1>2, <2>2, TargetsAre
      <3> SUFFICES ASSUME NEW k \in Actions, k = target[u], k # c, k = target'[u]
                   PROVE  /\ at'[u] \in {"lock", "send"} => sends'[target'[u]] = 0
                          /\ at'[u] = "mark" => sends'[target'[u]] = 1 /\ ~Refused(target[u])'
                          /\ at'[u] = "unsent" => Refused(target[u])'
        BY <1>1, <3>1
      <3>2. Refused(k)' <=> Refused(k)
        BY <1>4
      <3>3. (Refused(target[u]))' <=> Refused(k)'
        OBVIOUS
      <3>4. /\ at[u] \in {"lock", "send"} => sends[k] = 0
            /\ at[u] = "mark" => sends[k] = 1 /\ ~Refused(k)
            /\ at[u] = "unsent" => Refused(k)
        BY DEF OrderInv, Sendings
      <3>5. sends'[k] = sends[k] /\ at'[u] \in {at[u], "starting"}
        BY <1>3, <1>5, <2>2
      <3> QED BY <3>2, <3>3, <3>4, <3>5
    <2>3. CASE u # t /\ at[u] \notin Dispatching
      BY <1>5, <2>3 DEF Dispatching
    <2> QED BY <2>1, <2>2, <2>3
  <1> QED BY <1>12, <1>13, <1>14, <1>15, <1>16, <1>17, <1>18, <1>19 DEF OrderInv

LEMMA MarkKept ==
  ASSUME IInv, OrderInv, NEW t \in Threads, Mark(t), ~torn'
  PROVE  OrderInv'
  <1>0. TypeOK /\ Threads = {"main"} \cup DoneThreads /\ "main" \notin DoneThreads
        /\ at \in [Threads -> Places] /\ act \in [Actions -> ActionInfo]
    BY ThreadsAre, FlagsType DEF IInv, TypeOK
  <1>a. target[t] \in Actions /\ at[t] = "mark" /\ at[t] \in Dispatching
    BY DispatchType DEF Dispatch, Mark, Dispatching
  <1>b. PICK c \in Actions : c = target[t]
    BY <1>a
  <1>1. /\ UNCHANGED <<shot, noact, calls, first_g, last_g, abort, tree, failed, item, deps,
                       target, value, completed, job, sends>>
        /\ act' = [act EXCEPT ![c].dispatched = TRUE] /\ at' = GoTo(t, Return(t))
    BY <1>b DEF Mark, fixed, mainVars
  <1>2. \A i \in Actions : /\ act'[i].status = act[i].status /\ act'[i].done = act[i].done
                           /\ act'[i].recorded = act[i].recorded
                           /\ act[i].dispatched \/ i = c => act'[i].dispatched
    BY <1>0, <1>1 DEF ActionInfo
  <1>3. at'[t] = Return(t) /\ \A u \in Threads : u # t => at'[u] = at[u]
    BY <1>0, <1>1 DEF GoTo
  <1>4. ThreadsStill /\ MainAlike
    BY <1>0, <1>1, <1>3, <1>a, DispatchStill
  <1>5. FrontierKept
    BY <1>0, <1>1, <1>3, <1>a DEF FrontierKept, Return
  <1>6. Return(t) \in {"next", "refs"}
    BY DEF Return
  <1>7. \A i : (Targeted(i)' <=> Targeted(i))
               /\ ((\E u \in Threads : at[u] = "mark" /\ target[u] = i) =>
                      i = c \/ \E u \in Threads : at'[u] = "mark" /\ target'[u] = i)
    BY <1>1, <1>3, <1>6, <1>a, <1>b DEF Targeted
  <1>8. \A i \in Actions : Mild(i)
    BY <1>1, <1>2, <1>4, <1>7, JobsSame, QueueStill DEF Mild, Marked
  <1>9. Sendings'
    <2>1. \A u \in Threads : Refused(target[u])' <=> Refused(target[u])
      BY <1>1 DEF Refused
    <2> QED BY <1>1, <1>3, <1>6, <2>1 DEF OrderInv, Sendings
  <1> QED BY <1>1, <1>2, <1>4, <1>5, <1>7, <1>8, <1>9, JobsSame, FrontierStays, QuietStep

LEMMA NotSentKept ==
  ASSUME IInv, OrderInv, NEW t \in Threads, NotSent(t)
  PROVE  OrderInv'
  <1>0. TypeOK /\ Threads = {"main"} \cup DoneThreads /\ "main" \notin DoneThreads
        /\ at \in [Threads -> Places] /\ act \in [Actions -> ActionInfo]
    BY ThreadsAre, FlagsType DEF IInv, TypeOK
  <1>a. target[t] \in Actions /\ at[t] = "unsent" /\ at[t] \in Dispatching
    BY DispatchType DEF Dispatch, NotSent, Dispatching
  <1>b. PICK c \in Actions : c = target[t]
    BY <1>a
  <1>1. /\ UNCHANGED <<shot, noact, calls, first_g, last_g, abort, tree, failed, item, deps,
                       target, value, job, sends>>
        /\ act' = [act EXCEPT ![c].status = "PATH_DOWN"]
        /\ DoActionDone(c, GoTo(t, Return(t))) /\ completed' = Append(completed, c)
    BY <1>b DEF NotSent, SetStatus, DoActionDone, fixed, mainVars
  <1>2. \A i \in Actions : act'[i].dispatched = act[i].dispatched
    BY <1>0, <1>1 DEF ActionInfo
  <1>3. /\ at'[t] = Return(t) /\ Return(t) \in {"next", "refs"}
        /\ t # "main" => at'["main"] = at["main"]
        /\ \A u \in DoneThreads : u # t =>
             at'[u] = at[u] \/ (at[u] = "absent" /\ at'[u] = "starting")
    <2>1. Return(t) \in Places /\ Return(t) \in {"next", "refs"}
      BY DEF Return, Places
    <2>2. /\ GoTo(t, Return(t)) \in [Threads -> Places]
          /\ GoTo(t, Return(t))[t] = Return(t)
          /\ \A u \in Threads : u # t => GoTo(t, Return(t))[u] = at[u]
      BY <1>0, <2>1, GoToType
    <2>3. /\ at'["main"] = GoTo(t, Return(t))["main"]
          /\ \A u \in DoneThreads :
               at'[u] = GoTo(t, Return(t))[u] \/ (at[u] = "absent" /\ at'[u] = "starting")
      BY <1>0, <1>1, <2>2, DoneType
    <2> QED BY <1>0, <1>a, <2>1, <2>2, <2>3
  <1>4. ThreadsStill /\ MainAlike
    BY <1>0, <1>1, <1>3, <1>a, DispatchStill
  <1>5. FrontierKept
    BY <1>0, <1>1, <1>3, <1>a DEF FrontierKept, Return
  <1>6. \A u \in Threads : /\ at'[u] \in {"lock", "send"} <=> at[u] \in {"lock", "send"}
                           /\ at'[u] = "mark" <=> at[u] = "mark"
                           /\ at'[u] = "unsent" => at[u] = "unsent"
    <2> SUFFICES ASSUME NEW u \in Threads
                 PROVE  /\ at'[u] \in {"lock", "send"} <=> at[u] \in {"lock", "send"}
                        /\ at'[u] = "mark" <=> at[u] = "mark"
                        /\ at'[u] = "unsent" => at[u] = "unsent"
      OBVIOUS
    <2>1. CASE u = t
      BY <1>3, <1>a, <2>1
    <2>2. CASE u # t
      BY <1>0, <1>3, <2>2
    <2> QED BY <2>1, <2>2
  <1>7. \A i : (Targeted(i)' <=> Targeted(i)) /\ (i \in Actions /\ Marked(i) => Marked(i)')
    BY <1>1, <1>2, <1>6 DEF Targeted, Marked
  <1>8. Refused(c) /\ ~Ran(c) /\ ~Busy(c) /\ Over(c)
    <2>1. Refused(c)
      BY <1>a, <1>b DEF OrderInv, Sendings
    <2> QED BY <2>1, Stages DEF OrderInv, Over
  <1>9. /\ ActionsTrue' /\ Once' /\ Grows
        /\ \A k \in Actions : /\ act'[k].recorded = act[k].recorded
                              /\ (Settled(k) => Settled(k)')
                              /\ (Waiting(k) => Waiting(k)') /\ (Ran(k)' => Ran(k))
                              /\ Ran(k) /\ Waiting(k)' => Waiting(k)
    <2>1. NotWell(c)
      BY <1>1 DEF NotWell, Statuses
    <2>2. ThreadsNear /\ UNCHANGED <<shot, noact, calls, job, sends, value>>
          /\ completed' = Append(completed, c)
      BY <1>1, <1>4 DEF ThreadsStill
    <2>3. \A k \in Actions : /\ Dead(k) => ~Targeted(k)'
                             /\ (Busy(k) \/ Ran(k)) /\ Marked(k) => Marked(k)'
      BY <1>7, DeadIs
    <2> QED BY <1>8, <2>1, <2>2, <2>3, EndKept
  <1>10. Triggers' /\ Triggered' /\ NotLost'
    BY <1>1, <1>4, <1>7, <1>9, TriggeredKept, NotLostKept
  <1>11. AllSettled'
    BY <1>4, <1>9, MainAlikeIs DEF OrderInv, AllSettled
  <1>12. Recorded'
    BY <1>1, <1>4, <1>9, RecordedKept
  <1>13. Plan'
    BY <1>1, <1>5, FrontierStays, PlanKept
  <1>14. Sendings'
    <2>1. \A u \in Threads : Refused(target[u])' <=> Refused(target[u])
      BY <1>1 DEF Refused
    <2> QED BY <1>1, <1>6, <2>1 DEF OrderInv, Sendings
  <1> QED BY <1>9, <1>10, <1>11, <1>12, <1>13, <1>14 DEF OrderInv

-----------------------------------------------------------------------------
(* The thread of completed actions, when it does not dispatch.              *)

Turn(t) ==
  /\ UNCHANGED <<shot, noact, calls, first_g, last_g, job, sends, abort, tree, failed, target>>
  /\ \A u \in Threads : u # t => at'[u] = at[u] /\ item'[u] = item[u]
  /\ at[t] # "absent" /\ at[t] \notin Dispatching /\ at'[t] \notin Dispatching
  /\ \A k \in Actions : /\ act'[k].status = act[k].status
                        /\ act'[k].dispatched = act[k].dispatched
                        /\ act'[k].recorded = act[k].recorded

(* No other thread has anything to do with completed actions. *)
LEMMA Alone ==
  ASSUME Orderly, NEW t \in DoneThreads, at[t] # "absent"
  PROVE  /\ \A u \in DoneThreads : u # t => at[u] = "absent"
         /\ \A k : Held(k) <=> at[t] \in Holding /\ item[t] = k
         /\ \A k : Waiting(k) <=> Queued(k) \/ (at[t] = "taken" /\ item[t] = k)
         /\ \A c : Considered(c) <=> \A r \in Refs(c) :
                     /\ ~Waiting(r)
                     /\ at[t] \in {"refs"} \cup Dispatching /\ item[t] = r => c \notin deps[t]
  <1>1. \A u \in DoneThreads : u # t => at[u] = "absent"
    BY DEF Orderly, Regular, OneThread
  <1>2. \A u \in DoneThreads : /\ at[u] \in Holding => u = t
                               /\ at[u] = "taken" => u = t
                               /\ at[u] \in {"refs"} \cup Dispatching => u = t
    BY <1>1 DEF Holding, Dispatching
  <1>3. \A k : Held(k) <=> at[t] \in Holding /\ item[t] = k
    BY <1>2 DEF Held
  <1>4. \A k : Waiting(k) <=> Queued(k) \/ (at[t] = "taken" /\ item[t] = k)
    BY <1>2 DEF Waiting
  <1>5. \A c : Considered(c) <=> \A r \in Refs(c) :
                 /\ ~Waiting(r)
                 /\ at[t] \in {"refs"} \cup Dispatching /\ item[t] = r => c \notin deps[t]
    BY <1>2 DEF Considered
  <1> QED BY <1>1, <1>3, <1>4, <1>5

LEMMA TurnIs ==
  ASSUME IInv, Orderly, OrderInv, NEW t \in DoneThreads, Turn(t)
  PROVE  /\ \A k : Held(k)' <=> at'[t] \in Holding /\ item'[t] = k
         /\ \A k : Waiting(k)' <=> Queued(k)' \/ (at'[t] = "taken" /\ item'[t] = k)
         /\ \A k : Pending(k)' <=> Queued(k)' \/ Held(k)'
         /\ \A c : Considered(c)' <=> \A r \in Refs(c) :
                     ~Waiting(r)' /\ (at'[t] = "refs" /\ item'[t] = r => c \notin deps'[t])
         /\ \A c : Considered(c) <=> \A r \in Refs(c) :
                     ~Waiting(r) /\ (at[t] = "refs" /\ item[t] = r => c \notin deps[t])
         /\ \A k : /\ Conditional(k)' <=> Conditional(k)
                   /\ Targeted(k)' <=> Targeted(k)
                   /\ k \in Actions => (Marked(k)' <=> Marked(k))
         /\ MainAlike /\ Frontier' = Frontier /\ Grows
         /\ \A k \in Actions : Dead(k) => Dead(k)'
  <1>0. TypeOK /\ Threads = {"main"} \cup DoneThreads /\ "main" \notin DoneThreads
    BY ThreadsAre DEF IInv
  <1>1. \A u \in DoneThreads : u # t => at[u] = "absent" /\ at'[u] = "absent"
    BY <1>0, Alone DEF Turn
  <1>2. \A u \in DoneThreads : /\ at'[u] \in Holding => u = t
                               /\ at'[u] = "taken" => u = t
                               /\ at'[u] \in {"refs"} \cup Dispatching => u = t
    BY <1>1 DEF Holding, Dispatching
  <1>3. /\ \A k : Held(k)' <=> at'[t] \in Holding /\ item'[t] = k
        /\ \A k : Waiting(k)' <=> Queued(k)' \/ (at'[t] = "taken" /\ item'[t] = k)
    BY <1>2 DEF Held, Waiting
  <1>4. \A k : Pending(k)' <=> Queued(k)' \/ Held(k)'
    BY DEF Pending, Queued, Held
  <1>5. \A c : Refs(c)' = Refs(c)
    BY DEF Turn, Refs, table
  <1>6. \A c : Considered(c)' <=> \A r \in Refs(c) :
                 ~Waiting(r)' /\ (at'[t] = "refs" /\ item'[t] = r => c \notin deps'[t])
    <2>1. \A u \in DoneThreads : at'[u] \in {"refs"} \cup Dispatching <=> (u = t /\ at'[t] = "refs")
      BY <1>2 DEF Turn
    <2> QED BY <1>5, <2>1 DEF Considered
  <1>7. \A c : Considered(c) <=> \A r \in Refs(c) :
                 ~Waiting(r) /\ (at[t] = "refs" /\ item[t] = r => c \notin deps[t])
    <2>1. at[t] \in {"refs"} \cup Dispatching <=> at[t] = "refs"
      BY DEF Turn
    <2>2. at[t] # "absent"
      BY DEF Turn
    <2> QED BY <2>1, <2>2, Alone
  <1>8. \A k : /\ Conditional(k)' <=> Conditional(k)
               /\ Targeted(k)' <=> Targeted(k)
               /\ k \in Actions => (Marked(k)' <=> Marked(k))
    <2>1. \A u \in Threads : /\ at'[u] \in {"lock", "send"} <=> at[u] \in {"lock", "send"}
                             /\ at'[u] = "mark" <=> at[u] = "mark"
      BY DEF Turn, Dispatching
    <2> QED BY <2>1 DEF Turn, Targeted, Marked, Conditional, table
  <1>9. MainAlike /\ FrontierKept
    BY <1>0 DEF Turn, MainAlike, FrontierKept
  <1>10. Grows
    BY <1>9, MainAlikeIs, JobsSame DEF Grows, Turn
  <1>11. \A k \in Actions : Dead(k) => Dead(k)'
    <2>1. \A k \in Actions : Dead(k) => sends'[k] = 0 /\ ~Targeted(k)'
      BY <1>8, DeadIs DEF Turn
    <2> QED BY <1>0, <1>10, <2>1, DeadGrows DEF Turn
  <1> QED BY <1>3, <1>4, <1>6, <1>7, <1>8, <1>9, <1>10, <1>11, FrontierStays

LEMMA TurnKept ==
  ASSUME IInv, Orderly, OrderInv, NEW t \in DoneThreads, Turn(t), ActionsTrue',
         \A k \in Actions : Ran(k) /\ Pending(k)' => Pending(k),
         at'[t] = "refs" => deps'[t] \subseteq ReferencedBy(item'[t]),
         \A c \in Actions : Fulfilled(c) => (Considered(c)' <=> Considered(c))
  PROVE  OrderInv'
  <1>0. TypeOK /\ Threads = {"main"} \cup DoneThreads /\ "main" \notin DoneThreads
    BY ThreadsAre DEF IInv
  <1>1. /\ UNCHANGED <<shot, calls, job, sends, abort, tree, failed, target>>
        /\ at[t] # "absent"
        /\ \A u \in Threads : u # t => at'[u] = at[u] /\ item'[u] = item[u]
        /\ \A k \in Actions : act'[k].recorded = act[k].recorded
    BY DEF Turn
  <1>2. /\ MainAlike /\ Frontier' = Frontier /\ Grows
        /\ \A k \in Actions : Dead(k) => Dead(k)'
        /\ \A k : (Conditional(k)' <=> Conditional(k)) /\ (Targeted(k)' <=> Targeted(k))
    BY TurnIs
  <1>3. \A c \in Actions : Fulfilled(c)' <=> Fulfilled(c)
    BY <1>0, <1>1, <1>2, JobsSame, FulfilledGrows
  <1>4. Triggered' /\ NotLost'
    BY <1>1, <1>2, <1>3 DEF OrderInv, Triggered, NotLost
  <1>5. Triggers'
    <2> SUFFICES ASSUME NEW u \in DoneThreads
                 PROVE  /\ at'[u] \in {"refs"} \cup Dispatching =>
                             deps'[u] \subseteq ReferencedBy(item[u])'
                        /\ at'[u] \notin Dispatching
      BY DEF Triggers
    <2>1. CASE u = t
      <3>1. ReferencedBy(item[t])' = ReferencedBy(item'[t])
        BY <1>1 DEF ReferencedBy, table
      <3> QED BY <2>1, <3>1 DEF Turn
    <2>2. CASE u # t
      <3>1. at'[u] = "absent"
        BY <1>0, <1>1, <2>2, Alone
      <3> QED BY <3>1 DEF Dispatching
    <2> QED BY <2>1, <2>2
  <1>6. AllSettled'
    BY <1>1, <1>2, JobsSame, SettledKept
  <1>7. Recorded'
    BY <1>1, <1>2, JobsSame, RecordedKept
  <1>8. Plan'
    BY <1>1, <1>2, PlanKept
  <1>9. Sendings'
    <2>1. \A u \in Threads : Refused(target[u])' <=> Refused(target[u])
      BY <1>1 DEF Refused
    <2>2. \A u \in Threads : at'[u] \in Dispatching => at'[u] = at[u]
      BY DEF Turn
    <2> QED BY <1>1, <2>1, <2>2 DEF OrderInv, Sendings, Dispatching
  <1>10. Once'
    BY <1>1, JobsSame
  <1> QED BY <1>4, <1>5, <1>6, <1>7, <1>8, <1>9, <1>10 DEF OrderInv

LEMMA DequeueKept ==
  ASSUME IInv, Orderly, OrderInv, NEW t \in DoneThreads, DequeueCompletedAction(t)
  PROVE  OrderInv'
  <1>0. /\ TypeOK /\ t \in Threads /\ at \in [Threads -> Places] /\ item \in [Threads -> Nat]
    BY ThreadsAre DEF IInv, TypeOK
  <1>p. PICK h : h = Head(completed)
    OBVIOUS
  <1>1. /\ at[t] = "idle" /\ completed # <<>> /\ completed' = Tail(completed)
        /\ UNCHANGED <<act, value, deps>>
        /\ at'[t] = "taken" /\ item'[t] = h
    BY <1>0, <1>p DEF DequeueCompletedAction, GoTo
  <1>2. Turn(t)
    BY <1>0, <1>1 DEF Turn, DequeueCompletedAction, GoTo, fixed, mainVars, Dispatching
  <1>3. /\ h \in Actions
        /\ \A k : Queued(k) <=> Queued(k)' \/ k = h
        /\ \A k : Single(k) => Single(k)'
        /\ \A k : k = h /\ Single(k) => ~Queued(k)'
    BY <1>0, <1>1, <1>p, Dequeued
  <1>4. \A k : ~Held(k) /\ (Held(k)' <=> k = h)
    BY <1>1, <1>2, Alone, TurnIs DEF Holding, Dispatching
  <1>5. \A k : (Waiting(k)' <=> Waiting(k)) /\ (Pending(k)' <=> Pending(k))
    BY <1>1, <1>2, <1>3, <1>4, Alone, TurnIs, PendingIs
  <1>6. \A k \in Actions : Mild(k)
    <2>1. \A k \in Actions : Ran(k) => ~(Queued(k)' /\ Held(k)')
      BY <1>3, <1>4 DEF OrderInv, ActionsTrue, ActionTrue
    <2> QED BY <1>1, <1>2, <1>3, <1>5, <2>1, TurnIs, JobsSame DEF Mild, Turn
  <1>7. ActionsTrue'
    BY <1>2, <1>6, TurnIs, MildKept DEF OrderInv, ActionsTrue, Turn
  <1>8. \A c \in Actions : Considered(c)' <=> Considered(c)
    BY <1>1, <1>2, <1>5, TurnIs
  <1> QED BY <1>1, <1>2, <1>5, <1>7, <1>8, TurnKept

LEMMA SetDoneKept ==
  ASSUME IInv, Orderly, OrderInv, NEW t \in DoneThreads, SetDone(t)
  PROVE  OrderInv'
  <1>0. /\ TypeOK /\ t \in Threads /\ at \in [Threads -> Places]
        /\ act \in [Actions -> ActionInfo]
    BY ThreadsAre, FlagsType DEF IInv, TypeOK
  <1>p. item[t] \in Actions
    BY DEF SetDone, IInv, ThreadsPlaced, Holding
  <1>q. PICK i \in Actions : i = item[t]
    BY <1>p
  <1>1. /\ at[t] = "done" \/ (at[t] = "refs" /\ deps[t] = {})
        /\ UNCHANGED <<completed, value, deps, item>>
        /\ at'[t] = "unrecord" /\ act' = [act EXCEPT ![i].done = TRUE]
    BY <1>0, <1>q DEF SetDone, GoTo
  <1>2. /\ act'[i].done
        /\ \A k \in Actions : /\ act'[k].status = act[k].status
                              /\ act'[k].dispatched = act[k].dispatched
                              /\ act'[k].recorded = act[k].recorded
                              /\ k # i => act'[k].done = act[k].done
    BY <1>0, <1>1 DEF ActionInfo
  <1>3. Turn(t)
    BY <1>0, <1>1, <1>2 DEF Turn, SetDone, GoTo, fixed, mainVars, Dispatching
  <1>4. \A k : (Queued(k)' <=> Queued(k)) /\ (Single(k)' <=> Single(k))
    BY <1>1 DEF Queued, Single
  <1>5. \A k : (Held(k) <=> k = i) /\ ~Held(k)'
    BY <1>1, <1>3, <1>q, Alone, TurnIs DEF Holding, Dispatching
  <1>6. \A k : (Waiting(k)' <=> Waiting(k)) /\ (Pending(k)' => Pending(k))
               /\ (Pending(k)' <=> Queued(k)) /\ (k # i => (Pending(k)' <=> Pending(k)))
    BY <1>1, <1>3, <1>4, <1>5, Alone, TurnIs, PendingIs
  <1>7. \A k \in Actions : k # i => Mild(k)
    BY <1>1, <1>2, <1>3, <1>4, <1>5, <1>6, TurnIs, JobsSame DEF Mild, Turn
  <1>8. ActionTrue(i)'
    <2>1. Pending(i) /\ Over(i) /\ ~Busy(i) /\ (Ran(i) => ~Queued(i))
      BY <1>5, PendingIs DEF OrderInv, ActionsTrue, ActionTrue
    <2>2. ~Busy(i)' /\ (Ran(i)' <=> Ran(i)) /\ Over(i)'
      BY <1>3, <2>1, TurnIs, JobsSame, OverGrows DEF Turn
    <2>3. sends'[i] > 0 \/ (Conditional(i)' /\ Dead(i)')
      <3>1. UNCHANGED sends /\ (Conditional(i)' <=> Conditional(i)) /\ (Dead(i) => Dead(i)')
        BY <1>3, TurnIs DEF Turn
      <3>2. Ran(i) \/ Refused(i) => sends[i] > 0
        <4>1. Once
          BY DEF OrderInv
        <4>2. sends[i] \in {0, 1} /\ (sends[i] = 0 => ~Ran(i) /\ ~Refused(i))
          BY <4>1, Stages
        <4> QED BY <4>2
      <3> QED BY <2>1, <3>1, <3>2 DEF Over
    <2>4. Ran(i)' => /\ act'[i].status \in {"ok", "error"} /\ Single(i)'
                     /\ ~Queued(i)' /\ ~Pending(i)' /\ act'[i].done
                     /\ (Waiting(i)' => value'[i] = "none")
                     /\ (~Waiting(i)' => value'[i] = act'[i].status)
      BY <1>1, <1>2, <1>4, <1>6, <2>1, <2>2 DEF OrderInv, ActionsTrue, ActionTrue
    <2>5. /\ act'[i].status = "ok" => Ran(i)'
          /\ act'[i].status = "CANT_HAPPEN" => ~Ran(i)'
          /\ value'[i] # "none" /\ ~Ran(i)' => value'[i] # "ok"
      BY <1>1, <1>2, <2>2 DEF OrderInv, ActionsTrue, ActionTrue
    <2> QED BY <2>2, <2>3, <2>4, <2>5 DEF ActionTrue
  <1>9. ActionsTrue'
    BY <1>3, <1>7, <1>8, TurnIs, MildKept DEF OrderInv, ActionsTrue, Turn
  <1>10. \A c \in Actions : Considered(c)' <=> Considered(c)
    BY <1>1, <1>3, <1>6, TurnIs
  <1> QED BY <1>1, <1>3, <1>6, <1>9, <1>10, TurnKept

LEMMA ActionDoneKept ==
  ASSUME IInv, Orderly, OrderInv, NEW t \in DoneThreads, ActionDone(t)
  PROVE  OrderInv'
  <1>0. /\ TypeOK /\ t \in Threads /\ at \in [Threads -> Places]
        /\ value \in [Actions -> Statuses] /\ deps \in [DoneThreads -> SUBSET Actions]
    BY ThreadsAre DEF IInv, TypeOK
  <1>p. item[t] \in Actions
    BY DEF ActionDone, IInv, ThreadsPlaced, Holding
  <1>q. PICK i \in Actions : i = item[t]
    BY <1>p
  <1>1. /\ at[t] = "taken" /\ UNCHANGED <<completed, act, item>>
        /\ \/ abort /\ at'[t] = "done" /\ UNCHANGED <<value, deps>>
           \/ /\ ~abort /\ at'[t] = "refs"
              /\ value' = [value EXCEPT ![i] = act[i].status]
              /\ deps' = [deps EXCEPT ![t] = ReferencedBy(i)]
    BY <1>0, <1>q DEF ActionDone, GoTo
  <1>2. Turn(t)
    BY <1>0, <1>1 DEF Turn, ActionDone, GoTo, fixed, mainVars, Dispatching
  <1>3. \A k : (Queued(k)' <=> Queued(k)) /\ (Single(k)' <=> Single(k))
    BY <1>1 DEF Queued, Single
  <1>4. \A k : (Held(k) <=> k = i) /\ (Held(k)' <=> k = i)
    BY <1>1, <1>2, <1>q, Alone, TurnIs DEF Holding, Dispatching
  <1>5. \A k : /\ Waiting(k)' <=> Queued(k)
               /\ Waiting(k) <=> Queued(k) \/ k = i
               /\ Pending(k)' <=> Pending(k)
    BY <1>1, <1>2, <1>3, <1>4, <1>q, Alone, TurnIs, PendingIs
  <1>6. \A k \in Actions : k # i => Mild(k)
    BY <1>0, <1>1, <1>2, <1>3, <1>4, <1>5, TurnIs, JobsSame DEF Mild, Turn
  <1>7. Pending(i) /\ Over(i) /\ ~Busy(i) /\ (Ran(i) => ~Queued(i))
    BY <1>4, PendingIs DEF OrderInv, ActionsTrue, ActionTrue
  <1>8. abort => ~Ran(i)
    <2> SUFFICES ASSUME abort, Ran(i) PROVE FALSE
      OBVIOUS
    <2>1. Late
      BY DEF OrderInv, Recorded
    <2>2. sends[i] # 0
      BY Stages DEF OrderInv
    <2>3. calls \in Seq(Nat) /\ \A m \in 2 .. Len(calls) : calls[m] # table.phase[i]
      BY <1>0, <2>2 DEF OrderInv, Plan, TypeOK
    <2>4. Passed(i)
      <3>1. CASE calls = <<>>
        BY <3>1 DEF Passed, OutOfCalls
      <3>2. CASE calls # <<>>
        <4>1. /\ Len(calls) \in Nat /\ DOMAIN calls = 1 .. Len(calls)
              /\ Head(calls) = calls[1] /\ 1 \in DOMAIN calls
          BY <2>3, <3>2
        <4>2. \A k \in DOMAIN calls : k = 1 \/ k \in 2 .. Len(calls)
          BY <4>1
        <4>3. table.phase[i] = Head(calls) \/ OutOfCalls(i)
          BY <2>3, <4>1, <4>2 DEF OutOfCalls
        <4> QED BY <2>1, <3>2, <4>3 DEF Passed, InPhase, OfPhases
      <3> QED BY <3>1, <3>2
    <2> QED BY <1>7, <2>4, SettledNow DEF Settled
  <1>9. ActionTrue(i)'
    <2>1. ~Busy(i)' /\ (Ran(i)' <=> Ran(i)) /\ Over(i)' /\ act' = act
          /\ (Marked(i) => Marked(i)')
      BY <1>1, <1>2, <1>7, TurnIs, JobsSame, OverGrows DEF Turn
    <2>2. act'[i].done => sends'[i] > 0 \/ (Conditional(i)' /\ Dead(i)')
      BY <1>1, <1>2, TurnIs DEF Turn, OrderInv, ActionsTrue, ActionTrue
    <2>3. Ran(i)' => /\ act'[i].status \in {"ok", "error"} /\ Single(i)'
                     /\ ~Queued(i)' /\ ~act'[i].done /\ Marked(i)'
                     /\ ~Waiting(i)' /\ Pending(i)' /\ value'[i] = act'[i].status
      <3> SUFFICES ASSUME Ran(i)
                   PROVE  /\ act'[i].status \in {"ok", "error"} /\ Single(i)'
                          /\ ~Queued(i)' /\ ~act'[i].done /\ Marked(i)'
                          /\ ~Waiting(i)' /\ Pending(i)' /\ value'[i] = act'[i].status
        BY <2>1
      <3>1. act[i].status \in {"ok", "error"} /\ Single(i) /\ ~act[i].done /\ Marked(i)
        BY <1>7 DEF OrderInv, ActionsTrue, ActionTrue
      <3>2. value'[i] = act'[i].status
        BY <1>0, <1>1, <1>8, <2>1
      <3> QED BY <1>3, <1>5, <1>7, <2>1, <3>1, <3>2
    <2>4. act'[i].status = "ok" => Ran(i)'
      BY <2>1 DEF OrderInv, ActionsTrue, ActionTrue
    <2>5. act'[i].status = "CANT_HAPPEN" => ~Ran(i)'
      BY <2>1 DEF OrderInv, ActionsTrue, ActionTrue
    <2>6. ~Ran(i)' => value'[i] # "ok"
      <3>1. ~Ran(i) => value[i] # "ok" /\ act[i].status # "ok"
        BY DEF OrderInv, ActionsTrue, ActionTrue
      <3> QED BY <1>0, <1>1, <2>1, <3>1
    <2> QED BY <2>1, <2>2, <2>3, <2>4, <2>5, <2>6 DEF ActionTrue
  <1>10. ActionsTrue'
    BY <1>2, <1>6, <1>9, TurnIs, MildKept DEF OrderInv, ActionsTrue, Turn
  <1>11. ASSUME NEW c \in Actions, Fulfilled(c) PROVE Considered(c)' <=> Considered(c)
    <2>1. CASE i \in Refs(c)
      <3>1. Ran(i) /\ ~abort
        BY <1>8, <1>11, <2>1, FulfilledIs
      <3>2. c \in deps'[t] /\ at'[t] = "refs" /\ item'[t] = i
        BY <1>0, <1>1, <1>q, <2>1, <3>1, RefsAre
      <3>3. ~Considered(c)' /\ ~Considered(c)
        BY <1>2, <1>5, <2>1, <3>2, TurnIs
      <3> QED BY <3>3
    <2>2. CASE i \notin Refs(c)
      BY <1>1, <1>2, <1>5, <1>q, <2>2, TurnIs
    <2> QED BY <2>1, <2>2
  <1>12. at'[t] = "refs" => deps'[t] \subseteq ReferencedBy(item'[t])
    BY <1>0, <1>1, <1>q
  <1> QED BY <1>2, <1>5, <1>10, <1>11, <1>12, TurnKept

(* An action whose end is processed: what it triggers is looked at.         *)
LEMMA ConsideredNot ==
  ASSUME IInv, Orderly, OrderInv, NEW t \in DoneThreads, at[t] = "refs",
         NEW c \in Actions, c \in deps[t]
  PROVE  /\ item[t] \in Refs(c) /\ Conditional(c) /\ ~Considered(c)
         /\ sends[c] = 0 /\ ~Ran(c) /\ ~Busy(c) /\ ~Refused(c) /\ ~Targeted(c)
         /\ \A u \in DoneThreads : u # t => at[u] = "absent"
  <1>0. TypeOK
    BY DEF IInv
  <1>1. item[t] \in Refs(c)
    BY <1>0, RefsAre DEF OrderInv, Triggers
  <1>2. Conditional(c)
    BY <1>0, <1>1, RefsAre
  <1>3. ~Considered(c)
    BY <1>1, Alone
  <1>4. sends[c] = 0 /\ ~Ran(c) /\ ~Busy(c) /\ ~Refused(c)
    <2>1. ~(sends[c] > 0)
      BY <1>2, <1>3 DEF OrderInv, Triggered
    <2>2. Once
      BY DEF OrderInv
    <2>3. sends[c] \in {0, 1}
          /\ (sends[c] = 0 => ~Ran(c) /\ ~Busy(c) /\ ~Refused(c))
      BY <2>2, Stages
    <2> QED BY <2>1, <2>3
  <1>5. \A u \in DoneThreads : u # t => at[u] = "absent"
    BY Alone
  <1>6. ~Targeted(c)
    <2>1. at["main"] \in {"lock", "send"} => target["main"] # c
      BY <1>2, TargetsAre DEF Dispatching
    <2> QED BY <1>5, <2>1, ThreadsAre DEF Targeted
  <1> QED BY <1>1, <1>2, <1>3, <1>4, <1>5, <1>6

(* The condition is as the values say, ... *)
LEMMA ConditionIs ==
  ASSUME TypeOK, NEW c \in Actions, Conditional(c)
  PROVE  /\ Condition(c) = "unknown" => \E r \in Refs(c) : value[r] = "none"
         /\ Condition(c) # "unknown" => \A r \in Refs(c) : value[r] # "none"
         /\ Condition(c) = "error" => table.when[c].on = "error"
         /\ Condition(c) = "true" =>
              \/ table.when[c].on = "all" /\ \A r \in Refs(c) : Odd(value[r])
              \/ table.when[c].on = "none" /\ \A r \in Refs(c) : ~Odd(value[r])
         /\ Condition(c) = "false" =>
              \/ table.when[c].on = "all" /\ \E r \in Refs(c) : ~Odd(value[r])
              \/ table.when[c].on = "none" /\ \E r \in Refs(c) : Odd(value[r])
         /\ Condition(c) \in {"unknown", "error", "true", "false"}
  <1>1. table.when[c].on \in {"all", "none", "error"}
    BY RefsAre
  <1>2. CASE \E r \in Refs(c) : value[r] = "none"
    BY <1>2 DEF Condition, Refs
  <1>3. CASE ~(\E r \in Refs(c) : value[r] = "none") /\ table.when[c].on = "error"
    BY <1>3 DEF Condition, Refs
  <1>4. CASE ~(\E r \in Refs(c) : value[r] = "none") /\ table.when[c].on = "all"
    BY <1>4 DEF Condition, Refs
  <1>5. CASE ~(\E r \in Refs(c) : value[r] = "none") /\ table.when[c].on = "none"
    BY <1>5 DEF Condition, Refs
  <1> QED BY <1>1, <1>2, <1>3, <1>4, <1>5

(* ... and the values are what the actions came to. *)
LEMMA ConditionTrue ==
  ASSUME IInv, Orderly, OrderInv, NEW c \in Actions, Conditional(c), Refs(c) # {},
         Condition(c) = "true"
  PROVE  Fulfilled(c) /\ \A r \in Refs(c) : ~Waiting(r)
  <1>0. TypeOK /\ Refs(c) \subseteq Actions
    BY RefsAre DEF IInv
  <1>1. ASSUME NEW r \in Refs(c) PROVE Ran(r) /\ Fits(r, c) /\ ~Waiting(r)
    <2>1. r \in Actions /\ value[r] # "none"
      BY <1>0, ConditionIs
    <2>2. Ran(r)
      <3>1. CASE table.when[c].on = "all" /\ Odd(value[r])
        BY <2>1, <3>1 DEF Odd, OrderInv, ActionsTrue, ActionTrue
      <3>2. CASE table.when[c].on = "none"
        <4>1. ~Conditional(r) /\ ~Refused(r)
          BY <1>1, <3>2 DEF Orderly, Regular, Awaited, Refs, Refused
        <4>2. Over(r) \/ Ran(r)
          BY <2>1 DEF OrderInv, ActionsTrue, ActionTrue
        <4> QED BY <4>1, <4>2 DEF Over
      <3> QED BY <1>0, <3>1, <3>2, ConditionIs
    <2>3. ~Waiting(r) /\ value[r] = act[r].status
      BY <2>1, <2>2 DEF OrderInv, ActionsTrue, ActionTrue
    <2>4. Fits(r, c)
      BY <1>0, <2>3, ConditionIs DEF Fits
    <2> QED BY <2>2, <2>3, <2>4
  <1> QED BY <1>1, FulfilledIs

LEMMA ConditionFalse ==
  ASSUME IInv, Orderly, OrderInv, NEW c \in Actions, Conditional(c),
         Condition(c) \in {"false", "error"}, sends[c] = 0, ~Targeted(c)
  PROVE  Dead(c)
  <1>0. TypeOK /\ Refs(c) \subseteq Actions
    BY RefsAre DEF IInv
  <1>1. \E D \in SUBSET Actions : DeadSet(D) /\ Hopeless(c, D)
    <2>1. CASE Condition(c) = "error"
      <3>1. DeadSet({}) /\ Hopeless(c, {})
        BY <1>0, <2>1, ConditionIs DEF DeadSet, Hopeless
      <3> QED BY <3>1
    <2>2. CASE Condition(c) = "false"
      <3>1. PICK r \in Refs(c) :
              /\ value[r] # "none"
              /\ \/ table.when[c].on = "all" /\ ~Odd(value[r])
                 \/ table.when[c].on = "none" /\ Odd(value[r])
        BY <1>0, <2>2, ConditionIs
      <3>2. CASE Ran(r)
        <4>1. value[r] = act[r].status
          BY <1>0, <3>1, <3>2 DEF OrderInv, ActionsTrue, ActionTrue
        <4>2. ~Fits(r, c)
          BY <3>1, <4>1 DEF Fits
        <4>3. DeadSet({}) /\ Hopeless(c, {})
          BY <3>2, <4>2 DEF DeadSet, Hopeless
        <4> QED BY <4>3
      <3>3. CASE ~Ran(r)
        <4>1. Over(r)
          BY <1>0, <3>1, <3>3 DEF OrderInv, ActionsTrue, ActionTrue
        <4>2. CASE Refused(r)
          <5>1. DeadSet({}) /\ Hopeless(c, {})
            BY <4>2 DEF DeadSet, Hopeless
          <5> QED BY <5>1
        <4>3. CASE Dead(r)
          <5>1. PICK D \in SUBSET Actions : DeadSet(D) /\ r \in D
            BY <4>3 DEF Dead
          <5> QED BY <5>1 DEF Hopeless
        <4> QED BY <3>3, <4>1, <4>2, <4>3 DEF Over
      <3> QED BY <3>2, <3>3
    <2> QED BY <2>1, <2>2
  <1>2. PICK D \in SUBSET Actions : DeadSet(D) /\ Hopeless(c, D)
    BY <1>1
  <1>3. DeadSet(D \cup {c}) /\ D \cup {c} \in SUBSET Actions
    BY <1>2 DEF DeadSet, Hopeless
  <1> QED BY <1>3 DEF Dead

LEMMA ConsiderIs ==
  ASSUME IInv, Orderly, OrderInv, NEW t \in DoneThreads, Consider(t), NEW c, c = First(deps[t])
  PROVE  /\ c \in Actions /\ c \in deps[t] /\ at[t] = "refs"
         /\ deps'[t] = deps[t] \ {c}
         /\ \A u \in DoneThreads : u # t => deps'[u] = deps[u] /\ at[u] = "absent"
         /\ UNCHANGED <<shot, noact, calls, first_g, last_g, abort, tree, failed, item, value,
                        job, sends>>
  <1>0. TypeOK /\ deps \in [DoneThreads -> SUBSET Actions]
    BY DEF IInv, TypeOK
  <1>1. /\ at[t] = "refs" /\ deps[t] # {} /\ deps' = [deps EXCEPT ![t] = @ \ {c}]
        /\ UNCHANGED <<shot, noact, calls, first_g, last_g, abort, tree, failed, item, value,
                       job, sends>>
    BY DEF Consider, fixed, mainVars
  <1>2. deps[t] \subseteq Nat
    BY <1>0, Numbers
  <1>3. c \in deps[t]
    BY <1>1, <1>2, FirstIs
  <1>4. \A u \in DoneThreads : u # t => at[u] = "absent"
    BY <1>1, Alone
  <1> QED BY <1>0, <1>1, <1>3, <1>4

(* Nothing comes of it yet, or the action is going to be dispatched. *)
LEMMA ConsiderQuiet ==
  ASSUME IInv, Orderly, OrderInv, NEW t \in DoneThreads, Consider(t),
         NEW c, c = First(deps[t]), UNCHANGED <<act, completed>>,
         \/ UNCHANGED <<at, target>> /\ (act[c].done \/ Condition(c) = "unknown")
         \/ /\ Condition(c) = "true"
            /\ target' = [target EXCEPT ![t] = c] /\ at' = [at EXCEPT ![t] = "lock"]
  PROVE  OrderInv'
  <1>0. /\ TypeOK /\ Threads = {"main"} \cup DoneThreads /\ "main" \notin DoneThreads
        /\ at \in [Threads -> Places] /\ target \in [Threads -> Actions \cup {NoAction}]
    BY ThreadsAre DEF IInv, TypeOK
  <1>1. /\ c \in Actions /\ c \in deps[t] /\ at[t] = "refs"
        /\ deps'[t] = deps[t] \ {c}
        /\ \A u \in DoneThreads : u # t => deps'[u] = deps[u] /\ at[u] = "absent"
        /\ UNCHANGED <<shot, noact, calls, first_g, last_g, abort, tree, failed, item, value,
                       job, sends>>
    BY ConsiderIs
  <1>2. /\ item[t] \in Refs(c) /\ Conditional(c) /\ sends[c] = 0
    BY <1>1, ConsideredNot
  <1>3. /\ \A u \in Threads : u # t => at'[u] = at[u] /\ target'[u] = target[u]
        /\ \/ at'[t] = "refs" /\ (act[c].done \/ Condition(c) = "unknown")
           \/ at'[t] = "lock" /\ target'[t] = c /\ Condition(c) = "true"
    BY <1>0, <1>1
  <1>4. ThreadsNear /\ MainAlike /\ FrontierKept
    <2>1. ThreadsNear
      BY <1>0, <1>1, <1>3 DEF ThreadsNear, Alike, Dispatching
    <2> QED BY <1>0, <1>1, <1>3, <2>1 DEF MainAlike, FrontierKept
  <1>5. \A k : /\ (Queued(k)' <=> Queued(k)) /\ (Single(k)' <=> Single(k))
               /\ (Held(k)' <=> Held(k)) /\ (Waiting(k)' <=> Waiting(k))
               /\ (Pending(k)' <=> Pending(k))
    <2>1. \A k : (Queued(k)' <=> Queued(k)) /\ (Single(k)' <=> Single(k))
      BY DEF Queued, Single
    <2>2. \A k : (Held(k)' <=> Held(k)) /\ (Waiting(k)' <=> Waiting(k))
      BY <1>4, <2>1, StillAre
    <2>3. \A k : Pending(k)' <=> Queued(k)' \/ Held(k)'
      BY DEF Pending, Queued, Held
    <2> QED BY <2>1, <2>2, <2>3, PendingIs
  <1>6. /\ \A k : k # c => (Targeted(k)' <=> Targeted(k))
        /\ \A k : Marked(k)' <=> Marked(k)
        /\ at'[t] = "lock" => Targeted(c)'
        /\ at'[t] = "refs" => (Targeted(c)' <=> Targeted(c))
    <2>1. \A u \in Threads : u # t \/ at'[t] = "refs" =>
             /\ at'[u] \in {"lock", "send"} <=> at[u] \in {"lock", "send"}
             /\ at[u] \in {"lock", "send"} => target'[u] = target[u]
      BY <1>1, <1>3
    <2>2. \A u \in Threads : /\ at'[u] = "mark" <=> at[u] = "mark"
                             /\ at[u] = "mark" => target'[u] = target[u]
      BY <1>1, <1>3
    <2>3. \A k : k # c => (Targeted(k)' <=> Targeted(k))
      BY <1>1, <1>3, <2>1 DEF Targeted
    <2>4. \A k : Marked(k)' <=> Marked(k)
      BY <2>2 DEF Marked
    <2>5. at'[t] = "lock" => Targeted(c)'
      BY <1>0, <1>3 DEF Targeted
    <2>6. at'[t] = "refs" => (Targeted(c)' <=> Targeted(c))
      BY <2>1 DEF Targeted
    <2> QED BY <2>3, <2>4, <2>5, <2>6
  <1>7. at'[t] = "lock" => /\ Fulfilled(c) /\ ~Dead(c) /\ \A r \in Refs(c) : ~Waiting(r)
    <2>1. Once
      BY DEF OrderInv
    <2> QED BY <1>1, <1>2, <1>3, <2>1, ConditionTrue, FulfilledNotDead
  <1>8. \A k \in Actions : Mild(k)
    BY <1>1, <1>5, <1>6, JobsSame DEF Mild
  <1>9. Grows
    BY <1>4, <1>8, MainAlikeIs DEF Grows, Mild
  <1>10. \A k \in Actions : Dead(k) => Dead(k)'
    <2>1. \A k \in Actions : Dead(k) => sends'[k] = 0 /\ ~Targeted(k)'
      BY <1>1, <1>3, <1>6, <1>7, DeadIs
    <2> QED BY <1>0, <1>1, <1>9, <2>1, DeadGrows
  <1>11. ActionsTrue'
    BY <1>1, <1>8, <1>10, MildKept DEF OrderInv, ActionsTrue
  <1>12. Triggers' /\ Triggered'
    <2>1. at'[t] = "lock" => Considered(c)'
      <3> SUFFICES ASSUME at'[t] = "lock", NEW r \in Refs(c)
                   PROVE  /\ ~Waiting(r)'
                          /\ \A u \in DoneThreads :
                               at'[u] \in {"refs"} \cup Dispatching /\ item'[u] = r => c \notin deps'[u]
        BY <1>1 DEF Considered, Refs, table
      <3>1. \A u \in DoneThreads : u # t => at'[u] = "absent"
        BY <1>0, <1>1, <1>3
      <3>2. \A u \in DoneThreads : at'[u] \in {"refs"} \cup Dispatching => u = t
        BY <3>1 DEF Dispatching
      <3> QED BY <1>1, <1>5, <1>7, <3>2
    <2>2. ASSUME NEW u \in DoneThreads, at'[u] \in Dispatching
          PROVE  /\ target'[u] \in Actions /\ item[u] \in Refs(target'[u])
                 /\ \A k \in Actions : k = target'[u] => Fulfilled(k) /\ Considered(k)'
      <3>1. u = t
        BY <1>0, <1>1, <1>3, <2>2 DEF Dispatching
      <3>2. at'[t] = "lock" /\ target'[t] = c
        BY <1>3, <2>2, <3>1 DEF Dispatching
      <3>3. Fulfilled(c) /\ Considered(c)'
        BY <1>7, <2>1, <3>2
      <3> QED BY <1>1, <1>2, <3>1, <3>2, <3>3
    <2>3. \A r \in Actions : Ran(r) /\ Waiting(r)' => Waiting(r)
      BY <1>5
    <2>4. \A k \in Actions : Conditional(k) /\ sends'[k] > 0 =>
            sends[k] > 0 \/ (Fulfilled(k) /\ Considered(k))
      BY <1>1
    <2> QED BY <1>1, <1>4, <1>9, <2>2, <2>3, <2>4, TriggeredNear
  <1>13. NotLost'
    <2> SUFFICES ASSUME NEW k \in Actions, Conditional(k), Fulfilled(k)'
                 PROVE  sends'[k] > 0 \/ Targeted(k)' \/ ~Considered(k)'
      BY <1>1 DEF NotLost, Conditional, table
    <2>1. CASE k # c
      <3>1. \A u \in DoneThreads : k \in deps[u] => k \in deps'[u]
        BY <1>1, <2>1
      <3>2. sends[k] > 0 \/ Targeted(k) => sends'[k] > 0 \/ Targeted(k)'
        BY <1>1, <1>6, <2>1
      <3>3. \A r \in Actions : (Waiting(r) => Waiting(r)') /\ (Ran(r)' => Ran(r) \/ Waiting(r)')
        BY <1>1, <1>5, JobsSame
      <3> QED BY <1>1, <1>4, <1>9, <3>1, <3>2, <3>3, NotLostNear
    <2>2. CASE k = c /\ at'[t] = "lock"
      BY <1>6, <2>2
    <2>3. CASE k = c /\ at'[t] = "refs"
      <3>1. Fulfilled(c)
        BY <1>0, <1>1, <1>9, <2>3, JobsSame, FulfilledGrows
      <3>2. ~Dead(c)
        <4>1. Once
          BY DEF OrderInv
        <4> QED BY <1>1, <1>2, <3>1, <4>1, FulfilledNotDead
      <3>3. ~act[c].done
        BY <1>1, <1>2, <3>2 DEF OrderInv, ActionsTrue, ActionTrue
      <3>4. PICK r \in Refs(c) : value[r] = "none"
        BY <1>0, <1>1, <1>2, <1>3, <2>3, <3>3, ConditionIs
      <3>5. r \in Actions /\ Ran(r)
        BY <1>0, <1>1, <3>1, FulfilledIs, RefsAre
      <3>6. Waiting(r)
        BY <3>4, <3>5 DEF OrderInv, ActionsTrue, ActionTrue
      <3>7. r \in Refs(c)'
        BY <1>1, <3>4 DEF Refs, table
      <3>8. ~Considered(c)'
        BY <1>5, <3>6, <3>7 DEF Considered
      <3> QED BY <2>3, <3>8
    <2> QED BY <1>3, <2>1, <2>2, <2>3
  <1>14. AllSettled'
    BY <1>4, <1>8, <1>10, SettledKept DEF Mild
  <1>15. Recorded'
    BY <1>1, <1>4, <1>9, JobsSame, RecordedKept
  <1>16. Plan'
    BY <1>1, <1>4, FrontierStays, PlanKept
  <1>17. Sendings'
    <2> SUFFICES ASSUME NEW u \in Threads
                 PROVE  /\ at'[u] \in {"lock", "send"} => sends'[target'[u]] = 0
                        /\ at'[u] = "mark" => sends'[target'[u]] = 1 /\ ~Refused(target[u])'
                        /\ at'[u] = "unsent" => Refused(target[u])'
      BY DEF Sendings
    <2>1. CASE u = t
      BY <1>1, <1>2, <1>3, <2>1
    <2>2. CASE u # t
      <3>1. Refused(target[u])' <=> Refused(target[u])
        BY <1>1, <1>3, <2>2 DEF Refused
      <3> QED BY <1>1, <1>3, <2>2, <3>1 DEF OrderInv, Sendings
    <2> QED BY <2>1, <2>2
  <1>18. Once'
    BY <1>1, JobsSame
  <1> QED BY <1>11, <1>12, <1>13, <1>14, <1>15, <1>16, <1>17, <1>18 DEF OrderInv

(* Nothing will come of it. *)
LEMMA ConsiderEnds ==
  ASSUME IInv, Orderly, OrderInv, NEW t \in DoneThreads, Consider(t),
         NEW c, c = First(deps[t]), Condition(c) \in {"false", "error"}, ~act[c].done,
         NotWell(c), DoActionDone(c, at), UNCHANGED target
  PROVE  OrderInv'
  <1>0. /\ TypeOK /\ Threads = {"main"} \cup DoneThreads /\ "main" \notin DoneThreads
        /\ at \in [Threads -> Places] /\ act \in [Actions -> ActionInfo]
    BY ThreadsAre, FlagsType DEF IInv, TypeOK
  <1>1. /\ c \in Actions /\ c \in deps[t] /\ at[t] = "refs"
        /\ deps'[t] = deps[t] \ {c}
        /\ \A u \in DoneThreads : u # t => deps'[u] = deps[u] /\ at[u] = "absent"
        /\ UNCHANGED <<shot, noact, calls, first_g, last_g, abort, tree, failed, item, value,
                       job, sends>>
    BY ConsiderIs
  <1>2. /\ Conditional(c) /\ sends[c] = 0 /\ ~Targeted(c) /\ ~Ran(c) /\ ~Busy(c)
    BY <1>1, ConsideredNot
  <1>3. Dead(c) /\ Over(c)
    BY <1>1, <1>2, ConditionFalse DEF Over
  <1>4. /\ completed' = Append(completed, c)
        /\ at'["main"] = at["main"]
        /\ \A u \in DoneThreads : at'[u] = at[u] \/ (at[u] = "absent" /\ at'[u] = "starting")
    BY <1>0, <1>1, DoneType DEF DoActionDone
  <1>5. ThreadsNear /\ MainAlike /\ FrontierKept
    <2>1. ThreadsNear
      BY <1>0, <1>1, <1>4 DEF ThreadsNear, Alike, Holding, Dispatching
    <2> QED BY <1>1, <1>4, <2>1 DEF MainAlike, FrontierKept
  <1>6. \A u \in Threads : /\ at'[u] \in {"lock", "send"} <=> at[u] \in {"lock", "send"}
                           /\ at'[u] = "mark" <=> at[u] = "mark"
                           /\ at'[u] = "unsent" <=> at[u] = "unsent"
    BY <1>0, <1>4
  <1>7. \A k : (Targeted(k)' <=> Targeted(k)) /\ (k \in Actions /\ Marked(k) => Marked(k)')
    <2>1. \A k \in Actions : act'[k].dispatched = act[k].dispatched
      BY <1>0, <1>1 DEF NotWell, ActionInfo
    <2>2. \A k : Targeted(k)' <=> Targeted(k)
      BY <1>6 DEF Targeted
    <2> QED BY <1>6, <2>1, <2>2 DEF Marked
  <1>8. /\ ActionsTrue' /\ Once' /\ Grows
        /\ \A k \in Actions : /\ act'[k].recorded = act[k].recorded
                              /\ (Settled(k) => Settled(k)')
                              /\ (Waiting(k) => Waiting(k)') /\ (Ran(k)' => Ran(k))
                              /\ Ran(k) /\ Waiting(k)' => Waiting(k)
    <2>1. \A k \in Actions : /\ Dead(k) => ~Targeted(k)'
                             /\ (Busy(k) \/ Ran(k)) /\ Marked(k) => Marked(k)'
      BY <1>7, DeadIs
    <2> QED BY <1>1, <1>2, <1>3, <1>4, <1>5, <2>1, EndKept
  <1>9. Triggers' /\ Triggered'
    <2>1. \A u \in DoneThreads : at'[u] \in Dispatching =>
            at[u] \in Dispatching /\ target'[u] = target[u]
      BY <1>4 DEF Dispatching
    <2>2. \A k \in Actions : Conditional(k) /\ sends'[k] > 0 =>
            sends[k] > 0 \/ (Fulfilled(k) /\ Considered(k))
      BY <1>1
    <2> QED BY <1>1, <1>5, <1>8, <2>1, <2>2, TriggeredNear
  <1>10. NotLost'
    <2> SUFFICES ASSUME NEW k \in Actions, Conditional(k), Fulfilled(k)'
                 PROVE  sends'[k] > 0 \/ Targeted(k)' \/ ~Considered(k)'
      BY <1>1 DEF NotLost, Conditional, table
    <2>1. k # c
      <3>1. Fulfilled(k)
        BY <1>0, <1>1, <1>8, JobsSame, FulfilledGrows
      <3>2. Once
        BY DEF OrderInv
      <3> QED BY <1>3, <3>1, <3>2, FulfilledNotDead
    <2>2. \A u \in DoneThreads : k \in deps[u] => k \in deps'[u]
      BY <1>1, <2>1
    <2>3. sends[k] > 0 \/ Targeted(k) => sends'[k] > 0 \/ Targeted(k)'
      BY <1>1, <1>7
    <2>4. \A r \in Actions : (Waiting(r) => Waiting(r)') /\ (Ran(r)' => Ran(r) \/ Waiting(r)')
      BY <1>8
    <2> QED BY <1>1, <1>5, <1>8, <2>2, <2>3, <2>4, NotLostNear
  <1>11. AllSettled'
    BY <1>5, <1>8, MainAlikeIs DEF OrderInv, AllSettled
  <1>12. Recorded'
    BY <1>1, <1>5, <1>8, RecordedKept
  <1>13. Plan'
    BY <1>1, <1>5, FrontierStays, PlanKept
  <1>14. Sendings'
    <2>1. \A u \in Threads : Refused(target[u])' <=> Refused(target[u])
      BY <1>1 DEF Refused
    <2> QED BY <1>1, <1>6, <2>1 DEF OrderInv, Sendings
  <1> QED BY <1>8, <1>9, <1>10, <1>11, <1>12, <1>13, <1>14 DEF OrderInv

LEMMA ConsiderKept ==
  ASSUME IInv, Orderly, OrderInv, NEW t \in DoneThreads, Consider(t)
  PROVE  OrderInv'
  <1>1. PICK c : c = First(deps[t])
    OBVIOUS
  <1>2. CASE /\ act[c].done \/ Condition(c) = "unknown"
             /\ UNCHANGED <<act, at, target, completed>>
    BY <1>1, <1>2, ConsiderQuiet
  <1>3. CASE /\ Condition(c) = "true" /\ UNCHANGED <<act, completed>>
             /\ target' = [target EXCEPT ![t] = c] /\ at' = [at EXCEPT ![t] = "lock"]
    BY <1>1, <1>3, ConsiderQuiet
  <1>4. CASE /\ ~act[c].done /\ Condition(c) \in {"false", "error"}
             /\ SetStatus(c, IF Condition(c) = "false" THEN "NOT_DISPATCHED"
                                                       ELSE "INVALID_DEPENDENCY")
             /\ DoActionDone(c, at) /\ UNCHANGED target
    <2>1. NotWell(c)
      BY <1>4 DEF SetStatus, NotWell, Statuses
    <2> QED BY <1>1, <1>4, <2>1, ConsiderEnds
  <1> QED BY <1>1, <1>2, <1>3, <1>4 DEF Consider, NotDone, GoTo

-----------------------------------------------------------------------------
(* What breaks the premises is not taken back: a behaviour that meets them  *)
(* now has always met them.                                                 *)

Onward ==
  /\ UNCHANGED <<shot, noact>>
  /\ \A t \in DoneThreads : at[t] # "absent" => at'[t] # "absent"
  /\ \A j \in Job : job[j] \in {"refused", "lost", "late"} =>
       job'[j] = job[j] \/ (job[j] = "lost" /\ job'[j] = "late")

LEMMA OrderlyBack ==
  ASSUME TypeOK, ~torn, Onward, Orderly'
  PROVE  Orderly
  <1>1. OneThread
    BY DEF Orderly, Regular, OneThread, Onward
  <1>2. NoneLost
    BY DEF Orderly, Regular, NoneLost, Onward
  <1>3. Awaited
    <2>1. \A c \in Actions : \A r \in table.when[c].refs :
            /\ table.phase[r] = table.phase[c]
            /\ Conditional(r) => r < c
            /\ table.when[c].on = "none" =>
                 ~Conditional(r) /\ \A n \in 1 .. MaxSends : job'[<<r, n>>] # "refused"
      BY DEF Orderly, Regular, Awaited, Onward, table, Conditional
    <2>2. ASSUME NEW c \in Actions, NEW r \in table.when[c].refs, NEW n \in 1 .. MaxSends,
                 job'[<<r, n>>] # "refused", r \in Actions
          PROVE  job[<<r, n>>] # "refused"
      <3>1. <<r, n>> \in Job
        BY <2>2 DEF Job
      <3> QED BY <2>2, <3>1 DEF Onward
    <2>3. \A c \in Actions : table.when[c].refs \subseteq Actions
      BY RefsAre DEF Refs
    <2> QED BY <2>1, <2>2, <2>3 DEF Awaited
  <1> QED BY <1>1, <1>2, <1>3 DEF Orderly, Regular, Onward

LEMMA JobsOnward ==
  ASSUME TypeOK, NEW j \in Job,
         \/ Jobs!Send(j) \/ Jobs!Start(j) \/ Jobs!Complete(j) \/ Jobs!CompleteLost(j)
         \/ \E how \in {"refused", "lost"} : Jobs!Refuse(j, how)
  PROVE  \A k \in Job : job[k] \in {"refused", "lost", "late"} =>
           job'[k] = job[k] \/ (job[k] = "lost" /\ job'[k] = "late")
  <1>1. job \in [Job -> Jobs!JobStates]
    BY DEF TypeOK, Jobs!TypeOK
  <1> QED BY <1>1 DEF Jobs!Send, Jobs!Start, Jobs!Complete, Jobs!CompleteLost, Jobs!Refuse

LEMMA MainOnward ==
  ASSUME IInv, Main
  PROVE  Onward
  <1>0. TypeOK /\ at \in [Threads -> Places]
        /\ "main" \notin DoneThreads /\ DoneThreads \subseteq Threads
    BY ThreadsAre DEF IInv, TypeOK
  <1>1. UNCHANGED <<shot, noact, job>>
    BY DEF Main, BeginGroup, DispatchNext, WaitForActions, Looking, GroupDone, EndDependencies,
           CannotHappen, BeginRecord, RecordStatus, NextPhase, fixed
  <1>2. \A t \in DoneThreads : at[t] # "absent" => at'[t] # "absent"
    <2>1. CASE ~CannotHappen
      <3>1. at' = at \/ \E place : at' = [at EXCEPT !["main"] = place]
        BY <2>1 DEF Main, BeginGroup, DispatchNext, WaitForActions, Looking, GroupDone,
                    EndDependencies, BeginRecord, RecordStatus, NextPhase, GoTo
      <3> QED BY <1>0, <3>1
    <2>2. CASE CannotHappen
      <3>1. PICK i : i = item["main"]
        OBVIOUS
      <3>2. CASE i < After(Conditionals) /\ ~act[i].done
        <4>1. i \in Actions
          <5>1. i \in First(Conditionals) .. After(Conditionals) - 1
            BY <2>2, <3>1, <3>2, Positions DEF CannotHappen, IInv, MainPlaced, EndPlaces
          <5> QED BY <5>1, Positions
        <4>2. DoActionDone(i, at)
          BY <2>2, <3>1, <3>2 DEF CannotHappen
        <4> QED BY <1>0, <4>1, <4>2, DoneType
      <3>3. CASE ~(i < After(Conditionals) /\ ~act[i].done)
        <4>1. at' = at \/ \E place : at' = [at EXCEPT !["main"] = place]
          BY <2>2, <3>1, <3>3 DEF CannotHappen, GoTo
        <4> QED BY <1>0, <4>1
      <3> QED BY <3>2, <3>3
    <2> QED BY <2>1, <2>2
  <1> QED BY <1>1, <1>2 DEF Onward

LEMMA DispatchOnward ==
  ASSUME IInv, NEW t \in Threads, Dispatch(t)
  PROVE  Onward
  <1>0. TypeOK /\ at \in [Threads -> Places] /\ DoneThreads \subseteq Threads
        /\ target[t] \in Actions /\ at[t] \in Dispatching
    BY ThreadsAre, DispatchType DEF IInv, TypeOK
  <1>1. UNCHANGED <<shot, noact>>
    BY DEF Dispatch, Lock, SendNothing, Send, Mark, NotSent, fixed
  <1>2. \A u \in DoneThreads : at[u] # "absent" => at'[u] # "absent"
    <2>1. PICK place \in Places \ {"absent"} :
            at' = GoTo(t, place) \/ DoActionDone(target[t], GoTo(t, place))
      <3>1. {"send", "mark", "unsent", Return(t)} \subseteq Places \ {"absent"}
        BY DEF Return, Places
      <3> QED BY <3>1 DEF Dispatch, Lock, SendNothing, Send, Mark, NotSent
    <2>2. /\ GoTo(t, place) \in [Threads -> Places] /\ GoTo(t, place)[t] = place
          /\ \A u \in Threads : u # t => GoTo(t, place)[u] = at[u]
      BY <1>0, GoToType
    <2>3. \A u \in DoneThreads :
            at'[u] = GoTo(t, place)[u] \/ (at[u] = "absent" /\ at'[u] = "starting")
      BY <1>0, <2>1, <2>2, DoneType
    <2> QED BY <1>0, <2>2, <2>3
  <1>3. \A k \in Job : job[k] \in {"refused", "lost", "late"} =>
           job'[k] = job[k] \/ (job[k] = "lost" /\ job'[k] = "late")
    <2>1. CASE UNCHANGED job
      BY <2>1
    <2>2. CASE Send(t)
      <3>1. PICK j : j = <<target[t], sends[target[t]] + 1>>
        OBVIOUS
      <3>2. j \in Job
        BY <1>0, <2>2, <3>1 DEF Send, Job, TypeOK
      <3>3. Jobs!Send(j) \/ \E how \in {"refused", "lost"} : Jobs!Refuse(j, how)
        BY <1>0, <2>2, <3>1 DEF Send, Jobs!Refuse
      <3> QED BY <1>0, <3>2, <3>3, JobsOnward
    <2> QED BY <2>1, <2>2 DEF Dispatch, Lock, SendNothing, Mark, NotSent
  <1> QED BY <1>1, <1>2, <1>3 DEF Onward

LEMMA ThreadOnward ==
  ASSUME IInv, NEW t \in DoneThreads, ProcessActionDone(t)
  PROVE  Onward
  <1>0. TypeOK /\ at \in [Threads -> Places] /\ t \in Threads /\ DoneThreads \subseteq Threads
    BY ThreadsAre DEF IInv, TypeOK
  <1>1. UNCHANGED <<shot, noact, job>>
    BY DEF ProcessActionDone, ThreadStarts, DequeueCompletedAction, ActionDone, Consider,
           SetDone, ClearRecorded, fixed
  <1>2. \A u \in DoneThreads : at[u] # "absent" => at'[u] # "absent"
    <2>1. CASE at' = at \/ \E place \in Places \ {"absent"} : at' = GoTo(t, place)
      BY <1>0, <2>1 DEF GoTo
    <2>2. ASSUME NEW c \in Actions, DoActionDone(c, at)
          PROVE  \A u \in DoneThreads : at[u] # "absent" => at'[u] # "absent"
      BY <1>0, <2>2, DoneType
    <2>3. First(deps[t]) \in Actions \/ ~Consider(t)
      <3>1. deps[t] \subseteq Actions /\ deps[t] \subseteq Nat
        BY <1>0, Numbers DEF TypeOK
      <3> QED BY <3>1, FirstIs DEF Consider
    <2>4. {"idle", "taken", "done", "refs", "lock", "unrecord"} \subseteq Places \ {"absent"}
      BY DEF Places
    <2>5. CASE Consider(t)
      BY <2>1, <2>2, <2>3, <2>4, <2>5 DEF Consider
    <2> QED BY <2>1, <2>4, <2>5 DEF ProcessActionDone, ThreadStarts, DequeueCompletedAction,
                                  ActionDone, SetDone, ClearRecorded
  <1> QED BY <1>1, <1>2 DEF Onward

LEMMA ReceiverOnward ==
  ASSUME IInv, NEW j \in Job, Before(j) \/ Completion(j)
  PROVE  Onward
  <1>0. TypeOK /\ at \in [Threads -> Places] /\ j[1] \in Actions
    BY JobType DEF IInv, TypeOK
  <1>1. UNCHANGED <<shot, noact>>
    BY DEF Before, Completion, fixed
  <1>2. \A u \in DoneThreads : at[u] # "absent" => at'[u] # "absent"
    <2>1. CASE Before(j)
      BY <2>1 DEF Before
    <2>2. CASE Completion(j)
      <3>1. DoActionDone(j[1], at)
        BY <2>2 DEF Completion
      <3> QED BY <1>0, <3>1, DoneType
    <2> QED BY <2>1, <2>2
  <1>3. \A k \in Job : job[k] \in {"refused", "lost", "late"} =>
           job'[k] = job[k] \/ (job[k] = "lost" /\ job'[k] = "late")
    BY <1>0, JobsOnward DEF Before, Completion
  <1> QED BY <1>1, <1>2, <1>3 DEF Onward

-----------------------------------------------------------------------------

LEMMA InitCInv == Init => CInv
  <1> SUFFICES ASSUME Init, Orderly PROVE OrderInv
    BY InitIInv DEF CInv
  <1>0. IInv /\ TypeOK
    BY InitIInv DEF IInv
  <1>1. /\ \A i \in Actions : ~Busy(i) /\ ~Ran(i) /\ ~Refused(i) /\ sends[i] = 0
        /\ \A i \in Actions : act[i].status = "none" /\ ~act[i].done /\ ~act[i].recorded
        /\ \A i \in Actions : value[i] = "none"
    BY DEF Init, Jobs!Init, Job, Busy, Ran, Refused, Jobs!Running
  <1>2. /\ at["main"] = "group" /\ \A t \in DoneThreads : at[t] = "absent"
        /\ \A t \in Threads : at[t] \in {"group", "absent"}
    BY ThreadsAre DEF Init
  <1>3. \A i : ~Pending(i)
    BY <1>2 DEF Init, Pending, Holding, Dispatching
  <1>4. \A i : ~Targeted(i)
    BY <1>2 DEF Targeted
  <1>5. Once /\ ActionsTrue
    BY <1>1, <1>3 DEF Once, ActionsTrue, ActionTrue
  <1>6. Plan
    <2>1. Frontier = First(Sequenced)
      BY <1>2, FrontierIs DEF Init
    <2>2. \A i \in Sequenced : ~(i < First(Sequenced))
      <3>1. \A i \in Sequenced : First(Sequenced) <= i
        BY <1>0, Positions
      <3>2. First(Sequenced) \in Nat /\ Sequenced \subseteq Nat
        BY <1>0, Positions
      <3> QED BY <3>1, <3>2
    <2> QED BY <1>1, <2>1, <2>2 DEF Plan
  <1>7. Triggers /\ Sendings
    BY <1>2 DEF Triggers, Sendings, Dispatching
  <1>8. Triggered
    BY <1>1 DEF Triggered
  <1>9. NotLost
    <2>1. \A c \in Actions : Conditional(c) => ~Fulfilled(c)
      BY <1>0, <1>1, RefsAre, FulfilledIs
    <2> QED BY <2>1 DEF NotLost
  <1>10. AllSettled
    <2>1. PICK D \in SUBSET Actions : \A i \in Actions : i \in D <=> OutOfCalls(i)
      <3>1. {i \in Actions : OutOfCalls(i)} \in SUBSET Actions
        OBVIOUS
      <3> QED BY <3>1
    <2>2. DeadSet(D)
      <3> SUFFICES ASSUME NEW c \in D, Conditional(c) PROVE Hopeless(c, D)
        BY <1>1, <1>4, <2>1 DEF DeadSet
      <3>1. \A r \in Refs(c) : r \in Actions /\ table.phase[r] = table.phase[c]
        BY <1>0, RefsAre DEF Orderly, Regular, Awaited, Refs
      <3>2. \A r \in Refs(c) : r \in D
        BY <2>1, <3>1 DEF OutOfCalls
      <3> QED BY <3>2 DEF Hopeless
    <2>3. ASSUME NEW i \in Actions, Passed(i) PROVE Settled(i)
      <3>1. OutOfCalls(i)
        <4>1. ~(i \in InPhase /\ ~Conditional(i) /\ i < first_g)
          <5> SUFFICES ASSUME i \in Sequenced, i < First(Sequenced) PROVE FALSE
            BY DEF Init, Sequenced, Conditionals
          <5>1. First(Sequenced) <= i /\ First(Sequenced) \in Nat /\ i \in Nat
            BY <1>0, Positions
          <5> QED BY <5>1
        <4> QED BY <1>2, <2>3, <4>1 DEF Passed, Late
      <3>2. Dead(i)
        BY <2>1, <2>2, <3>1 DEF Dead
      <3> QED BY <1>1, <3>2 DEF Settled
    <2> QED BY <2>3 DEF AllSettled
  <1>11. Recorded
    BY <1>1, <1>2 DEF Init, Recorded, Reached
  <1> QED BY <1>5, <1>6, <1>7, <1>8, <1>9, <1>10, <1>11 DEF OrderInv

LEMMA MainKeeps ==
  ASSUME IInv, IInv', Orderly, OrderInv, Main
  PROVE  OrderInv'
  <1>1. CASE BeginGroup \/ DispatchNext \/ WaitForActions \/ GroupDone
    BY <1>1, BeginGroupKept, DispatchNextKept, LookingKept, GroupDoneKept
  <1>2. CASE EndDependencies \/ CannotHappen \/ BeginRecord
    BY <1>2, EndDependenciesKept, CannotHappenKept, BeginRecordKept
  <1>3. CASE RecordStatus \/ NextPhase
    BY <1>3, RecordStatusKept, NextPhaseKept
  <1> QED BY <1>1, <1>2, <1>3 DEF Main

LEMMA ThreadKeeps ==
  ASSUME IInv, Orderly, OrderInv, NEW t \in DoneThreads, ProcessActionDone(t)
  PROVE  OrderInv'
  <1>1. CASE ThreadStarts(t) \/ ClearRecorded(t)
    BY <1>1, StartsKept
  <1>2. CASE DequeueCompletedAction(t) \/ ActionDone(t)
    BY <1>2, DequeueKept, ActionDoneKept
  <1>3. CASE Consider(t) \/ SetDone(t)
    BY <1>3, ConsiderKept, SetDoneKept
  <1> QED BY <1>1, <1>2, <1>3 DEF ProcessActionDone

LEMMA DispatchKeeps ==
  ASSUME IInv, Orderly, Orderly', OrderInv, NEW t \in Threads, Dispatch(t)
  PROVE  OrderInv'
  <1>1. NoneLost' /\ ~torn' /\ ~noact
    BY DEF Orderly, Regular, NoneLost
  <1>2. CASE Lock(t)
    BY <1>2, LockKept
  <1>3. CASE Send(t)
    BY <1>1, <1>3, SendKept
  <1>4. CASE Mark(t)
    BY <1>1, <1>4, MarkKept
  <1>5. CASE NotSent(t)
    BY <1>5, NotSentKept
  <1> QED BY <1>1, <1>2, <1>3, <1>4, <1>5 DEF Dispatch, SendNothing

LEMMA VarsStill ==
  ASSUME UNCHANGED vars
  PROVE  Orderly' = Orderly /\ OrderInv' = OrderInv
  <1>1. /\ table' = table
        /\ \A i : /\ Conditional(i)' = Conditional(i) /\ Refs(i)' = Refs(i) /\ Busy(i)' = Busy(i)
                  /\ Ran(i)' = Ran(i) /\ Refused(i)' = Refused(i) /\ OutOfCalls(i)' = OutOfCalls(i)
                  /\ Targeted(i)' = Targeted(i) /\ Queued(i)' = Queued(i) /\ Held(i)' = Held(i)
                  /\ Marked(i)' = Marked(i) /\ Pending(i)' = Pending(i) /\ Single(i)' = Single(i)
                  /\ Waiting(i)' = Waiting(i) /\ ReferencedBy(i)' = ReferencedBy(i)
        /\ \A i, c : Fits(i, c)' = Fits(i, c)
    BY DEF vars, table, Conditional, Refs, Busy, Ran, Refused, OutOfCalls, Targeted, Queued, Held,
           Marked, Pending, Single, Waiting, ReferencedBy, Fits, Jobs!Running
  <1>2. UNCHANGED <<sends, calls, at, target, act, value, item, first_g, last_g, abort, tree,
                    failed, noact, torn, job, deps, shot>>
    BY DEF vars
  <1>3. \A i : /\ Dead(i)' = Dead(i)
               /\ Fulfilled(i)' = Fulfilled(i)
               /\ Considered(i)' = Considered(i)
    <2>1. \A c, D : Hopeless(c, D)' = Hopeless(c, D)
      BY <1>1 DEF Hopeless
    <2>2. \A D : DeadSet(D)' = DeadSet(D)
      BY <1>1, <1>2, <2>1 DEF DeadSet
    <2>3. \A i : Dead(i)' = Dead(i)
      BY <2>2 DEF Dead
    <2>4. \A i : Fulfilled(i)' = Fulfilled(i)
      BY <1>1, <1>2 DEF Fulfilled, table, Odd
    <2>5. \A i : Considered(i)' = Considered(i)
      BY <1>1, <1>2 DEF Considered
    <2> QED BY <2>3, <2>4, <2>5
  <1>4. /\ InPhase' = InPhase /\ Sequenced' = Sequenced /\ Frontier' = Frontier
        /\ Late' = Late
        /\ \A i : (Passed(i)' = Passed(i)) /\ (Reached(i)' = Reached(i))
                /\ (Over(i)' = Over(i)) /\ (Settled(i)' = Settled(i))
    <2>1. InPhase' = InPhase /\ Sequenced' = Sequenced
      BY <1>2, TableKept
    <2>2. Frontier' = Frontier
      BY <1>2, <2>1 DEF Frontier
    <2>3. Late' = Late
      BY <1>2 DEF Late
    <2>4. \A i : (Passed(i)' = Passed(i)) /\ (Reached(i)' = Reached(i))
      BY <1>1, <1>2, <2>1, <2>3 DEF Passed, Reached
    <2>5. \A i : (Over(i)' = Over(i)) /\ (Settled(i)' = Settled(i))
      BY <1>1, <1>2, <1>3 DEF Over, Settled
    <2> QED BY <2>1, <2>2, <2>3, <2>4, <2>5
  <1>5. (Once' = Once) /\ (Plan' = Plan) /\ (Triggers' = Triggers) /\ (Sendings' = Sendings)
    <2>1. (Once' = Once) /\ (Plan' = Plan)
      BY <1>1, <1>2, <1>4 DEF Once, Plan
    <2>2. Triggers' = Triggers
      BY <1>1, <1>2, <1>3 DEF Triggers
    <2>3. Sendings' = Sendings
      BY <1>1, <1>2 DEF Sendings
    <2> QED BY <2>1, <2>2, <2>3
  <1>6. ActionsTrue' = ActionsTrue
    <2>1. \A i : ActionTrue(i)' = ActionTrue(i)
      BY <1>1, <1>2, <1>3, <1>4 DEF ActionTrue
    <2> QED BY <2>1 DEF ActionsTrue
  <1>7. (Triggered' = Triggered) /\ (NotLost' = NotLost) /\ (AllSettled' = AllSettled)
    BY <1>1, <1>2, <1>3, <1>4 DEF Triggered, NotLost, AllSettled
  <1>8. Recorded' = Recorded
    BY <1>1, <1>2, <1>4 DEF Recorded
  <1>9. Orderly' = Orderly
    BY <1>1, <1>2 DEF Orderly, Regular, OneThread, NoneLost, Awaited
  <1> QED BY <1>5, <1>6, <1>7, <1>8, <1>9 DEF OrderInv

LEMMA StepCInv == CInv /\ [Next]_vars => CInv'
  <1> SUFFICES ASSUME CInv, [Next]_vars, Orderly' PROVE OrderInv'
    BY StepKeeps DEF CInv
  <1>0. IInv /\ IInv' /\ TypeOK
    BY StepKeeps DEF CInv, IInv
  <1>1. CASE UNCHANGED vars
    BY <1>1, VarsStill DEF CInv
  <1>2. CASE ~torn /\ Main
    <2>1. Orderly
      BY <1>0, <1>2, MainOnward, OrderlyBack
    <2> QED BY <1>0, <1>2, <2>1, MainKeeps DEF CInv
  <1>3. ASSUME ~torn, NEW t \in Threads, Dispatch(t) PROVE OrderInv'
    <2>1. Orderly
      BY <1>0, <1>3, DispatchOnward, OrderlyBack
    <2> QED BY <1>0, <1>3, <2>1, DispatchKeeps DEF CInv
  <1>4. ASSUME ~torn, NEW t \in DoneThreads, ProcessActionDone(t) PROVE OrderInv'
    <2>1. Orderly
      BY <1>0, <1>4, ThreadOnward, OrderlyBack
    <2> QED BY <1>0, <1>4, <2>1, ThreadKeeps DEF CInv
  <1>5. ASSUME ~torn, NEW j \in Job, Before(j) \/ Completion(j) PROVE OrderInv'
    <2>1. Orderly
      BY <1>0, <1>5, ReceiverOnward, OrderlyBack
    <2>2. ~torn'
      BY DEF Orderly, Regular, NoneLost
    <2> QED BY <1>0, <1>5, <2>1, <2>2, BeforeKept, CompletionKept DEF CInv
  <1> QED BY <1>1, <1>2, <1>3, <1>4, <1>5 DEF Next, Rest

LEMMA CInvariance == Spec => []CInv
  <1> QED BY InitCInv, StepCInv, PTL DEF Spec

(* With noact nothing is sent. *)
LEMMA NothingSent ==
  ASSUME IInv, noact, NEW i \in Actions
  PROVE  sends[i] = 0 /\ ~Busy(i) /\ ~Ran(i) /\ \A n \in 1 .. MaxSends : job[<<i, n>>] = "none"
  <1>1. sends[i] = 0 /\ \A n \in 1 .. MaxSends : n > sends[i] => job[<<i, n>>] = "none"
    BY DEF IInv, SendsCount
  <1>2. \A n \in 1 .. MaxSends : job[<<i, n>>] = "none"
    BY <1>1
  <1> QED BY <1>1, <1>2 DEF Busy, Ran, Jobs!Running

(* An action with a condition is dispatched only when what it waits for has *)
(* ended as the condition asks, although main, the receiver and the thread  *)
(* of completed actions change the flags and the values at any time.        *)
THEOREM DependenciesKept == Spec => []DependenciesHold
  <1>1. ASSUME CInv PROVE DependenciesHold
    <2>0. IInv /\ TypeOK
      BY <1>1 DEF CInv, IInv
    <2> SUFFICES ASSUME Regular, NEW c \in Actions, Conditional(c), sends[c] > 0,
                        NEW r \in Refs(c)
                 PROVE  act[r].status # "none" /\ ~Busy(r) /\ Fits(r, c)
      BY DEF DependenciesHold, Refs, Fits
    <2>1. Orderly /\ OrderInv
      BY <1>1, <2>0, NothingSent DEF Orderly, CInv
    <2>2. r \in Actions /\ Ran(r) /\ Fits(r, c)
      BY <2>0, <2>1, RefsAre, FulfilledIs DEF OrderInv, Triggered
    <2>3. act[r].status \in {"ok", "error"} /\ ~Busy(r)
      BY <2>0, <2>1, <2>2, Stages DEF OrderInv, ActionsTrue, ActionTrue
    <2> QED BY <2>2, <2>3
  <1> QED BY <1>1, CInvariance, PTL

(* No action is run twice. *)
THEOREM OnceDispatched == Spec => []DispatchedOnce
  <1>1. ASSUME CInv PROVE DispatchedOnce
    <2>0. IInv
      BY <1>1 DEF CInv
    <2> SUFFICES ASSUME Regular, NEW i \in Actions PROVE sends[i] <= 1
      BY DEF DispatchedOnce
    <2>1. CASE noact
      BY <2>0, <2>1, NothingSent
    <2>2. CASE ~noact
      BY <1>1, <2>2 DEF CInv, Orderly, OrderInv, Once
    <2> QED BY <2>1, <2>2
  <1> QED BY <1>1, CInvariance, PTL

(* When ServerDispatchPhase() returns, the whole phase has ended, the tree  *)
(* has what each action came to, and a failed essential action is reported. *)
THEOREM ReturnsCorrect == Spec => []ReturnsComplete
  <1>1. ASSUME CInv PROVE ReturnsComplete
    <2> SUFFICES ASSUME at["main"] = "returned", ~noact, Regular, NEW i \in InPhase
                 PROVE  /\ ~Busy(i)
                        /\ Ran(i) => /\ tree[i] = act[i].status /\ tree[i] \in {"ok", "error"}
                                     /\ tree[i] = "error" /\ i \in Essential => failed
      BY DEF ReturnsComplete
    <2>1. OrderInv /\ i \in Actions
      BY <1>1 DEF CInv, Orderly, InPhase, OfPhases
    <2>2. Passed(i) /\ Reached(i)
      BY DEF Passed, Reached, Late
    <2>3. ~Busy(i)
      BY <2>1, <2>2, SettledNow DEF Settled
    <2>4. ASSUME Ran(i)
          PROVE  /\ tree[i] = act[i].status /\ act[i].status \in {"ok", "error"}
                 /\ tree[i] = "error" /\ i \in Essential => failed
      BY <2>1, <2>2, <2>4 DEF OrderInv, Recorded, ActionsTrue, ActionTrue
    <2> QED BY <2>3, <2>4
  <1> QED BY <1>1, CInvariance, PTL

(* What is reported as "cannot happen" has not run, and what it waited for  *)
(* did not come true, or no server took it.                                 *)
THEOREM CannotHappenCorrect == Spec => []CannotHappenTrue
  <1>1. ASSUME CInv PROVE CannotHappenTrue
    <2>0. IInv /\ TypeOK
      BY <1>1 DEF CInv, IInv
    <2> SUFFICES ASSUME Regular, NEW c \in Actions, act[c].status = "CANT_HAPPEN"
                 PROVE  /\ \A n \in 1 .. MaxSends : job[<<c, n>>] \in {"none", "refused"}
                        /\ Fulfilled(c) => sends[c] > 0
      BY DEF CannotHappenTrue
    <2>1. CASE noact
      <3>1. Fulfilled(c) => \E r \in Refs(c) : r \in Actions /\ Ran(r)
        BY <2>0, FulfilledIs, RefsAre
      <3> QED BY <2>0, <2>1, <3>1, NothingSent
    <2>2. CASE ~noact
      <3>1. OrderInv /\ Once
        BY <1>1, <2>2 DEF CInv, Orderly, OrderInv
      <3>2. ~Ran(c) /\ Over(c)
        BY <3>1 DEF OrderInv, ActionsTrue, ActionTrue
      <3>3. CASE Refused(c)
        <4>1. sends[c] = 1 /\ job[<<c, 1>>] = "refused"
          BY <2>0, <3>1, <3>3, Stages
        <4>2. \A n \in 1 .. MaxSends : n > sends[c] => job[<<c, n>>] = "none"
          BY <2>0, JobIs
        <4> QED BY <4>1, <4>2
      <3>4. CASE Conditional(c) /\ Dead(c)
        <4>1. sends[c] = 0
          BY <3>4, DeadIs
        <4>2. \A n \in 1 .. MaxSends : n > sends[c] => job[<<c, n>>] = "none"
          BY <2>0, JobIs
        <4>3. ~Fulfilled(c)
          BY <2>0, <3>1, <3>4, FulfilledNotDead
        <4> QED BY <4>1, <4>2, <4>3
      <3> QED BY <3>2, <3>3, <3>4 DEF Over
    <2> QED BY <2>1, <2>2
  <1> QED BY <1>1, CInvariance, PTL

=============================================================================

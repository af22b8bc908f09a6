-------------------------- MODULE MCDispatchPhase --------------------------
(* Dispatch tables for TLC.                                                *)
EXTENDS DispatchPhase

CONSTANTS d1, d2

If(r)  == [refs |-> r, on |-> "all"]
Not(r) == [refs |-> r, on |-> "none"]
Bad(r) == [refs |-> r, on |-> "error"]

(* A group of two, and an action that both trigger. *)
Joined   == [phase    |-> <<1, 1, 1>>,
             sequence |-> <<0, 10, 10>>,
             when     |-> <<If({2, 3}), NoWhen, NoWhen>>]
(* Two groups, and an action after the failure of the first. *)
Groups   == [phase    |-> <<1, 1, 1>>,
             sequence |-> <<0, 10, 20>>,
             when     |-> <<Not({2}), NoWhen, NoWhen>>]
(* A chain of conditions, along the table and against it. *)
Chain    == [phase    |-> <<1, 1, 1>>,
             sequence |-> <<0, 0, 10>>,
             when     |-> <<If({3}), If({1}), NoWhen>>]
Backward == [phase    |-> <<1, 1, 1>>,
             sequence |-> <<0, 0, 10>>,
             when     |-> <<If({2}), If({3}), NoWhen>>]
(* Two groups without a condition. *)
Plain    == [phase    |-> <<1, 1, 2>>,
             sequence |-> <<10, 20, 10>>,
             when     |-> <<NoWhen, NoWhen, NoWhen>>]
(* Two phases, and a condition that cannot be evaluated. *)
Phased   == [phase    |-> <<1, 1, 2>>,
             sequence |-> <<0, 10, 10>>,
             when     |-> <<Bad({2}), NoWhen, NoWhen>>]

Shot(tab, phases, how, ts) ==
  [table |-> tab, phases |-> phases, refusals |-> how, threads |-> ts]

SomeShots ==
  {Shot(tab, <<1>>, {"refused"}, {d1}) : tab \in {Joined, Groups, Chain, Backward}}
    \cup {Shot(Phased, <<1, 2>>, {"refused"}, {d1}), Shot(Plain, <<1>>, {"lost"}, {d1}),
          Shot(Joined, <<1>>, {}, {d1, d2})}
ThreeActions == 1 .. 3
=============================================================================

----------------------------- MODULE MCJobList -----------------------------
(* Servers for TLC: 1 and 2 are two lives of one, 3 is another.            *)
EXTENDS JobList

TwoServers == {1, 3}
TwoLives   == {1, 2, 3}
Ports      == [s \in Servers |-> IF s = 3 THEN 2 ELSE 1]
OwnHosts   == [s \in Servers |-> IF s = 3 THEN 2 ELSE 1]
OneHost    == [s \in Servers |-> 1]
Numbers    == 4 .. 9
=============================================================================

----------------------------- MODULE CommandProxy -----------------------------
(***************************************************************************)
(* What the mdsshell server promises its clients: it is a proxy that       *)
(* serves one client at a time; a client's command is taken once, is       *)
(* answered once with the outcome it had, and a client that goes away      *)
(* takes nothing from the others.                                          *)
(***************************************************************************)
CONSTANT Clients

VARIABLES
  phase,    \* client -> idle, asked, served, answered or gone
  outcome   \* client -> outcome of the command that is being served

pvars == <<phase, outcome>>
Outcomes == {"none", "ok", "err"}

PInit == /\ phase = [c \in Clients |-> "idle"]
         /\ outcome = [c \in Clients |-> "none"]

Move(c, from, to) == phase[c] \in from /\ phase' = [phase EXCEPT ![c] = to]

\* A client submits a command.
Submit(c) == /\ Move(c, {"idle", "answered"}, "asked")
             /\ outcome' = [outcome EXCEPT ![c] = "none"]

\* The server takes it: never while another client waits for its answer.
Take(c) == /\ \A d \in Clients : phase[d] # "served"
           /\ Move(c, {"asked"}, "served")
           /\ UNCHANGED outcome

\* The command has run, once, whether or not the client is still there.
Decide(c) == /\ phase[c] \in {"served", "gone"} /\ outcome[c] = "none"
             /\ \E o \in {"ok", "err"} : outcome' = [outcome EXCEPT ![c] = o]
             /\ UNCHANGED phase

\* The client has the whole answer.
Answer(c) == /\ outcome[c] # "none"
             /\ Move(c, {"served"}, "answered")
             /\ UNCHANGED outcome

\* The client goes, with or without its answer.
Go(c) == /\ Move(c, {"idle", "asked", "served", "answered"}, "gone")
         /\ UNCHANGED outcome

PNext == \E c \in Clients : Submit(c) \/ Take(c) \/ Decide(c) \/ Answer(c) \/ Go(c)

PSpec == PInit /\ [][PNext]_pvars
=============================================================================

----------------------------- MODULE SealState ------------------------------
(***************************************************************************)
(* What a vault promises to its callers, without loop devices, mappers and  *)
(* mounts: operations on it happen one at a time, only the one that owns    *)
(* the vault changes its state (an operator and a reboot aside), and an     *)
(* operation that answers ok has reached its goal.                          *)
(***************************************************************************)
CONSTANTS Procs, NoProc, Operator

VARIABLES
  state,   \* sealed, unsealed, or in between
  owner,   \* the process whose operation is running
  goal,    \* the state that operation is to reach
  answer   \* the last outcome each process was given

vars == <<state, owner, goal, answer>>

States == {"sealed", "unsealed", "degraded"}
Goals  == {"sealed", "unsealed"}

Init ==
  /\ state = "sealed" /\ owner = NoProc /\ goal = "sealed"
  /\ answer = [p \in Procs |-> "none"]

Begin(p) ==
  /\ owner = NoProc /\ owner' = p
  /\ goal' \in Goals
  /\ UNCHANGED <<state, answer>>

Work ==
  /\ owner # NoProc
  /\ state' \in States
  /\ UNCHANGED <<owner, goal, answer>>

End(p) ==
  /\ owner = p
  /\ owner' = NoProc /\ goal' = "sealed"
  /\ \/ state' = goal /\ answer' = [answer EXCEPT ![p] = "ok"]
     \/ state' \in States /\ answer' = [answer EXCEPT ![p] = "error"]

(* A request that needs no ownership, or is refused before it had it *)
Other(p) ==
  /\ owner # p
  /\ \E a \in {"none", "error"} : answer' = [answer EXCEPT ![p] = a]
  /\ UNCHANGED <<state, owner, goal>>

ByHand ==
  /\ Operator /\ owner = NoProc
  /\ state' \in States
  /\ UNCHANGED <<owner, goal, answer>>

(* The agent restarts, the host with it or not *)
Restart ==
  /\ owner' = NoProc /\ goal' = "sealed"
  /\ answer' = [p \in Procs |-> "none"]
  /\ state' \in {state, "sealed"}

Next ==
  \/ \E p \in Procs : Begin(p) \/ End(p) \/ Other(p)
  \/ Work \/ ByHand \/ Restart

Spec == Init /\ [][Next]_vars
=============================================================================

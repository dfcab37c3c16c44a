--------------------------- MODULE ConsoleProofs ----------------------------
(***************************************************************************)
(* The proofs about Console: one invariant, and from it the types, what an  *)
(* unseal and a seal answer for, and the links.                             *)
(***************************************************************************)
EXTENDS Console, TLAPS

(* A call does the step of its own verb, and only unseal starts services *)
StepInv ==
  \A c \in Open : /\ conn[c].step \in Verbs => conn[c].step = conn[c].verb
                  /\ conn[c].step = "start" => conn[c].verb = "unseal"

(* A call that none has overlapped is the only one *)
AloneInv == \A c, d \in Open : conn[c].alone => d = c

(* What such a call has reached, if it found nothing to warn of: the        *)
(* services it was sent are stopped, and the vault is open before they are  *)
(* started.                                                                 *)
ServeInv ==
  \A c \in Open : conn[c].alone /\ ~conn[c].stopErr =>
    /\ conn[c].step \in {"unseal", "seal", "start"} =>
         \A s \in conn[c].asked : container[s] = "stopped"
    /\ conn[c].step = "start" => vault = "unsealed"

(* The answer with which the links go *)
Forgets(c) ==
  conn[c].step = "answered" /\ conn[c].verb = "destroy" /\ conn[c].answer = "ok"

(* Links of a vault that is gone go when the answer of its destroy arrives *)
LinkInv ==
  lost = 0 =>
    /\ \A c \in Open : conn[c].awaited
    /\ vault = "absent" /\ links # {} /\ ~astray /\ faults = 0 => \E c \in Open : Forgets(c)

ConsoleInv == TypeOK /\ StepInv /\ AloneInv /\ ServeInv /\ LinkInv

-----------------------------------------------------------------------------
(* The record of an open connection is a request *)
LEMMA RequestShape ==
  ASSUME NEW r \in Requests
  PROVE  /\ r # Closed /\ r.step \in Steps /\ r.verb \in Verbs
         /\ r.asked \subseteq Services /\ r.awaited \in BOOLEAN /\ r.alone \in BOOLEAN
         /\ r.stopErr \in BOOLEAN /\ r.answer \in Answers
<1>1. r.step # "closed" /\ Closed.step = "closed"
  BY DEF Requests, Steps, Verbs, Closed
<1> QED
  BY <1>1 DEF Requests

LEMMA OpenShape ==
  ASSUME conn \in [Conns -> Requests \cup {Closed}]
  PROVE  \A c \in Conns : c \in Open <=> conn[c] \in Requests
BY RequestShape DEF Open

LEMMA OpenShapeNext ==
  ASSUME conn' \in [Conns -> Requests \cup {Closed}]
  PROVE  \A c \in Conns : c \in Open' <=> conn'[c] \in Requests
BY RequestShape DEF Open

(* A step of the agent changes one request, and not what it was asked by *)
Moved(c) ==
  /\ conn' \in [Conns -> Requests \cup {Closed}] /\ conn'[c] \in Requests
  /\ \A d \in Conns \ {c} : conn'[d] = conn[d]
  /\ conn'[c].verb = conn[c].verb
  /\ conn'[c].alone = conn[c].alone /\ conn'[c].awaited = conn[c].awaited

LEMMA ChangeMoves ==
  ASSUME TypeOK, NEW c \in Open, NEW q \in Requests, conn' = [conn EXCEPT ![c] = q],
         q.verb = conn[c].verb, q.alone = conn[c].alone, q.awaited = conn[c].awaited
  PROVE  Moved(c) /\ conn'[c] = q
BY DEF TypeOK, Open, Moved

LEMMA GotoMoves ==
  ASSUME TypeOK, NEW c \in Open, NEW st \in Steps, Goto(c, st)
  PROVE  /\ Moved(c) /\ conn'[c].step = st /\ conn'[c].asked = conn[c].asked
         /\ conn'[c].stopErr = conn[c].stopErr
<1>1. c \in Conns /\ conn[c] \in Requests
  BY OpenShape DEF TypeOK, Open
<1> DEFINE q == [conn[c] EXCEPT !.step = st]
<1>2. conn' = [conn EXCEPT ![c] = q]
  BY <1>1 DEF Goto
<1>3. /\ q \in Requests /\ q.step = st /\ q.asked = conn[c].asked
      /\ q.stopErr = conn[c].stopErr /\ q.verb = conn[c].verb
      /\ q.alone = conn[c].alone /\ q.awaited = conn[c].awaited
  BY <1>1 DEF Requests
<1> HIDE DEF q
<1> QED
  BY <1>2, <1>3, ChangeMoves

LEMMA AnswerMoves ==
  ASSUME TypeOK, NEW c \in Open, NEW a \in Answers, Answer(c, a)
  PROVE  /\ Moved(c) /\ conn'[c].step = "answered" /\ conn'[c].asked = conn[c].asked
         /\ conn'[c].stopErr = conn[c].stopErr /\ conn'[c].answer = a
<1>1. c \in Conns /\ conn[c] \in Requests
  BY OpenShape DEF TypeOK, Open
<1> DEFINE q == [conn[c] EXCEPT !.step = "answered", !.answer = a]
<1>2. conn' = [conn EXCEPT ![c] = q]
  BY <1>1 DEF Answer
<1>3. /\ q \in Requests /\ q.step = "answered" /\ q.asked = conn[c].asked
      /\ q.stopErr = conn[c].stopErr /\ q.verb = conn[c].verb /\ q.answer = a
      /\ q.alone = conn[c].alone /\ q.awaited = conn[c].awaited
  BY <1>1 DEF Requests, Steps
<1> HIDE DEF q
<1> QED
  BY <1>2, <1>3, ChangeMoves

(* What a step of the agent may leave behind, in terms of its own call *)
Kept(c) ==
  /\ Moved(c)
  /\ vault' \in {"absent", "sealed", "unsealed", "degraded"}
  /\ container' \in [Services -> {"removed", "stopped", "stub", "vault"}]
  /\ UNCHANGED <<links, astray, lost>> /\ faults' \in 0..MaxFaults /\ (faults' = 0 => faults = 0)
  /\ conn'[c].step \in {"stop", "start"} => conn'[c].asked # {}
  /\ conn'[c].step \in Verbs => conn'[c].step = conn[c].verb
  /\ conn'[c].step = "start" => conn[c].verb = "unseal"
  /\ conn[c].alone /\ ~conn'[c].stopErr =>
       /\ conn'[c].step \in {"unseal", "seal", "start"} =>
            \A s \in conn'[c].asked : container'[s] = "stopped"
       /\ conn'[c].step = "start" => vault' = "unsealed"
  /\ vault' = "absent" /\ vault # "absent" /\ faults' = 0 => Forgets(c)'
  /\ ~(conn[c].step = "answered")

LEMMA KeptKeepsInv ==
  ASSUME ConsoleInv, NEW c \in Open, Kept(c)
  PROVE  ConsoleInv'
<1> USE DEF ConsoleInv
<1>1. c \in Conns /\ Moved(c) /\ conn[c] \in Requests
  BY OpenShape DEF TypeOK, Open, Kept
<1>2. Open' = Open
  <2>1. \A d \in Conns : d \in Open' <=> conn'[d] \in Requests
    BY <1>1, OpenShapeNext DEF Moved
  <2>2. \A d \in Conns : d \in Open <=> conn[d] \in Requests
    BY OpenShape DEF TypeOK
  <2>3. \A d \in Conns : d \in Open' <=> d \in Open
    BY <1>1, <2>1, <2>2 DEF Moved
  <2> QED
    BY <2>3 DEF Open
<1>3. \A d \in Open \ {c} : conn'[d] = conn[d]
  BY <1>1 DEF Moved, Open
<1>4. TypeOK'
  <2>1. \A d \in Conns : conn'[d].step \in {"stop", "start"} => conn'[d].asked # {}
    BY <1>1 DEF Kept, Moved, TypeOK
  <2> QED
    BY <1>1, <2>1 DEF Kept, Moved, TypeOK
<1>5. StepInv'
  BY <1>1, <1>2, <1>3 DEF Kept, Moved, StepInv
<1>6. AloneInv'
  <2>1. \A d \in Open : conn'[d].alone = conn[d].alone
    BY <1>1, <1>3 DEF Moved
  <2> QED
    BY <1>2, <2>1 DEF AloneInv
<1>7. ServeInv'
  <2> SUFFICES ASSUME NEW d \in Open, conn'[d].alone, ~conn'[d].stopErr
               PROVE  /\ conn'[d].step \in {"unseal", "seal", "start"} =>
                           \A s \in conn'[d].asked : container'[s] = "stopped"
                      /\ conn'[d].step = "start" => vault' = "unsealed"
    BY <1>2 DEF ServeInv
  <2>1. d = c
    BY <1>3 DEF AloneInv
  <2> QED
    BY <1>1, <2>1 DEF Kept, Moved
<1>8. LinkInv'
  <2> SUFFICES ASSUME lost' = 0
               PROVE  /\ \A d \in Open' : conn'[d].awaited
                      /\ vault' = "absent" /\ links' # {} /\ ~astray' /\ faults' = 0 =>
                           \E d \in Open' : Forgets(d)'
    BY DEF LinkInv
  <2>1. \A d \in Open' : conn'[d].awaited
    <3>1. \A d \in Open : conn[d].awaited
      BY DEF LinkInv, Kept
    <3> QED
      BY <1>1, <1>2, <1>3, <3>1 DEF Moved
  <2>2. ASSUME vault' = "absent", links' # {}, ~astray', faults' = 0
        PROVE  \E d \in Open' : Forgets(d)'
    <3>1. CASE vault # "absent"
      BY <1>2, <2>2, <3>1 DEF Kept
    <3>2. CASE vault = "absent"
      <4>1. PICK d \in Open : Forgets(d)
        BY <2>2, <3>2 DEF LinkInv, Kept
      <4>2. d # c
        BY <4>1 DEF Forgets, Kept
      <4>3. Forgets(d)'
        BY <1>3, <4>1, <4>2 DEF Forgets
      <4> QED
        BY <1>2, <4>3
    <3> QED
      BY <3>1, <3>2
  <2> QED
    BY <2>1, <2>2
<1> QED
  BY <1>4, <1>5, <1>6, <1>7, <1>8

-----------------------------------------------------------------------------
(* What is known of an open call before its step *)
LEMMA OpenCall ==
  ASSUME ConsoleInv, NEW c \in Conns, c \in Open
  PROVE  /\ conn[c] \in Requests /\ conn[c].verb \in Verbs /\ conn[c].asked \subseteq Services
         /\ conn[c].stopErr \in BOOLEAN /\ conn[c].alone \in BOOLEAN
         /\ conn[c].step \in Verbs => conn[c].step = conn[c].verb
         /\ conn[c].step \in {"stop", "start"} => conn[c].asked # {}
<1>1. conn[c] \in Requests
  BY OpenShape DEF ConsoleInv, TypeOK
<1> QED
  BY <1>1, RequestShape DEF ConsoleInv, TypeOK, StepInv

LEMMA StepNames ==
  /\ Verbs \subseteq Steps /\ {"exists", "stop", "start", "answered"} \subseteq Steps
  /\ {"ok", "warning", "error"} \subseteq Answers
  /\ {"exists", "stop", "start", "answered"} \cap Verbs = {}
BY DEF Verbs, Steps, Answers

LEMMA StoppedShape ==
  ASSUME TypeOK, NEW S \in SUBSET Services
  PROVE  Stopped(S) \in [Services -> {"removed", "stopped", "stub", "vault"}]
         /\ \A s \in S : Stopped(S)[s] = "stopped"
BY DEF Stopped, TypeOK

LEMMA StartedShape ==
  ASSUME TypeOK, NEW S \in SUBSET Services
  PROVE  Started(S) \in [Services -> {"removed", "stopped", "stub", "vault"}]
BY DEF Started, TypeOK

LEMMA Faulty ==
  ASSUME TypeOK, NoFault \/ Fault
  PROVE  faults' \in 0..MaxFaults /\ (faults' = 0 => faults = 0) /\ lost' = lost
BY ConsoleAssumption DEF TypeOK, NoFault, Fault

LEMMA ExistsKept == ASSUME ConsoleInv, NEW c \in Conns, Exists(c) PROVE Kept(c)
<1>1. c \in Open /\ conn[c].step = "exists" /\ TypeOK
  BY DEF Exists, ConsoleInv
<1>2. /\ UNCHANGED <<vault, container, links, astray>>
      /\ faults' \in 0..MaxFaults /\ (faults' = 0 => faults = 0) /\ lost' = lost
  BY <1>1, Faulty DEF Exists
<1>3. CASE Answer(c, "error")
  BY <1>1, <1>2, <1>3, AnswerMoves, StepNames, OpenCall DEF Kept, TypeOK
<1>4. CASE Goto(c, FirstStep(c))
  <2>1. FirstStep(c) \in Steps
    BY <1>1, OpenCall, StepNames DEF FirstStep
  <2>2. /\ Moved(c) /\ conn'[c].step = FirstStep(c) /\ conn'[c].asked = conn[c].asked
        /\ conn'[c].stopErr = conn[c].stopErr
    BY <1>1, <1>4, <2>1, GotoMoves
  <2>3. CASE conn[c].asked # {}
    BY <1>1, <1>2, <2>2, <2>3, StepNames DEF Kept, TypeOK, FirstStep
  <2>4. CASE conn[c].asked = {}
    BY <1>1, <1>2, <2>2, <2>4, StepNames, OpenCall DEF Kept, TypeOK, FirstStep
  <2> QED
    BY <2>3, <2>4
<1> QED
  BY <1>3, <1>4 DEF Exists

LEMMA StopKept == ASSUME ConsoleInv, NEW c \in Conns, Stop(c) PROVE Kept(c)
<1>1. /\ c \in Open /\ conn[c].step = "stop" /\ TypeOK
      /\ UNCHANGED <<vault, links, astray>>
  BY DEF Stop, ConsoleInv
<1>2. conn[c].verb \in Steps \ {"stop", "start", "answered"}
  BY <1>1, OpenCall, StepNames
<1>3. ASSUME NoFault, container' = Stopped(conn[c].asked), Goto(c, conn[c].verb)
      PROVE  Kept(c)
  <2>1. /\ Moved(c) /\ conn'[c].step = conn[c].verb /\ conn'[c].asked = conn[c].asked
        /\ conn'[c].stopErr = conn[c].stopErr
    BY <1>1, <1>2, <1>3, GotoMoves
  <2>2. /\ container' \in [Services -> {"removed", "stopped", "stub", "vault"}]
        /\ \A s \in conn[c].asked : container'[s] = "stopped"
    BY <1>1, <1>3, StoppedShape, OpenCall
  <2>3. faults' \in 0..MaxFaults /\ (faults' = 0 => faults = 0) /\ lost' = lost
    BY <1>1, <1>3, Faulty
  <2> QED
    BY <1>1, <1>2, <2>1, <2>2, <2>3 DEF Kept, TypeOK
<1>4. ASSUME NoFault \/ Fault,
             container' \in [Services -> {"removed", "stopped", "stub", "vault"}],
             conn' = [conn EXCEPT ![c].step = conn[c].verb, ![c].stopErr = TRUE]
      PROVE  Kept(c)
  <2>1. c \in Conns /\ conn[c] \in Requests
    BY <1>1, OpenCall
  <2> DEFINE q == [conn[c] EXCEPT !.step = conn[c].verb, !.stopErr = TRUE]
  <2>2. conn' = [conn EXCEPT ![c] = q]
    BY <2>1, <1>4
  <2>3. /\ q \in Requests /\ q.step = conn[c].verb /\ q.stopErr = TRUE
        /\ q.verb = conn[c].verb /\ q.alone = conn[c].alone /\ q.awaited = conn[c].awaited
    BY <2>1, <1>2 DEF Requests
  <2> HIDE DEF q
  <2>4. Moved(c) /\ conn'[c].step = conn[c].verb /\ conn'[c].stopErr = TRUE
    BY <1>1, <2>2, <2>3, ChangeMoves
  <2>5. faults' \in 0..MaxFaults /\ (faults' = 0 => faults = 0) /\ lost' = lost
    BY <1>1, <1>4, Faulty
  <2> QED
    BY <1>1, <1>2, <1>4, <2>4, <2>5 DEF Kept, TypeOK
<1>5. \A S \in SUBSET (conn[c].asked \cap Known) :
        container' = Stopped(S) => container' \in [Services -> {"removed", "stopped", "stub", "vault"}]
  BY <1>1, OpenCall, StoppedShape
<1> QED
  BY <1>1, <1>3, <1>4, <1>5 DEF Stop, TypeOK

LEMMA StartKept == ASSUME ConsoleInv, NEW c \in Conns, Start(c) PROVE Kept(c)
<1>1. /\ c \in Open /\ conn[c].step = "start" /\ TypeOK
      /\ UNCHANGED <<vault, links, astray>>
  BY DEF Start, ConsoleInv
<1>2. NoFault \/ Fault
  BY DEF Start
<1>3. container' \in [Services -> {"removed", "stopped", "stub", "vault"}]
  BY <1>1, OpenCall, StartedShape DEF Start, TypeOK
<1>4. Moved(c) /\ conn'[c].step = "answered"
  BY <1>1, AnswerMoves, StepNames DEF Start, Done
<1>5. faults' \in 0..MaxFaults /\ (faults' = 0 => faults = 0) /\ lost' = lost
  BY <1>1, <1>2, Faulty
<1> QED
  BY <1>1, <1>3, <1>4, <1>5, StepNames DEF Kept, TypeOK

LEMMA UnsealKept == ASSUME ConsoleInv, NEW c \in Conns, Unseal(c) PROVE Kept(c)
<1>1. /\ c \in Open /\ conn[c].step = "unseal" /\ TypeOK
      /\ UNCHANGED <<container, links, astray>> /\ (NoFault \/ Fault)
  BY DEF Unseal, ConsoleInv
<1>2. conn[c].verb = "unseal"
  BY <1>1, OpenCall DEF Verbs
<1>3. faults' \in 0..MaxFaults /\ (faults' = 0 => faults = 0) /\ lost' = lost
  BY <1>1, Faulty
<1>4. CASE \E a \in Answers : Answer(c, a) /\ vault' \in {vault, "sealed", "degraded", "unsealed"}
  <2>1. PICK a \in Answers : Answer(c, a) /\ vault' \in {vault, "sealed", "degraded", "unsealed"}
    BY <1>4
  <2>2. Moved(c) /\ conn'[c].step = "answered"
    BY <1>1, <2>1, AnswerMoves
  <2> QED
    BY <1>1, <1>3, <2>1, <2>2, StepNames DEF Kept, TypeOK
<1>5. CASE vault' = "unsealed" /\ conn[c].asked # {} /\ Goto(c, "start")
  <2>1. /\ Moved(c) /\ conn'[c].step = "start" /\ conn'[c].asked = conn[c].asked
        /\ conn'[c].stopErr = conn[c].stopErr
    BY <1>1, <1>5, GotoMoves, StepNames
  <2>2. conn[c].alone /\ ~conn[c].stopErr => \A s \in conn[c].asked : container[s] = "stopped"
    BY <1>1 DEF ConsoleInv, ServeInv
  <2> QED
    BY <1>1, <1>2, <1>3, <1>5, <2>1, <2>2, StepNames DEF Kept, TypeOK
<1> QED
  BY <1>4, <1>5, StepNames DEF Unseal, UnsealLeaves, Done

LEMMA SealKept == ASSUME ConsoleInv, NEW c \in Conns, Seal(c) PROVE Kept(c)
<1>1. /\ c \in Open /\ conn[c].step = "seal" /\ TypeOK
      /\ UNCHANGED <<container, links, astray>> /\ (NoFault \/ Fault)
  BY DEF Seal, ConsoleInv
<1>2. faults' \in 0..MaxFaults /\ (faults' = 0 => faults = 0) /\ lost' = lost
  BY <1>1, Faulty
<1>3. \E a \in Answers : Answer(c, a) /\ vault' \in {vault, "sealed", "degraded", "unsealed"}
  BY StepNames DEF Seal, SealLeaves, Done
<1>4. Moved(c) /\ conn'[c].step = "answered"
  BY <1>1, <1>3, AnswerMoves
<1> QED
  BY <1>1, <1>2, <1>3, <1>4, StepNames DEF Kept, TypeOK

LEMMA CreateKept == ASSUME ConsoleInv, NEW c \in Conns, Create(c) PROVE Kept(c)
<1>1. /\ c \in Open /\ conn[c].step = "create" /\ TypeOK
      /\ UNCHANGED <<container, links, astray>> /\ (NoFault \/ Fault)
  BY DEF Create, ConsoleInv
<1>2. faults' \in 0..MaxFaults /\ (faults' = 0 => faults = 0) /\ lost' = lost
  BY <1>1, Faulty
<1>3. \E a \in Answers : Answer(c, a) /\ vault' \in {vault, "sealed", "degraded"}
  <2>1. CASE Answer(c, "ok") /\ vault' = "sealed"
    BY <2>1, StepNames
  <2>2. CASE Answer(c, "error") /\ vault' \in {vault, "sealed", "degraded"}
    BY <2>2, StepNames
  <2> QED
    BY <2>1, <2>2 DEF Create
<1>4. Moved(c) /\ conn'[c].step = "answered"
  BY <1>1, <1>3, AnswerMoves
<1> QED
  BY <1>1, <1>2, <1>3, <1>4, StepNames DEF Kept, TypeOK

LEMMA DestroyKept == ASSUME ConsoleInv, NEW c \in Conns, Destroy(c) PROVE Kept(c)
<1>1. /\ c \in Open /\ conn[c].step = "destroy" /\ TypeOK
      /\ UNCHANGED <<container, links, astray>> /\ (NoFault \/ Fault)
  BY DEF Destroy, ConsoleInv
<1>2. faults' \in 0..MaxFaults /\ (faults' = 0 => faults = 0) /\ lost' = lost
  BY <1>1, Faulty
<1>3. conn[c].verb = "destroy"
  BY <1>1, OpenCall DEF Verbs
<1>4. CASE Answer(c, "ok") /\ vault' = "absent"
  <2>1. Moved(c) /\ conn'[c].step = "answered" /\ conn'[c].answer = "ok"
    BY <1>1, <1>4, AnswerMoves, StepNames
  <2>2. Forgets(c)'
    BY <1>3, <2>1 DEF Forgets, Moved
  <2> QED
    BY <1>1, <1>2, <1>4, <2>1, <2>2, StepNames DEF Kept, TypeOK
<1>5. CASE Answer(c, "error") /\ vault' = vault
  <2>1. Moved(c) /\ conn'[c].step = "answered"
    BY <1>1, <1>5, AnswerMoves, StepNames
  <2> QED
    BY <1>1, <1>2, <1>5, <2>1, StepNames DEF Kept, TypeOK
<1>6. CASE Answer(c, "error") /\ Fault /\ vault' \in {"sealed", "absent"}
  <2>1. Moved(c) /\ conn'[c].step = "answered"
    BY <1>1, <1>6, AnswerMoves, StepNames
  <2>2. faults' # 0
    BY <1>1, <1>6 DEF Fault, TypeOK
  <2> QED
    BY <1>1, <1>2, <1>6, <2>1, <2>2, StepNames DEF Kept, TypeOK
<1> QED
  BY <1>4, <1>5, <1>6 DEF Destroy

LEMMA ListKept == ASSUME ConsoleInv, NEW c \in Conns, List(c) PROVE Kept(c)
<1>1. /\ c \in Open /\ conn[c].step = "services" /\ TypeOK
      /\ UNCHANGED <<vault, container, links, astray>> /\ (NoFault \/ Fault)
  BY DEF List, ConsoleInv
<1>2. faults' \in 0..MaxFaults /\ (faults' = 0 => faults = 0) /\ lost' = lost
  BY <1>1, Faulty
<1>3. Moved(c) /\ conn'[c].step = "answered"
  <2>1. CASE Answer(c, "error")
    BY <1>1, <2>1, AnswerMoves, StepNames
  <2>2. CASE conn' = [conn EXCEPT ![c].step = "answered", ![c].answer = "ok",
                                  ![c].asked = @ \cap Known]
    <3>1. c \in Conns /\ conn[c] \in Requests
      BY <1>1, OpenCall
    <3> DEFINE q == [conn[c] EXCEPT !.step = "answered", !.answer = "ok",
                                    !.asked = conn[c].asked \cap Known]
    <3>2. conn' = [conn EXCEPT ![c] = q]
      BY <3>1, <2>2
    <3>3. /\ q \in Requests /\ q.step = "answered"
          /\ q.verb = conn[c].verb /\ q.alone = conn[c].alone /\ q.awaited = conn[c].awaited
      BY <3>1, StepNames DEF Requests
    <3> HIDE DEF q
    <3> QED
      BY <1>1, <3>2, <3>3, ChangeMoves
  <2> QED
    BY <2>1, <2>2 DEF List
<1> QED
  BY <1>1, <1>2, <1>3, StepNames DEF Kept, TypeOK

LEMMA WorkKept == ASSUME ConsoleInv, NEW c \in Conns, Work(c) PROVE c \in Open /\ Kept(c)
<1>1. c \in Open
  BY DEF Work, Exists, Stop, Unseal, Start, Seal, Create, Destroy, List
<1> QED
  BY <1>1, ExistsKept, StopKept, UnsealKept, StartKept, SealKept, CreateKept, DestroyKept,
     ListKept DEF Work

-----------------------------------------------------------------------------
(* A new call ends the solitude of those that are open *)
LEMMA CallKeepsInv ==
  ASSUME ConsoleInv, NEW c \in Conns, NEW verb \in Verbs, NEW asked \in SUBSET Services,
         Call(c, verb, asked)
  PROVE  ConsoleInv'
<1> USE DEF ConsoleInv
<1> DEFINE alone   == Open = {}
           request == [step |-> IF verb = "services" THEN "services" ELSE "exists",
                       verb |-> verb, asked |-> asked, awaited |-> TRUE,
                       alone |-> alone, stopErr |-> FALSE, answer |-> "none"]
<1>1. /\ conn[c] = Closed /\ UNCHANGED <<vault, container, links, astray, lost, faults>>
      /\ conn' = [d \in Conns |-> IF d = c THEN request
                                  ELSE IF d \in Open THEN [conn[d] EXCEPT !.alone = FALSE]
                                  ELSE Closed]
  BY DEF Call
<1>2. alone \in BOOLEAN /\ (alone => Open = {}) /\ c \notin Open
  BY <1>1 DEF Open
<1> HIDE DEF alone
<1>3. /\ request \in Requests /\ request.verb = verb /\ request.asked = asked
      /\ request.step \in {"services", "exists"} /\ request.awaited /\ request.alone = alone
      /\ request.step = "services" => verb = "services"
  BY <1>2, StepNames DEF Requests, Answers, Verbs
<1> HIDE DEF request
<1>4. conn'[c] = request
  BY <1>1
<1>5. \A d \in Open : conn'[d] = [conn[d] EXCEPT !.alone = FALSE]
  BY <1>1, <1>2 DEF Open
<1>6. \A d \in Conns \ (Open \cup {c}) : conn'[d] = Closed
  BY <1>1
<1>7. \A d \in Open : conn[d] \in Requests
  BY OpenShape DEF TypeOK, Open
<1>8. \A d \in Open :
        /\ conn'[d] \in Requests /\ conn'[d].alone = FALSE
        /\ conn'[d].step = conn[d].step /\ conn'[d].verb = conn[d].verb
        /\ conn'[d].asked = conn[d].asked /\ conn'[d].answer = conn[d].answer
        /\ conn'[d].awaited = conn[d].awaited
  BY <1>5, <1>7 DEF Requests
<1>9. conn' \in [Conns -> Requests \cup {Closed}]
  <2>1. \A d \in Conns : conn'[d] \in Requests \cup {Closed}
    BY <1>3, <1>4, <1>6, <1>8 DEF Open
  <2>2. conn' = [d \in Conns |-> conn'[d]]
    BY <1>1
  <2> QED
    BY <2>1, <2>2
<1>10. Open' = Open \cup {c}
  <2>1. \A d \in Conns : d \in Open' <=> d \in Open \cup {c}
    BY <1>3, <1>4, <1>6, <1>8, <1>9, OpenShapeNext, RequestShape
  <2> QED
    BY <2>1 DEF Open
<1>11. TypeOK'
  <2>1. \A d \in Conns : conn'[d].step \in {"stop", "start"} => conn'[d].asked # {}
    <3>1. conn'[c].step \notin {"stop", "start"}
      BY <1>3, <1>4
    <3>2. \A d \in Open : conn'[d].step \in {"stop", "start"} => conn'[d].asked # {}
      BY <1>8 DEF TypeOK, Open
    <3>3. Closed.step = "closed"
      BY DEF Closed
    <3> QED
      BY <1>6, <3>1, <3>2, <3>3
  <2> QED
    BY <1>1, <1>9, <2>1 DEF TypeOK
<1>12. StepInv'
  BY <1>3, <1>4, <1>8, <1>10, StepNames DEF StepInv
<1>13. AloneInv'
  <2> SUFFICES ASSUME NEW d \in Open \cup {c}, NEW e \in Open \cup {c}, conn'[d].alone
               PROVE  e = d
    BY <1>10 DEF AloneInv
  <2>1. d = c
    BY <1>8
  <2>2. Open = {}
    BY <1>2, <1>3, <1>4, <2>1
  <2> QED
    BY <2>1, <2>2
<1>14. ServeInv'
  BY <1>3, <1>4, <1>8, <1>10 DEF ServeInv
<1>15. LinkInv'
  <2> SUFFICES ASSUME lost = 0
               PROVE  /\ \A d \in Open' : conn'[d].awaited
                      /\ vault = "absent" /\ links # {} /\ ~astray /\ faults = 0 =>
                           \E d \in Open' : Forgets(d)'
    BY <1>1 DEF LinkInv
  <2>1. \A d \in Open' : conn'[d].awaited
    BY <1>3, <1>4, <1>8, <1>10 DEF LinkInv
  <2>2. ASSUME NEW d \in Open, Forgets(d) PROVE Forgets(d)'
    BY <1>8, <2>2 DEF Forgets
  <2> QED
    BY <1>10, <2>1, <2>2 DEF LinkInv
<1> QED
  BY <1>11, <1>12, <1>13, <1>14, <1>15

LEMMA SubmitKeepsInv == ASSUME ConsoleInv, NEW c \in Conns, Submit(c) PROVE ConsoleInv'
<1>1. links \in SUBSET Services
  BY DEF ConsoleInv, TypeOK
<1>2. {"create", "unseal", "seal", "services", "destroy"} \subseteq Verbs /\ {} \in SUBSET Services
  BY DEF Verbs
<1> QED
  BY <1>1, <1>2, CallKeepsInv
  DEF Submit, SubmitCreate, SubmitUnseal, SubmitSeal, SubmitSettings, SubmitDestroy

(* An answer closes its call *)
LEMMA ReceiveKeepsInv == ASSUME ConsoleInv, NEW c \in Conns, Receive(c) PROVE ConsoleInv'
<1> USE DEF ConsoleInv
<1>1. /\ c \in Open /\ conn[c].step = "answered" /\ conn' = [conn EXCEPT ![c] = Closed]
      /\ UNCHANGED <<vault, container, lost, faults>>
      /\ links' = IF conn[c].awaited /\ conn[c].answer = "ok" THEN Saved(c) ELSE links
      /\ astray' = (astray \/ (conn[c].verb = "services" /\ vault = "absent"))
  BY DEF Receive
<1>2. conn[c] \in Requests /\ conn[c].verb \in Verbs /\ conn[c].asked \subseteq Services
  BY <1>1, OpenCall
<1>3. /\ conn' \in [Conns -> Requests \cup {Closed}] /\ conn'[c] = Closed
      /\ \A d \in Conns \ {c} : conn'[d] = conn[d]
  BY <1>1 DEF TypeOK
<1>4. Open' = Open \ {c}
  BY <1>3 DEF Open
<1>5. TypeOK'
  <2>1. links' \subseteq Services
    BY <1>1, <1>2 DEF Saved, TypeOK
  <2>2. astray' \in BOOLEAN
    BY <1>1 DEF TypeOK
  <2>3. \A d \in Conns : conn'[d].step \in {"stop", "start"} => conn'[d].asked # {}
    <3>1. Closed.step = "closed"
      BY DEF Closed
    <3> QED
      BY <1>3, <3>1 DEF TypeOK
  <2> QED
    BY <1>1, <1>3, <2>1, <2>2, <2>3 DEF TypeOK
<1>6. \A d \in Open' : d \in Open /\ conn'[d] = conn[d]
  BY <1>3, <1>4 DEF Open
<1>7. StepInv' /\ AloneInv' /\ ServeInv'
  BY <1>1, <1>6 DEF StepInv, AloneInv, ServeInv
<1>8. LinkInv'
  <2> SUFFICES ASSUME lost = 0
               PROVE  /\ \A d \in Open' : conn'[d].awaited
                      /\ vault = "absent" /\ links' # {} /\ ~astray' /\ faults = 0 =>
                           \E d \in Open' : Forgets(d)'
    BY <1>1 DEF LinkInv
  <2>1. \A d \in Open' : conn'[d].awaited
    BY <1>6 DEF LinkInv
  <2>2. ASSUME vault = "absent", links' # {}, ~astray', faults = 0
        PROVE  \E d \in Open' : Forgets(d)'
    <3>1. conn[c].awaited
      BY <1>1 DEF LinkInv
    <3>2. ~astray /\ conn[c].verb # "services"
      BY <1>1, <2>2
    <3>3. ~Forgets(c) /\ links' = links
      BY <1>1, <2>2, <3>1, <3>2 DEF Forgets, Saved
    <3>4. PICK d \in Open : Forgets(d)
      BY <2>2, <3>2, <3>3 DEF LinkInv
    <3>5. d \in Open' /\ Forgets(d)'
      BY <1>4, <1>6, <3>3, <3>4 DEF Forgets
    <3> QED
      BY <3>5
  <2> QED
    BY <2>1, <2>2
<1> QED
  BY <1>5, <1>7, <1>8

(* A handler that has given up, or a new UI, changes who waits, no more *)
LEMMA LoseKeepsInv == ASSUME ConsoleInv, LoseAnswers PROVE ConsoleInv'
<1> USE DEF ConsoleInv
<1>1. /\ lost < MaxLost /\ lost' = lost + 1 /\ (UiRestart \/ \E c \in Conns : GiveUp(c))
      /\ UNCHANGED <<vault, container, links, astray, faults>>
  BY DEF LoseAnswers
<1>2. \A d \in Conns : conn'[d] \in {conn[d], [conn[d] EXCEPT !.awaited = FALSE]}
                       /\ (d \notin Open => conn'[d] = conn[d])
  <2>1. CASE UiRestart
    BY <2>1 DEF UiRestart, Waiting
  <2>2. ASSUME NEW c \in Conns, GiveUp(c)
        PROVE  \A d \in Conns : conn'[d] \in {conn[d], [conn[d] EXCEPT !.awaited = FALSE]}
                                /\ (d \notin Open => conn'[d] = conn[d])
    BY <2>2 DEF GiveUp, Waiting, TypeOK
  <2> QED
    BY <1>1, <2>1, <2>2
<1>3. conn' = [d \in Conns |-> conn'[d]]
  <2>1. CASE UiRestart
    BY <2>1 DEF UiRestart
  <2>2. ASSUME NEW c \in Conns, GiveUp(c) PROVE conn' = [d \in Conns |-> conn'[d]]
    BY <2>2 DEF GiveUp, TypeOK
  <2> QED
    BY <1>1, <2>1, <2>2
<1>4. \A d \in Open :
        /\ conn'[d] \in Requests
        /\ conn'[d].step = conn[d].step /\ conn'[d].verb = conn[d].verb
        /\ conn'[d].asked = conn[d].asked /\ conn'[d].alone = conn[d].alone
        /\ conn'[d].stopErr = conn[d].stopErr
  <2> SUFFICES ASSUME NEW d \in Open
               PROVE  /\ conn'[d] \in Requests
                      /\ conn'[d].step = conn[d].step /\ conn'[d].verb = conn[d].verb
                      /\ conn'[d].asked = conn[d].asked /\ conn'[d].alone = conn[d].alone
                      /\ conn'[d].stopErr = conn[d].stopErr
    OBVIOUS
  <2>1. d \in Conns /\ conn[d] \in Requests
    BY OpenShape DEF TypeOK, Open
  <2>2. conn'[d] = conn[d] \/ conn'[d] = [conn[d] EXCEPT !.awaited = FALSE]
    BY <1>2, <2>1
  <2> QED
    BY <2>1, <2>2 DEF Requests
<1>5. \A d \in Conns \ Open : conn'[d] = Closed
  BY <1>2 DEF Open
<1>6. conn' \in [Conns -> Requests \cup {Closed}]
  <2>1. \A d \in Conns : conn'[d] \in Requests \cup {Closed}
    BY <1>4, <1>5
  <2> QED
    BY <1>3, <2>1
<1>7. Open' = Open
  <2>1. \A d \in Conns : d \in Open' <=> d \in Open
    BY <1>4, <1>5, <1>6, OpenShapeNext, RequestShape
  <2> QED
    BY <2>1 DEF Open
<1>8. lost' \in 0..MaxLost /\ lost' # 0
  BY <1>1, ConsoleAssumption DEF TypeOK
<1>9. TypeOK'
  <2>1. \A d \in Conns : conn'[d].step \in {"stop", "start"} => conn'[d].asked # {}
    <3>1. Closed.step = "closed"
      BY DEF Closed
    <3> QED
      BY <1>4, <1>5, <3>1 DEF TypeOK
  <2> QED
    BY <1>1, <1>6, <1>8, <2>1 DEF TypeOK
<1>10. StepInv'
  BY <1>4, <1>7 DEF StepInv
<1>11. AloneInv'
  BY <1>4, <1>7 DEF AloneInv
<1>12. ServeInv'
  BY <1>1, <1>4, <1>7 DEF ServeInv
<1>13. LinkInv'
  BY <1>8 DEF LinkInv
<1> QED
  BY <1>9, <1>10, <1>11, <1>12, <1>13

(* With no call open the invariant speaks of the links alone *)
LEMMA NoneOpen ==
  ASSUME TypeOK', Open' = {},
         lost' = 0 /\ vault' = "absent" /\ ~astray' /\ faults' = 0 => links' = {}
  PROVE  ConsoleInv'
BY DEF ConsoleInv, StepInv, AloneInv, ServeInv, LinkInv

LEMMA RestartKeepsInv == ASSUME ConsoleInv, AgentRestart PROVE ConsoleInv'
<1>1. /\ faults < MaxFaults /\ faults' = faults + 1 /\ lost' = lost
      /\ conn' = [c \in Conns |-> Closed] /\ UNCHANGED <<container, links, astray>>
      /\ vault' \in {vault, "degraded", "sealed"}
  BY DEF AgentRestart, Fault
<1>2. Open' = {}
  BY <1>1 DEF Open
<1>3. faults' \in 0..MaxFaults /\ faults' # 0
  BY <1>1, ConsoleAssumption DEF ConsoleInv, TypeOK
<1>4. TypeOK'
  <2>1. Closed.step = "closed"
    BY DEF Closed
  <2> QED
    BY <1>1, <1>3, <2>1 DEF ConsoleInv, TypeOK
<1> QED
  BY <1>2, <1>3, <1>4, NoneOpen

LEMMA ByHandKeepsInv == ASSUME ConsoleInv, ByHand PROVE ConsoleInv'
<1>1. Open = {} /\ UNCHANGED <<links, conn, astray, lost, faults>> /\ TypeOK
  BY DEF ByHand, ConsoleInv
<1>2. Open' = {}
  BY <1>1 DEF Open
<1>3. vault' \in {"absent", "sealed", "unsealed", "degraded"} /\ (vault' = "absent" => vault = "absent")
  BY <1>1 DEF ByHand, TypeOK
<1>4. container' \in [Services -> {"removed", "stopped", "stub", "vault"}]
  <2>1. \A s \in Services : {s} \in SUBSET Services
    OBVIOUS
  <2>2. \A s \in Services : /\ Stopped({s}) \in [Services -> {"removed", "stopped", "stub", "vault"}]
                            /\ Started({s}) \in [Services -> {"removed", "stopped", "stub", "vault"}]
    BY <1>1, <2>1, StoppedShape, StartedShape
  <2> QED
    BY <1>1, <2>2 DEF ByHand, Known, TypeOK
<1>5. TypeOK'
  BY <1>1, <1>3, <1>4 DEF TypeOK
<1>6. lost = 0 /\ vault = "absent" /\ ~astray /\ faults = 0 => links = {}
  BY <1>1 DEF ConsoleInv, LinkInv
<1> QED
  BY <1>1, <1>2, <1>3, <1>5, <1>6, NoneOpen

-----------------------------------------------------------------------------
LEMMA InitInv == Init => ConsoleInv
<1> SUFFICES ASSUME Init PROVE ConsoleInv
  OBVIOUS
<1>1. Closed.step = "closed"
  BY DEF Closed
<1>2. TypeOK
  <2>1. lost \in 0..MaxLost /\ faults \in 0..MaxFaults
    BY ConsoleAssumption DEF Init
  <2>2. container \in [Services -> {"removed", "stopped", "stub", "vault"}]
    BY DEF Init
  <2>3. conn \in [Conns -> Requests \cup {Closed}] /\ \A c \in Conns : conn[c] = Closed
    BY DEF Init
  <2> QED
    BY <1>1, <2>1, <2>2, <2>3 DEF Init, TypeOK
<1>3. Open = {}
  BY DEF Init, Open
<1> QED
  BY <1>2, <1>3 DEF Init, ConsoleInv, StepInv, AloneInv, ServeInv, LinkInv

LEMMA NextKeepsInv == ConsoleInv /\ [Next]_vars => ConsoleInv'
<1> SUFFICES ASSUME ConsoleInv, [Next]_vars PROVE ConsoleInv'
  OBVIOUS
<1>1. ASSUME NEW c \in Conns, Submit(c) PROVE ConsoleInv'
  BY <1>1, SubmitKeepsInv
<1>2. ASSUME NEW c \in Conns, Work(c) PROVE ConsoleInv'
  BY <1>2, WorkKept, KeptKeepsInv
<1>3. ASSUME NEW c \in Conns, Receive(c) PROVE ConsoleInv'
  BY <1>3, ReceiveKeepsInv
<1>4. CASE UNCHANGED vars
  BY <1>4 DEF vars, ConsoleInv, TypeOK, StepInv, AloneInv, ServeInv, LinkInv, Open, Forgets
<1> QED
  BY <1>1, <1>2, <1>3, <1>4, LoseKeepsInv, RestartKeepsInv, ByHandKeepsInv DEF Next

LEMMA Invariance == Spec => []ConsoleInv
BY InitInv, NextKeepsInv, PTL DEF Spec

(* Every reachable state is well typed *)
THEOREM ConsoleTypeCorrect == Spec => []TypeOK
<1>1. ConsoleInv => TypeOK
  BY DEF ConsoleInv
<1> QED
  BY <1>1, Invariance, PTL

(* A vault that is gone leaves no links behind, but for lost answers,       *)
(* failures and settings saved when it was gone (index.js 471)              *)
THEOREM LinksAlwaysGo == Spec => []LinksGo
<1>1. ConsoleInv => LinksGo
  BY DEF ConsoleInv, LinkInv, LinksGo
<1> QED
  BY <1>1, Invariance, PTL

-----------------------------------------------------------------------------
(* Only the agent's own step answers a call *)
LEMMA OnlyWorkReplies ==
  ASSUME ConsoleInv, [Next]_vars, NEW c \in Conns, Replies(c)
  PROVE  Work(c)
<1>1. c \in Open /\ conn[c].step # "answered" /\ conn'[c].step = "answered" /\ conn[c] \in Requests
  BY OpenCall DEF Replies
<1>2. Closed.step # "answered"
  BY DEF Closed
<1>3. ASSUME NEW d \in Conns, NEW verb, NEW asked, Call(d, verb, asked) PROVE FALSE
  <2>1. d # c
    BY <1>1, <1>3 DEF Call, Open
  <2>2. conn'[c] = [conn[c] EXCEPT !.alone = FALSE]
    BY <1>1, <1>3, <2>1 DEF Call
  <2> QED
    BY <1>1, <2>2 DEF Requests
<1>4. ASSUME NEW d \in Conns, Submit(d) PROVE FALSE
  BY <1>3, <1>4 DEF Submit, SubmitCreate, SubmitUnseal, SubmitSeal, SubmitSettings, SubmitDestroy
<1>5. ASSUME NEW d \in Conns, Receive(d) PROVE FALSE
  BY <1>1, <1>2, <1>5 DEF Receive, ConsoleInv, TypeOK
<1>6. ASSUME LoseAnswers PROVE FALSE
  <2>1. conn'[c] = conn[c] \/ conn'[c] = [conn[c] EXCEPT !.awaited = FALSE]
    BY <1>6 DEF LoseAnswers, UiRestart, GiveUp, Waiting, ConsoleInv, TypeOK
  <2> QED
    BY <1>1, <2>1 DEF Requests
<1>7. ASSUME AgentRestart PROVE FALSE
  BY <1>1, <1>2, <1>7 DEF AgentRestart
<1>8. ASSUME ByHand \/ UNCHANGED vars PROVE FALSE
  BY <1>1, <1>8 DEF ByHand, vars
<1>9. ASSUME NEW d \in Conns, Work(d) PROVE d = c
  BY <1>1, <1>9, WorkKept DEF Kept, Moved
<1> QED
  BY <1>4, <1>5, <1>6, <1>7, <1>8, <1>9 DEF Next

(* The three steps after which a call may be answered without an error *)
LEMMA RepliesWell ==
  ASSUME ConsoleInv, NEW c \in Conns, Work(c), Replies(c), conn'[c].answer # "error",
         conn[c].verb \in {"unseal", "seal"}
  PROVE  \/ /\ conn[c].step = "start" /\ conn[c].verb = "unseal"
            /\ container' = Started(conn[c].asked) /\ vault' = vault
            /\ conn'[c].answer = Done(c)
         \/ /\ conn[c].step = "unseal" /\ conn[c].verb = "unseal"
            /\ vault' = "unsealed" /\ conn[c].asked = {}
         \/ /\ conn[c].step = "seal" /\ conn[c].verb = "seal"
            /\ vault' = "sealed" /\ ~Busy /\ container' = container
            /\ conn'[c].answer = Done(c)
<1>1. c \in Open /\ conn'[c].step = "answered" /\ TypeOK
  BY DEF Replies, ConsoleInv
<1>2. /\ conn[c].verb \in Steps \ {"answered"} /\ Done(c) \in Answers
      /\ conn[c].step \in Verbs => conn[c].step = conn[c].verb
      /\ conn[c].step = "start" => conn[c].verb = "unseal"
  BY <1>1, OpenCall, StepNames DEF Done, ConsoleInv, StepInv
<1>3. ASSUME NEW st \in Steps \ {"answered"}, Goto(c, st) PROVE FALSE
  BY <1>1, <1>3, GotoMoves
<1>4. ASSUME NEW a \in Answers, Answer(c, a) PROVE conn'[c].answer = a
  BY <1>1, <1>4, AnswerMoves
<1>5. ~Exists(c)
  <2>1. FirstStep(c) \in Steps \ {"answered"}
    BY <1>2, StepNames DEF FirstStep
  <2> QED
    BY <1>3, <1>4, <2>1, StepNames DEF Exists
<1>6. ~Stop(c)
  <2> SUFFICES ASSUME Stop(c) PROVE FALSE
    OBVIOUS
  <2>1. conn' = [conn EXCEPT ![c].step = conn[c].verb, ![c].stopErr = TRUE]
    BY <1>2, <1>3 DEF Stop
  <2>2. conn'[c] = [conn[c] EXCEPT !.step = conn[c].verb, !.stopErr = TRUE]
    BY <2>1 DEF TypeOK, ConsoleInv
  <2>3. conn[c] \in Requests
    BY <1>1, OpenCall
  <2>4. conn'[c].step = conn[c].verb
    BY <2>2, <2>3 DEF Requests
  <2> QED
    BY <1>1, <1>2, <2>4
<1>7. ~Create(c) /\ ~Destroy(c) /\ ~List(c)
  BY <1>2 DEF Create, Destroy, List, Verbs
<1>8. CASE Start(c)
  BY <1>2, <1>4, <1>8, StepNames DEF Start
<1>9. CASE Unseal(c)
  <2>1. conn[c].step = "unseal" /\ conn[c].verb = "unseal"
    BY <1>2, <1>9 DEF Unseal, Verbs
  <2> QED
    BY <1>3, <1>4, <1>9, <2>1, StepNames DEF Unseal
<1>10. CASE Seal(c)
  <2>1. conn[c].step = "seal" /\ conn[c].verb = "seal"
    BY <1>2, <1>10 DEF Seal, Verbs
  <2> QED
    BY <1>2, <1>4, <1>10, <2>1, StepNames DEF Seal
<1> QED
  BY <1>5, <1>6, <1>7, <1>8, <1>9, <1>10 DEF Work

LEMMA UnsealStepServes ==
  ASSUME ConsoleInv, [Next]_vars, NEW c \in Conns,
         Replies(c), conn[c].verb = "unseal", Clean(c)
  PROVE  vault' = "unsealed" /\ \A s \in conn[c].asked : container'[s] = "vault"
<1>1. conn'[c].answer = "ok" /\ conn[c].alone /\ c \in Open
  BY DEF Clean, Replies
<1>2. CASE /\ conn[c].step = "start" /\ container' = Started(conn[c].asked)
           /\ vault' = vault /\ conn'[c].answer = Done(c)
  <2>1. ~conn[c].stopErr
    BY <1>1, <1>2 DEF Done
  <2>2. vault = "unsealed" /\ \A s \in conn[c].asked : container[s] = "stopped"
    BY <1>1, <1>2, <2>1 DEF ConsoleInv, ServeInv
  <2>3. conn[c].asked \subseteq Services
    BY <1>1, OpenCall
  <2> QED
    BY <1>2, <2>2, <2>3 DEF Started
<1>3. CASE vault' = "unsealed" /\ conn[c].asked = {}
  BY <1>3
<1> QED
  BY <1>1, <1>2, <1>3, OnlyWorkReplies, RepliesWell

LEMMA SealStepStops ==
  ASSUME ConsoleInv, [Next]_vars, NEW c \in Conns, Replies(c), conn[c].verb = "seal"
  PROVE  /\ conn'[c].answer # "error" => ~Busy'
         /\ Clean(c) => vault' = "sealed" /\ \A s \in conn[c].asked : container'[s] = "stopped"
<1> SUFFICES ASSUME conn'[c].answer # "error"
             PROVE  ~Busy' /\ (Clean(c) => /\ vault' = "sealed"
                                           /\ \A s \in conn[c].asked : container'[s] = "stopped")
  BY DEF Clean
<1>1. /\ conn[c].step = "seal" /\ vault' = "sealed" /\ ~Busy /\ container' = container
      /\ conn'[c].answer = Done(c)
  BY OnlyWorkReplies, RepliesWell
<1>2. ~Busy'
  BY <1>1 DEF Busy
<1>3. ASSUME Clean(c) PROVE \A s \in conn[c].asked : container[s] = "stopped"
  <2>1. conn[c].alone /\ ~conn[c].stopErr /\ c \in Open
    BY <1>1, <1>3 DEF Clean, Done, Replies
  <2> QED
    BY <1>1, <2>1 DEF ConsoleInv, ServeInv
<1> QED
  BY <1>1, <1>2, <1>3

(* An unseal that answers ok, says no more and was overlapped by no other   *)
(* call has every service it was sent running on the vault (agent_handler.go *)
(* 257)                                                                     *)
THEOREM UnsealAlwaysServes == Spec => UnsealServes
<1>1. ConsoleInv /\ [Next]_vars =>
        [\A c \in Conns : Replies(c) /\ conn[c].verb = "unseal" /\ Clean(c) =>
           /\ vault' = "unsealed"
           /\ \A s \in conn[c].asked : container'[s] = "vault"]_vars
  BY UnsealStepServes
<1> QED
  BY <1>1, Invariance, PTL DEF Spec, UnsealServes

(* A seal that answers ok leaves no container on the vault, and in the same *)
(* case every service it was sent is stopped (agent_handler.go 302)         *)
THEOREM SealAlwaysStops == Spec => SealStops
<1>1. ConsoleInv /\ [Next]_vars =>
        [\A c \in Conns : Replies(c) /\ conn[c].verb = "seal" =>
           /\ conn'[c].answer # "error" => ~Busy'
           /\ Clean(c) => vault' = "sealed" /\ \A s \in conn[c].asked : container'[s] = "stopped"]_vars
  BY SealStepStops
<1> QED
  BY <1>1, Invariance, PTL DEF Spec, SealStops
=============================================================================

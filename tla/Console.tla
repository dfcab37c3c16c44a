------------------------------ MODULE Console -------------------------------
(***************************************************************************)
(* A vault as the admin works it from the web UI: the form handlers of      *)
(* index.js, the call to the agent with its timeout (agentClient.js), the   *)
(* agent's handlers (agent_handler.go) and the containers linked to the     *)
(* vault (dockerctl.go, state.js).                                          *)
(*                                                                         *)
(* One call is one connection, served by a goroutine of the agent; the      *)
(* handler in the UI waits for it, or has given up.  Unseal, Seal, create   *)
(* and destroy of the vault are one step each here: modules Vault and       *)
(* Lifecycle are about the inside of those steps.  One fault of such a step *)
(* stands for any number of its commands that fail, and a kill of the agent *)
(* inside it for a fault and a restart.                                     *)
(*                                                                         *)
(* A definition named ...Mutant is the one below it with a plausible        *)
(* mistake; nothing uses it but the checks that the properties notice it.   *)
(***************************************************************************)
EXTENDS Naturals, FiniteSets

CONSTANTS
  Conns,       \* connections that may be open at a time
  Services,    \* containers on the host
  MaxTabs,     \* bound on handlers waiting in the UI
  MaxLost,     \* bound on timeouts and restarts of the UI
  MaxFaults    \* bound on failing commands and crashes of the agent

ASSUME ConsoleAssumption ==
  /\ IsFiniteSet(Conns) /\ IsFiniteSet(Services)
  /\ MaxTabs \in Nat /\ MaxLost \in Nat /\ MaxFaults \in Nat

VARIABLES
  vault,       \* absent, or what Status would say of it
  container,   \* what each service runs on: the vault, its stub, or not at all
  links,       \* the services linked to the vault, in state.json
  conn,        \* each connection, from the click to the page that follows
  astray,      \* history: links were saved when there was no vault
  lost, faults

vars == <<vault, container, links, conn, astray, lost, faults>>

Verbs   == {"create", "destroy", "unseal", "seal", "services"}
Steps   == {"exists", "stop", "start", "answered"} \cup Verbs
Answers == {"none", "ok", "warning", "error"}

(* asked: the services sent along, or for "services" the ones to be linked *)
Requests == [step : Steps, verb : Verbs, asked : SUBSET Services, awaited : BOOLEAN,
             alone : BOOLEAN, stopErr : BOOLEAN, answer : Answers]
Closed == [step |-> "closed"]

TypeOK ==
  /\ vault \in {"absent", "sealed", "unsealed", "degraded"}
  /\ container \in [Services -> {"removed", "stopped", "stub", "vault"}]
  /\ links \subseteq Services
  /\ conn \in [Conns -> Requests \cup {Closed}]
  /\ \A c \in Conns : conn[c].step \in {"stop", "start"} => conn[c].asked # {}
  /\ astray \in BOOLEAN /\ lost \in 0..MaxLost /\ faults \in 0..MaxFaults

(* After a boot of the host Docker may have started any of the services *)
Init ==
  /\ vault \in {"absent", "sealed"}
  /\ container \in [Services -> {"stopped", "stub"}]
  /\ links = {} /\ conn = [c \in Conns |-> Closed]
  /\ astray = FALSE /\ lost = 0 /\ faults = 0

Open    == {c \in Conns : conn[c] # Closed}
Waiting == {c \in Open : conn[c].awaited}

-----------------------------------------------------------------------------
Goto(c, step) == conn' = [conn EXCEPT ![c].step = step]

Answer(c, answer) ==
  conn' = [conn EXCEPT ![c].step = "answered", ![c].answer = answer]

NoFault == UNCHANGED <<lost, faults>>
Fault   == faults < MaxFaults /\ faults' = faults + 1 /\ UNCHANGED lost

(* One call of the agent *)
Call(c, verb, asked) ==
  /\ conn[c] = Closed /\ Cardinality(Waiting) < MaxTabs
  /\ LET request == [step |-> IF verb = "services" THEN "services" ELSE "exists",
                     verb |-> verb, asked |-> asked, awaited |-> TRUE,
                     alone |-> Open = {}, stopErr |-> FALSE, answer |-> "none"]
     IN conn' = [d \in Conns |-> IF d = c THEN request
                                 ELSE IF d \in Open THEN [conn[d] EXCEPT !.alone = FALSE]
                                 ELSE Closed]
  /\ UNCHANGED <<vault, container, links, astray, lost, faults>>

(* The handlers of the forms, once the form has passed their checks.  A     *)
(* page shown earlier may offer any of them.  The settings list the         *)
(* containers before a choice of them is saved.                             *)
SubmitCreate(c)   == Call(c, "create", {})
SubmitUnseal(c)   == Call(c, "unseal", links)
SubmitSeal(c)     == Call(c, "seal", links)
SubmitSettings(c) == \E asked \in SUBSET Services : Call(c, "services", asked)
SubmitDestroy(c)  == Call(c, "destroy", {})

Submit(c) ==
  \/ SubmitCreate(c) \/ SubmitUnseal(c) \/ SubmitSeal(c)
  \/ SubmitSettings(c) \/ SubmitDestroy(c)

(* The page that follows: destroy forgets the links, settings saves those   *)
(* of the containers that are there.                                        *)
SavedMutant(c) == IF conn[c].verb = "services" THEN conn[c].asked ELSE links
Saved(c) ==
  CASE conn[c].verb = "destroy"  -> {}
    [] conn[c].verb = "services" -> conn[c].asked
    [] OTHER                     -> links

Receive(c) ==
  /\ c \in Open /\ conn[c].step = "answered"
  /\ conn' = [conn EXCEPT ![c] = Closed]
  /\ links' = IF conn[c].awaited /\ conn[c].answer = "ok" THEN Saved(c) ELSE links
  /\ astray' = (astray \/ (conn[c].verb = "services" /\ vault = "absent"))
  /\ UNCHANGED <<vault, container, lost, faults>>

(* 30 seconds have passed, while the agent goes on; or the UI starts anew *)
GiveUp(c) == c \in Waiting /\ conn' = [conn EXCEPT ![c].awaited = FALSE]

UiRestart ==
  /\ Waiting # {}
  /\ conn' = [c \in Conns |-> IF c \in Waiting THEN [conn[c] EXCEPT !.awaited = FALSE]
                                               ELSE conn[c]]

LoseAnswers ==
  /\ lost < MaxLost /\ lost' = lost + 1
  /\ UiRestart \/ \E c \in Conns : GiveUp(c)
  /\ UNCHANGED <<vault, container, links, astray, faults>>

-----------------------------------------------------------------------------
(* The services come first, if there are any *)
FirstStepMutant(c) == conn[c].verb
AlwaysStopMutant(c) == "stop"
FirstStep(c) == IF conn[c].asked # {} THEN "stop" ELSE conn[c].verb

(* vaultExists, at the head of the agent's handlers, and getOrCreateVault   *)
(* in those of unseal and seal                                              *)
Exists(c) ==
  /\ c \in Open /\ conn[c].step = "exists"
  /\ \/ /\ NoFault
        /\ IF (conn[c].verb = "create") = (vault # "absent") THEN Answer(c, "error")
           ELSE Goto(c, FirstStep(c))
     \/ Fault /\ Answer(c, "error")
  /\ UNCHANGED <<vault, container, links, astray>>

Known == {s \in Services : container[s] # "removed"}

(* dockerctl.Stop refuses all when one is unknown; a failure stops some *)
Stopped(S) == [s \in Services |-> IF s \in S THEN "stopped" ELSE container[s]]

Stop(c) ==
  /\ c \in Open /\ conn[c].step = "stop"
  /\ \/ /\ conn[c].asked \subseteq Known /\ NoFault
        /\ container' = Stopped(conn[c].asked) /\ Goto(c, conn[c].verb)
     \/ /\ \/ ~(conn[c].asked \subseteq Known) /\ NoFault /\ UNCHANGED container
           \/ Fault /\ \E S \in SUBSET (conn[c].asked \cap Known) : container' = Stopped(S)
        /\ conn' = [conn EXCEPT ![c].step = conn[c].verb, ![c].stopErr = TRUE]
  /\ UNCHANGED <<vault, links, astray>>

(* A container that runs already stays as it is *)
Started(S) ==
  [s \in Services |-> IF s \in S /\ container[s] = "stopped"
                      THEN IF vault = "unsealed" THEN "vault" ELSE "stub"
                      ELSE container[s]]

Done(c) == IF conn[c].stopErr THEN "warning" ELSE "ok"

Start(c) ==
  /\ c \in Open /\ conn[c].step = "start"
  /\ \/ /\ conn[c].asked \subseteq Known /\ NoFault
        /\ container' = Started(conn[c].asked) /\ Answer(c, Done(c))
     \/ /\ \/ ~(conn[c].asked \subseteq Known) /\ NoFault /\ UNCHANGED container
           \/ Fault /\ \E S \in SUBSET (conn[c].asked \cap Known) : container' = Started(S)
        /\ Answer(c, "error")
  /\ UNCHANGED <<vault, links, astray>>

(* Open files, those of any container on the vault, keep it mounted *)
Busy == \E s \in Services : container[s] = "vault"

(* What an Unseal with failing commands leaves: its rollback is complete or *)
(* not, also where it began on an open vault.                               *)
UnsealLeaves ==
  IF vault = "absent" \/ Busy THEN {vault} ELSE {"sealed", "degraded", "unsealed"}

(* A wrong passphrase fails like a fault, and is none; it does not matter   *)
(* when the vault is open already.  An open mapper whose image has no file  *)
(* system is closed again.                                                  *)
Unseal(c) ==
  /\ c \in Open /\ conn[c].step = "unseal"
  /\ \/ /\ vault # "absent" /\ NoFault /\ vault' = "unsealed"
        /\ IF conn[c].asked # {} THEN Goto(c, "start") ELSE Answer(c, Done(c))
     \/ /\ vault # "unsealed" /\ NoFault /\ Answer(c, "error")
        /\ vault' = IF vault = "degraded" THEN "sealed" ELSE vault
     \/ Fault /\ vault' \in UnsealLeaves /\ Answer(c, "error")
  /\ UNCHANGED <<container, links, astray>>

(* What a Seal leaves that ends with its first failing command *)
SealLeaves ==
  CASE vault = "unsealed" /\ ~Busy -> {"unsealed", "degraded", "sealed"}
    [] vault = "degraded"          -> {"degraded", "sealed"}
    [] OTHER                       -> {vault}

Seal(c) ==
  /\ c \in Open /\ conn[c].step = "seal"
  /\ \/ vault # "absent" /\ ~Busy /\ NoFault /\ vault' = "sealed" /\ Answer(c, Done(c))
     \/ (vault = "absent" \/ Busy) /\ NoFault /\ UNCHANGED vault /\ Answer(c, "error")
     \/ Fault /\ vault' \in SealLeaves /\ Answer(c, "error")
  /\ UNCHANGED <<container, links, astray>>

(* CreateVault refuses sizes and passphrases; a create that fails later may *)
(* leave its image, by a failed Truncate or removal, or because the vault   *)
(* was made and only getOrCreateVault failed.                               *)
Create(c) ==
  /\ c \in Open /\ conn[c].step = "create"
  /\ \/ vault = "absent" /\ NoFault /\ vault' = "sealed" /\ Answer(c, "ok")
     \/ NoFault /\ UNCHANGED vault /\ Answer(c, "error")
     \/ /\ Fault /\ Answer(c, "error")
        /\ vault' \in IF vault = "absent" THEN {"absent", "sealed", "degraded"} ELSE {vault}
  /\ UNCHANGED <<container, links, astray>>

(* A failure comes before the image has been removed, or after *)
Destroy(c) ==
  /\ c \in Open /\ conn[c].step = "destroy"
  /\ \/ vault = "sealed" /\ NoFault /\ vault' = "absent" /\ Answer(c, "ok")
     \/ vault # "sealed" /\ NoFault /\ UNCHANGED vault /\ Answer(c, "error")
     \/ /\ Fault /\ Answer(c, "error")
        /\ vault' \in IF vault = "sealed" THEN {"sealed", "absent"} ELSE {vault}
  /\ UNCHANGED <<container, links, astray>>

(* handleServices, and the choice among what it lists *)
List(c) ==
  /\ c \in Open /\ conn[c].step = "services"
  /\ \/ /\ NoFault
        /\ conn' = [conn EXCEPT ![c].step = "answered", ![c].answer = "ok",
                                ![c].asked = @ \cap Known]
     \/ Fault /\ Answer(c, "error")
  /\ UNCHANGED <<vault, container, links, astray>>

Work(c) ==
  \/ Exists(c) \/ Stop(c) \/ Unseal(c) \/ Start(c)
  \/ Seal(c) \/ Create(c) \/ Destroy(c) \/ List(c)

(* The agent ends between two steps, and every call with it; the startup    *)
(* pass of the next one seals a degraded vault, if it can.                  *)
AgentRestart ==
  /\ Open # {} /\ Fault /\ conn' = [c \in Conns |-> Closed]
  /\ vault' \in IF vault = "degraded" THEN {"degraded", "sealed"} ELSE {vault}
  /\ UNCHANGED <<container, links, astray>>

(* Others start, stop, remove and make containers, or boot the host, only   *)
(* while no call is open.                                                   *)
ByHand ==
  /\ Open = {}
  /\ \/ /\ UNCHANGED vault
        /\ \/ \E s \in Known : container' \in {Started({s}), Stopped({s})}
           \/ \E s \in Services : container[s] = "stopped"
                /\ container' = [container EXCEPT ![s] = "removed"]
           \/ \E s \in Services \ Known : container' = Stopped({s})
     \/ /\ vault' = IF vault = "absent" THEN "absent" ELSE "sealed"
        /\ \E S \in SUBSET Known : container' =
             [s \in Services |-> IF s \in S THEN "stub"
                                 ELSE IF s \in Known THEN "stopped" ELSE "removed"]
  /\ UNCHANGED <<links, conn, astray, lost, faults>>

Next ==
  \/ \E c \in Conns : Submit(c) \/ Work(c) \/ Receive(c)
  \/ LoseAnswers \/ AgentRestart \/ ByHand

Spec == Init /\ [][Next]_vars

-----------------------------------------------------------------------------
(* The step with which the agent answers c *)
Replies(c) ==
  c \in Open /\ conn[c].step # "answered" /\ conn'[c].step = "answered"

Clean(c) == conn'[c].answer = "ok" /\ conn[c].alone

(* An unseal that answers ok and says no more, and that no other call       *)
(* overlapped, has every linked service running on the unsealed file        *)
(* system: none is left running on the stub, where Docker may have started  *)
(* it before ("stop services -> Unseal -> start services",                  *)
(* agent_handler.go 257).                                                   *)
UnsealServes ==
  [][\A c \in Conns : Replies(c) /\ conn[c].verb = "unseal" /\ Clean(c) =>
       /\ vault' = "unsealed"
       /\ \A s \in conn[c].asked : container'[s] = "vault"]_vars

(* A seal that answers ok leaves no container on the vault; if it says no   *)
(* more and no other call overlapped it, every linked service is stopped    *)
(* ("stop services -> Seal", agent_handler.go 302).                         *)
SealStops ==
  [][\A c \in Conns : Replies(c) /\ conn[c].verb = "seal" =>
       /\ conn'[c].answer # "error" => ~Busy'
       /\ Clean(c) => vault' = "sealed" /\ \A s \in conn[c].asked : container'[s] = "stopped"]_vars

(* A vault that is gone leaves no links behind, with which one made later   *)
(* under its name would start the services of the old one, unless they were *)
(* saved when it was gone, an answer was lost or a command failed           *)
(* (deleteVaultServices, index.js 471).                                     *)
LinksGo ==
  vault = "absent" /\ Open = {} /\ ~astray /\ lost = 0 /\ faults = 0 => links = {}
=============================================================================

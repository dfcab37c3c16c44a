----------------------------- MODULE VaultProps -----------------------------
(***************************************************************************)
(* What the vault of module Vault must and must not do.                     *)
(***************************************************************************)
EXTENDS Vault

Alive == crashes' = crashes

(* The step with which p's Unseal, rollback or Seal returns *)
Returns(p) == pc[p] \in Critical /\ pc'[p] \notin Critical /\ Alive

(* Nothing of the vault is left in the kernel and its stub cannot be written *)
FullySealed ==
  mnt = "none" /\ ~Mapped /\ loop = "detached" /\ stub = "immutable"

FullyUnsealed == mnt = "real" /\ Mapped /\ loop # "detached"

(* Unseal, its rollback and Seal never run at the same time on one vault    *)
(* (v.mu, vault.go 128 and 211).                                            *)
Exclusive ==
  \A p, q \in Procs : pc[p] \in Critical /\ pc[q] \in Critical => p = q

(* Once the agent knows the vault, nobody can write plaintext into the      *)
(* stub: whenever nothing is mounted at the path, also in the middle of an  *)
(* operation, after a failed one and after a restart, the stub is immutable *)
(* (Config.MountPath, vault.go 18).                                         *)
StubProtected == registry = "known" /\ mnt = "none" => stub = "immutable"

(* An Unseal that reports success leaves the vault's own file system        *)
(* mounted on an open mapper; a Seal that does leaves nothing mounted,       *)
(* mapped or attached and an immutable stub, whatever state faults, crashes *)
(* or an operator left before (Unseal and Seal, vault.go 127 and 210).      *)
OutcomeStep ==
  \A p \in Procs : Returns(p) /\ res'[p] = "ok" =>
    IF op[p] = "unseal" THEN FullyUnsealed' ELSE FullySealed'

OutcomeSound == [][OutcomeStep]_vars

(* A rollback that reports no errors of its own left nothing behind         *)
(* (rollbackToSealed, vault.go 203).                                        *)
RollbackStep ==
  \A p \in Procs : Returns(p) /\ pc[p] \in BackSteps /\ p \notin errs' =>
    FullySealed'

RollbackClean == [][RollbackStep]_vars

(* Once the startup pass has ended, and as long as no command of this run   *)
(* of the agent fails, a vault nobody works on is neither half mounted nor  *)
(* half closed, whatever earlier runs, their failed commands and crashes    *)
(* left, and also after a wrong passphrase and after a Seal refused because *)
(* of open files; where no agent was ever killed no loop device stays       *)
(* behind either (Reconcile and the returns of Unseal and Seal).            *)
Whole == IF Mapped THEN mnt = "real" ELSE mnt = "none" /\ stub = "immutable"

QuietIsWhole ==
  Quiet /\ Serving /\ faults = 0 =>
    /\ Whole
    /\ crashes = 0 => loop = IF Mapped THEN "attached" ELSE "detached"

(* In whatever state the agents before left the vault, with failed commands *)
(* and crashes in any step: when the startup pass lets requests in and none *)
(* of its own commands has failed, the vault is not degraded (Reconcile,    *)
(* vault.go 105).                                                           *)
StartupConverges ==
  [][~Serving /\ Serving' /\ faults' = 0 =>
       IF Mapped' THEN mnt' = "real" ELSE mnt' = "none"]_vars

(* When Status answers unsealed, the vault is unsealed then, although its   *)
(* three reads are not atomic and a Seal may run between them (the order of *)
(* the reads in Status, vault.go 65).                                       *)
UnsealedAnswerStep ==
  \A p \in Procs : pc[p] = "status_source" /\ pc'[p] # "status_source" =>
    (res'[p] = "unsealed" => Mapped /\ mnt = "real")

UnsealedAnswerSound == [][UnsealedAnswerStep]_vars

(* When Status answers degraded, the vault is degraded then ("Reports the   *)
(* vault's current classification", vault.go 64).  It does not hold: a Seal *)
(* may run between the reads (README.md, section 5).                        *)
DegradedAnswerSound ==
  [][\A p \in Procs : pc[p] = "status_source" /\ res'[p] = "degraded" =>
       Mapped # (mnt = "real") \/ mnt = "foreign"]_vars

(* Seal waits for open files to be closed before it unmounts, and gives up  *)
(* only when its timeout has passed (the repository's README.md 84).  It    *)
(* does not hold where fuser is missing (README.md, section 5).             *)
SealWaitsForHandles ==
  [][\A p \in Procs : pc[p] = "seal_wait" /\ pc'[p] = "seal_umount" => ~Held]_vars

(* Every request is answered, and the startup pass ends, whatever commands  *)
(* fail and whoever else works on the vault (Handle, ReconcileAll).         *)
EveryRequestEnds ==
  \A p \in Procs : pc[p] = "lookup" ~> pc[p] = "idle"

-----------------------------------------------------------------------------
(***************************************************************************)
(* The abstract vault this one implements.                                  *)
(***************************************************************************)
Reported == [p \in Procs |-> IF res[p] \in {"ok", "error"} THEN res[p] ELSE "none"]

Abstract == INSTANCE SealState WITH
  state <- Class(Mapped, mnt), owner <- mu,
  goal <- IF mu \in Procs /\ op[mu] = "unseal" THEN "unsealed" ELSE "sealed",
  answer <- Reported

Implements == Abstract!Spec
=============================================================================

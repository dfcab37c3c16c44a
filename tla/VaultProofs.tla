---------------------------- MODULE VaultProofs -----------------------------
(***************************************************************************)
(* Theorems about one vault, for any set of workers and any bounds.         *)
(***************************************************************************)
EXTENDS VaultProps, TLAPS

(* Who is where: the owner of a mutex is the process inside it *)
LockInv ==
  /\ \A p \in Procs : pc[p] \in Critical <=> mu = p
  /\ \A p \in Procs : pc[p] = "ensure" <=> hmu = p

(* Beyond the registry the vault is registered *)
RegistryInv ==
  \A p \in Procs :
    /\ pc[p] \in StatusSteps \cup {"lock"} \cup Critical => registry = "known"
    /\ pc[p] = "ensure" => registry = "empty"

(* Each step belongs to its operation *)
OpInv ==
  \A p \in Procs :
    /\ pc[p] \in UnsealSteps \cup BackSteps => op[p] = "unseal"
    /\ pc[p] \in SealSteps => op[p] # "unseal"

(* The kernel stacks a mount on a mapper and a mapper on a loop device *)
KernelInv ==
  /\ mnt = "real" => Mapped
  /\ Mapped => loop # "detached"
  /\ loop = "autoclear" => Mapped
  /\ Held => mnt # "none"

(* What a step of Unseal may count on *)
UnsealInv ==
  \A p \in Procs :
    /\ pc[p] \in UnsealSteps \ {"unseal_attach", "unseal_abort"} => loop # "detached"
    /\ pc[p] \in {"unseal_source", "unseal_holders", "unseal_umount", "unseal_mount"} => Mapped
    /\ pc[p] = "unseal_mount" => mnt = "none"

(* What a step of the rollback has undone, unless it noted an error *)
BackInv ==
  \A p \in Procs : p \notin errs =>
    /\ pc[p] \in {"back_chattr", "back_close", "back_detach"} => mnt = "none"
    /\ pc[p] \in {"back_close", "back_detach"} => stub = "immutable"
    /\ pc[p] = "back_detach" => ~Mapped

(* What a step of Seal has undone *)
SealInv ==
  \A p \in Procs :
    /\ pc[p] \in {"seal_chattr", "seal_close", "seal_detach"} => mnt = "none"
    /\ pc[p] \in {"seal_close", "seal_detach"} => stub = "immutable"
    /\ pc[p] = "seal_detach" => ~Mapped

(* Without an operator's mounts the stub under the vault is protected from  *)
(* the moment the agent knows the vault                                     *)
StubInv ==
  ~Operator =>
    /\ mnt # "foreign"
    /\ mnt = "real" => stub = "immutable"
    /\ registry = "known" => stub = "immutable"

IInv ==
  /\ TypeOK /\ LockInv /\ RegistryInv /\ OpInv /\ KernelInv
  /\ UnsealInv /\ BackInv /\ SealInv /\ StubInv

-----------------------------------------------------------------------------
(* The sets of labels and the shorthands every leaf needs *)
USE ProcsAssumption, BoundsAssumption, FlagsAssumption
USE DEF Procs, Steps, StatusSteps, Critical, UnsealSteps, BackSteps, SealSteps,
        Ops, Requests, Answers, Classes, Results, TakesEffect,
        device, locks, locals, budget, Charge, Goto, Answer, Finish, Mark,
        Mapped, Held, Class

(* The invariant holds on a freshly booted host (Init) *)
LEMMA InitInv == Init => IInv
BY DEF Init, BootPc, BootOp, NoRes, IInv, TypeOK, LockInv, RegistryInv, OpInv,
       KernelInv, UnsealInv, BackInv, SealInv, StubInv

(* getOrCreateVault, EnsureSealed, Status and the taking of v.mu keep it *)
LEMMA ReadersKeepInv ==
  ASSUME IInv, NEW p \in Procs, Lookup(p) \/ Ensure(p) \/ StatusStep(p) \/ Lock(p)
  PROVE  IInv'
<1> USE DEF IInv, TypeOK, LockInv, RegistryInv, OpInv, KernelInv,
            UnsealInv, BackInv, SealInv, StubInv
<1>1. CASE Lookup(p)
  BY <1>1 DEF Lookup, AfterLookup
<1>2. CASE Ensure(p)
  BY <1>2 DEF Ensure, EnsureOk, AfterLookup
<1>3. CASE StatusBusy(p) \/ StatusMapped(p) \/ StatusSource(p)
  BY <1>3 DEF StatusBusy, StatusMapped, StatusSource, Heals
<1>4. CASE Lock(p)
  BY <1>4 DEF Lock
<1>5. QED
  BY <1>1, <1>2, <1>3, <1>4 DEF StatusStep

(* Every step of Unseal keeps it *)
LEMMA UnsealKeepsInv ==
  ASSUME IInv, NEW p \in Procs, UnsealStep(p)
  PROVE  IInv'
<1> USE DEF IInv, TypeOK, LockInv, RegistryInv, OpInv, KernelInv,
            UnsealInv, BackInv, SealInv, StubInv, CanUnmount
<1>1. CASE UnsealAttach(p)
  BY <1>1 DEF UnsealAttach
<1>2. CASE UnsealOpen(p)
  BY <1>2 DEF UnsealOpen
<1>3. CASE UnsealAbort(p)
  BY <1>3 DEF UnsealAbort, LoopAfterDetach
<1>4. CASE UnsealSource(p)
  BY <1>4 DEF UnsealSource
<1>5. CASE UnsealHolders(p)
  BY <1>5 DEF UnsealHolders
<1>6. CASE UnsealUnmount(p)
  BY <1>6 DEF UnsealUnmount, Unmount, UnmountOk
<1>7. CASE UnsealMount(p)
  BY <1>7 DEF UnsealMount
<1>8. QED
  BY <1>1, <1>2, <1>3, <1>4, <1>5, <1>6, <1>7 DEF UnsealStep

(* Every step of rollbackToSealed keeps it *)
LEMMA BackKeepsInv ==
  ASSUME IInv, NEW p \in Procs, BackStep(p)
  PROVE  IInv'
<1> USE DEF IInv, TypeOK, LockInv, RegistryInv, OpInv, KernelInv,
            UnsealInv, BackInv, SealInv, StubInv, Note
<1>1. CASE BackUnmount(p)
  BY <1>1 DEF BackUnmount, Unmount, CanUnmount
<1>2. CASE BackImmutable(p)
  BY <1>2 DEF BackImmutable
<1>3. CASE BackClose(p)
  BY <1>3 DEF BackClose, Close, CloseOk, CanClose, LoopAfterClose
<1>4. CASE BackDetach(p)
  BY <1>4 DEF BackDetach, Detach, DetachOk, LoopAfterDetach
<1>5. QED
  BY <1>1, <1>2, <1>3, <1>4 DEF BackStep

(* Every step of Seal keeps it *)
LEMMA SealKeepsInv ==
  ASSUME IInv, NEW p \in Procs, SealStep(p)
  PROVE  IInv'
<1> USE DEF IInv, TypeOK, LockInv, RegistryInv, OpInv, KernelInv,
            UnsealInv, BackInv, SealInv, StubInv, GotoOrFail
<1>1. CASE SealSource(p)
  BY <1>1 DEF SealSource
<1>2. CASE SealWait(p)
  BY <1>2 DEF SealWait
<1>3. CASE SealUnmount(p)
  BY <1>3 DEF SealUnmount, Unmount, UnmountOk, CanUnmount
<1>4. CASE SealImmutable(p)
  BY <1>4 DEF SealImmutable
<1>5. CASE SealClose(p)
  BY <1>5 DEF SealClose, Close, CloseOk, CanClose, LoopAfterClose
<1>6. CASE SealDetach(p)
  BY <1>6 DEF SealDetach, Detach, LoopAfterDetach
<1>7. QED
  BY <1>1, <1>2, <1>3, <1>4, <1>5, <1>6 DEF SealStep

(* So do new requests and what happens around the agent *)
LEMMA OutsideKeepsInv ==
  ASSUME IInv,
         \/ \E p \in Procs, o \in Requests : Request(p, o)
         \/ Environment
  PROVE  IInv'
<1> USE DEF IInv, TypeOK, LockInv, RegistryInv, OpInv, KernelInv,
            UnsealInv, BackInv, SealInv, StubInv
<1>1. CASE \E p \in Procs, o \in Requests : Request(p, o)
  BY <1>1 DEF Request, Serving
<1>2. CASE \E h \in Holders : Opened(h) \/ Released(h)
  BY <1>2 DEF Opened, Released
<1>3. CASE MountedByHand \/ UnmountedByHand
  BY <1>3 DEF MountedByHand, UnmountedByHand, Quiet, CanUnmount
<1>4. CASE Crash \/ Reboot
  BY <1>4 DEF Crash, Reboot, Restarted, BootPc, BootOp, NoRes
<1>5. QED
  BY <1>1, <1>2, <1>3, <1>4 DEF Environment

(* The invariant is inductive: every step of the system keeps it (Next) *)
LEMMA NextKeepsInv == IInv /\ [Next]_vars => IInv'
<1> SUFFICES ASSUME IInv, [Next]_vars PROVE IInv'
  OBVIOUS
<1>1. CASE \E p \in Procs : Step(p)
  BY <1>1, ReadersKeepInv, UnsealKeepsInv, BackKeepsInv, SealKeepsInv DEF Step
<1>2. CASE \E p \in Procs, o \in Requests : Request(p, o)
  BY <1>2, OutsideKeepsInv
<1>3. CASE Environment
  BY <1>3, OutsideKeepsInv
<1>4. CASE UNCHANGED vars
  BY <1>4 DEF vars, IInv, TypeOK, LockInv, RegistryInv, OpInv, KernelInv,
              UnsealInv, BackInv, SealInv, StubInv
<1>5. QED
  BY <1>1, <1>2, <1>3, <1>4 DEF Next

(* The inductive invariant holds in every reachable state (Spec) *)
LEMMA Invariance == Spec => []IInv
BY InitInv, NextKeepsInv, PTL DEF Spec

-----------------------------------------------------------------------------
(* Every variable keeps its type (the state of vault.go and of the kernel) *)
THEOREM TypeCorrect == Spec => []TypeOK
<1>1. IInv => TypeOK
  BY DEF IInv
<1>2. QED
  BY <1>1, Invariance, PTL

(* At most one goroutine is inside Unseal, its rollback or Seal (v.mu) *)
THEOREM MutualExclusion == Spec => []Exclusive
<1>1. IInv => Exclusive
  BY DEF IInv, LockInv, Exclusive
<1>2. QED
  BY <1>1, Invariance, PTL

(* Unless somebody mounts by hand, nothing can ever be written into the     *)
(* stub of a vault the agent knows (vault.go 18).                           *)
THEOREM StubAlwaysProtected == ~Operator => (Spec => []StubProtected)
<1> SUFFICES ASSUME ~Operator PROVE Spec => []StubProtected
  OBVIOUS
<1>1. IInv => StubProtected
  BY DEF IInv, StubInv, StubProtected
<1>2. QED
  BY <1>1, Invariance, PTL

-----------------------------------------------------------------------------
(* A step that changes where p is, other than a crash, is a step of p       *)
LEMMA OwnStep ==
  ASSUME NEW p \in Procs, [Next]_vars, TypeOK, pc[p] \in Critical, pc'[p] # pc[p], Alive
  PROVE  UnsealStep(p) \/ BackStep(p) \/ SealStep(p)
<1> USE DEF TypeOK
<1>1. CASE \E q \in Procs : Step(q)
  <2> PICK q \in Procs : Step(q)
    BY <1>1
  <2>1. CASE q # p
    <3>1. pc'[p] = pc[p]
      BY <2>1 DEF Step, Lookup, Ensure, StatusStep, StatusBusy, StatusMapped, StatusSource,
         Lock, UnsealStep, UnsealAttach, UnsealOpen, UnsealAbort, UnsealSource,
         UnsealHolders, UnsealUnmount, UnsealMount, BackStep, BackUnmount, BackImmutable,
         BackClose, BackDetach, Note, SealStep, SealSource, SealWait, SealUnmount,
         SealImmutable, SealClose, SealDetach, GotoOrFail
    <3>2. QED
      BY <3>1
  <2>2. CASE q = p
    BY <2>2 DEF Step, Lookup, Ensure, StatusStep, StatusBusy, StatusMapped, StatusSource, Lock
  <2>3. QED
    BY <2>1, <2>2
<1>2. CASE \E q \in Procs, o \in Requests : Request(q, o)
  BY <1>2 DEF Request
<1>3. CASE Environment
  BY <1>3 DEF Environment, Opened, Released, MountedByHand, UnmountedByHand,
              Crash, Reboot, Restarted, Alive
<1>4. CASE UNCHANGED vars
  BY <1>4 DEF vars
<1>5. QED
  BY <1>1, <1>2, <1>3, <1>4 DEF Next

(* The returns of Unseal and Seal that answer ok, from the invariant        *)
LEMMA OutcomeStepHolds == IInv /\ [Next]_vars => OutcomeStep
<1> SUFFICES ASSUME IInv, [Next]_vars, NEW p \in Procs, Returns(p), res'[p] = "ok"
             PROVE  IF op[p] = "unseal" THEN FullyUnsealed' ELSE FullySealed'
  BY DEF OutcomeStep
<1> USE DEF IInv, TypeOK, OpInv, KernelInv, UnsealInv, SealInv, Returns,
            FullySealed, FullyUnsealed
<1>1. UnsealStep(p) \/ BackStep(p) \/ SealStep(p)
  BY OwnStep
<1>2. CASE UnsealStep(p)
  BY <1>2 DEF UnsealStep, UnsealAttach, UnsealOpen, UnsealAbort, UnsealSource,
              UnsealHolders, UnsealUnmount, UnsealMount
<1>3. CASE BackStep(p)
  BY <1>3 DEF BackStep, BackUnmount, BackImmutable, BackClose, BackDetach, Note
<1>4. CASE SealStep(p)
  BY <1>4 DEF SealStep, SealSource, SealWait, SealUnmount, SealImmutable, SealClose,
              SealDetach, GotoOrFail, Detach, LoopAfterDetach
<1>5. QED
  BY <1>1, <1>2, <1>3, <1>4

(* The return of a rollback without errors of its own, from the invariant   *)
LEMMA RollbackStepHolds == IInv /\ [Next]_vars => RollbackStep
<1> SUFFICES ASSUME IInv, [Next]_vars, NEW p \in Procs, Returns(p),
                    pc[p] \in BackSteps, p \notin errs'
             PROVE  FullySealed'
  BY DEF RollbackStep
<1>1. BackStep(p)
  BY OwnStep DEF IInv, Returns, TypeOK, UnsealStep, UnsealAttach, UnsealOpen, UnsealAbort,
       UnsealSource, UnsealHolders, UnsealUnmount, UnsealMount, SealStep, SealSource,
       SealWait, SealUnmount, SealImmutable, SealClose, SealDetach
<1>2. QED
  BY <1>1 DEF IInv, TypeOK, BackInv, Returns, FullySealed, BackStep, BackUnmount,
       BackImmutable, BackClose, BackDetach, Note, Detach, DetachOk, LoopAfterDetach

(* The last read of Status, from the invariant: the mount seen last stands   *)
(* on an active mapper.                                                      *)
LEMMA UnsealedAnswerStepHolds == IInv /\ [Next]_vars => UnsealedAnswerStep
<1> SUFFICES ASSUME IInv, [Next]_vars, NEW p \in Procs, pc[p] = "status_source",
                    pc'[p] # "status_source", res'[p] = "unsealed"
             PROVE  Mapped /\ mnt = "real"
  BY DEF UnsealedAnswerStep
<1> USE DEF IInv, TypeOK, KernelInv
<1>1. CASE \E q \in Procs : Step(q)
  <2> PICK q \in Procs : Step(q)
    BY <1>1
  <2>1. CASE StatusStep(q)
    BY <2>1 DEF StatusStep, StatusBusy, StatusMapped, StatusSource, Class, Heals
  <2>2. CASE Lookup(q) \/ Ensure(q) \/ Lock(q)
    BY <2>2 DEF Lookup, Ensure, Lock
  <2>3. CASE UnsealStep(q)
    BY <2>3 DEF UnsealStep, UnsealAttach, UnsealOpen, UnsealAbort, UnsealSource,
                UnsealHolders, UnsealUnmount, UnsealMount
  <2>4. CASE BackStep(q)
    BY <2>4 DEF BackStep, BackUnmount, BackImmutable, BackClose, BackDetach, Note
  <2>5. CASE SealStep(q)
    BY <2>5 DEF SealStep, SealSource, SealWait, SealUnmount, SealImmutable, SealClose,
                SealDetach, GotoOrFail
  <2>6. QED
    BY <2>1, <2>2, <2>3, <2>4, <2>5 DEF Step
<1>2. CASE \E q \in Procs, o \in Requests : Request(q, o)
  BY <1>2 DEF Request
<1>3. CASE Environment
  BY <1>3 DEF Environment, Opened, Released, MountedByHand, UnmountedByHand,
              Crash, Reboot, Restarted, NoRes
<1>4. CASE UNCHANGED vars
  BY <1>4 DEF vars
<1>5. QED
  BY <1>1, <1>2, <1>3, <1>4 DEF Next

(* What Unseal and Seal left when they answer ok (vault.go 127 and 210) *)
THEOREM OutcomesSound == Spec => OutcomeSound
BY OutcomeStepHolds, Invariance, PTL DEF Spec, OutcomeSound

(* What a rollback without errors of its own left (vault.go 178) *)
THEOREM RollbacksClean == Spec => RollbackClean
BY RollbackStepHolds, Invariance, PTL DEF Spec, RollbackClean

(* An answer of unsealed is true when it is given (vault.go 65) *)
THEOREM UnsealedAnswersSound == Spec => UnsealedAnswerSound
BY UnsealedAnswerStepHolds, Invariance, PTL DEF Spec, UnsealedAnswerSound

-----------------------------------------------------------------------------
(***************************************************************************)
(* The detailed vault implements the abstract one of module SealState.      *)
(***************************************************************************)
(* A freshly booted host is an initial state of the abstract vault *)
LEMMA AbstractInit == Init => Abstract!Init
BY DEF Init, Abstract!Init, Reported, NoRes

(* How a step with the mutex ends: it goes on, or returns with an answer,    *)
(* and with ok only at its goal.                                            *)
GoesOn == UNCHANGED <<mu, op, res>>

ReturnsWell(p) ==
  /\ mu' = NoProc /\ UNCHANGED op
  /\ \/ /\ res' = [res EXCEPT ![p] = "ok"]
        /\ Class(Mapped, mnt)' = IF op[p] = "unseal" THEN "unsealed" ELSE "sealed"
     \/ res' = [res EXCEPT ![p] = "error"]

(* Every step of Unseal, its rollback and Seal is one of the two *)
LEMMA CriticalStepEnds ==
  ASSUME IInv, NEW p \in Procs, UnsealStep(p) \/ BackStep(p) \/ SealStep(p)
  PROVE  mu = p /\ (GoesOn \/ ReturnsWell(p))
<1> USE DEF IInv, TypeOK, LockInv, OpInv, KernelInv, UnsealInv, SealInv,
            GoesOn, ReturnsWell
<1>1. CASE UnsealStep(p)
  BY <1>1 DEF UnsealStep, UnsealAttach, UnsealOpen, UnsealAbort, UnsealSource,
              UnsealHolders, UnsealUnmount, UnsealMount
<1>2. CASE BackStep(p)
  BY <1>2 DEF BackStep, BackUnmount, BackImmutable, BackClose, BackDetach, Note
<1>3. CASE SealStep(p)
  BY <1>3 DEF SealStep, SealSource, SealWait, SealUnmount, SealImmutable, SealClose,
              SealDetach, GotoOrFail, Detach
<1>4. QED
  BY <1>1, <1>2, <1>3

(* Going on is work of the abstract owner *)
LEMMA GoingOnIsWork ==
  ASSUME TypeOK, mu # NoProc, GoesOn PROVE Abstract!Work
<1>1. Reported' = Reported
  BY DEF GoesOn, Reported
<1>2. Class(Mapped, mnt)' \in Abstract!States
  BY DEF Abstract!States
<1>3. QED
  BY <1>1, <1>2 DEF GoesOn, Abstract!Work

(* Returning is the end of the abstract operation *)
LEMMA ReturningIsEnd ==
  ASSUME TypeOK, NEW p \in Procs, mu = p, ReturnsWell(p) PROVE Abstract!End(p)
<1>1. ASSUME NEW a \in {"ok", "error"}, res' = [res EXCEPT ![p] = a]
      PROVE  Reported' = [Reported EXCEPT ![p] = a]
  BY <1>1 DEF Reported, TypeOK
<1>2. Class(Mapped, mnt)' \in Abstract!States
  BY DEF Abstract!States
<1>3. CASE res' = [res EXCEPT ![p] = "ok"]
           /\ Class(Mapped, mnt)' = IF op[p] = "unseal" THEN "unsealed" ELSE "sealed"
  BY <1>1, <1>3 DEF ReturnsWell, Abstract!End
<1>4. CASE res' = [res EXCEPT ![p] = "error"]
  BY <1>1, <1>2, <1>4 DEF ReturnsWell, Abstract!End
<1>5. QED
  BY <1>3, <1>4 DEF ReturnsWell

(* A step without the mutex leaves the owner alone, and answers no more     *)
(* than an error                                                            *)
LEMMA OthersStepRefines ==
  ASSUME TypeOK, NEW p \in Procs, mu # p,
         NEW a \in Answers \ {"ok"},
         res' = [res EXCEPT ![p] = a], UNCHANGED <<mapper, mnt, mu>>,
         op' = op \/ \E o \in Ops : op' = [op EXCEPT ![p] = o]
  PROVE  Abstract!Other(p)
<1> DEFINE b == IF a = "error" THEN "error" ELSE "none"
<1>1. Reported' = [Reported EXCEPT ![p] = b]
  BY DEF Reported, TypeOK
<1>2. mu \in Procs => op'[mu] = op[mu]
  BY DEF TypeOK
<1>3. QED
  BY <1>1, <1>2 DEF Abstract!Other

(* Steps of a process outside the mutex stutter, begin an operation, or are *)
(* the answers of others.                                                   *)
LEMMA ReadersStepRefines ==
  ASSUME IInv, NEW p \in Procs, Lookup(p) \/ Ensure(p) \/ StatusStep(p) \/ Lock(p)
  PROVE  Abstract!Next \/ UNCHANGED Abstract!vars
<1>0. TypeOK /\ LockInv
  BY DEF IInv
<1>1. CASE Lookup(p)
  <2>1. UNCHANGED <<mapper, mnt, mu, op, res>>
    BY <1>1 DEF Lookup
  <2>2. QED
    BY <2>1 DEF Abstract!vars, Reported
<1>2. CASE Ensure(p)
  <2>1. UNCHANGED <<mapper, mnt, mu, op>> /\ mu # p
    BY <1>0, <1>2 DEF Ensure, LockInv
  <2>2. CASE UNCHANGED res
    BY <2>1, <2>2 DEF Abstract!vars, Reported
  <2>3. CASE res' = [res EXCEPT ![p] = "error"]
    BY <1>0, <2>1, <2>3, OthersStepRefines DEF Abstract!Next
  <2>4. QED
    BY <1>2, <2>2, <2>3 DEF Ensure
<1>3. CASE StatusBusy(p) \/ StatusMapped(p)
  <2>1. UNCHANGED <<mapper, mnt, mu, op>> /\ mu # p
    BY <1>0, <1>3 DEF StatusBusy, StatusMapped, LockInv
  <2>2. CASE UNCHANGED res
    BY <2>1, <2>2 DEF Abstract!vars, Reported
  <2>3. CASE \E a \in {"unsealing", "error"} : res' = [res EXCEPT ![p] = a]
    BY <1>0, <2>1, <2>3, OthersStepRefines DEF Abstract!Next
  <2>4. QED
    BY <1>3, <2>2, <2>3 DEF StatusBusy, StatusMapped
<1>4. CASE StatusSource(p)
  <2>1. UNCHANGED <<mapper, mnt, mu>> /\ mu # p
    BY <1>0, <1>4 DEF StatusSource, LockInv
  <2>2. \E a \in Classes \cup {"error"} : res' = [res EXCEPT ![p] = a]
    BY <1>4 DEF StatusSource, Heals
  <2>3. op' = op \/ op' = [op EXCEPT ![p] = "heal"]
    BY <1>4 DEF StatusSource, Heals
  <2>4. QED
    BY <1>0, <2>1, <2>2, <2>3, OthersStepRefines DEF Abstract!Next
<1>5. CASE Lock(p)
  <2>1. /\ mu = NoProc /\ mu' = p
        /\ UNCHANGED <<mapper, mnt, op, res>>
    BY <1>5 DEF Lock
  <2>2. Abstract!Begin(p)
    BY <2>1 DEF Abstract!Begin, Abstract!Goals, Reported
  <2>3. QED
    BY <2>2 DEF Abstract!Next
<1>6. QED
  BY <1>1, <1>2, <1>3, <1>4, <1>5 DEF StatusStep

(* The rest of the world: callers, an operator, crashes and reboots *)
LEMMA OutsideStepRefines ==
  ASSUME IInv,
         \/ \E p \in Procs, o \in Requests : Request(p, o)
         \/ Environment
  PROVE  Abstract!Next \/ UNCHANGED Abstract!vars
<1>0. TypeOK /\ LockInv
  BY DEF IInv
<1>1. CASE \E p \in Procs, o \in Requests : Request(p, o)
  <2> PICK p \in Procs, o \in Requests : Request(p, o)
    BY <1>1
  <2>1. /\ UNCHANGED <<mapper, mnt, mu>> /\ mu # p
        /\ res' = [res EXCEPT ![p] = "none"]
        /\ op' = [op EXCEPT ![p] = o]
    BY <1>0 DEF Request, LockInv
  <2>2. QED
    BY <1>0, <2>1, OthersStepRefines DEF Abstract!Next
<1>2. CASE \E h \in Holders : Opened(h) \/ Released(h)
  BY <1>2 DEF Opened, Released, Abstract!vars, Reported
<1>3. CASE MountedByHand \/ UnmountedByHand
  <2>1. Operator /\ mu = NoProc /\ UNCHANGED <<mapper, mu, op, res>>
    BY <1>3 DEF MountedByHand, UnmountedByHand, Quiet
  <2>2. Abstract!ByHand
    BY <2>1 DEF Abstract!ByHand, Abstract!States, Reported
  <2>3. QED
    BY <2>2 DEF Abstract!Next
<1>4. CASE Crash \/ Reboot
  <2>1. /\ mu' = NoProc /\ res' = NoRes
        /\ \/ UNCHANGED <<mapper, mnt>>
           \/ mapper' = "inactive" /\ mnt' = "none"
    BY <1>4 DEF Crash, Reboot, Restarted
  <2>2. Abstract!Restart
    BY <2>1 DEF Abstract!Restart, Reported, NoRes
  <2>3. QED
    BY <2>2 DEF Abstract!Next
<1>5. QED
  BY <1>1, <1>2, <1>3, <1>4 DEF Environment

(* Every step of the vault is a step of the abstract one, or none *)
LEMMA NextRefines == IInv /\ [Next]_vars => [Abstract!Next]_(Abstract!vars)
<1> SUFFICES ASSUME IInv, [Next]_vars
             PROVE  Abstract!Next \/ UNCHANGED Abstract!vars
  OBVIOUS
<1>0. TypeOK
  BY DEF IInv
<1>1. CASE \E p \in Procs : Step(p)
  <2> PICK p \in Procs : Step(p)
    BY <1>1
  <2>1. CASE UnsealStep(p) \/ BackStep(p) \/ SealStep(p)
    BY <1>0, <2>1, CriticalStepEnds, GoingOnIsWork, ReturningIsEnd DEF Abstract!Next
  <2>2. CASE Lookup(p) \/ Ensure(p) \/ StatusStep(p) \/ Lock(p)
    BY <2>2, ReadersStepRefines
  <2>3. QED
    BY <2>1, <2>2 DEF Step
<1>2. CASE \/ \E p \in Procs, o \in Requests : Request(p, o)
           \/ Environment
  BY <1>2, OutsideStepRefines
<1>3. CASE UNCHANGED vars
  BY <1>3 DEF vars, Abstract!vars, Reported
<1>4. QED
  BY <1>1, <1>2, <1>3 DEF Next

(* The vault of vault.go implements the abstract vault of SealState: its    *)
(* operations happen one at a time, and ok means that the goal is reached.  *)
THEOREM Implementation == Spec => Implements
BY AbstractInit, NextRefines, Invariance, PTL DEF Spec, Implements, Abstract!Spec

-----------------------------------------------------------------------------
(* A vault with requests being served and no failed command in this run of  *)
(* the agent.  Without an operator's mounts an operation finds it balanced, *)
(* for the startup pass saw to that, and its steps undo each other exactly; *)
(* what only a failure leads to is never reached.                           *)
Balanced == Mapped => mnt = "real"

WholeInv ==
  Serving /\ faults = 0 =>
    /\ registry = "known"
    /\ mu = NoProc => Balanced
    /\ \A p \in Procs :
         /\ pc[p] \in {"unseal_attach", "unseal_open", "seal_source"} => Balanced
         /\ pc[p] = "unseal_abort" => ~Mapped
         /\ pc[p] \in {"seal_wait", "seal_umount"} => mnt = "real"
         /\ pc[p] \notin BackSteps \cup {"unseal_holders", "unseal_umount"}

(* Where no agent was killed either, every loop device is that of a mapper  *)
LoopFits == loop = IF Mapped THEN "attached" ELSE "detached"

LoopInv ==
  faults = 0 /\ crashes = 0 =>
    /\ mu = NoProc => LoopFits
    /\ ~Serving => ~Mapped /\ op[Main] # "heal"
    /\ \A p \in Procs :
         /\ pc[p] \in {"unseal_attach", "seal_source"} => LoopFits
         /\ pc[p] \in {"unseal_open", "unseal_abort", "unseal_source", "unseal_mount",
                       "seal_wait", "seal_umount"} => loop = "attached"
         /\ pc[p] \in {"seal_chattr", "seal_close"} => (Mapped => loop = "attached")

(* The startup pass has the vault to itself.  What it heals is a mapper     *)
(* without a mount, for the kernel has no mount without a mapper.           *)
StartInv ==
  ~Serving =>
    /\ \A p \in Workers : pc[p] = "idle"
    /\ op[Main] \in {"reconcile", "heal"}
    /\ op[Main] = "reconcile" => pc[Main] \in {"lookup", "ensure"} \cup StatusSteps
    /\ faults = 0 =>
         /\ pc[Main] = "status_source" => (Main \in seen <=> Mapped)
         /\ op[Main] = "heal" =>
              /\ mnt = "none"
              /\ pc[Main] \in StatusSteps => ~Mapped
              /\ pc[Main] \in {"lock", "seal_source", "seal_chattr", "seal_close", "seal_detach"}
                               \cup StatusSteps

CareInv == IInv /\ WholeInv /\ LoopInv /\ StartInv

LEMMA CareInit == Init => CareInv
<1>1. Init => WholeInv BY DEF Init, WholeInv, Serving, BootPc
<1>2. Init => LoopInv BY DEF Init, LoopInv, LoopFits, BootPc, BootOp
<1>3. Init => StartInv BY DEF Init, StartInv, Serving, BootPc, BootOp
<1> QED BY <1>1, <1>2, <1>3, InitInv DEF CareInv

LEMMA ReadersKeepCare ==
  ASSUME ~Operator, CareInv, NEW p \in Procs, Lookup(p) \/ Ensure(p) \/ StatusStep(p) \/ Lock(p)
  PROVE  WholeInv' /\ LoopInv' /\ StartInv'
<1> USE DEF CareInv, IInv, TypeOK, LockInv, OpInv, RegistryInv, KernelInv, StubInv, Serving
<1>1. CASE Lookup(p)
  <2>1. WholeInv' BY <1>1 DEF Lookup, AfterLookup, WholeInv, LoopInv, StartInv, Balanced
  <2>2. LoopInv' BY <1>1 DEF Lookup, AfterLookup, WholeInv, LoopInv, StartInv, Balanced, LoopFits
  <2>3. StartInv' BY <1>1 DEF Lookup, AfterLookup, StartInv
  <2> QED BY <2>1, <2>2, <2>3
<1>2. CASE Ensure(p)
  <2>1. WholeInv' BY <1>2 DEF Ensure, EnsureOk, AfterLookup, WholeInv, LoopInv, StartInv, Balanced
  <2>2. LoopInv' BY <1>2 DEF Ensure, EnsureOk, AfterLookup, WholeInv, LoopInv, StartInv, Balanced, LoopFits
  <2>3. StartInv' BY <1>2 DEF Ensure, EnsureOk, AfterLookup, StartInv
  <2> QED BY <2>1, <2>2, <2>3
<1>3. CASE StatusBusy(p)
  <2>1. WholeInv' BY <1>3 DEF StatusBusy, Busy, WholeInv, LoopInv, StartInv, Balanced
  <2>2. LoopInv' BY <1>3 DEF StatusBusy, Busy, WholeInv, LoopInv, StartInv, Balanced, LoopFits
  <2>3. StartInv' BY <1>3 DEF StatusBusy, Busy, StartInv
  <2> QED BY <2>1, <2>2, <2>3
<1>4. CASE StatusMapped(p)
  <2>1. WholeInv' BY <1>4 DEF StatusMapped, WholeInv, LoopInv, StartInv, Balanced
  <2>2. LoopInv' BY <1>4 DEF StatusMapped, WholeInv, LoopInv, StartInv, Balanced, LoopFits
  <2>3. StartInv' BY <1>4 DEF StatusMapped, StartInv
  <2> QED BY <2>1, <2>2, <2>3
<1>5. CASE StatusSource(p)
  <2>1. WholeInv' BY <1>5 DEF StatusSource, Heals, WholeInv, LoopInv, StartInv, Balanced
  <2>2. LoopInv' BY <1>5 DEF StatusSource, Heals, WholeInv, LoopInv, StartInv, Balanced, LoopFits
  <2>3. StartInv' BY <1>5 DEF StatusSource, Heals, StartInv
  <2> QED BY <2>1, <2>2, <2>3
<1>6. CASE Lock(p)
  <2>1. WholeInv' BY <1>6 DEF Lock, WholeInv, LoopInv, StartInv, Balanced
  <2>2. LoopInv' BY <1>6 DEF Lock, WholeInv, LoopInv, StartInv, Balanced, LoopFits
  <2>3. StartInv' BY <1>6 DEF Lock, StartInv
  <2> QED BY <2>1, <2>2, <2>3
<1> QED BY <1>1, <1>2, <1>3, <1>4, <1>5, <1>6 DEF StatusStep

LEMMA UnsealKeepsCare ==
  ASSUME ~Operator, CareInv, NEW p \in Procs, UnsealStep(p)
  PROVE  WholeInv' /\ LoopInv' /\ StartInv'
<1> USE DEF CareInv, IInv, TypeOK, LockInv, OpInv, RegistryInv, KernelInv, StubInv, Serving, UnsealInv
<1>1. CASE UnsealAttach(p)
  <2>1. WholeInv' BY <1>1 DEF UnsealAttach, WholeInv, LoopInv, StartInv, Balanced
  <2>2. LoopInv' BY <1>1 DEF UnsealAttach, WholeInv, LoopInv, StartInv, Balanced, LoopFits
  <2>3. StartInv' BY <1>1 DEF UnsealAttach, StartInv
  <2> QED BY <2>1, <2>2, <2>3
<1>2. CASE UnsealOpen(p)
  <2>1. WholeInv' BY <1>2 DEF UnsealOpen, WholeInv, LoopInv, StartInv, Balanced
  <2>2. LoopInv' BY <1>2 DEF UnsealOpen, WholeInv, LoopInv, StartInv, Balanced, LoopFits
  <2>3. StartInv' BY <1>2 DEF UnsealOpen, StartInv
  <2> QED BY <2>1, <2>2, <2>3
<1>3. CASE UnsealAbort(p)
  <2>1. WholeInv' BY <1>3 DEF UnsealAbort, LoopAfterDetach, WholeInv, LoopInv, StartInv, Balanced
  <2>2. LoopInv' BY <1>3 DEF UnsealAbort, LoopAfterDetach, WholeInv, LoopInv, StartInv, Balanced, LoopFits
  <2>3. StartInv' BY <1>3 DEF UnsealAbort, LoopAfterDetach, StartInv
  <2> QED BY <2>1, <2>2, <2>3
<1>4. CASE UnsealSource(p)
  <2>1. WholeInv' BY <1>4 DEF UnsealSource, WholeInv, LoopInv, StartInv, Balanced
  <2>2. LoopInv' BY <1>4 DEF UnsealSource, WholeInv, LoopInv, StartInv, Balanced, LoopFits
  <2>3. StartInv' BY <1>4 DEF UnsealSource, StartInv
  <2> QED BY <2>1, <2>2, <2>3
<1>5. CASE UnsealHolders(p)
  <2>1. WholeInv' BY <1>5 DEF UnsealHolders, WholeInv, LoopInv, StartInv, Balanced
  <2>2. LoopInv' BY <1>5 DEF UnsealHolders, WholeInv, LoopInv, StartInv, Balanced, LoopFits
  <2>3. StartInv' BY <1>5 DEF UnsealHolders, StartInv
  <2> QED BY <2>1, <2>2, <2>3
<1>6. CASE UnsealUnmount(p)
  <2>1. WholeInv' BY <1>6 DEF UnsealUnmount, Unmount, UnmountOk, WholeInv, LoopInv, StartInv, Balanced
  <2>2. LoopInv' BY <1>6 DEF UnsealUnmount, Unmount, UnmountOk, WholeInv, LoopInv, StartInv, Balanced, LoopFits
  <2>3. StartInv' BY <1>6 DEF UnsealUnmount, Unmount, UnmountOk, StartInv
  <2> QED BY <2>1, <2>2, <2>3
<1>7. CASE UnsealMount(p)
  <2>1. WholeInv' BY <1>7 DEF UnsealMount, WholeInv, LoopInv, StartInv, Balanced
  <2>2. LoopInv' BY <1>7 DEF UnsealMount, WholeInv, LoopInv, StartInv, Balanced, LoopFits
  <2>3. StartInv' BY <1>7 DEF UnsealMount, StartInv
  <2> QED BY <2>1, <2>2, <2>3
<1> QED BY <1>1, <1>2, <1>3, <1>4, <1>5, <1>6, <1>7 DEF UnsealStep

(* A rollback is never reached without a failure, nor by the startup pass *)
LEMMA BackKeepsCare ==
  ASSUME ~Operator, CareInv, NEW p \in Procs, BackStep(p)
  PROVE  WholeInv' /\ LoopInv' /\ StartInv'
<1> USE DEF CareInv, IInv, TypeOK, LockInv, OpInv, Serving
<1>1. pc[p] \in BackSteps /\ p # Main /\ pc'[Main] = pc[Main]
  BY DEF BackStep, BackUnmount, BackImmutable, BackClose, BackDetach, Note, StartInv
<1>2. Serving BY <1>1 DEF StartInv
<1>3. faults # 0 BY <1>1, <1>2 DEF WholeInv
<1>4. faults' # 0
  BY <1>3 DEF BackStep, BackUnmount, BackImmutable, BackClose, BackDetach
<1> QED BY <1>1, <1>2, <1>4 DEF WholeInv, LoopInv, StartInv

LEMMA SealKeepsCare ==
  ASSUME ~Operator, CareInv, NEW p \in Procs, SealStep(p)
  PROVE  WholeInv' /\ LoopInv' /\ StartInv'
<1> USE DEF CareInv, IInv, TypeOK, LockInv, OpInv, RegistryInv, KernelInv, StubInv, Serving, SealInv, GotoOrFail
<1>1. CASE SealSource(p)
  <2>1. WholeInv' BY <1>1 DEF SealSource, WholeInv, LoopInv, StartInv, Balanced
  <2>2. LoopInv' BY <1>1 DEF SealSource, WholeInv, LoopInv, StartInv, Balanced, LoopFits
  <2>3. StartInv' BY <1>1 DEF SealSource, StartInv
  <2> QED BY <2>1, <2>2, <2>3
<1>2. CASE SealWait(p)
  <2>1. WholeInv' BY <1>2 DEF SealWait, WholeInv, LoopInv, StartInv, Balanced
  <2>2. LoopInv' BY <1>2 DEF SealWait, WholeInv, LoopInv, StartInv, Balanced, LoopFits
  <2>3. StartInv' BY <1>2 DEF SealWait, StartInv
  <2> QED BY <2>1, <2>2, <2>3
<1>3. CASE SealUnmount(p)
  <2>1. WholeInv' BY <1>3 DEF SealUnmount, Unmount, UnmountOk, CanUnmount, WholeInv, LoopInv, StartInv, Balanced
  <2>2. LoopInv' BY <1>3 DEF SealUnmount, Unmount, UnmountOk, CanUnmount, WholeInv, LoopInv, StartInv, Balanced, LoopFits
  <2>3. StartInv' BY <1>3 DEF SealUnmount, Unmount, UnmountOk, CanUnmount, StartInv
  <2> QED BY <2>1, <2>2, <2>3
<1>4. CASE SealImmutable(p)
  <2>1. WholeInv' BY <1>4 DEF SealImmutable, WholeInv, LoopInv, StartInv, Balanced
  <2>2. LoopInv' BY <1>4 DEF SealImmutable, WholeInv, LoopInv, StartInv, Balanced, LoopFits
  <2>3. StartInv' BY <1>4 DEF SealImmutable, StartInv
  <2> QED BY <2>1, <2>2, <2>3
<1>5. CASE SealClose(p)
  <2>1. WholeInv' BY <1>5 DEF SealClose, Close, CloseOk, CanClose, LoopAfterClose, WholeInv, LoopInv, StartInv, Balanced
  <2>2. LoopInv' BY <1>5 DEF SealClose, Close, CloseOk, CanClose, LoopAfterClose, WholeInv, LoopInv, StartInv, Balanced, LoopFits
  <2>3. StartInv' BY <1>5 DEF SealClose, Close, CloseOk, CanClose, LoopAfterClose, StartInv
  <2> QED BY <2>1, <2>2, <2>3
<1>6. CASE SealDetach(p)
  <2>1. WholeInv' BY <1>6 DEF SealDetach, Detach, LoopAfterDetach, WholeInv, LoopInv, StartInv, Balanced
  <2>2. LoopInv' BY <1>6 DEF SealDetach, Detach, LoopAfterDetach, WholeInv, LoopInv, StartInv, Balanced, LoopFits
  <2>3. StartInv' BY <1>6 DEF SealDetach, Detach, LoopAfterDetach, StartInv
  <2> QED BY <2>1, <2>2, <2>3
<1> QED BY <1>1, <1>2, <1>3, <1>4, <1>5, <1>6 DEF SealStep

LEMMA OutsideKeepsCare ==
  ASSUME ~Operator, CareInv,
         \/ \E p \in Procs, o \in Requests : Request(p, o)
         \/ Environment \/ UNCHANGED vars
  PROVE  WholeInv' /\ LoopInv' /\ StartInv'
<1> USE DEF CareInv, IInv, TypeOK, LockInv, Serving, Balanced, LoopFits
<1>1. CASE \E p \in Procs, o \in Requests : Request(p, o)
  BY <1>1 DEF Request, WholeInv, LoopInv, StartInv
<1>2. CASE \/ \E h \in Holders : Opened(h) \/ Released(h)
           \/ UNCHANGED vars
  BY <1>2 DEF Opened, Released, vars, WholeInv, LoopInv, StartInv
<1>3. CASE Crash \/ Reboot
  <2>1. pc'[Main] = "lookup" /\ op'[Main] = "reconcile" /\ crashes' # 0
    BY <1>3 DEF Crash, Reboot, Restarted, BootPc, BootOp
  <2>2. \A p \in Workers : pc'[p] = "idle"
    BY <1>3 DEF Crash, Reboot, Restarted, BootPc
  <2> QED BY <2>1, <2>2 DEF WholeInv, LoopInv, StartInv
<1> QED BY <1>1, <1>2, <1>3 DEF Environment, MountedByHand, UnmountedByHand

LEMMA CareNext == ASSUME ~Operator, CareInv, [Next]_vars PROVE CareInv'
<1>1. IInv' BY NextKeepsInv DEF CareInv
<1>2. CASE \E p \in Procs : Step(p)
  <2>1. WholeInv' /\ LoopInv' /\ StartInv'
    BY <1>2, ReadersKeepCare, UnsealKeepsCare, BackKeepsCare, SealKeepsCare DEF Step
  <2> QED BY <1>1, <2>1 DEF CareInv
<1>3. CASE \/ \E p \in Procs, o \in Requests : Request(p, o)
           \/ Environment \/ UNCHANGED vars
  BY <1>1, <1>3, OutsideKeepsCare DEF CareInv
<1> QED BY <1>2, <1>3 DEF Next

(* Unless somebody mounts by hand: once requests are served a vault nobody  *)
(* works on is whole as long as no command of this run of the agent fails,  *)
(* after any number of crashes and of failures in earlier runs (Reconcile   *)
(* and the returns of Unseal and Seal).                                     *)
THEOREM QuietAlwaysWhole == ~Operator => (Spec => []QuietIsWhole)
<1> SUFFICES ASSUME ~Operator PROVE Spec => []QuietIsWhole OBVIOUS
<1>1. CareInv => QuietIsWhole
  BY DEF CareInv, IInv, TypeOK, StubInv, KernelInv, WholeInv, Balanced, LoopInv, LoopFits,
         QuietIsWhole, Quiet, Whole
<1>2. CareInv /\ [Next]_vars => CareInv' BY CareNext
<1> QED BY <1>1, <1>2, CareInit, PTL DEF Spec

(* Unless somebody mounts by hand: a startup pass none of whose commands    *)
(* fails leaves no degraded vault, in whatever state crashes and failed     *)
(* commands of the agents before it left the vault (Reconcile, vault.go     *)
(* 105).                                                                    *)
THEOREM StartupAlwaysConverges == ~Operator => (Spec => StartupConverges)
<1> SUFFICES ASSUME ~Operator PROVE Spec => StartupConverges OBVIOUS
<1> DEFINE Converged ==
      ~Serving /\ Serving' /\ faults' = 0 => IF Mapped' THEN mnt' = "real" ELSE mnt' = "none"
<1>1. ASSUME CareInv, [Next]_vars PROVE [Converged]_vars
  <2> SUFFICES ASSUME ~Serving, Serving', faults' = 0, Next
               PROVE  IF Mapped' THEN mnt' = "real" ELSE mnt' = "none"
    BY <1>1
  <2> USE <1>1 DEF CareInv, IInv, TypeOK, LockInv, KernelInv, StubInv, Serving
  <2>1. \A p \in Workers : pc[p] = "idle" BY DEF StartInv
  <2>2. \A p \in Workers : ~Step(p)
    BY <2>1 DEF Step, Lookup, Ensure, StatusStep, StatusBusy, StatusMapped, StatusSource, Lock,
       UnsealStep, UnsealAttach, UnsealOpen, UnsealAbort, UnsealSource, UnsealHolders, UnsealUnmount,
       UnsealMount, BackStep, BackUnmount, BackImmutable, BackClose, BackDetach, SealStep, SealSource,
       SealWait, SealUnmount, SealImmutable, SealClose, SealDetach
  <2>3. Step(Main)
    BY <2>2 DEF Next, Request, Environment, Opened, Released, MountedByHand, UnmountedByHand,
       Crash, Reboot, Restarted, BootPc
  <2>4. ~(Lookup(Main) \/ Ensure(Main) \/ Lock(Main) \/ StatusMapped(Main))
    BY DEF Lookup, AfterLookup, Ensure, EnsureOk, Lock, StatusMapped
  <2>5. ~StatusBusy(Main)
    BY <2>1 DEF StatusBusy, Busy
  <2>6. ~(UnsealStep(Main) \/ BackStep(Main))
    BY DEF StartInv, OpInv, UnsealStep, UnsealAttach, UnsealOpen, UnsealAbort, UnsealSource,
           UnsealHolders, UnsealUnmount, UnsealMount, BackStep, BackUnmount, BackImmutable,
           BackClose, BackDetach
  <2>7. ~SealStep(Main)
    BY DEF StartInv, SealStep, SealSource, SealWait, SealUnmount, SealImmutable, SealClose, SealDetach,
           GotoOrFail
  <2>8. StatusSource(Main) BY <2>3, <2>4, <2>5, <2>6, <2>7 DEF Step, StatusStep
  <2> QED BY <2>8 DEF StatusSource, Heals, StartInv
<1>2. CareInv /\ [Next]_vars => CareInv' BY CareNext
<1> QED BY <1>1, <1>2, CareInit, PTL DEF Spec, StartupConverges
=============================================================================

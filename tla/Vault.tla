------------------------------- MODULE Vault -------------------------------
(***************************************************************************)
(* One vault of the agent (agent/internal/vault/vault.go) and the kernel   *)
(* state its shell commands change: the loop device over the image, the    *)
(* dm-crypt mapper, what is mounted at the vault's path, and the stub       *)
(* directory under that path with its immutable flag.                      *)
(*                                                                         *)
(* A process is a goroutine.  Main is the startup pass of the agent         *)
(* (ReconcileAll, before the socket is served); a worker is a connection's  *)
(* goroutine.  Each process takes one step per call into the packages luks  *)
(* and mount: the commands inside one such call look at state no other      *)
(* goroutine changes while the vault's mutex is held.                       *)
(*                                                                         *)
(* A definition named ...Mutant is the one below it with a plausible        *)
(* mistake; nothing uses it but the checks that the properties notice it.   *)
(***************************************************************************)
EXTENDS Naturals, FiniteSets

CONSTANTS
  Workers,        \* goroutines that serve requests
  Main,           \* the startup pass of the agent
  NoProc,         \* the owner of a free mutex
  MaxFaults,      \* bound on commands that fail or time out in one run of the agent
  MaxCrashes,     \* bound on agent crashes and host reboots
  Holders,        \* processes outside the agent that use the mounted files
  Operator,       \* TRUE if somebody mounts and unmounts at the path by hand
  FuserInstalled  \* TRUE if fuser(1) is in the agent's image

Procs == Workers \cup {Main}

ASSUME ProcsAssumption == Main \notin Workers /\ NoProc \notin Procs
ASSUME BoundsAssumption == MaxFaults \in Nat /\ MaxCrashes \in Nat
ASSUME FlagsAssumption == Operator \in BOOLEAN /\ FuserInstalled \in BOOLEAN

VARIABLES
  loop,        \* the image's loop device
  mapper,      \* the dm-crypt mapper over that loop device
  mnt,         \* what is mounted at the vault's path
  stub,        \* the directory under the mount
  holders,     \* the processes with a file open on what is mounted
  registry,    \* what the handler's registry has for the vault's id
  hmu,         \* owner of the registry's mutex
  mu,          \* owner of the vault's mutex
  pc,          \* the step each process takes next
  op,          \* the operation each process runs
  seen,        \* Status: the processes that saw the mapper active
  errs,        \* the processes whose rollback or Seal had an error to return
  res,         \* the last answer each process got
  faults,      \* commands failed since the agent was started
  crashes      \* crashes so far

device  == <<loop, mapper, mnt, stub, holders>>
locks   == <<registry, hmu, mu>>
locals  == <<pc, op, seen, errs, res>>
budget  == <<faults, crashes>>
vars    == <<device, locks, locals, budget>>

StatusSteps == {"status_busy", "status_mapped", "status_source"}
UnsealSteps == {"unseal_attach", "unseal_open", "unseal_abort", "unseal_source",
                "unseal_holders", "unseal_umount", "unseal_mount"}
BackSteps   == {"back_umount", "back_chattr", "back_close", "back_detach"}
SealSteps   == {"seal_source", "seal_wait", "seal_umount", "seal_chattr",
                "seal_close", "seal_detach"}
Critical    == UnsealSteps \cup BackSteps \cup SealSteps
Steps       == {"idle", "lookup", "ensure", "lock"} \cup StatusSteps \cup Critical

Requests == {"status", "unseal", "seal"}
Ops      == Requests \cup {"none", "reconcile", "heal"}
Classes  == {"sealed", "unsealed", "degraded"}
Answers  == Classes \cup {"none", "unsealing", "ok", "error"}

TypeOK ==
  /\ loop \in {"detached", "attached", "autoclear"}
  /\ mapper \in {"inactive", "active"}
  /\ mnt \in {"none", "real", "foreign"}
  /\ stub \in {"absent", "bare", "immutable"}
  /\ holders \subseteq Holders
  /\ registry \in {"empty", "known"}
  /\ hmu \in Procs \cup {NoProc}
  /\ mu \in Procs \cup {NoProc}
  /\ pc \in [Procs -> Steps]
  /\ op \in [Procs -> Ops]
  /\ seen \subseteq Procs
  /\ errs \subseteq Procs
  /\ res \in [Procs -> Answers]
  /\ faults \in 0..MaxFaults
  /\ crashes \in 0..MaxCrashes

(***************************************************************************)
(* A freshly booted host: nothing attached, mapped or mounted.  The stub    *)
(* may be missing (an image copied in by hand), bare or immutable.          *)
(***************************************************************************)
BootPc  == [p \in Procs |-> IF p = Main THEN "lookup" ELSE "idle"]
BootOp  == [p \in Procs |-> IF p = Main THEN "reconcile" ELSE "none"]
NoRes   == [p \in Procs |-> "none"]

Init ==
  /\ loop = "detached" /\ mapper = "inactive" /\ mnt = "none" /\ holders = {}
  /\ stub \in {"absent", "bare", "immutable"}
  /\ registry = "empty" /\ hmu = NoProc /\ mu = NoProc
  /\ pc = BootPc /\ op = BootOp
  /\ seen = {} /\ errs = {} /\ res = NoRes
  /\ faults = 0 /\ crashes = 0

-----------------------------------------------------------------------------
(***************************************************************************)
(* Commands.  Run returns an error when the command fails, and also when    *)
(* it is killed after its timeout; a killed command may have done its work. *)
(***************************************************************************)
Results  == {"done", "failed", "late"}
TakesEffect(r) == r \in {"done", "late"}

Charge(r) ==
  IF r = "done" THEN UNCHANGED budget
  ELSE /\ faults < MaxFaults
       /\ faults' = faults + 1
       /\ UNCHANGED crashes

(* cryptsetup and the mount table, as the four-way classification of Status *)
ClassNoDefaultMutant(active, source) ==
  IF ~active THEN "sealed" ELSE IF source = "real" THEN "unsealed" ELSE source
ClassByMapperMutant(active, source) == IF active THEN "unsealed" ELSE "sealed"
Class(active, source) ==
  IF ~active /\ source = "none" THEN "sealed"
  ELSE IF active /\ source = "real" THEN "unsealed"
  ELSE "degraded"

(* losetup --detach of a device in use succeeds and is carried out when the *)
(* last user closes it; losetup --find --show attaches.                     *)
Mapped == mapper = "active"
Held   == holders # {}
LoopAfterDetachMutant == loop
LoopAfterDetach == IF Mapped THEN "autoclear" ELSE "detached"
LoopAfterClose  == IF loop = "autoclear" THEN "detached" ELSE loop

(* umount and luksClose are refused by the kernel while in use *)
CanUnmount == ~Held
CanClose   == mnt # "real"

(* Control of a process, its locks untouched *)
Goto(p, step) ==
  /\ pc' = [pc EXCEPT ![p] = step]
  /\ UNCHANGED <<locks, op, seen, errs, res>>

(* An operation answers.  The startup pass goes on: a degraded vault is     *)
(* sealed, and classified again after that.                                 *)
Answer(p, a, next) ==
  /\ res' = [res EXCEPT ![p] = a]
  /\ pc' = [pc EXCEPT ![p] = next]

Mark(set, p, is) == IF is THEN set \cup {p} ELSE set \ {p}

(* The deferred busy.Store(false) and mu.Unlock() of Unseal and Seal *)
FinishMutant(p, a, e) ==
  /\ mu' = IF a = "error" THEN mu ELSE NoProc
  /\ Answer(p, a, IF op[p] = "heal" THEN "status_busy" ELSE "idle")
  /\ errs' = Mark(errs, p, e)
  /\ UNCHANGED <<registry, hmu, op, seen>>
Finish(p, a, e) ==
  /\ mu' = NoProc
  /\ Answer(p, a, IF op[p] = "heal" THEN "status_busy" ELSE "idle")
  /\ errs' = Mark(errs, p, e)
  /\ UNCHANGED <<registry, hmu, op, seen>>

-----------------------------------------------------------------------------
(***************************************************************************)
(* Requests and the registry.  The socket is served once the startup pass   *)
(* has ended.                                                              *)
(***************************************************************************)
Serving == pc[Main] = "idle"

Request(p, o) ==
  /\ Serving /\ p \in Workers /\ pc[p] = "idle"
  /\ pc' = [pc EXCEPT ![p] = "lookup"]
  /\ op' = [op EXCEPT ![p] = o]
  /\ res' = [res EXCEPT ![p] = "none"]
  /\ UNCHANGED <<device, locks, seen, errs, budget>>

AfterLookup(p) == IF op[p] \in {"status", "reconcile"} THEN "status_busy" ELSE "lock"

(* getOrCreateVault finds the vault, or starts to create it under h.mu *)
Lookup(p) ==
  /\ pc[p] = "lookup" /\ hmu = NoProc
  /\ IF registry = "known"
       THEN Goto(p, AfterLookup(p)) /\ UNCHANGED <<device, budget>>
       ELSE /\ hmu' = p
            /\ stub' = IF stub = "absent" THEN "bare" ELSE stub
            /\ pc' = [pc EXCEPT ![p] = "ensure"]
            /\ UNCHANGED <<loop, mapper, mnt, holders, registry, mu,
                           op, seen, errs, res, budget>>

(* EnsureSealed: the stub is made immutable unless something is mounted;    *)
(* the vault is registered only if that succeeded.                          *)
EnsureOkMutant(r) == TRUE
EnsureOk(r) == r = "done"

Ensure(p) ==
  /\ pc[p] = "ensure"
  /\ hmu' = NoProc
  /\ \E r \in Results :
       /\ Charge(r)
       /\ stub' = IF mnt = "none" /\ TakesEffect(r) THEN "immutable" ELSE stub
       /\ IF EnsureOk(r)
            THEN /\ registry' = "known"
                 /\ pc' = [pc EXCEPT ![p] = AfterLookup(p)]
                 /\ UNCHANGED res
            ELSE Answer(p, "error", "idle") /\ UNCHANGED registry
  /\ UNCHANGED <<loop, mapper, mnt, holders, mu, op, seen, errs>>

-----------------------------------------------------------------------------
(***************************************************************************)
(* Status: three reads, none of them under the vault's mutex.  The busy     *)
(* flag is set next after locking and cleared next before unlocking, so it  *)
(* is read off the mutex.                                                   *)
(***************************************************************************)
Busy == mu # NoProc

StatusBusy(p) ==
  /\ pc[p] = "status_busy"
  /\ IF Busy THEN Answer(p, "unsealing", "idle")
             ELSE pc' = [pc EXCEPT ![p] = "status_mapped"] /\ UNCHANGED res
  /\ UNCHANGED <<device, locks, op, seen, errs, budget>>

StatusMapped(p) ==
  /\ pc[p] = "status_mapped"
  /\ \E r \in {"done", "failed"} :
       /\ Charge(r)
       /\ IF r = "done"
            THEN /\ seen' = Mark(seen, p, Mapped)
                 /\ pc' = [pc EXCEPT ![p] = "status_source"]
                 /\ UNCHANGED res
            ELSE Answer(p, "error", "idle") /\ UNCHANGED seen
  /\ UNCHANGED <<device, locks, op, errs>>

(* Reconcile looks at the answer of the startup pass: degraded is sealed *)
HealsMutant(p, info) == FALSE
Heals(p, info) == op[p] = "reconcile" /\ info = "degraded"

StatusSource(p) ==
  /\ pc[p] = "status_source"
  /\ \E r \in {"done", "failed"} :
       LET info == IF r = "done" THEN Class(p \in seen, mnt) ELSE "error"
       IN /\ Charge(r)
          /\ Answer(p, info, IF Heals(p, info) THEN "lock" ELSE "idle")
          /\ op' = IF Heals(p, info) THEN [op EXCEPT ![p] = "heal"] ELSE op
  /\ UNCHANGED <<device, locks, seen, errs>>

-----------------------------------------------------------------------------
(* v.mu.Lock() and busy.Store(true), at the head of Unseal and of Seal *)
LockMutant(p) ==
  /\ pc[p] = "lock"
  /\ mu' = p
  /\ pc' = [pc EXCEPT ![p] = IF op[p] = "unseal" THEN "unseal_attach" ELSE "seal_source"]
  /\ errs' = errs \ {p}
  /\ UNCHANGED <<device, registry, hmu, op, seen, res, budget>>
Lock(p) ==
  /\ pc[p] = "lock" /\ mu = NoProc
  /\ mu' = p
  /\ pc' = [pc EXCEPT ![p] = IF op[p] = "unseal" THEN "unseal_attach" ELSE "seal_source"]
  /\ errs' = errs \ {p}
  /\ UNCHANGED <<device, registry, hmu, op, seen, res, budget>>

-----------------------------------------------------------------------------
(***************************************************************************)
(* Unseal, under the vault's mutex.                                         *)
(***************************************************************************)

(* AttachLoop reuses a device the image is attached to *)
UnsealAttach(p) ==
  /\ pc[p] = "unseal_attach"
  /\ \E r \in Results :
       /\ Charge(r)
       /\ loop' = IF loop = "detached" /\ TakesEffect(r) THEN "attached" ELSE loop
       /\ IF r = "done" THEN Goto(p, "unseal_open") ELSE Finish(p, "error", FALSE)
  /\ UNCHANGED <<mapper, mnt, stub, holders>>

(* luks.Open takes an active mapper as it is, whatever the passphrase; a    *)
(* wrong passphrase opens nothing and is not a fault.                       *)
UnsealOpen(p) ==
  /\ pc[p] = "unseal_open"
  /\ \/ \E r \in Results :
            /\ Charge(r)
            /\ mapper' = IF TakesEffect(r) THEN "active" ELSE mapper
            /\ Goto(p, IF r = "done" THEN "unseal_source" ELSE "unseal_abort")
     \/ /\ ~Mapped
        /\ Goto(p, "unseal_abort")
        /\ UNCHANGED <<mapper, budget>>
  /\ UNCHANGED <<loop, mnt, stub, holders>>

(* After a failed Open only the loop device is given back, and an error     *)
(* from that is dropped.                                                    *)
UnsealAbort(p) ==
  /\ pc[p] = "unseal_abort"
  /\ \E r \in Results :
       /\ Charge(r)
       /\ loop' = IF TakesEffect(r) THEN LoopAfterDetach ELSE loop
  /\ Finish(p, "error", FALSE)
  /\ UNCHANGED <<mapper, mnt, stub, holders>>

UnsealSource(p) ==
  /\ pc[p] = "unseal_source"
  /\ \E r \in {"done", "failed"} :
       /\ Charge(r)
       /\ IF r = "failed" THEN Goto(p, "back_umount")
          ELSE IF mnt = "real" THEN Finish(p, "ok", FALSE)
          ELSE Goto(p, IF mnt = "none" THEN "unseal_mount" ELSE "unseal_holders")
  /\ UNCHANGED device

(* CheckHandles: a fuser that fails without output, or is not installed,    *)
(* counts as nobody holding the mount.                                      *)
UnsealHolders(p) ==
  /\ pc[p] = "unseal_holders"
  /\ \/ /\ Held => ~FuserInstalled
        /\ Goto(p, "unseal_umount") /\ UNCHANGED budget
     \/ /\ Held /\ FuserInstalled
        /\ Goto(p, "back_umount") /\ UNCHANGED budget
     \/ /\ Charge("failed")
        /\ \E next \in {"unseal_umount", "back_umount"} : Goto(p, next)
  /\ UNCHANGED device

(* umount, by whichever caller *)
Unmount(r) == mnt' = IF TakesEffect(r) /\ CanUnmount THEN "none" ELSE mnt
UnmountOk(r) == r = "done" /\ CanUnmount

UnsealUnmount(p) ==
  /\ pc[p] = "unseal_umount"
  /\ \E r \in Results :
       /\ Charge(r) /\ Unmount(r)
       /\ Goto(p, IF UnmountOk(r) THEN "unseal_mount" ELSE "back_umount")
  /\ UNCHANGED <<loop, mapper, stub, holders>>

UnsealMount(p) ==
  /\ pc[p] = "unseal_mount"
  /\ \E r \in Results :
       /\ Charge(r)
       /\ mnt' = IF TakesEffect(r) THEN "real" ELSE mnt
       /\ IF r = "done" THEN Finish(p, "ok", FALSE) ELSE Goto(p, "back_umount")
  /\ UNCHANGED <<loop, mapper, stub, holders>>

-----------------------------------------------------------------------------
(***************************************************************************)
(* rollbackToSealed: every step is tried, the errors are collected.         *)
(***************************************************************************)
NoteMutant(p, next, failed) ==
  /\ pc' = [pc EXCEPT ![p] = next] /\ UNCHANGED <<locks, op, seen, errs, res>>
Note(p, next, failed) ==
  /\ pc' = [pc EXCEPT ![p] = next]
  /\ errs' = IF failed THEN errs \cup {p} ELSE errs
  /\ UNCHANGED <<locks, op, seen, res>>

BackUnmount(p) ==
  /\ pc[p] = "back_umount"
  /\ \E r \in Results :
       /\ Charge(r)
       /\ Unmount(r)
       /\ Note(p, "back_chattr", r # "done" \/ (mnt # "none" /\ ~CanUnmount))
  /\ UNCHANGED <<loop, mapper, stub, holders>>

BackImmutable(p) ==
  /\ pc[p] = "back_chattr"
  /\ \E r \in Results :
       /\ Charge(r)
       /\ stub' = IF mnt = "none" /\ TakesEffect(r) THEN "immutable" ELSE stub
       /\ Note(p, "back_close", r # "done")
  /\ UNCHANGED <<loop, mapper, mnt, holders>>

(* luks.Close, by whichever caller: nothing to do if the mapper is inactive *)
Close(r) ==
  IF Mapped /\ TakesEffect(r) /\ CanClose
    THEN mapper' = "inactive" /\ loop' = LoopAfterClose
    ELSE UNCHANGED <<mapper, loop>>
CloseOkMutant(r) == TRUE
CloseOk(r) == r = "done" /\ (Mapped => CanClose)

BackClose(p) ==
  /\ pc[p] = "back_close"
  /\ \E r \in Results :
       Charge(r) /\ Close(r) /\ Note(p, "back_detach", ~CloseOk(r))
  /\ UNCHANGED <<mnt, stub, holders>>

(* losetup --detach, by whichever caller: an error if already detached *)
Detach(r) == loop' = IF loop # "detached" /\ TakesEffect(r) THEN LoopAfterDetach ELSE loop
DetachOk(r) == r = "done" /\ loop # "detached"

BackDetach(p) ==
  /\ pc[p] = "back_detach"
  /\ \E r \in Results :
       Charge(r) /\ Detach(r) /\ Finish(p, "error", p \in errs \/ ~DetachOk(r))
  /\ UNCHANGED <<mapper, mnt, stub, holders>>

-----------------------------------------------------------------------------
(***************************************************************************)
(* Seal, under the vault's mutex: the first error ends it.                  *)
(***************************************************************************)
GotoOrFail(p, ok, next) == IF ok THEN Goto(p, next) ELSE Finish(p, "error", TRUE)

(* A mount that is not the vault's own is refused *)
SealSource(p) ==
  /\ pc[p] = "seal_source"
  /\ \E r \in {"done", "failed"} :
       /\ Charge(r)
       /\ GotoOrFail(p, r = "done" /\ mnt # "foreign",
                     IF mnt = "real" THEN "seal_wait" ELSE "seal_chattr")
  /\ UNCHANGED device

(* WaitForNoHandles: polling leaves everything as it is, so the two ends of *)
(* the wait are the steps: nobody holds the mount, or the deadline passes.  *)
SealWait(p) ==
  /\ pc[p] = "seal_wait"
  /\ \/ /\ Held => ~FuserInstalled
        /\ Goto(p, "seal_umount") /\ UNCHANGED budget
     \/ /\ Held /\ FuserInstalled
        /\ Finish(p, "error", TRUE) /\ UNCHANGED budget
     \/ /\ Charge("failed")
        /\ \E ok \in BOOLEAN : GotoOrFail(p, ok, "seal_umount")
  /\ UNCHANGED device

SealUnmount(p) ==
  /\ pc[p] = "seal_umount"
  /\ \E r \in Results :
       Charge(r) /\ Unmount(r) /\ GotoOrFail(p, UnmountOk(r), "seal_chattr")
  /\ UNCHANGED <<loop, mapper, stub, holders>>

SealImmutable(p) ==
  /\ pc[p] = "seal_chattr"
  /\ \E r \in Results :
       /\ Charge(r)
       /\ stub' = IF TakesEffect(r) THEN "immutable" ELSE stub
       /\ GotoOrFail(p, r = "done", "seal_close")
  /\ UNCHANGED <<loop, mapper, mnt, holders>>

SealClose(p) ==
  /\ pc[p] = "seal_close"
  /\ \E r \in Results :
       Charge(r) /\ Close(r) /\ GotoOrFail(p, CloseOk(r), "seal_detach")
  /\ UNCHANGED <<mnt, stub, holders>>

(* FindLoopDevice, then DetachLoop if the image is still attached *)
SealDetach(p) ==
  /\ pc[p] = "seal_detach"
  /\ \E r \in Results :
       /\ Charge(r) /\ Detach(r)
       /\ Finish(p, IF r = "done" THEN "ok" ELSE "error", r # "done")
  /\ UNCHANGED <<mapper, mnt, stub, holders>>

-----------------------------------------------------------------------------
(***************************************************************************)
(* What happens around the agent.                                           *)
(***************************************************************************)
Opened(h) ==
  /\ mnt # "none" /\ h \notin holders /\ holders' = holders \cup {h}
  /\ UNCHANGED <<loop, mapper, mnt, stub, locks, locals, budget>>

Released(h) ==
  /\ h \in holders /\ holders' = holders \ {h}
  /\ UNCHANGED <<loop, mapper, mnt, stub, locks, locals, budget>>

(* Somebody mounts or unmounts by hand, never during the second or so an    *)
(* operation of the agent takes.                                            *)
Quiet == mu = NoProc /\ hmu = NoProc

MountedByHand ==
  /\ Operator /\ Quiet /\ mnt = "none" /\ stub # "absent"
  /\ mnt' = "foreign"
  /\ UNCHANGED <<loop, mapper, stub, holders, locks, locals, budget>>

UnmountedByHand ==
  /\ Operator /\ Quiet /\ mnt # "none" /\ CanUnmount
  /\ mnt' = "none"
  /\ UNCHANGED <<loop, mapper, stub, holders, locks, locals, budget>>

(* The agent's process ends, by a crash or by SIGTERM, which does not wait  *)
(* for the handlers; the next one starts with an empty registry.            *)
Restarted ==
  /\ crashes < MaxCrashes /\ crashes' = crashes + 1 /\ faults' = 0
  /\ registry' = "empty" /\ hmu' = NoProc /\ mu' = NoProc
  /\ pc' = BootPc /\ op' = BootOp
  /\ seen' = {} /\ errs' = {} /\ res' = NoRes

Crash == Restarted /\ UNCHANGED device

(* The kernel's state is gone; the file system keeps the stub and its flag *)
Reboot ==
  /\ Restarted
  /\ loop' = "detached" /\ mapper' = "inactive" /\ mnt' = "none" /\ holders' = {}
  /\ UNCHANGED stub

-----------------------------------------------------------------------------
UnsealStep(p) ==
  \/ UnsealAttach(p) \/ UnsealOpen(p) \/ UnsealAbort(p) \/ UnsealSource(p)
  \/ UnsealHolders(p) \/ UnsealUnmount(p) \/ UnsealMount(p)
BackStep(p) == BackUnmount(p) \/ BackImmutable(p) \/ BackClose(p) \/ BackDetach(p)
SealStep(p) ==
  \/ SealSource(p) \/ SealWait(p) \/ SealUnmount(p)
  \/ SealImmutable(p) \/ SealClose(p) \/ SealDetach(p)
StatusStep(p) == StatusBusy(p) \/ StatusMapped(p) \/ StatusSource(p)

(* What a goroutine does once it runs an operation *)
Step(p) ==
  \/ Lookup(p) \/ Ensure(p) \/ StatusStep(p)
  \/ Lock(p) \/ UnsealStep(p) \/ BackStep(p) \/ SealStep(p)

Environment ==
  \/ \E h \in Holders : Opened(h) \/ Released(h)
  \/ MountedByHand \/ UnmountedByHand \/ Crash \/ Reboot

Next ==
  \/ \E p \in Procs : Step(p) \/ \E o \in Requests : Request(p, o)
  \/ Environment

Spec == Init /\ [][Next]_vars

(***************************************************************************)
(* Every started operation goes on: each command ends (Run bounds it), and  *)
(* a Go mutex in starvation mode is handed to whoever has waited longest.   *)
(***************************************************************************)
Fairness == \A p \in Procs : WF_vars(Step(p)) /\ SF_vars(Lock(p)) /\ SF_vars(Lookup(p))

FairSpec == Spec /\ Fairness
=============================================================================

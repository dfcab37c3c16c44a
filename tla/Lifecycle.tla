----------------------------- MODULE Lifecycle ------------------------------
(***************************************************************************)
(* The life of one vault id in the agent: the handlers of create, destroy,  *)
(* unseal and seal (agent_handler.go), the provisioning they call           *)
(* (provision.go), and the registry of Vault objects.                       *)
(*                                                                         *)
(* Module Vault looks inside one Vault object, whose mutex orders Unseal    *)
(* and Seal.  Here that object is one of several: create and destroy take   *)
(* no vault mutex, destroy forgets the object, and the next reference makes *)
(* a new one with a mutex of its own.  An image is named by its inode, so   *)
(* that a file made anew at the same path is a different image; loop        *)
(* devices are named by the kernel and reused.                              *)
(*                                                                         *)
(* A definition named ...Mutant is the one below it with a plausible        *)
(* mistake; nothing uses it but the checks that the properties notice it.   *)
(***************************************************************************)
EXTENDS Naturals, FiniteSets, FiniteSetsExt

CONSTANTS
  Workers, Main, NoProc,
  Requests,       \* the verbs that are sent: a subset of Verbs
  NumImages,      \* bound on images alive at a time (an inode may be reused)
  NumLoops,       \* bound on loop devices in use at a time
  MaxFaults,      \* bound on failing commands
  MaxCrashes      \* bound on crashes of the agent

Verbs  == {"create", "destroy", "unseal", "seal"}
Procs  == Workers \cup {Main}
Images == 1..NumImages
Loops  == 1..NumLoops
Objs   == 1..Cardinality(Procs) + 1

ASSUME LifecycleAssumption ==
  /\ Main \notin Workers /\ NoProc \notin Procs /\ IsFiniteSet(Workers)
  /\ Requests \subseteq Verbs
  /\ NumImages \in Nat \ {0} /\ NumLoops \in Nat /\ MaxFaults \in Nat /\ MaxCrashes \in Nat

VARIABLES
  image,     \* the image at the vault's path, 0 if there is none
  content,   \* what is on each image
  backing,   \* the image behind each loop device, 0 if it is free
  lazy,      \* loop devices that are freed when their mapper is closed
  mapper,    \* the loop device under the vault's mapper name, 0 if inactive
  mnt,       \* the image whose file system is mounted, 0 if none
  stub,      \* the directory under the mount
  reg,       \* the registered Vault object, 0 if none
  hmu,       \* owner of the registry's mutex
  muOf,      \* owner of each Vault object's mutex
  pc, op,    \* each process's next step and verb
  lp,        \* the loop path it works with
  obj,       \* the Vault object it works with
  made,      \* the image its create made
  res,       \* its last answer
  faults, crashes

disk   == <<image, content>>
kernel == <<backing, lazy, mapper, mnt>>
objs   == <<reg, hmu, muOf>>
locals == <<pc, op, lp, obj, made, res>>
vars   == <<disk, kernel, stub, objs, locals, faults, crashes>>

Formatting == {"c_file", "c_find", "c_attach", "c_format", "c_open", "c_mkfs",
               "c_close", "c_detach", "c_undo_close", "c_undo_detach", "c_undo_remove"}
Destroying == {"d_mapped", "d_mounted", "d_find", "d_detach", "d_remove",
               "d_chattr", "d_rmdir", "d_forget"}
Unsealing  == {"u_find", "u_attach", "u_open", "u_abort", "u_source", "u_mount",
               "b_umount", "b_chattr", "b_close", "b_detach"}
Sealing    == {"s_source", "s_umount", "s_chattr", "s_close", "s_find", "s_detach"}
Critical   == Unsealing \cup Sealing
Registry   == {"get", "ensure", "status", "lock"}
Steps      == {"idle", "exists"} \cup Registry \cup Formatting \cup Destroying \cup Critical

(* The steps whose command or rollback is given the loop path *)
LoopSteps  == {"c_format", "c_open", "c_mkfs", "c_close", "c_detach", "c_undo_close",
               "c_undo_detach", "d_detach", "s_detach"}
              \cup (Unsealing \ {"u_find", "u_attach"})

(* FindLoopDevice answers "" for an image that is not attached, and no      *)
(* command is ever run on that.                                             *)
LoopGiven == \A p \in Procs : pc[p] \in LoopSteps => lp[p] # 0

TypeOK ==
  /\ image \in Images \cup {0}
  /\ content \in [Images -> {"empty", "luks", "ready", "wiped"}]
  /\ backing \in [Loops -> Images \cup {0}]
  /\ lazy \subseteq Loops
  /\ mapper \in Loops \cup {0}
  /\ mnt \in Images \cup {0}
  /\ stub \in {"absent", "bare", "immutable"}
  /\ reg \in Objs \cup {0}
  /\ hmu \in Procs \cup {NoProc}
  /\ muOf \in [Objs -> Procs \cup {NoProc}]
  /\ pc \in [Procs -> Steps]
  /\ op \in [Procs -> Verbs \cup {"none", "reconcile"}]
  /\ lp \in [Procs -> Loops \cup {0}] /\ LoopGiven
  /\ obj \in [Procs -> Objs \cup {0}]
  /\ made \in [Procs -> Images \cup {0}]
  /\ res \in [Procs -> {"none", "ok", "error"}]
  /\ faults \in 0..MaxFaults
  /\ crashes \in 0..MaxCrashes

(* ReconcileAll looks at the ids with an image, before requests are served *)
StartPc(img) == [p \in Procs |-> IF p = Main /\ img # 0 THEN "get" ELSE "idle"]
StartOp == [p \in Procs |-> IF p = Main THEN "reconcile" ELSE "none"]
Zero    == [p \in Procs |-> 0]
NoRes   == [p \in Procs |-> "none"]

(* No vault at all, or one that was made and sealed before the host booted *)
Init ==
  /\ image \in {0, 1}
  /\ content = [g \in Images |-> IF g = image THEN "ready" ELSE "empty"]
  /\ backing = [d \in Loops |-> 0] /\ lazy = {} /\ mapper = 0 /\ mnt = 0
  /\ stub = IF image = 0 THEN "absent" ELSE "immutable"
  /\ reg = 0 /\ hmu = NoProc /\ muOf = [o \in Objs |-> NoProc]
  /\ pc = StartPc(image) /\ op = StartOp
  /\ lp = Zero /\ obj = Zero /\ made = Zero /\ res = NoRes
  /\ faults = 0 /\ crashes = 0

-----------------------------------------------------------------------------
Goto(p, step) == pc' = [pc EXCEPT ![p] = step] /\ UNCHANGED <<op, lp, obj, made, res>>

With(p, step, d) ==
  /\ pc' = [pc EXCEPT ![p] = step] /\ lp' = [lp EXCEPT ![p] = d]
  /\ UNCHANGED <<op, obj, made, res>>

Reply(p, answer) ==
  /\ pc' = [pc EXCEPT ![p] = "idle"] /\ res' = [res EXCEPT ![p] = answer]
  /\ lp' = [lp EXCEPT ![p] = 0] /\ obj' = [obj EXCEPT ![p] = 0]
  /\ made' = [made EXCEPT ![p] = 0] /\ UNCHANGED op

(* A return of Unseal or Seal, with its deferred unlock *)
Finish(p, answer) ==
  /\ Reply(p, answer)
  /\ muOf' = [muOf EXCEPT ![obj[p]] = NoProc] /\ UNCHANGED <<reg, hmu>>

NoFault == UNCHANGED <<faults, crashes>>
Fault   == faults < MaxFaults /\ faults' = faults + 1 /\ UNCHANGED crashes

(* One system call: it takes effect if the kernel lets it, and may fail     *)
(* anyway.  A command may also be killed by its timeout after it has.       *)
Syscall(possible, Effect, Rest, OnOk, OnFail) ==
  \/ possible /\ NoFault /\ Effect /\ OnOk
  \/ ~possible /\ NoFault /\ Rest /\ OnFail
  \/ Fault /\ Rest /\ OnFail

Attempt(possible, Effect, Rest, OnOk, OnFail) ==
  \/ Syscall(possible, Effect, Rest, OnOk, OnFail)
  \/ possible /\ Fault /\ Effect /\ OnFail

(* The commands.  losetup --detach of a mapped device is lazy. *)
Attached == {d \in Loops : image # 0 /\ backing[d] = image}
Free     == {d \in Loops : backing[d] = 0}

Detach(d) ==
  IF mapper = d THEN lazy' = lazy \cup {d} /\ UNCHANGED backing
                ELSE backing' = [backing EXCEPT ![d] = 0] /\ UNCHANGED lazy
CanDetach(d) == d # 0 /\ backing[d] # 0

HasLuks(g) == content[g] # "empty"
HasFs(g)   == content[g] \in {"ready", "wiped"}

(* luks.Open takes a mapper that is active on the same device as it is *)
CanOpen(d) == mapper = d \/ (mapper = 0 /\ CanDetach(d) /\ HasLuks(backing[d]))

Close ==
  /\ mapper' = 0 /\ lazy' = lazy \ {mapper}
  /\ backing' = [d \in Loops |-> IF d = mapper /\ d \in lazy THEN 0 ELSE backing[d]]
CanClose == mnt = 0

(* FindLoopDevice refuses to guess between two *)
Find(p, here, found, absent, OnErr) ==
  /\ pc[p] = here
  /\ \/ Cardinality(Attached) = 1 /\ NoFault
        /\ \E d \in Attached : With(p, found, d) /\ UNCHANGED objs
     \/ Attached = {} /\ NoFault /\ absent
     \/ Cardinality(Attached) > 1 /\ NoFault /\ OnErr
     \/ Fault /\ OnErr
  /\ UNCHANGED <<disk, kernel, stub>>

(* losetup --find takes the first free device *)
Attach(p, next, OnErr) ==
  Attempt(image # 0 /\ Free # {},
          backing' = [backing EXCEPT ![Min(Free)] = image], UNCHANGED backing,
          With(p, next, Min(Free)) /\ UNCHANGED objs, OnErr)

-----------------------------------------------------------------------------
(* Requests are served once the startup pass has ended *)
Serving == pc[Main] = "idle"

Request(p, verb) ==
  /\ Serving /\ p \in Workers /\ pc[p] = "idle"
  /\ pc' = [pc EXCEPT ![p] = "exists"]
  /\ op' = [op EXCEPT ![p] = verb] /\ res' = [res EXCEPT ![p] = "none"]
  /\ UNCHANGED <<disk, kernel, stub, objs, lp, obj, made, faults, crashes>>

(* vaultExists, at the head of each handler *)
Exists(p) ==
  /\ pc[p] = "exists"
  /\ IF (op[p] = "create") = (image # 0) THEN Reply(p, "error")
     ELSE Goto(p, CASE op[p] = "create"  -> "c_file"
                    [] op[p] = "destroy" -> "d_mapped"
                    [] OTHER             -> "get")
  /\ UNCHANGED <<disk, kernel, stub, objs, faults, crashes>>

(* What follows getOrCreateVault *)
GotVault(p, o) ==
  IF op[p] = "create" THEN Reply(p, "ok")
  ELSE /\ pc' = [pc EXCEPT ![p] = IF p = Main THEN "status" ELSE "lock"]
       /\ obj' = [obj EXCEPT ![p] = o]
       /\ UNCHANGED <<op, lp, made, res>>

(* getOrCreateVault: the registered object, or a new one, whose creation    *)
(* goes on under h.mu with EnsureSealed.                                    *)
Get(p) ==
  /\ pc[p] = "get" /\ hmu = NoProc
  /\ IF reg # 0 THEN GotVault(p, reg) /\ UNCHANGED <<stub, objs>>
     ELSE /\ hmu' = p /\ Goto(p, "ensure") /\ UNCHANGED <<reg, muOf>>
          /\ stub' = IF stub = "absent" THEN "bare" ELSE stub
  /\ UNCHANGED <<disk, kernel, faults, crashes>>

(* An object nobody refers to any more is garbage *)
NewObj == Min(Objs \ ({reg} \cup {obj[q] : q \in Procs}))

Ensure(p) ==
  /\ pc[p] = "ensure" /\ hmu' = NoProc /\ UNCHANGED muOf
  /\ Attempt(TRUE, stub' = IF mnt = 0 THEN "immutable" ELSE stub, UNCHANGED stub,
             reg' = NewObj /\ GotVault(p, NewObj),
             UNCHANGED reg /\ Reply(p, "error"))
  /\ UNCHANGED <<disk, kernel>>

(* Reconcile: Main is alone, so the reads of Status are one; an error of    *)
(* one leaves the vault as it is.  What Status says after the Seal is only  *)
(* logged.                                                                  *)
StatusMutant(p) ==
  /\ pc[p] = "status"
  /\ \/ NoFault /\ Reply(p, "ok")
     \/ Fault /\ Reply(p, "error")
  /\ UNCHANGED <<disk, kernel, stub, objs>>

Status(p) ==
  /\ pc[p] = "status"
  /\ \/ NoFault /\ (mapper = 0) # (mnt = 0) /\ Goto(p, "lock")
     \/ NoFault /\ (mapper = 0) = (mnt = 0) /\ Reply(p, "ok")
     \/ Fault /\ Reply(p, "error")
  /\ UNCHANGED <<disk, kernel, stub, objs>>

LockMutant(p) ==
  /\ pc[p] = "lock"
  /\ muOf' = [muOf EXCEPT ![obj[p]] = p] /\ UNCHANGED <<reg, hmu>>
  /\ Goto(p, IF op[p] = "unseal" THEN "u_find" ELSE "s_source")
  /\ UNCHANGED <<disk, kernel, stub, faults, crashes>>

Lock(p) ==
  /\ pc[p] = "lock" /\ muOf[obj[p]] = NoProc
  /\ muOf' = [muOf EXCEPT ![obj[p]] = p] /\ UNCHANGED <<reg, hmu>>
  /\ Goto(p, IF op[p] = "unseal" THEN "u_find" ELSE "s_source")
  /\ UNCHANGED <<disk, kernel, stub, faults, crashes>>

-----------------------------------------------------------------------------
(***************************************************************************)
(* CreateVault: no vault mutex.  A failure undoes what it can, whatever the *)
(* undoing commands answer, and removes the file at the image's path.       *)
(***************************************************************************)
Continue(p, step) == Goto(p, step) /\ UNCHANGED objs

Spare ==
  Images \ ({image, mnt} \cup {backing[d] : d \in Loops} \cup {made[q] : q \in Procs})
NewImage == Min(Spare)

(* Sizes, passphrases and disk space CreateVault refuses before it begins *)
CreateRefused(p) ==
  /\ pc[p] = "c_file" /\ Reply(p, "error")
  /\ UNCHANGED <<disk, kernel, stub, objs, faults, crashes>>

(* createSparseFile: O_EXCL; a failed Truncate leaves the file behind *)
CreateFileMutant(p) ==
  LET file == IF image # 0 THEN image ELSE NewImage
  IN /\ pc[p] = "c_file" /\ NoFault
     /\ image' = file /\ content' = [content EXCEPT ![file] = "empty"]
     /\ pc' = [pc EXCEPT ![p] = "c_find"] /\ made' = [made EXCEPT ![p] = file]
     /\ UNCHANGED <<kernel, stub, objs, op, lp, obj, res>>

CreateFile(p) ==
  /\ pc[p] = "c_file"
  /\ IF image # 0 THEN Reply(p, "error") /\ NoFault /\ UNCHANGED disk
     ELSE /\ Spare # {} /\ image' = NewImage
          /\ content' = [content EXCEPT ![NewImage] = "empty"]
          /\ \/ /\ NoFault /\ pc' = [pc EXCEPT ![p] = "c_find"]
                /\ made' = [made EXCEPT ![p] = NewImage]
                /\ UNCHANGED <<op, lp, obj, res>>
             \/ Fault /\ Reply(p, "error")
  /\ UNCHANGED <<kernel, stub, objs>>

CreateFind(p) ==
  Find(p, "c_find", "c_format", Continue(p, "c_attach"), Continue(p, "c_undo_remove"))

CreateAttach(p) ==
  /\ pc[p] = "c_attach"
  /\ Attach(p, "c_format", Continue(p, "c_undo_remove"))
  /\ UNCHANGED <<disk, lazy, mapper, mnt, stub>>

(* luksFormat and luksOpen, of whatever is behind the loop path by now *)
CreateFormat(p) ==
  /\ pc[p] = "c_format"
  /\ Attempt(CanDetach(lp[p]) /\ mapper # lp[p],
             content' = [content EXCEPT ![backing[lp[p]]] = "luks"], UNCHANGED content,
             Goto(p, "c_open"), Goto(p, "c_undo_detach"))
  /\ UNCHANGED <<image, kernel, stub, objs>>

CreateOpen(p) ==
  /\ pc[p] = "c_open"
  /\ Attempt(CanOpen(lp[p]), mapper' = lp[p], UNCHANGED mapper,
             Goto(p, "c_mkfs"), Goto(p, "c_undo_detach"))
  /\ UNCHANGED <<disk, backing, lazy, mnt, stub, objs>>

CreateMkfs(p) ==
  /\ pc[p] = "c_mkfs"
  /\ Attempt(mapper # 0 /\ mnt = 0,
             content' = [content EXCEPT ![backing[mapper]] = "ready"], UNCHANGED content,
             Goto(p, "c_close"), Goto(p, "c_undo_close"))
  /\ UNCHANGED <<image, kernel, stub, objs>>

CloseMapper(p, here, OnOk, OnFail) ==
  /\ pc[p] = here
  /\ Attempt(CanClose, Close, UNCHANGED <<mapper, lazy, backing>>, OnOk, OnFail)
  /\ UNCHANGED <<disk, mnt, stub>>

DetachLoop(p, here, OnOk, OnFail) ==
  /\ pc[p] = here
  /\ Attempt(CanDetach(lp[p]), Detach(lp[p]), UNCHANGED <<backing, lazy>>, OnOk, OnFail)
  /\ UNCHANGED <<disk, mapper, mnt, stub>>

CreateClose(p) ==
  CloseMapper(p, "c_close", Continue(p, "c_detach"), Continue(p, "c_undo_detach"))
CreateDetach(p) ==
  DetachLoop(p, "c_detach", Continue(p, "get"), Continue(p, "c_undo_remove"))
UndoClose(p) ==
  CloseMapper(p, "c_undo_close", Continue(p, "c_undo_detach"), Continue(p, "c_undo_detach"))
UndoDetach(p) ==
  DetachLoop(p, "c_undo_detach", Continue(p, "c_undo_remove"), Continue(p, "c_undo_remove"))

UndoRemove(p) ==
  /\ pc[p] = "c_undo_remove" /\ Reply(p, "error")
  /\ Syscall(TRUE, image' = 0, UNCHANGED image, TRUE, TRUE)
  /\ UNCHANGED <<content, kernel, stub, objs>>

CreateStep(p) ==
  \/ CreateRefused(p) \/ CreateFile(p) \/ CreateFind(p) \/ CreateAttach(p) \/ CreateFormat(p)
  \/ CreateOpen(p) \/ CreateMkfs(p) \/ CreateClose(p) \/ CreateDetach(p)
  \/ UndoClose(p) \/ UndoDetach(p) \/ UndoRemove(p)

-----------------------------------------------------------------------------
(***************************************************************************)
(* DestroyVault and forgetVault: no vault mutex either.                     *)
(***************************************************************************)
Refuse(p, here, refused, next) ==
  /\ pc[p] = here
  /\ \/ ~refused /\ NoFault /\ Goto(p, next)
     \/ refused /\ NoFault /\ Reply(p, "error")
     \/ Fault /\ Reply(p, "error")
  /\ UNCHANGED <<disk, kernel, stub, objs>>

DestroyMappedMutant(p) == Refuse(p, "d_mapped", mapper # 0 \/ Attached # {}, "d_mounted")
DestroyMapped(p)  == Refuse(p, "d_mapped", mapper # 0, "d_mounted")
DestroyMounted(p) == Refuse(p, "d_mounted", mnt # 0, "d_find")
DestroyFindMutant(p) ==
  Find(p, "d_find", "d_remove", Continue(p, "d_remove"), Reply(p, "error") /\ UNCHANGED objs)
DestroyFind(p) ==
  Find(p, "d_find", "d_detach", Continue(p, "d_remove"), Reply(p, "error") /\ UNCHANGED objs)

DestroyDetach(p) ==
  DetachLoop(p, "d_detach", Continue(p, "d_remove"), Reply(p, "error") /\ UNCHANGED objs)

DestroyRemove(p) ==
  /\ pc[p] = "d_remove"
  /\ Syscall(TRUE, image' = 0, UNCHANGED image, Goto(p, "d_chattr"), Reply(p, "error"))
  /\ UNCHANGED <<content, kernel, stub, objs>>

(* RemoveImmutable; chattr reaches the stub only while nothing is mounted *)
DestroyChattr(p) ==
  /\ pc[p] = "d_chattr"
  /\ IF stub = "absent" THEN Goto(p, "d_forget") /\ NoFault /\ UNCHANGED stub
     ELSE Attempt(TRUE, stub' = IF mnt = 0 THEN "bare" ELSE stub, UNCHANGED stub,
                  Goto(p, "d_rmdir"), Reply(p, "error"))
  /\ UNCHANGED <<disk, kernel, objs>>

(* os.RemoveAll empties whatever is mounted there before it finds that the  *)
(* directory itself is busy; an immutable directory stays.                  *)
DestroyRmdir(p) ==
  /\ pc[p] = "d_rmdir"
  /\ content' = IF mnt # 0 THEN [content EXCEPT ![mnt] = "wiped"] ELSE content
  /\ Syscall(mnt = 0 /\ stub # "immutable", stub' = "absent", UNCHANGED stub,
             Goto(p, "d_forget"), Reply(p, "error"))
  /\ UNCHANGED <<image, kernel, objs>>

DestroyForgetMutant(p) ==
  /\ pc[p] = "d_forget" /\ Reply(p, "ok")
  /\ UNCHANGED <<disk, kernel, stub, objs, faults, crashes>>

DestroyForget(p) ==
  /\ pc[p] = "d_forget" /\ hmu = NoProc
  /\ reg' = 0 /\ UNCHANGED <<hmu, muOf>>
  /\ Reply(p, "ok")
  /\ UNCHANGED <<disk, kernel, stub, faults, crashes>>

DestroyStep(p) ==
  \/ DestroyMapped(p) \/ DestroyMounted(p) \/ DestroyFind(p) \/ DestroyDetach(p)
  \/ DestroyRemove(p) \/ DestroyChattr(p) \/ DestroyRmdir(p) \/ DestroyForget(p)

-----------------------------------------------------------------------------
(***************************************************************************)
(* Unseal and Seal under the mutex of the process's own Vault object, as in *)
(* module Vault, on whatever the paths and the mapper name stand for now.   *)
(***************************************************************************)
UnsealFind(p) ==
  Find(p, "u_find", "u_open", Continue(p, "u_attach"), Finish(p, "error"))

UnsealAttach(p) ==
  /\ pc[p] = "u_attach"
  /\ Attach(p, "u_open", Finish(p, "error"))
  /\ UNCHANGED <<disk, lazy, mapper, mnt, stub>>

(* A wrong passphrase fails like a fault, and is none *)
UnsealOpen(p) ==
  /\ pc[p] = "u_open"
  /\ \/ Attempt(CanOpen(lp[p]), mapper' = lp[p], UNCHANGED mapper,
                Goto(p, "u_source"), Goto(p, "u_abort"))
     \/ mapper # lp[p] /\ NoFault /\ UNCHANGED mapper /\ Goto(p, "u_abort")
  /\ UNCHANGED <<disk, backing, lazy, mnt, stub, objs>>

UnsealAbort(p) == DetachLoop(p, "u_abort", Finish(p, "error"), Finish(p, "error"))

(* Only file systems on the vault's mapper name are mounted at its path *)
UnsealSource(p) ==
  /\ pc[p] = "u_source"
  /\ \/ NoFault /\ mnt # 0 /\ Finish(p, "ok")
     \/ NoFault /\ mnt = 0 /\ Continue(p, "u_mount")
     \/ Fault /\ Continue(p, "b_umount")
  /\ UNCHANGED <<disk, kernel, stub>>

UnsealMount(p) ==
  /\ pc[p] = "u_mount"
  /\ Attempt(mapper # 0 /\ mnt = 0 /\ stub # "absent" /\ HasFs(backing[mapper]),
             mnt' = backing[mapper], UNCHANGED mnt,
             Finish(p, "ok"), Continue(p, "b_umount"))
  /\ UNCHANGED <<disk, backing, lazy, mapper, stub>>

BackUnmount(p) ==
  /\ pc[p] = "b_umount"
  /\ Attempt(TRUE, mnt' = 0, UNCHANGED mnt, Goto(p, "b_chattr"), Goto(p, "b_chattr"))
  /\ UNCHANGED <<disk, backing, lazy, mapper, stub, objs>>

MakeImmutable == stub' = IF mnt = 0 THEN "immutable" ELSE stub

BackImmutable(p) ==
  /\ pc[p] = "b_chattr"
  /\ Attempt(TRUE, MakeImmutable, UNCHANGED stub, Goto(p, "b_close"), Goto(p, "b_close"))
  /\ UNCHANGED <<disk, kernel, objs>>

BackClose(p) ==
  CloseMapper(p, "b_close", Continue(p, "b_detach"), Continue(p, "b_detach"))
BackDetach(p) == DetachLoop(p, "b_detach", Finish(p, "error"), Finish(p, "error"))

UnsealStep(p) ==
  \/ UnsealFind(p) \/ UnsealAttach(p) \/ UnsealOpen(p) \/ UnsealAbort(p)
  \/ UnsealSource(p) \/ UnsealMount(p)
  \/ BackUnmount(p) \/ BackImmutable(p) \/ BackClose(p) \/ BackDetach(p)

SealSource(p) ==
  /\ pc[p] = "s_source"
  /\ \/ NoFault /\ Continue(p, IF mnt # 0 THEN "s_umount" ELSE "s_chattr")
     \/ Fault /\ Finish(p, "error")
  /\ UNCHANGED <<disk, kernel, stub>>

(* Open files make umount fail: here, one of the faults *)
SealUnmount(p) ==
  /\ pc[p] = "s_umount"
  /\ Attempt(mnt # 0, mnt' = 0, UNCHANGED mnt, Continue(p, "s_chattr"), Finish(p, "error"))
  /\ UNCHANGED <<disk, backing, lazy, mapper, stub>>

SealImmutable(p) ==
  /\ pc[p] = "s_chattr"
  /\ Attempt(TRUE, MakeImmutable, UNCHANGED stub, Continue(p, "s_close"), Finish(p, "error"))
  /\ UNCHANGED <<disk, kernel>>

SealCloseMutant(p) ==
  CloseMapper(p, "s_close", Finish(p, "ok"), Finish(p, "error"))
SealClose(p) ==
  CloseMapper(p, "s_close", Continue(p, "s_find"), Finish(p, "error"))
SealFindMutant(p) ==
  Find(p, "s_find", "s_detach", Continue(p, "s_detach"), Finish(p, "error"))
SealFind(p) ==
  Find(p, "s_find", "s_detach", Finish(p, "ok"), Finish(p, "error"))
SealDetach(p) == DetachLoop(p, "s_detach", Finish(p, "ok"), Finish(p, "error"))

SealStep(p) ==
  \/ SealSource(p) \/ SealUnmount(p) \/ SealImmutable(p)
  \/ SealClose(p) \/ SealFind(p) \/ SealDetach(p)

-----------------------------------------------------------------------------
(* The agent ends anywhere and starts again; the kernel keeps its state,    *)
(* unless the whole host boots                                              *)
Startup ==
  /\ crashes < MaxCrashes /\ crashes' = crashes + 1 /\ UNCHANGED faults
  /\ reg' = 0 /\ hmu' = NoProc /\ muOf' = [o \in Objs |-> NoProc]
  /\ pc' = StartPc(image) /\ op' = StartOp
  /\ lp' = Zero /\ obj' = Zero /\ made' = Zero /\ res' = NoRes
  /\ UNCHANGED <<disk, stub>>

Restart == Startup /\ UNCHANGED kernel

Reboot ==
  /\ Startup /\ mapper' = 0 /\ mnt' = 0
  /\ backing' = [d \in Loops |-> 0] /\ lazy' = {}

Step(p) ==
  \/ Exists(p) \/ Get(p) \/ Ensure(p) \/ Status(p) \/ Lock(p)
  \/ CreateStep(p) \/ DestroyStep(p) \/ UnsealStep(p) \/ SealStep(p)

Next ==
  \/ \E p \in Procs : Step(p) \/ \E verb \in Requests : Request(p, verb)
  \/ Restart \/ Reboot

Spec == Init /\ [][Next]_vars
=============================================================================

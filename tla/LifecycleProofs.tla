-------------------------- MODULE LifecycleProofs ---------------------------
(***************************************************************************)
(* The proofs about Lifecycle.                                              *)
(***************************************************************************)
EXTENDS LifecycleProps, FiniteSetTheorems, WellFoundedInduction, TLAPS

(* The least member, of which a finite set of numbers has one: it has a     *)
(* member whose smaller ones are least by inclusion.                        *)
LEMMA MinOfSet ==
  ASSUME NEW S \in SUBSET Nat, S # {}, IsFiniteSet(S)
  PROVE  Min(S) \in S
<1> DEFINE below == [x \in S |-> {y \in S : y < x}]
           belows == {below[x] : x \in S}
<1>1. IsWellFoundedOn(StrictSubsetOrdering(S), SUBSET S)
  BY FS_StrictSubsetOrderingWellFounded, FS_FiniteSubsetsOfFinite
<1>2. belows \subseteq SUBSET S /\ belows # {}
  OBVIOUS
<1>3. PICK B \in belows : \A C \in belows : ~(<<C, B>> \in StrictSubsetOrdering(S))
  <2> HIDE DEF belows
  <2> QED
    BY <1>1, <1>2, WFMin
<1>4. PICK x \in S : B = below[x]
  BY <1>3
<1>5. \A y \in S : x <= y
  <2> SUFFICES ASSUME NEW y \in S, y < x PROVE FALSE
    OBVIOUS
  <2>1. below[y] \in belows
    OBVIOUS
  <2>2. below[y] = {z \in S : z < y} /\ below[x] = {z \in S : z < x} /\ x \in S
    BY <1>4
  <2> HIDE DEF below, belows
  <2>3. \A z \in S : z \in Nat
    OBVIOUS
  <2>5. (\A z \in below[y] : z \in S /\ z < y) /\ (\A z \in below[x] : z \in S)
    BY <2>2
  <2>6. ASSUME NEW z \in below[y] PROVE z < x
    <3>1. z \in Nat /\ y \in Nat /\ x \in Nat /\ z < y
      BY <2>2, <2>3, <2>5
    <3> QED
      BY <3>1
  <2>7. y \in below[x] /\ y \notin below[y] /\ below[y] \subseteq below[x]
    BY <2>2, <2>3, <2>5, <2>6
  <2>8. below[y] \in SUBSET S /\ below[x] \in SUBSET S
    BY <2>5
  <2>4. <<below[y], below[x]>> \in StrictSubsetOrdering(S)
    BY <2>7, <2>8 DEF StrictSubsetOrdering
  <2> QED
    BY <1>3, <1>4, <2>1, <2>4
<1> QED
  BY <1>5 DEF Min

LEMMA ProcsFinite == IsFiniteSet(Procs) /\ Cardinality(Procs) \in Nat
BY LifecycleAssumption, FS_AddElement, FS_CardinalityType DEF Procs

(* There is an object that nobody refers to when the process that needs one *)
(* has none itself.                                                         *)
LEMMA NewObjIsNew ==
  ASSUME TypeOK, NEW p \in Procs, obj[p] = 0
  PROVE  NewObj \in Objs /\ NewObj # reg /\ \A q \in Procs : NewObj # obj[q]
<1> DEFINE used == {obj[q] : q \in Procs}
           g    == [q \in Procs |-> IF q = p THEN reg ELSE obj[q]]
           T    == {g[q] : q \in Procs}
           n    == Cardinality(Procs)
<1>1. n \in Nat /\ Objs = 1..n + 1
  BY ProcsFinite DEF Objs
<1>2. IsFiniteSet(T) /\ Cardinality(T) <= n /\ Cardinality(T) \in Nat
  <2>1. g \in Surjection(Procs, T)
    BY DEF Surjection
  <2> HIDE DEF g, T
  <2> QED
    BY <2>1, ProcsFinite, FS_Surjection, FS_CardinalityType
<1>3. IsFiniteSet(Objs) /\ Cardinality(Objs) = n + 1
  <2> HIDE DEF n
  <2>1. IsFiniteSet(1..n + 1) /\ Cardinality(1..n + 1) = IF 1 > n + 1 THEN 0 ELSE n + 1 - 1 + 1
    BY <1>1, FS_Interval, 1 \in Int, n + 1 \in Int
  <2> QED
    BY <1>1, <2>1
<1>4. ~(Objs \subseteq T)
  <2> SUFFICES ASSUME Objs \subseteq T PROVE FALSE
    OBVIOUS
  <2> HIDE DEF T, n
  <2>1. Cardinality(Objs) <= Cardinality(T)
    BY <1>2, FS_Subset
  <2> QED
    BY <1>1, <1>2, <1>3, <2>1
<1>5. {reg} \cup used \subseteq T \cup {0}
  OBVIOUS
<1> DEFINE S == Objs \ ({reg} \cup used)
<1>6. S # {} /\ IsFiniteSet(S) /\ S \in SUBSET Nat
  <2>1. 0 \notin Objs
    BY <1>1
  <2>2. S \in SUBSET Objs
    OBVIOUS
  <2>3. S # {} /\ Objs \subseteq Nat
    BY <1>1, <1>4, <1>5, <2>1
  <2> HIDE DEF S
  <2> QED
    BY <1>1, <1>3, <2>2, <2>3, FS_Subset
<1>7. NewObj \in S
  <2> HIDE DEF S
  <2>1. Min(S) \in S
    BY <1>6, MinOfSet
  <2> QED
    BY <2>1 DEF S, NewObj
<1> QED
  BY <1>7

LEMMA FreeIsFree ==
  ASSUME Free # {}
  PROVE  Min(Free) \in Loops /\ backing[Min(Free)] = 0
<1>1. IsFiniteSet(Loops) /\ Loops \subseteq Nat
  BY LifecycleAssumption, FS_Interval DEF Loops
<1>2. IsFiniteSet(Free) /\ Free \in SUBSET Nat
  BY <1>1, FS_Subset DEF Free
<1>3. Min(Free) \in Free
  BY <1>2, MinOfSet
<1> QED
  BY <1>3 DEF Free

LEMMA NewImageIsNew ==
  ASSUME Spare # {}
  PROVE  /\ NewImage \in Images /\ NewImage # 0 /\ NewImage # image /\ NewImage # mnt
         /\ \A d \in Loops : backing[d] # NewImage
<1>1. IsFiniteSet(Images) /\ Images \subseteq Nat \ {0}
  BY LifecycleAssumption, FS_Interval DEF Images
<1>2. IsFiniteSet(Spare) /\ Spare \in SUBSET Nat
  BY <1>1, FS_Subset DEF Spare
<1>3. NewImage \in Spare
  BY <1>2, MinOfSet DEF NewImage
<1> QED
  BY <1>1, <1>3 DEF Spare

-----------------------------------------------------------------------------
(* A step of p changes no other process, and never its verb *)
Moved(p) ==
  /\ pc' \in [Procs -> Steps] /\ op' = op
  /\ lp' \in [Procs -> Loops \cup {0}] /\ obj' \in [Procs -> Objs \cup {0}]
  /\ made' \in [Procs -> Images \cup {0}] /\ res' \in [Procs -> {"none", "ok", "error"}]
  /\ \A q \in Procs \ {p} :
       /\ pc'[q] = pc[q] /\ lp'[q] = lp[q] /\ obj'[q] = obj[q]
       /\ made'[q] = made[q] /\ res'[q] = res[q]

GlobalTypes ==
  /\ image \in Images \cup {0}
  /\ content \in [Images -> {"empty", "luks", "ready", "wiped"}]
  /\ backing \in [Loops -> Images \cup {0}]
  /\ lazy \subseteq Loops
  /\ mapper \in Loops \cup {0}
  /\ mnt \in Images \cup {0}
  /\ stub \in {"absent", "bare", "immutable"}
  /\ reg \in Objs \cup {0}
  /\ hmu \in Procs \cup {NoProc}
  /\ muOf \in [Objs -> Procs \cup {NoProc}]
  /\ faults \in 0..MaxFaults
  /\ crashes \in 0..MaxCrashes

LEMMA TypesOfStep ==
  ASSUME TypeOK, NEW p \in Procs, Moved(p), GlobalTypes', pc'[p] \in LoopSteps => lp'[p] # 0
  PROVE  TypeOK'
<1>1. LoopGiven'
  BY DEF TypeOK, Moved, LoopGiven
<1> QED
  BY <1>1 DEF TypeOK, Moved, GlobalTypes

LEMMA GotoMoves ==
  ASSUME TypeOK, NEW p \in Procs, NEW st \in Steps, Goto(p, st)
  PROVE  /\ Moved(p) /\ pc'[p] = st /\ lp' = lp /\ obj' = obj /\ made' = made /\ res' = res
BY DEF TypeOK, Goto, Moved

LEMMA WithMoves ==
  ASSUME TypeOK, NEW p \in Procs, NEW st \in Steps, NEW d \in Loops, With(p, st, d)
  PROVE  /\ Moved(p) /\ pc'[p] = st /\ lp'[p] = d /\ obj' = obj /\ made' = made /\ res' = res
BY DEF TypeOK, With, Moved

LEMMA ReplyMoves ==
  ASSUME TypeOK, NEW p \in Procs, NEW a \in {"ok", "error"}, Reply(p, a)
  PROVE  /\ Moved(p) /\ pc'[p] = "idle" /\ res'[p] = a
         /\ lp'[p] = 0 /\ obj'[p] = 0 /\ made'[p] = 0
BY DEF TypeOK, Reply, Moved, Steps

LEMMA FinishMoves ==
  ASSUME TypeOK, NEW p \in Procs, NEW a \in {"ok", "error"}, Finish(p, a)
  PROVE  /\ Moved(p) /\ pc'[p] = "idle" /\ res'[p] = a
         /\ lp'[p] = 0 /\ obj'[p] = 0 /\ made'[p] = 0
         /\ muOf' \in [Objs -> Procs \cup {NoProc}] /\ UNCHANGED <<reg, hmu>>
         /\ muOf' = [muOf EXCEPT ![obj[p]] = NoProc]
<1>1. Reply(p, a) /\ muOf' = [muOf EXCEPT ![obj[p]] = NoProc] /\ UNCHANGED <<reg, hmu>>
  BY DEF Finish
<1> QED
  BY <1>1, ReplyMoves DEF TypeOK

LEMMA GotVaultMoves ==
  ASSUME TypeOK, NEW p \in Procs, NEW o \in Objs, GotVault(p, o)
  PROVE  /\ Moved(p)
         /\ \/ /\ op[p] = "create" /\ pc'[p] = "idle" /\ res'[p] = "ok"
               /\ lp'[p] = 0 /\ obj'[p] = 0 /\ made'[p] = 0
            \/ /\ op[p] # "create" /\ pc'[p] = IF p = Main THEN "status" ELSE "lock"
               /\ obj'[p] = o /\ lp' = lp /\ made' = made /\ res' = res
<1>1. CASE op[p] = "create"
  BY <1>1, ReplyMoves DEF GotVault
<1>2. CASE op[p] # "create"
  BY <1>2 DEF GotVault, TypeOK, Moved, Steps, Registry
<1> QED
  BY <1>1, <1>2

LEMMA FaultTypes ==
  ASSUME TypeOK, NoFault \/ Fault
  PROVE  /\ faults' \in 0..MaxFaults /\ crashes' \in 0..MaxCrashes /\ crashes' = crashes
         /\ NoFault => faults' = faults
         /\ Fault => faults' = faults + 1 /\ faults' # 0 /\ faults' # faults
BY LifecycleAssumption DEF TypeOK, NoFault, Fault

LEMMA StepNames ==
  /\ Formatting \subseteq Steps /\ Destroying \subseteq Steps /\ Unsealing \subseteq Steps
  /\ Sealing \subseteq Steps /\ Registry \subseteq Steps /\ {"idle", "exists"} \subseteq Steps
BY DEF Steps, Critical

LEMMA CreateTypes ==
  ASSUME TypeOK, NEW p \in Procs, CreateStep(p)
  PROVE  Moved(p) /\ GlobalTypes'
<1>1. CASE CreateRefused(p)
  BY <1>1, ReplyMoves DEF CreateRefused, TypeOK, GlobalTypes, disk, kernel, objs
<1>2. CASE CreateFile(p)
  <2>1. faults' \in 0..MaxFaults /\ crashes' \in 0..MaxCrashes
    BY <1>2, FaultTypes DEF CreateFile
  <2>2. Moved(p)
    <3>1. CASE \E a \in {"ok", "error"} : Reply(p, a)
      BY <3>1, ReplyMoves
    <3>2. CASE /\ pc' = [pc EXCEPT ![p] = "c_find"] /\ made' = [made EXCEPT ![p] = NewImage]
               /\ Spare # {} /\ UNCHANGED <<op, lp, obj, res>>
      BY <3>2, NewImageIsNew, StepNames DEF Formatting, TypeOK, Moved
    <3> QED
      BY <1>2, <3>1, <3>2 DEF CreateFile
  <2>3. image' \in Images \cup {0} /\ content' \in [Images -> {"empty", "luks", "ready", "wiped"}]
    BY <1>2, NewImageIsNew DEF CreateFile, TypeOK, disk
  <2> QED
    BY <1>2, <2>1, <2>2, <2>3 DEF CreateFile, TypeOK, GlobalTypes, kernel, objs
<1>3. CASE CreateFind(p)
  BY <1>3, GotoMoves, WithMoves, FaultTypes, StepNames
  DEF CreateFind, Find, Continue, Formatting, TypeOK, GlobalTypes, disk, kernel, objs,
     Attached
<1>4. CASE CreateAttach(p)
  BY <1>4, GotoMoves, WithMoves, FreeIsFree, FaultTypes, StepNames
  DEF CreateAttach, Attempt, Syscall, Attach, Continue, Formatting, TypeOK, GlobalTypes,
     disk, objs
<1>5. CASE CreateFormat(p)
  BY <1>5, GotoMoves, FaultTypes, StepNames
  DEF CreateFormat, Attempt, Syscall, Formatting, TypeOK, GlobalTypes, kernel, objs
<1>6. CASE CreateOpen(p)
  BY <1>6, GotoMoves, FaultTypes, StepNames
  DEF CreateOpen, Attempt, Syscall, Formatting, TypeOK, GlobalTypes, disk, objs
<1>7. CASE CreateMkfs(p)
  BY <1>7, GotoMoves, FaultTypes, StepNames
  DEF CreateMkfs, Attempt, Syscall, Formatting, TypeOK, GlobalTypes, kernel, objs
<1>8. CASE CreateClose(p)
  BY <1>8, GotoMoves, FaultTypes, StepNames
  DEF CreateClose, Attempt, Syscall, CloseMapper, Continue, Close, Formatting, TypeOK,
     GlobalTypes, disk, objs
<1>9. CASE CreateDetach(p)
  <2>1. {"get", "c_undo_remove"} \subseteq Steps
    BY StepNames DEF Formatting, Registry
  <2>2. Moved(p)
    BY <1>9, <2>1, GotoMoves DEF CreateDetach, Attempt, Syscall, DetachLoop, Continue
  <2>3. faults' \in 0..MaxFaults /\ crashes' \in 0..MaxCrashes
    BY <1>9, FaultTypes DEF CreateDetach, Attempt, Syscall, DetachLoop
  <2> QED
    BY <1>9, <2>2, <2>3
    DEF CreateDetach, Attempt, Syscall, DetachLoop, Continue, CanDetach, Detach, TypeOK,
       GlobalTypes, disk, objs
<1>10. CASE UndoClose(p)
  BY <1>10, GotoMoves, FaultTypes, StepNames
  DEF UndoClose, Attempt, Syscall, CloseMapper, Continue, Close, Formatting, TypeOK,
     GlobalTypes, disk, objs
<1>11. CASE UndoDetach(p)
  BY <1>11, GotoMoves, FaultTypes, StepNames
  DEF UndoDetach, Attempt, Syscall, DetachLoop, Continue, CanDetach, Detach, Formatting,
     TypeOK, GlobalTypes, disk, objs
<1>12. CASE UndoRemove(p)
  BY <1>12, ReplyMoves, FaultTypes
  DEF UndoRemove, Syscall, TypeOK, GlobalTypes, kernel, objs
<1> QED
  BY <1>1, <1>2, <1>3, <1>4, <1>5, <1>6, <1>7, <1>8, <1>9, <1>10, <1>11, <1>12
  DEF CreateStep

LEMMA DestroyTypes ==
  ASSUME TypeOK, NEW p \in Procs, DestroyStep(p)
  PROVE  Moved(p) /\ GlobalTypes'
<1>1. CASE DestroyMapped(p)
  BY <1>1, GotoMoves, ReplyMoves, FaultTypes, StepNames
  DEF DestroyMapped, Refuse, Destroying, TypeOK, GlobalTypes, disk, kernel, objs
<1>2. CASE DestroyMounted(p)
  BY <1>2, GotoMoves, ReplyMoves, FaultTypes, StepNames
  DEF DestroyMounted, Refuse, Destroying, TypeOK, GlobalTypes, disk, kernel, objs
<1>3. CASE DestroyFind(p)
  BY <1>3, GotoMoves, WithMoves, ReplyMoves, FaultTypes, StepNames
  DEF DestroyFind, Find, Continue, Destroying, TypeOK, GlobalTypes, disk, kernel, objs,
     Attached
<1>4. CASE DestroyDetach(p)
  BY <1>4, GotoMoves, ReplyMoves, FaultTypes, StepNames
  DEF DestroyDetach, Attempt, Syscall, DetachLoop, Continue, CanDetach, Detach, Destroying,
     TypeOK, GlobalTypes, disk, objs
<1>5. CASE DestroyRemove(p)
  BY <1>5, GotoMoves, ReplyMoves, FaultTypes, StepNames
  DEF DestroyRemove, Syscall, Destroying, TypeOK, GlobalTypes, kernel, objs
<1>6. CASE DestroyChattr(p)
  BY <1>6, GotoMoves, ReplyMoves, FaultTypes, StepNames
  DEF DestroyChattr, Attempt, Syscall, Destroying, TypeOK, GlobalTypes, disk, kernel, objs
<1>7. CASE DestroyRmdir(p)
  BY <1>7, GotoMoves, ReplyMoves, FaultTypes, StepNames
  DEF DestroyRmdir, Syscall, Destroying, TypeOK, GlobalTypes, kernel, objs
<1>8. CASE DestroyForget(p)
  BY <1>8, ReplyMoves DEF DestroyForget, TypeOK, GlobalTypes, disk, kernel
<1> QED
  BY <1>1, <1>2, <1>3, <1>4, <1>5, <1>6, <1>7, <1>8 DEF DestroyStep

LEMMA UnsealTypes ==
  ASSUME TypeOK, NEW p \in Procs, UnsealStep(p)
  PROVE  Moved(p) /\ GlobalTypes'
<1>1. CASE UnsealFind(p)
  BY <1>1, GotoMoves, WithMoves, FinishMoves, FaultTypes, StepNames
  DEF UnsealFind, Find, Continue, Unsealing, TypeOK, GlobalTypes, disk, kernel, objs,
     Attached
<1>2. CASE UnsealAttach(p)
  BY <1>2, WithMoves, FinishMoves, FreeIsFree, FaultTypes, StepNames
  DEF UnsealAttach, Attempt, Syscall, Attach, Unsealing, TypeOK, GlobalTypes, disk, objs
<1>3. CASE UnsealOpen(p)
  BY <1>3, GotoMoves, FaultTypes, StepNames
  DEF UnsealOpen, Attempt, Syscall, Unsealing, TypeOK, GlobalTypes, disk, objs
<1>4. CASE UnsealAbort(p)
  BY <1>4, FinishMoves, FaultTypes
  DEF UnsealAbort, Attempt, Syscall, DetachLoop, CanDetach, Detach, TypeOK, GlobalTypes,
     disk
<1>5. CASE UnsealSource(p)
  BY <1>5, GotoMoves, FinishMoves, FaultTypes, StepNames
  DEF UnsealSource, Continue, Unsealing, TypeOK, GlobalTypes, disk, kernel, objs
<1>6. CASE UnsealMount(p)
  BY <1>6, GotoMoves, FinishMoves, FaultTypes, StepNames
  DEF UnsealMount, Attempt, Syscall, Continue, Unsealing, TypeOK, GlobalTypes, disk, objs
<1>7. CASE BackUnmount(p)
  BY <1>7, GotoMoves, FaultTypes, StepNames
  DEF BackUnmount, Attempt, Syscall, Unsealing, TypeOK, GlobalTypes, disk, objs
<1>8. CASE BackImmutable(p)
  BY <1>8, GotoMoves, FaultTypes, StepNames
  DEF BackImmutable, Attempt, Syscall, MakeImmutable, Unsealing, TypeOK, GlobalTypes, disk,
     kernel, objs
<1>9. CASE BackClose(p)
  BY <1>9, GotoMoves, FaultTypes, StepNames
  DEF BackClose, Attempt, Syscall, CloseMapper, Continue, Close, Unsealing, TypeOK,
     GlobalTypes, disk, objs
<1>10. CASE BackDetach(p)
  BY <1>10, FinishMoves, FaultTypes
  DEF BackDetach, Attempt, Syscall, DetachLoop, CanDetach, Detach, TypeOK, GlobalTypes, disk
<1> QED
  BY <1>1, <1>2, <1>3, <1>4, <1>5, <1>6, <1>7, <1>8, <1>9, <1>10 DEF UnsealStep

LEMMA SealTypes ==
  ASSUME TypeOK, NEW p \in Procs, SealStep(p)
  PROVE  Moved(p) /\ GlobalTypes'
<1>1. CASE SealSource(p)
  BY <1>1, GotoMoves, FinishMoves, FaultTypes, StepNames
  DEF SealSource, Continue, Sealing, TypeOK, GlobalTypes, disk, kernel, objs
<1>2. CASE SealUnmount(p)
  BY <1>2, GotoMoves, FinishMoves, FaultTypes, StepNames
  DEF SealUnmount, Attempt, Syscall, Continue, Sealing, TypeOK, GlobalTypes, disk, objs
<1>3. CASE SealImmutable(p)
  BY <1>3, GotoMoves, FinishMoves, FaultTypes, StepNames
  DEF SealImmutable, Attempt, Syscall, Continue, MakeImmutable, Sealing, TypeOK,
     GlobalTypes, disk, kernel, objs
<1>4. CASE SealClose(p)
  BY <1>4, GotoMoves, FinishMoves, FaultTypes, StepNames
  DEF SealClose, Attempt, Syscall, CloseMapper, Continue, Close, Sealing, TypeOK,
     GlobalTypes, disk, objs
<1>5. CASE SealFind(p)
  BY <1>5, WithMoves, FinishMoves, FaultTypes, StepNames
  DEF SealFind, Find, Sealing, TypeOK, GlobalTypes, disk, kernel, objs, Attached
<1>6. CASE SealDetach(p)
  BY <1>6, FinishMoves, FaultTypes
  DEF SealDetach, Attempt, Syscall, DetachLoop, CanDetach, Detach, TypeOK, GlobalTypes, disk
<1> QED
  BY <1>1, <1>2, <1>3, <1>4, <1>5, <1>6 DEF SealStep

LEMMA ExistsTypes ==
  ASSUME TypeOK, NEW p \in Procs, Exists(p)
  PROVE  Moved(p) /\ GlobalTypes'
<1>1. {"c_file", "d_mapped", "get"} \subseteq Steps
  BY StepNames DEF Formatting, Destroying, Registry
<1>2. GlobalTypes'
  BY DEF Exists, TypeOK, GlobalTypes, disk, kernel, objs
<1>3. CASE Reply(p, "error")
  BY <1>2, <1>3, ReplyMoves
<1>4. CASE \E st \in {"c_file", "d_mapped", "get"} : Goto(p, st)
  BY <1>1, <1>2, <1>4, GotoMoves
<1> QED
  BY <1>3, <1>4 DEF Exists

LEMMA StatusTypes ==
  ASSUME TypeOK, NEW p \in Procs, Status(p)
  PROVE  Moved(p) /\ GlobalTypes'
BY GotoMoves, ReplyMoves, FaultTypes, StepNames
DEF Status, Registry, TypeOK, GlobalTypes, disk, kernel, objs

LEMMA LockTypes ==
  ASSUME TypeOK, NEW p \in Procs, Lock(p)
  PROVE  Moved(p) /\ GlobalTypes'
<1>1. {"u_find", "s_source"} \subseteq Steps
  BY StepNames DEF Unsealing, Sealing
<1>2. GlobalTypes'
  BY DEF Lock, TypeOK, GlobalTypes, disk, kernel
<1> QED
  BY <1>1, <1>2, GotoMoves DEF Lock

LEMMA GetTypes ==
  ASSUME TypeOK, NEW p \in Procs, Get(p)
  PROVE  Moved(p) /\ GlobalTypes'
<1>1. CASE reg # 0 /\ GotVault(p, reg) /\ UNCHANGED <<stub, objs>>
  <2>1. Moved(p)
    BY <1>1, GotVaultMoves DEF TypeOK
  <2> QED
    BY <2>1 DEF Get, TypeOK, GlobalTypes, disk, kernel, objs
<1>2. CASE /\ hmu' = p /\ Goto(p, "ensure") /\ UNCHANGED <<reg, muOf>>
           /\ stub' = IF stub = "absent" THEN "bare" ELSE stub
  BY <1>2, GotoMoves, StepNames DEF Registry, Get, TypeOK, GlobalTypes, disk, kernel
<1> QED
  BY <1>1, <1>2 DEF Get

(* What only a process with an object of its own has gone through *)
ObjInv ==
  \A p \in Procs : obj[p] # 0 <=> pc[p] \in {"status", "lock"} \cup Critical

LEMMA EnsureTypes ==
  ASSUME TypeOK, ObjInv, NEW p \in Procs, Ensure(p)
  PROVE  Moved(p) /\ GlobalTypes'
<1>1. obj[p] = 0
  BY DEF Ensure, ObjInv, Critical, Unsealing, Sealing
<1>2. NewObj \in Objs
  BY <1>1, NewObjIsNew
<1>3. faults' \in 0..MaxFaults /\ crashes' \in 0..MaxCrashes
  BY FaultTypes DEF Ensure, Attempt, Syscall
<1>4. Moved(p) /\ reg' \in Objs \cup {0}
  BY <1>2, GotVaultMoves, ReplyMoves DEF Ensure, Attempt, Syscall, TypeOK
<1> QED
  BY <1>3, <1>4 DEF Ensure, Attempt, Syscall, TypeOK, GlobalTypes, disk, kernel

LEMMA StepTypes ==
  ASSUME TypeOK, ObjInv, NEW p \in Procs, Step(p)
  PROVE  Moved(p) /\ GlobalTypes'
BY ExistsTypes, GetTypes, EnsureTypes, StatusTypes, LockTypes, CreateTypes, DestroyTypes,
   UnsealTypes, SealTypes
DEF Step

(* A process has an object while it works with one, and only then; and a    *)
(* loop path where it gives one to a command.                               *)
ObjKept(p) ==
  /\ obj'[p] # 0 <=> pc'[p] \in {"status", "lock"} \cup Critical
  /\ pc'[p] \in LoopSteps => lp'[p] # 0

LEMMA CreateKeepsObj ==
  ASSUME TypeOK, ObjInv, NEW p \in Procs, CreateStep(p)
  PROVE  ObjKept(p)
<1>0. LoopGiven /\ 0 \notin Loops
  BY DEF TypeOK, Loops
<1>1. CASE CreateRefused(p)
  BY <1>0, <1>1, ReplyMoves DEF CreateRefused, ObjKept, LoopGiven, LoopSteps, Critical, Unsealing, Sealing
<1>2. CASE CreateFile(p)
  BY <1>0, <1>2, ReplyMoves DEF CreateFile, ObjKept, LoopGiven, LoopSteps, TypeOK, ObjInv, Critical, Unsealing, Sealing
<1>3. CASE CreateFind(p)
  <2>1. {"c_format", "c_attach", "c_undo_remove"} \subseteq Steps
    BY StepNames DEF Formatting
  <2>2. /\ obj' = obj /\ pc'[p] \in {"c_format", "c_attach", "c_undo_remove"}
        /\ pc'[p] = "c_format" => lp'[p] \in Loops
    BY <1>3, <2>1, GotoMoves, WithMoves DEF CreateFind, Find, Continue, Attached
  <2>3. obj[p] = 0
    BY <1>3 DEF CreateFind, Find, ObjInv, Critical, Unsealing, Sealing
  <2> QED
    BY <1>0, <2>2, <2>3 DEF ObjKept, LoopGiven, LoopSteps, Critical, Unsealing, Sealing
<1>4. CASE CreateAttach(p)
  BY <1>0, <1>4, GotoMoves, WithMoves, FreeIsFree, StepNames
  DEF CreateAttach, Attempt, Syscall, Attach, Continue, ObjKept, LoopGiven, LoopSteps, ObjInv, Formatting,
     Critical, Unsealing, Sealing
<1>5. CASE CreateFormat(p)
  BY <1>0, <1>5, GotoMoves, StepNames
  DEF CreateFormat, Attempt, Syscall, ObjKept, LoopGiven, LoopSteps, ObjInv, Formatting, Critical, Unsealing,
     Sealing
<1>6. CASE CreateOpen(p)
  BY <1>0, <1>6, GotoMoves, StepNames
  DEF CreateOpen, Attempt, Syscall, ObjKept, LoopGiven, LoopSteps, ObjInv, Formatting, Critical, Unsealing,
     Sealing
<1>7. CASE CreateMkfs(p)
  BY <1>0, <1>7, GotoMoves, StepNames
  DEF CreateMkfs, Attempt, Syscall, ObjKept, LoopGiven, LoopSteps, ObjInv, Formatting, Critical, Unsealing,
     Sealing
<1>8. CASE CreateClose(p)
  BY <1>0, <1>8, GotoMoves, StepNames
  DEF CreateClose, Attempt, Syscall, CloseMapper, Continue, ObjKept, LoopGiven, LoopSteps, ObjInv, Formatting,
     Critical, Unsealing, Sealing
<1>9. CASE CreateDetach(p)
  BY <1>0, <1>9, GotoMoves, StepNames
  DEF CreateDetach, Attempt, Syscall, DetachLoop, Continue, ObjKept, LoopGiven, LoopSteps, ObjInv, Formatting,
     Registry, Critical, Unsealing, Sealing
<1>10. CASE UndoClose(p)
  BY <1>0, <1>10, GotoMoves, StepNames
  DEF UndoClose, Attempt, Syscall, CloseMapper, Continue, ObjKept, LoopGiven, LoopSteps, ObjInv, Formatting,
     Critical, Unsealing, Sealing
<1>11. CASE UndoDetach(p)
  BY <1>0, <1>11, GotoMoves, StepNames
  DEF UndoDetach, Attempt, Syscall, DetachLoop, Continue, ObjKept, LoopGiven, LoopSteps, ObjInv, Formatting,
     Critical, Unsealing, Sealing
<1>12. CASE UndoRemove(p)
  BY <1>0, <1>12, ReplyMoves DEF UndoRemove, ObjKept, LoopGiven, LoopSteps, Critical, Unsealing, Sealing
<1> QED
  BY <1>1, <1>2, <1>3, <1>4, <1>5, <1>6, <1>7, <1>8, <1>9, <1>10, <1>11, <1>12
  DEF CreateStep

LEMMA DestroyKeepsObj ==
  ASSUME TypeOK, ObjInv, NEW p \in Procs, DestroyStep(p)
  PROVE  ObjKept(p)
<1>0. LoopGiven /\ 0 \notin Loops
  BY DEF TypeOK, Loops
<1>1. CASE DestroyMapped(p)
  BY <1>0, <1>1, GotoMoves, ReplyMoves, StepNames
  DEF DestroyMapped, Refuse, ObjKept, LoopGiven, LoopSteps, ObjInv, Destroying, Critical, Unsealing, Sealing
<1>2. CASE DestroyMounted(p)
  BY <1>0, <1>2, GotoMoves, ReplyMoves, StepNames
  DEF DestroyMounted, Refuse, ObjKept, LoopGiven, LoopSteps, ObjInv, Destroying, Critical, Unsealing, Sealing
<1>3. CASE DestroyFind(p)
  BY <1>0, <1>3, GotoMoves, WithMoves, ReplyMoves, StepNames
  DEF DestroyFind, Find, Continue, ObjKept, LoopGiven, LoopSteps, ObjInv, Destroying, Critical, Unsealing,
     Sealing, Attached
<1>4. CASE DestroyDetach(p)
  BY <1>0, <1>4, GotoMoves, ReplyMoves, StepNames
  DEF DestroyDetach, Attempt, Syscall, DetachLoop, Continue, ObjKept, LoopGiven, LoopSteps, ObjInv, Destroying,
     Critical, Unsealing, Sealing
<1>5. CASE DestroyRemove(p)
  BY <1>0, <1>5, GotoMoves, ReplyMoves, StepNames
  DEF DestroyRemove, Syscall, ObjKept, LoopGiven, LoopSteps, ObjInv, Destroying, Critical, Unsealing, Sealing
<1>6. CASE DestroyChattr(p)
  BY <1>0, <1>6, GotoMoves, ReplyMoves, StepNames
  DEF DestroyChattr, Attempt, Syscall, ObjKept, LoopGiven, LoopSteps, ObjInv, Destroying, Critical, Unsealing,
     Sealing
<1>7. CASE DestroyRmdir(p)
  BY <1>0, <1>7, GotoMoves, ReplyMoves, StepNames
  DEF DestroyRmdir, Syscall, ObjKept, LoopGiven, LoopSteps, ObjInv, Destroying, Critical, Unsealing, Sealing
<1>8. CASE DestroyForget(p)
  BY <1>0, <1>8, ReplyMoves DEF DestroyForget, ObjKept, LoopGiven, LoopSteps, Critical, Unsealing, Sealing
<1> QED
  BY <1>1, <1>2, <1>3, <1>4, <1>5, <1>6, <1>7, <1>8 DEF DestroyStep

LEMMA UnsealKeepsObj ==
  ASSUME TypeOK, ObjInv, NEW p \in Procs, UnsealStep(p)
  PROVE  ObjKept(p)
<1>0. LoopGiven /\ 0 \notin Loops
  BY DEF TypeOK, Loops
<1>1. CASE UnsealFind(p)
  BY <1>0, <1>1, GotoMoves, WithMoves, FinishMoves, StepNames
  DEF UnsealFind, Find, Continue, ObjKept, LoopGiven, LoopSteps, ObjInv, Critical, Unsealing, Sealing, Attached
<1>2. CASE UnsealAttach(p)
  BY <1>0, <1>2, WithMoves, FinishMoves, FreeIsFree, StepNames
  DEF UnsealAttach, Attempt, Syscall, Attach, ObjKept, LoopGiven, LoopSteps, ObjInv, Critical, Unsealing, Sealing
<1>3. CASE UnsealOpen(p)
  BY <1>0, <1>3, GotoMoves, StepNames
  DEF UnsealOpen, Attempt, Syscall, ObjKept, LoopGiven, LoopSteps, ObjInv, Critical, Unsealing
<1>4. CASE UnsealAbort(p)
  BY <1>0, <1>4, FinishMoves
  DEF UnsealAbort, Attempt, Syscall, DetachLoop, ObjKept, LoopGiven, LoopSteps, Critical, Unsealing, Sealing
<1>5. CASE UnsealSource(p)
  BY <1>0, <1>5, GotoMoves, FinishMoves, StepNames
  DEF UnsealSource, Continue, ObjKept, LoopGiven, LoopSteps, ObjInv, Critical, Unsealing, Sealing
<1>6. CASE UnsealMount(p)
  BY <1>0, <1>6, GotoMoves, FinishMoves, StepNames
  DEF UnsealMount, Attempt, Syscall, Continue, ObjKept, LoopGiven, LoopSteps, ObjInv, Critical, Unsealing, Sealing
<1>7. CASE BackUnmount(p)
  BY <1>0, <1>7, GotoMoves, StepNames
  DEF BackUnmount, Attempt, Syscall, ObjKept, LoopGiven, LoopSteps, ObjInv, Critical, Unsealing
<1>8. CASE BackImmutable(p)
  BY <1>0, <1>8, GotoMoves, StepNames
  DEF BackImmutable, Attempt, Syscall, ObjKept, LoopGiven, LoopSteps, ObjInv, Critical, Unsealing
<1>9. CASE BackClose(p)
  BY <1>0, <1>9, GotoMoves, StepNames
  DEF BackClose, Attempt, Syscall, CloseMapper, Continue, ObjKept, LoopGiven, LoopSteps, ObjInv, Critical,
     Unsealing
<1>10. CASE BackDetach(p)
  BY <1>0, <1>10, FinishMoves
  DEF BackDetach, Attempt, Syscall, DetachLoop, ObjKept, LoopGiven, LoopSteps, Critical, Unsealing, Sealing
<1> QED
  BY <1>1, <1>2, <1>3, <1>4, <1>5, <1>6, <1>7, <1>8, <1>9, <1>10 DEF UnsealStep

LEMMA SealKeepsObj ==
  ASSUME TypeOK, ObjInv, NEW p \in Procs, SealStep(p)
  PROVE  ObjKept(p)
<1>0. LoopGiven /\ 0 \notin Loops
  BY DEF TypeOK, Loops
<1>1. CASE SealSource(p)
  BY <1>0, <1>1, GotoMoves, FinishMoves, StepNames
  DEF SealSource, Continue, ObjKept, LoopGiven, LoopSteps, ObjInv, Critical, Unsealing, Sealing
<1>2. CASE SealUnmount(p)
  BY <1>0, <1>2, GotoMoves, FinishMoves, StepNames
  DEF SealUnmount, Attempt, Syscall, Continue, ObjKept, LoopGiven, LoopSteps, ObjInv, Critical, Unsealing, Sealing
<1>3. CASE SealImmutable(p)
  BY <1>0, <1>3, GotoMoves, FinishMoves, StepNames
  DEF SealImmutable, Attempt, Syscall, Continue, ObjKept, LoopGiven, LoopSteps, ObjInv, Critical, Unsealing,
     Sealing
<1>4. CASE SealClose(p)
  BY <1>0, <1>4, GotoMoves, FinishMoves, StepNames
  DEF SealClose, Attempt, Syscall, CloseMapper, Continue, ObjKept, LoopGiven, LoopSteps, ObjInv, Critical,
     Unsealing, Sealing
<1>5. CASE SealFind(p)
  BY <1>0, <1>5, WithMoves, FinishMoves, StepNames
  DEF SealFind, Find, ObjKept, LoopGiven, LoopSteps, ObjInv, Critical, Unsealing, Sealing, Attached
<1>6. CASE SealDetach(p)
  BY <1>0, <1>6, FinishMoves
  DEF SealDetach, Attempt, Syscall, DetachLoop, ObjKept, LoopGiven, LoopSteps, Critical, Unsealing, Sealing
<1> QED
  BY <1>1, <1>2, <1>3, <1>4, <1>5, <1>6 DEF SealStep

-----------------------------------------------------------------------------
(* Without destroy no Vault object is forgotten: those that a process works *)
(* with are the registered one.                                             *)
ExclInv ==
  \A p \in Procs :
    /\ op[p] # "destroy" /\ pc[p] \notin Destroying
    /\ obj[p] \in {0, reg}
    /\ pc[p] \in Critical => muOf[obj[p]] = p
    /\ pc[p] = "ensure" => hmu = p /\ reg = 0

(* Without destroy one process at a time makes an image, the one at the     *)
(* path, and it has not finished it when it formats it.                     *)
Making == Formatting \ {"c_file"}

MakeInv ==
  /\ \A p \in Procs : pc[p] \in Making => image # 0
  /\ \A p, q \in Procs : pc[p] \in Making /\ pc[q] \in Making => p = q
  /\ \A p \in Procs : pc[p] \in {"c_find", "c_attach", "c_format"} => content[image] = "empty"

(* What a step of p may do to the objects and their mutexes *)
LocksKept(p) ==
  /\ obj'[p] \in {0, reg'} /\ (reg' = reg \/ reg = 0)
  /\ pc'[p] \in Critical => muOf'[obj'[p]] = p
  /\ \A o \in Objs : muOf'[o] = muOf[o] \/ muOf[o] \in {NoProc, p}
  /\ pc'[p] = "ensure" => hmu' = p /\ reg' = 0
  /\ reg' = reg \/ pc[p] = "ensure"
  /\ hmu' = hmu \/ hmu \in {NoProc, p}

(* And to the image: only who finds none makes one, and nobody else *)
ImageKept(p) ==
  /\ pc'[p] \notin Destroying
  /\ pc'[p] \in Making => image' # 0 /\ (pc[p] \in Making \/ image = 0)
  /\ image' # image => image = 0 \/ pc[p] \in Making
  /\ pc'[p] \in {"c_find", "c_attach", "c_format"} => content'[image'] = "empty"
  /\ image # 0 /\ content'[image] # content[image] =>
       content[image] # "ready" \/ content'[image] = "ready"
  /\ image # 0 /\ content'[image] # content[image] => pc[p] \in Making

LEMMA CreateKeepsLocks ==
  ASSUME TypeOK, ObjInv, ExclInv, MakeInv, NEW p \in Procs, CreateStep(p)
  PROVE  LocksKept(p)
<1>1. CASE CreateRefused(p)
  BY <1>1, ReplyMoves DEF CreateRefused, LocksKept, Critical, Unsealing, Sealing, objs
<1>2. CASE CreateFile(p)
  BY <1>2, ReplyMoves
  DEF CreateFile, LocksKept, ObjInv, Critical, Unsealing, Sealing, TypeOK, objs
<1>3. CASE CreateFind(p)
  BY <1>3, GotoMoves, WithMoves, StepNames
  DEF CreateFind, Find, Continue, LocksKept, ObjInv, Formatting, Critical, Unsealing,
     Sealing, Attached, objs
<1>4. CASE CreateAttach(p)
  BY <1>4, GotoMoves, WithMoves, FreeIsFree, StepNames
  DEF CreateAttach, Attempt, Syscall, Attach, Continue, LocksKept, ObjInv, Formatting,
     Critical, Unsealing, Sealing, objs
<1>5. CASE CreateFormat(p)
  BY <1>5, GotoMoves, StepNames
  DEF CreateFormat, Attempt, Syscall, LocksKept, ObjInv, Formatting, Critical, Unsealing,
     Sealing, objs
<1>6. CASE CreateOpen(p)
  BY <1>6, GotoMoves, StepNames
  DEF CreateOpen, Attempt, Syscall, LocksKept, ObjInv, Formatting, Critical, Unsealing,
     Sealing, objs
<1>7. CASE CreateMkfs(p)
  BY <1>7, GotoMoves, StepNames
  DEF CreateMkfs, Attempt, Syscall, LocksKept, ObjInv, Formatting, Critical, Unsealing,
     Sealing, objs
<1>8. CASE CreateClose(p)
  BY <1>8, GotoMoves, StepNames
  DEF CreateClose, Attempt, Syscall, CloseMapper, Continue, LocksKept, ObjInv, Formatting,
     Critical, Unsealing, Sealing, objs
<1>9. CASE CreateDetach(p)
  BY <1>9, GotoMoves, StepNames
  DEF CreateDetach, Attempt, Syscall, DetachLoop, Continue, LocksKept, ObjInv, Formatting,
     Registry, Critical, Unsealing, Sealing, objs
<1>10. CASE UndoClose(p)
  BY <1>10, GotoMoves, StepNames
  DEF UndoClose, Attempt, Syscall, CloseMapper, Continue, LocksKept, ObjInv, Formatting,
     Critical, Unsealing, Sealing, objs
<1>11. CASE UndoDetach(p)
  BY <1>11, GotoMoves, StepNames
  DEF UndoDetach, Attempt, Syscall, DetachLoop, Continue, LocksKept, ObjInv, Formatting,
     Critical, Unsealing, Sealing, objs
<1>12. CASE UndoRemove(p)
  BY <1>12, ReplyMoves DEF UndoRemove, LocksKept, Critical, Unsealing, Sealing, objs
<1> QED
  BY <1>1, <1>2, <1>3, <1>4, <1>5, <1>6, <1>7, <1>8, <1>9, <1>10, <1>11, <1>12
  DEF CreateStep

LEMMA CreateKeepsImage ==
  ASSUME TypeOK, ObjInv, ExclInv, MakeInv, NEW p \in Procs, CreateStep(p)
  PROVE  ImageKept(p)
<1>1. CASE CreateRefused(p)
  BY <1>1, ReplyMoves DEF CreateRefused, ImageKept, Making, Formatting, Destroying, disk
<1>2. CASE CreateFile(p)
  BY <1>2, ReplyMoves, NewImageIsNew
  DEF CreateFile, ImageKept, Making, Formatting, Destroying, TypeOK, disk
<1>3. CASE CreateFind(p)
  BY <1>3, GotoMoves, WithMoves, StepNames
  DEF CreateFind, Find, Continue, ImageKept, MakeInv, Making, Formatting, Destroying,
     Attached, disk
<1>4. CASE CreateAttach(p)
  BY <1>4, GotoMoves, WithMoves, FreeIsFree, StepNames
  DEF CreateAttach, Attempt, Syscall, Attach, Continue, ImageKept, MakeInv, Making,
     Formatting, Destroying, disk
<1>5. CASE CreateFormat(p)
  BY <1>5, GotoMoves, StepNames
  DEF CreateFormat, Attempt, Syscall, ImageKept, MakeInv, Making, Formatting, Destroying
<1>6. CASE CreateOpen(p)
  BY <1>6, GotoMoves, StepNames
  DEF CreateOpen, Attempt, Syscall, ImageKept, MakeInv, Making, Formatting, Destroying, disk
<1>7. CASE CreateMkfs(p)
  BY <1>7, GotoMoves, StepNames
  DEF CreateMkfs, Attempt, Syscall, ImageKept, MakeInv, Making, Formatting, Destroying,
     TypeOK
<1>8. CASE CreateClose(p)
  BY <1>8, GotoMoves, StepNames
  DEF CreateClose, Attempt, Syscall, CloseMapper, Continue, ImageKept, MakeInv, Making,
     Formatting, Destroying, disk
<1>9. CASE CreateDetach(p)
  BY <1>9, GotoMoves, StepNames
  DEF CreateDetach, Attempt, Syscall, DetachLoop, Continue, ImageKept, MakeInv, Making,
     Formatting, Destroying, Registry, disk
<1>10. CASE UndoClose(p)
  BY <1>10, GotoMoves, StepNames
  DEF UndoClose, Attempt, Syscall, CloseMapper, Continue, ImageKept, MakeInv, Making,
     Formatting, Destroying, disk
<1>11. CASE UndoDetach(p)
  BY <1>11, GotoMoves, StepNames
  DEF UndoDetach, Attempt, Syscall, DetachLoop, Continue, ImageKept, MakeInv, Making,
     Formatting, Destroying, disk
<1>12. CASE UndoRemove(p)
  BY <1>12, ReplyMoves DEF UndoRemove, ImageKept, Making, Formatting, Destroying
<1> QED
  BY <1>1, <1>2, <1>3, <1>4, <1>5, <1>6, <1>7, <1>8, <1>9, <1>10, <1>11, <1>12
  DEF CreateStep

LEMMA UnsealKeepsLocks ==
  ASSUME TypeOK, ObjInv, ExclInv, MakeInv, NEW p \in Procs, UnsealStep(p)
  PROVE  LocksKept(p)
<1>1. CASE UnsealFind(p)
  BY <1>1, GotoMoves, WithMoves, FinishMoves, StepNames
  DEF UnsealFind, Find, Continue, LocksKept, ExclInv, Critical, Unsealing, Sealing,
     Attached, objs
<1>2. CASE UnsealAttach(p)
  BY <1>2, WithMoves, FinishMoves, FreeIsFree, StepNames
  DEF UnsealAttach, Attempt, Syscall, Attach, LocksKept, ExclInv, Critical, Unsealing,
     Sealing, objs
<1>3. CASE UnsealOpen(p)
  BY <1>3, GotoMoves, StepNames
  DEF UnsealOpen, Attempt, Syscall, LocksKept, ExclInv, Critical, Unsealing, objs
<1>4. CASE UnsealAbort(p)
  BY <1>4, FinishMoves
  DEF UnsealAbort, Attempt, Syscall, DetachLoop, LocksKept, ExclInv, Critical, Unsealing,
     Sealing
<1>5. CASE UnsealSource(p)
  BY <1>5, GotoMoves, FinishMoves, StepNames
  DEF UnsealSource, Continue, LocksKept, ExclInv, Critical, Unsealing, Sealing, objs
<1>6. CASE UnsealMount(p)
  BY <1>6, GotoMoves, FinishMoves, StepNames
  DEF UnsealMount, Attempt, Syscall, Continue, LocksKept, ExclInv, Critical, Unsealing,
     Sealing, objs
<1>7. CASE BackUnmount(p)
  BY <1>7, GotoMoves, StepNames
  DEF BackUnmount, Attempt, Syscall, LocksKept, ExclInv, Critical, Unsealing, objs
<1>8. CASE BackImmutable(p)
  BY <1>8, GotoMoves, StepNames
  DEF BackImmutable, Attempt, Syscall, LocksKept, ExclInv, Critical, Unsealing, objs
<1>9. CASE BackClose(p)
  BY <1>9, GotoMoves, StepNames
  DEF BackClose, Attempt, Syscall, CloseMapper, Continue, LocksKept, ExclInv, Critical,
     Unsealing, objs
<1>10. CASE BackDetach(p)
  BY <1>10, FinishMoves
  DEF BackDetach, Attempt, Syscall, DetachLoop, LocksKept, ExclInv, Critical, Unsealing,
     Sealing
<1> QED
  BY <1>1, <1>2, <1>3, <1>4, <1>5, <1>6, <1>7, <1>8, <1>9, <1>10 DEF UnsealStep

LEMMA UnsealKeepsImage ==
  ASSUME TypeOK, ObjInv, ExclInv, MakeInv, NEW p \in Procs, UnsealStep(p)
  PROVE  ImageKept(p)
<1>1. CASE UnsealFind(p)
  BY <1>1, GotoMoves, WithMoves, FinishMoves, StepNames
  DEF UnsealFind, Find, Continue, ImageKept, Making, Formatting, Destroying, Unsealing,
     Attached, disk
<1>2. CASE UnsealAttach(p)
  BY <1>2, WithMoves, FinishMoves, FreeIsFree, StepNames
  DEF UnsealAttach, Attempt, Syscall, Attach, ImageKept, Making, Formatting, Destroying,
     Unsealing, disk
<1>3. CASE UnsealOpen(p)
  BY <1>3, GotoMoves, StepNames
  DEF UnsealOpen, Attempt, Syscall, ImageKept, Making, Formatting, Destroying, Unsealing,
     disk
<1>4. CASE UnsealAbort(p)
  BY <1>4, FinishMoves
  DEF UnsealAbort, Attempt, Syscall, DetachLoop, ImageKept, Making, Formatting, Destroying,
     disk
<1>5. CASE UnsealSource(p)
  BY <1>5, GotoMoves, FinishMoves, StepNames
  DEF UnsealSource, Continue, ImageKept, Making, Formatting, Destroying, Unsealing, disk
<1>6. CASE UnsealMount(p)
  BY <1>6, GotoMoves, FinishMoves, StepNames
  DEF UnsealMount, Attempt, Syscall, Continue, ImageKept, Making, Formatting, Destroying,
     Unsealing, disk
<1>7. CASE BackUnmount(p)
  BY <1>7, GotoMoves, StepNames
  DEF BackUnmount, Attempt, Syscall, ImageKept, Making, Formatting, Destroying, Unsealing,
     disk
<1>8. CASE BackImmutable(p)
  BY <1>8, GotoMoves, StepNames
  DEF BackImmutable, Attempt, Syscall, ImageKept, Making, Formatting, Destroying, Unsealing,
     disk
<1>9. CASE BackClose(p)
  BY <1>9, GotoMoves, StepNames
  DEF BackClose, Attempt, Syscall, CloseMapper, Continue, ImageKept, Making, Formatting,
     Destroying, Unsealing, disk
<1>10. CASE BackDetach(p)
  BY <1>10, FinishMoves
  DEF BackDetach, Attempt, Syscall, DetachLoop, ImageKept, Making, Formatting, Destroying,
     disk
<1> QED
  BY <1>1, <1>2, <1>3, <1>4, <1>5, <1>6, <1>7, <1>8, <1>9, <1>10 DEF UnsealStep

LEMMA SealKeepsLocks ==
  ASSUME TypeOK, ObjInv, ExclInv, MakeInv, NEW p \in Procs, SealStep(p)
  PROVE  LocksKept(p)
<1>1. CASE SealSource(p)
  BY <1>1, GotoMoves, FinishMoves, StepNames
  DEF SealSource, Continue, LocksKept, ExclInv, Critical, Unsealing, Sealing, objs
<1>2. CASE SealUnmount(p)
  BY <1>2, GotoMoves, FinishMoves, StepNames
  DEF SealUnmount, Attempt, Syscall, Continue, LocksKept, ExclInv, Critical, Unsealing,
     Sealing, objs
<1>3. CASE SealImmutable(p)
  BY <1>3, GotoMoves, FinishMoves, StepNames
  DEF SealImmutable, Attempt, Syscall, Continue, LocksKept, ExclInv, Critical, Unsealing,
     Sealing, objs
<1>4. CASE SealClose(p)
  BY <1>4, GotoMoves, FinishMoves, StepNames
  DEF SealClose, Attempt, Syscall, CloseMapper, Continue, LocksKept, ExclInv, Critical,
     Unsealing, Sealing, objs
<1>5. CASE SealFind(p)
  BY <1>5, WithMoves, FinishMoves, StepNames
  DEF SealFind, Find, LocksKept, ExclInv, Critical, Unsealing, Sealing, Attached, objs
<1>6. CASE SealDetach(p)
  BY <1>6, FinishMoves
  DEF SealDetach, Attempt, Syscall, DetachLoop, LocksKept, ExclInv, Critical, Unsealing,
     Sealing
<1> QED
  BY <1>1, <1>2, <1>3, <1>4, <1>5, <1>6 DEF SealStep

LEMMA SealKeepsImage ==
  ASSUME TypeOK, ObjInv, ExclInv, MakeInv, NEW p \in Procs, SealStep(p)
  PROVE  ImageKept(p)
<1>1. CASE SealSource(p)
  BY <1>1, GotoMoves, FinishMoves, StepNames
  DEF SealSource, Continue, ImageKept, Making, Formatting, Destroying, Sealing, disk
<1>2. CASE SealUnmount(p)
  BY <1>2, GotoMoves, FinishMoves, StepNames
  DEF SealUnmount, Attempt, Syscall, Continue, ImageKept, Making, Formatting, Destroying,
     Sealing, disk
<1>3. CASE SealImmutable(p)
  BY <1>3, GotoMoves, FinishMoves, StepNames
  DEF SealImmutable, Attempt, Syscall, Continue, ImageKept, Making, Formatting, Destroying,
     Sealing, disk
<1>4. CASE SealClose(p)
  BY <1>4, GotoMoves, FinishMoves, StepNames
  DEF SealClose, Attempt, Syscall, CloseMapper, Continue, ImageKept, Making, Formatting,
     Destroying, Sealing, disk
<1>5. CASE SealFind(p)
  BY <1>5, WithMoves, FinishMoves, StepNames
  DEF SealFind, Find, ImageKept, Making, Formatting, Destroying, Sealing, Attached, disk
<1>6. CASE SealDetach(p)
  BY <1>6, FinishMoves
  DEF SealDetach, Attempt, Syscall, DetachLoop, ImageKept, Making, Formatting, Destroying,
     disk
<1> QED
  BY <1>1, <1>2, <1>3, <1>4, <1>5, <1>6 DEF SealStep

(* The steps that the verbs share *)
LEMMA RegistryKeepsObj ==
  ASSUME TypeOK, ObjInv, NEW p \in Procs, Exists(p) \/ Get(p) \/ Ensure(p) \/ Status(p) \/ Lock(p)
  PROVE  ObjKept(p)
<1>1. {"c_file", "d_mapped", "get", "ensure", "lock", "u_find", "s_source"} \subseteq Steps
  BY StepNames DEF Formatting, Destroying, Registry, Unsealing, Sealing
<1>2. 0 \notin Objs
  BY DEF Objs
<1>3. CASE Exists(p)
  BY <1>1, <1>3, GotoMoves, ReplyMoves
  DEF Exists, ObjKept, LoopSteps, ObjInv, Critical, Unsealing, Sealing
<1>4. CASE Get(p)
  <2>1. CASE reg # 0 /\ GotVault(p, reg)
    BY <2>1, GotVaultMoves DEF ObjKept, LoopSteps, Critical, Unsealing, Sealing, TypeOK
  <2>2. CASE Goto(p, "ensure")
    BY <1>1, <1>4, <2>2, GotoMoves DEF Get, ObjKept, LoopSteps, ObjInv, Critical, Unsealing, Sealing
  <2> QED
    BY <1>4, <2>1, <2>2 DEF Get
<1>5. CASE Ensure(p)
  <2>1. NewObj \in Objs
    BY <1>5, NewObjIsNew DEF Ensure, ObjInv, Critical, Unsealing, Sealing
  <2>2. CASE GotVault(p, NewObj)
    BY <1>2, <2>1, <2>2, GotVaultMoves DEF ObjKept, LoopSteps, Critical, Unsealing, Sealing
  <2>3. CASE Reply(p, "error")
    BY <2>3, ReplyMoves DEF ObjKept, LoopSteps, Critical, Unsealing, Sealing
  <2> QED
    BY <1>5, <2>2, <2>3 DEF Ensure, Attempt, Syscall
<1>6. CASE Status(p)
  BY <1>1, <1>6, GotoMoves, ReplyMoves
  DEF Status, ObjKept, LoopSteps, ObjInv, Critical, Unsealing, Sealing
<1>7. CASE Lock(p)
  BY <1>1, <1>7, GotoMoves DEF Lock, ObjKept, LoopSteps, ObjInv, Critical, Unsealing, Sealing
<1> QED
  BY <1>3, <1>4, <1>5, <1>6, <1>7

LEMMA RegistryKeepsLocks ==
  ASSUME TypeOK, ObjInv, ExclInv, NEW p \in Procs,
         Exists(p) \/ Get(p) \/ Ensure(p) \/ Status(p) \/ Lock(p)
  PROVE  LocksKept(p)
<1>1. {"c_file", "d_mapped", "get", "ensure", "lock", "u_find", "s_source"} \subseteq Steps
  BY StepNames DEF Formatting, Destroying, Registry, Unsealing, Sealing
<1>2. 0 \notin Objs
  BY DEF Objs
<1>3. CASE Exists(p)
  BY <1>1, <1>3, GotoMoves, ReplyMoves
  DEF Exists, LocksKept, ExclInv, Critical, Unsealing, Sealing, objs
<1>4. CASE Get(p)
  <2>1. CASE reg # 0 /\ GotVault(p, reg) /\ UNCHANGED objs
    BY <2>1, GotVaultMoves DEF LocksKept, Critical, Unsealing, Sealing, TypeOK, objs
  <2>2. CASE reg = 0 /\ hmu' = p /\ Goto(p, "ensure") /\ UNCHANGED <<reg, muOf>>
    BY <1>1, <1>4, <2>2, GotoMoves DEF Get, LocksKept, ExclInv, Critical, Unsealing, Sealing
  <2> QED
    BY <1>4, <2>1, <2>2 DEF Get
<1>5. CASE Ensure(p)
  <2>1. NewObj \in Objs
    BY <1>5, NewObjIsNew DEF Ensure, ObjInv, Critical, Unsealing, Sealing
  <2>2. /\ pc[p] = "ensure" /\ hmu' = NoProc /\ muOf' = muOf /\ reg = 0 /\ hmu = p
    BY <1>5 DEF Ensure, ExclInv
  <2>3. CASE GotVault(p, NewObj) /\ reg' = NewObj
    BY <2>1, <2>2, <2>3, GotVaultMoves DEF LocksKept, Critical, Unsealing, Sealing
  <2>4. CASE Reply(p, "error") /\ reg' = reg
    BY <2>2, <2>4, ReplyMoves DEF LocksKept, Critical, Unsealing, Sealing
  <2> QED
    BY <1>5, <2>3, <2>4 DEF Ensure, Attempt, Syscall
<1>6. CASE Status(p)
  BY <1>1, <1>6, GotoMoves, ReplyMoves
  DEF Status, LocksKept, ExclInv, Critical, Unsealing, Sealing, objs
<1>7. CASE Lock(p)
  <2>1. obj[p] \in Objs /\ obj[p] = reg /\ muOf[obj[p]] = NoProc
    BY <1>7 DEF Lock, ObjInv, ExclInv, TypeOK
  <2> QED
    BY <1>1, <1>7, <2>1, GotoMoves DEF Lock, LocksKept, TypeOK
<1> QED
  BY <1>3, <1>4, <1>5, <1>6, <1>7

LEMMA RegistryKeepsImage ==
  ASSUME TypeOK, ExclInv, MakeInv, NEW p \in Procs,
         Exists(p) \/ Get(p) \/ Ensure(p) \/ Status(p) \/ Lock(p)
  PROVE  ImageKept(p)
<1>1. {"c_file", "get", "ensure", "lock", "u_find", "s_source"} \subseteq Steps
  BY StepNames DEF Formatting, Registry, Unsealing, Sealing
<1>2. UNCHANGED disk
  BY DEF Exists, Get, Ensure, Status, Lock
<1>3. pc'[p] \in {"c_file", "get", "ensure", "status", "lock", "u_find", "s_source", "idle"}
  <2>1. CASE Exists(p)
    BY <1>1, <2>1, GotoMoves, ReplyMoves DEF Exists, ExclInv
  <2>2. CASE Get(p)
    BY <1>1, <2>2, GotoMoves, GotVaultMoves DEF Get, TypeOK
  <2>3. CASE Ensure(p)
    BY <2>3, ReplyMoves DEF Ensure, Attempt, Syscall, GotVault, TypeOK
  <2>4. CASE Status(p)
    BY <1>1, <2>4, GotoMoves, ReplyMoves DEF Status
  <2>5. CASE Lock(p)
    BY <1>1, <2>5, GotoMoves DEF Lock
  <2> QED
    BY <2>1, <2>2, <2>3, <2>4, <2>5
<1> QED
  BY <1>2, <1>3 DEF ImageKept, Making, Formatting, Destroying, disk

-----------------------------------------------------------------------------
TypeInv == TypeOK /\ ObjInv

LEMMA StepKeepsTypes == ASSUME TypeInv, NEW p \in Procs, Step(p) PROVE TypeInv'
<1>1. TypeOK /\ ObjInv
  BY DEF TypeInv
<1>2. Moved(p) /\ GlobalTypes'
  BY <1>1, StepTypes
<1>4. ObjKept(p)
  BY <1>1, CreateKeepsObj, DestroyKeepsObj, UnsealKeepsObj, SealKeepsObj, RegistryKeepsObj DEF Step
<1>3. TypeOK'
  BY <1>1, <1>2, <1>4, TypesOfStep DEF ObjKept
<1>5. ObjInv'
  BY <1>1, <1>2, <1>4 DEF ObjInv, ObjKept, Moved
<1> QED
  BY <1>3, <1>5 DEF TypeInv

LEMMA RequestKeepsTypes ==
  ASSUME TypeInv, NEW p \in Procs, NEW verb \in Requests, Request(p, verb)
  PROVE  TypeInv' /\ p \in Workers
<1>1. /\ pc[p] = "idle" /\ pc' = [pc EXCEPT ![p] = "exists"] /\ p \in Workers
      /\ op' = [op EXCEPT ![p] = verb] /\ res' = [res EXCEPT ![p] = "none"]
      /\ UNCHANGED <<disk, kernel, stub, objs, lp, obj, made, faults, crashes>>
  BY DEF Request
<1>2. verb \in Verbs /\ "exists" \in Steps
  BY LifecycleAssumption, StepNames
<1>5. LoopGiven'
  BY <1>1 DEF TypeInv, TypeOK, LoopGiven, LoopSteps, Unsealing
<1>3. TypeOK'
  BY <1>1, <1>2, <1>5 DEF TypeInv, TypeOK, disk, kernel, objs
<1>4. ObjInv'
  BY <1>1 DEF TypeInv, TypeOK, ObjInv, Critical, Unsealing, Sealing
<1> QED
  BY <1>1, <1>3, <1>4 DEF TypeInv

LEMMA StartTypes ==
  /\ Zero \in [Procs -> Loops \cup {0}] /\ Zero \in [Procs -> Objs \cup {0}]
  /\ Zero \in [Procs -> Images \cup {0}] /\ NoRes \in [Procs -> {"none", "ok", "error"}]
  /\ StartOp \in [Procs -> Verbs \cup {"none", "reconcile"}]
  /\ \A img : StartPc(img) \in [Procs -> {"get", "idle"}]
  /\ {"get", "idle"} \subseteq Steps
BY StepNames DEF Zero, NoRes, StartOp, StartPc, Registry

LEMMA StartKeepsTypes == ASSUME TypeInv, Restart \/ Reboot PROVE TypeInv'
<1>1. Startup
  BY DEF Restart, Reboot
<1>2. crashes' \in 0..MaxCrashes
  BY <1>1, LifecycleAssumption DEF Startup, TypeInv, TypeOK
<1>3. /\ mapper' \in Loops \cup {0} /\ mnt' \in Images \cup {0} /\ lazy' \subseteq Loops
      /\ backing' \in [Loops -> Images \cup {0}]
  BY DEF Restart, Reboot, kernel, TypeInv, TypeOK
<1>4. pc' \in [Procs -> Steps]
  BY <1>1, StartTypes DEF Startup
<1>7. LoopGiven'
  BY <1>1, StartTypes DEF Startup, LoopGiven, LoopSteps, Unsealing
<1>5. TypeOK'
  BY <1>1, <1>2, <1>3, <1>4, <1>7, StartTypes DEF Startup, disk, TypeInv, TypeOK
<1>6. ObjInv'
  BY <1>1, StartTypes DEF Startup, ObjInv, Zero, Critical, Unsealing, Sealing
<1> QED
  BY <1>5, <1>6 DEF TypeInv

LEMMA InitTypes == Init => TypeInv
<1> SUFFICES ASSUME Init PROVE TypeInv
  OBVIOUS
<1>1. /\ image \in Images \cup {0} /\ faults \in 0..MaxFaults /\ crashes \in 0..MaxCrashes
  BY LifecycleAssumption DEF Init, Images
<1>2. pc \in [Procs -> Steps]
  BY StartTypes DEF Init
<1>3. content \in [Images -> {"empty", "luks", "ready", "wiped"}]
  BY DEF Init
<1>6. LoopGiven
  BY StartTypes DEF Init, LoopGiven, LoopSteps, Unsealing
<1>4. TypeOK
  BY <1>1, <1>2, <1>3, <1>6, StartTypes DEF Init, TypeOK
<1>5. ObjInv
  BY StartTypes DEF Init, ObjInv, Zero, Critical, Unsealing, Sealing
<1> QED
  BY <1>4, <1>5 DEF TypeInv

LEMMA NextKeepsTypes == TypeInv /\ [Next]_vars => TypeInv'
<1>1. ASSUME TypeInv, UNCHANGED vars PROVE TypeInv'
  BY <1>1 DEF vars, disk, kernel, objs, locals, TypeInv, TypeOK, LoopGiven, ObjInv
<1> QED
  BY <1>1, StepKeepsTypes, RequestKeepsTypes, StartKeepsTypes DEF Next

(* Every reachable state is well typed; in particular there is always a     *)
(* Vault object for who needs a new one                                     *)
THEOREM LifecycleTypeCorrect == Spec => []TypeOK
<1>1. TypeInv => TypeOK
  BY DEF TypeInv
<1> QED
  BY <1>1, InitTypes, NextKeepsTypes, PTL DEF Spec

-----------------------------------------------------------------------------
RaceInv == TypeInv /\ ExclInv /\ MakeInv

LEMMA StepKeepsRace ==
  ASSUME RaceInv, NEW p \in Procs, Step(p)
  PROVE  RaceInv' /\ ImageKept(p)
<1>1. TypeOK /\ ObjInv /\ ExclInv /\ MakeInv
  BY DEF RaceInv, TypeInv
<1>2. TypeInv' /\ Moved(p)
  BY <1>1, StepKeepsTypes, StepTypes DEF TypeInv
<1>3. ~DestroyStep(p)
  BY <1>1 DEF ExclInv, Destroying, DestroyStep, DestroyMapped, DestroyMounted, DestroyFind,
     DestroyDetach, DestroyRemove, DestroyChattr, DestroyRmdir, DestroyForget, Refuse, Find,
     DetachLoop
<1>4. LocksKept(p) /\ ImageKept(p)
  BY <1>1, <1>3, CreateKeepsLocks, UnsealKeepsLocks, SealKeepsLocks, RegistryKeepsLocks,
     CreateKeepsImage, UnsealKeepsImage, SealKeepsImage, RegistryKeepsImage DEF Step
<1>5. ExclInv'
  <2> SUFFICES ASSUME NEW q \in Procs
               PROVE  /\ op'[q] # "destroy" /\ pc'[q] \notin Destroying
                      /\ obj'[q] \in {0, reg'}
                      /\ pc'[q] \in Critical => muOf'[obj'[q]] = q
                      /\ pc'[q] = "ensure" => hmu' = q /\ reg' = 0
    BY DEF ExclInv
  <2>1. op'[q] # "destroy"
    BY <1>1, <1>2 DEF ExclInv, Moved
  <2>2. CASE q = p
    BY <1>4, <2>1, <2>2 DEF LocksKept, ImageKept
  <2>3. CASE q # p
    <3>1. pc'[q] = pc[q] /\ obj'[q] = obj[q] /\ q # NoProc
      BY <1>2, <2>3, LifecycleAssumption DEF Moved
    <3>2. pc'[q] \notin Destroying /\ obj'[q] \in {0, reg'}
      BY <1>1, <1>4, <3>1 DEF ExclInv, LocksKept
    <3>3. ASSUME pc[q] \in Critical PROVE muOf'[obj'[q]] = q
      <4>1. obj[q] \in Objs /\ muOf[obj[q]] = q
        BY <1>1, <3>3 DEF ExclInv, ObjInv, TypeOK
      <4> QED
        BY <1>4, <2>3, <3>1, <4>1 DEF LocksKept
    <3>4. ASSUME pc[q] = "ensure" PROVE hmu' = q /\ reg' = 0
      <4>1. hmu = q /\ reg = 0
        BY <1>1, <3>4 DEF ExclInv
      <4>2. pc[p] # "ensure"
        BY <1>1, <2>3, <4>1 DEF ExclInv
      <4> QED
        BY <1>4, <2>3, <3>1, <4>1, <4>2 DEF LocksKept
    <3> QED
      BY <2>1, <3>1, <3>2, <3>3, <3>4
  <2> QED
    BY <2>2, <2>3
<1>6. MakeInv'
  <2>1. ASSUME NEW q \in Procs \ {p}, pc[q] \in Making PROVE pc[p] \notin Making /\ image # 0
    BY <1>1, <2>1 DEF MakeInv
  <2>2. \A q \in Procs : pc'[q] \in Making => image' # 0
    BY <1>2, <1>4, <2>1 DEF Moved, ImageKept
  <2>3. \A q, r \in Procs : pc'[q] \in Making /\ pc'[r] \in Making => q = r
    <3>1. \A q \in Procs \ {p} : ~(pc'[q] \in Making /\ pc'[p] \in Making)
      BY <1>2, <1>4, <2>1 DEF Moved, ImageKept
    <3>2. \A q, r \in Procs \ {p} : pc'[q] \in Making /\ pc'[r] \in Making => q = r
      BY <1>1, <1>2 DEF Moved, MakeInv
    <3> QED
      BY <3>1, <3>2
  <2>4. \A q \in Procs : pc'[q] \in {"c_find", "c_attach", "c_format"} => content'[image'] = "empty"
    <3> SUFFICES ASSUME NEW q \in Procs \ {p}, pc'[q] \in {"c_find", "c_attach", "c_format"}
                 PROVE  content'[image'] = "empty"
      BY <1>4 DEF ImageKept
    <3>1. pc[q] \in Making /\ content[image] = "empty"
      BY <1>1, <1>2 DEF Moved, MakeInv, Making, Formatting
    <3>2. image' = image /\ content'[image] = content[image]
      BY <1>4, <2>1, <3>1 DEF ImageKept
    <3> QED
      BY <3>1, <3>2
  <2> QED
    BY <2>2, <2>3, <2>4 DEF MakeInv
<1> QED
  BY <1>2, <1>4, <1>5, <1>6 DEF RaceInv

LEMMA RequestKeepsRace ==
  ASSUME RaceInv, "destroy" \notin Requests,
         NEW p \in Procs, NEW verb \in Requests, Request(p, verb)
  PROVE  RaceInv' /\ UNCHANGED disk
<1>1. /\ pc[p] = "idle" /\ pc' = [pc EXCEPT ![p] = "exists"]
      /\ op' = [op EXCEPT ![p] = verb]
      /\ UNCHANGED <<disk, objs, obj>>
  BY DEF Request
<1>2. TypeInv'
  BY RequestKeepsTypes DEF RaceInv
<1>3. "exists" \notin Destroying \cup Critical \cup Making
  BY DEF Destroying, Critical, Unsealing, Sealing, Making, Formatting
<1>4. pc'[p] = "exists" /\ op'[p] = verb
  BY <1>1 DEF RaceInv, TypeInv, TypeOK
<1>5. \A q \in Procs \ {p} : pc'[q] = pc[q] /\ op'[q] = op[q]
  BY <1>1 DEF RaceInv, TypeInv, TypeOK
<1>6. ExclInv'
  BY <1>1, <1>3, <1>4, <1>5 DEF RaceInv, ExclInv, objs
<1>7. MakeInv'
  BY <1>1, <1>3, <1>4, <1>5 DEF RaceInv, MakeInv, disk
<1> QED
  BY <1>1, <1>2, <1>6, <1>7 DEF RaceInv

LEMMA StartIsCalm ==
  ASSUME TypeInv, \A p \in Procs : pc[p] \in {"get", "idle"} /\ op[p] \in {"reconcile", "none"}
                                   /\ obj[p] = 0
  PROVE  RaceInv
BY DEF RaceInv, ExclInv, MakeInv, Destroying, Critical, Unsealing, Sealing, Making, Formatting

LEMMA StartKeepsRace ==
  ASSUME RaceInv, Restart \/ Reboot
  PROVE  RaceInv' /\ UNCHANGED disk
<1>1. TypeInv'
  BY StartKeepsTypes DEF RaceInv
<1>2. pc' = StartPc(image) /\ op' = StartOp /\ obj' = Zero /\ UNCHANGED disk
  BY DEF Restart, Reboot, Startup
<1>3. \A p \in Procs : pc'[p] \in {"get", "idle"} /\ op'[p] \in {"reconcile", "none"} /\ obj'[p] = 0
  BY <1>2 DEF StartPc, StartOp, Zero
<1>4. ExclInv' /\ MakeInv'
  BY <1>3 DEF ExclInv, MakeInv, Destroying, Critical, Unsealing, Sealing, Making, Formatting
<1> QED
  BY <1>1, <1>2, <1>4 DEF RaceInv

LEMMA InitRace == Init => RaceInv
<1> SUFFICES ASSUME Init PROVE RaceInv
  OBVIOUS
<1>1. TypeInv
  BY InitTypes
<1>2. \A p \in Procs : pc[p] \in {"get", "idle"} /\ op[p] \in {"reconcile", "none"} /\ obj[p] = 0
  BY DEF Init, StartPc, StartOp, Zero
<1> QED
  BY <1>1, <1>2, StartIsCalm

LEMMA NextKeepsRace == "destroy" \notin Requests /\ RaceInv /\ [Next]_vars => RaceInv'
<1>1. ASSUME RaceInv, UNCHANGED vars PROVE RaceInv'
  BY <1>1 DEF vars, disk, kernel, objs, locals, RaceInv, TypeInv, TypeOK, LoopGiven, ObjInv, ExclInv, MakeInv
<1> QED
  BY <1>1, StepKeepsRace, RequestKeepsRace, StartKeepsRace DEF Next

LEMMA RaceInvariance == "destroy" \notin Requests => (Spec => []RaceInv)
<1>1. ASSUME "destroy" \notin Requests PROVE Init /\ [][Next]_vars => []RaceInv
  <2>1. RaceInv /\ [Next]_vars => RaceInv'
    BY <1>1, NextKeepsRace
  <2> QED
    BY <2>1, InitRace, PTL
<1> QED
  BY <1>1 DEF Spec

(* Where nobody destroys, Unseal and Seal of one id exclude each other, for *)
(* any number of goroutines, faults and crashes (agent_handler.go 114)      *)
THEOREM TransitionsExclude == "destroy" \notin Requests => (Spec => []OneTransitionAtATime)
<1>1. RaceInv => OneTransitionAtATime
  <2> SUFFICES ASSUME RaceInv, NEW p \in Procs, NEW q \in Procs,
                      pc[p] \in Critical, pc[q] \in Critical
               PROVE  p = q
    BY DEF OneTransitionAtATime
  <2>1. obj[p] = reg /\ obj[q] = reg
    BY DEF RaceInv, TypeInv, ObjInv, ExclInv
  <2> QED
    BY <2>1 DEF RaceInv, ExclInv
<1> QED
  BY <1>1, RaceInvariance, PTL

(* Where nobody destroys, no finished file system at the vault's path is    *)
(* formatted or emptied (provision.go 153, 165)                             *)
THEOREM ReadyAlwaysStays == "destroy" \notin Requests => (Spec => ReadyStaysReady)
<1>1. ASSUME "destroy" \notin Requests
      PROVE  RaceInv /\ [Next]_vars =>
               [\A g \in Images : content[g] = "ready" /\ image = g => content'[g] = "ready"]_vars
  <2> SUFFICES ASSUME RaceInv, Next, NEW g \in Images, content[g] = "ready", image = g
               PROVE  content'[g] = "ready"
    BY DEF vars
  <2>1. image # 0
    BY DEF Images
  <2>2. ASSUME NEW p \in Procs, Step(p) PROVE content'[g] = "ready"
    BY <2>1, <2>2, StepKeepsRace DEF ImageKept
  <2>3. ASSUME UNCHANGED disk PROVE content'[g] = "ready"
    BY <2>3 DEF disk
  <2> QED
    BY <1>1, <2>2, <2>3, RequestKeepsRace, StartKeepsRace DEF Next
<1>2. ASSUME "destroy" \notin Requests PROVE Init /\ [][Next]_vars => ReadyStaysReady
  <2>1. RaceInv /\ [Next]_vars =>
          [\A g \in Images : content[g] = "ready" /\ image = g => content'[g] = "ready"]_vars
    BY <1>1, <1>2
  <2>2. Init /\ [][Next]_vars => []RaceInv
    BY <1>2, RaceInvariance DEF Spec
  <2> QED
    BY <2>1, <2>2, PTL DEF ReadyStaysReady
<1> QED
  BY <1>2 DEF Spec

-----------------------------------------------------------------------------
(* One request at a time *)
OneWorker == \A p, q \in Workers : p = q

(* Then one process runs at a time, and the startup pass is Main's verb *)
TurnInv ==
  /\ \A p, q \in Procs : pc[p] # "idle" /\ pc[q] # "idle" => p = q
  /\ \A p \in Procs : op[p] = "reconcile" <=> p = Main

(* The order of umount, luksClose and losetup --detach, and of their        *)
(* opposites: what is mounted is the image at the path, on an open mapper,  *)
(* on an attached loop device, and the image has no second device.          *)
KernelInv ==
  /\ \A d \in lazy : d = mapper
  /\ mapper # 0 => backing[mapper] # 0
  /\ mnt # 0 => mapper # 0 /\ backing[mapper] = mnt /\ mnt = image
  /\ \A d, e \in Attached : d = e

(* What each step may count on, whatever failed before *)
CreateAt(p) ==
  /\ pc[p] \in Formatting => op[p] = "create"
  /\ pc[p] = "c_file" => image = 0
  /\ pc[p] \in Making => image # 0 /\ mnt = 0
  /\ pc[p] \in {"c_find", "c_attach"} => Attached = {}
  /\ pc[p] \in {"c_format", "c_open", "c_mkfs"} => lp[p] \in Attached
  /\ pc[p] = "c_mkfs" => mapper = lp[p]
  /\ pc[p] \in {"c_close", "c_detach"} => content[image] = "ready" /\ Attached \subseteq {lp[p]}
  /\ pc[p] = "c_detach" => mapper = 0
  /\ pc[p] \in {"get", "ensure"} /\ op[p] = "create" => Goal("create")

DestroyAt(p) ==
  /\ pc[p] \in Destroying => op[p] = "destroy"
  /\ pc[p] \in Destroying \ {"d_mapped"} => mapper = 0
  /\ pc[p] = "d_detach" => lp[p] \in Attached
  /\ pc[p] = "d_remove" => Attached = {}
  /\ pc[p] \in {"d_chattr", "d_rmdir", "d_forget"} => image = 0
  /\ pc[p] = "d_rmdir" => stub = "bare"
  /\ pc[p] = "d_forget" => stub = "absent"

UnsealAt(p) ==
  /\ pc[p] \in Unsealing => op[p] = "unseal"
  /\ pc[p] = "u_attach" => Attached = {}
  /\ pc[p] \in {"u_open", "u_source", "u_mount"} => lp[p] \in Attached
  /\ pc[p] \in {"u_source", "u_mount"} => mapper = lp[p]

SealAt(p) ==
  /\ pc[p] \in Sealing => op[p] \in {"seal", "reconcile"}
  /\ pc[p] \in {"s_chattr", "s_close", "s_find", "s_detach"} => mnt = 0
  /\ pc[p] \in {"s_close", "s_find", "s_detach"} => stub = "immutable"
  /\ pc[p] \in {"s_find", "s_detach"} => mapper = 0
  /\ pc[p] = "s_detach" => lp[p] \in Attached

RegistryAt(p) ==
  /\ pc[p] = "exists" => op[p] \in Verbs
  /\ pc[p] \in {"get", "ensure"} => op[p] \in {"create", "unseal", "seal", "reconcile"}
  /\ pc[p] = "status" => p = Main
  /\ pc[p] = "lock" => op[p] \in {"unseal", "seal", "reconcile"}

At(p) == RegistryAt(p) /\ CreateAt(p) /\ DestroyAt(p) /\ UnsealAt(p) /\ SealAt(p)

(* What it may count on as long as nothing has failed *)
Whole == Sealed \/ (mnt # 0 /\ mnt = image)

FreeAt(p) ==
  /\ pc[p] \notin {"c_undo_close", "c_undo_detach"}
  /\ pc[p] \in {"c_file", "c_find", "c_attach", "c_format", "c_open", "c_detach", "c_undo_remove"} =>
       mapper = 0
  /\ pc[p] = "c_open" => content[image] # "empty"
  /\ pc[p] = "c_undo_remove" => Attached = {}
  /\ pc[p] \in {"exists", "get", "ensure", "lock", "d_mapped", "u_find", "u_attach", "u_open"} =>
       p = Main \/ Whole
  /\ pc[p] \in {"u_abort", "b_detach"} => Sealed
  /\ pc[p] \in {"b_chattr", "b_close"} => mnt = 0
  /\ pc[p] = "s_umount" => mnt # 0
  /\ obj[p] # 0 => reg # 0

FreeInv ==
  faults = 0 =>
    /\ \A d \in Loops : backing[d] \in {0, image}
    /\ mnt # 0 => stub = "immutable"
    /\ reg # 0 /\ (\A p \in Procs : pc[p] \notin {"d_rmdir", "d_forget"}) => stub = "immutable"
    /\ AllIdle => Whole
    /\ \A p \in Procs : FreeAt(p)

(* The same of the process that runs, and of its step *)
FreeNow(p) ==
  faults = 0 =>
    /\ \A d \in Loops : backing[d] \in {0, image}
    /\ mnt # 0 => stub = "immutable"
    /\ reg # 0 /\ pc[p] \notin {"d_rmdir", "d_forget"} => stub = "immutable"
    /\ pc[p] = "idle" => Whole
    /\ FreeAt(p)

Before(p) == TypeOK /\ ObjInv /\ KernelInv /\ At(p) /\ FreeNow(p) /\ (op[p] = "reconcile" <=> p = Main)

Answers(p) ==
  /\ res[p] = "none" /\ res'[p] = "ok" /\ p # Main => Goal(op[p])'
  /\ pc[p] \in Destroying /\ pc'[p] = "idle" /\ res'[p] = "error" /\ faults' = faults => ~Sealed

After(p) == KernelInv' /\ At(p)' /\ FreeNow(p)' /\ Answers(p)

LEMMA OneAttached ==
  ASSUME KernelInv
  PROVE  ~(Cardinality(Attached) > 1)
<1>1. CASE Attached = {}
  BY <1>1, FS_EmptySet
<1>2. CASE Attached # {}
  <2>1. PICK d \in Attached : TRUE
    BY <1>2
  <2>2. Attached = {d}
    BY <2>1 DEF KernelInv
  <2>3. Cardinality(Attached) = 1
    BY <2>2, FS_Singleton
  <2> QED
    BY <2>3
<1> QED
  BY <1>1, <1>2

LEMMA CreateSound ==
  ASSUME NEW p \in Procs, Before(p), CreateStep(p)
  PROVE  After(p)
<1> USE DEF Before
<1>0. 0 \notin Loops
  BY DEF Loops
<1>1. CASE CreateRefused(p)
  <2>1. pc[p] = "c_file" /\ obj'[p] \in {0, obj[p]} /\ (pc'[p] = "idle" \/ res' = res)
        /\ UNCHANGED <<image, content, backing, lazy, mapper, mnt, stub, reg, op>>
    BY <1>1, ReplyMoves DEF CreateRefused, Moved, disk, kernel, objs
  <2>2. NoFault /\ pc'[p] = "idle" /\ res'[p] = "error"
    BY <1>1, ReplyMoves DEF CreateRefused, NoFault
  <2>3. KernelInv'
    BY <2>1 DEF KernelInv, Attached
  <2>4. At(p)'
    BY <2>2
    DEF At, RegistryAt, CreateAt, DestroyAt, UnsealAt, SealAt, Formatting, Making,
       Destroying, Unsealing, Sealing, Critical, Registry
  <2>5. FreeNow(p)'
    BY <2>1, <2>2, FaultTypes DEF KernelInv, FreeNow, FreeAt, Whole, Sealed
  <2>6. Answers(p)
    BY <2>1, <2>2 DEF Answers, Destroying, Unsealing, Sealing
  <2> QED
    BY <2>3, <2>4, <2>5, <2>6 DEF After
<1>2. CASE CreateFile(p)
  <2>1. pc[p] = "c_file" /\ obj'[p] \in {0, obj[p]} /\ (pc'[p] = "idle" \/ res' = res)
        /\ UNCHANGED <<backing, lazy, mapper, mnt, stub, reg, op>>
    BY <1>2, ReplyMoves DEF CreateFile, Moved, kernel, objs
  <2>2. \/ NoFault /\ image # 0 /\ UNCHANGED disk /\ pc'[p] = "idle" /\ res'[p] = "error"
        \/ /\ image = 0 /\ Spare # {} /\ image' = NewImage
           /\ content' = [content EXCEPT ![NewImage] = "empty"]
           /\ \/ NoFault /\ pc'[p] = "c_find" /\ lp'[p] = lp[p]
              \/ Fault /\ pc'[p] = "idle" /\ res'[p] = "error"
    BY <1>2, ReplyMoves DEF CreateFile, TypeOK
  <2>3. KernelInv'
    BY <2>1, <2>2, NewImageIsNew DEF KernelInv, At, CreateAt, Attached
  <2>4. At(p)'
    BY <2>1, <2>2, NewImageIsNew
    DEF KernelInv, At, RegistryAt, CreateAt, DestroyAt, UnsealAt, SealAt, Attached,
       Formatting, Destroying, Unsealing, Sealing, Critical, Registry
  <2>5. FreeNow(p)'
    BY <2>1, <2>2, FaultTypes DEF At, CreateAt, FreeNow, FreeAt
  <2>6. Answers(p)
    BY <2>1, <2>2, FaultTypes DEF At, CreateAt, Answers
  <2> QED
    BY <2>3, <2>4, <2>5, <2>6 DEF After
<1>3. CASE CreateFind(p)
  <2>1. pc[p] = "c_find" /\ obj'[p] \in {0, obj[p]} /\ (pc'[p] = "idle" \/ res' = res)
        /\ UNCHANGED <<image, content, backing, lazy, mapper, mnt, stub, reg, op>>
    BY <1>3, GotoMoves, WithMoves, StepNames
    DEF CreateFind, Find, Continue, Moved, Formatting, disk, kernel, objs, Attached
  <2>2. \/ NoFault /\ \E d \in Attached : pc'[p] = "c_format" /\ lp'[p] = d
        \/ NoFault /\ Attached = {} /\ pc'[p] = "c_attach" /\ lp'[p] = lp[p]
        \/ Fault /\ pc'[p] = "c_undo_remove" /\ lp'[p] = lp[p]
    BY <1>3, GotoMoves, WithMoves, OneAttached, StepNames
    DEF CreateFind, Find, Continue, Formatting, Attached
  <2>3. KernelInv'
    BY <2>1 DEF KernelInv, Attached
  <2>4. At(p)'
    BY <2>1, <2>2
    DEF At, RegistryAt, CreateAt, DestroyAt, UnsealAt, SealAt, Attached, Formatting, Making,
       Destroying, Unsealing, Sealing, Critical, Registry
  <2>5. FreeNow(p)'
    BY <2>1, <2>2, FaultTypes DEF FreeNow, FreeAt
  <2>6. Answers(p)
    BY <2>1, <2>2 DEF Answers
  <2> QED
    BY <2>3, <2>4, <2>5, <2>6 DEF After
<1>4. CASE CreateAttach(p)
  <2>1. pc[p] = "c_attach" /\ obj'[p] \in {0, obj[p]} /\ (pc'[p] = "idle" \/ res' = res)
        /\ UNCHANGED <<image, content, lazy, mapper, mnt, stub, reg, op>>
    BY <1>4, GotoMoves, WithMoves, FreeIsFree, StepNames
    DEF CreateAttach, Attach, Attempt, Syscall, Continue, Moved, Formatting, disk, kernel,
       objs
  <2>2. Attempt(image # 0 /\ Free # {},
          backing' = [backing EXCEPT ![Min(Free)] = image], UNCHANGED backing,
          pc'[p] = "c_format" /\ lp'[p] = Min(Free),
          pc'[p] = "c_undo_remove" /\ lp'[p] = lp[p])
    BY <1>4, GotoMoves, WithMoves, FreeIsFree, StepNames
    DEF CreateAttach, Attach, Attempt, Syscall, Continue, Formatting
  <2>3. KernelInv'
    BY <2>1, <2>2 DEF KernelInv, At, CreateAt, Attached, Attempt, Syscall, TypeOK
  <2>4. At(p)'
    BY <2>1, <2>2, FreeIsFree
    DEF At, RegistryAt, CreateAt, DestroyAt, UnsealAt, SealAt, Attached, Attempt, Syscall,
       TypeOK, Formatting, Making, Destroying, Unsealing, Sealing, Critical, Registry
  <2>5. FreeNow(p)'
    BY <2>1, <2>2, FaultTypes
    DEF At, CreateAt, FreeNow, FreeAt, Attached, Attempt, Syscall, TypeOK
  <2>6. Answers(p)
    BY <2>1, <2>2 DEF Answers, Attempt, Syscall
  <2> QED
    BY <2>3, <2>4, <2>5, <2>6 DEF After
<1>5. CASE CreateFormat(p)
  <2>1. pc[p] = "c_format" /\ obj'[p] \in {0, obj[p]} /\ (pc'[p] = "idle" \/ res' = res)
        /\ UNCHANGED <<image, backing, lazy, mapper, mnt, stub, reg, op>>
    BY <1>5, GotoMoves, StepNames
    DEF CreateFormat, Attempt, Syscall, Moved, Formatting, disk, kernel, objs
  <2>2. Attempt(CanDetach(lp[p]) /\ mapper # lp[p],
          content' = [content EXCEPT ![backing[lp[p]]] = "luks"], UNCHANGED content,
          pc'[p] = "c_open" /\ lp'[p] = lp[p],
          pc'[p] = "c_undo_detach" /\ lp'[p] = lp[p])
    BY <1>5, GotoMoves, StepNames DEF CreateFormat, Attempt, Syscall, Formatting
  <2>3. KernelInv'
    BY <2>1 DEF KernelInv, Attached
  <2>4. At(p)'
    BY <2>1, <2>2
    DEF At, RegistryAt, CreateAt, DestroyAt, UnsealAt, SealAt, Attached, Attempt, Syscall,
       Formatting, Making, Destroying, Unsealing, Sealing, Critical, Registry
  <2>5. FreeNow(p)'
    BY <1>0, <2>1, <2>2, FaultTypes
    DEF At, CreateAt, FreeNow, FreeAt, Attached, Attempt, Syscall, CanDetach, TypeOK
  <2>6. Answers(p)
    BY <2>1, <2>2 DEF Answers, Attempt, Syscall
  <2> QED
    BY <2>3, <2>4, <2>5, <2>6 DEF After
<1>6. CASE CreateOpen(p)
  <2>1. pc[p] = "c_open" /\ obj'[p] \in {0, obj[p]} /\ (pc'[p] = "idle" \/ res' = res)
        /\ UNCHANGED <<image, content, backing, lazy, mnt, stub, reg, op>>
    BY <1>6, GotoMoves, StepNames
    DEF CreateOpen, Attempt, Syscall, Moved, Formatting, disk, kernel, objs
  <2>2. Attempt(CanOpen(lp[p]),
          mapper' = lp[p], UNCHANGED mapper,
          pc'[p] = "c_mkfs" /\ lp'[p] = lp[p],
          pc'[p] = "c_undo_detach" /\ lp'[p] = lp[p])
    BY <1>6, GotoMoves, StepNames DEF CreateOpen, Attempt, Syscall, Formatting
  <2>3. KernelInv'
    BY <1>0, <2>1, <2>2
    DEF KernelInv, At, CreateAt, Attached, Attempt, Syscall, CanOpen, TypeOK
  <2>4. At(p)'
    BY <2>1, <2>2
    DEF At, RegistryAt, CreateAt, DestroyAt, UnsealAt, SealAt, Attached, Attempt, Syscall,
       Formatting, Making, Destroying, Unsealing, Sealing, Critical, Registry
  <2>5. FreeNow(p)'
    BY <2>1, <2>2, FaultTypes
    DEF At, CreateAt, FreeNow, FreeAt, Attached, Attempt, Syscall, CanOpen, CanDetach,
       HasLuks
  <2>6. Answers(p)
    BY <2>1, <2>2 DEF Answers, Attempt, Syscall
  <2> QED
    BY <2>3, <2>4, <2>5, <2>6 DEF After
<1>7. CASE CreateMkfs(p)
  <2>1. pc[p] = "c_mkfs" /\ obj'[p] \in {0, obj[p]} /\ (pc'[p] = "idle" \/ res' = res)
        /\ UNCHANGED <<image, backing, lazy, mapper, mnt, stub, reg, op>>
    BY <1>7, GotoMoves, StepNames
    DEF CreateMkfs, Attempt, Syscall, Moved, Formatting, disk, kernel, objs
  <2>2. Attempt(mapper # 0 /\ mnt = 0,
          content' = [content EXCEPT ![backing[mapper]] = "ready"], UNCHANGED content,
          pc'[p] = "c_close" /\ lp'[p] = lp[p],
          pc'[p] = "c_undo_close" /\ lp'[p] = lp[p])
    BY <1>7, GotoMoves, StepNames DEF CreateMkfs, Attempt, Syscall, Formatting
  <2>3. KernelInv'
    BY <2>1 DEF KernelInv, Attached
  <2>4. At(p)'
    BY <2>1, <2>2
    DEF KernelInv, At, RegistryAt, CreateAt, DestroyAt, UnsealAt, SealAt, Attached, Attempt,
       Syscall, TypeOK, Formatting, Making, Destroying, Unsealing, Sealing, Critical,
       Registry
  <2>5. FreeNow(p)'
    BY <1>0, <2>1, <2>2, FaultTypes
    DEF At, CreateAt, FreeNow, FreeAt, Attached, Attempt, Syscall, Formatting, Making
  <2>6. Answers(p)
    BY <2>1, <2>2 DEF Answers, Attempt, Syscall
  <2> QED
    BY <2>3, <2>4, <2>5, <2>6 DEF After
<1>8. CASE CreateClose(p)
  <2>1. pc[p] = "c_close" /\ obj'[p] \in {0, obj[p]} /\ (pc'[p] = "idle" \/ res' = res)
        /\ UNCHANGED <<image, content, mnt, stub, reg, op>>
    BY <1>8, GotoMoves, StepNames
    DEF CreateClose, CloseMapper, Attempt, Syscall, Continue, Moved, Formatting, disk,
       kernel, objs
  <2>2. Attempt(CanClose,
          Close, UNCHANGED <<mapper, lazy, backing>>,
          pc'[p] = "c_detach" /\ lp'[p] = lp[p],
          pc'[p] = "c_undo_detach" /\ lp'[p] = lp[p])
    BY <1>8, GotoMoves, StepNames
    DEF CreateClose, CloseMapper, Attempt, Syscall, Continue, Formatting
  <2>3. KernelInv'
    BY <2>1, <2>2 DEF KernelInv, Attached, Attempt, Syscall, CanClose, Close
  <2>4. At(p)'
    BY <2>1, <2>2
    DEF At, RegistryAt, CreateAt, DestroyAt, UnsealAt, SealAt, Attached, Attempt, Syscall,
       Close, Formatting, Making, Destroying, Unsealing, Sealing, Critical, Registry
  <2>5. FreeNow(p)'
    BY <2>1, <2>2, FaultTypes
    DEF At, CreateAt, FreeNow, FreeAt, Attempt, Syscall, CanClose, Close, Formatting, Making
  <2>6. Answers(p)
    BY <2>1, <2>2 DEF Answers, Attempt, Syscall
  <2> QED
    BY <2>3, <2>4, <2>5, <2>6 DEF After
<1>9. CASE CreateDetach(p)
  <2>1. pc[p] = "c_detach" /\ obj'[p] \in {0, obj[p]} /\ (pc'[p] = "idle" \/ res' = res)
        /\ UNCHANGED <<image, content, mapper, mnt, stub, reg, op>>
    BY <1>9, GotoMoves, StepNames
    DEF CreateDetach, DetachLoop, Attempt, Syscall, Continue, Moved, Formatting, Registry,
       disk, kernel, objs
  <2>2. Attempt(CanDetach(lp[p]),
          Detach(lp[p]), UNCHANGED <<backing, lazy>>,
          pc'[p] = "get" /\ lp'[p] = lp[p],
          pc'[p] = "c_undo_remove" /\ lp'[p] = lp[p])
    BY <1>9, GotoMoves, StepNames
    DEF CreateDetach, DetachLoop, Attempt, Syscall, Continue, Formatting, Registry
  <2>3. KernelInv'
    BY <2>1, <2>2 DEF KernelInv, Attached, Attempt, Syscall, Detach, TypeOK
  <2>4. At(p)'
    BY <1>0, <2>1, <2>2
    DEF At, RegistryAt, CreateAt, DestroyAt, UnsealAt, SealAt, Goal, Sealed, Attached,
       Attempt, Syscall, Detach, TypeOK, Formatting, Making, Destroying, Unsealing, Sealing,
       Critical, Registry
  <2>5. FreeNow(p)'
    BY <1>0, <2>1, <2>2, FaultTypes
    DEF KernelInv, At, CreateAt, FreeNow, FreeAt, Whole, Sealed, Attached, Attempt, Syscall,
       CanDetach, Detach, TypeOK
  <2>6. Answers(p)
    BY <2>1, <2>2 DEF Answers, Attempt, Syscall
  <2> QED
    BY <2>3, <2>4, <2>5, <2>6 DEF After
<1>10. CASE UndoClose(p)
  <2>1. pc[p] = "c_undo_close" /\ obj'[p] \in {0, obj[p]} /\ (pc'[p] = "idle" \/ res' = res)
        /\ UNCHANGED <<image, content, mnt, stub, reg, op>>
    BY <1>10, GotoMoves, StepNames
    DEF UndoClose, CloseMapper, Attempt, Syscall, Continue, Moved, Formatting, disk, kernel,
       objs
  <2>2. Attempt(CanClose,
          Close, UNCHANGED <<mapper, lazy, backing>>,
          pc'[p] = "c_undo_detach" /\ lp'[p] = lp[p],
          pc'[p] = "c_undo_detach" /\ lp'[p] = lp[p])
    BY <1>10, GotoMoves, StepNames
    DEF UndoClose, CloseMapper, Attempt, Syscall, Continue, Formatting
  <2>3. KernelInv'
    BY <2>1, <2>2 DEF KernelInv, Attached, Attempt, Syscall, CanClose, Close
  <2>4. At(p)'
    BY <2>1, <2>2
    DEF At, RegistryAt, CreateAt, DestroyAt, UnsealAt, SealAt, Attempt, Syscall, Formatting,
       Making, Destroying, Unsealing, Sealing, Critical, Registry
  <2>5. FreeNow(p)'
    BY <2>1, <2>2, FaultTypes DEF FreeNow, FreeAt, Attempt, Syscall
  <2>6. Answers(p)
    BY <2>1, <2>2 DEF Answers, Attempt, Syscall
  <2> QED
    BY <2>3, <2>4, <2>5, <2>6 DEF After
<1>11. CASE UndoDetach(p)
  <2>1. pc[p] = "c_undo_detach" /\ obj'[p] \in {0, obj[p]} /\ (pc'[p] = "idle" \/ res' = res)
        /\ UNCHANGED <<image, content, mapper, mnt, stub, reg, op>>
    BY <1>11, GotoMoves, StepNames
    DEF UndoDetach, DetachLoop, Attempt, Syscall, Continue, Moved, Formatting, disk, kernel,
       objs
  <2>2. Attempt(CanDetach(lp[p]),
          Detach(lp[p]), UNCHANGED <<backing, lazy>>,
          pc'[p] = "c_undo_remove" /\ lp'[p] = lp[p],
          pc'[p] = "c_undo_remove" /\ lp'[p] = lp[p])
    BY <1>11, GotoMoves, StepNames
    DEF UndoDetach, DetachLoop, Attempt, Syscall, Continue, Formatting
  <2>3. KernelInv'
    BY <2>1, <2>2 DEF KernelInv, Attached, Attempt, Syscall, Detach, TypeOK
  <2>4. At(p)'
    BY <2>1, <2>2
    DEF At, RegistryAt, CreateAt, DestroyAt, UnsealAt, SealAt, Attempt, Syscall, Formatting,
       Making, Destroying, Unsealing, Sealing, Critical, Registry
  <2>5. FreeNow(p)'
    BY <2>1, <2>2, FaultTypes DEF FreeNow, FreeAt, Attempt, Syscall
  <2>6. Answers(p)
    BY <2>1, <2>2 DEF Answers, Attempt, Syscall
  <2> QED
    BY <2>3, <2>4, <2>5, <2>6 DEF After
<1>12. CASE UndoRemove(p)
  <2>1. pc[p] = "c_undo_remove" /\ obj'[p] \in {0, obj[p]} /\ (pc'[p] = "idle" \/ res' = res)
        /\ UNCHANGED <<content, backing, lazy, mapper, mnt, stub, reg, op>>
    BY <1>12, ReplyMoves DEF UndoRemove, Moved, disk, kernel, objs
  <2>2. Syscall(TRUE, image' = 0, UNCHANGED image, pc'[p] = "idle" /\ res'[p] = "error", pc'[p] = "idle" /\ res'[p] = "error")
    BY <1>12, ReplyMoves DEF UndoRemove
  <2>3. KernelInv'
    BY <2>1, <2>2
    DEF KernelInv, At, CreateAt, Attached, Syscall, Formatting, Making, Destroying,
       Unsealing, Sealing
  <2>4. At(p)'
    BY <2>2
    DEF At, RegistryAt, CreateAt, DestroyAt, UnsealAt, SealAt, Syscall, Formatting, Making,
       Destroying, Unsealing, Sealing, Critical, Registry
  <2>5. FreeNow(p)'
    BY <2>1, <2>2, FaultTypes
    DEF KernelInv, FreeNow, FreeAt, Whole, Sealed, Attached, Syscall
  <2>6. Answers(p)
    BY <2>1, <2>2 DEF Answers, Syscall, Destroying, Unsealing, Sealing
  <2> QED
    BY <2>3, <2>4, <2>5, <2>6 DEF After
<1> QED
  BY <1>1, <1>2, <1>3, <1>4, <1>5, <1>6, <1>7, <1>8, <1>9, <1>10, <1>11, <1>12
  DEF CreateStep

LEMMA DestroySound ==
  ASSUME NEW p \in Procs, Before(p), DestroyStep(p)
  PROVE  After(p)
<1> USE DEF Before
<1>0. 0 \notin Loops
  BY DEF Loops
<1>1. CASE DestroyMapped(p)
  <2>1. pc[p] = "d_mapped" /\ obj'[p] \in {0, obj[p]} /\ (pc'[p] = "idle" \/ res' = res)
        /\ UNCHANGED <<image, content, backing, lazy, mapper, mnt, stub, reg, op>>
    BY <1>1, GotoMoves, ReplyMoves, StepNames
    DEF DestroyMapped, Refuse, Moved, Destroying, disk, kernel, objs
  <2>2. \/ NoFault /\ ~(mapper # 0) /\ pc'[p] = "d_mounted" /\ lp'[p] = lp[p]
        \/ NoFault /\ mapper # 0 /\ pc'[p] = "idle" /\ res'[p] = "error"
        \/ Fault /\ pc'[p] = "idle" /\ res'[p] = "error"
    BY <1>1, GotoMoves, ReplyMoves, StepNames DEF DestroyMapped, Refuse, Destroying
  <2>3. KernelInv'
    BY <2>1 DEF KernelInv, Attached
  <2>4. At(p)'
    BY <2>1, <2>2
    DEF At, RegistryAt, CreateAt, DestroyAt, UnsealAt, SealAt, Formatting, Making,
       Destroying, Unsealing, Sealing, Critical, Registry
  <2>5. FreeNow(p)'
    BY <2>1, <2>2, FaultTypes DEF At, DestroyAt, FreeNow, FreeAt, Whole, Sealed, Destroying
  <2>6. Answers(p)
    BY <2>1, <2>2, FaultTypes DEF Answers, Sealed
  <2> QED
    BY <2>3, <2>4, <2>5, <2>6 DEF After
<1>2. CASE DestroyMounted(p)
  <2>1. pc[p] = "d_mounted" /\ obj'[p] \in {0, obj[p]} /\ (pc'[p] = "idle" \/ res' = res)
        /\ UNCHANGED <<image, content, backing, lazy, mapper, mnt, stub, reg, op>>
    BY <1>2, GotoMoves, ReplyMoves, StepNames
    DEF DestroyMounted, Refuse, Moved, Destroying, disk, kernel, objs
  <2>2. \/ NoFault /\ ~(mnt # 0) /\ pc'[p] = "d_find" /\ lp'[p] = lp[p]
        \/ NoFault /\ mnt # 0 /\ pc'[p] = "idle" /\ res'[p] = "error"
        \/ Fault /\ pc'[p] = "idle" /\ res'[p] = "error"
    BY <1>2, GotoMoves, ReplyMoves, StepNames DEF DestroyMounted, Refuse, Destroying
  <2>3. KernelInv'
    BY <2>1 DEF KernelInv, Attached
  <2>4. At(p)'
    BY <2>1, <2>2
    DEF At, RegistryAt, CreateAt, DestroyAt, UnsealAt, SealAt, Formatting, Making,
       Destroying, Unsealing, Sealing, Critical, Registry
  <2>5. FreeNow(p)'
    BY <2>1, <2>2, FaultTypes DEF KernelInv, FreeNow, FreeAt, Whole
  <2>6. Answers(p)
    BY <2>1, <2>2, FaultTypes DEF KernelInv, At, DestroyAt, Answers
  <2> QED
    BY <2>3, <2>4, <2>5, <2>6 DEF After
<1>3. CASE DestroyFind(p)
  <2>1. pc[p] = "d_find" /\ obj'[p] \in {0, obj[p]} /\ (pc'[p] = "idle" \/ res' = res)
        /\ UNCHANGED <<image, content, backing, lazy, mapper, mnt, stub, reg, op>>
    BY <1>3, GotoMoves, WithMoves, ReplyMoves, StepNames
    DEF DestroyFind, Find, Continue, Moved, Destroying, disk, kernel, objs, Attached
  <2>2. \/ NoFault /\ \E d \in Attached : pc'[p] = "d_detach" /\ lp'[p] = d
        \/ NoFault /\ Attached = {} /\ pc'[p] = "d_remove" /\ lp'[p] = lp[p]
        \/ Fault /\ pc'[p] = "idle" /\ res'[p] = "error"
    BY <1>3, GotoMoves, WithMoves, ReplyMoves, OneAttached, StepNames
    DEF DestroyFind, Find, Continue, Destroying, Attached
  <2>3. KernelInv'
    BY <2>1 DEF KernelInv, Attached
  <2>4. At(p)'
    BY <2>1, <2>2
    DEF At, RegistryAt, CreateAt, DestroyAt, UnsealAt, SealAt, Attached, Formatting, Making,
       Destroying, Unsealing, Sealing, Critical, Registry
  <2>5. FreeNow(p)'
    BY <2>1, <2>2, FaultTypes DEF FreeNow, FreeAt
  <2>6. Answers(p)
    BY <2>1, <2>2, FaultTypes DEF Answers
  <2> QED
    BY <2>3, <2>4, <2>5, <2>6 DEF After
<1>4. CASE DestroyDetach(p)
  <2>1. pc[p] = "d_detach" /\ obj'[p] \in {0, obj[p]} /\ (pc'[p] = "idle" \/ res' = res)
        /\ UNCHANGED <<image, content, mapper, mnt, stub, reg, op>>
    BY <1>4, GotoMoves, ReplyMoves, StepNames
    DEF DestroyDetach, DetachLoop, Attempt, Syscall, Continue, Moved, Destroying, disk,
       kernel, objs
  <2>2. Attempt(CanDetach(lp[p]),
          Detach(lp[p]), UNCHANGED <<backing, lazy>>,
          pc'[p] = "d_remove" /\ lp'[p] = lp[p],
          pc'[p] = "idle" /\ res'[p] = "error")
    BY <1>4, GotoMoves, ReplyMoves, StepNames
    DEF DestroyDetach, DetachLoop, Attempt, Syscall, Continue, Destroying
  <2>3. KernelInv'
    BY <2>1, <2>2 DEF KernelInv, Attached, Attempt, Syscall, Detach, TypeOK
  <2>4. At(p)'
    BY <1>0, <2>1, <2>2
    DEF KernelInv, At, RegistryAt, CreateAt, DestroyAt, UnsealAt, SealAt, Attached, Attempt,
       Syscall, Detach, TypeOK, Formatting, Destroying, Unsealing, Sealing, Critical,
       Registry
  <2>5. FreeNow(p)'
    BY <1>0, <2>1, <2>2, FaultTypes
    DEF At, DestroyAt, FreeNow, FreeAt, Attached, Attempt, Syscall, CanDetach, Detach,
       TypeOK
  <2>6. Answers(p)
    BY <1>0, <2>1, <2>2, FaultTypes
    DEF At, DestroyAt, Answers, Attached, Attempt, Syscall, CanDetach
  <2> QED
    BY <2>3, <2>4, <2>5, <2>6 DEF After
<1>5. CASE DestroyRemove(p)
  <2>1. pc[p] = "d_remove" /\ obj'[p] \in {0, obj[p]} /\ (pc'[p] = "idle" \/ res' = res)
        /\ UNCHANGED <<content, backing, lazy, mapper, mnt, stub, reg, op>>
    BY <1>5, GotoMoves, ReplyMoves, StepNames
    DEF DestroyRemove, Syscall, Moved, Destroying, disk, kernel, objs
  <2>2. Syscall(TRUE,
          image' = 0, UNCHANGED image,
          pc'[p] = "d_chattr" /\ lp'[p] = lp[p],
          pc'[p] = "idle" /\ res'[p] = "error")
    BY <1>5, GotoMoves, ReplyMoves, StepNames DEF DestroyRemove, Syscall, Destroying
  <2>3. KernelInv'
    BY <2>1, <2>2 DEF KernelInv, At, DestroyAt, Attached, Syscall, TypeOK
  <2>4. At(p)'
    BY <2>1, <2>2
    DEF At, RegistryAt, CreateAt, DestroyAt, UnsealAt, SealAt, Syscall, Formatting, Making,
       Destroying, Unsealing, Sealing, Critical, Registry
  <2>5. FreeNow(p)'
    BY <2>1, <2>2, FaultTypes DEF At, DestroyAt, FreeNow, FreeAt, Attached, Syscall
  <2>6. Answers(p)
    BY <2>1, <2>2, FaultTypes DEF Answers, Syscall
  <2> QED
    BY <2>3, <2>4, <2>5, <2>6 DEF After
<1>6. CASE DestroyChattr(p)
  <2>1. pc[p] = "d_chattr" /\ obj'[p] \in {0, obj[p]} /\ (pc'[p] = "idle" \/ res' = res)
        /\ UNCHANGED <<image, content, backing, lazy, mapper, mnt, reg, op>>
    BY <1>6, GotoMoves, ReplyMoves, StepNames
    DEF DestroyChattr, Attempt, Syscall, Moved, Destroying, disk, kernel, objs
  <2>2. \/ NoFault /\ stub = "absent" /\ UNCHANGED stub /\ pc'[p] = "d_forget" /\ lp'[p] = lp[p]
        \/ /\ stub # "absent"
           /\ Attempt(TRUE,
                stub' = IF mnt = 0 THEN "bare" ELSE stub, UNCHANGED stub,
                pc'[p] = "d_rmdir" /\ lp'[p] = lp[p],
                pc'[p] = "idle" /\ res'[p] = "error")
    BY <1>6, GotoMoves, ReplyMoves, StepNames
    DEF DestroyChattr, Attempt, Syscall, Destroying
  <2>3. KernelInv'
    BY <2>1 DEF KernelInv, Attached
  <2>4. At(p)'
    BY <2>1, <2>2
    DEF KernelInv, At, RegistryAt, CreateAt, DestroyAt, UnsealAt, SealAt, Attempt, Syscall,
       Formatting, Making, Destroying, Unsealing, Sealing, Critical, Registry
  <2>5. FreeNow(p)'
    BY <2>1, <2>2, FaultTypes DEF FreeNow, FreeAt, Attempt, Syscall
  <2>6. Answers(p)
    BY <2>1, <2>2, FaultTypes DEF Answers, Attempt, Syscall
  <2> QED
    BY <2>3, <2>4, <2>5, <2>6 DEF After
<1>7. CASE DestroyRmdir(p)
  <2>1. pc[p] = "d_rmdir" /\ obj'[p] \in {0, obj[p]} /\ (pc'[p] = "idle" \/ res' = res)
        /\ UNCHANGED <<image, backing, lazy, mapper, mnt, reg, op>>
    BY <1>7, GotoMoves, ReplyMoves, StepNames
    DEF DestroyRmdir, Syscall, Moved, Destroying, disk, kernel, objs
  <2>2. /\ content' = IF mnt # 0 THEN [content EXCEPT ![mnt] = "wiped"] ELSE content
        /\ Syscall(mnt = 0 /\ stub # "immutable",
             stub' = "absent", UNCHANGED stub,
             pc'[p] = "d_forget" /\ lp'[p] = lp[p],
             pc'[p] = "idle" /\ res'[p] = "error")
    BY <1>7, GotoMoves, ReplyMoves, StepNames DEF DestroyRmdir, Syscall, Destroying
  <2>3. KernelInv'
    BY <2>1 DEF KernelInv, Attached
  <2>4. At(p)'
    BY <2>1, <2>2
    DEF At, RegistryAt, CreateAt, DestroyAt, UnsealAt, SealAt, Syscall, Formatting, Making,
       Destroying, Unsealing, Sealing, Critical, Registry
  <2>5. FreeNow(p)'
    BY <2>1, <2>2, FaultTypes DEF At, DestroyAt, FreeNow, FreeAt, Syscall
  <2>6. Answers(p)
    BY <2>1, <2>2, FaultTypes DEF KernelInv, At, DestroyAt, Answers, Syscall
  <2> QED
    BY <2>3, <2>4, <2>5, <2>6 DEF After
<1>8. CASE DestroyForget(p)
  <2>1. pc[p] = "d_forget" /\ obj'[p] \in {0, obj[p]} /\ (pc'[p] = "idle" \/ res' = res)
        /\ UNCHANGED <<image, content, backing, lazy, mapper, mnt, stub, op>>
    BY <1>8, ReplyMoves DEF DestroyForget, Moved, disk, kernel, objs
  <2>2. NoFault /\ reg' = 0 /\ pc'[p] = "idle" /\ res'[p] = "ok"
    BY <1>8, ReplyMoves DEF DestroyForget, objs, NoFault
  <2>3. KernelInv'
    BY <2>1 DEF KernelInv, Attached
  <2>4. At(p)'
    BY <2>2
    DEF At, RegistryAt, CreateAt, DestroyAt, UnsealAt, SealAt, Formatting, Making,
       Destroying, Unsealing, Sealing, Critical, Registry
  <2>5. FreeNow(p)'
    BY <2>1, <2>2, FaultTypes
    DEF KernelInv, At, DestroyAt, FreeNow, FreeAt, Whole, Sealed, TypeOK, ObjInv, Unsealing,
       Sealing, Critical, Registry
  <2>6. Answers(p)
    BY <2>1, <2>2
    DEF KernelInv, At, DestroyAt, Answers, Goal, Sealed, Formatting, Making, Destroying,
       Unsealing, Sealing
  <2> QED
    BY <2>3, <2>4, <2>5, <2>6 DEF After
<1> QED
  BY <1>1, <1>2, <1>3, <1>4, <1>5, <1>6, <1>7, <1>8 DEF DestroyStep

LEMMA UnsealSound ==
  ASSUME NEW p \in Procs, Before(p), UnsealStep(p)
  PROVE  After(p)
<1> USE DEF Before
<1>0. 0 \notin Loops
  BY DEF Loops
<1>1. CASE UnsealFind(p)
  <2>1. pc[p] = "u_find" /\ obj'[p] \in {0, obj[p]} /\ (pc'[p] = "idle" \/ res' = res)
        /\ UNCHANGED <<image, content, backing, lazy, mapper, mnt, stub, reg, op>>
    BY <1>1, GotoMoves, WithMoves, FinishMoves, StepNames
    DEF UnsealFind, Find, Continue, Moved, Unsealing, disk, kernel, objs, Attached
  <2>2. \/ NoFault /\ \E d \in Attached : pc'[p] = "u_open" /\ lp'[p] = d
        \/ NoFault /\ Attached = {} /\ pc'[p] = "u_attach" /\ lp'[p] = lp[p]
        \/ Fault /\ pc'[p] = "idle" /\ res'[p] = "error"
    BY <1>1, GotoMoves, WithMoves, FinishMoves, OneAttached, StepNames
    DEF UnsealFind, Find, Continue, Unsealing, Attached
  <2>3. KernelInv'
    BY <2>1 DEF KernelInv, Attached
  <2>4. At(p)'
    BY <2>1, <2>2
    DEF At, RegistryAt, CreateAt, DestroyAt, UnsealAt, SealAt, Attached, Formatting, Making,
       Destroying, Unsealing, Sealing, Critical, Registry
  <2>5. FreeNow(p)'
    BY <2>1, <2>2, FaultTypes DEF FreeNow, FreeAt, Whole, Sealed
  <2>6. Answers(p)
    BY <2>1, <2>2, FaultTypes DEF Answers
  <2> QED
    BY <2>3, <2>4, <2>5, <2>6 DEF After
<1>2. CASE UnsealAttach(p)
  <2>1. pc[p] = "u_attach" /\ obj'[p] \in {0, obj[p]} /\ (pc'[p] = "idle" \/ res' = res)
        /\ UNCHANGED <<image, content, lazy, mapper, mnt, stub, reg, op>>
    BY <1>2, WithMoves, FinishMoves, FreeIsFree, StepNames
    DEF UnsealAttach, Attach, Attempt, Syscall, Moved, Unsealing, disk, kernel, objs
  <2>2. Attempt(image # 0 /\ Free # {},
          backing' = [backing EXCEPT ![Min(Free)] = image], UNCHANGED backing,
          pc'[p] = "u_open" /\ lp'[p] = Min(Free),
          pc'[p] = "idle" /\ res'[p] = "error")
    BY <1>2, WithMoves, FinishMoves, FreeIsFree, StepNames
    DEF UnsealAttach, Attach, Attempt, Syscall, Unsealing
  <2>3. KernelInv'
    BY <2>1, <2>2 DEF KernelInv, At, UnsealAt, Attached, Attempt, Syscall, TypeOK
  <2>4. At(p)'
    BY <2>1, <2>2, FreeIsFree
    DEF At, RegistryAt, CreateAt, DestroyAt, UnsealAt, SealAt, Attached, Attempt, Syscall,
       TypeOK, Formatting, Making, Destroying, Unsealing, Sealing, Critical, Registry
  <2>5. FreeNow(p)'
    BY <2>1, <2>2, FaultTypes
    DEF KernelInv, At, UnsealAt, FreeNow, FreeAt, Whole, Sealed, Attached, Attempt, Syscall,
       TypeOK
  <2>6. Answers(p)
    BY <2>1, <2>2 DEF Answers, Attempt, Syscall, Destroying
  <2> QED
    BY <2>3, <2>4, <2>5, <2>6 DEF After
<1>3. CASE UnsealOpen(p)
  <2>1. pc[p] = "u_open" /\ obj'[p] \in {0, obj[p]} /\ (pc'[p] = "idle" \/ res' = res)
        /\ UNCHANGED <<image, content, backing, lazy, mnt, stub, reg, op>>
    BY <1>3, GotoMoves, StepNames
    DEF UnsealOpen, Attempt, Syscall, Moved, Unsealing, disk, kernel, objs
  <2>2. \/ Attempt(CanOpen(lp[p]),
             mapper' = lp[p], UNCHANGED mapper,
             pc'[p] = "u_source" /\ lp'[p] = lp[p],
             pc'[p] = "u_abort" /\ lp'[p] = lp[p])
        \/ NoFault /\ mapper # lp[p] /\ UNCHANGED mapper /\ pc'[p] = "u_abort" /\ lp'[p] = lp[p]
    BY <1>3, GotoMoves, StepNames DEF UnsealOpen, Attempt, Syscall, Unsealing
  <2>3. KernelInv'
    BY <1>0, <2>1, <2>2
    DEF KernelInv, At, UnsealAt, Attached, Attempt, Syscall, CanOpen, TypeOK
  <2>4. At(p)'
    BY <2>1, <2>2
    DEF At, RegistryAt, CreateAt, DestroyAt, UnsealAt, SealAt, Attached, Attempt, Syscall,
       Formatting, Making, Destroying, Unsealing, Sealing, Critical, Registry
  <2>5. FreeNow(p)'
    BY <2>1, <2>2, FaultTypes
    DEF KernelInv, At, UnsealAt, FreeNow, FreeAt, Sealed, Attached, Attempt, Syscall,
       CanOpen, TypeOK
  <2>6. Answers(p)
    BY <2>1, <2>2 DEF Answers, Attempt, Syscall
  <2> QED
    BY <2>3, <2>4, <2>5, <2>6 DEF After
<1>4. CASE UnsealAbort(p)
  <2>1. pc[p] = "u_abort" /\ obj'[p] \in {0, obj[p]} /\ (pc'[p] = "idle" \/ res' = res)
        /\ UNCHANGED <<image, content, mapper, mnt, stub, reg, op>>
    BY <1>4, FinishMoves
    DEF UnsealAbort, DetachLoop, Attempt, Syscall, Moved, disk, kernel, objs
  <2>2. Attempt(CanDetach(lp[p]),
          Detach(lp[p]), UNCHANGED <<backing, lazy>>,
          pc'[p] = "idle" /\ res'[p] = "error",
          pc'[p] = "idle" /\ res'[p] = "error")
    BY <1>4, FinishMoves DEF UnsealAbort, DetachLoop, Attempt, Syscall
  <2>3. KernelInv'
    BY <2>1, <2>2 DEF KernelInv, Attached, Attempt, Syscall, Detach, TypeOK
  <2>4. At(p)'
    BY <2>2
    DEF At, RegistryAt, CreateAt, DestroyAt, UnsealAt, SealAt, Attempt, Syscall, Formatting,
       Making, Destroying, Unsealing, Sealing, Critical, Registry
  <2>5. FreeNow(p)'
    BY <2>1, <2>2, FaultTypes
    DEF FreeNow, FreeAt, Whole, Sealed, Attempt, Syscall, Detach, TypeOK
  <2>6. Answers(p)
    BY <2>1, <2>2 DEF Answers, Attempt, Syscall, Destroying
  <2> QED
    BY <2>3, <2>4, <2>5, <2>6 DEF After
<1>5. CASE UnsealSource(p)
  <2>1. pc[p] = "u_source" /\ obj'[p] \in {0, obj[p]} /\ (pc'[p] = "idle" \/ res' = res)
        /\ UNCHANGED <<image, content, backing, lazy, mapper, mnt, stub, reg, op>>
    BY <1>5, GotoMoves, FinishMoves, StepNames
    DEF UnsealSource, Continue, Moved, Unsealing, disk, kernel, objs
  <2>2. \/ NoFault /\ mnt # 0 /\ pc'[p] = "idle" /\ res'[p] = "ok"
        \/ NoFault /\ mnt = 0 /\ pc'[p] = "u_mount" /\ lp'[p] = lp[p]
        \/ Fault /\ pc'[p] = "b_umount"
    BY <1>5, GotoMoves, FinishMoves, StepNames
    DEF UnsealSource, Continue, Unsealing, NoFault
  <2>3. KernelInv'
    BY <2>1 DEF KernelInv, Attached
  <2>4. At(p)'
    BY <2>1, <2>2
    DEF At, RegistryAt, CreateAt, DestroyAt, UnsealAt, SealAt, Attached, Formatting, Making,
       Destroying, Unsealing, Sealing, Critical, Registry
  <2>5. FreeNow(p)'
    BY <2>1, <2>2, FaultTypes DEF KernelInv, FreeNow, FreeAt, Whole
  <2>6. Answers(p)
    BY <2>1, <2>2 DEF KernelInv, At, UnsealAt, Answers, Goal, Unsealing, Sealing
  <2> QED
    BY <2>3, <2>4, <2>5, <2>6 DEF After
<1>6. CASE UnsealMount(p)
  <2>1. pc[p] = "u_mount" /\ obj'[p] \in {0, obj[p]} /\ (pc'[p] = "idle" \/ res' = res)
        /\ UNCHANGED <<image, content, backing, lazy, mapper, stub, reg, op>>
    BY <1>6, GotoMoves, FinishMoves, StepNames
    DEF UnsealMount, Attempt, Syscall, Continue, Moved, Unsealing, disk, kernel, objs
  <2>2. Attempt(mapper # 0 /\ mnt = 0 /\ stub # "absent" /\ HasFs(backing[mapper]),
          mnt' = backing[mapper], UNCHANGED mnt,
          pc'[p] = "idle" /\ res'[p] = "ok",
          pc'[p] = "b_umount" /\ lp'[p] = lp[p])
    BY <1>6, GotoMoves, FinishMoves, StepNames
    DEF UnsealMount, Attempt, Syscall, Continue, Unsealing
  <2>3. KernelInv'
    BY <2>1, <2>2 DEF KernelInv, At, UnsealAt, Attached, Attempt, Syscall
  <2>4. At(p)'
    BY <2>1, <2>2
    DEF At, RegistryAt, CreateAt, DestroyAt, UnsealAt, SealAt, Attempt, Syscall, Formatting,
       Making, Destroying, Unsealing, Sealing, Critical, Registry
  <2>5. FreeNow(p)'
    BY <2>1, <2>2, FaultTypes
    DEF At, UnsealAt, FreeNow, FreeAt, Whole, Attached, Attempt, Syscall, ObjInv, Unsealing,
       Critical, Registry
  <2>6. Answers(p)
    BY <2>1, <2>2
    DEF At, UnsealAt, Answers, Goal, Attached, Attempt, Syscall, Unsealing, Sealing
  <2> QED
    BY <2>3, <2>4, <2>5, <2>6 DEF After
<1>7. CASE BackUnmount(p)
  <2>1. pc[p] = "b_umount" /\ obj'[p] \in {0, obj[p]} /\ (pc'[p] = "idle" \/ res' = res)
        /\ UNCHANGED <<image, content, backing, lazy, mapper, stub, reg, op>>
    BY <1>7, GotoMoves, StepNames
    DEF BackUnmount, Attempt, Syscall, Moved, Unsealing, disk, kernel, objs
  <2>2. Attempt(TRUE,
          mnt' = 0, UNCHANGED mnt,
          pc'[p] = "b_chattr" /\ lp'[p] = lp[p],
          pc'[p] = "b_chattr" /\ lp'[p] = lp[p])
    BY <1>7, GotoMoves, StepNames DEF BackUnmount, Attempt, Syscall, Unsealing
  <2>3. KernelInv'
    BY <2>1, <2>2 DEF KernelInv, Attached, Attempt, Syscall
  <2>4. At(p)'
    BY <2>1, <2>2
    DEF At, RegistryAt, CreateAt, DestroyAt, UnsealAt, SealAt, Attempt, Syscall, Formatting,
       Making, Destroying, Unsealing, Sealing, Critical, Registry
  <2>5. FreeNow(p)'
    BY <2>1, <2>2, FaultTypes DEF FreeNow, FreeAt, Attempt, Syscall
  <2>6. Answers(p)
    BY <2>1, <2>2 DEF Answers, Attempt, Syscall
  <2> QED
    BY <2>3, <2>4, <2>5, <2>6 DEF After
<1>8. CASE BackImmutable(p)
  <2>1. pc[p] = "b_chattr" /\ obj'[p] \in {0, obj[p]} /\ (pc'[p] = "idle" \/ res' = res)
        /\ UNCHANGED <<image, content, backing, lazy, mapper, mnt, reg, op>>
    BY <1>8, GotoMoves, StepNames
    DEF BackImmutable, Attempt, Syscall, Moved, Unsealing, disk, kernel, objs
  <2>2. Attempt(TRUE,
          stub' = IF mnt = 0 THEN "immutable" ELSE stub, UNCHANGED stub,
          pc'[p] = "b_close" /\ lp'[p] = lp[p],
          pc'[p] = "b_close" /\ lp'[p] = lp[p])
    BY <1>8, GotoMoves, StepNames
    DEF BackImmutable, MakeImmutable, Attempt, Syscall, Unsealing
  <2>3. KernelInv'
    BY <2>1 DEF KernelInv, Attached
  <2>4. At(p)'
    BY <2>1, <2>2
    DEF At, RegistryAt, CreateAt, DestroyAt, UnsealAt, SealAt, Attempt, Syscall, Formatting,
       Making, Destroying, Unsealing, Sealing, Critical, Registry
  <2>5. FreeNow(p)'
    BY <2>1, <2>2, FaultTypes DEF FreeNow, FreeAt, Attempt, Syscall
  <2>6. Answers(p)
    BY <2>1, <2>2 DEF Answers, Attempt, Syscall
  <2> QED
    BY <2>3, <2>4, <2>5, <2>6 DEF After
<1>9. CASE BackClose(p)
  <2>1. pc[p] = "b_close" /\ obj'[p] \in {0, obj[p]} /\ (pc'[p] = "idle" \/ res' = res)
        /\ UNCHANGED <<image, content, mnt, stub, reg, op>>
    BY <1>9, GotoMoves, StepNames
    DEF BackClose, CloseMapper, Attempt, Syscall, Continue, Moved, Unsealing, disk, kernel,
       objs
  <2>2. Attempt(CanClose,
          Close, UNCHANGED <<mapper, lazy, backing>>,
          pc'[p] = "b_detach" /\ lp'[p] = lp[p],
          pc'[p] = "b_detach" /\ lp'[p] = lp[p])
    BY <1>9, GotoMoves, StepNames
    DEF BackClose, CloseMapper, Attempt, Syscall, Continue, Unsealing
  <2>3. KernelInv'
    BY <2>1, <2>2 DEF KernelInv, Attached, Attempt, Syscall, CanClose, Close
  <2>4. At(p)'
    BY <2>1, <2>2
    DEF At, RegistryAt, CreateAt, DestroyAt, UnsealAt, SealAt, Attempt, Syscall, Formatting,
       Making, Destroying, Unsealing, Sealing, Critical, Registry
  <2>5. FreeNow(p)'
    BY <2>1, <2>2, FaultTypes DEF FreeNow, FreeAt, Sealed, Attempt, Syscall, CanClose, Close
  <2>6. Answers(p)
    BY <2>1, <2>2 DEF Answers, Attempt, Syscall
  <2> QED
    BY <2>3, <2>4, <2>5, <2>6 DEF After
<1>10. CASE BackDetach(p)
  <2>1. pc[p] = "b_detach" /\ obj'[p] \in {0, obj[p]} /\ (pc'[p] = "idle" \/ res' = res)
        /\ UNCHANGED <<image, content, mapper, mnt, stub, reg, op>>
    BY <1>10, FinishMoves
    DEF BackDetach, DetachLoop, Attempt, Syscall, Moved, disk, kernel, objs
  <2>2. Attempt(CanDetach(lp[p]),
          Detach(lp[p]), UNCHANGED <<backing, lazy>>,
          pc'[p] = "idle" /\ res'[p] = "error",
          pc'[p] = "idle" /\ res'[p] = "error")
    BY <1>10, FinishMoves DEF BackDetach, DetachLoop, Attempt, Syscall
  <2>3. KernelInv'
    BY <2>1, <2>2 DEF KernelInv, Attached, Attempt, Syscall, Detach, TypeOK
  <2>4. At(p)'
    BY <2>2
    DEF At, RegistryAt, CreateAt, DestroyAt, UnsealAt, SealAt, Attempt, Syscall, Formatting,
       Making, Destroying, Unsealing, Sealing, Critical, Registry
  <2>5. FreeNow(p)'
    BY <2>1, <2>2, FaultTypes
    DEF FreeNow, FreeAt, Whole, Sealed, Attempt, Syscall, Detach, TypeOK
  <2>6. Answers(p)
    BY <2>1, <2>2 DEF Answers, Attempt, Syscall, Destroying
  <2> QED
    BY <2>3, <2>4, <2>5, <2>6 DEF After
<1> QED
  BY <1>1, <1>2, <1>3, <1>4, <1>5, <1>6, <1>7, <1>8, <1>9, <1>10 DEF UnsealStep

LEMMA SealSound ==
  ASSUME NEW p \in Procs, Before(p), SealStep(p)
  PROVE  After(p)
<1> USE DEF Before
<1>0. 0 \notin Loops
  BY DEF Loops
<1>1. CASE SealSource(p)
  <2>1. pc[p] = "s_source" /\ obj'[p] \in {0, obj[p]} /\ (pc'[p] = "idle" \/ res' = res)
        /\ UNCHANGED <<image, content, backing, lazy, mapper, mnt, stub, reg, op>>
    BY <1>1, GotoMoves, FinishMoves, StepNames
    DEF SealSource, Continue, Moved, Sealing, disk, kernel, objs
  <2>2. \/ NoFault /\ mnt # 0 /\ pc'[p] = "s_umount" /\ lp'[p] = lp[p]
        \/ NoFault /\ mnt = 0 /\ pc'[p] = "s_chattr" /\ lp'[p] = lp[p]
        \/ Fault /\ pc'[p] = "idle" /\ res'[p] = "error"
    BY <1>1, GotoMoves, FinishMoves, StepNames DEF SealSource, Continue, Sealing
  <2>3. KernelInv'
    BY <2>1 DEF KernelInv, Attached
  <2>4. At(p)'
    BY <2>1, <2>2
    DEF At, RegistryAt, CreateAt, DestroyAt, UnsealAt, SealAt, Formatting, Making,
       Destroying, Unsealing, Sealing, Critical, Registry
  <2>5. FreeNow(p)'
    BY <2>1, <2>2, FaultTypes DEF FreeNow, FreeAt
  <2>6. Answers(p)
    BY <2>1, <2>2 DEF Answers, Destroying
  <2> QED
    BY <2>3, <2>4, <2>5, <2>6 DEF After
<1>2. CASE SealUnmount(p)
  <2>1. pc[p] = "s_umount" /\ obj'[p] \in {0, obj[p]} /\ (pc'[p] = "idle" \/ res' = res)
        /\ UNCHANGED <<image, content, backing, lazy, mapper, stub, reg, op>>
    BY <1>2, GotoMoves, FinishMoves, StepNames
    DEF SealUnmount, Attempt, Syscall, Continue, Moved, Sealing, disk, kernel, objs
  <2>2. Attempt(mnt # 0,
          mnt' = 0, UNCHANGED mnt,
          pc'[p] = "s_chattr" /\ lp'[p] = lp[p],
          pc'[p] = "idle" /\ res'[p] = "error")
    BY <1>2, GotoMoves, FinishMoves, StepNames
    DEF SealUnmount, Attempt, Syscall, Continue, Sealing
  <2>3. KernelInv'
    BY <2>1, <2>2 DEF KernelInv, Attached, Attempt, Syscall
  <2>4. At(p)'
    BY <2>1, <2>2
    DEF At, RegistryAt, CreateAt, DestroyAt, UnsealAt, SealAt, Attempt, Syscall, Formatting,
       Making, Destroying, Unsealing, Sealing, Critical, Registry
  <2>5. FreeNow(p)'
    BY <2>1, <2>2, FaultTypes DEF FreeNow, FreeAt, Attempt, Syscall
  <2>6. Answers(p)
    BY <2>1, <2>2 DEF Answers, Attempt, Syscall, Destroying
  <2> QED
    BY <2>3, <2>4, <2>5, <2>6 DEF After
<1>3. CASE SealImmutable(p)
  <2>1. pc[p] = "s_chattr" /\ obj'[p] \in {0, obj[p]} /\ (pc'[p] = "idle" \/ res' = res)
        /\ UNCHANGED <<image, content, backing, lazy, mapper, mnt, reg, op>>
    BY <1>3, GotoMoves, FinishMoves, StepNames
    DEF SealImmutable, Attempt, Syscall, Continue, Moved, Sealing, disk, kernel, objs
  <2>2. Attempt(TRUE,
          stub' = IF mnt = 0 THEN "immutable" ELSE stub, UNCHANGED stub,
          pc'[p] = "s_close" /\ lp'[p] = lp[p],
          pc'[p] = "idle" /\ res'[p] = "error")
    BY <1>3, GotoMoves, FinishMoves, StepNames
    DEF SealImmutable, MakeImmutable, Attempt, Syscall, Continue, Sealing
  <2>3. KernelInv'
    BY <2>1 DEF KernelInv, Attached
  <2>4. At(p)'
    BY <2>1, <2>2
    DEF At, RegistryAt, CreateAt, DestroyAt, UnsealAt, SealAt, Attempt, Syscall, Formatting,
       Making, Destroying, Unsealing, Sealing, Critical, Registry
  <2>5. FreeNow(p)'
    BY <2>1, <2>2, FaultTypes DEF FreeNow, FreeAt, Attempt, Syscall
  <2>6. Answers(p)
    BY <2>1, <2>2, FaultTypes DEF Answers, Attempt, Syscall
  <2> QED
    BY <2>3, <2>4, <2>5, <2>6 DEF After
<1>4. CASE SealClose(p)
  <2>1. pc[p] = "s_close" /\ obj'[p] \in {0, obj[p]} /\ (pc'[p] = "idle" \/ res' = res)
        /\ UNCHANGED <<image, content, mnt, stub, reg, op>>
    BY <1>4, GotoMoves, FinishMoves, StepNames
    DEF SealClose, CloseMapper, Attempt, Syscall, Continue, Moved, Sealing, disk, kernel,
       objs
  <2>2. Attempt(CanClose,
          Close, UNCHANGED <<mapper, lazy, backing>>,
          pc'[p] = "s_find" /\ lp'[p] = lp[p],
          pc'[p] = "idle" /\ res'[p] = "error")
    BY <1>4, GotoMoves, FinishMoves, StepNames
    DEF SealClose, CloseMapper, Attempt, Syscall, Continue, Sealing
  <2>3. KernelInv'
    BY <2>1, <2>2 DEF KernelInv, At, SealAt, Attached, Attempt, Syscall, Close
  <2>4. At(p)'
    BY <2>1, <2>2
    DEF At, RegistryAt, CreateAt, DestroyAt, UnsealAt, SealAt, Attempt, Syscall, Close,
       Formatting, Making, Destroying, Unsealing, Sealing, Critical, Registry
  <2>5. FreeNow(p)'
    BY <2>1, <2>2, FaultTypes
    DEF At, SealAt, FreeNow, FreeAt, Attempt, Syscall, CanClose, Close
  <2>6. Answers(p)
    BY <2>1, <2>2, FaultTypes DEF At, SealAt, Answers, Attempt, Syscall, CanClose
  <2> QED
    BY <2>3, <2>4, <2>5, <2>6 DEF After
<1>5. CASE SealFind(p)
  <2>1. pc[p] = "s_find" /\ obj'[p] \in {0, obj[p]} /\ (pc'[p] = "idle" \/ res' = res)
        /\ UNCHANGED <<image, content, backing, lazy, mapper, mnt, stub, reg, op>>
    BY <1>5, WithMoves, FinishMoves, StepNames
    DEF SealFind, Find, Moved, Sealing, disk, kernel, objs, Attached
  <2>2. \/ NoFault /\ \E d \in Attached : pc'[p] = "s_detach" /\ lp'[p] = d
        \/ NoFault /\ Attached = {} /\ pc'[p] = "idle" /\ res'[p] = "ok"
        \/ Fault /\ pc'[p] = "idle" /\ res'[p] = "error"
    BY <1>5, WithMoves, FinishMoves, OneAttached, StepNames
    DEF SealFind, Find, Sealing, Attached
  <2>3. KernelInv'
    BY <2>1 DEF KernelInv, Attached
  <2>4. At(p)'
    BY <2>1, <2>2
    DEF At, RegistryAt, CreateAt, DestroyAt, UnsealAt, SealAt, Attached, Formatting, Making,
       Destroying, Unsealing, Sealing, Critical, Registry
  <2>5. FreeNow(p)'
    BY <2>1, <2>2, FaultTypes DEF At, SealAt, FreeNow, FreeAt, Whole, Sealed
  <2>6. Answers(p)
    BY <2>1, <2>2
    DEF At, SealAt, Answers, Goal, Sealed, Attached, Formatting, Making, Destroying,
       Unsealing, Sealing
  <2> QED
    BY <2>3, <2>4, <2>5, <2>6 DEF After
<1>6. CASE SealDetach(p)
  <2>1. pc[p] = "s_detach" /\ obj'[p] \in {0, obj[p]} /\ (pc'[p] = "idle" \/ res' = res)
        /\ UNCHANGED <<image, content, mapper, mnt, stub, reg, op>>
    BY <1>6, FinishMoves
    DEF SealDetach, DetachLoop, Attempt, Syscall, Moved, disk, kernel, objs
  <2>2. Attempt(CanDetach(lp[p]),
          Detach(lp[p]), UNCHANGED <<backing, lazy>>,
          pc'[p] = "idle" /\ res'[p] = "ok",
          pc'[p] = "idle" /\ res'[p] = "error")
    BY <1>6, FinishMoves DEF SealDetach, DetachLoop, Attempt, Syscall
  <2>3. KernelInv'
    BY <2>1, <2>2 DEF KernelInv, Attached, Attempt, Syscall, Detach, TypeOK
  <2>4. At(p)'
    BY <2>1, <2>2
    DEF At, RegistryAt, CreateAt, DestroyAt, UnsealAt, SealAt, Attached, Attempt, Syscall,
       Formatting, Destroying, Unsealing, Sealing, Critical, Registry
  <2>5. FreeNow(p)'
    BY <2>1, <2>2, FaultTypes
    DEF At, SealAt, FreeNow, FreeAt, Whole, Sealed, Attempt, Syscall, Detach, TypeOK
  <2>6. Answers(p)
    <3>1. lp[p] \in Attached /\ mapper = 0 /\ mnt = 0 /\ stub = "immutable" /\ op[p] \in {"seal", "reconcile"}
      BY <2>1 DEF At, SealAt, Sealing
    <3>2. res'[p] = "ok" => Attached' = {}
      <4>1. \A d \in Attached : d = lp[p]
        BY <3>1 DEF KernelInv
      <4>2. res'[p] = "ok" => backing' = [backing EXCEPT ![lp[p]] = 0]
        BY <1>0, <2>2, <3>1 DEF Attempt, Syscall, Detach, Attached
      <4> QED
        BY <2>1, <4>1, <4>2 DEF Attached, TypeOK
    <3> QED
      BY <2>1, <3>1, <3>2 DEF Answers, Goal, Sealed, Destroying
  <2> QED
    BY <2>3, <2>4, <2>5, <2>6 DEF After
<1> QED
  BY <1>1, <1>2, <1>3, <1>4, <1>5, <1>6 DEF SealStep

LEMMA RegistrySound ==
  ASSUME NEW p \in Procs, Before(p), Exists(p) \/ Get(p) \/ Ensure(p) \/ Status(p) \/ Lock(p)
  PROVE  After(p)
<1> USE DEF Before
<1>0. {"c_file", "d_mapped", "get", "ensure", "lock", "u_find", "s_source"} \subseteq Steps
  BY StepNames DEF Formatting, Destroying, Registry, Unsealing, Sealing
<1>1. CASE Exists(p)
  <2>1. pc[p] = "exists" /\ obj' = obj /\ UNCHANGED <<disk, kernel, stub, reg, faults, op>>
    BY <1>0, <1>1, GotoMoves, ReplyMoves
    DEF Exists, Moved, objs, ObjInv, Critical, Unsealing, Sealing, TypeOK
  <2>2. \/ pc'[p] = "idle" /\ res'[p] = "error"
        \/ res' = res /\ op[p] = "create" /\ image = 0 /\ pc'[p] = "c_file"
        \/ res' = res /\ op[p] = "destroy" /\ image # 0 /\ pc'[p] = "d_mapped"
        \/ res' = res /\ op[p] \notin {"create", "destroy"} /\ image # 0 /\ pc'[p] = "get"
    BY <1>0, <1>1, GotoMoves, ReplyMoves DEF Exists
  <2>3. KernelInv'
    BY <2>1 DEF KernelInv, Attached, disk, kernel
  <2>4. At(p)'
    BY <2>1, <2>2
    DEF At, RegistryAt, CreateAt, DestroyAt, UnsealAt, SealAt, Formatting, Making, Destroying,
        Unsealing, Sealing, Verbs, disk
  <2>5. FreeNow(p)'
    BY <2>1, <2>2
    DEF KernelInv, At, RegistryAt, FreeNow, FreeAt, Whole, Sealed, Verbs, disk, kernel
  <2>6. Answers(p)
    BY <2>1, <2>2 DEF Answers, Destroying
  <2> QED
    BY <2>3, <2>4, <2>5, <2>6 DEF After
<1>2. CASE Get(p)
  <2>1. pc[p] = "get" /\ UNCHANGED <<disk, kernel, reg, faults, op>>
    BY <1>0, <1>2, GotoMoves, GotVaultMoves DEF Get, Moved, objs, TypeOK
  <2>2. \/ /\ op[p] = "create" /\ pc'[p] = "idle" /\ obj'[p] = 0 /\ reg # 0 /\ stub' = stub
        \/ /\ op[p] # "create" /\ pc'[p] = IF p = Main THEN "status" ELSE "lock"
           /\ res' = res /\ reg # 0 /\ stub' = stub
        \/ /\ pc'[p] = "ensure" /\ obj' = obj /\ res' = res /\ reg = 0
           /\ stub' = IF stub = "absent" THEN "bare" ELSE stub
    BY <1>0, <1>2, GotoMoves, GotVaultMoves DEF Get, TypeOK
  <2>3. KernelInv'
    BY <2>1 DEF KernelInv, Attached, disk, kernel
  <2>4. At(p)'
    BY <2>1, <2>2
    DEF At, RegistryAt, CreateAt, DestroyAt, UnsealAt, SealAt, Goal, Sealed, Attached, disk, kernel,
        Formatting, Making, Destroying, Unsealing, Sealing
  <2>5. FreeNow(p)'
    BY <2>1, <2>2 DEF KernelInv, FreeNow, FreeAt, At, CreateAt, Goal, Whole, Sealed, disk, kernel
  <2>6. Answers(p)
    BY <2>1, <2>2 DEF Answers, At, CreateAt, Goal, Sealed, Attached, disk, kernel, Destroying
  <2> QED
    BY <2>3, <2>4, <2>5, <2>6 DEF After
<1>3. CASE Ensure(p)
  <2>1. pc[p] = "ensure" /\ UNCHANGED <<disk, kernel, op>>
    BY <1>3, ReplyMoves, GotVaultMoves, NewObjIsNew
    DEF Ensure, Attempt, Syscall, Moved, ObjInv, Critical, Unsealing, Sealing
  <2>2. NewObj \in Objs /\ NewObj # 0
    BY <2>1, NewObjIsNew DEF ObjInv, Critical, Unsealing, Sealing, Objs
  <2>3. \/ /\ NoFault /\ op[p] = "create" /\ pc'[p] = "idle" /\ obj'[p] = 0
           /\ stub' = IF mnt = 0 THEN "immutable" ELSE stub
        \/ /\ NoFault /\ op[p] # "create" /\ pc'[p] = IF p = Main THEN "status" ELSE "lock"
           /\ res' = res /\ reg' # 0
           /\ stub' = IF mnt = 0 THEN "immutable" ELSE stub
        \/ Fault /\ pc'[p] = "idle" /\ res'[p] = "error"
    BY <1>3, <2>2, ReplyMoves, GotVaultMoves DEF Ensure, Attempt, Syscall
  <2>4. KernelInv'
    BY <2>1 DEF KernelInv, Attached, disk, kernel
  <2>5. At(p)'
    BY <2>1, <2>3
    DEF At, RegistryAt, CreateAt, DestroyAt, UnsealAt, SealAt, Formatting, Making, Destroying,
        Unsealing, Sealing
  <2>6. FreeNow(p)'
    BY <2>1, <2>3, FaultTypes
    DEF KernelInv, FreeNow, FreeAt, At, CreateAt, Goal, Whole, Sealed, disk, kernel
  <2>7. Answers(p)
    BY <2>1, <2>3 DEF Answers, At, CreateAt, Goal, Sealed, Attached, disk, kernel, Destroying
  <2> QED
    BY <2>4, <2>5, <2>6, <2>7 DEF After
<1>4. CASE Status(p)
  <2>1. pc[p] = "status" /\ UNCHANGED <<disk, kernel, stub, reg, op>>
        /\ obj'[p] \in {0, obj[p]}
    BY <1>0, <1>4, GotoMoves, ReplyMoves DEF Status, Moved, objs
  <2>2. \/ NoFault /\ pc'[p] = "lock"
        \/ NoFault /\ pc'[p] = "idle" /\ ((mapper = 0) <=> (mnt = 0))
        \/ Fault /\ pc'[p] = "idle"
    BY <1>0, <1>4, GotoMoves, ReplyMoves DEF Status
  <2>3. p = Main
    BY <2>1 DEF At, RegistryAt
  <2>4. KernelInv'
    BY <2>1 DEF KernelInv, Attached, disk, kernel
  <2>5. At(p)'
    BY <2>1, <2>2, <2>3
    DEF At, RegistryAt, CreateAt, DestroyAt, UnsealAt, SealAt, Formatting, Making, Destroying,
        Unsealing, Sealing
  <2>6. FreeNow(p)'
    BY <2>1, <2>2, <2>3, FaultTypes DEF KernelInv, FreeNow, FreeAt, Whole, Sealed, disk, kernel
  <2>7. Answers(p)
    BY <2>1, <2>3 DEF Answers, Destroying
  <2> QED
    BY <2>4, <2>5, <2>6, <2>7 DEF After
<1>5. CASE Lock(p)
  <2>1. pc[p] = "lock" /\ UNCHANGED <<disk, kernel, stub, reg, faults, op, obj, res>>
        /\ pc'[p] = IF op[p] = "unseal" THEN "u_find" ELSE "s_source"
    BY <1>0, <1>5, GotoMoves DEF Lock, Moved
  <2>2. KernelInv'
    BY <2>1 DEF KernelInv, Attached, disk, kernel
  <2>3. At(p)'
    BY <2>1
    DEF At, RegistryAt, CreateAt, DestroyAt, UnsealAt, SealAt, Formatting, Making, Destroying,
        Unsealing, Sealing
  <2>4. FreeNow(p)'
    BY <2>1 DEF KernelInv, FreeNow, FreeAt, Whole, Sealed, disk, kernel
  <2>5. Answers(p)
    BY <2>1 DEF Answers, Destroying
  <2> QED
    BY <2>2, <2>3, <2>4, <2>5 DEF After
<1> QED
  BY <1>1, <1>2, <1>3, <1>4, <1>5

-----------------------------------------------------------------------------
SeqInv == TypeInv /\ TurnInv /\ KernelInv /\ (\A p \in Procs : At(p)) /\ FreeInv

LEMMA StepRuns ==
  ASSUME NEW p \in Procs, Step(p)
  PROVE  pc[p] # "idle"
<1>1. CASE CreateStep(p)
  BY <1>1 DEF CreateStep, CreateRefused, CreateFile, CreateFind, CreateAttach, CreateFormat,
     CreateOpen, CreateMkfs, CreateClose, CreateDetach, UndoClose, UndoDetach, UndoRemove,
     Find, CloseMapper, DetachLoop
<1>2. CASE DestroyStep(p)
  BY <1>2 DEF DestroyStep, DestroyMapped, DestroyMounted, DestroyFind, DestroyDetach,
     DestroyRemove, DestroyChattr, DestroyRmdir, DestroyForget, Refuse, Find, DetachLoop
<1>3. CASE UnsealStep(p)
  BY <1>3 DEF UnsealStep, UnsealFind, UnsealAttach, UnsealOpen, UnsealAbort, UnsealSource,
     UnsealMount, BackUnmount, BackImmutable, BackClose, BackDetach, Find, CloseMapper, DetachLoop
<1>4. CASE SealStep(p)
  BY <1>4 DEF SealStep, SealSource, SealUnmount, SealImmutable, SealClose, SealFind, SealDetach,
     Find, CloseMapper, DetachLoop
<1>5. CASE Exists(p) \/ Get(p) \/ Ensure(p) \/ Status(p) \/ Lock(p)
  BY <1>5 DEF Exists, Get, Ensure, Status, Lock
<1> QED
  BY <1>1, <1>2, <1>3, <1>4, <1>5 DEF Step

(* The step of the process that runs *)
LEMMA StepSound ==
  ASSUME SeqInv, NEW p \in Procs, Step(p)
  PROVE  /\ Moved(p) /\ After(p) /\ TypeInv'
         /\ \A q \in Procs \ {p} : pc[q] = "idle"
<1>1. pc[p] # "idle"
  BY StepRuns
<1>2. \A q \in Procs \ {p} : pc[q] = "idle"
  BY <1>1 DEF SeqInv, TurnInv
<1>3. TypeOK /\ ObjInv /\ KernelInv /\ At(p) /\ (op[p] = "reconcile" <=> p = Main)
  BY DEF SeqInv, TypeInv, TurnInv
<1>4. FreeNow(p)
  BY <1>1, <1>2 DEF SeqInv, FreeInv, FreeNow
<1>5. Before(p)
  BY <1>3, <1>4 DEF Before
<1>6. After(p)
  BY <1>5, RegistrySound, CreateSound, DestroySound, UnsealSound, SealSound DEF Step
<1> QED
  BY <1>2, <1>3, <1>6, StepTypes, StepKeepsTypes DEF SeqInv

LEMMA StepKeepsSeq ==
  ASSUME SeqInv, NEW p \in Procs, Step(p)
  PROVE  SeqInv'
<1>1. /\ Moved(p) /\ After(p) /\ TypeInv'
      /\ \A q \in Procs \ {p} : pc[q] = "idle"
  BY StepSound
<1>2. \A q \in Procs \ {p} : pc'[q] = "idle"
  BY <1>1 DEF Moved
<1>3. TurnInv'
  BY <1>1, <1>2 DEF SeqInv, TurnInv, Moved
<1>4. KernelInv' /\ At(p)' /\ FreeNow(p)' /\ ObjInv'
  BY <1>1 DEF After, TypeInv
<1>5. ASSUME NEW q \in Procs PROVE At(q)'
  <2>1. CASE q = p
    BY <1>4, <2>1
  <2>2. CASE q # p
    <3>1. pc'[q] = "idle"
      BY <1>2, <2>2
    <3> QED
      BY <3>1 DEF At, RegistryAt, CreateAt, DestroyAt, UnsealAt, SealAt, Formatting, Making,
         Destroying, Unsealing, Sealing
  <2> QED
    BY <2>1, <2>2
<1>6. FreeInv'
  <2>1. faults' = 0 => \A q \in Procs : FreeAt(q)'
    <3> SUFFICES ASSUME faults' = 0, NEW q \in Procs PROVE FreeAt(q)'
      OBVIOUS
    <3>1. CASE q = p
      BY <1>4, <3>1 DEF FreeNow
    <3>2. CASE q # p
      <4>1. pc'[q] = "idle"
        BY <1>2, <3>2
      <4> QED
        BY <1>4, <4>1 DEF FreeAt, ObjInv, Critical, Unsealing, Sealing
    <3> QED
      BY <3>1, <3>2
  <2> QED
    BY <1>4, <2>1 DEF FreeInv, FreeNow, AllIdle
<1> QED
  BY <1>1, <1>3, <1>4, <1>5, <1>6 DEF SeqInv

LEMMA RequestAlone ==
  ASSUME OneWorker, NEW p \in Procs, NEW verb \in Requests, Request(p, verb)
  PROVE  AllIdle /\ p \in Workers
BY DEF OneWorker, Request, Serving, AllIdle, Procs

LEMMA RequestKeepsSeq ==
  ASSUME SeqInv, OneWorker, NEW p \in Procs, NEW verb \in Requests, Request(p, verb)
  PROVE  SeqInv'
<1>1. /\ pc' = [pc EXCEPT ![p] = "exists"] /\ op' = [op EXCEPT ![p] = verb] /\ AllIdle
      /\ UNCHANGED <<disk, kernel, stub, objs, obj, faults>> /\ p \in Workers /\ p # Main
  BY RequestAlone, LifecycleAssumption DEF Request
<1>2. verb \in Verbs /\ verb # "reconcile"
  BY LifecycleAssumption DEF Verbs
<1>3. pc'[p] = "exists" /\ op'[p] = verb /\ (\A q \in Procs \ {p} : pc'[q] = "idle" /\ op'[q] = op[q])
  BY <1>1 DEF SeqInv, TypeInv, TypeOK, AllIdle
<1>4. TypeInv'
  BY RequestKeepsTypes DEF SeqInv
<1>5. TurnInv'
  BY <1>1, <1>2, <1>3 DEF SeqInv, TurnInv
<1>6. KernelInv'
  BY <1>1 DEF SeqInv, KernelInv, Attached, disk, kernel
<1>7. ASSUME NEW q \in Procs PROVE At(q)'
  <2>1. pc'[q] = "idle" \/ (pc'[q] = "exists" /\ op'[q] \in Verbs)
    BY <1>2, <1>3
  <2> QED
    BY <2>1 DEF At, RegistryAt, CreateAt, DestroyAt, UnsealAt, SealAt, Formatting, Making,
       Destroying, Unsealing, Sealing
<1>8. FreeInv'
  <2>1. faults = 0 => Whole /\ \A q \in Procs : FreeAt(q)
    BY <1>1 DEF SeqInv, FreeInv
  <2>2. ASSUME faults' = 0, NEW q \in Procs PROVE FreeAt(q)'
    <3>1. pc'[q] \in {"idle", "exists"}
      BY <1>3
    <3> QED
      BY <1>1, <2>1, <2>2, <3>1 DEF FreeAt, Whole, Sealed, disk, kernel, objs
  <2>3. pc[p] = "idle" /\ \A q \in Procs : pc[q] \notin {"d_rmdir", "d_forget"}
    BY <1>1 DEF AllIdle
  <2> QED
    BY <1>1, <1>3, <2>1, <2>2, <2>3 DEF SeqInv, FreeInv, AllIdle, disk, kernel, objs
<1> QED
  BY <1>4, <1>5, <1>6, <1>7, <1>8 DEF SeqInv

(* A start finds the kernel as it was or empty, and only Main runs *)
StartState ==
  /\ TypeInv /\ KernelInv /\ pc = StartPc(image) /\ op = StartOp /\ reg = 0
  /\ faults = 0 => /\ \A d \in Loops : backing[d] \in {0, image}
                   /\ mnt # 0 => stub = "immutable"

LEMMA StartIsWhole == StartState => SeqInv
<1> SUFFICES ASSUME StartState PROVE SeqInv
  OBVIOUS
<1> USE DEF StartState
<1>1. \A p \in Procs : /\ pc[p] = "idle" \/ (pc[p] = "get" /\ p = Main /\ image # 0)
                       /\ op[p] = IF p = Main THEN "reconcile" ELSE "none"
  BY DEF StartPc, StartOp
<1>2. TurnInv
  BY <1>1 DEF TurnInv
<1>3. ASSUME NEW p \in Procs PROVE At(p)
  BY <1>1 DEF At, RegistryAt, CreateAt, DestroyAt, UnsealAt, SealAt, Formatting, Making,
     Destroying, Unsealing, Sealing
<1>4. \A p \in Procs : FreeAt(p)
  BY <1>1 DEF FreeAt, TypeInv, ObjInv, Critical, Unsealing, Sealing
<1>5. AllIdle => image = 0
  <2>1. Main \in Procs
    BY DEF Procs
  <2> QED
    BY <2>1 DEF AllIdle, StartPc
<1>6. faults = 0 /\ AllIdle => Whole
  <2>1. mapper # 0 => mapper \in Loops
    BY DEF TypeInv, TypeOK
  <2> QED
    BY <1>5, <2>1 DEF Whole, Sealed, KernelInv
<1> QED
  BY <1>2, <1>3, <1>4, <1>6 DEF SeqInv, FreeInv

LEMMA StartKeepsSeq ==
  ASSUME SeqInv, Restart \/ Reboot
  PROVE  SeqInv'
<1>1. TypeInv' /\ Startup
  BY StartKeepsTypes DEF SeqInv, Restart, Reboot
<1>2. /\ pc' = StartPc(image') /\ op' = StartOp /\ reg' = 0
      /\ UNCHANGED <<image, stub, faults>>
  BY <1>1 DEF Startup, disk
<1>3. KernelInv'
  <2>1. CASE Restart
    BY <1>2, <2>1 DEF Restart, SeqInv, KernelInv, Attached, kernel
  <2>2. CASE Reboot
    BY <2>2 DEF Reboot, KernelInv, Attached
  <2> QED
    BY <2>1, <2>2
<1>4. faults' = 0 => /\ \A d \in Loops : backing'[d] \in {0, image'}
                     /\ mnt' # 0 => stub' = "immutable"
  BY <1>2 DEF Restart, Reboot, SeqInv, FreeInv, kernel
<1>5. StartState'
  BY <1>1, <1>2, <1>3, <1>4 DEF StartState, StartPc, StartOp
<1>6. (StartState => SeqInv)'
  BY StartIsWhole, PTL
<1> QED
  BY <1>5, <1>6

LEMMA InitSeq == Init => SeqInv
<1> SUFFICES ASSUME Init PROVE SeqInv
  OBVIOUS
<1>1. TypeInv
  BY InitTypes
<1>2. KernelInv
  BY DEF Init, KernelInv, Attached
<1> QED
  BY <1>1, <1>2, StartIsWhole DEF StartState, Init

LEMMA NextKeepsSeq == OneWorker /\ SeqInv /\ [Next]_vars => SeqInv'
<1>1. ASSUME SeqInv, UNCHANGED vars PROVE SeqInv'
  <2>1. TypeInv' /\ TurnInv' /\ KernelInv'
    BY <1>1 DEF vars, disk, kernel, objs, locals, SeqInv, TypeInv, TypeOK, LoopGiven, ObjInv, TurnInv,
       KernelInv, Attached
  <2>2. \A p \in Procs : At(p)'
    BY <1>1 DEF vars, disk, kernel, objs, locals, SeqInv, At, RegistryAt, CreateAt, DestroyAt,
       UnsealAt, SealAt, Attached, Goal, Sealed
  <2>3. FreeInv'
    BY <1>1 DEF vars, disk, kernel, objs, locals, SeqInv, FreeInv, FreeAt, Whole, Sealed, Attached,
       AllIdle
  <2> QED
    BY <2>1, <2>2, <2>3 DEF SeqInv
<1> QED
  BY <1>1, StepKeepsSeq, RequestKeepsSeq, StartKeepsSeq DEF Next

LEMMA SeqInvariance == OneWorker => (Spec => []SeqInv)
<1>1. ASSUME OneWorker PROVE Init /\ [][Next]_vars => []SeqInv
  <2>1. SeqInv /\ [Next]_vars => SeqInv'
    BY <1>1, NextKeepsSeq
  <2> QED
    BY <2>1, InitSeq, PTL
<1> QED
  BY <1>1 DEF Spec

(* With one request at a time and no failed command, wherever the agent was *)
(* stopped, every attached loop device is one of the image at the path      *)
(* (CreateVault and DestroyVault, provision.go 24 and 90)                   *)
THEOREM NoLoopIsOrphaned == OneWorker => (Spec => []NoOrphanLoop)
<1>1. SeqInv => NoOrphanLoop
  BY DEF SeqInv, FreeInv, NoOrphanLoop
<1> QED
  BY <1>1, SeqInvariance, PTL

(* In the same case a vault is entirely sealed or entirely unsealed between *)
(* requests, after any number of crashes (ReconcileAll, agent_handler.go    *)
(* 149)                                                                     *)
THEOREM BetweenRequestsAlwaysWhole == OneWorker => (Spec => []BetweenRequestsWhole)
<1>1. SeqInv => BetweenRequestsWhole
  BY DEF SeqInv, FreeInv, BetweenRequestsWhole, Whole
<1> QED
  BY <1>1, SeqInvariance, PTL

(* And the stub of a known vault is immutable whenever nothing is mounted   *)
(* on it, but in a destroy (EnsureSealed, vault.go 18)                      *)
THEOREM StubAlwaysImmutable == OneWorker => (Spec => []StubImmutable)
<1>1. SeqInv => StubImmutable
  BY DEF SeqInv, FreeInv, StubImmutable, Destroying
<1> QED
  BY <1>1, SeqInvariance, PTL

LEMMA StepAnswers ==
  ASSUME SeqInv, NEW p \in Procs, Step(p)
  PROVE  \A q \in Procs : Answers(q)
<1>1. Moved(p) /\ Answers(p) /\ \A q \in Procs \ {p} : pc[q] = "idle"
  BY StepSound DEF After
<1>2. \A q \in Procs \ {p} : res'[q] = res[q] /\ pc[q] \notin Destroying
  BY <1>1 DEF Moved, Destroying
<1>3. \A q \in Procs \ {p} : Answers(q)
  BY <1>2 DEF Answers
<1> QED
  BY <1>1, <1>3

LEMMA OthersAnswer ==
  ASSUME SeqInv, OneWorker,
         \/ \E p \in Procs, verb \in Requests : Request(p, verb)
         \/ Restart \/ Reboot \/ UNCHANGED vars
  PROVE  \A q \in Procs : Answers(q)
<1>1. CASE Restart \/ Reboot
  BY <1>1 DEF Restart, Reboot, Startup, NoRes, Answers
<1>2. CASE UNCHANGED vars
  BY <1>2 DEF vars, locals, Answers, Destroying
<1>3. ASSUME NEW p \in Procs, NEW verb \in Requests, Request(p, verb)
      PROVE  \A q \in Procs : Answers(q)
  <2>1. AllIdle /\ res' = [res EXCEPT ![p] = "none"]
    BY <1>3, RequestAlone DEF Request
  <2>2. \A q \in Procs : pc[q] \notin Destroying /\ ~(res[q] = "none" /\ res'[q] = "ok")
    BY <2>1 DEF AllIdle, Destroying, SeqInv, TypeInv, TypeOK
  <2> QED
    BY <2>2 DEF Answers
<1> QED
  BY <1>1, <1>2, <1>3

LEMMA EveryStepAnswers == OneWorker /\ SeqInv /\ [Next]_vars => \A q \in Procs : Answers(q)
BY StepAnswers, OthersAnswer DEF Next

(* One request at a time: an answer of ok means that the verb has reached   *)
(* its goal, whatever failed or crashed before (agent_handler.go 258-397)   *)
THEOREM VerbsAlwaysReachGoals == OneWorker => (Spec => VerbsReachGoals)
<1>1. ASSUME OneWorker
      PROVE  SeqInv /\ [Next]_vars =>
               [\A p \in Workers : res[p] = "none" /\ res'[p] = "ok" => Goal(op[p])']_vars
  BY <1>1, EveryStepAnswers, LifecycleAssumption DEF Answers, Procs
<1>2. ASSUME OneWorker PROVE Init /\ [][Next]_vars => VerbsReachGoals
  <2>1. SeqInv /\ [Next]_vars =>
          [\A p \in Workers : res[p] = "none" /\ res'[p] = "ok" => Goal(op[p])']_vars
    BY <1>1, <1>2
  <2>2. Init /\ [][Next]_vars => []SeqInv
    BY <1>2, SeqInvariance DEF Spec
  <2> QED
    BY <2>1, <2>2, PTL DEF VerbsReachGoals
<1> QED
  BY <1>2 DEF Spec

(* One request at a time: whatever failed or crashed before, a destroy is   *)
(* refused only for what is open or mounted (DestroyVault, provision.go 90) *)
THEOREM LeftoversAlwaysGo == OneWorker => (Spec => LeftoversGo)
<1>1. ASSUME OneWorker
      PROVE  SeqInv /\ [Next]_vars =>
               [\A p \in Procs :
                  pc[p] \in Destroying /\ pc'[p] = "idle" /\ res'[p] = "error" /\ faults' = faults =>
                    ~Sealed]_vars
  BY <1>1, EveryStepAnswers DEF Answers
<1>2. ASSUME OneWorker PROVE Init /\ [][Next]_vars => LeftoversGo
  <2>1. SeqInv /\ [Next]_vars =>
          [\A p \in Procs :
             pc[p] \in Destroying /\ pc'[p] = "idle" /\ res'[p] = "error" /\ faults' = faults =>
               ~Sealed]_vars
    BY <1>1, <1>2
  <2>2. Init /\ [][Next]_vars => []SeqInv
    BY <1>2, SeqInvariance DEF Spec
  <2> QED
    BY <2>1, <2>2, PTL DEF LeftoversGo
<1> QED
  BY <1>2 DEF Spec

(* Who changes what is at the path of the image *)
LEMMA ImageMoves ==
  ASSUME NEW p \in Procs, Step(p), image' # image, image # 0
  PROVE  pc[p] \in {"c_undo_remove", "d_remove"}
<1>1. CASE CreateStep(p)
  BY <1>1 DEF CreateStep, CreateRefused, CreateFile, CreateFind, Find, CreateAttach, CreateFormat,
     CreateOpen, CreateMkfs, CreateClose, CloseMapper, CreateDetach, DetachLoop, UndoClose,
     UndoDetach, UndoRemove, disk
<1>2. CASE DestroyStep(p)
  BY <1>2 DEF DestroyStep, DestroyMapped, DestroyMounted, Refuse, DestroyFind, Find,
     DestroyDetach, DetachLoop, DestroyRemove, DestroyChattr, DestroyRmdir, DestroyForget, disk
<1>3. CASE UnsealStep(p)
  BY <1>3 DEF UnsealStep, UnsealFind, Find, UnsealAttach, UnsealOpen, UnsealAbort, DetachLoop,
     UnsealSource, UnsealMount, BackUnmount, BackImmutable, BackClose, CloseMapper, BackDetach, disk
<1>4. CASE SealStep(p)
  BY <1>4 DEF SealStep, SealSource, SealUnmount, SealImmutable, SealClose, CloseMapper, SealFind,
     Find, SealDetach, DetachLoop, disk
<1>5. CASE Exists(p) \/ Get(p) \/ Ensure(p) \/ Status(p) \/ Lock(p)
  BY <1>5 DEF Exists, Get, Ensure, Status, Lock, disk
<1> QED
  BY <1>1, <1>2, <1>3, <1>4, <1>5 DEF Step

(* One request at a time and no failed command: the image of an open mapper *)
(* stays, so that it takes a request that overlaps a destroy, or a failing  *)
(* luksClose, to lose it (DestroyVault and CreateVault's undoing,           *)
(* provision.go 90 and 75)                                                  *)
THEOREM OpenImageStays ==
  OneWorker => (Spec => [][faults = 0 /\ mapper # 0 /\ image # 0 => image' = image]_vars)
<1>1. SeqInv /\ [Next]_vars => [faults = 0 /\ mapper # 0 /\ image # 0 => image' = image]_vars
  <2> SUFFICES ASSUME SeqInv, Next, faults = 0, mapper # 0, image # 0
               PROVE  image' = image
    OBVIOUS
  <2>1. ASSUME NEW p \in Procs, Step(p) PROVE image' = image
    BY <2>1, ImageMoves DEF SeqInv, FreeInv, FreeAt, At, DestroyAt, Destroying
  <2>2. ASSUME NEW p \in Procs, NEW verb \in Requests, Request(p, verb) PROVE image' = image
    BY <2>2 DEF Request, disk
  <2>3. CASE Restart \/ Reboot
    BY <2>3 DEF Restart, Reboot, Startup, disk
  <2> QED
    BY <2>1, <2>2, <2>3 DEF Next
<1>2. ASSUME OneWorker
      PROVE  Init /\ [][Next]_vars => [][faults = 0 /\ mapper # 0 /\ image # 0 => image' = image]_vars
  <2>1. Init /\ [][Next]_vars => []SeqInv
    BY <1>2, SeqInvariance DEF Spec
  <2> QED
    BY <1>1, <2>1, PTL
<1> QED
  BY <1>2 DEF Spec
=============================================================================

-------------------------- MODULE NamespaceProofs ---------------------------
(***************************************************************************)
(* The proofs about Namespace: what vaults with any ids do to each other.   *)
(***************************************************************************)
EXTENDS NamespaceProps, TLAPS

(* The link of a vault's page leads back to that vault (vaultId.js 25, 31) *)
LEMMA TargetIsId == \A id \in Ids : Target(id) = id
<1> SUFFICES ASSUME NEW id \in Ids PROVE Target(id) = id
  OBVIOUS
<1>1. CASE id = <<id[1]>>
  <2>1. Len(id) = 1 /\ SegmentOk(id[1])
    BY <1>1, IdsAssumption
  <2>2. UrlPathFor(id) = <<Sentinel, id[1]>>
    BY <2>1 DEF UrlPathFor, Nested
  <2> QED
    BY <1>1, <2>1, <2>2 DEF Target, ParseUrlSegments
<1>2. CASE id = <<id[1], id[2]>>
  <2>1. Len(id) = 2 /\ SegmentOk(id[1]) /\ SegmentOk(id[2])
    BY <1>2, IdsAssumption
  <2>2. UrlPathFor(id) = id
    BY <2>1 DEF UrlPathFor, Nested
  <2>3. id[1] # Sentinel
    BY <2>1 DEF SegmentOk, Sentinel
  <2> QED
    BY <1>2, <2>1, <2>2, <2>3 DEF Target, ParseUrlSegments
<1> QED
  BY <1>1, <1>2, IdsAssumption

(* An id lies in the file system of the host or of the vault its locker names *)
LEMMA Places ==
  ASSUME NEW id \in Ids
  PROVE  /\ Place(id) \in Ids \cup {Host} /\ Place(id) # None
         /\ Place(id) \in Ids => Nested(id) /\ Place(id) = Locker(id)
         /\ Dir(id) \in (Ids \cup {Host}) \X Paths
         /\ Above(id) \subseteq (Ids \cup {Host}) \X Paths
<1>1. /\ Place(id) \in Ids \cup {Host} /\ Place(id) # None
      /\ Place(id) \in Ids => Nested(id) /\ Place(id) = Locker(id)
  BY IdsAssumption DEF Place
<1>2. id \in Paths /\ Locker(id) \in Paths
  BY DEF Paths
<1> QED
  BY <1>1, <1>2 DEF Dir, Above

LEMMA DirsDiffer == \A id, o \in Ids : Dir(id) = Dir(o) => id = o
BY DEF Dir

-----------------------------------------------------------------------------
(* What creates a directory creates it where it belongs *)
LEMMA GetTypes ==
  ASSUME TypeOK, NEW id \in Ids, Get(id) \/ GetImmutable(id)
  PROVE  /\ known' \subseteq Ids /\ known \subseteq known'
         /\ dirs' \subseteq (Ids \cup {Host}) \X Paths /\ imm' \subseteq dirs'
         /\ imm' \subseteq imm \cup {Dir(id)} /\ imm \subseteq imm'
         /\ Got(id) => id \in known'
<1>1. /\ known' = KnownAfter(id) /\ Dir(id) \in (Ids \cup {Host}) \X Paths
      /\ Above(id) \subseteq (Ids \cup {Host}) \X Paths
  BY Places DEF Get, GetImmutable
<1>2. known' \subseteq Ids /\ known \subseteq known' /\ (Got(id) => id \in known')
  BY <1>1 DEF KnownAfter, TypeOK
<1>3. CASE Get(id)
  BY <1>1, <1>2, <1>3 DEF Get, DirsAfter, ImmAfter, TypeOK
<1>4. CASE GetImmutable(id)
  BY <1>1, <1>2, <1>4 DEF GetImmutable, TypeOK
<1> QED
  BY <1>3, <1>4

(* All that a request for id may do to what other ids have *)
Confined(id) ==
  /\ \A o \in Ids \ {id} :
       /\ mnt'[o] = mnt[o] /\ (o \in images' <=> o \in images) /\ (o \in known => o \in known')
       /\ ~(Nested(o) /\ Locker(o) = id) => data'[o] = data[o]
       /\ \A p \in (Ids \cup {Host}) \ {id} : <<p, o>> \in imm' <=> <<p, o>> \in imm
  /\ \A n \in Names \ {MapperName(id)} : mapper'[n] = mapper[n]

(* The parts of TypeOK that a request may change *)
TypesAfter ==
  /\ images' \subseteq Ids /\ known' \subseteq Ids
  /\ dirs' \subseteq (Ids \cup {Host}) \X Paths /\ imm' \subseteq dirs'
  /\ mapper' \in [Names -> Ids \cup {None}]
  /\ mnt' \in [Ids -> Ids \cup {Host, None}]
  /\ data' \in [Ids -> {"none", "intact", "wiped"}]

LEMMA NameOfId == \A id \in Ids : MapperName(id) \in Names
BY DEF Names

LEMMA OtherDir == \A id \in Ids : \A p : \A o \in Ids \ {id} : <<p, o>> # Dir(id)
BY DEF Dir

LEMMA CreateConfined ==
  ASSUME TypeOK, NEW id \in Ids, Create(id)
  PROVE  Confined(id) /\ TypesAfter
<1>1. /\ images' = images \cup {id} /\ data' = [data EXCEPT ![id] = "intact"]
      /\ Get(id) /\ UNCHANGED <<mapper, mnt>>
  BY DEF Create
<1>2. /\ known' \subseteq Ids /\ known \subseteq known'
      /\ dirs' \subseteq (Ids \cup {Host}) \X Paths /\ imm' \subseteq dirs'
      /\ imm' \subseteq imm \cup {Dir(id)} /\ imm \subseteq imm'
  BY <1>1, GetTypes
<1> QED
  BY <1>1, <1>2, OtherDir DEF Confined, TypesAfter, TypeOK

LEMMA UnsealConfined ==
  ASSUME TypeOK, NEW id \in Ids, Unseal(id)
  PROVE  Confined(id) /\ TypesAfter
<1>1. (Get(id) \/ GetImmutable(id)) /\ UNCHANGED <<images, data>>
  BY DEF Unseal
<1>2. /\ known' \subseteq Ids /\ known \subseteq known'
      /\ dirs' \subseteq (Ids \cup {Host}) \X Paths /\ imm' \subseteq dirs'
      /\ imm' \subseteq imm \cup {Dir(id)} /\ imm \subseteq imm'
  BY <1>1, GetTypes
<1>3. \/ mapper' = mapper
      \/ \E v \in Ids \cup {None} : mapper' = [mapper EXCEPT ![MapperName(id)] = v]
  BY DEF Unseal, Open
<1>4. mnt' = mnt \/ mnt' = [mnt EXCEPT ![id] = Place(id)]
  BY DEF Unseal
<1>5. /\ mapper' \in [Names -> Ids \cup {None}]
      /\ \A n \in Names \ {MapperName(id)} : mapper'[n] = mapper[n]
  BY <1>3 DEF TypeOK
<1>6. mnt' \in [Ids -> Ids \cup {Host, None}] /\ \A o \in Ids \ {id} : mnt'[o] = mnt[o]
  BY <1>4, Places DEF TypeOK
<1> QED
  BY <1>1, <1>2, <1>5, <1>6, OtherDir DEF Confined, TypesAfter, TypeOK

LEMMA SealConfined ==
  ASSUME TypeOK, NEW id \in Ids, SealVault(id), UNCHANGED <<images, data>>
  PROVE  Confined(id) /\ TypesAfter
<1>1. (Get(id) \/ GetImmutable(id)) /\ UNCHANGED <<images, data>>
  BY DEF SealVault
<1>2. /\ known' \subseteq Ids /\ known \subseteq known'
      /\ dirs' \subseteq (Ids \cup {Host}) \X Paths /\ imm' \subseteq dirs'
      /\ imm' \subseteq imm \cup {Dir(id)} /\ imm \subseteq imm'
  BY <1>1, GetTypes
<1>3. mapper' = mapper \/ mapper' = [mapper EXCEPT ![MapperName(id)] = None]
  BY DEF SealVault
<1>4. mnt' = mnt \/ mnt' = [o \in Ids |-> IF o \in Unmounts(id) THEN None ELSE mnt[o]]
  BY DEF SealVault
<1>5. Unmounts(id) \subseteq {id}
  BY DEF Unmounts
<1>6. /\ mapper' \in [Names -> Ids \cup {None}]
      /\ \A n \in Names \ {MapperName(id)} : mapper'[n] = mapper[n]
  BY <1>3 DEF TypeOK
<1>7. mnt' \in [Ids -> Ids \cup {Host, None}] /\ \A o \in Ids \ {id} : mnt'[o] = mnt[o]
  BY <1>4, <1>5 DEF TypeOK
<1> QED
  BY <1>1, <1>2, <1>6, <1>7, OtherDir DEF Confined, TypesAfter, TypeOK

LEMMA DestroyConfined ==
  ASSUME TypeOK, NEW id \in Ids, Destroy(id)
  PROVE  Confined(id) /\ TypesAfter
<1>1. /\ images' = images \ {id} /\ UNCHANGED <<mapper, mnt>>
      /\ imm' = imm \ ({Dir(id)} \cup OnImage(id))
      /\ dirs' = dirs \ (Removed(id) \cup OnImage(id))
      /\ data' = [o \in Ids |-> IF o = id THEN "none"
                                ELSE IF o \in Emptied(id) THEN "wiped" ELSE data[o]]
      /\ known' \in {known, known \ {id}}
  BY DEF Destroy
<1>2. \A o \in Emptied(id) : Nested(o) /\ Locker(o) = id
  BY DEF Emptied, Inside
<1>3. \A d \in Removed(id) : d = Dir(id) \/ d \notin imm
  BY DEF Removed, Kept
<1>4. imm' \subseteq dirs'
  BY <1>1, <1>3 DEF TypeOK
<1>5. \A o \in Ids \ {id} : \A p \in (Ids \cup {Host}) \ {id} : <<p, o>> \in imm' <=> <<p, o>> \in imm
  BY <1>1, OtherDir DEF OnImage
<1>6. data' \in [Ids -> {"none", "intact", "wiped"}]
  BY <1>1 DEF TypeOK
<1>7. \A o \in Ids \ {id} : ~(Nested(o) /\ Locker(o) = id) => data'[o] = data[o]
  BY <1>1, <1>2
<1>8. TypesAfter
  BY <1>1, <1>4, <1>6 DEF TypesAfter, TypeOK
<1> QED
  BY <1>1, <1>5, <1>7, <1>8 DEF Confined

LEMMA RequestConfined ==
  ASSUME TypeOK, NEW id \in Ids, Request(id)
  PROVE  Confined(id) /\ TypesAfter /\ boot' = boot
<1>1. Create(id) \/ Unseal(id) \/ Seal(id) \/ Destroy(id)
  BY TargetIsId DEF Request
<1>2. boot' = boot
  BY DEF Request
<1> QED
  BY <1>1, <1>2, CreateConfined, UnsealConfined, SealConfined, DestroyConfined DEF Seal

-----------------------------------------------------------------------------
Apart(id) == \A o \in Ids \ {id} : ~Clash(id, o)

(* Only the stubs of vaults are immutable *)
ImmInv == \A d \in imm : d[2] \in Ids

(* The startup pass has made a Vault for each image it has passed *)
BootInv ==
  \A i \in 1..boot - 1 : Sorted[i] \in images /\ Apart(Sorted[i]) => Sorted[i] \in known

NamespaceInv == TypeOK /\ ImmInv /\ BootInv

(* No stub of another vault is above that of an id that stands apart, so    *)
(* that its directory can be made                                           *)
LEMMA ApartIsGot ==
  ASSUME TypeOK, ImmInv, NEW id \in Ids, Apart(id)
  PROVE  Got(id)
<1> SUFFICES ASSUME Above(id) \cap imm # {} PROVE FALSE
  BY DEF Got, CanMkdir
<1>1. Nested(id) /\ <<Host, Locker(id)>> \in imm
  BY DEF Above
<1>2. Locker(id) \in Ids
  BY <1>1 DEF ImmInv
<1>3. Locker(id) # id
  BY <1>1 DEF Nested, Locker
<1> QED
  BY <1>1, <1>2, <1>3 DEF Apart, Clash

LEMMA ImmStays ==
  ASSUME TypeOK, ImmInv, NEW id \in Ids, Get(id) \/ GetImmutable(id)
  PROVE  ImmInv'
<1>1. imm' \subseteq imm \cup {Dir(id)}
  BY GetTypes
<1> QED
  BY <1>1 DEF ImmInv, Dir

LEMMA RequestKeepsInv ==
  ASSUME NamespaceInv, NEW id \in Ids, Request(id)
  PROVE  NamespaceInv'
<1> USE DEF NamespaceInv
<1>1. Confined(id) /\ TypesAfter /\ boot' = boot
  BY RequestConfined
<1>2. TypeOK'
  BY <1>1 DEF TypesAfter, TypeOK
<1>3. Create(id) \/ Unseal(id) \/ Seal(id) \/ Destroy(id)
  BY TargetIsId DEF Request
<1>4. ImmInv'
  <2>1. CASE Get(id) \/ GetImmutable(id)
    BY <2>1, ImmStays
  <2>2. CASE Destroy(id)
    BY <2>2 DEF Destroy, ImmInv
  <2> QED
    BY <1>3, <2>1, <2>2 DEF Create, Unseal, Seal, SealVault
<1>5. id \in images' /\ Apart(id) /\ (id \in images => id \in known) => id \in known'
  <2>1. CASE Get(id) \/ GetImmutable(id)
    BY <2>1, ApartIsGot, GetTypes
  <2>2. CASE Destroy(id)
    BY <2>2 DEF Destroy
  <2> QED
    BY <1>3, <2>1, <2>2 DEF Create, Unseal, Seal, SealVault
<1>6. BootInv'
  <2> SUFFICES ASSUME NEW i \in 1..boot - 1, Sorted[i] \in images', Apart(Sorted[i])
               PROVE  Sorted[i] \in known'
    BY <1>1 DEF BootInv
  <2>1. Sorted[i] \in Ids
    BY IdsAssumption DEF Ids, TypeOK
  <2>2. CASE Sorted[i] = id
    BY <1>5, <2>2 DEF BootInv
  <2>3. CASE Sorted[i] # id
    BY <1>1, <2>1, <2>3 DEF Confined, BootInv
  <2> QED
    BY <2>2, <2>3
<1> QED
  BY <1>2, <1>4, <1>6

LEMMA ReconcileKeepsInv ==
  ASSUME NamespaceInv, Reconcile
  PROVE  NamespaceInv'
<1> USE DEF NamespaceInv
<1> DEFINE id == Sorted[boot]
<1>1. /\ boot \in 1..Len(Sorted) /\ boot' = boot + 1 /\ UNCHANGED <<images, data>>
      /\ IF id \notin images THEN UNCHANGED <<known, dirs, imm, mapper, mnt>>
         ELSE IF Got(id) /\ Degraded(id) THEN SealVault(id)
         ELSE Get(id) /\ UNCHANGED <<mapper, mnt>>
  BY IdsAssumption DEF Reconcile, Serving, TypeOK
<1>2. id \in Ids
  BY <1>1, IdsAssumption DEF Ids
<1> HIDE DEF id
<1>3. boot' \in 1..Len(Sorted) + 1 /\ \A i \in 1..boot' - 1 : i \in 1..boot - 1 \/ i = boot
  BY <1>1, IdsAssumption
<1>4. CASE UNCHANGED <<known, dirs, imm, mapper, mnt>> /\ id \notin images
  <2>1. TypeOK' /\ ImmInv'
    BY <1>1, <1>3, <1>4 DEF TypeOK, ImmInv
  <2>2. BootInv'
    BY <1>1, <1>3, <1>4 DEF BootInv, id
  <2> QED
    BY <2>1, <2>2
<1>5. CASE /\ Get(id) \/ GetImmutable(id)
           /\ SealVault(id) \/ UNCHANGED <<mapper, mnt>>
  <2>1. /\ known' \subseteq Ids /\ known \subseteq known'
        /\ dirs' \subseteq (Ids \cup {Host}) \X Paths /\ imm' \subseteq dirs'
        /\ Got(id) => id \in known'
    BY <1>2, <1>5, GetTypes
  <2>2. mapper' \in [Names -> Ids \cup {None}] /\ mnt' \in [Ids -> Ids \cup {Host, None}]
    <3>1. CASE SealVault(id)
      BY <1>1, <1>2, <3>1, SealConfined DEF TypesAfter
    <3> QED
      BY <1>5, <3>1 DEF TypeOK
  <2>3. TypeOK'
    BY <1>1, <1>3, <2>1, <2>2 DEF TypeOK
  <2>4. ImmInv'
    BY <1>2, <1>5, ImmStays
  <2>5. BootInv'
    BY <1>1, <1>2, <1>3, <2>1, ApartIsGot DEF BootInv, id
  <2> QED
    BY <2>3, <2>4, <2>5
<1> QED
  BY <1>1, <1>4, <1>5 DEF SealVault

LEMMA StartKeepsInv ==
  ASSUME NamespaceInv, Restart \/ Reboot
  PROVE  NamespaceInv'
<1> USE DEF NamespaceInv
<1>1. boot' = 1 /\ known' = {} /\ UNCHANGED <<images, dirs, imm, data>>
  BY DEF Restart, Reboot
<1>2. mapper' \in [Names -> Ids \cup {None}] /\ mnt' \in [Ids -> Ids \cup {Host, None}]
  BY DEF Restart, Reboot, TypeOK
<1>3. 1 \in 1..Len(Sorted) + 1
  BY IdsAssumption
<1> QED
  BY <1>1, <1>2, <1>3 DEF TypeOK, ImmInv, BootInv

LEMMA InitInv == Init => NamespaceInv
<1>1. 1 \in 1..Len(Sorted) + 1
  BY IdsAssumption
<1> QED
  BY <1>1 DEF Init, NamespaceInv, TypeOK, ImmInv, BootInv

LEMMA NextKeepsInv == NamespaceInv /\ [Next]_vars => NamespaceInv'
<1>1. ASSUME NamespaceInv, UNCHANGED vars PROVE NamespaceInv'
  BY <1>1 DEF vars, NamespaceInv, TypeOK, ImmInv, BootInv
<1> QED
  BY <1>1, RequestKeepsInv, ReconcileKeepsInv, StartKeepsInv DEF Next

LEMMA Invariance == Spec => []NamespaceInv
BY InitInv, NextKeepsInv, PTL DEF Spec

(* Every reachable state is well typed *)
THEOREM NamespaceTypeCorrect == Spec => []TypeOK
<1>1. NamespaceInv => TypeOK
  BY DEF NamespaceInv
<1> QED
  BY <1>1, Invariance, PTL

(* Once requests are served the agent can work on every vault that has an   *)
(* image and an id that clashes with no other (agent_handler.go 115)        *)
THEOREM EveryImageIsKnown == Spec => []EveryImageKnown
<1>1. NamespaceInv => EveryImageKnown
  <2> SUFFICES ASSUME NamespaceInv, Serving, NEW id \in images, Apart(id)
               PROVE  id \in known
    BY DEF EveryImageKnown, Apart
  <2>1. PICK i \in DOMAIN Sorted : id = Sorted[i]
    BY DEF NamespaceInv, TypeOK, Ids
  <2>2. i \in 1..boot - 1
    BY IdsAssumption DEF NamespaceInv, TypeOK, Serving
  <2> QED
    BY <2>1, <2>2 DEF NamespaceInv, BootInv
<1> QED
  BY <1>1, Invariance, PTL

(* With any ids, also ones that clash, no request unmounts another vault or *)
(* removes its image (agent_handler.go 36-42)                               *)
THEOREM OthersAlwaysStayMounted == Spec => OthersStayMounted
<1>1. NamespaceInv /\ [Next]_vars =>
        [\A id \in Ids : Request(id) => \A o \in Ids \ {id} :
           mnt'[o] = mnt[o] /\ (o \in images' <=> o \in images)]_vars
  BY RequestConfined DEF NamespaceInv, Confined
<1> QED
  BY <1>1, Invariance, PTL DEF Spec, OthersStayMounted

-----------------------------------------------------------------------------
(* What is seen of a vault depends on nothing that a request for an id      *)
(* apart from it may change.                                                *)
LEMMA ConfinedIsIsolated ==
  ASSUME TypeOK, NEW id \in Ids, Request(id), NEW o \in Ids \ {id}, ~Clash(id, o)
  PROVE  View(o)' = View(o)
<1>1. Confined(id) /\ MapperName(o) # MapperName(id) /\ MapperName(o) \in Names
  BY RequestConfined, NameOfId DEF Clash, Flat, MapperName
<1>2. ~(Nested(o) /\ Locker(o) = id)
  BY DEF Clash
<1>3. Mapped(o)' = Mapped(o)
  BY <1>1 DEF Confined, Mapped
<1>4. Mounted(o)' = Mounted(o)
  BY <1>1 DEF Confined, Mounted
<1>5. Place(o)' = Place(o) /\ Place(o) # id
  BY <1>1, <1>2, IdsAssumption DEF Confined, Place
<1>6. (Dir(o) \in imm)' = (Dir(o) \in imm)
  <2>1. Place(o) \in (Ids \cup {Host}) \ {id}
    BY <1>5, Places
  <2> QED
    BY <1>1, <1>5, <2>1 DEF Confined, Dir
<1>7. (o \in images)' = (o \in images) /\ data'[o] = data[o]
  BY <1>1, <1>2 DEF Confined
<1> QED
  BY <1>3, <1>4, <1>6, <1>7 DEF View

(* A request that names one vault leaves every other one whose id does not  *)
(* clash with it as it was (agent_handler.go 36-47, vaultId.js 25-36)       *)
THEOREM RequestsAreIsolated == Spec => Isolated
<1>1. NamespaceInv /\ [Next]_vars =>
        [\A id \in Ids : Request(id) =>
           \A o \in Ids \ {id} : ~Clash(id, o) => View(o)' = View(o)]_vars
  BY ConfinedIsIsolated DEF NamespaceInv
<1> QED
  BY <1>1, Invariance, PTL DEF Spec, Isolated

(* What destroying a vault may do to the files of others is bounded: only a *)
(* vault that is mounted below the destroyed one's path loses its files, so *)
(* ids that do not nest keep theirs (os.RemoveAll, mount.go 48).            *)
THEOREM DestroyWipesOnlyInside ==
  Spec => [][\A id \in Ids : Serving /\ Destroy(id) => \A o \in Ids \ {id} :
               data'[o] = data[o] \/ (Nested(o) /\ Locker(o) = id /\ Mounted(o))]_vars
<1>1. ASSUME NEW id \in Ids, Destroy(id), NEW o \in Ids \ {id}, data'[o] # data[o]
      PROVE  Nested(o) /\ Locker(o) = id /\ Mounted(o)
  <2>1. o \in Emptied(id)
    BY <1>1 DEF Destroy
  <2>2. Place(id) # None
    BY Places
  <2> QED
    BY <2>1, <2>2 DEF Emptied, Inside, Mounted
<1>2. [Next]_vars =>
        [\A id \in Ids : Serving /\ Destroy(id) => \A o \in Ids \ {id} :
           data'[o] = data[o] \/ (Nested(o) /\ Locker(o) = id /\ Mounted(o))]_vars
  BY <1>1
<1> QED
  BY <1>2, PTL DEF Spec
=============================================================================

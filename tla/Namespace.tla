----------------------------- MODULE Namespace -----------------------------
(***************************************************************************)
(* Several vault ids side by side: what their image, mapper and mount names *)
(* share (agent_handler.go, vaultId.js).  An id is one segment, or two: the  *)
(* locker, a directory below /lockers, and the name.  Both "movies" and     *)
(* "movies/plex" are ids, so that a mount path can lie below another one.   *)
(*                                                                         *)
(* Requests come one at a time and no command fails: what one handler does  *)
(* in between is the subject of Vault and Lifecycle.                        *)
(*                                                                         *)
(* A definition named ...Mutant is the one below it with a plausible        *)
(* mistake; nothing uses it but the checks that the properties notice it.   *)
(***************************************************************************)
EXTENDS Naturals, Sequences

CONSTANTS
  Sorted,   \* the ids that are used, in the order of listVaultIDs
  Host,     \* the file system of the mount area
  None

Ids == {Sorted[i] : i \in DOMAIN Sorted}

(* A segment is a sequence of characters and does not begin with a dash *)
SegmentOk(s) == s # <<>> /\ s[1] # "-"

ASSUME IdsAssumption ==
  /\ Sorted \in Seq(Ids)
  /\ \A id \in Ids : /\ id = <<id[1]>> \/ id = <<id[1], id[2]>>
                     /\ \A i \in 1..Len(id) : SegmentOk(id[i])
  /\ Host \notin Ids /\ None \notin Ids /\ Host # None

Nested(id) == Len(id) = 2
Locker(id) == <<id[1]>>
Sentinel   == <<"-">>

MapperNameMutant(id) == id[Len(id)]
MapperName(id) == IF Nested(id) THEN id[1] \o <<"-", "-">> \o id[2] ELSE id[1]

(* The page of the vault an id's link leads to *)
UrlPathFor(id) == IF Nested(id) THEN id ELSE <<Sentinel, id[1]>>

ParseUrlSegments(url) ==
  IF ~SegmentOk(url[2]) \/ (url[1] # Sentinel /\ ~SegmentOk(url[1])) THEN None
  ELSE IF url[1] = Sentinel THEN <<url[2]>> ELSE url

VARIABLES
  images,   \* the ids with an image
  known,    \* the ids with a registered Vault
  dirs,     \* the directories below the mount area, with the file system each is in
  imm,      \* the immutable ones
  mapper,   \* the id whose image is open under each mapper name
  mnt,      \* the file system in which each id's own is mounted
  data,     \* what has become of the files of each id
  boot      \* the next id of the startup pass

vars == <<images, known, dirs, imm, mapper, mnt, data, boot>>

Names == {MapperName(id) : id \in Ids}
Paths == Ids \cup {Locker(id) : id \in Ids}

TypeOK ==
  /\ images \subseteq Ids /\ known \subseteq Ids
  /\ dirs \subseteq (Ids \cup {Host}) \X Paths /\ imm \subseteq dirs
  /\ mapper \in [Names -> Ids \cup {None}]
  /\ mnt \in [Ids -> Ids \cup {Host, None}]
  /\ data \in [Ids -> {"none", "intact", "wiped"}]
  /\ boot \in 1..Len(Sorted) + 1

Init ==
  /\ images = {} /\ known = {} /\ dirs = {} /\ imm = {}
  /\ mapper = [n \in Names |-> None] /\ mnt = [id \in Ids |-> None]
  /\ data = [id \in Ids |-> "none"] /\ boot = 1

-----------------------------------------------------------------------------
(* A vault's path below the path of a mounted one is inside that one *)
Place(id) ==
  IF Nested(id) /\ Locker(id) \in Ids /\ mnt[Locker(id)] # None THEN Locker(id) ELSE Host
Dir(id)     == <<Place(id), id>>
Above(id)   == IF Nested(id) /\ Place(id) = Host THEN {<<Host, Locker(id)>>} ELSE {}
Mapped(id)  == mapper[MapperName(id)] # None
Mounted(id) == mnt[id] # None
Degraded(id) == Mapped(id) # Mounted(id)

(* MkdirAll creates the directories above, but nothing in an immutable one *)
CanMkdirMutant(id) == Above(id) \subseteq dirs
CanMkdir(id) == Dir(id) \in dirs \/ Above(id) \cap imm = {}

(* getOrCreateVault *)
Got(id) == id \in known \/ CanMkdir(id)
New(id) == id \notin known /\ CanMkdir(id)
KnownAfter(id) == known \cup {i \in {id} : Got(i)}
DirsAfter(id)  == dirs \cup (IF New(id) THEN {Dir(id)} \cup Above(id) ELSE {})
ImmAfter(id)   == imm \cup (IF New(id) /\ ~Mounted(id) THEN {Dir(id)} ELSE {})

Get(id) ==
  /\ known' = KnownAfter(id) /\ dirs' = DirsAfter(id) /\ imm' = ImmAfter(id)

(* EnsureImmutable, after getOrCreateVault *)
GetImmutable(id) ==
  /\ known' = KnownAfter(id)
  /\ dirs' = dirs \cup {Dir(id)} \cup Above(id) /\ imm' = imm \cup {Dir(id)}

-----------------------------------------------------------------------------
(* handleCreate: another vault's open mapper of the same name makes it fail *)
Create(id) ==
  /\ id \notin images /\ ~Mapped(id)
  /\ images' = images \cup {id} /\ data' = [data EXCEPT ![id] = "intact"]
  /\ Get(id)
  /\ UNCHANGED <<mapper, mnt>>

(* Unseal finds the mapper free, or open already on this image *)
Open(id) == mapper' = [mapper EXCEPT ![MapperName(id)] = id]
OwnName(id) == mapper[MapperName(id)] \in {None, id}

Unseal(id) ==
  /\ id \in images
  /\ \/ /\ Got(id) /\ OwnName(id) /\ ~Mounted(id) /\ Dir(id) \in DirsAfter(id)
        /\ Open(id) /\ mnt' = [mnt EXCEPT ![id] = Place(id)]
        /\ Get(id)
     \/ /\ Got(id) /\ OwnName(id) /\ ~Mounted(id) /\ Dir(id) \notin DirsAfter(id)
        /\ mapper' = [mapper EXCEPT ![MapperName(id)] = None]    \* rollbackToSealed
        /\ IF CanMkdir(id) THEN GetImmutable(id) ELSE Get(id)
        /\ UNCHANGED mnt
     \/ /\ ~Got(id) \/ ~OwnName(id) \/ Mounted(id)
        /\ Get(id) /\ UNCHANGED <<mapper, mnt>>
  /\ UNCHANGED <<images, data>>

(* umount follows the path as it leads now, and is refused while another    *)
(* file system is mounted inside; luksClose is refused while mounted.       *)
UnmountsMutant(id) ==
  IF mnt[id] = Place(id) THEN {id} \cup {o \in Ids : mnt[o] = id} ELSE {}
Unmounts(id) ==
  IF mnt[id] = Place(id) /\ (\A o \in Ids : mnt[o] # id) THEN {id} ELSE {}
CanClose(id) ==
  LET o == mapper[MapperName(id)] IN o = None \/ o = id \/ ~Mounted(o)

CanSeal(id) == Got(id) /\ (Mounted(id) => id \in Unmounts(id)) /\ CanMkdir(id)

SealVault(id) ==
  \/ /\ CanSeal(id)
     /\ mnt' = [o \in Ids |-> IF o \in Unmounts(id) THEN None ELSE mnt[o]]
     /\ GetImmutable(id)
     /\ mapper' = IF CanClose(id) THEN [mapper EXCEPT ![MapperName(id)] = None] ELSE mapper
  \/ /\ ~CanSeal(id)
     /\ Get(id) /\ UNCHANGED <<mapper, mnt>>

Seal(id) == id \in images /\ SealVault(id) /\ UNCHANGED <<images, data>>

(* RemoveAll empties every file system mounted below the path; a mount      *)
(* point and an immutable directory stay, and the directory above them.     *)
Inside(id)  == {o \in Ids : Nested(o) /\ Locker(o) = id /\ Place(o) = Place(id)}
Emptied(id) == {o \in Inside(id) : Dir(id) \in dirs /\ mnt[o] = Place(id)}
Kept(id)    == Emptied(id) \cup {o \in Inside(id) : Dir(o) \in imm}
RemovedMutant(id) == {Dir(o) : o \in Inside(id)} \cup {Dir(id)}
Removed(id) ==
  {Dir(o) : o \in Inside(id) \ Kept(id)} \cup (IF Kept(id) = {} THEN {Dir(id)} ELSE {})
OnImage(id) == {d \in dirs : d[1] = id}

(* handleDestroy: an error of RemoveAll leaves the Vault registered *)
Destroy(id) ==
  /\ id \in images /\ ~Mapped(id) /\ ~Mounted(id)
  /\ images' = images \ {id}
  /\ imm' = imm \ ({Dir(id)} \cup OnImage(id))
  /\ dirs' = dirs \ (Removed(id) \cup OnImage(id))
  /\ data' = [o \in Ids |-> IF o = id THEN "none"
                            ELSE IF o \in Emptied(id) THEN "wiped" ELSE data[o]]
  /\ known' = IF Dir(id) \in dirs /\ Kept(id) # {} THEN known ELSE known \ {id}
  /\ UNCHANGED <<mapper, mnt>>

-----------------------------------------------------------------------------
(* A request names the vault by the link of its page; the page of a new     *)
(* vault joins locker and name itself.                                      *)
Serving == boot > Len(Sorted)
Target(id) == ParseUrlSegments(UrlPathFor(id))

Request(id) ==
  /\ Serving /\ UNCHANGED boot
  /\ Create(id) \/ Unseal(Target(id)) \/ Seal(Target(id)) \/ Destroy(Target(id))

(* ReconcileAll, one id after the other *)
Reconcile ==
  /\ ~Serving /\ boot' = boot + 1 /\ UNCHANGED <<images, data>>
  /\ LET id == Sorted[boot]
     IN IF id \notin images THEN UNCHANGED <<known, dirs, imm, mapper, mnt>>
        ELSE IF Got(id) /\ Degraded(id) THEN SealVault(id)
        ELSE Get(id) /\ UNCHANGED <<mapper, mnt>>

Restart ==
  /\ Serving /\ boot' = 1 /\ known' = {}
  /\ UNCHANGED <<images, dirs, imm, mapper, mnt, data>>

Reboot ==
  /\ Serving /\ boot' = 1 /\ known' = {}
  /\ mapper' = [n \in Names |-> None] /\ mnt' = [id \in Ids |-> None]
  /\ UNCHANGED <<images, dirs, imm, data>>

Next == (\E id \in Ids : Request(id)) \/ Reconcile \/ Restart \/ Reboot

Spec == Init /\ [][Next]_vars
=============================================================================

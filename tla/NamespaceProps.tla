--------------------------- MODULE NamespaceProps ---------------------------
(***************************************************************************)
(* What the vaults of module Namespace must not do to each other.           *)
(***************************************************************************)
EXTENDS Namespace

(* What Status, the disk and the user see of a vault *)
View(id) ==
  <<id \in images, Mapped(id), Mounted(id), data[id], Dir(id) \in imm>>

(* The pairs of ids that do share something: one names a vault and the      *)
(* locker of the other, or they are alike once "/" is written "--".         *)
Flat(id) == IF Nested(id) THEN id[1] \o <<"-", "-">> \o id[2] ELSE id[1]
Clash(id, o) ==
  Flat(id) = Flat(o) \/ (Nested(id) /\ Locker(id) = o) \/ (Nested(o) /\ Locker(o) = id)

(* A request that names one vault leaves every other one as it was, its     *)
(* image, mapper, mount, files and stub, unless their ids clash (imagePath, *)
(* mountPath and mapperName, agent_handler.go 36-47; urlPathFor and         *)
(* parseUrlSegments, vaultId.js 25-36).                                     *)
Isolated ==
  [][\A id \in Ids : Request(id) =>
       \A o \in Ids \ {id} : ~Clash(id, o) => View(o)' = View(o)]_vars

(* Once the agent serves requests, it can work on every vault that has an   *)
(* image and an id that clashes with no other (getOrCreateVault,            *)
(* agent_handler.go 115).                                                   *)
EveryImageKnown ==
  Serving => \A id \in images : (\A o \in Ids \ {id} : ~Clash(id, o)) => id \in known

(* Also with ids that clash, no request unmounts another vault or removes   *)
(* its image (Unmount and os.Remove go by path, agent_handler.go 36-42).    *)
OthersStayMounted ==
  [][\A id \in Ids : Request(id) => \A o \in Ids \ {id} :
       mnt'[o] = mnt[o] /\ (o \in images' <=> o \in images)]_vars

(* Destroying a vault leaves the files of all the others alone              *)
(* ("Permanently deletes a vault's backing file and mount stub",            *)
(* provision.go 89).                                                        *)
DestroyKeepsOthers ==
  [][\A id \in Ids : Serving /\ Destroy(id) =>
       \A o \in Ids \ {id} : data'[o] = data[o]]_vars
=============================================================================

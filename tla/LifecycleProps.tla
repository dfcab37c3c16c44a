-------------------------- MODULE LifecycleProps ---------------------------
(***************************************************************************)
(* What creating, destroying, unsealing and sealing one vault id must keep. *)
(***************************************************************************)
EXTENDS Lifecycle

AllIdle == \A p \in Procs : pc[p] = "idle"

Sealed == mapper = 0 /\ mnt = 0

(* What each verb's answer of ok stands for: a created vault is formatted   *)
(* and sealed, a destroyed one is gone from the disk, the kernel and the    *)
(* mount area, unseal mounts the image at the path, seal leaves no mapper   *)
(* and no loop device (the returns of Handle's verbs, agent_handler.go      *)
(* 258-397).                                                                *)
Goal(verb) ==
  CASE verb = "create"  -> image # 0 /\ content[image] = "ready" /\ Sealed /\ Attached = {}
    [] verb = "destroy" -> image = 0 /\ Sealed /\ stub = "absent" /\ reg = 0
    [] verb = "unseal"  -> mnt # 0 /\ mnt = image
    [] verb = "seal"    -> Sealed /\ Attached = {} /\ stub = "immutable"

VerbsReachGoals ==
  [][\A p \in Workers : res[p] = "none" /\ res'[p] = "ok" => Goal(op[p])']_vars

(* One request at a time and no command has failed: wherever the agent is   *)
(* stopped, no loop device is left on an image that is not at the path, so  *)
(* nothing is out of the agent's reach until the next reboot (the order of  *)
(* CreateVault and DestroyVault, provision.go 24 and 90).                   *)
NoOrphanLoop == faults = 0 => \A d \in Loops : backing[d] \in {0, image}

(* One request at a time and no command has failed: between requests the    *)
(* vault is entirely sealed or entirely unsealed, also when the agent was   *)
(* stopped in the middle of a create (ReconcileAll, agent_handler.go 149).  *)
BetweenRequestsWhole ==
  faults = 0 /\ AllIdle => Sealed \/ (mnt # 0 /\ mnt = image)

(* One request at a time and no command has failed: the stub of a vault the *)
(* agent knows is immutable whenever nothing is mounted and no destroy is   *)
(* under way, also when an id is made again after it was destroyed ("an     *)
(* immutable bare dir while sealed", vault.go 18).                          *)
StubImmutable ==
  faults = 0 /\ image # 0 /\ reg # 0 /\ mnt = 0
    /\ (\A p \in Procs : pc[p] \notin Destroying) =>
      stub = "immutable"

(* One request at a time: whatever failed or was killed before, a vault can *)
(* be destroyed.  The destroy is refused for an open mapper, a mount or a   *)
(* command of its own that fails (DestroyVault, provision.go 90).           *)
LeftoversGo ==
  [][\A p \in Procs :
       pc[p] \in Destroying /\ pc'[p] = "idle" /\ res'[p] = "error" /\ faults' = faults =>
         ~Sealed]_vars

(* A file system that a create has finished is never formatted or emptied   *)
(* by anybody (format and mkfs, provision.go 153 and 165).                  *)
ReadyStaysReady ==
  [][\A g \in Images : content[g] = "ready" /\ image = g => content'[g] = "ready"]_vars

(* The backing file of an open mapper is not taken away, by a destroy or by *)
(* the undoing of a create ("Checks DestroyVault refuses a still-open       *)
(* mapper", provision_test.go 163; CreateVault's undoing, provision.go 77). *)
OpenImageKept ==
  [][mapper # 0 /\ image # 0 /\ backing[mapper] = image => image' = image]_vars

(* Unseal and Seal of one id exclude each other (the mutex of the           *)
(* registered Vault, agent_handler.go 114).                                 *)
OneTransitionAtATime ==
  \A p, q \in Procs : pc[p] \in Critical /\ pc[q] \in Critical => p = q
=============================================================================

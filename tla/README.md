# Portcullio: verification

Portcullio keeps encrypted vaults on a host. An image file holds a LUKS container;
while the vault is *unsealed* its file system is mounted below the vault area, and
while it is *sealed* the same path is a bare, immutable directory (the *stub*), so
that a service which comes up too early cannot write plaintext there. A privileged
agent (Go) drives `losetup`, `cryptsetup`, `mount`, `umount`, `chattr`, `fuser` and
`docker`; a web UI (node) holds the admin's password and talks to the agent over a
Unix socket.

This directory has TLA+ modules of the parts with state of their own, TLC
configurations that check them on small instances, and TLAPS proofs of nearly
all that these checks show, for every value of the constants. Paths below are relative to the repository's root; `vault.go 128`
means line 128 of that file.

## 1. Inventory

| component | state | operations | hard behaviours | what makes it correct |
|---|---|---|---|---|
| **vault state machine** (`agent/internal/vault`, with `luks`, `mount`, `shellout`) | mutex and busy flag of one vault; in the kernel its loop device, mapper, mount, the stub and its immutable flag | `EnsureSealed`, `Status`, `Unseal` with `rollbackToSealed`, `Seal`, `Reconcile` | goroutines on one vault; a command that fails, or is killed by its timeout after doing its work; a crash between two commands; reads without the mutex | the stub is immutable whenever nothing is mounted; an answer of ok is true; operations exclude each other; nothing is left attached or mapped; a restart converges |
| **registry and handlers** (`agent/internal/socket/agent_handler.go`) | map from id to Vault under `h.mu` | `getOrCreateVault`, `forgetVault`, `ReconcileAll`, the seven verbs | a Vault forgotten while in use; create and destroy take no vault mutex; check, then act | one Vault per id at a time; each verb reaches its goal or reports why not |
| **provisioning** (`agent/internal/provision`) | image files | `CreateVault` and its undoing, `DestroyVault` | the image path is shared with concurrent calls; lazy loop detach; partial failure | a finished file system is never formatted or removed from under its mapper |
| **names** (`mapperName`, `imagePath`, `mountPath`, `ui/vaultId.js`) | none of their own; the name spaces of devmapper and the file system | id to image, mapper and mount path; id to URL and back | ids of one and of two segments, mount paths inside each other, two ids with one mapper name | a request about one vault does nothing to another |
| **linked services** (`agent/internal/dockerctl`, `unseal`/`seal` handlers, `ui/index.js`, `ui/agentClient.js`, links in `ui/state.js`) | containers; the links of each vault | stop, unseal, start; stop, seal; save and forget links | the UI gives up after 30 s while the agent goes on; answers lost; containers removed by others | after a clean answer the services run on the vault, or are stopped |
| **login throttle** (`ui/loginThrottle.js`) | failures per address | `msUntilUnlocked`, `recordFailure`, `recordSuccess` | windows that do not slide, boundaries of time | passwords checked per lockout time are bounded; nobody is locked out without cause |
| **password, sessions, recovery codes** (`ui/auth.js`, `ui/state.js`, `ui/generate-recovery-code.js`) | `state.json` | setup, login, logout, generate, recover | the command line and the UI write one file; expiry and cooldown computed from each other | a code works once; ended sessions stay ended; the last password set is the password |
| **socket server** (`agent/internal/socket/socket.go`) | connections | one JSON line in, one out; a goroutine each | connections are not bounded and not awaited at shutdown | framing |
| **agent main** (`agent/main.go`) | – | recover vaults, then serve; end on a signal | the signal does not wait for handlers | no request before the startup pass is over |
| **start of the UI, TLS certificate** (`ui/tls.js`, end of `ui/index.js`) | key and certificate file, temporary files | look, `openssl`, two renames, load, listen | a kill anywhere, also at a renewal; settings that change from start to start | the server is made of one pair; a half-made pair is made anew |
| **routes, cookies, CSRF tokens** (`ui/index.js`, `ui/auth.js`, `ui/csrf.js`, forms of `ui/views.js`) | `csrfSecret`; in the browser the cookies of HTTP and HTTPS, the pages of its tabs | redirects, pages with their forms, login, logout, refused forms | answers to several tabs in any order, lost answers, restarts, a change of scheme | a form acts in the login it was rendered for; a login reaches the next request and is not taken away |
| **loopback test helper, Dockerfiles, compose file, CI** | – | – | – | – |

How they interact: a form of the UI becomes one call (`callAgent`), one connection
and one goroutine of the agent (`handleConn`, then `Handle`). The handler first asks whether
the image exists, gets the Vault from the registry, and calls it. Vaults, create
and destroy meet only in the kernel and the file system, where every step is a
command of `shellout.Run` with a timeout. At startup `ReconcileAll` runs alone.
The links and the admin's credentials live in `state.json`, which the UI and the
command line both load, change and replace by a rename.

The hazards of this code, each at its line with the properties against it, are in
`PROJECT.json`. Where the code lets a hazard happen, the property that speaks of it leaves that
case out or its run does not send it; the hazard's note says so, and section 5 names the
instance that shows it.

## 2. Modules

| module | models |
|---|---|
| `Vault` | one vault at the grain of one step per command: registry entry, both mutexes, `Status`, `Unseal`, rollback, `Seal`, the startup pass, commands that fail or time out, processes that hold files open, mounts by hand, crash and reboot |
| `VaultProps` | its properties, and the refinement mapping to `SealState` |
| `SealState` | what a vault promises, without devices: one operation at a time, only its owner changes the state, ok means the goal is reached |
| `VaultProofs` | the proofs about `Vault` (TLAPS) |
| `Lifecycle`, `LifecycleProps`, `LifecycleProofs` | one id through create, destroy, unseal and seal, with images as inodes, loop devices that the kernel reuses and frees lazily, and Vault objects that are forgotten and made anew; proofs |
| `Namespace`, `NamespaceProps`, `NamespaceProofs` | several ids: names, nested mount paths, `MkdirAll` and `RemoveAll` over immutable directories, the URLs of vaults; proofs |
| `Console`, `ConsoleProofs` | forms, calls, timeouts, the handlers' order of services and vault, the containers, the links; proofs |
| `Throttle`, `ThrottleProofs` | the login throttle; proofs |
| `Tls`, `TlsProofs` | the start of the UI with its certificate and key; proofs |
| `Web`, `WebProofs` | `Tls` with the routes, the cookies, the CSRF tokens and a browser with several tabs; proofs |
| `Auth`, `AuthProofs` | password, sessions and recovery codes over `state.json` with two writers; proofs |
| `MC...` | constants and symmetry for TLC (`Auth` needs none and is run as it is) |

How state and actions correspond to the code:

* A process's `pc` names the next command of the Go function it is in
  (`unseal_attach` is `luks.AttachLoop`, `back_close` the `luks.Close` of the
  rollback, and so on); `op` is the verb. Each action is one call into `luks` or
  `mount` with the early return that follows it. The deferred
  `busy.Store(false); mu.Unlock()` is in `Finish`, part of the action that returns.
* A command ends `done`, `failed`, or `late`: killed by the timeout of
  `shellout.Run` after it has taken effect. `MaxFaults` bounds the last two: in `Vault`
  per run of the agent, since `faults` counts from its start (`Restarted`), in
  `Lifecycle` over all runs.
* Where a step needs no command but may fail all the same (reading the mount table,
  finding the loop device, asking for the image), the action has the error return as a fault.
* A wrong passphrase, a refused size, open files are ordinary outcomes and
  are not bounded.
* In `Console` a call of the agent is a few steps. One fault of a step stands for any number of
  failing commands in it: a failed Unseal may leave the vault sealed, open or degraded
  (`UnsealLeaves`), a failed Seal whatever its first failing command leaves (`SealLeaves`), a failed create
  an image or none. A kill inside a step is such a fault and then a restart, whose startup pass seals
  a degraded vault if it can.
* `losetup --detach` of a device in use succeeds and takes effect when the mapper
  closes (`autoclear` in `Vault`, `lazy` in `Lifecycle`).
* A crash, and equally SIGTERM (`main.go` 58-75 does not wait for
  handlers), leaves the kernel as it is; a reboot clears it and keeps the disk.

The layers: `Vault` looks inside one Vault object, `Lifecycle` at one id with many
such objects over time, `Namespace` at several ids with each request in one step,
`Console` at the client's side with each call of the agent in a few steps. Each
module abstracts what the one before has shown: that Unseal and Seal exclude each
other and their answers are true justifies the single steps of the later ones,
except where the findings of section 5 say otherwise, and there the
later modules have the behaviour (a destroy that fails after the image
is gone is an outcome in `Console`).
`Web` extends `Tls`: the same actions start and stop the server that a browser meets, and
`WebProofs` proves that the composition implements `Tls`. `Web` has one form for all
that a vault has, and `admin` and the live sessions in place of `state.json`;
`Console` and `Auth` are about those.

A definition named `...Mutant` is the definition after it with a plausible mistake. The
specifications never use it; putting it in place makes TLC report the property
that `PROJECT.json` names.

## 3. Runs

| run | instance | shows |
|---|---|---|
| `vault_faults` | 2 goroutines and the startup pass, 1 failing or late command in each run of the agent, 1 crash or reboot, 1 file holder, mounts by hand; 1.5 million states | `Exclusive`: Unseal, rollback and Seal never overlap. `OutcomeSound`: ok of Unseal and Seal is true, from whatever state they began in. `RollbackClean`: a rollback without errors left nothing. `UnsealedAnswerSound`: a status of unsealed is true when given, although its reads are not atomic |
| `vault_recovery` | 2 goroutines, 1 fault in each run of the agent, 2 crashes, 1 holder, no `fuser`, nobody mounting by hand; 275 thousand states | `StubProtected`; `QuietIsWhole`: between requests the vault is sealed or open and never half of either, whatever earlier runs of the agent left, until a command of this run fails (and without crashes its loop device fits); `StartupConverges`: a startup pass none of whose own commands fails leaves no vault degraded, whatever the runs before left; `Implements`: the vault implements `SealState` |
| `vault_live` | 2 goroutines, 1 fault, 1 holder; 59 thousand states | `EveryRequestEnds`, the startup pass included |
| `life_verbs` | 1 goroutine, all verbs, 2 faults, 2 crashes or reboots; 43 thousand states | `VerbsReachGoals`; `LeftoversGo`: whatever is left of an id, a destroy takes it, unless its mapper is open; and as long as no command has failed, wherever the agent was killed, `NoOrphanLoop`, `BetweenRequestsWhole` and `StubImmutable` |
| `life_races` | 2 goroutines, create, unseal and seal, 1 fault; 868 thousand states | `OneTransitionAtATime`; `ReadyStaysReady`: O_EXCL lets one create in, so that no finished file system is formatted |
| `life_destroy` | 2 goroutines, destroy and unseal | finding 1 |
| `ns_mixed` | the ids `m`, `m--p`, `m/p`, `s/p`; 3.5 thousand states | `Isolated`, `EveryImageKnown`, and also between clashing ids `OthersStayMounted` |
| `ns_inner` | the ids `m` and `m/p` | finding 2 |
| `throttle` | 2 addresses, 3 attempts, lockout 2, window 4, clock to 8; 1.8 million states | `FailuresBounded`, `LockoutEarned` |
| `auth` | UI and command line, 3 codes, 2 sessions, clock to 6; 1.1 million states | `CodeSingleUse` in every interleaving; `PasswordKept`, `EndedStaysEnded`, `CooldownKept` unless the two writers have met |
| `console` | 2 connections, 2 services, 1 lost answer or UI restart, 2 faults or agent restarts; 2.8 million states | `UnsealServes`, `SealStops`, `LinksGo` |
| `web` | 2 tabs, 2 session tokens, 3 names of pairs, HTTP, HTTPS with its own or a supplied pair; 710 thousand states | `OwnPairMatches`, `FormsStayInTheirLogin`, `FreshPageWorks`, `LoginReaches`, `LoginKept` |

Why the bounds are enough to be of use. Two goroutines make every pair of handlers meet,
and the startup pass is a third process. One fault puts a failure or a timeout at each command
once; in `life_verbs` a second one reaches the undoing of a create or a second verb.
Two crashes let the recovery itself be interrupted; since faults are counted per run of the
agent, each of the three runs may have one of its own. The second fault of `console` lets a call meet what a
failed one or a kill left. Three images and two loop
devices are as many as two overlapping creates and a removed image that is still
attached can use. The four ids have one pair for each way two ids can share something,
and one id apart from them. The clock of `throttle` runs through two windows and
several lockouts, that of `auth` past a session's and a code's expiry. Two tabs let one answer overtake
another, and two session tokens are the one a page was rendered in and the one it is sent in; a
token, or the name of a pair, is used again when it is nowhere any more, so that
logins and renewals are not bounded in number. Three pairs are the two a torn
swap can leave and a fresh one. The theorems of section 4 do without such bounds.

To keep `web` small, its browser comes when one good pair is in place (`Settled`), since it does not
see the files, and while it has cookies or pages the files are not touched from outside
and no pair is supplied (`NoBrowser`).

No run turns deadlock checking off: in every model a new request, or a stutter that
stands for a page without effect (`NoChange` in `Auth`), is always possible.

### Fairness

Only `vault_live` states any: `WF` of each process's `Step`, and `SF` of its `Lock`
and `Lookup`. Weak fairness holds because every command is ended by the timeout of
`shellout.Run`, `WaitForNoHandles` has a deadline, and the Go scheduler
runs every goroutine. Strong fairness of the two lock steps is what Go's
`sync.Mutex` gives: a goroutine that has waited for a millisecond
puts the mutex into starvation mode and is next. Nothing is assumed of clients,
file holders or crashes.

### Abstractions

* Polling in `WaitForNoHandles` changes nothing, so that only its two ends are
  steps; `fuser` answers with nobody when it fails silently or is not there.
* In `Vault` an operator mounts and unmounts by hand only while no operation of the
  agent runs (`Quiet`). Without that, `umount` by hand between two commands makes any
  answer wrong.
* `Vault` and `Lifecycle` are about one id; what ids share is in `Namespace`, where in
  turn requests come one at a time and no command fails.
* `Lifecycle` leaves out file holders and mounts by hand, which are in `Vault`. System
  calls of the agent itself (`Syscall`) fail or not; only commands can be late.
* In `Console`, containers change by other hands only while no call is open.
* In `Auth` no time passes between a load and its save; a password is named by the code
  it was set with. Hashing is left out; cookies and the CSRF token are in `Web`.
* In `Web` a handler is one step, between the request and the answer on its way: it reads
  its cookies once. Answers on their way are lost when the process stops. After a change of
  scheme the pages that are open are dropped, since they would be sent to an address that does not
  answer; the cookies stay. The library csrf-csrf is modelled from its options and use: a
  request's token is renewed only if its cookie is not good. What a rate limit
  answers is a page without forms (`Refusal`). A create's call for the free
  space, and the pages that only read, change nothing and are left out.
* A cookie is secure exactly under HTTPS, and a browser neither takes a secure cookie, nor
  one with the name of a secure one it has, over HTTP.
* In `Tls` somebody may remove the certificate or both files, but not only the key
  (section 5), and the clock does not go back. Temporary files that a kill leaves are
  never read again, and so they are forgotten.
* In `Throttle` a login is one step: between `msUntilUnlocked` and the record of
  the outcome the handler does not give up the thread.

## 4. Proofs

Each theorem holds for every value of the constants that the assumptions of its module
allow. TLC evaluates those in each run. They say what the code relies on: a marker such
as `None`, `NoProc` or `Host` is not also one of the things it marks the absence of; bounds are
natural numbers; the ids of `Namespace` have the form that `vaultIDPattern` lets through
(one or two segments of letters, digits and dashes, `agent_handler.go` 19); there is room for
at least one image. Sizes are free: goroutines, file holders,
clients, services, tabs, tokens, codes, faults, crashes, limits of the throttle and lifetimes.

Every safety proof has one shape. The property is seldom inductive, so there is an
invariant with a part for each reason it holds; `...InitInv` is the base, a lemma for each
group of actions is the induction step, and `...Invariance` joins them. For action properties the
invariant holds before the step, and the step itself is looked at.

### Vault

| theorem | says |
|---|---|
| `TypeCorrect` | `Spec => []TypeOK` |
| `MutualExclusion` | `Spec => []Exclusive` |
| `StubAlwaysProtected` | `~Operator => (Spec => []StubProtected)` |
| `OutcomesSound`, `RollbacksClean`, `UnsealedAnswersSound` | the three action properties of `vault_faults` |
| `QuietAlwaysWhole`, `StartupAlwaysConverges` | `~Operator => (Spec => []QuietIsWhole)` and `... => StartupConverges` |
| `Implementation` | `Spec => Implements`: every step of `Vault` is a step or a stutter of `SealState`, with `state` the classification of mapper and mount, `owner` the owner of the mutex, `goal` from the owner's verb and `answer` the ok or error given |

`~Operator` means that nobody mounts by hand; with a foreign mount on the stub these three are
false, and the run that checks them has no operator either. The invariant `IInv`:

* `LockInv`: a process is in a critical step exactly if it owns the vault's mutex, and
  in `ensure` exactly if it owns the registry's. Exclusion follows.
* `RegistryInv`: beyond the lookup the vault is registered, so that what `EnsureSealed`
  established holds; the process in `ensure` is the one that will register it.
* `OpInv`: the steps of Unseal and its rollback belong to the verb unseal. The
  meaning of ok, and the goal of `SealState`, depend on it.
* `KernelInv`: a real mount has a mapper under it, and a mapper a loop device; a
  deferred detach waits only for a mapper. This is why `umount` before
  `luksClose` before `losetup --detach` is the order that works.
* `UnsealInv`, `BackInv`, `SealInv`: what each step may count on because the earlier ones
  succeeded. In the rollback, which goes on after an error, the facts hold only
  while no error has been noted; `RollbackClean` is that, at the end.
* `StubInv`: without mounts by hand the stub of a registered vault is immutable, and it is
  immutable under every real mount. The last part makes an `umount` in any
  operation safe, and carries the fact over a crash, when the registry is empty again.

`CareInv` adds what holds only while no command of the present run of the agent has failed, or only of
the startup pass. `StartInv` says that the startup pass is alone and that a vault left degraded, by a crash or a
failed command of an earlier run, is so before the pass and not after it. `WholeInv` says at which steps
a vault may then be half sealed once requests are served, and `LoopInv` the same of its loop device as
long as there was no crash (after one, a loop device may be left that no pass looks at). `QuietIsWhole`
and `StartupConverges` follow. For the refinement, a step that stays critical is
`Work` (`GoingOnIsWork`), one that leaves is `End` (`ReturningIsEnd`), taking
the mutex is `Begin`, and the rest is `Other`, `ByHand`, `Restart` or a stutter.

### Lifecycle

| theorem | says |
|---|---|
| `LifecycleTypeCorrect` | `Spec => []TypeOK` |
| `TransitionsExclude` | `"destroy" \notin Requests => (Spec => []OneTransitionAtATime)` |
| `ReadyAlwaysStays` | `"destroy" \notin Requests => (Spec => ReadyStaysReady)` |
| `VerbsAlwaysReachGoals`, `LeftoversAlwaysGo` | `OneWorker => (Spec => VerbsReachGoals)`, `... LeftoversGo` |
| `NoLoopIsOrphaned`, `BetweenRequestsAlwaysWhole`, `StubAlwaysImmutable` | `OneWorker => (Spec => []...)` of `NoOrphanLoop`, `BetweenRequestsWhole`, `StubImmutable` |
| `OpenImageStays` | with `OneWorker`, until a first command fails, the image of an open mapper stays |

The hypotheses are the instances of the runs: `life_races` sends no destroy, `life_verbs` has one
goroutine. Without them the properties are false, as findings 1 and the notes of section 5 show; with them
they hold for any number of goroutines (the first two), images, loop devices, faults and crashes.

Type correctness is not for free. `LoopGiven`, a part of `TypeOK`, says that every step which is given a loop
path by the code has one, and not the empty string. `NewObj` and `NewImage` take the least unused name, and that there is
an unused object is by counting (`NewObjIsNew`: a process that needs one has none, so at most
as many are in use as there are processes). `MinOfSet` is proved from the library's
well-foundedness of finite subsets, since the least element of a set of numbers is defined by `CHOOSE`.

Without destroy, `ExclInv` says that every process works with the registered object and that who is in a
critical step owns its mutex; `MakeInv` that one process makes an image at a time, that it is the one
at the path, and that it is not finished when it is formatted. Each action is reduced to what it
may do to objects and mutexes (`LocksKept`) and to the image (`ImageKept`).

With one goroutine, `TurnInv` says that one process runs. `KernelInv` is the order of the
layers: mount on mapper on loop device on the image at the path, and no second loop device of it.
`CreateAt`, `DestroyAt`, `UnsealAt` and `SealAt` are what each step may count on whatever failed
before, and `FreeInv` what holds until a first command fails. Since the others are idle,
`StepSound` shows of the running process alone that `Before` becomes `After`; the lemmas for the four
verbs go through their actions, each by its place, its effect (the command with its
`Attempt`) and then the parts of the invariant.

### Namespace

| theorem | says |
|---|---|
| `NamespaceTypeCorrect`, `EveryImageIsKnown` | `Spec => []TypeOK`, `Spec => []EveryImageKnown` |
| `OthersAlwaysStayMounted`, `RequestsAreIsolated` | `Spec => OthersStayMounted`, `Spec => Isolated` |
| `DestroyWipesOnlyInside` | a destroy wipes no other vault's files but those of a vault mounted below its own path |

for every set of ids. `ImmInv` says that only stubs of vaults are immutable, so that the directory of an id that
clashes with no other can always be made (`ApartIsGot`); `BootInv` that the startup pass has registered
what it has passed. Isolation rests on `Confined`: what a request changes is at its own id, in the
directories inside its own mount path, or at its own mapper name.

### Console

| theorem | says |
|---|---|
| `ConsoleTypeCorrect`, `LinksAlwaysGo` | `Spec => []TypeOK`, `Spec => []LinksGo` |
| `UnsealAlwaysServes`, `SealAlwaysStops` | `Spec => UnsealServes`, `Spec => SealStops` |

for every number of connections, services, losses, faults and restarts. `StepInv` says which
steps belong to which verb; `AloneInv` that a call still marked `alone` has overlapped no other, so
that what it has done so far is still so; `ServeInv` what it has done at each of its steps: first the
services that were stopped, then those started again; `LinkInv` what the links of a vault that is gone can
still depend on.

### Throttle

`ThrottleTypeCorrect`, `FailuresAreBounded` and `LockoutsAreEarned` prove `TypeOK`, `FailuresBounded` and `LockoutEarned`
for every set of clients, every limit above one and every window that is not shorter than the lockout (as the code's 15 and 5 minutes). `ThrottleInv` relates
a client's record to the history of its failures. `Counts`: the record counts the last failures, from the one that opened
its window, and with the last allowed one the lockout begins. `Separated` is the strengthening: the failure
`MAX_ATTEMPTS - 1` before the one that opened the window is a lockout away from it, whether the window before was left by a
lockout or by its length. Hence `2 * MAX_ATTEMPTS - 1` failures span a lockout time, although windows do not slide.

### Auth

`AuthTypeCorrect`, `RecoveryCodesAreSingleUse`, `PasswordIsTheLastOne`, `EndedSessionsStayEnded` and `CooldownIsKept` prove the
properties of the run for any number of codes and sessions and any lifetimes. `CodeInv` is the reason
that a code works once in *every* interleaving: only the UI uses codes, one at a time, so that a used code
is neither in the file nor in the copy the UI is working on; and the command line's copy is saved only with
a new code in the place of the old one. The other three hold until the two writers have met (`torn`); `FileInv` says that until then
the file has the last password, no session that has ended, and a code whose expiry tells when
it was printed.

### Tls and Web

`TlsProofs` proves for `Tls` the type invariant (`TlsTypeCorrect`) and
`OwnPairAlwaysMatches`, from the assumption that `NoFile` is no pair and the settings are the three
known ones. `OwnPairMatches` is not inductive: that certificate and key match when the
server is made depends on what every kill may leave. `FilesInv` says that a usable
certificate in place has its own key beside it, except between the two renames;
`MakingInv` says that while a pair is made nothing usable is in place, and that between the
renames the key is the new one. The order of the renames matters there: with the key first, a
torn swap leaves the certificate missing or expired as before, and the next start makes a new pair.

`WebProofs` proves for `Web`, for every number of tabs, tokens and pairs:

| theorem | says |
|---|---|
| `WebImplementsTls` | `Spec => TlsSpec`: no request and no browser touches the files or the state of the start |
| `WebOwnPairMatches` | `Spec => []OwnPairMatches`, from the refinement |
| `WebTypeCorrect` | `Spec => []WebTypeOK`; the types of `Tls` come from the refinement |
| `FormsAlwaysStay`, `FreshPagesWork` | `Spec => []FormsStayInTheirLogin`, `Spec => []FreshPageWorks` |
| `LoginsReach`, `LoginsKept` | `Spec => LoginReaches`, `Spec => LoginKept` |

Assumed are `WebAssumption` (tabs and tokens are finite sets; `None` and `Keep` are no tokens) and
`CookiesAssumption` (`None` is no cookie and no CSRF token, `Keep` no CSRF token). The invariant `WebInv` has four parts. `FormInv`: the token
of a page, and of an answer that brings one, was made for the session its request had.
`SessionInv`: an answer that changes the session cookie was given to a request without a live session,
and the session it carried cannot come alive again; this is what a logout or a refused form in one tab and a
login in another depend on. `JarInv`: a cookie without the prefix is never secure, so that a
cookie of HTTP can always be stored. `TabInv` is the shape of the tabs. All handlers are
reduced to one relation, `Handled`, that says what an answer may be (`Sound`); the
invariant is then proved for it once. `FreshInv` adds that there is an unused name for each new
token, by counting the tabs and cookies that hold one, and what a page that nothing has overtaken
still shares with the cookies.

### Only model-checked

* `EveryRequestEnds`: liveness under fairness is out of the prover's reach.
* `OpenImageKept` and `DestroyKeepsOthers`, which the code violates (section 5). What does hold is
  proved: `OpenImageStays` (no request overlaps, no command fails) and `DestroyWipesOnlyInside`.

## 5. What the code does otherwise

Each finding is a run that ends in a counterexample.

1. **An unseal can lose its image to a destroy** (`life_destroy`, `provision.go` 91).
   The check of mapper and mount and the removal are not under the vault's mutex.
   `provision_test.go` 163: "Checks DestroyVault refuses a still-open mapper".
2. **Destroying `m` empties `m/p`** (`ns_inner`, `mount.go` 48). The mount path of `m/p` lies
   below that of `m`, and `os.RemoveAll` goes through the mounted file
   system. `provision.go` 89: "Permanently deletes a vault's backing file and mount stub".

Behaviour met while modelling that is not a run of its own; each can be seen with
the modules as they are:

* The stub can stay writable after a failed destroy (`agent_handler.go` 392).
  `DestroyVault` removes the image and clears the immutable flag; if it fails then,
  `handleDestroy` returns before `forgetVault`. A create of the same id finds the Vault
  registered, skips `EnsureSealed`, and answers with a sealed vault whose stub is writable, where
  `vault.go` 18 calls the path "an immutable bare dir while sealed". Drop `faults = 0` from
  `StubImmutable`.
* A `luksClose` that fails at the end of a create, whose undoing then removes the image
  (`provision.go` 75-79), leaves an open mapper without an image. A destroy of that id is
  refused because there is no image, a create because the mapper is open, until somebody closes the mapper or
  the host reboots. `LeftoversGo` excludes an open mapper for this reason.
* `Status` may answer degraded although the vault never was: it reads the mapper before, and
  the mount table after, a Seal (`vault.go` 70). Add `DegradedAnswerSound` to
  `MCVault_faults.cfg`. The order of its reads makes unsealed safe, which is proved.
* The agent's Dockerfile does not install `fuser`, and `CheckHandles` takes its absence
  for nobody holding files (`mount.go` 121), so that Seal does not wait as
  `README.md` 84 says; the kernel still refuses the `umount`, and Seal fails. Check
  `SealWaitsForHandles` with `FuserInstalled = FALSE`.
* The undoing of a create removes the image that an unseal has opened in the meantime
  (`provision.go` 75): `OpenImageKept` with the requests create and unseal.
* After a destroy, a goroutine that still has the old Vault and one that has the new
  hold two mutexes (`agent_handler.go` 395): `OneTransitionAtATime` with all verbs and two
  workers. In the same instance a create whose loop device was freed and reused formats the image
  of another one: `ReadyStaysReady`.
* An unseal and a seal that overlap can leave services running on a sealed vault
  (`agent_handler.go` 289): the unseal starts them after the seal has stopped them.
  A call that the UI has given up on makes this possible for one admin. Drop
  `alone` from `UnsealServes` in `Console`.
* The UI shows an error only when `ok` is false, so that the warnings of `handleUnseal` and
  `handleSeal`, which come with `ok` true, are never seen (`ui/index.js` 342).
* Links outlive their vault when the answer of destroy is lost, or when settings
  of a vault are saved after it is gone (`ui/index.js` 471): `LinksGo` without its conditions.
* The command line and the UI can overwrite each other's change of `state.json`
  (`ui/auth.js` 79), which can bring back an old password or a logged-out session:
  `PasswordKept` and `EndedStaysEnded` without `~torn`. A used code never comes back
  to set a password a second time, as `CodeSingleUse` shows without that condition.
* `m--p` and `m/p` have one mapper name (`agent_handler.go` 46). One cannot be created while the
  other is open, and `Status` of the sealed one says degraded; no
  request unmounts the other (`OthersStayMounted`).
* There is one CSRF cookie, so that a page which makes a new token takes the
  old one from the pages of the other tabs, whose forms are then refused; and a page asked for before a
  login but delivered after it has a form that is refused (`csrf.js` 25). `FreshPageWorks` without `calm`.
* If only `tls.key` is removed and the next start is killed between its renames, a valid
  certificate stands beside the key of another pair, and every later start fails until one of the files is
  removed (`tls.js` 59, 91): let `Remove` in `Tls` take the key alone, and
  `OwnPairMatches` fails.
* The answer of the verb space omits `available_mb` when it is 0 (`types.go` 43), so that the UI's
  check of a new vault's size compares with undefined and passes (`ui/index.js` 307); the agent
  checks again and refuses.
* `README.md` 89 documents `PORTCULLIO_COOKIE_SECURE`; `ui/index.js` 21 reads it, and no
  cookie depends on it.

## 6. Not modelled

* The framing of the socket server: parsing with no state between requests.
* `handleStatus`, `handleServices`, `handleSpace` beyond what `Status` and `List` have: they read.
* The checks of form input in `ui/index.js`, the layout of `ui/views.js`, and the browser
  scripts, which copy a code and open and close dialogs: no state the system keeps.
* A supplied certificate's content, and a second browser: sessions of two browsers have nothing
  in common but `sessions`, and one browser already sees them come and go.
* Tests, the loopback helper, Dockerfiles and CI.

## 7. Plan

Done, in this order: `Vault` with its properties and proofs; `SealState` and the refinement;
`Lifecycle`; `Namespace`; `Throttle`; `Auth`; `Console`; then late commands and the reboot in
`Lifecycle`, one action per form in `Console`, `Tls` with its proofs, `Web` with the
refinement and its proofs.

Left out of the plan: a variant of `Lifecycle` in which create and destroy take the vault's
mutex, and an abstract specification of linked services. Both would describe a program that
this one is not, as finding 1 and the overlapping unseal and seal of section 5 show.

Proved since: the invariants and action properties of `Throttle`, `Auth`, `Console`, `Namespace`,
`Lifecycle` and the rest of `Vault` and `Web`.

Next, to prove: that `Lifecycle` implements a specification of its promises as `Vault` does `SealState`;
that a Vault object of `Lifecycle` goes through the states of `SealState` as long as nobody destroys.

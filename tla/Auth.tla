-------------------------------- MODULE Auth --------------------------------
(***************************************************************************)
(* The admin password, the sessions and the recovery code, which the web UI *)
(* keeps in state.json (auth.js, state.js, and their callers in index.js),  *)
(* and the command line's generator of recovery codes, which works on the   *)
(* same file (generate-recovery-code.js).                                   *)
(*                                                                         *)
(* A change loads the file, computes for a while and replaces it with a     *)
(* rename.  The UI is one thread and does one change at a time; the command *)
(* line is a process of its own.  Either may be killed between load and     *)
(* save.  No time passes in between: the unit of the clock is ten minutes.  *)
(*                                                                         *)
(* A definition named ...Mutant is the one below it with a plausible        *)
(* mistake; nothing uses it but the checks that the properties notice it.   *)
(***************************************************************************)
EXTENDS Naturals, FiniteSets

CONSTANTS
  UI, CLI, None,
  SESSION_TTL_MS, RECOVERY_CODE_TTL_MS, RECOVERY_CODE_COOLDOWN_MS,
  MaxTime, MaxSessions, MaxCodes   \* bounds on the clock, logins and codes

Procs == {UI, CLI}

ASSUME AuthAssumption ==
  /\ UI # CLI /\ None \notin Procs
  /\ SESSION_TTL_MS \in Nat /\ RECOVERY_CODE_TTL_MS \in Nat
  /\ RECOVERY_CODE_COOLDOWN_MS \in Nat
  /\ RECOVERY_CODE_COOLDOWN_MS <= RECOVERY_CODE_TTL_MS
  /\ MaxTime \in Nat /\ MaxSessions \in Nat /\ MaxCodes \in Nat

(* A password is named by the code it was set with, 0 at the first setup *)
Codes     == 1..MaxCodes
Passwords == 0..MaxCodes
Tokens    == 1..MaxSessions
Times     == 0..MaxTime + SESSION_TTL_MS + RECOVERY_CODE_TTL_MS

VARIABLES
  now,
  file,       \* state.json
  job,        \* what each process has loaded the file for, and its copy
  sessions,   \* number of sessions created
  codes,      \* number of codes made
  printed,    \* when the last of them was
  latest,     \* history: the password set last
  used,       \* history: the codes that have set a password
  ended,      \* history: the sessions that logged out, expired or were dropped
  torn        \* history: a save has overwritten another one it did not know of

history == <<latest, used, ended, torn>>
vars    == <<now, file, job, sessions, codes, printed, history>>

Code  == [id : Codes, expiresAt : Times]
State == [admin : Passwords \cup {None}, sessions : [Tokens -> Times \cup {None}],
          recoveryCode : Code \cup {None}]
Verbs == {"setup", "login", "logout", "expire", "generate", "recover"}
Jobs  == [verb : Verbs, id : Nat, seen : State]

ASSUME NoneAssumption == None \notin Nat /\ None \notin Code /\ None \notin Jobs

TypeOK ==
  /\ now \in 0..MaxTime /\ file \in State
  /\ \A t \in Tokens : file.sessions[t] # None => file.sessions[t] <= now + SESSION_TTL_MS
  /\ file.recoveryCode # None => file.recoveryCode.expiresAt <= now + RECOVERY_CODE_TTL_MS
  /\ job \in [Procs -> Jobs \cup {None}]
  /\ sessions \in 0..MaxSessions /\ codes \in 0..MaxCodes /\ printed \in 0..MaxTime
  /\ latest \in Passwords \cup {None} /\ used \subseteq Codes
  /\ ended \subseteq Tokens /\ torn \in BOOLEAN

NoSessions == [t \in Tokens |-> None]

Init ==
  /\ now = 0 /\ job = [p \in Procs |-> None]
  /\ file = [admin |-> None, sessions |-> NoSessions, recoveryCode |-> None]
  /\ sessions = 0 /\ codes = 0 /\ printed = 0
  /\ latest = None /\ used = {} /\ ended = {} /\ torn = FALSE

-----------------------------------------------------------------------------
Valid(s, t) == s.sessions[t] # None /\ now <= s.sessions[t]
Expired(s)  == s.recoveryCode # None /\ now > s.recoveryCode.expiresAt

CoolingMutant(s) == FALSE
Cooling(s) ==
  /\ s.recoveryCode # None
  /\ now + RECOVERY_CODE_TTL_MS - s.recoveryCode.expiresAt < RECOVERY_CODE_COOLDOWN_MS

(* What consumeRecoveryCode makes of the file, for the right code *)
RecoveredAdminMutant(s) ==
  IF Expired(s) THEN [s EXCEPT !.recoveryCode = None]
  ELSE [s EXCEPT !.recoveryCode = None, !.sessions = NoSessions]
RecoveredCodeMutant(s) == [s EXCEPT !.admin = s.recoveryCode.id, !.sessions = NoSessions]
RecoveredSessionsMutant(s) == [s EXCEPT !.admin = s.recoveryCode.id, !.recoveryCode = None]
Recovered(s) ==
  IF Expired(s) THEN [s EXCEPT !.recoveryCode = None]
  ELSE [s EXCEPT !.admin = s.recoveryCode.id, !.recoveryCode = None, !.sessions = NoSessions]

NewCodeMutant(c) == [id |-> c, expiresAt |-> now + SESSION_TTL_MS]
NewCode(c) == [id |-> c, expiresAt |-> now + RECOVERY_CODE_TTL_MS]

(* What each verb makes of the file it has loaded *)
Result(j) ==
  CASE j.verb = "setup"    -> [j.seen EXCEPT !.admin = 0]
    [] j.verb = "login"    -> [j.seen EXCEPT !.sessions[j.id] = now + SESSION_TTL_MS]
    [] j.verb = "generate" -> [j.seen EXCEPT !.recoveryCode = NewCode(j.id)]
    [] j.verb = "recover"  -> Recovered(j.seen)
    [] OTHER               -> [j.seen EXCEPT !.sessions[j.id] = None]

Load(p, verb, id) ==
  /\ job[p] = None /\ job' = [job EXCEPT ![p] = [verb |-> verb, id |-> id, seen |-> file]]
  /\ UNCHANGED <<now, file, printed, history>>

SetAdminPassword ==
  file.admin = None /\ Load(UI, "setup", 0) /\ UNCHANGED <<sessions, codes>>

(* POST /login with the right password: what a wrong one does, Throttle says *)
CreateSession ==
  /\ file.admin # None /\ sessions < MaxSessions /\ sessions' = sessions + 1
  /\ Load(UI, "login", sessions') /\ UNCHANGED codes

DestroySession(t) ==
  Valid(file, t) /\ Load(UI, "logout", t) /\ UNCHANGED <<sessions, codes>>

(* isValidSession drops a session it finds expired *)
ExpireSession(t) ==
  /\ file.sessions[t] # None /\ ~Valid(file, t)
  /\ Load(UI, "expire", t) /\ UNCHANGED <<sessions, codes>>

CreateRecoveryCode(p) ==
  /\ ~Cooling(file) /\ codes < MaxCodes /\ codes' = codes + 1
  /\ Load(p, "generate", codes') /\ UNCHANGED sessions

(* With the code of the file, or with any once that has expired *)
ConsumeRecoveryCode ==
  file.recoveryCode # None /\ Load(UI, "recover", 0) /\ UNCHANGED <<sessions, codes>>

(* The save, and what the process does after it *)
Consumes(j) == j.verb = "recover" /\ ~Expired(j.seen)

Save(p) ==
  /\ job[p] # None /\ job' = [job EXCEPT ![p] = None]
  /\ LET j == job[p]
         Ends(t) == \/ Consumes(j) /\ j.seen.sessions[t] # None
                    \/ j.verb \in {"logout", "expire"} /\ t = j.id
     IN /\ file' = Result(j)
        /\ printed' = IF j.verb = "generate" THEN now ELSE printed
        /\ latest' = CASE j.verb = "setup" -> 0
                       [] Consumes(j)      -> j.seen.recoveryCode.id
                       [] OTHER            -> latest
        /\ used' = used \cup {c \in Codes : Consumes(j) /\ c = j.seen.recoveryCode.id}
        /\ ended' = ended \cup {t \in Tokens : Ends(t)}
        /\ torn' = (torn \/ file # j.seen)
  /\ UNCHANGED <<now, sessions, codes>>

(* Killed before the rename: the file is as it was *)
Kill(p) ==
  /\ job[p] # None /\ job' = [job EXCEPT ![p] = None]
  /\ UNCHANGED <<now, file, sessions, codes, printed, history>>

Tick ==
  /\ now < MaxTime /\ now' = now + 1 /\ \A p \in Procs : job[p] = None
  /\ UNCHANGED <<file, job, sessions, codes, printed, history>>

(* A page, a wrong password or code, a code within the cooldown *)
NoChange == UNCHANGED vars

Next ==
  \/ NoChange \/ SetAdminPassword \/ CreateSession
  \/ \E t \in Tokens : DestroySession(t) \/ ExpireSession(t)
  \/ ConsumeRecoveryCode
  \/ \E p \in Procs : CreateRecoveryCode(p) \/ Save(p) \/ Kill(p)
  \/ Tick

Spec == Init /\ [][Next]_vars

-----------------------------------------------------------------------------
(* A recovery code sets a password at most once, also when the command line *)
(* writes the file at the same time ("valid 30 minutes, single use",        *)
(* auth.js 100).                                                            *)
CodeSingleUse == file.recoveryCode # None => file.recoveryCode.id \notin used

(* The admin's password is the one set last, unless two writers of the file *)
(* have met (setAdminPassword and consumeRecoveryCode, auth.js 47 and 112). *)
PasswordKept == ~torn => file.admin = latest

(* A session that has logged out or expired, or was there when a code was   *)
(* used, is never accepted again, unless two writers of the file have met   *)
(* (destroySession, isValidSession, consumeRecoveryCode).                   *)
EndedStaysEnded == ~torn => \A t \in ended : ~Valid(file, t)

(* Codes are printed at least a cooldown apart, by the UI and the command   *)
(* line taken together, unless the last one has been used or two writers    *)
(* have met ("already generated in the last 10 minutes", index.js 155).     *)
CooldownKept ==
  [][\A p \in Procs :
       job[p] # None /\ job'[p] = None /\ file' # file /\ ~torn' /\ job[p].verb = "generate"
         /\ file.recoveryCode # None =>
       now - printed >= RECOVERY_CODE_COOLDOWN_MS]_vars
=============================================================================

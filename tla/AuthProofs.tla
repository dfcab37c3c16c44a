----------------------------- MODULE AuthProofs -----------------------------
(***************************************************************************)
(* The admin password, the sessions and the recovery codes, for every       *)
(* lifetime and cooldown and any number of logins and codes.                *)
(***************************************************************************)
EXTENDS Auth, TLAPS

(* A state that was in the file by now: what it has expires in time *)
StateInv(s) ==
  /\ s \in State
  /\ \A t \in Tokens : s.sessions[t] # None => s.sessions[t] <= now + SESSION_TTL_MS
  /\ s.recoveryCode # None => s.recoveryCode.expiresAt <= now + RECOVERY_CODE_TTL_MS

(* The jobs that are there: only the UI does more than make codes *)
JobInv ==
  \A p \in Procs : job[p] # None =>
    /\ StateInv(job[p].seen)
    /\ job[p].verb \in {"login", "logout", "expire"} => job[p].id \in Tokens
    /\ job[p].verb = "generate" => job[p].id \in 1..codes /\ ~Cooling(job[p].seen)
    /\ job[p].verb = "recover" => job[p].seen.recoveryCode # None
    /\ p = CLI => job[p].verb = "generate"

TypeInv == TypeOK /\ StateInv(file) /\ JobInv

(* A code that somebody has printed or is about to *)
Pending == {job[p].id : p \in {q \in Procs : job[q] # None /\ job[q].verb = "generate"}}
Unused(s) == s.recoveryCode # None => s.recoveryCode.id \in (1..codes) \ (used \cup Pending)

(* The UI alone uses codes, one at a time, so that its copy and the file    *)
(* are the only places a used code could come back from.                    *)
CodeInv ==
  /\ used \subseteq (1..codes) \ Pending
  /\ Unused(file)
  /\ job[UI] # None => Unused(job[UI].seen)
  /\ job[UI] # None /\ job[CLI] # None /\ job[UI].verb = "generate" => job[UI].id # job[CLI].id

(* A login makes a session that has never ended *)
SessionInv ==
  /\ ended \subseteq 1..sessions
  /\ \A t \in Tokens : file.sessions[t] # None => t <= sessions
  /\ \A p \in Procs : job[p] # None =>
       /\ \A t \in Tokens : job[p].seen.sessions[t] # None => t <= sessions
       /\ job[p].verb \in {"logout", "expire"} => job[p].id <= sessions
       /\ job[p].verb = "login" => job[p].id \in (1..sessions) \ ended

(* What an untorn file says of the past *)
FileInv ==
  ~torn =>
    /\ file.admin = latest
    /\ \A t \in ended : file.sessions[t] = None
    /\ file.recoveryCode # None => file.recoveryCode.expiresAt = printed + RECOVERY_CODE_TTL_MS

AuthInv == TypeInv /\ CodeInv /\ SessionInv /\ FileInv

-----------------------------------------------------------------------------
(* What a verb makes of a file, field by field *)
LEMMA RecoveredFields ==
  ASSUME NEW s \in State, s.recoveryCode # None
  PROVE  /\ Recovered(s) \in State
         /\ Recovered(s).recoveryCode = None
         /\ Recovered(s).admin = IF Expired(s) THEN s.admin ELSE s.recoveryCode.id
         /\ \A t \in Tokens : Recovered(s).sessions[t] = IF Expired(s) THEN s.sessions[t] ELSE None
<1>1. CASE Expired(s)
  <2>1. Recovered(s) = [s EXCEPT !.recoveryCode = None] BY <1>1 DEF Recovered
  <2> QED BY <1>1, <2>1 DEF State
<1>2. CASE ~Expired(s)
  <2>1. Recovered(s) = [s EXCEPT !.admin = s.recoveryCode.id, !.recoveryCode = None, !.sessions = NoSessions]
    BY <1>2 DEF Recovered
  <2>2. s.recoveryCode.id \in Passwords BY AuthAssumption DEF State, Code, Codes, Passwords
  <2>3. NoSessions \in [Tokens -> Times \cup {None}] /\ \A t \in Tokens : NoSessions[t] = None
    BY DEF NoSessions
  <2> QED BY <1>2, <2>1, <2>2, <2>3 DEF State
<1> QED BY <1>1, <1>2

LEMMA ResultFields ==
  ASSUME NEW j \in Jobs
  PROVE  /\ j.verb = "setup" => Result(j) = [j.seen EXCEPT !.admin = 0]
         /\ j.verb = "login" => Result(j) = [j.seen EXCEPT !.sessions[j.id] = now + SESSION_TTL_MS]
         /\ j.verb = "generate" => Result(j) = [j.seen EXCEPT !.recoveryCode = NewCode(j.id)]
         /\ j.verb = "recover" => Result(j) = Recovered(j.seen)
         /\ j.verb \in {"logout", "expire"} => Result(j) = [j.seen EXCEPT !.sessions[j.id] = None]
BY Zenon DEF Result, Jobs

(* The save of each verb leaves a file that is well formed, with an unused  *)
(* code and with sessions that have been created.                           *)
LEMMA ResultState ==
  ASSUME AuthInv, NEW p \in Procs, job[p] # None
  PROVE  StateInv(Result(job[p]))
<1> DEFINE j == job[p]
           s == j.seen
<1>1. j \in Jobs /\ s \in State /\ j.verb \in Verbs /\ StateInv(s) /\ now \in 0..MaxTime /\ codes \in 0..MaxCodes
  BY DEF AuthInv, TypeInv, TypeOK, JobInv, Jobs, StateInv
<1>2. /\ j.verb \in {"login", "logout", "expire"} => j.id \in Tokens
      /\ j.verb = "generate" => j.id \in 1..codes
      /\ j.verb = "recover" => s.recoveryCode # None
  BY DEF AuthInv, TypeInv, JobInv
<1> SUFFICES StateInv(Result(j)) OBVIOUS
<1> HIDE DEF j
<1> USE <1>1, <1>2, AuthAssumption, NoneAssumption DEF StateInv
<1>3. CASE j.verb = "setup"
  <2>1. Result(j) = [s EXCEPT !.admin = 0] BY <1>3, ResultFields
  <2> QED BY <2>1 DEF State, Passwords
<1>4. CASE j.verb = "login"
  <2>1. Result(j) = [s EXCEPT !.sessions[j.id] = now + SESSION_TTL_MS] BY <1>4, ResultFields
  <2>2. now + SESSION_TTL_MS \in Times BY DEF Times
  <2>3. Result(j).sessions = [s.sessions EXCEPT ![j.id] = now + SESSION_TTL_MS]
          /\ Result(j).recoveryCode = s.recoveryCode /\ Result(j) \in State
    BY <1>4, <2>1, <2>2 DEF State
  <2> QED BY <1>4, <2>2, <2>3 DEF State
<1>5. CASE j.verb = "generate"
  <2>1. Result(j) = [s EXCEPT !.recoveryCode = NewCode(j.id)] BY <1>5, ResultFields
  <2>2. NewCode(j.id) \in Code /\ NewCode(j.id).expiresAt = now + RECOVERY_CODE_TTL_MS
    BY <1>5 DEF NewCode, Code, Codes, Times
  <2> QED BY <2>1, <2>2 DEF State
<1>6. CASE j.verb = "recover"
  <2>1. Result(j) = Recovered(s) BY <1>6, ResultFields
  <2> QED BY <1>6, <2>1, RecoveredFields
<1>7. CASE j.verb \in {"logout", "expire"}
  <2>1. Result(j) = [s EXCEPT !.sessions[j.id] = None] BY <1>7, ResultFields
  <2>3. Result(j).sessions = [s.sessions EXCEPT ![j.id] = None]
          /\ Result(j).recoveryCode = s.recoveryCode /\ Result(j) \in State
    BY <1>7, <2>1 DEF State
  <2> QED BY <1>7, <2>3 DEF State
<1> QED BY <1>3, <1>4, <1>5, <1>6, <1>7 DEF Verbs

LEMMA AuthInitInv == Init => AuthInv
<1> SUFFICES ASSUME Init PROVE AuthInv OBVIOUS
<1> USE AuthAssumption, NoneAssumption DEF Init
<1>1. file \in State /\ file.recoveryCode = None /\ \A t \in Tokens : file.sessions[t] = None
  BY DEF State, NoSessions
<1>2. \A p \in Procs : job[p] = None OBVIOUS
<1>3. TypeInv
  <2>1. TypeOK
    <3>1. 0 \in 0..MaxTime /\ 0 \in 0..MaxSessions /\ 0 \in 0..MaxCodes OBVIOUS
    <3>2. job \in [Procs -> Jobs \cup {None}] OBVIOUS
    <3>3. torn \in BOOLEAN /\ used \subseteq Codes /\ ended \subseteq Tokens OBVIOUS
    <3> QED BY <1>1, <3>1, <3>2, <3>3 DEF TypeOK
  <2>2. StateInv(file) BY <1>1 DEF StateInv
  <2> QED BY <1>2, <2>1, <2>2 DEF TypeInv, JobInv
<1>4. CodeInv BY <1>1, <1>2 DEF CodeInv, Unused, Pending, Procs
<1>5. SessionInv BY <1>1, <1>2 DEF SessionInv
<1>6. FileInv BY <1>1 DEF FileInv
<1> QED BY <1>3, <1>4, <1>5, <1>6 DEF AuthInv

-----------------------------------------------------------------------------
(* A load copies the file: whatever holds of the file holds of the copy *)
LEMMA LoadKeepsInv ==
  ASSUME AuthInv, NEW p \in Procs, NEW verb \in Verbs, NEW id \in Nat, Load(p, verb, id),
         verb # "generate" => p = UI /\ codes' = codes,
         verb # "login" => sessions' = sessions,
         verb = "generate" => codes < MaxCodes /\ codes' = codes + 1 /\ id = codes' /\ ~Cooling(file),
         verb = "login" => sessions < MaxSessions /\ sessions' = sessions + 1 /\ id = sessions',
         verb \in {"logout", "expire"} => id \in Tokens /\ file.sessions[id] # None,
         verb = "recover" => file.recoveryCode # None
  PROVE  AuthInv'
<1> USE AuthAssumption, NoneAssumption DEF AuthInv, TypeInv
<1>1. now' = now /\ file' = file /\ printed' = printed /\ latest' = latest /\ used' = used
        /\ ended' = ended /\ torn' = torn /\ job[p] = None
  BY DEF Load, history
<1>2. /\ now \in 0..MaxTime /\ file \in State /\ StateInv(file) /\ sessions \in 0..MaxSessions
      /\ codes \in 0..MaxCodes /\ job \in [Procs -> Jobs \cup {None}] /\ UI \in Procs /\ CLI \in Procs
  BY DEF TypeOK, Procs
<1>3. sessions' \in sessions..MaxSessions /\ codes' \in codes..MaxCodes
  BY <1>2
<1> DEFINE rec == [verb |-> verb, id |-> id, seen |-> file]
<1>4. rec \in Jobs /\ rec # None
  BY <1>2 DEF Jobs
<1>5. job'[p] = rec /\ (\A q \in Procs : q # p => job'[q] = job[q]) /\ job' \in [Procs -> Jobs \cup {None}]
  BY <1>2, <1>4 DEF Load
<1>6. job'[p].verb = verb /\ job'[p].id = id /\ job'[p].seen = file
  BY <1>5
<1> HIDE DEF rec
<1>7. TypeOK'
  <2>1. used \subseteq Codes /\ ended \subseteq Tokens /\ printed \in 0..MaxTime
          /\ latest \in Passwords \cup {None} /\ torn \in BOOLEAN
    BY DEF TypeOK
  <2>2. sessions' \in 0..MaxSessions /\ codes' \in 0..MaxCodes BY <1>2, <1>3
  <2> QED BY <1>1, <1>2, <1>5, <2>1, <2>2 DEF TypeOK, StateInv
<1>8. JobInv'
  <2>1. SUFFICES ASSUME NEW q \in Procs, job'[q] # None
                 PROVE  /\ StateInv(job[q].seen)'
                        /\ job'[q].verb \in {"login", "logout", "expire"} => job'[q].id \in Tokens
                        /\ job'[q].verb = "generate" => job'[q].id \in 1..codes' /\ ~Cooling(job[q].seen)'
                        /\ job'[q].verb = "recover" => job'[q].seen.recoveryCode # None
                        /\ q = CLI => job'[q].verb = "generate"
    BY DEF JobInv
  <2>2. CASE q = p
    <3>1. StateInv(job[q].seen)' BY <1>1, <1>2, <1>6, <2>2 DEF StateInv
    <3>2. verb = "generate" => ~Cooling(job[q].seen)' BY <1>1, <1>6, <2>2 DEF Cooling
    <3>3. verb = "login" => id \in Tokens BY <1>2 DEF Tokens
    <3>4. verb = "generate" => id \in 1..codes' BY <1>2
    <3> QED BY <1>6, <2>2, <3>1, <3>2, <3>3, <3>4
  <2>3. CASE q # p
    <3>1. job'[q] = job[q] BY <1>5, <2>3
    <3>2. /\ StateInv(job[q].seen)
          /\ job[q].verb \in {"login", "logout", "expire"} => job[q].id \in Tokens
          /\ job[q].verb = "generate" => job[q].id \in 1..codes /\ ~Cooling(job[q].seen)
          /\ job[q].verb = "recover" => job[q].seen.recoveryCode # None
          /\ q = CLI => job[q].verb = "generate"
      BY <2>1, <3>1 DEF JobInv
    <3>3. StateInv(job[q].seen)' BY <1>1, <3>1, <3>2 DEF StateInv
    <3>4. job[q].verb = "generate" => ~Cooling(job[q].seen)' BY <1>1, <3>1, <3>2 DEF Cooling
    <3>5. 1..codes \subseteq 1..codes' BY <1>2, <1>3
    <3> QED BY <3>1, <3>2, <3>3, <3>4, <3>5
  <2> QED BY <2>2, <2>3
<1>9. StateInv(file)' BY <1>1, <1>2 DEF StateInv
(* Only the new code is pending that was not *)
<1>10. /\ \A x \in Pending' : x \in Pending \/ (verb = "generate" /\ x = codes')
       /\ Pending \subseteq 1..codes
  <2>1. Pending \subseteq 1..codes BY DEF Pending, JobInv
  <2>2. ASSUME NEW x \in Pending' PROVE x \in Pending \/ (verb = "generate" /\ x = codes')
    <3>1. PICK q \in Procs : job'[q] # None /\ job'[q].verb = "generate" /\ x = job'[q].id
      BY <2>2 DEF Pending
    <3>2. CASE q = p BY <1>6, <3>1, <3>2
    <3>3. CASE q # p BY <1>5, <3>1, <3>3 DEF Pending
    <3> QED BY <3>2, <3>3
  <2> QED BY <2>1, <2>2
<1>11. \A s : Unused(s) => (s.recoveryCode # None =>
                              s.recoveryCode.id \in (1..codes') \ (used' \cup Pending'))
  BY <1>1, <1>2, <1>3, <1>10 DEF Unused
<1>12. CodeInv'
  <2>1. used' \subseteq (1..codes') \ Pending'
    BY <1>1, <1>2, <1>3, <1>10 DEF CodeInv
  <2>2. Unused(file)' BY <1>1, <1>11 DEF CodeInv, Unused
  <2>3. job'[UI] # None => Unused(job[UI].seen)'
    <3>1. CASE p = UI BY <1>6, <1>1, <1>11, <3>1 DEF CodeInv, Unused
    <3>2. CASE p # UI
      <4>1. job'[UI] = job[UI] BY <1>2, <1>5, <3>2
      <4> QED BY <4>1, <1>11 DEF CodeInv, Unused
    <3> QED BY <3>1, <3>2
  <2>4. job'[UI] # None /\ job'[CLI] # None /\ job'[UI].verb = "generate" => job'[UI].id # job'[CLI].id
    <3> SUFFICES ASSUME job'[UI] # None, job'[CLI] # None, job'[UI].verb = "generate"
                 PROVE  job'[UI].id # job'[CLI].id
      OBVIOUS
    <3>1. \A q \in Procs : q # p /\ job[q] # None /\ job[q].verb = "generate" => job[q].id <= codes
      BY <1>2 DEF JobInv
    <3>2. CASE p = UI
      <4>1. job'[CLI] = job[CLI] /\ CLI # p BY <1>2, <1>5, <3>2
      <4>2. job[CLI].verb = "generate" BY <1>2, <4>1 DEF JobInv
      <4> QED BY <1>2, <1>6, <3>1, <3>2, <4>1, <4>2
    <3>3. CASE p = CLI
      <4>1. job'[UI] = job[UI] /\ UI # p BY <1>2, <1>5, <3>3
      <4> QED BY <1>2, <1>6, <3>1, <3>3, <4>1
    <3> QED BY <3>2, <3>3 DEF Procs
  <2> QED BY <2>1, <2>2, <2>3, <2>4 DEF CodeInv
<1>13. SessionInv'
  <2>1. ended' \subseteq 1..sessions' BY <1>1, <1>2, <1>3 DEF SessionInv
  <2>2. \A t \in Tokens : file.sessions[t] # None => t <= sessions'
    BY <1>2, <1>3 DEF SessionInv, Tokens
  <2>3. ASSUME NEW q \in Procs, job'[q] # None
        PROVE  /\ \A t \in Tokens : job'[q].seen.sessions[t] # None => t <= sessions'
               /\ job'[q].verb \in {"logout", "expire"} => job'[q].id <= sessions'
               /\ job'[q].verb = "login" => job'[q].id \in (1..sessions') \ ended'
    <3>1. CASE q = p
      <4>1. verb = "login" => id \in (1..sessions') \ ended'
        BY <1>1, <1>2 DEF SessionInv
      <4>2. verb \in {"logout", "expire"} => id <= sessions' BY <2>2
      <4> QED BY <1>6, <2>2, <3>1, <4>1, <4>2
    <3>2. CASE q # p
      <4>1. job'[q] = job[q] BY <1>5, <3>2
      <4>2. /\ \A t \in Tokens : job[q].seen.sessions[t] # None => t <= sessions
            /\ job[q].verb \in {"logout", "expire"} => job[q].id <= sessions /\ job[q].id \in Tokens
            /\ job[q].verb = "login" => job[q].id \in (1..sessions) \ ended
        BY <2>3, <4>1 DEF SessionInv, JobInv
      <4> QED BY <1>1, <1>2, <1>3, <4>1, <4>2 DEF Tokens
    <3> QED BY <3>1, <3>2
  <2> QED BY <1>1, <2>1, <2>2, <2>3 DEF SessionInv
<1>14. FileInv' BY <1>1 DEF FileInv
<1> QED BY <1>7, <1>8, <1>9, <1>12, <1>13, <1>14

(* A step that only takes a job away: a kill, and the part of a save that   *)
(* concerns the other process.                                              *)
LEMMA JobsShrink ==
  ASSUME AuthInv, NEW p \in Procs, job[p] # None, job' = [job EXCEPT ![p] = None],
         now' = now, codes' = codes, sessions' = sessions
  PROVE  /\ JobInv' /\ job' \in [Procs -> Jobs \cup {None}] /\ job'[p] = None
         /\ \A q \in Procs : q # p => job'[q] = job[q]
         /\ Pending' \subseteq Pending
         /\ job[p].verb = "generate" => job[p].id \in Pending \ Pending'
<1>1. job \in [Procs -> Jobs \cup {None}] BY DEF AuthInv, TypeInv, TypeOK
<1>2. job'[p] = None /\ (\A q \in Procs : q # p => job'[q] = job[q]) /\ job' \in [Procs -> Jobs \cup {None}]
  BY <1>1
<1>3. JobInv'
  <2>1. SUFFICES ASSUME NEW q \in Procs, job'[q] # None
                 PROVE  /\ StateInv(job[q].seen)'
                        /\ job'[q].verb \in {"login", "logout", "expire"} => job'[q].id \in Tokens
                        /\ job'[q].verb = "generate" => job'[q].id \in 1..codes' /\ ~Cooling(job[q].seen)'
                        /\ job'[q].verb = "recover" => job'[q].seen.recoveryCode # None
                        /\ q = CLI => job'[q].verb = "generate"
    BY DEF JobInv
  <2>2. q # p /\ job'[q] = job[q] BY <1>2, <2>1
  <2>3. /\ StateInv(job[q].seen)
        /\ job[q].verb \in {"login", "logout", "expire"} => job[q].id \in Tokens
        /\ job[q].verb = "generate" => job[q].id \in 1..codes /\ ~Cooling(job[q].seen)
        /\ job[q].verb = "recover" => job[q].seen.recoveryCode # None
        /\ q = CLI => job[q].verb = "generate"
    BY <2>1, <2>2 DEF AuthInv, TypeInv, JobInv
  <2>4. StateInv(job[q].seen)' BY <2>2, <2>3 DEF StateInv
  <2>5. job[q].verb = "generate" => ~Cooling(job[q].seen)' BY <2>2, <2>3 DEF Cooling
  <2> QED BY <2>2, <2>3, <2>4, <2>5
<1>4. Pending' \subseteq Pending
  <2> SUFFICES ASSUME NEW x \in Pending' PROVE x \in Pending OBVIOUS
  <2>1. PICK q \in Procs : job'[q] # None /\ job'[q].verb = "generate" /\ x = job'[q].id
    BY DEF Pending
  <2> QED BY <1>2, <2>1 DEF Pending
<1>5. ASSUME job[p].verb = "generate" PROVE job[p].id \in Pending \ Pending'
  <2>1. job[p].id \in Pending BY <1>5 DEF Pending
  <2>2. ASSUME job[p].id \in Pending' PROVE FALSE
    <3>1. PICK q \in Procs : job'[q] # None /\ job'[q].verb = "generate" /\ job[p].id = job'[q].id
      BY <2>2 DEF Pending
    <3>2. q # p /\ job'[q] = job[q] BY <1>2, <3>1
    <3>3. UI # CLI BY AuthAssumption
    <3>4. job[UI] # None /\ job[CLI] # None /\ job[UI].verb = "generate" /\ job[UI].id = job[CLI].id
      BY <1>5, <3>1, <3>2, <3>3 DEF Procs
    <3> QED BY <3>4 DEF AuthInv, CodeInv
  <2> QED BY <2>1, <2>2
<1> QED BY <1>2, <1>3, <1>4, <1>5

LEMMA KillKeepsInv == ASSUME AuthInv, NEW p \in Procs, Kill(p) PROVE AuthInv'
<1>1. /\ job[p] # None /\ job' = [job EXCEPT ![p] = None]
      /\ now' = now /\ file' = file /\ sessions' = sessions /\ codes' = codes /\ printed' = printed
      /\ latest' = latest /\ used' = used /\ ended' = ended /\ torn' = torn
  BY DEF Kill, history
<1>2. /\ JobInv' /\ job' \in [Procs -> Jobs \cup {None}] /\ job'[p] = None
      /\ \A q \in Procs : q # p => job'[q] = job[q]
      /\ Pending' \subseteq Pending
  BY <1>1, JobsShrink
<1>3. TypeInv'
  <2>1. TypeOK' BY <1>1, <1>2 DEF AuthInv, TypeInv, TypeOK
  <2>2. StateInv(file)' BY <1>1 DEF AuthInv, TypeInv, StateInv
  <2> QED BY <1>2, <2>1, <2>2 DEF TypeInv
<1>4. UI \in Procs /\ CLI \in Procs /\ UI # CLI BY AuthAssumption DEF Procs
<1>5. CodeInv' BY <1>1, <1>2, <1>4 DEF AuthInv, CodeInv, Unused
<1>6. SessionInv' BY <1>1, <1>2, <1>4 DEF AuthInv, SessionInv
<1>7. FileInv' BY <1>1 DEF AuthInv, FileInv
<1> QED BY <1>3, <1>5, <1>6, <1>7 DEF AuthInv

LEMMA TickKeepsInv == AuthInv /\ Tick => AuthInv'
<1> SUFFICES ASSUME AuthInv, Tick PROVE AuthInv' OBVIOUS
<1>1. /\ now < MaxTime /\ now' = now + 1 /\ \A p \in Procs : job[p] = None
      /\ file' = file /\ job' = job /\ sessions' = sessions /\ codes' = codes /\ printed' = printed
      /\ latest' = latest /\ used' = used /\ ended' = ended /\ torn' = torn
  BY DEF Tick, history
<1>2. StateInv(file)'
  <2>1. now \in Nat /\ StateInv(file) BY DEF AuthInv, TypeInv, TypeOK
  <2>2. \A x \in Times : x <= now + SESSION_TTL_MS => x <= now + 1 + SESSION_TTL_MS
    BY <2>1, AuthAssumption DEF Times
  <2>3. \A x \in Times : x <= now + RECOVERY_CODE_TTL_MS => x <= now + 1 + RECOVERY_CODE_TTL_MS
    BY <2>1, AuthAssumption DEF Times
  <2>4. \A t \in Tokens : file.sessions[t] # None => file.sessions[t] \in Times
    BY <2>1 DEF StateInv, State
  <2>5. file.recoveryCode # None => file.recoveryCode.expiresAt \in Times
    BY <2>1 DEF StateInv, State, Code
  <2> QED BY <1>1, <2>1, <2>2, <2>3, <2>4, <2>5 DEF StateInv
<1>3. TypeInv'
  <2>1. TypeOK'
    <3>1. now' \in 0..MaxTime BY <1>1, AuthAssumption DEF AuthInv, TypeInv, TypeOK
    <3> QED BY <1>1, <1>2, <3>1 DEF AuthInv, TypeInv, TypeOK, StateInv
  <2> QED BY <1>1, <1>2, <2>1 DEF TypeInv, JobInv
<1>4. UI \in Procs /\ CLI \in Procs BY DEF Procs
<1>5. CodeInv' BY <1>1, <1>4 DEF AuthInv, CodeInv, Unused, Pending
<1>6. SessionInv' BY <1>1, <1>4 DEF AuthInv, SessionInv
<1>7. FileInv' BY <1>1 DEF AuthInv, FileInv
<1> QED BY <1>3, <1>5, <1>6, <1>7 DEF AuthInv

(* The save: the file becomes what the verb made of the copy.  The copy's   *)
(* code is unused and its sessions are known; that is all CodeInv and       *)
(* SessionInv need, however stale the copy.                                 *)
LEMMA SaveKeepsInv == ASSUME AuthInv, NEW p \in Procs, Save(p) PROVE AuthInv'
<1> DEFINE j == job[p]
           s == j.seen
           r == Result(j)
           Ends(t) == \/ Consumes(j) /\ s.sessions[t] # None
                      \/ j.verb \in {"logout", "expire"} /\ t = j.id
<1> USE AuthAssumption, NoneAssumption
<1>1. /\ job[p] # None /\ job' = [job EXCEPT ![p] = None]
      /\ now' = now /\ file' = r /\ sessions' = sessions /\ codes' = codes
      /\ printed' = (IF j.verb = "generate" THEN now ELSE printed)
      /\ used' = used \cup {c \in Codes : Consumes(j) /\ c = s.recoveryCode.id}
      /\ ended' = ended \cup {t \in Tokens : Ends(t)}
      /\ torn' = (torn \/ file # s)
  BY DEF Save
<1>2. latest' = CASE j.verb = "setup" -> 0 [] Consumes(j) -> s.recoveryCode.id [] OTHER -> latest
  BY DEF Save
<1>3. /\ JobInv' /\ job' \in [Procs -> Jobs \cup {None}] /\ job'[p] = None
      /\ \A q \in Procs : q # p => job'[q] = job[q]
      /\ Pending' \subseteq Pending
      /\ j.verb = "generate" => j.id \in Pending \ Pending'
  BY <1>1, JobsShrink
<1>4. /\ j \in Jobs /\ s \in State /\ j.verb \in Verbs /\ StateInv(s) /\ now \in 0..MaxTime
      /\ codes \in 0..MaxCodes /\ sessions \in 0..MaxSessions
      /\ j.verb \in {"login", "logout", "expire"} => j.id \in Tokens
      /\ j.verb = "generate" => j.id \in 1..codes
      /\ j.verb = "recover" => s.recoveryCode # None
      /\ p = CLI => j.verb = "generate"
  BY <1>1 DEF AuthInv, TypeInv, TypeOK, JobInv, Jobs, StateInv
<1>5. StateInv(r) BY <1>1, ResultState
<1>6. UI \in Procs /\ CLI \in Procs BY DEF Procs
<1>7. Consumes(j) => /\ j.verb = "recover" /\ ~Expired(s) /\ p = UI
                     /\ s.recoveryCode.id \in Codes
  BY <1>4, <1>6 DEF Consumes, Procs, State, Code
(* What becomes of each field of the copy *)
<1>8. /\ r.admin = (IF j.verb = "setup" THEN 0 ELSE IF Consumes(j) THEN s.recoveryCode.id ELSE s.admin)
      /\ r.recoveryCode = (IF j.verb = "generate" THEN NewCode(j.id)
                            ELSE IF j.verb = "recover" THEN None ELSE s.recoveryCode)
      /\ \A t \in Tokens : r.sessions[t] = IF Ends(t) THEN None
                                           ELSE IF j.verb = "login" /\ t = j.id THEN now + SESSION_TTL_MS
                                           ELSE s.sessions[t]
  <2> USE <1>4
  <2>1. CASE j.verb = "setup"
    <3>1. r = [s EXCEPT !.admin = 0] BY <2>1, ResultFields
    <3> QED BY <2>1, <3>1 DEF State, Consumes
  <2>2. CASE j.verb = "login"
    <3>1. r = [s EXCEPT !.sessions[j.id] = now + SESSION_TTL_MS] BY <2>2, ResultFields
    <3> QED BY <2>2, <3>1 DEF State, Consumes
  <2>3. CASE j.verb = "generate"
    <3>1. r = [s EXCEPT !.recoveryCode = NewCode(j.id)] BY <2>3, ResultFields
    <3> QED BY <2>3, <3>1 DEF State, Consumes
  <2>4. CASE j.verb = "recover"
    <3>1. r = Recovered(s) BY <2>4, ResultFields
    <3>2. /\ r.recoveryCode = None
          /\ r.admin = IF Expired(s) THEN s.admin ELSE s.recoveryCode.id
          /\ \A t \in Tokens : r.sessions[t] = IF Expired(s) THEN s.sessions[t] ELSE None
      BY <2>4, <3>1, RecoveredFields
    <3>3. Consumes(j) <=> ~Expired(s) BY <2>4 DEF Consumes
    <3> HIDE DEF r
    <3> QED BY <2>4, <3>2, <3>3
  <2>5. CASE j.verb \in {"logout", "expire"}
    <3>1. r = [s EXCEPT !.sessions[j.id] = None] BY <2>5, ResultFields
    <3> QED BY <2>5, <3>1 DEF State, Consumes
  <2> QED BY <2>1, <2>2, <2>3, <2>4, <2>5 DEF Verbs
<1>9. /\ j.verb = "setup" => latest' = 0
      /\ Consumes(j) => latest' = s.recoveryCode.id
      /\ j.verb # "setup" /\ ~Consumes(j) => latest' = latest
  <2>1. j.verb = "setup" => ~Consumes(j) BY DEF Consumes
  <2> QED BY Zenon, <1>2, <2>1
<1> HIDE DEF j, r
<1>10. TypeOK'
  <2>1. printed' \in 0..MaxTime BY <1>1, <1>4 DEF AuthInv, TypeInv, TypeOK
  <2>2. used' \subseteq Codes /\ ended' \subseteq Tokens BY <1>1 DEF AuthInv, TypeInv, TypeOK
  <2>3. latest' \in Passwords \cup {None}
    <3>1. latest \in Passwords \cup {None} BY DEF AuthInv, TypeInv, TypeOK
    <3>2. 0 \in Passwords /\ Codes \subseteq Passwords BY DEF Passwords, Codes
    <3> QED BY <1>7, <1>9, <3>1, <3>2
  <2>4. torn' \in BOOLEAN BY <1>1 DEF AuthInv, TypeInv, TypeOK
  <2> QED BY <1>1, <1>3, <1>4, <1>5, <2>1, <2>2, <2>3, <2>4 DEF TypeOK, StateInv
<1>11. StateInv(file)' BY <1>1, <1>5 DEF StateInv
<1>12. p = UI => Unused(s) BY <1>1, <1>6 DEF AuthInv, CodeInv, j
<1>13. j.verb = "generate" => j.id \in (1..codes) \ used
  BY <1>3, <1>4 DEF AuthInv, CodeInv
<1>14. \A c \in used' : c \in used \/ (Consumes(j) /\ c = s.recoveryCode.id)
  BY <1>1
<1>15. Consumes(j) => s.recoveryCode.id \in (1..codes) \ (used \cup Pending)
  BY <1>4, <1>7, <1>12 DEF Unused
<1>16. CodeInv'
  <2>1. used' \subseteq (1..codes') \ Pending'
    BY <1>1, <1>3, <1>14, <1>15 DEF AuthInv, CodeInv
  <2>2. Unused(file)'
    <3>1. CASE j.verb = "generate"
      <4>1. file'.recoveryCode.id = j.id BY <1>1, <1>8, <3>1 DEF NewCode
      <4>2. used' = used BY <1>1, <3>1 DEF Consumes
      <4> QED BY <1>1, <1>3, <1>4, <1>13, <3>1, <4>1, <4>2 DEF Unused
    <3>2. CASE j.verb = "recover"
      BY <1>1, <1>8, <3>2 DEF Unused
    <3>3. CASE j.verb \notin {"generate", "recover"}
      <4>1. file'.recoveryCode = s.recoveryCode BY <1>1, <1>8, <3>3
      <4>2. used' = used BY <1>1, <3>3 DEF Consumes
      <4>3. p = UI BY <1>4, <1>6, <3>3 DEF Procs
      <4> QED BY <1>1, <1>3, <1>12, <4>1, <4>2, <4>3 DEF Unused
    <3> QED BY <3>1, <3>2, <3>3
  <2>3. job'[UI] # None => Unused(job[UI].seen)'
    <3> SUFFICES ASSUME job'[UI] # None PROVE Unused(job[UI].seen)' OBVIOUS
    <3>1. p # UI /\ job'[UI] = job[UI] BY <1>3, <1>6
    <3>2. used' = used BY <1>1, <1>7, <3>1
    <3>3. Unused(job[UI].seen) BY <3>1 DEF AuthInv, CodeInv
    <3> QED BY <1>1, <1>3, <3>1, <3>2, <3>3 DEF Unused
  <2>4. ~(job'[UI] # None /\ job'[CLI] # None)
    BY <1>3 DEF Procs
  <2> QED BY <2>1, <2>2, <2>3, <2>4 DEF CodeInv
<1>17. /\ \A t \in Tokens : s.sessions[t] # None => t <= sessions
       /\ j.verb \in {"logout", "expire"} => j.id <= sessions
       /\ j.verb = "login" => j.id \in (1..sessions) \ ended
  BY <1>1 DEF AuthInv, SessionInv, j
<1>18. \A t \in ended' : t \in ended \/ (t \in Tokens /\ Ends(t))
  BY <1>1
<1>19. SessionInv'
  <2>1. ended' \subseteq 1..sessions'
    <3>1. \A t \in Tokens : Ends(t) => t \in 1..sessions BY <1>4, <1>17 DEF Tokens
    <3>2. ended \subseteq 1..sessions BY DEF AuthInv, SessionInv
    <3> HIDE DEF Ends
    <3> QED BY <1>1, <1>18, <3>1, <3>2
  <2>2. \A t \in Tokens : file'.sessions[t] # None => t <= sessions'
    <3> SUFFICES ASSUME NEW t \in Tokens, r.sessions[t] # None PROVE t <= sessions BY <1>1
    <3>1. ~Ends(t) BY <1>8
    <3>2. CASE j.verb = "login" /\ t = j.id BY <1>4, <1>17, <3>2
    <3>3. CASE ~(j.verb = "login" /\ t = j.id)
      <4>1. r.sessions[t] = s.sessions[t] BY <1>8, <3>1, <3>3
      <4> QED BY <1>17, <4>1
    <3> QED BY <3>2, <3>3
  <2>3. ASSUME NEW q \in Procs, job'[q] # None
        PROVE  /\ \A t \in Tokens : job'[q].seen.sessions[t] # None => t <= sessions'
               /\ job'[q].verb \in {"logout", "expire"} => job'[q].id <= sessions'
               /\ job'[q].verb = "login" => job'[q].id \in (1..sessions') \ ended'
    <3>1. q # p /\ job'[q] = job[q] BY <1>3, <2>3
    <3>2. /\ \A t \in Tokens : job[q].seen.sessions[t] # None => t <= sessions
          /\ job[q].verb \in {"logout", "expire"} => job[q].id <= sessions
          /\ job[q].verb = "login" => job[q].id \in (1..sessions) \ ended
      BY <2>3, <3>1 DEF AuthInv, SessionInv
    <3>3. job[q].verb = "login" => ended' = ended
      <4> SUFFICES ASSUME job[q].verb = "login" PROVE ended' = ended OBVIOUS
      <4>1. q = UI /\ p = CLI BY <2>3, <3>1 DEF AuthInv, TypeInv, JobInv, Procs
      <4>2. \A t \in Tokens : ~Ends(t) BY <1>4, <4>1 DEF Consumes
      <4> QED BY <1>1, <4>2
    <3> QED BY <1>1, <3>1, <3>2, <3>3
  <2> QED BY <2>1, <2>2, <2>3 DEF SessionInv
<1>20. FileInv'
  <2> SUFFICES ASSUME ~torn'
               PROVE  /\ r.admin = latest'
                      /\ \A t \in ended' : r.sessions[t] = None
                      /\ r.recoveryCode # None =>
                           r.recoveryCode.expiresAt = printed' + RECOVERY_CODE_TTL_MS
    BY <1>1 DEF FileInv
  <2>1. ~torn /\ file = s BY <1>1
  <2>2. /\ s.admin = latest
        /\ \A t \in ended : s.sessions[t] = None
        /\ s.recoveryCode # None => s.recoveryCode.expiresAt = printed + RECOVERY_CODE_TTL_MS
    BY <2>1 DEF AuthInv, FileInv
  <2>3. r.admin = latest' BY <1>8, <1>9, <2>2 DEF Consumes
  <2>4. ASSUME NEW t \in ended' PROVE r.sessions[t] = None
    <3>1. CASE t \in Tokens /\ Ends(t) BY <1>8, <3>1
    <3>2. CASE t \in ended /\ ~Ends(t)
      <4>1. t \in Tokens BY <3>2 DEF AuthInv, TypeInv, TypeOK
      <4>2. ~(j.verb = "login" /\ t = j.id) BY <1>17, <3>2
      <4>3. r.sessions[t] = s.sessions[t] BY <1>8, <3>2, <4>1, <4>2
      <4> QED BY <2>2, <3>2, <4>3
    <3>3. t \in ended => t \in Tokens BY DEF AuthInv, TypeInv, TypeOK
    <3> QED BY <1>18, <2>4, <3>1, <3>2, <3>3
  <2>5. r.recoveryCode # None => r.recoveryCode.expiresAt = printed' + RECOVERY_CODE_TTL_MS
    <3>1. CASE j.verb = "generate"
      <4>1. r.recoveryCode = NewCode(j.id) /\ printed' = now BY <1>1, <1>8, <3>1
      <4> QED BY <4>1 DEF NewCode
    <3>2. CASE j.verb # "generate"
      <4>1. r.recoveryCode \in {None, s.recoveryCode} /\ printed' = printed BY <1>1, <1>8, <3>2
      <4> QED BY <2>2, <4>1
    <3> QED BY <3>1, <3>2
  <2> QED BY <2>3, <2>4, <2>5
<1> QED BY <1>3, <1>10, <1>11, <1>16, <1>19, <1>20 DEF AuthInv, TypeInv

LEMMA AuthNextKeepsInv == AuthInv /\ [Next]_vars => AuthInv'
<1> SUFFICES ASSUME AuthInv, [Next]_vars PROVE AuthInv' OBVIOUS
<1> USE AuthAssumption
<1>1. sessions \in Nat /\ codes \in Nat /\ Tokens \subseteq Nat /\ UI \in Procs
        /\ sessions <= MaxSessions /\ codes <= MaxCodes
  BY DEF AuthInv, TypeInv, TypeOK, Tokens, Procs
<1>2. {"setup", "login", "logout", "expire", "generate", "recover"} \subseteq Verbs BY DEF Verbs
<1>3. CASE SetAdminPassword
  BY <1>1, <1>2, <1>3, LoadKeepsInv DEF SetAdminPassword
<1>4. CASE CreateSession
  BY <1>1, <1>2, <1>4, LoadKeepsInv DEF CreateSession
<1>5. ASSUME NEW t \in Tokens, DestroySession(t) \/ ExpireSession(t) PROVE AuthInv'
  BY <1>1, <1>2, <1>5, LoadKeepsInv DEF DestroySession, ExpireSession, Valid
<1>6. CASE ConsumeRecoveryCode
  BY <1>1, <1>2, <1>6, LoadKeepsInv DEF ConsumeRecoveryCode
<1>7. ASSUME NEW p \in Procs, CreateRecoveryCode(p) PROVE AuthInv'
  BY <1>1, <1>2, <1>7, LoadKeepsInv DEF CreateRecoveryCode
<1>8. CASE UNCHANGED vars
  <2>1. /\ now' = now /\ file' = file /\ job' = job /\ sessions' = sessions /\ codes' = codes
        /\ printed' = printed /\ latest' = latest /\ used' = used /\ ended' = ended /\ torn' = torn
    BY <1>8 DEF vars, history
  <2>2. TypeInv' BY <2>1 DEF AuthInv, TypeInv, TypeOK, JobInv, StateInv, Cooling
  <2>3. CodeInv' BY <2>1 DEF AuthInv, CodeInv, Unused, Pending
  <2>4. SessionInv' /\ FileInv' BY <2>1 DEF AuthInv, SessionInv, FileInv
  <2> QED BY <2>2, <2>3, <2>4 DEF AuthInv
<1> QED
  BY <1>3, <1>4, <1>5, <1>6, <1>7, <1>8, SaveKeepsInv, KillKeepsInv, TickKeepsInv DEF Next, NoChange

LEMMA AuthInvariance == Spec => []AuthInv
BY AuthInitInv, AuthNextKeepsInv, PTL DEF Spec

-----------------------------------------------------------------------------
(* What is stored and what is being worked on is well typed, and nothing    *)
(* in the file outlives its lifetime: the records of state.json.            *)
THEOREM AuthTypeCorrect == Spec => []TypeOK
<1>1. AuthInv => TypeOK BY DEF AuthInv, TypeInv
<1> QED BY <1>1, AuthInvariance, PTL

(* No recovery code sets a second password, whatever the command line does  *)
(* to the file meanwhile: consumeRecoveryCode, auth.js 112-128.             *)
THEOREM RecoveryCodesAreSingleUse == Spec => []CodeSingleUse
<1>1. AuthInv => CodeSingleUse BY DEF AuthInv, CodeInv, Unused, CodeSingleUse
<1> QED BY <1>1, AuthInvariance, PTL

(* Without two writers at once, the password is the one set last:           *)
(* setAdminPassword and consumeRecoveryCode, auth.js 47 and 112.            *)
THEOREM PasswordIsTheLastOne == Spec => []PasswordKept
<1>1. AuthInv => PasswordKept BY DEF AuthInv, FileInv, PasswordKept
<1> QED BY <1>1, AuthInvariance, PTL

(* Without two writers at once, a session that has ended is not accepted    *)
(* again: destroySession, isValidSession, consumeRecoveryCode.              *)
THEOREM EndedSessionsStayEnded == Spec => []EndedStaysEnded
<1>1. AuthInv => EndedStaysEnded BY DEF AuthInv, FileInv, EndedStaysEnded, Valid
<1> QED BY <1>1, AuthInvariance, PTL

(* Without two writers at once, recovery codes are a cooldown apart:        *)
(* recoveryCodeCooldownRemainingMs as both of its callers use it.           *)
THEOREM CooldownIsKept == Spec => CooldownKept
<1> DEFINE Apart == \A p \in Procs :
       job[p] # None /\ job'[p] = None /\ file' # file /\ ~torn' /\ job[p].verb = "generate"
         /\ file.recoveryCode # None =>
       now - printed >= RECOVERY_CODE_COOLDOWN_MS
<1>1. AuthInv /\ [Next]_vars => [Apart]_vars
  <2> SUFFICES ASSUME AuthInv, Next, NEW p \in Procs, job[p] # None, job'[p] = None, file' # file,
                      ~torn', job[p].verb = "generate", file.recoveryCode # None
               PROVE  now - printed >= RECOVERY_CODE_COOLDOWN_MS
    OBVIOUS
  <2>1. PICK q \in Procs : Save(q)
    BY DEF Next, NoChange, vars, SetAdminPassword, CreateSession, DestroySession, ExpireSession,
           ConsumeRecoveryCode, CreateRecoveryCode, Load, Kill, Tick
  <2>2. job \in [Procs -> Jobs \cup {None}] BY DEF AuthInv, TypeInv, TypeOK
  <2>3. q = p BY <2>1, <2>2 DEF Save
  <2>4. ~torn /\ file = job[p].seen BY <2>1, <2>3 DEF Save
  <2>5. ~Cooling(file) BY <2>4 DEF AuthInv, TypeInv, JobInv
  <2>6. file.recoveryCode.expiresAt = printed + RECOVERY_CODE_TTL_MS BY <2>4 DEF AuthInv, FileInv
  <2>7. now \in Nat /\ printed \in Nat BY DEF AuthInv, TypeInv, TypeOK
  <2> QED BY <2>5, <2>6, <2>7, AuthAssumption DEF Cooling
<1> QED BY <1>1, AuthInvariance, PTL DEF Spec, CooldownKept
=============================================================================

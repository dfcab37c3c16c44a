--------------------------- MODULE ThrottleProofs ---------------------------
(***************************************************************************)
(* The login throttle, for every number of attempts above one and every     *)
(* window that is not shorter than the lockout.                             *)
(***************************************************************************)
EXTENDS Throttle, SequenceTheorems, TLAPS

Ordered(f) ==
  /\ \A i, j \in 1..Len(f) : i <= j => f[i] <= f[j]
  /\ \A i \in 1..Len(f) : f[i] <= now

(* A record counts the last failures, from the one that opened its window *)
Opened(r, f) == Len(f) - r.count + 1

(* The window before it was left either by a lockout or by its own length,  *)
(* so that the failure MAX_ATTEMPTS - 1 before the one that opened this     *)
(* window is a lockout time away from it.  That is what bounds the failures *)
(* over two windows.                                                        *)
Separated(r, f) ==
  Opened(r, f) >= MAX_ATTEMPTS =>
    f[Opened(r, f)] - f[Opened(r, f) - MAX_ATTEMPTS + 1] >= LOCKOUT_MS

Counts(r, f) ==
  /\ r.count <= Len(f)
  /\ r.windowStart = f[Opened(r, f)]
  /\ f[Len(f)] - r.windowStart <= WINDOW_MS
  /\ r.count < MAX_ATTEMPTS => r.lockedUntil = 0
  /\ r.count = MAX_ATTEMPTS => r.lockedUntil = f[Len(f)] + LOCKOUT_MS

ClientInv(r, f) ==
  /\ r \in Records \cup {NoRecord} /\ f \in Seq(Times) /\ Len(f) <= Kept
  /\ Ordered(f)
  /\ r = NoRecord => f = <<>>
  /\ r # NoRecord => Counts(r, f) /\ Separated(r, f)

ThrottleInv == TypeOK /\ \A ip \in Ips : ClientInv(attempts[ip], failures[ip])

-----------------------------------------------------------------------------
(* Appending to a sequence of which only the last n elements are kept *)
LEMMA LastOfAppend ==
  ASSUME NEW S, NEW s \in Seq(S), NEW x \in S, NEW n \in Nat \ {0}, Len(s) <= n
  PROVE  LET g == Last(Append(s, x), n)
             d == Len(s) + 1 - Len(g)
         IN /\ g \in Seq(S)
            /\ Len(g) = IF Len(s) < n THEN Len(s) + 1 ELSE n
            /\ g[Len(g)] = x
            /\ \A i \in 1..Len(g) : i # Len(g) => g[i] = s[i + d]
<1> DEFINE a == Append(s, x)
           g == Last(a, n)
<1>1. a \in Seq(S) /\ Len(a) = Len(s) + 1 /\ a[Len(s) + 1] = x /\ \A i \in 1..Len(s) : a[i] = s[i]
  OBVIOUS
<1>2. Len(s) \in Nat OBVIOUS
<1>3. CASE Len(s) < n
  <2>1. g = a BY <1>1, <1>2, <1>3 DEF Last
  <2> QED BY <1>1, <1>2, <1>3, <2>1
<1>4. CASE Len(s) = n
  <2>1. g = SubSeq(a, 2, n + 1) BY <1>1, <1>2, <1>4 DEF Last
  <2>2. /\ g \in Seq(S) /\ Len(g) = n /\ \A i \in 1..n : g[i] = a[i + 1]
    BY <1>1, <1>4, <2>1, SubSeqProperties
  <2> QED BY <1>1, <1>2, <1>4, <2>2
<1> QED BY <1>2, <1>3, <1>4

(* A failure that is checked: it opens a window or is counted in the one    *)
(* there is.                                                                *)
LEMMA FailureKeepsClient ==
  ASSUME NEW r, NEW f, now \in Times, ClientInv(r, f), ~Locked(r)
  PROVE  ClientInv(Failure(Unlocked(r)), Last(Append(f, now), Kept))
<1> DEFINE u == Unlocked(r)
           v == Failure(u)
           g == Last(Append(f, now), Kept)
           l == Len(f)
           m == Len(g)
           d == l + 1 - m
<1> USE ThrottleAssumption
<1>1. f \in Seq(Times) /\ l \in Nat /\ l <= Kept /\ Kept \in Nat \ {0} /\ now \in 0..MaxTime
  BY DEF ClientInv, Kept, Times
<1>2. /\ g \in Seq(Times) /\ m \in Nat
      /\ m = IF l < Kept THEN l + 1 ELSE Kept
      /\ g[m] = now
      /\ \A i \in 1..m : i # m => g[i] = f[i + d]
  BY <1>1, LastOfAppend
<1>3. /\ d \in {0, 1} /\ m = l + 1 - d /\ m >= 1 /\ m <= Kept /\ (d = 1 => m = Kept)
  BY <1>1, <1>2
<1>4. \A i \in 1..l : f[i] \in Nat BY <1>1 DEF Times
<1> SUFFICES ClientInv(v, g) OBVIOUS
<1> HIDE DEF u, v, g, m, d
<1>5. ASSUME NEW i \in 1..m, i # m PROVE i + d \in 1..l /\ g[i] = f[i + d] /\ g[i] \in Nat
  <2>1. i + d \in 1..l BY <1>1, <1>2, <1>3, <1>5
  <2>2. g[i] = f[i + d] BY <1>2, <1>5
  <2> QED BY <1>4, <2>1, <2>2
<1>6. \A i \in 1..m : g[i] \in Nat BY <1>1, <1>2, <1>5
<1>7. Ordered(g)
  <2>1. ASSUME NEW i \in 1..m PROVE g[i] <= now
    <3>1. CASE i = m BY <1>1, <1>2, <3>1
    <3>2. CASE i # m
      <4>1. i + d \in 1..l /\ g[i] = f[i + d] BY <1>5, <3>2
      <4> QED BY <4>1 DEF ClientInv, Ordered
    <3> QED BY <3>1, <3>2
  <2>2. ASSUME NEW i \in 1..m, NEW j \in 1..m, i <= j PROVE g[i] <= g[j]
    <3>1. CASE j = m BY <1>2, <2>1, <3>1
    <3>2. CASE j # m
      <4>1. i # m BY <1>2, <2>2, <3>2
      <4>2. g[i] = f[i + d] /\ g[j] = f[j + d] /\ i + d \in 1..l /\ j + d \in 1..l /\ i + d <= j + d
        BY <1>3, <1>5, <2>2, <3>2, <4>1
      <4> QED BY <4>2 DEF ClientInv, Ordered
    <3> QED BY <3>1, <3>2
  <2> QED BY <2>1, <2>2 DEF Ordered, m
(* The window goes on *)
<1>8. CASE CountsOn(u)
  <2>1. u = r /\ r # NoRecord /\ r.lockedUntil = 0 /\ now - r.windowStart <= WINDOW_MS
    BY <1>8 DEF u, Unlocked, CountsOn
  <2>2. r \in Records BY <2>1 DEF ClientInv
  <2>3. r.count \in 1..MAX_ATTEMPTS /\ r.count <= l /\ r.windowStart = f[Opened(r, f)]
          /\ r.windowStart \in Times
    BY <2>1, <2>2 DEF ClientInv, Counts, Records
  <2>4. r.count < MAX_ATTEMPTS
    <3>1. f[l] \in Nat BY <1>1, <1>4, <2>3
    <3> QED BY <2>1, <2>3, <3>1 DEF ClientInv, Counts
  <2>5. /\ v.count = r.count + 1 /\ v.windowStart = r.windowStart
        /\ v.lockedUntil = IF r.count + 1 >= MAX_ATTEMPTS THEN now + LOCKOUT_MS ELSE 0
        /\ v = [count |-> v.count, windowStart |-> v.windowStart, lockedUntil |-> v.lockedUntil]
    BY <1>8, <2>1 DEF v, Failure, LocksAt
  <2>6. v \in Records
    <3>1. v.count \in 1..MAX_ATTEMPTS BY <2>3, <2>4, <2>5
    <3>2. v.lockedUntil \in 0..MaxTime + LOCKOUT_MS BY <1>1, <2>5
    <3> QED BY <2>3, <2>5, <3>1, <3>2 DEF Records
  <2>7. v.count <= m
    BY <1>1, <1>2, <2>3, <2>4, <2>5 DEF Kept
  <2>8. Opened(v, g) = Opened(r, f) - d /\ Opened(v, g) \in 1..m /\ Opened(v, g) # m
    <3>1. Opened(v, g) = m - (r.count + 1) + 1 /\ Opened(r, f) = l - r.count + 1
      BY <2>5 DEF Opened, m
    <3>2. r.count \in 1..MAX_ATTEMPTS /\ r.count + 1 <= m /\ l \in Nat /\ m \in Nat
      BY <1>1, <1>2, <2>3, <2>5, <2>7
    <3> QED BY <1>3, <3>1, <3>2
  <2>9. g[Opened(v, g)] = f[Opened(r, f)]
    <3>1. Opened(r, f) \in Int BY <1>1, <2>3 DEF Opened
    <3>2. Opened(v, g) + d = Opened(r, f) BY <1>3, <2>8, <3>1
    <3> QED BY <1>5, <2>8, <3>2
  <2>10. Counts(v, g)
    BY <1>2, <2>1, <2>3, <2>4, <2>5, <2>7, <2>9 DEF Counts, m
  <2>11. Separated(v, g)
    <3> SUFFICES ASSUME Opened(v, g) >= MAX_ATTEMPTS
                 PROVE  g[Opened(v, g)] - g[Opened(v, g) - MAX_ATTEMPTS + 1] >= LOCKOUT_MS
      BY DEF Separated
    <3> DEFINE e == Opened(v, g) - MAX_ATTEMPTS + 1
    <3>1. e \in 1..m /\ e # m BY <1>2, <2>8
    <3>2. Opened(r, f) \in Int BY <1>1, <2>3 DEF Opened
    <3>3. e + d = Opened(r, f) - MAX_ATTEMPTS + 1 /\ Opened(r, f) >= MAX_ATTEMPTS
      BY <1>3, <2>8, <3>2
    <3>5. g[e] = f[Opened(r, f) - MAX_ATTEMPTS + 1] BY <1>5, <3>1, <3>3
    <3>4. f[Opened(r, f)] - f[Opened(r, f) - MAX_ATTEMPTS + 1] >= LOCKOUT_MS
      BY <2>1, <3>3 DEF ClientInv, Separated
    <3> QED BY <2>9, <3>4, <3>5
  <2> QED
    <3>1. v # NoRecord BY <2>6, RecordsAssumption
    <3> QED BY <1>2, <1>3, <1>7, <2>6, <2>10, <2>11, <3>1 DEF ClientInv, m
(* A new window *)
<1>9. CASE ~CountsOn(u)
  <2>1. v = [count |-> 1, windowStart |-> now, lockedUntil |-> 0]
    BY <1>9 DEF v, Failure, LocksAt
  <2>2. v \in Records /\ v # NoRecord
    BY <1>1, <2>1, RecordsAssumption DEF Records, Times
  <2>3. Opened(v, g) = m BY <1>2, <2>1 DEF Opened, m
  <2>4. Counts(v, g)
    BY <1>1, <1>2, <1>3, <2>1, <2>3 DEF Counts, m
  <2>5. Separated(v, g)
    <3> SUFFICES ASSUME m >= MAX_ATTEMPTS PROVE now - g[m - MAX_ATTEMPTS + 1] >= LOCKOUT_MS
      BY <1>2, <2>3 DEF Separated
    <3> DEFINE e == m - MAX_ATTEMPTS + 1
               k == l - MAX_ATTEMPTS + 2
    <3>1. e \in 1..m /\ e # m BY <1>2
    <3>2. e + d = k /\ l >= 1
      <4>1. m \in Nat /\ l \in Nat /\ MAX_ATTEMPTS \in Nat /\ MAX_ATTEMPTS >= 2 BY <1>1, <1>2
      <4> QED BY <1>3, <4>1
    <3>8. k \in 1..l /\ g[e] = f[k] BY <1>5, <3>1, <3>2
    <3>3. r # NoRecord
      <4>1. f # <<>> BY <3>2
      <4> QED BY <4>1 DEF ClientInv
    <3>4. r \in Records /\ Counts(r, f) BY <3>3 DEF ClientInv
    <3>5. /\ r.count \in 1..MAX_ATTEMPTS /\ r.count <= l /\ r.windowStart = f[Opened(r, f)]
          /\ r.lockedUntil \in Nat /\ Opened(r, f) \in 1..l
      BY <1>1, <3>4 DEF Counts, Records, Opened
    <3>6. CASE r.lockedUntil # 0
      <4>1. r.count = MAX_ATTEMPTS /\ r.lockedUntil = f[l] + LOCKOUT_MS
        BY <3>4, <3>5, <3>6 DEF Counts
      <4>2. r.lockedUntil <= now BY <1>1, <3>3, <3>5 DEF Locked
      <4>3. f[k] <= f[l] /\ f[k] \in Nat /\ f[l] \in Nat BY <1>1, <1>4, <3>2, <3>8 DEF ClientInv, Ordered
      <4> QED BY <1>1, <3>8, <4>1, <4>2, <4>3
    <3>7. CASE r.lockedUntil = 0
      <4>1. f[l] \in Nat /\ f[k] \in Nat /\ f[Opened(r, f)] \in Nat BY <1>1, <1>4, <3>8, <3>5
      <4>2. r.count < MAX_ATTEMPTS BY <3>4, <3>5, <3>7, <4>1 DEF Counts
      <4>3. now - r.windowStart > WINDOW_MS BY <1>1, <1>9, <3>3, <3>5, <3>7, <4>1 DEF u, Unlocked, CountsOn
      <4>4. k <= Opened(r, f) BY <1>1, <3>5, <4>2 DEF Opened
      <4>5. f[k] <= f[Opened(r, f)] BY <3>8, <3>5, <4>4 DEF ClientInv, Ordered
      <4> QED BY <1>1, <3>8, <3>5, <4>1, <4>3, <4>5
    <3> QED BY <3>6, <3>7
  <2> QED BY <1>2, <1>3, <1>7, <2>2, <2>4, <2>5 DEF ClientInv, m
<1> QED BY <1>8, <1>9

LEMMA NewClient == ClientInv(NoRecord, <<>>)
BY ThrottleAssumption DEF ClientInv, Ordered, Kept

LEMMA ThrottleInitInv == Init => ThrottleInv
<1> SUFFICES ASSUME Init PROVE ThrottleInv OBVIOUS
<1>1. now \in Times /\ \A ip \in Ips : attempts[ip] = NoRecord /\ failures[ip] = <<>>
  BY ThrottleAssumption DEF Init, Times
<1>2. \A ip \in Ips : ClientInv(attempts[ip], failures[ip]) BY <1>1, NewClient
<1>3. TypeOK BY <1>1, <1>2 DEF TypeOK, Init, ClientInv
<1> QED BY <1>2, <1>3 DEF ThrottleInv

(* One client's login changes nothing for the others *)
LEMMA LoginKeepsInv ==
  ASSUME ThrottleInv, NEW ip \in Ips, NEW r, NEW f, ClientInv(r, f), now' = now,
         attempts' = [attempts EXCEPT ![ip] = r], failures' = [failures EXCEPT ![ip] = f]
  PROVE  ThrottleInv'
<1>1. attempts \in [Ips -> Records \cup {NoRecord}] /\ failures \in [Ips -> Seq(Times)] /\ now \in Times
  BY DEF ThrottleInv, TypeOK
<1>2. /\ attempts'[ip] = r /\ failures'[ip] = f
      /\ \A c \in Ips : c # ip => attempts'[c] = attempts[c] /\ failures'[c] = failures[c]
  BY <1>1
<1>3. ASSUME NEW c \in Ips PROVE ClientInv(attempts[c], failures[c])'
  <2>1. ClientInv(attempts'[c], failures'[c])
    BY <1>2 DEF ThrottleInv
  <2> QED BY <2>1 DEF ClientInv, Ordered, Counts, Opened, Separated
<1>4. TypeOK'
  <2>1. r \in Records \cup {NoRecord} /\ f \in Seq(Times) BY DEF ClientInv
  <2>2. attempts' \in [Ips -> Records \cup {NoRecord}] /\ failures' \in [Ips -> Seq(Times)]
    BY <1>1, <2>1
  <2>3. \A c \in Ips : Len(failures'[c]) <= Kept BY <1>3 DEF ClientInv
  <2> QED BY <1>1, <2>2, <2>3 DEF TypeOK
<1> QED BY <1>3, <1>4 DEF ThrottleInv

LEMMA ThrottleNextKeepsInv == ThrottleInv /\ [Next]_vars => ThrottleInv'
<1> SUFFICES ASSUME ThrottleInv, [Next]_vars PROVE ThrottleInv' OBVIOUS
<1>1. attempts \in [Ips -> Records \cup {NoRecord}] /\ failures \in [Ips -> Seq(Times)] /\ now \in Times
  BY DEF ThrottleInv, TypeOK
<1>2. ASSUME NEW ip \in Ips, WrongPassword(ip) PROVE ThrottleInv'
  <2>1. ClientInv(attempts[ip], failures[ip]) BY DEF ThrottleInv
  <2>2. ~Locked(attempts[ip]) /\ now' = now
        /\ attempts' = [attempts EXCEPT ![ip] = Failure(Unlocked(attempts[ip]))]
        /\ failures' = [failures EXCEPT ![ip] = Last(Append(failures[ip], now), Kept)]
    BY <1>1, <1>2 DEF WrongPassword
  <2>3. ClientInv(Failure(Unlocked(attempts[ip])), Last(Append(failures[ip], now), Kept))
    BY <1>1, <2>1, <2>2, FailureKeepsClient
  <2> QED BY <2>2, <2>3, LoginKeepsInv
<1>3. ASSUME NEW ip \in Ips, RightPassword(ip) PROVE ThrottleInv'
  BY <1>3, NewClient, LoginKeepsInv DEF RightPassword
<1>4. CASE Tick
  <2>1. now' \in Times /\ now' >= now BY <1>1, <1>4, ThrottleAssumption DEF Tick, Times
  <2>2. ASSUME NEW c \in Ips PROVE ClientInv(attempts[c], failures[c])'
    <3>1. ClientInv(attempts[c], failures[c]) /\ attempts' = attempts /\ failures' = failures
      BY <1>4 DEF ThrottleInv, Tick
    <3>2. \A i \in 1..Len(failures[c]) : failures[c][i] <= now'
      <4> SUFFICES ASSUME NEW i \in 1..Len(failures[c]) PROVE failures[c][i] <= now' OBVIOUS
      <4>1. failures[c][i] \in Times /\ failures[c][i] <= now
        BY <3>1 DEF ClientInv, Ordered
      <4> QED BY <1>1, <2>1, <4>1 DEF Times
    <3> QED BY <3>1, <3>2 DEF ClientInv, Ordered, Counts, Opened, Separated
  <2> QED BY <1>4, <2>1, <2>2 DEF Tick, ThrottleInv, TypeOK
<1>5. CASE Restart
  <2>1. \A c \in Ips : attempts'[c] = NoRecord /\ failures'[c] = <<>> BY <1>5 DEF Restart
  <2>2. ASSUME NEW c \in Ips PROVE ClientInv(attempts[c], failures[c])'
    <3>1. ClientInv(attempts'[c], failures'[c]) BY <2>1, NewClient
    <3> QED BY <1>5, <3>1 DEF Restart, ClientInv, Ordered, Counts, Opened, Separated
  <2>3. TypeOK' BY <1>1, <1>5, <2>2 DEF Restart, TypeOK, ClientInv
  <2> QED BY <2>2, <2>3 DEF ThrottleInv
<1>6. CASE UNCHANGED vars
  BY <1>6 DEF vars, ThrottleInv, TypeOK, ClientInv, Ordered, Counts, Opened, Separated
<1> QED BY <1>2, <1>3, <1>4, <1>5, <1>6 DEF Next

LEMMA ThrottleInvariance == Spec => []ThrottleInv
BY ThrottleInitInv, ThrottleNextKeepsInv, PTL DEF Spec

-----------------------------------------------------------------------------
(* The records of the map are well typed: recordFailure, msUntilUnlocked.   *)
THEOREM ThrottleTypeCorrect == Spec => []TypeOK
<1>1. ThrottleInv => TypeOK BY DEF ThrottleInv
<1> QED BY <1>1, ThrottleInvariance, PTL

(* No client without the password gets 2 * MAX_ATTEMPTS - 1 tries within a  *)
(* lockout time, for all its windows, if a window is not shorter than the   *)
(* lockout (ThrottleAssumption): recordFailure, loginThrottle.js 22.        *)
THEOREM FailuresAreBounded == Spec => []FailuresBounded
<1>1. ThrottleInv => FailuresBounded
  <2> SUFFICES ASSUME ThrottleInv, NEW ip \in Ips, Len(failures[ip]) = Kept
               PROVE  failures[ip][Kept] - failures[ip][1] >= LOCKOUT_MS
    BY DEF FailuresBounded
  <2> DEFINE f == failures[ip]
             r == attempts[ip]
             o == Opened(r, f)
  <2> USE ThrottleAssumption
  <2>1. ClientInv(r, f) /\ Kept \in Nat /\ Kept = 2 * MAX_ATTEMPTS - 1 BY DEF ThrottleInv, Kept
  <2>2. r \in Records /\ Separated(r, f) /\ f \in Seq(Times) BY <2>1 DEF ClientInv
  <2>3. o \in MAX_ATTEMPTS..Kept BY <2>1, <2>2 DEF Opened, Records
  <2>4. f[o] - f[o - MAX_ATTEMPTS + 1] >= LOCKOUT_MS BY <2>1, <2>2, <2>3 DEF Separated
  <2> HIDE DEF f, o
  <2>5. o - MAX_ATTEMPTS + 1 \in 1..Kept /\ o \in 1..Kept /\ 1 \in 1..Kept /\ Kept \in 1..Kept
    BY <2>1, <2>3
  <2>6. \A i \in 1..Kept : f[i] \in Nat BY <2>2 DEF Times, f
  <2>7. f[1] <= f[o - MAX_ATTEMPTS + 1] /\ f[o] <= f[Kept]
    BY <2>1, <2>3, <2>5 DEF ClientInv, Ordered, f
  <2>8. f[Kept] - f[1] >= LOCKOUT_MS BY <2>4, <2>5, <2>6, <2>7
  <2> QED BY <2>8 DEF f
<1> QED BY <1>1, ThrottleInvariance, PTL

(* Nobody is locked out for less than MAX_ATTEMPTS failures of one window,  *)
(* nor for longer than LOCKOUT_MS from the last: loginThrottle.js 5 and 22.  *)
THEOREM LockoutsAreEarned == Spec => []LockoutEarned
<1>1. ThrottleInv => LockoutEarned
  <2> SUFFICES ASSUME ThrottleInv, NEW ip \in Ips, Locked(attempts[ip])
               PROVE  LET f == failures[ip]
                      IN /\ Len(f) >= MAX_ATTEMPTS
                         /\ f[Len(f)] - f[Len(f) - MAX_ATTEMPTS + 1] <= WINDOW_MS
                         /\ attempts[ip].lockedUntil = f[Len(f)] + LOCKOUT_MS
    BY DEF LockoutEarned
  <2> DEFINE r == attempts[ip]
  <2>1. r \in Records /\ Counts(r, failures[ip]) /\ now \in Nat /\ r.lockedUntil > now
    BY DEF ThrottleInv, TypeOK, Times, ClientInv, Locked
  <2>2. r.count = MAX_ATTEMPTS
    BY <2>1, ThrottleAssumption DEF Counts, Records
  <2> QED BY <2>1, <2>2 DEF Counts, Opened
<1> QED BY <1>1, ThrottleInvariance, PTL
=============================================================================

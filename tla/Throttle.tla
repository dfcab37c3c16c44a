------------------------------ MODULE Throttle ------------------------------
(***************************************************************************)
(* loginThrottle.js as POST /login uses it (index.js 111-131): the failed   *)
(* logins of each client address, and the lockout after too many of them.   *)
(* The map lives in the memory of the one UI process, whose handlers run    *)
(* without interruption, so that a whole login is one action.               *)
(*                                                                         *)
(* A definition named ...Mutant is the one below it with a plausible        *)
(* mistake; nothing uses it but the checks that the properties notice it.   *)
(***************************************************************************)
EXTENDS Integers, Sequences

CONSTANTS
  Ips,           \* client addresses
  MAX_ATTEMPTS, LOCKOUT_MS, WINDOW_MS,
  NoRecord,
  MaxTime        \* bound on the clock

ASSUME ThrottleAssumption ==
  /\ MAX_ATTEMPTS \in Nat \ {0, 1} /\ LOCKOUT_MS \in Nat \ {0} /\ MaxTime \in Nat
  /\ WINDOW_MS \in Nat /\ LOCKOUT_MS <= WINDOW_MS

VARIABLES
  now,
  attempts,   \* each address's record
  failures    \* history: when its last failures were, since a success or a restart

vars == <<now, attempts, failures>>

Times   == 0..MaxTime
Kept    == 2 * MAX_ATTEMPTS - 1
Records == [count : 1..MAX_ATTEMPTS, windowStart : Times, lockedUntil : 0..MaxTime + LOCKOUT_MS]

ASSUME RecordsAssumption == NoRecord \notin Records

TypeOK ==
  /\ now \in Times
  /\ attempts \in [Ips -> Records \cup {NoRecord}]
  /\ failures \in [Ips -> Seq(Times)] /\ \A ip \in Ips : Len(failures[ip]) <= Kept

Init ==
  /\ now = 0
  /\ attempts = [ip \in Ips |-> NoRecord] /\ failures = [ip \in Ips |-> <<>>]

Locked(r) == r # NoRecord /\ r.lockedUntil > now

(* msUntilUnlocked forgets a record whose lockout is over *)
UnlockedMutant(r) == r
Unlocked(r) == IF r # NoRecord /\ r.lockedUntil # 0 THEN NoRecord ELSE r

(* recordFailure *)
CountsOnMutant(r) == r # NoRecord
CountsOn(r) == r # NoRecord /\ now - r.windowStart <= WINDOW_MS

LocksAtMutant(count) == count > MAX_ATTEMPTS
LocksAt(count) == count >= MAX_ATTEMPTS

Failure(r) ==
  LET count == IF CountsOn(r) THEN r.count + 1 ELSE 1
  IN [count       |-> count,
      windowStart |-> IF CountsOn(r) THEN r.windowStart ELSE now,
      lockedUntil |-> IF LocksAt(count) THEN now + LOCKOUT_MS ELSE 0]

Last(s, n) == IF Len(s) <= n THEN s ELSE SubSeq(s, Len(s) - n + 1, Len(s))

WrongPasswordMutant(ip) ==
  /\ attempts' = [attempts EXCEPT ![ip] = Failure(@)]
  /\ failures' = [failures EXCEPT ![ip] = Last(Append(@, now), Kept)]
  /\ UNCHANGED now

WrongPassword(ip) ==
  /\ ~Locked(attempts[ip])
  /\ attempts' = [attempts EXCEPT ![ip] = Failure(Unlocked(@))]
  /\ failures' = [failures EXCEPT ![ip] = Last(Append(@, now), Kept)]
  /\ UNCHANGED now

RightPassword(ip) ==
  /\ ~Locked(attempts[ip])
  /\ attempts' = [attempts EXCEPT ![ip] = NoRecord]
  /\ failures' = [failures EXCEPT ![ip] = <<>>]
  /\ UNCHANGED now

Tick == now < MaxTime /\ now' = now + 1 /\ UNCHANGED <<attempts, failures>>

Restart ==
  /\ attempts' = [ip \in Ips |-> NoRecord] /\ failures' = [ip \in Ips |-> <<>>]
  /\ UNCHANGED now

Next ==
  \/ \E ip \in Ips : WrongPassword(ip) \/ RightPassword(ip)
  \/ Tick \/ Restart

Spec == Init /\ [][Next]_vars

-----------------------------------------------------------------------------
(* Although the window is not a sliding one, so that failures at its end    *)
(* and at the beginning of the next are counted apart, a client that knows  *)
(* no password never has more than 2 * MAX_ATTEMPTS - 2 of them checked     *)
(* within one lockout time (recordFailure, loginThrottle.js 22).            *)
FailuresBounded ==
  \A ip \in Ips :
    LET f == failures[ip] IN Len(f) = Kept => f[Kept] - f[1] >= LOCKOUT_MS

(* A client is locked out for MAX_ATTEMPTS failures, the first and the last *)
(* of them not further apart than the window ("failed attempts older than   *)
(* this don't count toward a lockout", loginThrottle.js 5), and for         *)
(* LOCKOUT_MS from the last of them, which tries in between do not prolong. *)
LockoutEarned ==
  \A ip \in Ips : Locked(attempts[ip]) =>
    LET f == failures[ip] IN
      /\ Len(f) >= MAX_ATTEMPTS
      /\ f[Len(f)] - f[Len(f) - MAX_ATTEMPTS + 1] <= WINDOW_MS
      /\ attempts[ip].lockedUntil = f[Len(f)] + LOCKOUT_MS
=============================================================================

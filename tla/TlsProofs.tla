----------------------------- MODULE TlsProofs ------------------------------
(***************************************************************************)
(* The pair of certificate and key that the web UI makes for itself, for    *)
(* every set of names and every number of starts, kills and renewals.       *)
(***************************************************************************)
EXTENDS Tls, TLAPS

Usable == Exists /\ ~expired

(* A certificate in place has its key beside it, and a usable one has its   *)
(* own; the key alone may already be the one of a pair half swapped in.     *)
FilesInv ==
  /\ cert # NoFile => key # NoFile
  /\ step # "second" => (Usable => key = cert)

(* What the steps of a start may count on.  While a pair is made there is   *)
(* nothing usable in place, so that a kill leaves nothing to be mistaken    *)
(* for a pair.                                                              *)
MakingInv ==
  /\ step \in {"openssl", "first", "second"} => ~Usable
  /\ step \in Making => fresh # NoFile
  /\ step = "second" => key = fresh

LoadedInv ==
  /\ step = "load" => cert # NoFile /\ key = cert
  /\ step = "listen" => loaded[1] = loaded[2]

TlsInv == TlsTypeOK /\ FilesInv /\ MakingInv /\ LoadedInv

-----------------------------------------------------------------------------
LEMMA TlsInitInv == TlsInit => TlsInv
<1> SUFFICES ASSUME TlsInit PROVE TlsInv OBVIOUS
<1>1. TlsTypeOK
  BY DEF TlsInit, TlsTypeOK, Files, Nothing, Running, Making
<1>2. FilesInv /\ MakingInv /\ LoadedInv
  BY DEF TlsInit, FilesInv, MakingInv, LoadedInv, Usable, Exists, Making
<1> QED BY <1>1, <1>2 DEF TlsInv

(* The first rename takes away what is usable, or finds that nothing is;    *)
(* the second one completes the pair.                                       *)
LEMMA RenamesKeepInv == TlsInv /\ (RenameFirst \/ RenameSecond) => TlsInv'
<1> SUFFICES ASSUME TlsInv, RenameFirst \/ RenameSecond PROVE TlsInv' OBVIOUS
<1> USE TlsAssumption DEF TlsInv, TlsTypeOK, FilesInv, MakingInv, LoadedInv, Usable, Exists, Files,
        Running, Making, Order, Rename
<1>1. CASE RenameFirst
  <2>1. step = "first" /\ step' = "second" /\ key' = fresh /\ fresh' = fresh
          /\ UNCHANGED <<cert, expired, setting, loaded>>
    BY <1>1 DEF RenameFirst
  <2> QED BY <2>1
<1>2. CASE RenameSecond
  <2>1. step = "second" /\ step' = "load" /\ cert' = fresh /\ expired' = FALSE
          /\ fresh' = NoFile /\ UNCHANGED <<key, setting, loaded>>
    BY <1>2 DEF RenameSecond
  <2> QED BY <2>1
<1> QED BY <1>1, <1>2

(* The steps that leave the files alone *)
LEMMA StartKeepsInv ==
  TlsInv /\ (Start \/ LoadSupplied \/ Look \/ OpenSsl \/ Load \/ Listen) => TlsInv'
<1> SUFFICES ASSUME TlsInv, Start \/ LoadSupplied \/ Look \/ OpenSsl \/ Load \/ Listen PROVE TlsInv'
    OBVIOUS
<1> USE TlsAssumption DEF TlsInv, TlsTypeOK, FilesInv, MakingInv, LoadedInv, Usable, Exists, Files,
        Running, Making, Goto
<1>1. CASE Start BY <1>1 DEF Start
<1>2. CASE LoadSupplied BY <1>2 DEF LoadSupplied
<1>3. CASE Look BY <1>3 DEF Look
<1>4. CASE OpenSsl BY <1>4 DEF OpenSsl
<1>5. CASE Load BY <1>5 DEF Load
<1>6. CASE Listen BY <1>6 DEF Listen
<1> QED BY <1>1, <1>2, <1>3, <1>4, <1>5, <1>6

LEMMA OutsideKeepsInv == TlsInv /\ (Stop \/ Expire \/ Remove) => TlsInv'
<1> SUFFICES ASSUME TlsInv, Stop \/ Expire \/ Remove PROVE TlsInv' OBVIOUS
<1> USE TlsAssumption DEF TlsInv, TlsTypeOK, FilesInv, MakingInv, LoadedInv, Usable, Exists, Files,
        Running, Making
<1>1. CASE Stop BY <1>1 DEF Stop, Nothing
<1>2. CASE Expire BY <1>2 DEF Expire, Serving
<1>3. CASE Remove BY <1>3 DEF Remove
<1> QED BY <1>1, <1>2, <1>3

LEMMA TlsNextKeepsInv == TlsInv /\ [TlsNext]_tlsVars => TlsInv'
<1> SUFFICES ASSUME TlsInv, [TlsNext]_tlsVars PROVE TlsInv' OBVIOUS
<1>1. CASE RenameFirst \/ RenameSecond BY <1>1, RenamesKeepInv
<1>2. CASE Start \/ LoadSupplied \/ Look \/ OpenSsl \/ Load \/ Listen BY <1>2, StartKeepsInv
<1>3. CASE Stop \/ Expire \/ Remove BY <1>3, OutsideKeepsInv
<1>4. CASE UNCHANGED tlsVars
  BY <1>4 DEF tlsVars, TlsInv, TlsTypeOK, FilesInv, MakingInv, LoadedInv, Usable, Exists
<1> QED BY <1>1, <1>2, <1>3, <1>4 DEF TlsNext

LEMMA TlsInvariance == TlsSpec => []TlsInv
BY TlsInitInv, TlsNextKeepsInv, PTL DEF TlsSpec

-----------------------------------------------------------------------------
(* The states of the start are well typed: generate, loadOrCreate.          *)
THEOREM TlsTypeCorrect == TlsSpec => []TlsTypeOK
<1>1. TlsInv => TlsTypeOK BY DEF TlsInv
<1> QED BY <1>1, TlsInvariance, PTL

(* The server is never made from a certificate and a key of two pairs,      *)
(* wherever the starts before it were killed: tls.js 59-60 and 91-103.      *)
THEOREM OwnPairAlwaysMatches == TlsSpec => []OwnPairMatches
<1>1. TlsInv => OwnPairMatches BY DEF TlsInv, LoadedInv, OwnPairMatches, Matching
<1> QED BY <1>1, TlsInvariance, PTL
=============================================================================

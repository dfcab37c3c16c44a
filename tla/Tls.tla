-------------------------------- MODULE Tls ---------------------------------
(***************************************************************************)
(* The start of the web UI (index.js 490-497) with the certificate it makes *)
(* for itself (tls.js).  Key and certificate are two files, replaced by two *)
(* renames; the process may be killed between any two steps, and Docker     *)
(* starts it again.                                                         *)
(*                                                                         *)
(* A definition named ...Mutant is the one below it with a plausible        *)
(* mistake; nothing uses it but the checks that the properties notice it.   *)
(***************************************************************************)
EXTENDS Naturals

CONSTANTS
  Pairs,      \* names for generated pairs; one that is on no file may be reused
  NoFile,
  Settings    \* what PORTCULLIO_TLS and the paths are set to: off, own, supplied

ASSUME TlsAssumption == NoFile \notin Pairs /\ Settings \subseteq {"off", "own", "supplied"}

VARIABLES
  setting,    \* of the process, or of the next one
  step,       \* of the start, or down, or serving
  key, cert,  \* the pair the file tls.key, and tls.crt, belongs to
  fresh,      \* the pair in the temporary files
  expired,    \* the certificate in tls.crt has expired
  loaded      \* the certificate and key the process has read

tlsVars == <<setting, step, key, cert, fresh, expired, loaded>>

Files   == Pairs \cup {NoFile}
Nothing == <<NoFile, NoFile>>
Making  == {"first", "second"}
Running == {"look", "openssl", "load", "listen"} \cup Making

TlsTypeOK ==
  /\ setting \in Settings /\ step \in Running \cup {"down", "supplied", "serving"}
  /\ key \in Files /\ cert \in Files /\ fresh \in Files
  /\ expired \in BOOLEAN /\ loaded \in Files \X Files

TlsInit ==
  /\ setting \in Settings /\ step = "down"
  /\ key = NoFile /\ cert = NoFile /\ fresh = NoFile
  /\ expired = FALSE /\ loaded = Nothing

Serving == step = "serving"
Https   == setting # "off"

-----------------------------------------------------------------------------
Goto(s) == step' = s /\ UNCHANGED <<setting, key, cert, expired, loaded>>

Start ==
  /\ step = "down" /\ UNCHANGED fresh
  /\ Goto(CASE setting = "off" -> "serving" [] setting = "own" -> "look"
            [] setting = "supplied" -> "supplied")

(* A pair somebody else keeps may match, or be torn or missing *)
LoadSupplied ==
  step = "supplied" /\ \E s \in {"serving", "down"} : Goto(s) /\ UNCHANGED fresh

Exists == key # NoFile /\ cert # NoFile

Look ==
  /\ step = "look" /\ UNCHANGED fresh
  /\ Goto(IF ~Exists \/ expired THEN "openssl" ELSE "load")

OpenSsl ==
  /\ step = "openssl" /\ step' = "first"
  /\ fresh' \in Pairs \ {key, cert}
  /\ UNCHANGED <<setting, key, cert, expired, loaded>>

(* The two renames of generate *)
OrderMutant == <<"cert", "key">>
Order == <<"key", "cert">>

Rename(i, from, to) ==
  /\ step = from /\ step' = to
  /\ IF Order[i] = "key" THEN key' = fresh /\ UNCHANGED <<cert, expired>>
                         ELSE cert' = fresh /\ expired' = FALSE /\ UNCHANGED key
  /\ fresh' = IF to = "load" THEN NoFile ELSE fresh
  /\ UNCHANGED <<setting, loaded>>

RenameFirst  == Rename(1, "first", "second")
RenameSecond == Rename(2, "second", "load")

Load ==
  /\ step = "load" /\ step' = "listen" /\ loaded' = <<cert, key>>
  /\ UNCHANGED <<setting, key, cert, fresh, expired>>

(* createServer throws if the two do not match *)
Matching == loaded[1] = loaded[2]
Listen ==
  step = "listen" /\ Goto(IF Matching THEN "serving" ELSE "down") /\ UNCHANGED fresh

(* The process is killed, or an error ends it; temporary files are as good  *)
(* as gone, and the next process may have other settings.                   *)
Stop ==
  /\ step # "down" /\ step' = "down" /\ setting' \in Settings
  /\ fresh' = NoFile /\ loaded' = Nothing /\ UNCHANGED <<key, cert, expired>>

(* Ten years pass, or somebody removes the certificate or both files.  What *)
(* happens to them while the UI serves is noticed by the next start.        *)
Expire ==
  /\ ~Serving /\ cert # NoFile /\ ~expired /\ expired' = TRUE
  /\ UNCHANGED <<setting, step, key, cert, fresh, loaded>>

Remove ==
  /\ step = "down" /\ cert # NoFile
  /\ cert' = NoFile /\ expired' = FALSE /\ key' \in {key, NoFile}
  /\ UNCHANGED <<setting, step, fresh, loaded>>

TlsNext ==
  \/ Start \/ LoadSupplied \/ Look \/ OpenSsl \/ RenameFirst \/ RenameSecond
  \/ Load \/ Listen \/ Stop \/ Expire \/ Remove

TlsSpec == TlsInit /\ [][TlsNext]_tlsVars

-----------------------------------------------------------------------------
(* The pair a start comes to with is one pair, wherever the starts before   *)
(* it were killed, although it is swapped in by two renames: the server     *)
(* never refuses its own files, and a half-made pair is always made anew    *)
(* ("swapped in atomically", tls.js 34).                                    *)
OwnPairMatches == step = "listen" => Matching
=============================================================================

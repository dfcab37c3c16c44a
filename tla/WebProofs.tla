----------------------------- MODULE WebProofs ------------------------------
(***************************************************************************)
(* The web UI and the browser, for any number of tabs, session tokens and   *)
(* pairs of files.                                                          *)
(***************************************************************************)
EXTENDS Web, TlsProofs, FiniteSetTheorems

(* A page keeps its fields when an answer to another tab disturbs it *)
TabInv ==
  /\ tab = [t \in Tabs |-> tab[t]]
  /\ \A t \in Tabs :
       tab[t].at = "page" => DOMAIN tab[t] = {"at", "kind", "token", "login", "calm"}

(* A token was made for the session cookie its page was asked with *)
FormInv ==
  \A t \in Tabs :
    /\ tab[t].at = "waiting" /\ tab[t].to \notin Paths \cup {"other"} => tab[t].csrf.for = tab[t].sent
    /\ tab[t].at = "page" => tab[t].token.for = tab[t].login

(* An answer sets or clears the session cookie only if the one the request  *)
(* carried is of no live session, and none that is on its way becomes live. *)
SessionInv ==
  /\ sessions \subseteq Tokens
  /\ \A t \in Tabs : tab[t].at = "waiting" =>
       /\ tab[t].session \in Tokens \cup {None, Keep}
       /\ tab[t].session # Keep => tab[t].sent \notin sessions

(* A secure cookie has the prefix, so that HTTP has cookies of its own *)
JarInv ==
  /\ jar = [n \in Names |-> jar[n]]
  /\ \A k \in {"session", "csrf"} : jar[<<"", k>>] # None => jar[<<"", k>>].secure = FALSE

WebInv == TabInv /\ FormInv /\ SessionInv /\ JarInv

-----------------------------------------------------------------------------
(* What the handlers have in common: whatever they answer, they touch no    *)
(* cookie and no file, and their answer is one of these.                    *)
Sound(answer) ==
  /\ answer.at = "waiting" /\ answer.sent = Session
  /\ answer.to \notin Paths \cup {"other"} => answer.csrf.for = answer.sent
  /\ answer.session \in Tokens \cup {None, Keep}
  /\ answer.session # Keep => answer.sent \notin sessions'

Handled(t) ==
  /\ tab[t].at # "waiting" /\ UNCHANGED <<jar, secret, tlsVars>>
  /\ tab' = [u \in Tabs |-> tab'[u]]
  /\ \A u \in Tabs \ {t} : tab'[u] = tab[u]
  /\ tab'[t] = tab[t] \/ Sound(tab'[t])
  /\ sessions' \subseteq sessions \cup (Tokens \ InUse)

LEMMA CsrfTokenFor == CsrfToken.for = Session
BY DEF CsrfToken, NewToken, Good, Identifier

LEMMA SessionInUse == Session = None \/ Session \in InUse
<1>1. Prefix \in {"", "__Host-"} BY DEF Prefix
<1>2. <<Prefix, "session">> \in Names /\ <<Prefix, "session">>[2] = "session"
  BY <1>1 DEF Names
<1>3. Session # None => jar[<<Prefix, "session">>] # None /\ Session = jar[<<Prefix, "session">>].value
  BY DEF Session, Sent
<1>4. Session # None => Session \in InJar("session")
  BY <1>2, <1>3 DEF InJar
<1> QED BY <1>4 DEF InUse

(* The answers that leave the session cookie alone *)
LEMMA KeepsSound ==
  ASSUME NEW k \in Kinds, NEW p \in Paths
  PROVE  Sound(Render(k)) /\ Sound(Redirect(p)) /\ Sound(Refusal)
BY CsrfTokenFor, Zenon DEF Sound, Render, Redirect, Refusal, Answer, Kinds, Paths

LEMMA RepliesHandled ==
  ASSUME TabInv, NEW t \in Tabs, NEW answer, Sound(answer), Responds(t, answer),
         tab[t].at # "waiting", UNCHANGED <<jar, secret, tlsVars>>,
         sessions' \subseteq sessions \cup (Tokens \ InUse)
  PROVE  Handled(t)
BY DEF TabInv, Handled, Responds, Replies

(* The answers that clear it: a request turned away, a form refused *)
LEMMA ClearsSound ==
  ASSUME UNCHANGED sessions
  PROVE  /\ ~HasValidSession => Sound(TurnedAway)
         /\ Sound(BadToken)
<1>1. "/login" \in Paths BY DEF Paths
<1> QED BY <1>1 DEF Sound, TurnedAway, BadToken, Answer, HasValidSession

LEMMA GetHandled == ASSUME TabInv, NEW t \in Tabs, Get(t) PROVE Handled(t)
<1>1. /\ \A k \in Kinds : Sound(Render(k))
      /\ \A p \in Paths : Sound(Redirect(p))
      /\ Sound(Refusal)
  BY KeepsSound DEF Paths, Kinds
<1>2. ASSUME NEW p, Asks(t, p) PROVE tab[t].at # "waiting"
  BY <1>2 DEF Asks
<1>3. ASSUME NEW answer, Sound(answer), Replies(t, answer), Same, tab[t].at # "waiting"
      PROVE  Handled(t)
  BY <1>3, RepliesHandled DEF Same, Responds
<1>4. CASE GetRoot(t)
  <2>1. PICK p \in Paths : Replies(t, Redirect(p)) BY <1>4 DEF GetRoot, Paths
  <2> QED BY <1>1, <1>2, <1>3, <1>4, <2>1 DEF GetRoot
<1>5. CASE GetSetup(t)
  <2>1. PICK a \in {Refusal, Render("setup")} : Replies(t, a) BY <1>5 DEF GetSetup
  <2>2. Sound(a) BY <1>1, <2>1 DEF Kinds
  <2> QED BY <1>2, <1>3, <1>5, <2>1, <2>2 DEF GetSetup
<1>6. CASE GetLogin(t)
  <2>1. PICK a \in {Redirect("/setup"), Redirect("/dashboard"), Render("login"), Refusal} :
          Replies(t, a)
    BY <1>6 DEF GetLogin
  <2>2. Sound(a) BY <1>1, <2>1 DEF Kinds, Paths
  <2> QED BY <1>2, <1>3, <1>6, <2>1, <2>2 DEF GetLogin
<1>7. CASE GetDashboard(t)
  <2>1. UNCHANGED sessions BY <1>7 DEF GetDashboard, Same
  <2>2. Sound(Render("dashboard")) BY <1>1 DEF Kinds
  <2>3. CASE HasValidSession BY <1>2, <1>3, <1>7, <2>2, <2>3 DEF GetDashboard
  <2>4. CASE ~HasValidSession BY <1>2, <1>3, <1>7, <2>1, <2>4, ClearsSound DEF GetDashboard
  <2> QED BY <2>3, <2>4
<1>8. CASE GetRecover(t)
  <2>1. Sound(Render("recover")) BY <1>1 DEF Kinds
  <2> QED BY <1>2, <1>3, <1>8, <2>1 DEF GetRecover
<1> QED BY <1>4, <1>5, <1>6, <1>7, <1>8 DEF Get

(* A form that is answered without a change of the sessions *)
LEMMA AnsweredHandled ==
  ASSUME TabInv, NEW t \in Tabs, OnPage(t), NEW answer, Sound(answer), Responds(t, answer),
         UNCHANGED <<sessions, jar, secret, tlsVars>>
  PROVE  Handled(t)
<1>1. tab[t].at # "waiting" BY DEF OnPage
<1> QED BY <1>1, RepliesHandled

(* A new session token is one that no request under way has carried *)
LEMMA LoginHandled == ASSUME TabInv, NEW t \in Tabs, PostLogin(t) PROVE Handled(t)
<1>1. /\ Sound(Redirect("/setup")) /\ Sound(Redirect("/dashboard"))
      /\ Sound(Render("login")) /\ Sound(Refusal)
  BY KeepsSound DEF Paths, Kinds
<1>2. OnPage(t) BY DEF PostLogin, Submits
<1>3. CASE Same /\ Responds(t, Redirect("/setup")) BY <1>1, <1>2, <1>3, AnsweredHandled DEF Same
<1>4. CASE Same /\ Responds(t, Redirect("/dashboard"))
  BY <1>1, <1>2, <1>4, AnsweredHandled DEF Same
<1>5. CASE Same /\ Responds(t, Render("login")) BY <1>1, <1>2, <1>5, AnsweredHandled DEF Same
<1>6. CASE Same /\ Responds(t, Refusal) BY <1>1, <1>2, <1>6, AnsweredHandled DEF Same
<1>7. ASSUME NEW s \in Tokens \ InUse, ~HasValidSession, sessions' = sessions \cup {s},
             Responds(t, Answer(s, Keep, "/dashboard")), UNCHANGED <<jar, secret, tlsVars>>
      PROVE  Handled(t)
  <2>1. Session # s /\ Session \notin sessions
    BY <1>7, SessionInUse, WebAssumption DEF HasValidSession
  <2>2. Sound(Answer(s, Keep, "/dashboard"))
    BY <1>7, <2>1 DEF Sound, Answer, Paths
  <2> QED BY <1>2, <1>7, <2>2, RepliesHandled DEF OnPage
<1> QED BY <1>3, <1>4, <1>5, <1>6, <1>7 DEF PostLogin

LEMMA LogoutHandled == ASSUME TabInv, NEW t \in Tabs, PostLogout(t) PROVE Handled(t)
<1>1. OnPage(t) BY DEF PostLogout, Submits
<1>2. CASE ~HasValidSession /\ Responds(t, TurnedAway) /\ Same
  BY <1>1, <1>2, ClearsSound, AnsweredHandled DEF Same
<1>3. CASE /\ sessions' = sessions \ {Session} /\ Responds(t, Answer(None, Keep, "/login"))
           /\ UNCHANGED <<admin, secret, jar, tlsVars>>
  <2>1. Sound(Answer(None, Keep, "/login")) BY <1>3 DEF Sound, Answer, Paths
  <2> QED BY <1>1, <1>3, <2>1, RepliesHandled DEF OnPage
<1> QED BY <1>2, <1>3 DEF PostLogout

(* A recovery ends every session, and so none that it answers about *)
LEMMA RecoverHandled == ASSUME TabInv, NEW t \in Tabs, PostRecover(t) PROVE Handled(t)
<1>1. OnPage(t) BY DEF PostRecover, Submits
<1>2. Sound(Render("recover")) /\ Sound(Redirect("/login")) BY KeepsSound DEF Paths, Kinds
<1>3. CASE Responds(t, Render("recover")) /\ Same BY <1>1, <1>2, <1>3, AnsweredHandled DEF Same
<1>4. CASE sessions' = {} /\ Responds(t, Redirect("/login")) /\ UNCHANGED <<secret, jar, tlsVars>>
  BY <1>1, <1>2, <1>4, RepliesHandled DEF OnPage
<1> QED BY <1>3, <1>4 DEF PostRecover

LEMMA PostHandled == ASSUME TabInv, NEW t \in Tabs, Post(t) PROVE Handled(t)
<1>1. /\ Sound(Render("setup")) /\ Sound(Render("recover")) /\ Sound(Render("dashboard"))
      /\ Sound(Redirect("/login")) /\ Sound(Redirect("/dashboard")) /\ Sound(Refusal)
  BY KeepsSound DEF Paths, Kinds
<1>2. CASE RefuseForm(t)
  <2>1. Sound(BadToken) BY <1>2, ClearsSound DEF RefuseForm, Same
  <2> QED BY <1>2, <2>1, AnsweredHandled DEF RefuseForm, Same
<1>3. CASE PostSetup(t)
  BY <1>1, <1>3, AnsweredHandled DEF PostSetup, Submits, Same
<1>4. CASE PostLogin(t) BY <1>4, LoginHandled
<1>5. CASE PostLogout(t) BY <1>5, LogoutHandled
<1>6. CASE PostVault(t)
  <2>1. ~HasValidSession => Sound(TurnedAway) BY <1>6, ClearsSound DEF PostVault, Same
  <2> QED BY <1>1, <1>6, <2>1, AnsweredHandled DEF PostVault, Submits, Same
<1>7. CASE PostGenerate(t)
  BY <1>1, <1>7, AnsweredHandled DEF PostGenerate, Submits, Same
<1>8. CASE PostRecover(t) BY <1>8, RecoverHandled
<1> QED BY <1>2, <1>3, <1>4, <1>5, <1>6, <1>7, <1>8 DEF Post

-----------------------------------------------------------------------------
LEMMA PlainNames == \A k \in {"session", "csrf"} : <<"", k>> \in Names
BY DEF Names

LEMMA WebInitInv == Init => WebInv
<1> SUFFICES ASSUME Init PROVE WebInv OBVIOUS
<1>1. TabInv /\ FormInv BY DEF Init, NoTabs, Blank, TabInv, FormInv
<1>2. SessionInv BY DEF Init, NoTabs, Blank, SessionInv
<1>3. JarInv BY PlainNames DEF Init, NoCookies, JarInv
<1> QED BY <1>1, <1>2, <1>3 DEF WebInv

LEMMA HandledKeepsInv == ASSUME WebInv, NEW t \in Tabs, Handled(t) PROVE WebInv'
<1>1. TabInv' BY DEF WebInv, TabInv, Handled, Sound
<1>2. FormInv' BY DEF WebInv, FormInv, Handled, Sound
<1>3. SessionInv'
  <2>1. sessions' \subseteq Tokens BY DEF WebInv, SessionInv, Handled
  <2>2. ASSUME NEW u \in Tabs \ {t}, tab'[u].at = "waiting"
        PROVE  /\ tab'[u].session \in Tokens \cup {None, Keep}
               /\ tab'[u].session # Keep => tab'[u].sent \notin sessions'
    <3>1. tab'[u] = tab[u] /\ u \in At("waiting") BY <2>2 DEF Handled, At
    <3>2. tab[u].sent \in InUse BY <3>1 DEF InUse
    <3> QED BY <2>2, <3>1, <3>2 DEF WebInv, SessionInv, Handled
  <2>3. ASSUME tab'[t].at = "waiting"
        PROVE  /\ tab'[t].session \in Tokens \cup {None, Keep}
               /\ tab'[t].session # Keep => tab'[t].sent \notin sessions'
    BY <2>3 DEF Handled, Sound
  <2> QED BY <2>1, <2>2, <2>3 DEF SessionInv
<1>4. JarInv' BY DEF WebInv, JarInv, Handled
<1> QED BY <1>1, <1>2, <1>3, <1>4 DEF WebInv

(* Only an answer to a request changes the cookies one by one *)
LEMMA DeliverKeepsInv == ASSUME WebInv, NEW t \in Tabs, Deliver(t) PROVE WebInv'
<1>1. /\ tab[t].at = "waiting" /\ jar' = Stored(tab[t])
      /\ UNCHANGED <<admin, sessions, secret, tlsVars>>
      /\ tab' = [u \in Tabs |-> IF u = t THEN Shown(tab[t], Session')
                                         ELSE Disturbed(tab[u], tab[t])]
  BY DEF Deliver
<1>2. ASSUME NEW u \in Tabs \ {t}
      PROVE  \/ tab'[u] = tab[u]
             \/ tab[u].at = "page" /\ tab'[u] = [tab[u] EXCEPT !.calm = FALSE]
  BY <1>1 DEF Disturbed
<1>3. \/ tab'[t].at \in {"asking", "blank"}
      \/ /\ tab[t].to \notin Paths \cup {"other"}
         /\ tab'[t] = [at |-> "page", kind |-> tab[t].to, token |-> tab[t].csrf,
                       login |-> tab[t].sent, calm |-> tab[t].sent = Session']
  BY <1>1 DEF Shown, Blank
<1>4. TabInv'
  <2>1. tab' = [u \in Tabs |-> tab'[u]] BY <1>1
  <2>2. ASSUME NEW u \in Tabs \ {t}, tab'[u].at = "page"
        PROVE  DOMAIN tab'[u] = {"at", "kind", "token", "login", "calm"}
    BY <1>2, <2>2 DEF WebInv, TabInv
  <2>3. ASSUME tab'[t].at = "page"
        PROVE  DOMAIN tab'[t] = {"at", "kind", "token", "login", "calm"}
    BY <1>3, <2>3
  <2> QED BY <2>1, <2>2, <2>3 DEF TabInv
<1>5. FormInv' BY <1>1, <1>2, <1>3 DEF WebInv, TabInv, FormInv
<1>6. SessionInv'
  <2>1. ASSUME NEW u \in Tabs, tab'[u].at = "waiting" PROVE tab'[u] = tab[u]
    BY <1>1, <1>2, <1>3, <2>1 DEF WebInv, TabInv
  <2> QED BY <1>1, <2>1 DEF WebInv, SessionInv
<1>7. JarInv'
  <2>1. jar' = [n \in Names |-> jar'[n]] BY <1>1 DEF Stored
  <2>2. ASSUME NEW k \in {"session", "csrf"}, jar'[<<"", k>>] # None
        PROVE  jar'[<<"", k>>].secure = FALSE
    <3>1. <<"", k>>[1] = "" BY <2>2
    <3>2. CASE jar'[<<"", k>>] = jar[<<"", k>>] BY <2>2, <3>2 DEF WebInv, JarInv
    <3>3. CASE jar'[<<"", k>>] # jar[<<"", k>>]
      <4> DEFINE n == <<"", k>>
                 v == IF n[1] = Prefix /\ MayStore(n) THEN tab[t][n[2]] ELSE Keep
      <4>1. jar'[n] = CASE v = Keep -> jar[n] [] v = None -> None
                        [] OTHER -> [value |-> v, secure |-> Https]
        BY <1>1, PlainNames, Zenon DEF Stored
      <4>2. v # Keep /\ v # None BY <4>1, <2>2, <3>3
      <4>3. jar'[n] = [value |-> v, secure |-> Https] BY <4>1, <4>2
      <4>4. Prefix = "" BY <3>1, <4>2
      <4>5. Https = FALSE BY <4>4 DEF Prefix, Https
      <4>6. [value |-> v, secure |-> Https].secure = Https OBVIOUS
      <4>7. jar'[n].secure = Https BY <4>3, <4>6, Zenon
      <4> QED BY <4>5, <4>7, Zenon
    <3> QED BY <3>2, <3>3
  <2> QED BY <2>1, <2>2 DEF JarInv
<1> QED BY <1>4, <1>5, <1>6, <1>7 DEF WebInv

(* What else happens in the browser and to the process *)
LEMMA LoseKeepsInv == ASSUME WebInv, NEW t \in Tabs, Lose(t) PROVE WebInv'
<1>1. tab' = [tab EXCEPT ![t] = [at |-> "blank"]] /\ UNCHANGED <<sessions, jar>>
  BY DEF Lose, Replies, Same, Blank
<1>2. TabInv' /\ FormInv' BY <1>1 DEF WebInv, TabInv, FormInv
<1>3. SessionInv' BY <1>1 DEF WebInv, TabInv, SessionInv
<1>4. JarInv' BY <1>1 DEF WebInv, JarInv
<1> QED BY <1>2, <1>3, <1>4 DEF WebInv

LEMMA BrowserKeepsInv == ASSUME WebInv, CloseBrowser PROVE WebInv'
<1>1. tab' = [t \in Tabs |-> [at |-> "blank"]] /\ UNCHANGED sessions
        /\ jar' = [n \in Names |-> None]
  BY DEF CloseBrowser, NoTabs, NoCookies, Blank
<1>2. TabInv' /\ FormInv' BY <1>1 DEF TabInv, FormInv
<1>3. SessionInv' BY <1>1 DEF WebInv, SessionInv
<1>4. JarInv' BY <1>1, PlainNames DEF JarInv
<1> QED BY <1>2, <1>3, <1>4 DEF WebInv

LEMMA ExpireKeepsInv == ASSUME WebInv, NEW s \in Tokens, ExpireSession(s) PROVE WebInv'
<1>1. sessions' \subseteq sessions /\ UNCHANGED <<jar, tab>> BY DEF ExpireSession
<1>2. TabInv' /\ FormInv' BY <1>1 DEF WebInv, TabInv, FormInv
<1>3. SessionInv' BY <1>1 DEF WebInv, SessionInv
<1>4. JarInv' BY <1>1 DEF WebInv, JarInv
<1> QED BY <1>2, <1>3, <1>4 DEF WebInv

LEMMA StopKeepsInv == ASSUME WebInv, StopUI PROVE WebInv'
<1>1. UNCHANGED <<sessions, jar>> /\ tab' = [t \in Tabs |-> tab'[t]]
        /\ \A t \in Tabs : tab'[t].at = "blank" \/ (tab[t].at = "page" /\ tab'[t] = tab[t])
  <2>1. tab' = [t \in Tabs |-> IF Https' = Https /\ tab[t].at = "page" THEN tab[t]
                                ELSE [at |-> "blank"]]
    BY Zenon DEF StopUI, Blank
  <2>2. UNCHANGED <<sessions, jar>> BY DEF StopUI
  <2> QED BY <2>1, <2>2
<1>2. TabInv' /\ FormInv' BY <1>1 DEF WebInv, TabInv, FormInv
<1>3. SessionInv' BY <1>1 DEF WebInv, SessionInv
<1>4. JarInv' BY <1>1 DEF WebInv, JarInv
<1> QED BY <1>2, <1>3, <1>4 DEF WebInv

LEMMA StillKeepsInv == ASSUME WebInv, UNCHANGED <<sessions, jar, tab>> PROVE WebInv'
BY DEF WebInv, TabInv, FormInv, SessionInv, JarInv

LEMMA WebNextKeepsInv == WebInv /\ [Next]_vars => WebInv'
<1> SUFFICES ASSUME WebInv, [Next]_vars PROVE WebInv' OBVIOUS
<1>1. ASSUME NEW t \in Tabs, Get(t) \/ Post(t) PROVE WebInv'
  BY <1>1, GetHandled, PostHandled, HandledKeepsInv DEF WebInv
<1>2. ASSUME NEW t \in Tabs, Deliver(t) PROVE WebInv' BY <1>2, DeliverKeepsInv
<1>3. ASSUME NEW t \in Tabs, Lose(t) PROVE WebInv' BY <1>3, LoseKeepsInv
<1>4. ASSUME NEW s \in Tokens, ExpireSession(s) PROVE WebInv' BY <1>4, ExpireKeepsInv
<1>5. CASE CloseBrowser BY <1>5, BrowserKeepsInv
<1>6. CASE StopUI BY <1>6, StopKeepsInv
<1>7. CASE StartUI \/ StepTls \/ UNCHANGED vars
  BY <1>7, StillKeepsInv DEF StartUI, StepTls, vars, webVars
<1> QED BY <1>1, <1>2, <1>3, <1>4, <1>5, <1>6, <1>7 DEF Next

LEMMA WebInvariance == Spec => []WebInv
BY WebInitInv, WebNextKeepsInv, PTL DEF Spec

-----------------------------------------------------------------------------
(* The UI with its browser starts, stops and serves as Tls says: no request *)
(* touches the files, index.js 490-497.                                     *)
THEOREM WebImplementsTls == Spec => TlsSpec
<1>1. Init => TlsInit BY DEF Init
<1>2. ASSUME [Next]_vars PROVE [TlsNext]_tlsVars
  <2>1. ASSUME NEW t \in Tabs, Get(t) PROVE UNCHANGED tlsVars
    BY <2>1 DEF Get, GetRoot, GetSetup, GetLogin, GetDashboard, GetRecover, Same
  <2>2. ASSUME NEW t \in Tabs, Post(t) PROVE UNCHANGED tlsVars
    BY <2>2 DEF Post, RefuseForm, PostSetup, PostLogin, PostLogout, PostVault, PostGenerate,
                PostRecover, Same
  <2>3. ASSUME NEW t \in Tabs, Deliver(t) \/ Lose(t) PROVE UNCHANGED tlsVars
    BY <2>3 DEF Deliver, Lose, Same
  <2>4. ASSUME NEW s \in Tokens, ExpireSession(s) PROVE UNCHANGED tlsVars
    BY <2>4 DEF ExpireSession
  <2>5. CASE CloseBrowser BY <2>5 DEF CloseBrowser
  <2>6. CASE StartUI \/ StopUI \/ StepTls
    BY <2>6 DEF StartUI, StopUI, StepTls, TlsNext
  <2>7. CASE UNCHANGED vars BY <2>7 DEF vars
  <2> QED BY <1>2, <2>1, <2>2, <2>3, <2>4, <2>5, <2>6, <2>7 DEF Next
<1> QED BY <1>1, <1>2, PTL DEF Spec, TlsSpec

(* Hence the certificate and key of one pair, with a browser around *)
THEOREM WebOwnPairMatches == Spec => []OwnPairMatches
BY WebImplementsTls, OwnPairAlwaysMatches, PTL

(* A form is accepted only in the login its page was rendered for: the      *)
(* double-submit tokens of csrf.js, bound to the session cookie.            *)
THEOREM FormsAlwaysStay == Spec => []FormsStayInTheirLogin
<1>1. WebInv => FormsStayInTheirLogin
  BY DEF WebInv, FormInv, FormsStayInTheirLogin, OnPage, Accepted, Good, Identifier
<1> QED BY <1>1, WebInvariance, PTL

-----------------------------------------------------------------------------
(* An answer comes by being delivered, and in no other way *)
LEMMA ComesDelivered ==
  ASSUME WebInv, [Next]_vars, NEW t \in Tabs, Comes(t) PROVE Deliver(t)
<1>1. tab[t].at = "waiting" /\ tab'[t].at \in {"asking", "page"} BY DEF Comes
<1>2. ASSUME NEW u \in Tabs, Get(u) \/ Post(u) PROVE Deliver(t)
  <2>1. Handled(u) BY <1>2, GetHandled, PostHandled DEF WebInv
  <2> QED BY <1>1, <2>1 DEF Handled
<1>3. ASSUME NEW u \in Tabs, Deliver(u) PROVE Deliver(t)
  <2>1. CASE u # t
    <3>1. tab'[t] = tab[t] BY <1>1, <1>3, <2>1 DEF Deliver, Disturbed
    <3> QED BY <1>1, <3>1
  <2> QED BY <1>3, <2>1
<1>4. ASSUME NEW u \in Tabs, Lose(u) PROVE Deliver(t)
  BY <1>1, <1>4 DEF Lose, Replies, Blank, WebInv, TabInv
<1>5. CASE CloseBrowser BY <1>1, <1>5 DEF CloseBrowser, NoTabs, Blank
<1>6. CASE StopUI
  <2>1. tab'[t].at = "blank" BY <1>1, <1>6 DEF StopUI, Blank
  <2> QED BY <1>1, <2>1
<1>7. CASE UNCHANGED tab BY <1>1, <1>7
<1> QED BY <1>2, <1>3, <1>4, <1>5, <1>6, <1>7
        DEF Next, ExpireSession, StartUI, StepTls, vars, webVars

(* What an answer does to the session cookie of its scheme *)
LEMMA SessionStored ==
  ASSUME WebInv, NEW t \in Tabs, Deliver(t)
  PROVE  /\ tab[t].session = Keep => Session' = Session
         /\ tab[t].session \in Tokens => Session' = tab[t].session
<1> DEFINE n == <<Prefix, "session">>
           v == IF n[1] = Prefix /\ MayStore(n) THEN tab[t][n[2]] ELSE Keep
<1>1. Prefix \in {"", "__Host-"} /\ (Prefix = "" <=> ~Https) BY DEF Prefix
<1>2. n \in Names /\ n[1] = Prefix /\ n[2] = "session" BY <1>1 DEF Names
<1>3. Https' = Https /\ Prefix' = Prefix BY DEF Deliver, tlsVars, Https, Prefix
<1>4. jar'[n] = CASE v = Keep -> jar[n] [] v = None -> None
                  [] OTHER -> [value |-> v, secure |-> Https]
  BY <1>2, Zenon DEF Deliver, Stored
<1>5. MayStore(n)
  <2>1. CASE Https BY <2>1 DEF MayStore
  <2>2. CASE ~Https
    <3>1. n = <<"", "session">> BY <1>1, <2>2
    <3> QED BY <3>1 DEF MayStore, WebInv, JarInv
  <2> QED BY <2>1, <2>2
<1>6. v = tab[t].session BY <1>2, <1>5
<1>7. ASSUME tab[t].session = Keep PROVE Session' = Session
  <2>1. jar'[n] = jar[n] BY <1>4, <1>6, <1>7, WebAssumption
  <2> QED BY <1>3, <2>1 DEF Session, Sent
<1>8. ASSUME tab[t].session \in Tokens PROVE Session' = tab[t].session
  <2>1. v # Keep /\ v # None BY <1>6, <1>8, WebAssumption
  <2>2. jar'[n] = [value |-> v, secure |-> Https] BY <1>4, <2>1
  <2>3. Https \in BOOLEAN BY DEF Https
  <2>4. [value |-> v, secure |-> Https] \in Cookies BY <1>6, <1>8, <2>3 DEF Cookies
  <2>5. jar'[n] # None BY <2>2, <2>4, CookiesAssumption
  <2>6. [value |-> v, secure |-> Https].value = v /\ [value |-> v, secure |-> Https].secure = Https
    OBVIOUS
  <2>7. jar'[n].value = v /\ jar'[n].secure = Https BY <2>2, <2>6, Zenon
  <2> QED BY <1>3, <1>6, <2>5, <2>7 DEF Session, Sent
<1> QED BY <1>7, <1>8

(* The session of a login is in the next request of the browser, whatever   *)
(* cookies it has from the other scheme: COOKIE_PREFIX of auth.js.          *)
THEOREM LoginsReach == Spec => LoginReaches
<1>1. ASSUME WebInv, [Next]_vars
      PROVE  \A t \in Tabs : Comes(t) /\ tab[t].session \in Tokens => Session' = tab[t].session
  BY <1>1, ComesDelivered, SessionStored
<1> QED BY <1>1, WebInvariance, PTL DEF Spec, LoginReaches

(* No answer takes the cookie of a live session from a browser whose        *)
(* request carried it: requireAuth, and the handler of EBADCSRFTOKEN.       *)
THEOREM LoginsKept == Spec => LoginKept
<1>1. ASSUME WebInv, [Next]_vars
      PROVE  \A t \in Tabs :
               Comes(t) /\ tab[t].sent = Session /\ HasValidSession => Session' = Session
  <2> SUFFICES ASSUME NEW t \in Tabs, Comes(t), tab[t].sent = Session, HasValidSession
               PROVE  Session' = Session
    OBVIOUS
  <2>1. Deliver(t) BY <1>1, ComesDelivered
  <2>2. tab[t].session = Keep
    BY <1>1 DEF Comes, WebInv, SessionInv, HasValidSession
  <2> QED BY <1>1, <2>1, <2>2, SessionStored
<1> QED BY <1>1, WebInvariance, PTL DEF Spec, LoginKept

-----------------------------------------------------------------------------
(* What the answers, the pages and the cookies are, and that the secret of  *)
(* the tokens is there before the first request and stays.                  *)
Prefixes == {"", "__Host-"}

ShapeInv ==
  /\ admin \in BOOLEAN /\ secret \in Secrets \cup {0}
  /\ jar \in [Names -> Cookies \cup {None}]
  /\ \A p \in Prefixes :
       /\ jar[<<p, "session">>] # None => jar[<<p, "session">>].value \in Tokens
       /\ jar[<<p, "csrf">>] # None => jar[<<p, "csrf">>].value \in Csrfs
  /\ tab \in [Tabs -> Asking \cup Waiting \cup Pages \cup {Blank}]
  /\ step # "down" => secret # 0

ForPage(answer) == answer.at = "waiting" /\ answer.to \notin Paths \cup {"other"}

(* Of a page that no other answer has disturbed, the token is still the one *)
(* of the cookie, and the session the one it was asked with.                *)
CalmInv ==
  \A t \in Tabs :
    /\ ForPage(tab[t]) => tab[t].csrf \in Csrfs /\ tab[t].csrf.secret = secret
    /\ tab[t].at = "page" /\ tab[t].calm =>
         tab[t].token = Csrf /\ tab[t].token.for = Session /\ tab[t].token.secret = secret

FreshInv == WebInv /\ ShapeInv /\ CalmInv

LEMMA NameCases ==
  ASSUME NEW n \in Names
  PROVE  n[1] \in Prefixes /\ n[2] \in {"session", "csrf"} /\ n = <<n[1], n[2]>>
<1>1. ASSUME NEW A, NEW B, NEW x \in A \X B PROVE x[1] \in A /\ x[2] \in B /\ x = <<x[1], x[2]>>
  OBVIOUS
<1> QED BY <1>1 DEF Names, Prefixes

(* Every token that is somewhere is in one of the two cookies or one of the *)
(* tabs, so that there is always another one.                               *)
LEMMA AnotherId == \E i \in 1..MaxIds : i \notin UsedIds
<1> DEFINE ofTab  == [t \in Tabs |-> IF tab[t].at = "waiting" THEN tab[t].csrf.id ELSE tab[t].token.id]
           ids    == {ofTab[t] : t \in Tabs}
           first  == jar[<<"", "csrf">>].value.id
           second == jar[<<"__Host-", "csrf">>].value.id
           all    == (ids \cup {first}) \cup {second}
<1>1. IsFiniteSet(Tabs) /\ Cardinality(Tabs) \in Nat
  BY WebAssumption, FS_CardinalityType
<1>2. IsFiniteSet(ids) /\ Cardinality(ids) <= Cardinality(Tabs) /\ Cardinality(ids) \in Nat
  <2>1. ofTab \in Surjection(Tabs, ids) BY DEF Surjection
  <2> HIDE DEF ofTab, ids
  <2>2. IsFiniteSet(ids) /\ Cardinality(ids) <= Cardinality(Tabs) BY <1>1, <2>1, FS_Surjection
  <2> QED BY <2>2, FS_CardinalityType
<1>3. UsedIds \subseteq all
  <2> SUFFICES ASSUME NEW c \in Held PROVE c.id \in all BY DEF UsedIds
  <2>1. CASE c \in InJar("csrf")
    <3>1. PICK n \in Names : n[2] = "csrf" /\ c = jar[n].value BY <2>1 DEF InJar
    <3>2. n = <<"", "csrf">> \/ n = <<"__Host-", "csrf">> BY <3>1, NameCases DEF Prefixes
    <3> QED BY <3>1, <3>2
  <2>2. CASE c \in {tab[t].csrf : t \in At("waiting")}
    <3>1. PICK t \in Tabs : tab[t].at = "waiting" /\ c = tab[t].csrf BY <2>2 DEF At
    <3>2. c.id = ofTab[t] BY <3>1
    <3> QED BY <3>2
  <2>3. CASE c \in {tab[t].token : t \in At("page")}
    <3>1. PICK t \in Tabs : tab[t].at = "page" /\ c = tab[t].token BY <2>3 DEF At
    <3>2. c.id = ofTab[t] BY <3>1
    <3> QED BY <3>2
  <2> QED BY <2>1, <2>2, <2>3 DEF Held
<1> HIDE DEF ids, first, second
<1>4. IsFiniteSet(all) /\ Cardinality(all) \in Nat /\ Cardinality(all) <= Cardinality(Tabs) + 2
  <2>1. IsFiniteSet(ids \cup {first}) /\ Cardinality(ids \cup {first}) <= Cardinality(ids) + 1
          /\ Cardinality(ids \cup {first}) \in Nat
    <3>1. IsFiniteSet(ids \cup {first}) BY <1>2, FS_AddElement
    <3>2. Cardinality(ids \cup {first}) = IF first \in ids THEN Cardinality(ids) ELSE Cardinality(ids) + 1
      BY <1>2, FS_AddElement, Zenon
    <3>3. Cardinality(ids \cup {first}) \in Nat BY <3>1, FS_CardinalityType, Zenon
    <3> QED BY <1>2, <3>1, <3>2, <3>3
  <2>2. IsFiniteSet(all) /\ Cardinality(all) <= Cardinality(ids \cup {first}) + 1
          /\ Cardinality(all) \in Nat
    <3> DEFINE some == ids \cup {first}
    <3> HIDE DEF some
    <3>1. IsFiniteSet(some \cup {second}) BY <2>1, FS_AddElement DEF some
    <3>2. Cardinality(some \cup {second}) = IF second \in some THEN Cardinality(some) ELSE Cardinality(some) + 1
      BY <2>1, FS_AddElement, Zenon DEF some
    <3>3. Cardinality(some \cup {second}) \in Nat BY <3>1, FS_CardinalityType, Zenon
    <3> QED BY <2>1, <3>1, <3>2, <3>3 DEF some
  <2> QED BY <1>1, <1>2, <2>1, <2>2
<1> HIDE DEF all
<1>5. Cardinality(1..MaxIds) = Cardinality(Tabs) + 3
  <2>1. MaxIds \in Nat /\ MaxIds = Cardinality(Tabs) + 3 BY <1>1 DEF MaxIds
  <2>2. Cardinality(1..MaxIds) = IF 1 > MaxIds THEN 0 ELSE MaxIds - 1 + 1
    <3>1. 1 \in Int /\ MaxIds \in Int BY <2>1
    <3> QED BY <3>1, FS_Interval, Zenon
  <2> QED BY <1>1, <2>1, <2>2
<1>6. ~(1..MaxIds \subseteq all)
  <2> SUFFICES ASSUME 1..MaxIds \subseteq all PROVE FALSE OBVIOUS
  <2>1. Cardinality(1..MaxIds) <= Cardinality(all) BY <1>4, FS_Subset
  <2> QED BY <1>1, <1>4, <1>5, <2>1
<1> QED BY <1>3, <1>6

LEMMA CookiesSent ==
  ASSUME ShapeInv
  PROVE  /\ Session \in Tokens \cup {None} /\ Csrf \in Csrfs \cup {None}
         /\ None \notin Csrfs
<1>1. Prefix \in Prefixes BY DEF Prefix, Prefixes
<1>2. None \notin Csrfs BY CookiesAssumption
<1>3. Session \in Tokens \cup {None} BY <1>1 DEF ShapeInv, Session, Sent
<1>4. Csrf \in Csrfs \cup {None} BY <1>1 DEF ShapeInv, Csrf, Sent
<1> QED BY <1>2, <1>3, <1>4

LEMMA CsrfTokenTyped ==
  ASSUME ShapeInv, Serving
  PROVE  CsrfToken \in Csrfs /\ CsrfToken.secret = secret
<1>1. CASE Good(Csrf)
  <2>1. CsrfToken = Csrf BY <1>1 DEF CsrfToken
  <2> QED BY <1>1, <2>1, CookiesSent DEF Good
<1>2. CASE ~Good(Csrf)
  <2>1. CsrfToken = NewToken BY <1>2 DEF CsrfToken
  <2>2. (CHOOSE i \in 1..MaxIds : i \notin UsedIds) \in 1..MaxIds BY AnotherId
  <2>3. secret \in Secrets BY DEF ShapeInv, Serving
  <2>4. Identifier \in Tokens \cup {None} BY CookiesSent DEF Identifier
  <2> QED BY <2>1, <2>2, <2>3, <2>4 DEF NewToken, Csrfs
<1> QED BY <1>1, <1>2

Typed(answer) ==
  /\ answer \in Waiting
  /\ ForPage(answer) => answer.csrf \in Csrfs /\ answer.csrf.secret = secret

LEMMA AnswersTyped ==
  ASSUME ShapeInv, Serving
  PROVE  /\ \A k \in Kinds : Typed(Render(k))
         /\ \A p \in Paths : Typed(Redirect(p))
         /\ \A p \in Paths, s \in Tokens \cup {None} : Typed(Answer(s, Keep, p))
         /\ Typed(Refusal) /\ Typed(TurnedAway) /\ Typed(BadToken)
<1>1. Session \in Tokens \cup {None} BY CookiesSent
<1>2. ASSUME NEW s \in Tokens \cup {None, Keep}, NEW c \in {None, Keep}, NEW p \in Paths \cup {"other"}
      PROVE  Typed(Answer(s, c, p))
  BY <1>1 DEF Typed, Answer, Waiting, ForPage, Kinds
<1>3. ASSUME NEW k \in Kinds PROVE Typed(Render(k))
  <2>1. Render(k).csrf \in Csrfs /\ Render(k).csrf.secret = secret
    BY CsrfTokenTyped DEF Render, Answer
  <2>2. Render(k) \in Waiting BY <1>1, <2>1 DEF Render, Answer, Waiting
  <2> QED BY <2>1, <2>2 DEF Typed
<1>4. \A p \in Paths : Typed(Redirect(p)) BY <1>2 DEF Redirect
<1>5. Typed(Refusal) BY <1>2 DEF Refusal
<1>6. Typed(TurnedAway) /\ Typed(BadToken) BY <1>2 DEF TurnedAway, BadToken, Paths
<1> QED BY <1>2, <1>3, <1>4, <1>5, <1>6

Answered(t) == admin' \in BOOLEAN /\ (tab'[t] = tab[t] \/ Typed(tab'[t]))

LEMMA HandlersAnswer ==
  ASSUME WebInv, ShapeInv, NEW t \in Tabs, Get(t) \/ Post(t)
  PROVE  Answered(t)
<1>1. Serving
  BY DEF Get, GetRoot, GetSetup, GetLogin, GetDashboard, GetRecover, Asks, Post, RefuseForm, PostSetup,
         PostLogin, PostLogout, PostVault, PostGenerate, PostRecover, Submits, OnPage
<1>2. /\ \A k \in Kinds : Typed(Render(k))
      /\ \A p \in Paths : Typed(Redirect(p))
      /\ \A p \in Paths, s \in Tokens \cup {None} : Typed(Answer(s, Keep, p))
      /\ Typed(Refusal) /\ Typed(TurnedAway) /\ Typed(BadToken)
  BY <1>1, AnswersTyped
<1>3. ASSUME NEW a, Typed(a), Responds(t, a) PROVE tab'[t] = tab[t] \/ Typed(tab'[t])
  <2>1. CASE UNCHANGED tab BY <2>1
  <2>2. CASE Replies(t, a)
    <3>1. tab'[t] = a BY <2>2 DEF Replies, WebInv, TabInv
    <3> QED BY <1>3, <3>1
  <2> QED BY <1>3, <2>1, <2>2 DEF Responds
<1>4. admin \in BOOLEAN BY DEF ShapeInv
<1>5. CASE Get(t)
  <2>1. admin' = admin
    BY <1>5 DEF Get, GetRoot, GetSetup, GetLogin, GetDashboard, GetRecover, Same
  <2>2. PICK a : Replies(t, a) /\ Typed(a)
    <3> USE <1>2 DEF Kinds, Paths
    <3>1. CASE GetRoot(t) BY <3>1 DEF GetRoot
    <3>2. CASE GetSetup(t) BY <3>2 DEF GetSetup
    <3>3. CASE GetLogin(t) BY <3>3 DEF GetLogin
    <3>4. CASE GetDashboard(t) BY <3>4 DEF GetDashboard
    <3>5. CASE GetRecover(t) BY <3>5 DEF GetRecover
    <3> QED BY <1>5, <3>1, <3>2, <3>3, <3>4, <3>5 DEF Get
  <2> QED BY <1>3, <1>4, <2>1, <2>2 DEF Answered, Responds
<1>6. CASE Post(t)
  <2>1. admin' \in BOOLEAN
    BY <1>4, <1>6 DEF Post, RefuseForm, PostSetup, PostLogin, PostLogout, PostVault, PostGenerate,
                      PostRecover, Same
  <2>2. PICK a : Responds(t, a) /\ Typed(a)
    <3> USE <1>2 DEF Kinds, Paths
    <3>1. CASE RefuseForm(t) BY <3>1 DEF RefuseForm
    <3>2. CASE PostSetup(t) BY <3>2 DEF PostSetup
    <3>3. CASE PostLogin(t) BY <3>3 DEF PostLogin
    <3>4. CASE PostLogout(t) BY <3>4 DEF PostLogout
    <3>5. CASE PostVault(t) BY <3>5 DEF PostVault
    <3>6. CASE PostGenerate(t) BY <3>6 DEF PostGenerate
    <3>7. CASE PostRecover(t) BY <3>7 DEF PostRecover
    <3> QED BY <1>6, <3>1, <3>2, <3>3, <3>4, <3>5, <3>6, <3>7 DEF Post
  <2> QED BY <1>3, <2>1, <2>2 DEF Answered
<1> QED BY <1>5, <1>6

(* What a request leaves alone stays fresh; its own tab waits *)
LEMMA HandledKeepsFresh ==
  ASSUME WebInv, ShapeInv, CalmInv, NEW t \in Tabs, Handled(t), Answered(t)
  PROVE  ShapeInv' /\ CalmInv'
<1>1. /\ jar' = jar /\ secret' = secret /\ UNCHANGED tlsVars
      /\ tab' = [u \in Tabs |-> tab'[u]] /\ \A u \in Tabs \ {t} : tab'[u] = tab[u]
  BY DEF Handled
<1>2. step' = step /\ Https' = Https /\ Session' = Session /\ Csrf' = Csrf
  BY <1>1 DEF tlsVars, Https, Session, Csrf, Sent, Prefix
<1>3. ShapeInv'
  <2>1. tab' \in [Tabs -> Asking \cup Waiting \cup Pages \cup {Blank}]
    BY <1>1 DEF ShapeInv, Answered, Typed
  <2> QED BY <1>1, <1>2, <2>1 DEF ShapeInv, Answered
<1>4. CalmInv'
  <2> SUFFICES ASSUME NEW u \in Tabs
               PROVE  /\ ForPage(tab'[u]) => tab'[u].csrf \in Csrfs /\ tab'[u].csrf.secret = secret
                      /\ tab'[u].at = "page" /\ tab'[u].calm =>
                           tab'[u].token = Csrf /\ tab'[u].token.for = Session /\ tab'[u].token.secret = secret
    BY <1>1, <1>2 DEF CalmInv, ForPage
  <2>1. CASE tab'[u] = tab[u] BY <2>1 DEF CalmInv
  <2>2. CASE u = t /\ Typed(tab'[t])
    <3>1. tab'[u].at = "waiting" BY <2>2 DEF Typed, Waiting
    <3> QED BY <2>2, <3>1 DEF Typed
  <2> QED BY <1>1, <2>1, <2>2 DEF Answered
<1> QED BY <1>3, <1>4

(* The cookies that an answer brings are stored under the names of the      *)
(* scheme, each in its own.                                                 *)
LEMMA CookiesStored ==
  ASSUME WebInv, ShapeInv, NEW t \in Tabs, Deliver(t)
  PROVE  /\ jar' \in [Names -> Cookies \cup {None}]
         /\ \A p \in Prefixes :
              /\ jar'[<<p, "session">>] # None => jar'[<<p, "session">>].value \in Tokens
              /\ jar'[<<p, "csrf">>] # None => jar'[<<p, "csrf">>].value \in Csrfs
         /\ tab[t].csrf = Keep => Csrf' = Csrf
         /\ tab[t].csrf \in Csrfs => Csrf' = tab[t].csrf
<1> DEFINE v(n) == IF n[1] = Prefix /\ MayStore(n) THEN tab[t][n[2]] ELSE Keep
<1>1. jar' = Stored(tab[t]) /\ tab[t].at = "waiting" BY DEF Deliver
<1>2. ASSUME NEW n \in Names
      PROVE  jar'[n] = CASE v(n) = Keep -> jar[n] [] v(n) = None -> None
                         [] OTHER -> [value |-> v(n), secure |-> Https]
  BY <1>1, Zenon DEF Stored
<1>3. jar' = [n \in Names |-> jar'[n]] BY <1>1 DEF Stored
<1>4. tab[t] \in Waiting
  BY <1>1 DEF ShapeInv, Asking, Pages, Blank
<1>5. tab[t].session \in Tokens \cup {None, Keep} /\ tab[t].csrf \in Csrfs \cup {None, Keep}
  BY <1>4 DEF Waiting
<1>6. Https \in BOOLEAN BY DEF Https
<1>7. ASSUME NEW n \in Names, v(n) # Keep, v(n) # None
      PROVE  /\ jar'[n] = [value |-> v(n), secure |-> Https]
             /\ jar'[n].value = v(n) /\ jar'[n].secure = Https
             /\ v(n) = tab[t][n[2]] /\ n[1] = Prefix
  <2>1. jar'[n] = [value |-> v(n), secure |-> Https] BY <1>2, <1>7
  <2>2. [value |-> v(n), secure |-> Https].value = v(n)
          /\ [value |-> v(n), secure |-> Https].secure = Https
    OBVIOUS
  <2>3. jar'[n].value = v(n) /\ jar'[n].secure = Https BY <2>1, <2>2, Zenon
  <2> QED BY <1>7, <2>1, <2>3
<1>8. ASSUME NEW n \in Names, v(n) \in {Keep, None} PROVE jar'[n] = jar[n] \/ jar'[n] = None
  BY <1>2, <1>8
<1> HIDE DEF v
<1>9. ASSUME NEW n \in Names
      PROVE  /\ jar'[n] \in Cookies \cup {None}
             /\ n[2] = "session" /\ jar'[n] # None => jar'[n].value \in Tokens
             /\ n[2] = "csrf" /\ jar'[n] # None => jar'[n].value \in Csrfs
  <2>1. n[2] \in {"session", "csrf"} /\ n[1] \in Prefixes /\ n = <<n[1], n[2]>> BY NameCases
  <2>2. CASE v(n) # Keep /\ v(n) # None
    <3>1. jar'[n] = [value |-> v(n), secure |-> Https] /\ jar'[n].value = v(n)
            /\ v(n) = tab[t][n[2]]
      BY <1>7, <2>2
    <3>2. /\ n[2] = "session" => v(n) \in Tokens
          /\ n[2] = "csrf" => v(n) \in Csrfs
      BY <1>5, <2>2, <3>1
    <3>3. [value |-> v(n), secure |-> Https] \in Cookies BY <1>6, <2>1, <3>2 DEF Cookies
    <3> QED BY <2>1, <3>1, <3>2, <3>3
  <2>3. CASE v(n) \in {Keep, None}
    <3>1. jar'[n] = jar[n] \/ jar'[n] = None BY <1>8, <2>3
    <3>2. jar[n] \in Cookies \cup {None} BY DEF ShapeInv
    <3>3. /\ n[2] = "session" /\ jar[n] # None => jar[n].value \in Tokens
          /\ n[2] = "csrf" /\ jar[n] # None => jar[n].value \in Csrfs
      BY <2>1 DEF ShapeInv
    <3> QED BY <3>1, <3>2, <3>3
  <2> QED BY <2>2, <2>3
<1>10. \A p \in Prefixes, k \in {"session", "csrf"} : <<p, k>> \in Names /\ <<p, k>>[2] = k /\ <<p, k>>[1] = p
  BY DEF Names, Prefixes
(* The cookie that the next request sends *)
<1> DEFINE n == <<Prefix, "csrf">>
<1>11. Prefix \in Prefixes /\ (Prefix = "" <=> ~Https) BY DEF Prefix, Prefixes
<1>12. n \in Names /\ n[1] = Prefix /\ n[2] = "csrf" BY <1>10, <1>11
<1>13. Https' = Https /\ Prefix' = Prefix BY DEF Deliver, tlsVars, Https, Prefix
<1>14. MayStore(n)
  <2>1. CASE Https BY <2>1 DEF MayStore
  <2>2. CASE ~Https
    <3>1. n = <<"", "csrf">> BY <1>11, <2>2
    <3> QED BY <3>1 DEF MayStore, WebInv, JarInv
  <2> QED BY <2>1, <2>2
<1>15. v(n) = tab[t].csrf BY <1>12, <1>14 DEF v
<1>16. ASSUME tab[t].csrf = Keep PROVE Csrf' = Csrf
  <2>1. v(n) = Keep BY <1>15, <1>16
  <2>2. jar'[n] = CASE v(n) = Keep -> jar[n] [] v(n) = None -> None
                    [] OTHER -> [value |-> v(n), secure |-> Https]
    BY <1>2, <1>12
  <2>3. jar'[n] = jar[n] BY <2>1, <2>2, WebAssumption
  <2> QED BY <1>13, <2>3 DEF Csrf, Sent
<1>17. ASSUME tab[t].csrf \in Csrfs PROVE Csrf' = tab[t].csrf
  <2>1. v(n) # Keep /\ v(n) # None BY <1>15, <1>17, CookiesAssumption
  <2>2. jar'[n] = [value |-> v(n), secure |-> Https] /\ jar'[n].value = v(n) /\ jar'[n].secure = Https
    BY <1>7, <1>12, <2>1
  <2>3. [value |-> v(n), secure |-> Https] \in Cookies BY <1>6, <1>15, <1>17 DEF Cookies
  <2>4. jar'[n] # None BY <2>2, <2>3, CookiesAssumption
  <2> QED BY <1>13, <1>15, <2>2, <2>4 DEF Csrf, Sent
<1> QED BY <1>3, <1>9, <1>10, <1>16, <1>17

(* A page that comes has the token that comes with it as its cookie; any    *)
(* other page either sees no cookie change or is calm no longer.            *)
LEMMA DeliverKeepsFresh ==
  ASSUME WebInv, ShapeInv, CalmInv, NEW t \in Tabs, Deliver(t)
  PROVE  ShapeInv' /\ CalmInv'
<1>1. /\ tab[t].at = "waiting" /\ jar' = Stored(tab[t])
      /\ UNCHANGED <<admin, sessions, secret, tlsVars>>
      /\ tab' = [u \in Tabs |-> IF u = t THEN Shown(tab[t], Session')
                                         ELSE Disturbed(tab[u], tab[t])]
  BY DEF Deliver
<1>2. step' = step /\ secret' = secret /\ admin' = admin BY <1>1 DEF tlsVars
<1>3. tab[t] \in Waiting BY <1>1 DEF ShapeInv, Asking, Pages, Blank
<1>4. /\ tab[t].session = Keep => Session' = Session
      /\ tab[t].csrf = Keep => Csrf' = Csrf
      /\ tab[t].csrf \in Csrfs => Csrf' = tab[t].csrf
  BY SessionStored, CookiesStored
<1>5. tab'[t] = Shown(tab[t], Session') BY <1>1
<1>6. \/ tab[t].to \in Paths /\ tab'[t] = [at |-> "asking", path |-> tab[t].to]
      \/ tab'[t] = Blank
      \/ /\ ForPage(tab[t]) /\ tab[t].to \in Kinds \ {"other"}
         /\ tab'[t] = [at |-> "page", kind |-> tab[t].to, token |-> tab[t].csrf,
                       login |-> tab[t].sent, calm |-> tab[t].sent = Session']
  BY <1>1, <1>3, <1>5 DEF Shown, ForPage, Waiting
<1>7. ASSUME NEW u \in Tabs \ {t}
      PROVE  \/ tab'[u] = tab[u] /\ (tab[u].at = "page" => tab[t].session = Keep /\ tab[t].csrf = Keep)
             \/ tab[u].at = "page" /\ tab'[u] = [tab[u] EXCEPT !.calm = FALSE]
  BY <1>1 DEF Disturbed
<1>8. ASSUME NEW u \in Tabs
      PROVE  tab'[u] \in Asking \cup Waiting \cup Pages \cup {Blank}
  <2>1. CASE u = t /\ tab'[t] # Blank /\ tab[t].to \in Paths BY <1>6, <2>1 DEF Asking, ForPage
  <2>2. CASE u = t /\ ForPage(tab[t]) /\ tab[t].to \in Kinds \ {"other"}
             /\ tab'[t] = [at |-> "page", kind |-> tab[t].to, token |-> tab[t].csrf,
                           login |-> tab[t].sent, calm |-> tab[t].sent = Session']
    <3>1. tab[t].csrf \in Csrfs /\ tab[t].sent \in Tokens \cup {None}
      BY <1>3, <2>2 DEF CalmInv, Waiting
    <3> DEFINE c == tab[t].sent = Session'
    <3>2. c \in BOOLEAN OBVIOUS
    <3>3. tab'[t] = [at |-> "page", kind |-> tab[t].to, token |-> tab[t].csrf,
                    login |-> tab[t].sent, calm |-> c]
      BY <2>2, Zenon
    <3> HIDE DEF c
    <3>4. tab'[t] \in Pages BY <2>2, <3>1, <3>2, <3>3 DEF Pages
    <3> QED BY <2>2, <3>4
  <2>3. CASE u = t /\ tab'[t] = Blank BY <2>3
  <2>4. CASE u # t
    <3>1. tab[u] \in Asking \cup Waiting \cup Pages \cup {Blank} BY DEF ShapeInv
    <3>2. CASE tab'[u] = tab[u] BY <3>1, <3>2
    <3>3. CASE tab[u].at = "page" /\ tab'[u] = [tab[u] EXCEPT !.calm = FALSE]
      <4>1. tab[u] \in Pages BY <3>1, <3>3 DEF Asking, Waiting, Blank
      <4>2. tab'[u] \in Pages BY <3>3, <4>1 DEF Pages
      <4> QED BY <4>2
    <3> QED BY <1>7, <2>4, <3>2, <3>3
  <2> QED BY <1>6, <2>1, <2>2, <2>3, <2>4
<1>9. ShapeInv'
  <2>1. tab' \in [Tabs -> Asking \cup Waiting \cup Pages \cup {Blank}] BY <1>1, <1>8
  <2> QED BY <1>2, <2>1, CookiesStored DEF ShapeInv
<1>10. ASSUME NEW u \in Tabs
       PROVE  /\ ForPage(tab'[u]) => tab'[u].csrf \in Csrfs /\ tab'[u].csrf.secret = secret
              /\ tab'[u].at = "page" /\ tab'[u].calm =>
                   tab'[u].token = Csrf' /\ tab'[u].token.for = Session' /\ tab'[u].token.secret = secret
  <2>1. CASE u = t
    <3>1. tab'[t].at # "waiting" BY <1>6 DEF Blank
    <3>2. ASSUME tab'[t].at = "page", tab'[t].calm
          PROVE  tab'[t].token = Csrf' /\ tab'[t].token.for = Session' /\ tab'[t].token.secret = secret
      <4>1. /\ ForPage(tab[t])
            /\ tab'[t] = [at |-> "page", kind |-> tab[t].to, token |-> tab[t].csrf,
                          login |-> tab[t].sent, calm |-> tab[t].sent = Session']
        BY <1>6, <3>2 DEF Blank
      <4>2. tab'[t].token = tab[t].csrf BY <4>1
      <4>3. [at |-> "page", kind |-> tab[t].to, token |-> tab[t].csrf,
             login |-> tab[t].sent, calm |-> tab[t].sent = Session'].calm = (tab[t].sent = Session')
        OBVIOUS
      <4>4. tab[t].sent = Session' BY <3>2, <4>1, <4>3, Zenon
      <4>5. tab[t].csrf \in Csrfs /\ tab[t].csrf.secret = secret BY <4>1 DEF CalmInv
      <4>6. tab[t].csrf.for = tab[t].sent BY <4>1 DEF ForPage, WebInv, FormInv
      <4> QED BY <1>4, <4>2, <4>4, <4>5, <4>6
    <3> QED BY <2>1, <3>1, <3>2 DEF ForPage
  <2>2. CASE u # t /\ tab'[u] = tab[u] /\ (tab[u].at = "page" => tab[t].session = Keep /\ tab[t].csrf = Keep)
    BY <1>4, <2>2 DEF CalmInv
  <2>3. CASE u # t /\ tab[u].at = "page" /\ tab'[u] = [tab[u] EXCEPT !.calm = FALSE]
    <3>1. tab[u] \in Pages BY <2>3 DEF ShapeInv, Asking, Waiting, Blank
    <3>2. tab'[u].calm = FALSE /\ tab'[u].at = "page" BY <2>3, <3>1 DEF Pages
    <3> QED BY <3>2 DEF ForPage
  <2> QED BY <1>7, <2>1, <2>2, <2>3
<1>11. CalmInv' BY <1>2, <1>10 DEF CalmInv, ForPage
<1> QED BY <1>9, <1>11

LEMMA OthersKeepFresh ==
  ASSUME WebInv, ShapeInv, CalmInv,
         \/ \E t \in Tabs : Lose(t)
         \/ \E s \in Tokens : ExpireSession(s)
         \/ CloseBrowser \/ StopUI \/ StepTls \/ UNCHANGED vars
  PROVE  ShapeInv' /\ CalmInv'
<1>1. CASE \/ \E s \in Tokens : ExpireSession(s)
           \/ StepTls \/ UNCHANGED vars
  <2>1. UNCHANGED <<admin, secret, jar, tab, setting>> /\ (step' # "down" => step # "down")
    BY <1>1 DEF ExpireSession, StepTls, vars, webVars, tlsVars, LoadSupplied, Look, OpenSsl, RenameFirst,
                RenameSecond, Rename, Load, Listen, Expire, Remove, Goto
  <2>2. Session' = Session /\ Csrf' = Csrf BY <2>1 DEF Session, Csrf, Sent, Prefix, Https
  <2> QED BY <2>1, <2>2 DEF ShapeInv, CalmInv, ForPage
<1>2. ASSUME NEW t \in Tabs, Lose(t) PROVE ShapeInv' /\ CalmInv'
  <2>1. /\ admin' = admin /\ secret' = secret /\ jar' = jar /\ step' = step /\ setting' = setting
        /\ tab' = [tab EXCEPT ![t] = Blank]
    BY <1>2 DEF Lose, Replies, Same, tlsVars
  <2>2. Session' = Session /\ Csrf' = Csrf BY <2>1 DEF Session, Csrf, Sent, Prefix, Https
  <2>3. ShapeInv' BY <2>1 DEF ShapeInv
  <2>4. \A u \in Tabs : tab'[u] = tab[u] \/ tab'[u].at = "blank" BY <2>1 DEF ShapeInv, Blank
  <2>5. CalmInv' BY <2>1, <2>2, <2>4 DEF CalmInv, ForPage
  <2> QED BY <2>3, <2>5
<1>3. CASE CloseBrowser
  <2>1. /\ admin' = admin /\ secret' = secret /\ step' = step
        /\ jar' = [n \in Names |-> None] /\ tab' = [t \in Tabs |-> Blank]
    BY <1>3 DEF CloseBrowser, NoCookies, NoTabs, tlsVars
  <2>2. \A p \in Prefixes, k \in {"session", "csrf"} : jar'[<<p, k>>] = None
    BY <2>1 DEF Names, Prefixes
  <2>3. ShapeInv' BY <2>1, <2>2 DEF ShapeInv
  <2>4. \A t \in Tabs : tab'[t].at = "blank" BY <2>1 DEF Blank
  <2>5. CalmInv' BY <2>4 DEF CalmInv, ForPage
  <2> QED BY <2>3, <2>5
<1>4. CASE StopUI
  <2>1. /\ admin' = admin /\ secret' = secret /\ jar' = jar /\ step' = "down"
        /\ tab' = [t \in Tabs |-> IF Https' = Https /\ tab[t].at = "page" THEN tab[t] ELSE Blank]
    BY <1>4 DEF StopUI, Stop
  <2>2. ASSUME NEW t \in Tabs
        PROVE  \/ tab'[t] = Blank
               \/ Https' = Https /\ tab'[t] = tab[t] /\ tab[t].at = "page"
    BY <2>1, Zenon
  <2>3. tab' \in [Tabs -> Asking \cup Waiting \cup Pages \cup {Blank}]
    <3>1. \A t \in Tabs : tab'[t] \in Asking \cup Waiting \cup Pages \cup {Blank}
      BY <2>2 DEF ShapeInv
    <3> QED BY <2>1, <3>1
  <2>4. ShapeInv' BY <2>1, <2>3 DEF ShapeInv
  <2>5. Https' = Https => Session' = Session /\ Csrf' = Csrf
    BY <2>1 DEF Session, Csrf, Sent, Prefix
  <2>6. CalmInv' BY <2>1, <2>2, <2>5 DEF CalmInv, ForPage, Blank
  <2> QED BY <2>4, <2>6
<1> QED BY <1>1, <1>2, <1>3, <1>4

(* A secret that is there is used again, and no page comes before it is *)
LEMMA StartKeepsFresh == ASSUME WebInv, ShapeInv, CalmInv, StartUI PROVE ShapeInv' /\ CalmInv'
<1>1. UNCHANGED <<admin, jar, tab, setting>> /\ secret' = Secret
  BY DEF StartUI, Start, Goto
<1>2. secret \in Secrets => secret' = secret BY <1>1 DEF Secret, Secrets
<1>3. secret' \in Secrets BY <1>1 DEF ShapeInv, Secret, Secrets
<1>4. Session' = Session /\ Csrf' = Csrf BY <1>1 DEF Session, Csrf, Sent, Prefix, Https
<1>5. ShapeInv'
  <2>1. secret' # 0 /\ secret' \in Secrets \cup {0} BY <1>3 DEF Secrets
  <2> QED BY <1>1, <2>1 DEF ShapeInv
<1>6. CalmInv'
  <2>1. \A c \in Csrfs : c.secret \in Secrets BY DEF Csrfs
  <2>2. \A t \in Tabs : tab[t].at = "page" => tab[t].token \in Csrfs
    BY DEF ShapeInv, Asking, Waiting, Pages, Blank
  <2> QED BY <1>1, <1>2, <1>4, <2>1, <2>2 DEF CalmInv, ForPage
<1> QED BY <1>5, <1>6

LEMMA FreshInitInv == Init => FreshInv
<1> SUFFICES ASSUME Init PROVE FreshInv OBVIOUS
<1>1. ShapeInv
  <2>1. \A p \in Prefixes, k \in {"session", "csrf"} : jar[<<p, k>>] = None
    BY DEF Init, NoCookies, Names, Prefixes
  <2>2. tab \in [Tabs -> Asking \cup Waiting \cup Pages \cup {Blank}]
          /\ jar \in [Names -> Cookies \cup {None}]
    BY DEF Init, NoTabs, NoCookies
  <2>3. admin \in BOOLEAN /\ secret \in Secrets \cup {0} /\ step = "down" BY DEF Init, TlsInit
  <2> QED BY <2>1, <2>2, <2>3 DEF ShapeInv
<1>2. CalmInv BY DEF Init, NoTabs, Blank, CalmInv, ForPage
<1> QED BY <1>1, <1>2, WebInitInv DEF FreshInv

LEMMA FreshNextKeepsInv == FreshInv /\ [Next]_vars => FreshInv'
<1> SUFFICES ASSUME WebInv, ShapeInv, CalmInv, [Next]_vars PROVE FreshInv' BY DEF FreshInv
<1>1. WebInv' BY WebNextKeepsInv
<1>2. ASSUME NEW t \in Tabs, Get(t) \/ Post(t) PROVE ShapeInv' /\ CalmInv'
  BY <1>2, GetHandled, PostHandled, HandlersAnswer, HandledKeepsFresh DEF WebInv
<1>3. ASSUME NEW t \in Tabs, Deliver(t) PROVE ShapeInv' /\ CalmInv' BY <1>3, DeliverKeepsFresh
<1>4. CASE StartUI BY <1>1, <1>4, StartKeepsFresh DEF FreshInv
<1> QED BY <1>1, <1>2, <1>3, <1>4, OthersKeepFresh DEF Next, FreshInv

LEMMA FreshInvariance == Spec => []FreshInv
BY FreshInitInv, FreshNextKeepsInv, PTL DEF Spec

(* The browser, the tabs and the tokens are well typed; above all there is  *)
(* always an id for a new token: generateCsrfToken of csrf.js.              *)
THEOREM WebTypeCorrect == Spec => []WebTypeOK
<1>1. FreshInv /\ TlsTypeOK => WebTypeOK
  BY DEF FreshInv, WebInv, SessionInv, ShapeInv, WebTypeOK
<1> QED BY <1>1, FreshInvariance, WebImplementsTls, TlsTypeCorrect, PTL

(* An undisturbed page's forms are accepted, restarts of the UI or not:     *)
(* getOrCreateSecret and the options of csrf.js.                            *)
THEOREM FreshPagesWork == Spec => []FreshPageWorks
<1>1. FreshInv => FreshPageWorks
  <2> SUFFICES ASSUME FreshInv, NEW t \in Tabs, OnPage(t), tab[t].calm PROVE Accepted(tab[t].token)
    BY DEF FreshPageWorks
  <2>1. tab[t].token \in Csrfs BY DEF FreshInv, ShapeInv, OnPage, Asking, Waiting, Pages, Blank
  <2> QED BY <2>1, CookiesAssumption DEF FreshInv, CalmInv, OnPage, Accepted, Good, Identifier
<1> QED BY <1>1, FreshInvariance, PTL
=============================================================================

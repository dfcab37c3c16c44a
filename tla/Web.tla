-------------------------------- MODULE Web ---------------------------------
(***************************************************************************)
(* The web UI as a browser meets it: the routes of index.js with their      *)
(* redirects, the session and CSRF cookies (auth.js, csrf.js), restarts     *)
(* that may switch between HTTP and HTTPS (module Tls), and one browser     *)
(* with several tabs that share its cookies.                                *)
(*                                                                         *)
(* A handler reads its cookies once, from the request, so that it is one    *)
(* step; its answer reaches the browser in a later one, and answers to two  *)
(* tabs may overtake each other.  The vaults' pages are one page and their  *)
(* forms one form here: module Console is about what they do.               *)
(*                                                                         *)
(* A definition named ...Mutant is the one below it with a plausible        *)
(* mistake; nothing uses it but the checks that the properties notice it.   *)
(***************************************************************************)
EXTENDS Tls, FiniteSets

CONSTANTS
  Tabs,
  Tokens,    \* session tokens; one that is nowhere any more may be reused
  None,      \* no cookie; in a Set-Cookie, the cookie is cleared
  Keep       \* no Set-Cookie

ASSUME WebAssumption ==
  /\ IsFiniteSet(Tabs) /\ IsFiniteSet(Tokens) /\ None # Keep
  /\ None \notin Tokens /\ Keep \notin Tokens

VARIABLES
  admin,      \* an admin password is set
  sessions,   \* the tokens with an unexpired record in state.json
  secret,     \* csrfSecret of state.json, 0 if there is none
  jar,        \* the browser's cookies
  tab         \* what each tab shows or waits for

webVars == <<admin, sessions, secret, jar, tab>>
vars    == <<webVars, tlsVars>>

Names   == {"", "__Host-"} \X {"session", "csrf"}
Secrets == 1..2
MaxIds  == Cardinality(Tabs) + 3

(* A CSRF token is made for the session cookie of a request.  id tells      *)
(* tokens with the same session apart.                                      *)
Csrfs == [id : 1..MaxIds, for : Tokens \cup {None}, secret : Secrets]

Cookies == [value : Tokens \cup Csrfs, secure : BOOLEAN]

ASSUME CookiesAssumption == None \notin Cookies \cup Csrfs /\ Keep \notin Csrfs

Paths == {"/", "/setup", "/login", "/dashboard", "/recover"}
Kinds == {"setup", "login", "dashboard", "recover", "other"}

(* sent and login are history: the session cookie the page was asked with.  *)
(* calm is, too: no other answer has come since that sets a cookie.         *)
Blank   == [at |-> "blank"]
Asking  == [at : {"asking"}, path : Paths]
Waiting == [at : {"waiting"}, sent : Tokens \cup {None}, session : Tokens \cup {None, Keep},
            csrf : Csrfs \cup {None, Keep}, to : Paths \cup Kinds]
Pages   == [at : {"page"}, kind : Kinds \ {"other"}, token : Csrfs, login : Tokens \cup {None},
            calm : BOOLEAN]

WebTypeOK ==
  /\ TlsTypeOK /\ admin \in BOOLEAN
  /\ sessions \subseteq Tokens
  /\ secret \in Secrets \cup {0}
  /\ jar \in [Names -> Cookies \cup {None}]
  /\ tab \in [Tabs -> Asking \cup Waiting \cup Pages \cup {Blank}]

NoTabs     == [t \in Tabs |-> Blank]
NoCookies  == [n \in Names |-> None]

Init ==
  /\ TlsInit /\ admin = FALSE /\ sessions = {} /\ secret = 0
  /\ jar = NoCookies /\ tab = NoTabs

(* Bounds: a browser, which does not see the files, comes when there is one *)
(* good pair.  While it is there, the files are not touched from outside,   *)
(* and the UI is not given another pair.                                    *)
NoBrowser == jar = NoCookies /\ tab = NoTabs
Settled   == key = cert /\ ~expired /\ key # NoFile

-----------------------------------------------------------------------------
(* The browser sends a secure cookie over HTTPS only *)
PrefixMutant == ""
Prefix == IF Https THEN "__Host-" ELSE ""

Sent(kind) ==
  LET c == jar[<<Prefix, kind>>]
  IN IF c = None THEN None ELSE IF c.secure /\ ~Https THEN None ELSE c.value

Session == Sent("session")
Csrf    == Sent("csrf")

(* It stores no secure cookie that comes over HTTP, nor one of any kind in  *)
(* the place of a secure one.  COOKIE_OPTIONS say secure under HTTPS.       *)
MayStore(n) ==
  Https \/ (n[1] # "__Host-" /\ (jar[n] = None \/ ~jar[n].secure))

Stored(answer) ==
  [n \in Names |->
     LET v == IF n[1] = Prefix /\ MayStore(n) THEN answer[n[2]] ELSE Keep
     IN CASE v = Keep -> jar[n] [] v = None -> None
          [] OTHER -> [value |-> v, secure |-> Https]]

(* csrf-csrf with the options of csrf.js: a request's token is the one of   *)
(* its cookie if that is good, else a new one; a form is accepted if it has *)
(* the token of the cookie, and that is good.                               *)
IdentifierMutant == None
Identifier == Session

Good(token) == token # None /\ token.for = Identifier /\ token.secret = secret

At(what)     == {t \in Tabs : tab[t].at = what}
InJar(kind)  == {jar[n].value : n \in {m \in Names : m[2] = kind /\ jar[m] # None}}
Held         == (InJar("csrf") \cup {tab[t].csrf : t \in At("waiting")}
                   \cup {tab[t].token : t \in At("page")}) \ {None, Keep}

UsedIds == {c.id : c \in {d \in Held : d.for = Identifier}}
NewToken ==
  [id |-> CHOOSE i \in 1..MaxIds : i \notin UsedIds, for |-> Identifier, secret |-> secret]

CsrfToken == IF Good(Csrf) THEN Csrf ELSE NewToken
Accepted(token) == token = Csrf /\ Good(token)

-----------------------------------------------------------------------------
(* Answers, and what the handlers look at *)
Answer(session, csrf, to) ==
  [at |-> "waiting", sent |-> Session, session |-> session, csrf |-> csrf, to |-> to]

RenderMutant(kind) == Answer(Keep, Keep, kind)
Render(kind)   == Answer(Keep, CsrfToken, kind)
Redirect(path) == Answer(Keep, Keep, path)
Refusal        == Answer(Keep, Keep, "other")

HasValidSession == Session \in sessions

(* requireAuth, where it turns a request away *)
TurnedAway == Answer(IF Session # None THEN None ELSE Keep, Keep, "/login")

Replies(t, answer) == tab' = [tab EXCEPT ![t] = answer]
Same     == UNCHANGED <<admin, sessions, secret, jar, tlsVars>>

(* A link, an address or the Back button (no page is cached), or a redirect *)
Asks(t, path) ==
  /\ Serving /\ (Settled \/ ~NoBrowser)
  /\ tab[t].at \in {"blank", "page"} \/ tab[t] = [at |-> "asking", path |-> path]

GetRoot(t) ==
  /\ Asks(t, "/") /\ Same
  /\ Replies(t, Redirect(IF ~admin THEN "/setup"
                         ELSE IF HasValidSession THEN "/dashboard" ELSE "/login"))

GetSetup(t) ==
  /\ Asks(t, "/setup") /\ Same
  /\ Replies(t, IF admin THEN Refusal ELSE Render("setup"))

(* The rate limit of /login answers by itself *)
GetLogin(t) ==
  /\ Asks(t, "/login") /\ Same
  /\ \/ Replies(t, IF ~admin THEN Redirect("/setup")
                    ELSE IF HasValidSession THEN Redirect("/dashboard") ELSE Render("login"))
     \/ Replies(t, Refusal)

GetDashboard(t) ==
  /\ Asks(t, "/dashboard") /\ Same
  /\ Replies(t, IF HasValidSession THEN Render("dashboard") ELSE TurnedAway)

GetRecover(t) == Asks(t, "/recover") /\ Same /\ Replies(t, Render("recover"))

Get(t) == GetRoot(t) \/ GetSetup(t) \/ GetLogin(t) \/ GetDashboard(t) \/ GetRecover(t)

-----------------------------------------------------------------------------
(* The forms of the pages, by the paths they are posted to; those about a   *)
(* vault are one.                                                           *)
SetupForms     == {"/setup"}
LoginForms     == {"/login"}
RecoverForms   == {"/recover/generate", "/recover"}
DashboardForms == {"/logout", "/vaults"}

Forms == [setup |-> SetupForms, login |-> LoginForms, recover |-> RecoverForms,
          dashboard |-> DashboardForms]

(* A form sends the token of its page; a tab whose request is broken off    *)
(* keeps the page.                                                          *)
OnPage(t) == Serving /\ tab[t].at = "page"
Submits(t, form) ==
  OnPage(t) /\ form \in Forms[tab[t].kind] /\ Accepted(tab[t].token)
Responds(t, answer) == Replies(t, answer) \/ UNCHANGED tab

(* The handler of EBADCSRFTOKEN *)
BadTokenMutant == Answer(None, None, "/login")
BadToken == Answer(IF HasValidSession THEN Keep ELSE None, None, "/login")

RefuseForm(t) ==
  /\ OnPage(t) /\ ~Accepted(tab[t].token)
  /\ Responds(t, BadToken) /\ Same

PostSetup(t) ==
  /\ Submits(t, "/setup")
  /\ \/ admin /\ Responds(t, Refusal) /\ Same
     \/ ~admin /\ Responds(t, Render("setup")) /\ Same
     \/ /\ ~admin /\ admin' = TRUE /\ Responds(t, Redirect("/login"))
        /\ UNCHANGED <<sessions, secret, jar, tlsVars>>

(* Tokens that the browser does not have any more do not matter *)
InUse ==
  InJar("session") \cup {c.for : c \in Held} \cup {tab[t].login : t \in At("page")}
  \cup UNION {{tab[t].sent, tab[t].session} : t \in At("waiting")}

(* The wrong password or too many of them, or the right one *)
PostLogin(t) ==
  /\ Submits(t, "/login")
  /\ \/ ~admin /\ Responds(t, Redirect("/setup")) /\ Same
     \/ admin /\ HasValidSession /\ Responds(t, Redirect("/dashboard")) /\ Same
     \/ admin /\ ~HasValidSession /\ Responds(t, Render("login")) /\ Same
     \/ /\ admin /\ ~HasValidSession
        /\ \E s \in Tokens \ InUse :
             /\ sessions' = sessions \cup {s}
             /\ Responds(t, Answer(s, Keep, "/dashboard"))
        /\ UNCHANGED <<admin, secret, jar, tlsVars>>
     \/ Responds(t, Refusal) /\ Same

PostLogout(t) ==
  /\ Submits(t, "/logout")
  /\ \/ ~HasValidSession /\ Responds(t, TurnedAway) /\ Same
     \/ /\ HasValidSession /\ sessions' = sessions \ {Session}
        /\ Responds(t, Answer(None, Keep, "/login"))
        /\ UNCHANGED <<admin, secret, jar, tlsVars>>

(* Any form about a vault *)
PostVault(t) ==
  /\ Submits(t, "/vaults") /\ Same
  /\ \/ ~HasValidSession /\ Responds(t, TurnedAway)
     \/ HasValidSession /\ Responds(t, Redirect("/dashboard"))
     \/ HasValidSession /\ Responds(t, Render("dashboard"))

(* A code is made, or was a short time ago; a code that is wrong, or right *)
PostGenerate(t) ==
  Submits(t, "/recover/generate") /\ Responds(t, Render("recover")) /\ Same

PostRecover(t) ==
  /\ Submits(t, "/recover")
  /\ \/ Responds(t, Render("recover")) /\ Same
     \/ /\ admin' = TRUE /\ sessions' = {} /\ Responds(t, Redirect("/login"))
        /\ UNCHANGED <<secret, jar, tlsVars>>

Post(t) ==
  \/ RefuseForm(t) \/ PostSetup(t) \/ PostLogin(t) \/ PostLogout(t)
  \/ PostVault(t) \/ PostGenerate(t) \/ PostRecover(t)

-----------------------------------------------------------------------------
(* The browser: an answer comes, or never does; the browser is closed, and  *)
(* with it go its cookies, which have no Max-Age.                           *)
Shown(answer, session) ==
  IF answer.to \in Paths THEN [at |-> "asking", path |-> answer.to]
  ELSE IF answer.to = "other" THEN Blank
  ELSE [at |-> "page", kind |-> answer.to, token |-> answer.csrf,
        login |-> answer.sent, calm |-> answer.sent = session]

Disturbed(page, answer) ==
  IF page.at = "page" /\ <<answer.session, answer.csrf>> # <<Keep, Keep>>
  THEN [page EXCEPT !.calm = FALSE] ELSE page

Deliver(t) ==
  /\ tab[t].at = "waiting" /\ jar' = Stored(tab[t])
  /\ UNCHANGED <<admin, sessions, secret, tlsVars>>
  /\ tab' = [u \in Tabs |-> IF u = t THEN Shown(tab[t], Session') ELSE Disturbed(tab[u], tab[t])]

Lose(t) == tab[t].at = "waiting" /\ Replies(t, Blank) /\ Same

CloseBrowser ==
  /\ jar # NoCookies /\ jar' = NoCookies /\ tab' = NoTabs
  /\ UNCHANGED <<admin, sessions, secret, tlsVars>>

(* 24 hours pass *)
ExpireSession(s) ==
  /\ s \in sessions /\ sessions' = sessions \ {s}
  /\ UNCHANGED <<admin, secret, jar, tab, tlsVars>>

(* getOrCreateSecret, at the start of the process *)
SecretMutant == IF secret = 1 THEN 2 ELSE 1
Secret == IF secret = 0 THEN 1 ELSE secret

StartUI == Start /\ secret' = Secret /\ UNCHANGED <<admin, sessions, jar, tab>>

(* Answers under way are lost.  After a change between HTTP and HTTPS the   *)
(* pages that are open are of no use, as their addresses have changed.      *)
StopUI ==
  /\ Stop /\ (setting' # "supplied" \/ NoBrowser)
  /\ tab' = [t \in Tabs |-> IF Https' = Https /\ tab[t].at = "page" THEN tab[t] ELSE Blank]
  /\ UNCHANGED <<admin, sessions, secret, jar>>

StepTls ==
  /\ \/ LoadSupplied \/ Look \/ OpenSsl \/ RenameFirst \/ RenameSecond
     \/ Load \/ Listen \/ (NoBrowser /\ (Expire \/ Remove))
  /\ UNCHANGED webVars

Next ==
  \/ \E t \in Tabs : Get(t) \/ Post(t) \/ Deliver(t) \/ Lose(t)
  \/ \E s \in Tokens : ExpireSession(s)
  \/ CloseBrowser \/ StartUI \/ StopUI \/ StepTls

Spec == Init /\ [][Next]_vars

-----------------------------------------------------------------------------
(* A form that is accepted was rendered for the login it now acts in: one   *)
(* from a page of another session, or from before the login, never is, in   *)
(* whatever order the tabs' answers have come ("a token minted for one      *)
(* session cannot be replayed against another", csrf.test.js 109).          *)
FormsStayInTheirLogin ==
  \A t \in Tabs : OnPage(t) /\ Accepted(tab[t].token) => tab[t].login = Session

(* A page's forms are accepted as long as no other tab has got a cookie     *)
(* since it came, also when the UI has been restarted ("outstanding CSRF    *)
(* cookies survive a container restart", csrf.js 10).                       *)
FreshPageWorks == \A t \in Tabs : OnPage(t) /\ tab[t].calm => Accepted(tab[t].token)

Comes(t) == tab[t].at = "waiting" /\ tab'[t].at \in {"asking", "page"}

(* Once the answer to a login has come, the next request is one of the new  *)
(* session, also if the browser still has cookies from before a change      *)
(* between HTTP and HTTPS ("so http and https cookies never collide on one  *)
(* host", auth.js 9).                                                       *)
LoginReaches ==
  [][\A t \in Tabs :
       Comes(t) /\ tab[t].session \in Tokens => Session' = tab[t].session]_vars

(* The cookie of a live session is replaced or cleared by no answer to a    *)
(* request that carried it: a form that is refused does not log the admin   *)
(* out (the handler of EBADCSRFTOKEN, index.js 481).                        *)
LoginKept ==
  [][\A t \in Tabs :
       Comes(t) /\ tab[t].sent = Session /\ HasValidSession => Session' = Session]_vars
=============================================================================

---------------------------- MODULE DashboardSession ----------------------------
(***************************************************************************)
(* The session of one tab of the web dashboard (mod/auth): the token that  *)
(* is kept in the storage of the browser, which the tabs share and a tab   *)
(* reads when it is loaded; the pages that must be logged on to, the login *)
(* page and the provider's callback; and the control of a page that is     *)
(* drawn for those who may use it.  A path is Home or a group's.           *)
(***************************************************************************)
EXTENDS DashboardRequests

CONSTANTS
  Accounts, RoleGroups, Home,
  Rights      \* [Accounts -> the groups an account has a role in, and Home for an admin]

ASSUME SessionAssumption ==
  /\ Home \notin RoleGroups /\ None \notin Accounts \union RoleGroups
  /\ Rights \in [Accounts -> SUBSET (RoleGroups \union {Home})]

VARIABLES
  storage,    \* the token in localStorage
  token,      \* token$ of this tab
  expired,    \* the tokens that validateToken refuses by now
  place,      \* the route: its path or that of its redirect_uri or state
  user,       \* CurrentUser: whose account and whose permissions were answered
  group,      \* group$: the group that was answered last
  shown,      \* whether the control is drawn
  rule        \* who may: "group" roles, or "either" these or an admin

sessionVars == <<storage, token, expired, place, user, group, shown, rule>>

Paths == RoleGroups \union {Home}
Tokens == [of: Accounts, n: 1..MaxSent]
Nobody == [of |-> None, rules |-> None]

(* enc is how often the path is escaped, beyond what the router does       *)
(* itself; wanted is the page the user was on last.                        *)
Place(at, path, enc, wanted) == [at |-> at, path |-> path, enc |-> enc, wanted |-> wanted]
SessionArg(tok, about) == [token |-> tok, about |-> about]
Valid(tok) == tok # None /\ tok \notin expired

\* Mutant: what is not known yet does not forbid.
CanAccess_Unknown(u, g, path) ==
  IF path = Home THEN u.of # None /\ Home \in Rights[u.of]
  ELSE u.rules = None \/
       /\ u.of # None
       /\ \/ rule = "either" /\ Home \in Rights[u.of]
          \/ g # None /\ g \in Rights[u.of]

(* MustAdmin at Home; on a group's page the rule of the operation, which   *)
(* looks up the role in the group that was answered.                       *)
CanAccess(u, g, path) ==
  /\ u.of # None
  /\ IF path = Home THEN Home \in Rights[u.of]
     ELSE /\ u.rules # None
          /\ \/ rule = "either" /\ Home \in Rights[u.of]
             \/ g # None /\ g \in Rights[u.of]

\* What the server goes by.
May(account, path) ==
  IF path = Home THEN Home \in Rights[account]
  ELSE path \in Rights[account] \/ (rule = "either" /\ Home \in Rights[account])

-----------------------------------------------------------------------------
(* Arriving.  The components of the page before are gone, and nobody hears *)
(* what they asked for, which changes nothing at the server.               *)

\* Mutant: the answers to the components before are still heard.
Gone_Heard(kept) == kept
Gone(kept) == {}

(* The requests a page begins with, which TokenPatchFetcher gives the      *)
(* token of that time.                                                     *)
FirstRequests(path, tok) ==
  {Request(op, None, SessionArg(tok, None)) : op \in {"user", "permissions"}}
  \union (IF path \in RoleGroups THEN {Request("group", None, SessionArg(tok, path))} ELSE {})

(* Nobody is logged on: what is behind MustLogon is not rendered.          *)
NoPage(kept) ==
  /\ calls' = Gone(kept)
  /\ user' = Nobody /\ group' = None /\ shown' = FALSE

(* MustLogon: a token that is not valid sends to the login page.           *)
EnterPage(path, tok, wanted, kept) ==
  IF Valid(tok)
    THEN /\ place' = Place("page", path, 0, wanted)
         /\ calls' = Gone(kept) \union FirstRequests(path, tok)
         /\ user' = Nobody /\ group' = None /\ shown' = FALSE
    ELSE place' = Place("login", path, 1, path) /\ NoPage(kept)

(* MustLogout: a valid token leaves for the redirect_uri as it stands,     *)
(* which is no path when it is escaped.                                    *)
EnterLogin(path, enc, wanted, tok, kept) ==
  IF ~Valid(tok) THEN place' = Place("login", path, enc, wanted) /\ NoPage(kept)
  ELSE IF enc = 0 THEN EnterPage(path, tok, wanted, kept)
  ELSE place' = Place("nowhere", path, enc, wanted) /\ NoPage(kept)

-----------------------------------------------------------------------------
(* The user.                                                               *)

(* Another page, by its link.  That of another group keeps its components, *)
(* and GroupContext asks for the group.                                    *)
VisitPath(path) ==
  /\ place.at = "page" /\ path # place.path
  /\ asked < MaxSent /\ asked' = asked + 1
  /\ IF {path, place.path} \subseteq RoleGroups
       THEN /\ place' = Place("page", path, 0, path)
            /\ SendAfter(calls, "group", None, SessionArg(token, path))
            /\ noted' = noted \union {"undrawn"}
            /\ UNCHANGED <<user, group, shown>>
       ELSE EnterPage(path, token, path, calls) /\ noted' = {}
  /\ UNCHANGED <<storage, token, expired, rule, faults>>

(* LogoutBtn; token$ says so to the storage and to MustLogon.              *)
Logout ==
  /\ place.at = "page"
  /\ token' = None /\ storage' = None
  /\ EnterPage(place.path, None, place.path, calls)
  /\ noted' = {}
  /\ UNCHANGED <<expired, rule, asked, faults>>

\* Mutant: the redirect_uri goes into the state as it is.
Redirect_Raw(enc) == enc

(* LoginCard: the state a provider is given is the redirect_uri unescaped. *)
Redirect(enc) == IF enc = 0 THEN 0 ELSE enc - 1

(* The user is sent to a provider and comes back with a code, which        *)
(* AuthProviderCallback exchanges for a token.                             *)
LogIn(account) ==
  /\ place.at = "login" /\ asked < MaxSent
  /\ asked' = asked + 1
  /\ place' = Place("callback", place.path, Redirect(place.enc), place.wanted)
  /\ SendAfter({}, "exchange", None, SessionArg(None, [of |-> account, n |-> asked + 1]))
  /\ token' = storage
  /\ UNCHANGED <<storage, expired, user, group, shown, rule, faults, noted>>

(* The link of a callback that failed, to log in again.                    *)
Retry ==
  /\ place.at = "callback" /\ calls = {}
  /\ EnterLogin(place.path, place.enc, place.wanted, token, calls)
  /\ noted' = {}
  /\ UNCHANGED <<storage, token, expired, rule, asked, faults>>

(* The tab is loaded again, or with another address.                       *)
Load(path) ==
  /\ asked < MaxSent /\ asked' = asked + 1
  /\ token' = storage
  /\ \/ /\ place.at = "login" /\ path = place.path
        /\ EnterLogin(path, place.enc, place.wanted, storage, {})
        /\ noted' = IF Valid(storage) THEN {"undecoded"} ELSE {}
     \/ EnterPage(path, storage, path, {}) /\ noted' = {}
  /\ UNCHANGED <<storage, expired, rule, faults>>

(* The parent of the control renders again, and so does the control.       *)
Redraw ==
  /\ place.at = "page"
  /\ shown' = CanAccess(user, group, place.path)
  /\ noted' = noted \ {"undrawn"}
  /\ UNCHANGED <<storage, token, expired, place, user, group, rule, calls, asked, faults>>

-----------------------------------------------------------------------------
(* What happens meanwhile: time passes, and another tab logs in or out.    *)

Expire(tok) ==
  /\ Valid(tok)
  /\ expired' = expired \union {tok}
  /\ UNCHANGED <<storage, token, place, user, group, shown, rule, requestVars>>

OtherTab(account) ==
  /\ \/ account = None /\ storage # None /\ storage' = None /\ UNCHANGED asked
     \/ /\ account # None /\ asked < MaxSent /\ asked' = asked + 1
        /\ storage' = [of |-> account, n |-> asked + 1]
  /\ UNCHANGED <<token, expired, place, user, group, shown, rule, calls, faults, noted>>

(* The server; a token may be refused once it is expired.                  *)
Said(c) ==
  CASE c.op = "group" -> c.arg.about
    [] c.op = "exchange" -> c.arg.about
    [] OTHER -> c.arg.token.of

ServeSession(c) ==
  /\ ~c.served
  /\ \/ Answer(c, Said(c)) /\ UNCHANGED noted
     \/ /\ c.arg.token \in expired
        /\ Answer(c, None) /\ noted' = noted \union {"failed"}
  /\ UNCHANGED <<sessionVars, asked, faults>>

LoseSession(c) ==
  /\ Fail(c)
  /\ noted' = noted \union {"failed"}
  /\ UNCHANGED <<sessionVars, asked>>

-----------------------------------------------------------------------------
(* The answers.                                                            *)

(* CurrentUserProvider merges the two as they come; every AccessControl is *)
(* drawn again, with the group of that time.                               *)
UserBecomes(c, u) ==
  /\ user' = u
  /\ shown' = CanAccess(u, group, place.path)
  /\ calls' = calls \ {c}
  /\ noted' = noted \ {"undrawn"}
  /\ UNCHANGED <<storage, token, expired, place, group, rule, asked, faults>>

UserAnswered(c) == Heard(c, "user") /\ UserBecomes(c, [user EXCEPT !.of = c.answer])
PermissionsAnswered(c) ==
  Heard(c, "permissions") /\ UserBecomes(c, [user EXCEPT !.rules = c.answer])

(* The answer for the group of a page before comes after that for the      *)
(* page's own.                                                             *)
Overtakes(c) ==
  IF c.arg.about # place.path /\ \A d \in Requests({"group"}) : d.arg.about # place.path
  THEN {"overtaken"} ELSE {}

(* GroupContext: whatever is answered is the group; nothing is drawn for it. *)
GroupAnswered(c) ==
  /\ Heard(c, "group")
  /\ group' = c.answer
  /\ calls' = calls \ {c}
  /\ noted' = noted \union {"undrawn"} \union Overtakes(c)
  /\ UNCHANGED <<storage, token, expired, place, user, shown, rule, asked, faults>>

(* The token is stored, and the page of the state is left for.             *)
Exchanged(c) ==
  /\ Heard(c, "exchange")
  /\ token' = c.answer /\ storage' = c.answer
  /\ IF place.enc = 0 THEN EnterPage(place.path, c.answer, place.wanted, {})
     ELSE place' = Place("nowhere", place.path, place.enc, place.wanted) /\ NoPage({})
  /\ noted' = {}
  /\ UNCHANGED <<expired, rule, asked, faults>>

-----------------------------------------------------------------------------
SessionInit ==
  /\ storage = None /\ token = None /\ expired = {}
  /\ \E path \in Paths : place = Place("login", path, 1, path)
  /\ user = Nobody /\ group = None /\ shown = FALSE
  /\ rule \in {"group", "either"}
  /\ calls = {} /\ asked = 0 /\ faults = 0 /\ noted = {}

SessionNext ==
  \/ \E path \in Paths : VisitPath(path) \/ Load(path)
  \/ Logout \/ Retry \/ Redraw
  \/ \E account \in Accounts : LogIn(account)
  \/ \E account \in Accounts \union {None} : OtherTab(account)
  \/ \E tok \in {token, storage} : Expire(tok)
  \/ \E c \in calls :
       \/ ServeSession(c) \/ LoseSession(c)
       \/ UserAnswered(c) \/ PermissionsAnswered(c) \/ GroupAnswered(c) \/ Exchanged(c)
       \/ Ignored(c) /\ UNCHANGED sessionVars

-----------------------------------------------------------------------------
SessionTyped ==
  /\ {storage, token} \subseteq Tokens \union {None} /\ expired \subseteq Tokens
  /\ place \in [at: {"page", "login", "callback", "nowhere"}, path: Paths, enc: 0..1,
                wanted: Paths]
  /\ user \in [of: Accounts \union {None}, rules: Accounts \union {None}]
  /\ group \in RoleGroups \union {None} /\ shown \in BOOLEAN /\ rule \in {"group", "either"}
  /\ RequestsTyped({"user", "permissions", "group", "exchange"})

(* What a page shows of a user is that of the account of the tab's token,  *)
(* whoever was logged on before and whatever was still to be answered.     *)
UserIsOfToken ==
  /\ place.at = "page" => token # None
  /\ user # Nobody => token # None /\ {user.of, user.rules} \subseteq {token.of, None}

(* Whoever logs in is led to the page that was left or asked for, unless   *)
(* the login page was loaded again after another tab had logged in.        *)
BackToThePage ==
  place.at \in {"page", "nowhere"} /\ "undecoded" \notin noted =>
    place.at = "page" /\ place.path = place.wanted

(* The controls of a group's page go by the role in another group: its own *)
(* is still asked for or could not be had, or its answer was followed by   *)
(* that for a group visited before, which GroupContext then keeps.         *)
GroupIsAnothers ==
  /\ place.path # Home /\ group \notin {place.path, None}
  /\ noted \intersect {"overtaken", "failed"} # {} \/ Requests({"group"}) # {}

(* A control that was drawn since the group was answered is only shown to  *)
(* those whom the server lets use it, and to all of them once everything   *)
(* is answered and nothing failed; except where the code goes by the role  *)
(* in another group.                                                       *)
ShownToThoseWhoMay ==
  place.at = "page" /\ "undrawn" \notin noted /\ ~GroupIsAnothers =>
    /\ shown => May(token.of, place.path)
    /\ calls = {} /\ noted = {} => shown = May(token.of, place.path)
=============================================================================

------------------------- MODULE DashboardSession_proofs -------------------------
(***************************************************************************)
(* Proofs about the session of a tab: whose user it shows, where a login    *)
(* leads, and for whom a control is drawn, for any accounts, groups, rights *)
(* and number of tokens.                                                    *)
(***************************************************************************)
EXTENDS DashboardPages, TLAPS

-----------------------------------------------------------------------------
(* Requests.                                                                *)

Shape(c) ==
  /\ c = [op |-> c.op, from |-> c.from, arg |-> c.arg, n |-> c.n,
          served |-> c.served, answer |-> c.answer, heard |-> c.heard]
  /\ c.served \in BOOLEAN /\ c.heard \in BOOLEAN

LEMMA RequestFields ==
  ASSUME NEW op, NEW from, NEW arg, NEW c, c = Request(op, from, arg)
  PROVE  /\ c.op = op /\ c.from = from /\ c.arg = arg /\ ~ c.served /\ c.answer = None
         /\ c.heard /\ Shape(c)
<1>1. PICK k : c = [op |-> op, from |-> from, arg |-> arg, n |-> k,
                    served |-> FALSE, answer |-> None, heard |-> TRUE]
  BY DEF Request
<1>2. /\ c.op = op /\ c.from = from /\ c.arg = arg /\ c.n = k /\ c.served = FALSE
      /\ c.answer = None /\ c.heard = TRUE
  BY <1>1
<1>3. Shape(c)
  <2>1. c = [op |-> c.op, from |-> c.from, arg |-> c.arg, n |-> c.n,
             served |-> c.served, answer |-> c.answer, heard |-> c.heard]
    BY <1>1
  <2> QED BY <1>2, <2>1 DEF Shape
<1> QED BY <1>2, <1>3

(* A request once the server has answered it.                               *)
LEMMA AnsweredFields ==
  ASSUME NEW c, Shape(c), NEW a, NEW u, u = [c EXCEPT !.served = TRUE, !.answer = a]
  PROVE  /\ u.op = c.op /\ u.from = c.from /\ u.arg = c.arg /\ u.served
         /\ u.answer = a /\ (u.heard <=> c.heard) /\ Shape(u)
<1>1. u = [op |-> c.op, from |-> c.from, arg |-> c.arg, n |-> c.n,
           served |-> TRUE, answer |-> a, heard |-> c.heard]
  BY DEF Shape
<1>2. /\ u.op = c.op /\ u.from = c.from /\ u.arg = c.arg /\ u.n = c.n /\ u.served = TRUE
      /\ u.answer = a /\ u.heard = c.heard
  BY <1>1
<1>3. u = [op |-> u.op, from |-> u.from, arg |-> u.arg, n |-> u.n,
           served |-> u.served, answer |-> u.answer, heard |-> u.heard]
  BY <1>1
<1>4. c.heard \in BOOLEAN
  BY DEF Shape
<1> QED BY <1>2, <1>3, <1>4 DEF Shape

-----------------------------------------------------------------------------
(* The inductive invariant.                                                 *)

RestTyped ==
  /\ storage \in Tokens \union {None} /\ token \in Tokens \union {None}
  /\ expired \subseteq Tokens /\ rule \in {"group", "either"}
  /\ asked \in 0..MaxSent /\ faults \in 0..MaxFaults

PageTyped ==
  /\ place \in [at: {"page", "login", "callback", "nowhere"}, path: Paths, enc: 0..1,
                wanted: Paths]
  /\ user \in [of: Accounts \union {None}, rules: Accounts \union {None}]
  /\ group \in RoleGroups \union {None} /\ shown \in BOOLEAN

(* A request is of the page and of its token, and says so if it is answered *)
(* at all; one that was not answered is noted.                              *)
Pending(c) ==
  /\ Shape(c) /\ c.heard
  /\ c.op \in {"user", "permissions", "group", "exchange"}
  /\ ~ c.served => c.answer = None
  /\ c.op # "exchange" /\ c.served /\ c.answer = None => "failed" \in noted
  /\ c.op \in {"user", "permissions"} =>
       place.at = "page" /\ c.arg.token = token /\ c.answer \in {None, token.of}
  /\ c.op = "group" =>
       place.at = "page" /\ c.arg.about \in RoleGroups /\ c.answer \in {None, c.arg.about}
  /\ c.op = "exchange" =>
       place.at = "callback" /\ c.arg.about \in Tokens /\ c.answer \in {None, c.arg.about}
AllPending == \A c \in calls : Pending(c)

(* Where the tab is: the page wanted is the one it is on or is led to.      *)
PlaceOK ==
  /\ place.path = place.wanted
  /\ place.at = "page" => token # None
  /\ place.at = "callback" => place.enc = 0
  /\ place.at = "nowhere" => "undecoded" \in noted
  /\ place.at # "page" => user = Nobody /\ group = None

UserOK == place.at = "page" => {user.of, user.rules} \subseteq {token.of, None}

(* The control is as it was drawn last, and what it goes by is there or     *)
(* asked for.                                                               *)
DrawnOK ==
  place.at = "page" /\ "undrawn" \notin noted => (shown <=> CanAccess(user, group, place.path))
AskedFor ==
  place.at = "page" /\ "failed" \notin noted =>
    /\ user.of # None \/ \E c \in calls : c.op = "user"
    /\ user.rules # None \/ \E c \in calls : c.op = "permissions"

(* The group of the page is there or asked for.                             *)
GroupFollows ==
  place.at = "page" /\ place.path \in RoleGroups /\ "failed" \notin noted /\ "overtaken" \notin noted =>
    group = place.path \/ \E c \in calls : c.op = "group" /\ c.arg.about = place.path

SInv ==
  /\ RestTyped /\ PageTyped /\ AllPending /\ PlaceOK /\ UserOK /\ DrawnOK /\ AskedFor
  /\ GroupFollows

-----------------------------------------------------------------------------
(* Arriving.                                                                *)

LEMMA NobodyThere ==
  /\ Nobody \in [of: Accounts \union {None}, rules: Accounts \union {None}]
  /\ Nobody.of = None /\ Nobody.rules = None
BY DEF Nobody

LEMMA PlaceThere ==
  ASSUME NEW at \in {"page", "login", "callback", "nowhere"}, NEW path \in Paths, NEW enc \in 0..1,
         NEW p, p = Place(at, path, enc, path)
  PROVE  /\ p \in [at: {"page", "login", "callback", "nowhere"}, path: Paths, enc: 0..1,
                   wanted: Paths]
         /\ p.at = at /\ p.path = path /\ p.enc = enc /\ p.wanted = path
BY DEF Place

(* Nothing is shown of anybody.                                             *)
LEMMA NoPageOK ==
  ASSUME RestTyped', NEW at \in {"login", "callback", "nowhere"}, NEW path \in Paths, NEW enc \in 0..1,
         place' = Place(at, path, enc, path), NEW kept, NoPage(kept),
         at = "callback" => enc = 0,
         at = "nowhere" => "undecoded" \in noted'
  PROVE  SInv'
<1>1. /\ calls' = {} /\ user' = Nobody /\ group' = None /\ shown' = FALSE
  BY DEF NoPage, Gone
<1>2. PICK p : p = Place(at, path, enc, path)
  OBVIOUS
<1>3. /\ p \in [at: {"page", "login", "callback", "nowhere"}, path: Paths, enc: 0..1,
                wanted: Paths]
      /\ p.at = at /\ p.path = path /\ p.enc = enc /\ p.wanted = path
  BY <1>2, PlaceThere
<1>4. place' = p
  BY <1>2
<1>5. PageTyped'
  BY <1>1, <1>3, <1>4, NobodyThere DEF PageTyped
<1>6. AllPending' /\ PlaceOK' /\ UserOK' /\ DrawnOK' /\ AskedFor' /\ GroupFollows'
  BY <1>1, <1>3, <1>4 DEF AllPending, PlaceOK, UserOK, DrawnOK, AskedFor, GroupFollows
<1> QED BY <1>5, <1>6 DEF SInv

LEMMA EnterPageOK ==
  ASSUME RestTyped', NEW path \in Paths, NEW tok, token' = tok, NEW kept,
         EnterPage(path, tok, path, kept)
  PROVE  SInv'
<1>1. CASE ~ Valid(tok)
  <2>1. place' = Place("login", path, 1, path) /\ NoPage(kept)
    BY <1>1 DEF EnterPage
  <2> QED BY <2>1, NoPageOK
<1>2. CASE Valid(tok)
  <2>1. /\ place' = Place("page", path, 0, path)
        /\ calls' = FirstRequests(path, tok)
        /\ user' = Nobody /\ group' = None /\ shown' = FALSE
    BY <1>2 DEF EnterPage, Gone
  <2>2. tok # None /\ tok \in Tokens
    BY <1>2 DEF Valid, RestTyped
  <2>3. PICK p : p = Place("page", path, 0, path)
    OBVIOUS
  <2>4. /\ p \in [at: {"page", "login", "callback", "nowhere"}, path: Paths, enc: 0..1,
                  wanted: Paths]
        /\ p.at = "page" /\ p.path = path /\ p.enc = 0 /\ p.wanted = path
    BY <2>3, PlaceThere
  <2>5. place' = p
    BY <2>1, <2>3
  <2>6. PICK a, b : a = SessionArg(tok, None) /\ b = SessionArg(tok, path)
    OBVIOUS
  <2>7. a.token = tok /\ b.token = tok /\ b.about = path
    BY <2>6 DEF SessionArg
  <2>8. PICK u, r, g : /\ u = Request("user", None, a) /\ r = Request("permissions", None, a)
                       /\ g = Request("group", None, b)
    OBVIOUS
  <2>9. /\ u.op = "user" /\ u.arg = a /\ ~ u.served /\ u.answer = None /\ u.heard /\ Shape(u)
        /\ r.op = "permissions" /\ r.arg = a /\ ~ r.served /\ r.answer = None /\ r.heard /\ Shape(r)
        /\ g.op = "group" /\ g.arg = b /\ ~ g.served /\ g.answer = None /\ g.heard /\ Shape(g)
    BY <2>8, RequestFields
  <2>10. calls' = {u, r} \union (IF path \in RoleGroups THEN {g} ELSE {})
    BY <2>1, <2>6, <2>8 DEF FirstRequests
  <2>11. AllPending'
    <3>1. Pending(u)' /\ Pending(r)'
      BY <2>4, <2>5, <2>7, <2>9 DEF Pending
    <3>2. path \in RoleGroups => Pending(g)'
      BY <2>4, <2>5, <2>7, <2>9 DEF Pending
    <3> QED BY <2>10, <3>1, <3>2 DEF AllPending
  <2>12. PageTyped'
    BY <2>1, <2>4, <2>5, NobodyThere DEF PageTyped
  <2>13. PlaceOK' /\ UserOK'
    BY <2>1, <2>2, <2>4, <2>5, NobodyThere DEF PlaceOK, UserOK
  <2>14. DrawnOK'
    BY <2>1, <2>5, NobodyThere DEF DrawnOK, CanAccess
  <2>15. AskedFor' /\ GroupFollows'
    <3>1. u \in calls' /\ r \in calls' /\ (path \in RoleGroups => g \in calls')
      BY <2>10
    <3>2. AskedFor'
      BY <2>4, <2>5, <2>9, <3>1 DEF AskedFor
    <3>3. GroupFollows'
      BY <2>4, <2>5, <2>7, <2>9, <3>1 DEF GroupFollows
    <3> QED BY <3>2, <3>3
  <2> QED BY <2>11, <2>12, <2>13, <2>14, <2>15 DEF SInv
<1> QED BY <1>1, <1>2

LEMMA EnterLoginOK ==
  ASSUME RestTyped', NEW path \in Paths, NEW enc \in 0..1, NEW tok, token' = tok, NEW kept,
         EnterLogin(path, enc, path, tok, kept),
         Valid(tok) /\ enc # 0 => "undecoded" \in noted'
  PROVE  SInv'
<1>1. CASE ~ Valid(tok)
  BY <1>1, NoPageOK DEF EnterLogin
<1>2. CASE Valid(tok) /\ enc = 0
  BY <1>2, EnterPageOK DEF EnterLogin
<1>3. CASE Valid(tok) /\ enc # 0
  BY <1>3, NoPageOK DEF EnterLogin
<1> QED BY <1>1, <1>2, <1>3

-----------------------------------------------------------------------------
(* What the user does.                                                      *)

LEMMA PendingStays ==
  ASSUME NEW c \in calls, Pending(c), token' = token, place'.at = place.at,
         "failed" \in noted => "failed" \in noted'
  PROVE  Pending(c)'
BY DEF Pending, Shape

LEMMA OneMore ==
  ASSUME RestTyped, asked < MaxSent, asked' = asked + 1
  PROVE  asked' \in 0..MaxSent /\ asked + 1 \in 1..MaxSent
BY RequestsAssumption DEF RestTyped

LEMMA VisitPathStep ==
  ASSUME SInv, NEW path \in Paths, VisitPath(path)
  PROVE  SInv'
<1>1. /\ place.at = "page" /\ asked < MaxSent /\ asked' = asked + 1
      /\ UNCHANGED <<storage, token, expired, rule, faults>>
  BY DEF VisitPath
<1>2. RestTyped'
  BY <1>1, OneMore DEF SInv, RestTyped
<1>3. CASE {path, place.path} \subseteq RoleGroups
  <2>1. /\ place' = Place("page", path, 0, path)
        /\ calls' = calls \union {Request("group", None, SessionArg(token, path))}
        /\ noted' = noted \union {"undrawn"}
        /\ UNCHANGED <<user, group, shown>>
    BY <1>3 DEF VisitPath, SendAfter
  <2>2. PICK p : p = Place("page", path, 0, path)
    OBVIOUS
  <2>3. /\ p \in [at: {"page", "login", "callback", "nowhere"}, path: Paths, enc: 0..1,
                  wanted: Paths]
        /\ p.at = "page" /\ p.path = path /\ p.enc = 0 /\ p.wanted = path
    BY <2>2, PlaceThere
  <2>4. place' = p
    BY <2>1, <2>2
  <2>5. PICK b : b = SessionArg(token, path)
    OBVIOUS
  <2>6. PICK g : g = Request("group", None, b)
    OBVIOUS
  <2>7. /\ g.op = "group" /\ g.arg = b /\ ~ g.served /\ g.answer = None /\ g.heard /\ Shape(g)
        /\ b.about = path
    BY <2>5, <2>6, RequestFields DEF SessionArg
  <2>8. calls' = calls \union {g}
    BY <2>1, <2>5, <2>6
  <2>9. Pending(g)'
    BY <1>3, <2>3, <2>4, <2>7 DEF Pending
  <2>10. AllPending'
    <3>1. \A c \in calls : Pending(c)'
      BY <1>1, <2>1, <2>3, <2>4, PendingStays DEF SInv, AllPending
    <3> QED BY <2>8, <2>9, <3>1 DEF AllPending
  <2>11. PageTyped' /\ PlaceOK'
    BY <1>1, <2>1, <2>3, <2>4 DEF SInv, PageTyped, PlaceOK
  <2>12. UserOK' /\ DrawnOK'
    BY <1>1, <2>1, <2>3, <2>4 DEF SInv, UserOK, DrawnOK
  <2>13. AskedFor' /\ GroupFollows'
    <3>1. g \in calls' /\ place'.path = g.arg.about
      BY <2>3, <2>4, <2>7, <2>8
    <3>2. GroupFollows'
      BY <2>7, <3>1 DEF GroupFollows
    <3> QED BY <1>1, <2>1, <2>7, <2>8, <3>2 DEF SInv, AskedFor
  <2> QED BY <1>2, <2>10, <2>11, <2>12, <2>13 DEF SInv
<1>4. CASE ~ ({path, place.path} \subseteq RoleGroups)
  <2>1. EnterPage(path, token, path, calls)
    BY <1>4 DEF VisitPath
  <2>2. PICK tok : tok = token
    OBVIOUS
  <2>3. PICK kept : kept = calls
    OBVIOUS
  <2> QED BY <1>1, <1>2, <2>1, <2>2, <2>3, EnterPageOK
<1> QED BY <1>3, <1>4

LEMMA LogoutStep ==
  ASSUME SInv, Logout
  PROVE  SInv'
<1>1. /\ token' = None /\ storage' = None /\ EnterPage(place.path, None, place.path, calls)
      /\ UNCHANGED <<expired, rule, asked, faults>>
  BY DEF Logout
<1>2. RestTyped'
  BY <1>1 DEF SInv, RestTyped
<1>3. PICK path \in Paths : path = place.path
  BY DEF SInv, PageTyped
<1>4. PICK kept : kept = calls
  OBVIOUS
<1> QED BY <1>1, <1>2, <1>3, <1>4, EnterPageOK

LEMMA LogInStep ==
  ASSUME SInv, NEW account \in Accounts, LogIn(account)
  PROVE  SInv'
<1> DEFINE t == [of |-> account, n |-> asked + 1]
<1>1. /\ place.at = "login" /\ asked < MaxSent /\ asked' = asked + 1
      /\ place' = Place("callback", place.path, Redirect(place.enc), place.wanted)
      /\ calls' = {Request("exchange", None, SessionArg(None, t))}
      /\ token' = storage
      /\ UNCHANGED <<storage, expired, user, group, shown, rule, faults, noted>>
  BY DEF LogIn, SendAfter
<1>2. RestTyped'
  BY <1>1, OneMore DEF SInv, RestTyped
<1>3. t \in Tokens
  BY <1>1, OneMore DEF SInv, Tokens
<1>4. PICK path \in Paths : path = place.path /\ path = place.wanted
  BY DEF SInv, PageTyped, PlaceOK
<1>5. Redirect(place.enc) = 0
  BY DEF SInv, PageTyped, Redirect
<1>6. PICK p : p = Place("callback", path, 0, path)
  OBVIOUS
<1>7. /\ p \in [at: {"page", "login", "callback", "nowhere"}, path: Paths, enc: 0..1,
                wanted: Paths]
      /\ p.at = "callback" /\ p.path = path /\ p.enc = 0 /\ p.wanted = path
  BY <1>6, PlaceThere
<1>8. place' = p
  BY <1>1, <1>4, <1>5, <1>6
<1>9. PICK tok \in Tokens : tok = t
  BY <1>3
<1>10. PICK a : a = SessionArg(None, tok)
  OBVIOUS
<1>11. PICK e : e = Request("exchange", None, a)
  OBVIOUS
<1>12. /\ e.op = "exchange" /\ e.arg = a /\ ~ e.served /\ e.answer = None /\ e.heard /\ Shape(e)
       /\ a.about = tok
  BY <1>10, <1>11, RequestFields DEF SessionArg
<1>13. calls' = {e}
  BY <1>1, <1>9, <1>10, <1>11
<1>14. AllPending'
  BY <1>7, <1>8, <1>12, <1>13 DEF AllPending, Pending
<1>15. PageTyped' /\ PlaceOK' /\ UserOK' /\ DrawnOK' /\ AskedFor' /\ GroupFollows'
  BY <1>1, <1>7, <1>8 DEF SInv, PageTyped, PlaceOK, UserOK, DrawnOK, AskedFor, GroupFollows
<1> QED BY <1>2, <1>14, <1>15 DEF SInv

LEMMA RetryStep ==
  ASSUME SInv, Retry
  PROVE  SInv'
<1>1. /\ place.at = "callback" /\ EnterLogin(place.path, place.enc, place.wanted, token, calls)
      /\ UNCHANGED <<storage, token, expired, rule, asked, faults>>
  BY DEF Retry
<1>2. RestTyped'
  BY <1>1 DEF SInv, RestTyped
<1>3. PICK path \in Paths : path = place.path /\ path = place.wanted
  BY DEF SInv, PageTyped, PlaceOK
<1>4. place.enc = 0
  BY <1>1 DEF SInv, PlaceOK
<1>5. PICK tok, kept : tok = token /\ kept = calls
  OBVIOUS
<1>6. EnterLogin(path, 0, path, tok, kept)
  BY <1>1, <1>3, <1>4, <1>5
<1> QED BY <1>1, <1>2, <1>5, <1>6, EnterLoginOK

LEMMA LoadStep ==
  ASSUME SInv, NEW path \in Paths, Load(path)
  PROVE  SInv'
<1>1. /\ asked < MaxSent /\ asked' = asked + 1 /\ token' = storage
      /\ UNCHANGED <<storage, expired, rule, faults>>
  BY DEF Load
<1>2. RestTyped'
  BY <1>1, OneMore DEF SInv, RestTyped
<1>3. PICK tok : tok = storage
  OBVIOUS
<1>4. CASE /\ place.at = "login" /\ path = place.path
           /\ EnterLogin(path, place.enc, place.wanted, storage, {})
           /\ noted' = IF Valid(storage) THEN {"undecoded"} ELSE {}
  <2>1. path = place.wanted
    BY <1>4 DEF SInv, PlaceOK
  <2>2. PICK enc \in 0..1 : enc = place.enc
    BY DEF SInv, PageTyped
  <2>3. EnterLogin(path, enc, path, tok, {})
    BY <1>3, <1>4, <2>1, <2>2
  <2>4. Valid(tok) => "undecoded" \in noted'
    BY <1>3, <1>4
  <2> QED BY <1>1, <1>2, <1>3, <2>3, <2>4, EnterLoginOK
<1>5. CASE EnterPage(path, storage, path, {})
  BY <1>1, <1>2, <1>3, <1>5, EnterPageOK
<1> QED BY <1>4, <1>5 DEF Load

LEMMA RedrawStep ==
  ASSUME SInv, Redraw
  PROVE  SInv'
<1>1. /\ place.at = "page" /\ shown' = CanAccess(user, group, place.path)
      /\ noted' = noted \ {"undrawn"}
      /\ UNCHANGED <<storage, token, expired, place, user, group, rule, calls, asked, faults>>
  BY DEF Redraw
<1>2. CanAccess(user, group, place.path) \in BOOLEAN
  BY DEF CanAccess
<1>3. RestTyped' /\ PageTyped'
  BY <1>1, <1>2 DEF SInv, RestTyped, PageTyped
<1>4. AllPending'
  BY <1>1, PendingStays DEF SInv, AllPending
<1>5. PlaceOK' /\ UserOK' /\ AskedFor' /\ GroupFollows'
  BY <1>1 DEF SInv, PlaceOK, UserOK, AskedFor, GroupFollows
<1>6. DrawnOK'
  BY <1>1 DEF DrawnOK, CanAccess
<1> QED BY <1>3, <1>4, <1>5, <1>6 DEF SInv

-----------------------------------------------------------------------------
(* What happens meanwhile.                                                  *)

LEMMA MeanwhileStep ==
  ASSUME SInv, RestTyped', UNCHANGED <<token, place, user, group, shown, rule, calls, noted>>
  PROVE  SInv'
<1>1. PageTyped'
  BY DEF SInv, PageTyped
<1>2. AllPending'
  BY PendingStays DEF SInv, AllPending
<1>3. PlaceOK' /\ UserOK' /\ AskedFor' /\ GroupFollows' /\ DrawnOK'
  BY DEF SInv, PlaceOK, UserOK, AskedFor, GroupFollows, DrawnOK, CanAccess
<1> QED BY <1>1, <1>2, <1>3 DEF SInv

LEMMA ExpireStep ==
  ASSUME SInv, NEW tok \in {token, storage}, Expire(tok)
  PROVE  SInv'
<1>1. /\ tok # None /\ expired' = expired \union {tok}
      /\ UNCHANGED <<storage, token, place, user, group, shown, rule, calls, asked, faults, noted>>
  BY DEF Expire, Valid, requestVars
<1>2. RestTyped'
  BY <1>1 DEF SInv, RestTyped
<1> QED BY <1>1, <1>2, MeanwhileStep

LEMMA OtherTabStep ==
  ASSUME SInv, NEW account \in Accounts \union {None}, OtherTab(account)
  PROVE  SInv'
<1>1. /\ \/ storage' = None /\ asked' = asked
         \/ /\ account \in Accounts /\ asked < MaxSent /\ asked' = asked + 1
            /\ storage' = [of |-> account, n |-> asked + 1]
      /\ UNCHANGED <<token, expired, place, user, group, shown, rule, calls, faults, noted>>
  BY DEF OtherTab
<1>2. storage' \in Tokens \union {None} /\ asked' \in 0..MaxSent
  BY <1>1, OneMore DEF SInv, RestTyped, Tokens
<1>3. RestTyped'
  BY <1>1, <1>2 DEF SInv, RestTyped
<1> QED BY <1>1, <1>3, MeanwhileStep

(* The server answers, or a request fails.                                  *)
LEMMA AnswerOK ==
  ASSUME SInv, NEW c \in calls, NEW a, NEW u, u = [c EXCEPT !.served = TRUE, !.answer = a],
         calls' = (calls \ {c}) \union {u}, UNCHANGED <<sessionVars, asked>>,
         faults' \in 0..MaxFaults, noted' \in {noted, noted \union {"failed"}},
         a = None => "failed" \in noted' \/ c.op = "exchange",
         c.op \in {"user", "permissions"} => a \in {None, token.of},
         c.op \in {"group", "exchange"} => a \in {None, c.arg.about}
  PROVE  SInv'
<1>1. Pending(c) /\ Shape(c)
  BY DEF SInv, AllPending, Pending
<1>2. /\ u.op = c.op /\ u.from = c.from /\ u.arg = c.arg /\ u.served
      /\ u.answer = a /\ (u.heard <=> c.heard) /\ Shape(u)
  BY <1>1, AnsweredFields
<1>3. UNCHANGED <<storage, token, expired, place, user, group, shown, rule, asked>>
  BY DEF sessionVars
<1>4. Pending(u)'
  BY <1>1, <1>2, <1>3 DEF Pending, Shape
<1>5. AllPending'
  <2>1. \A d \in calls : Pending(d)'
    BY <1>3, PendingStays DEF SInv, AllPending
  <2> QED BY <1>4, <2>1 DEF AllPending
<1>6. RestTyped' /\ PageTyped'
  BY <1>3 DEF SInv, RestTyped, PageTyped
<1>7. PlaceOK' /\ UserOK' /\ DrawnOK'
  BY <1>3 DEF SInv, PlaceOK, UserOK, DrawnOK, CanAccess
<1>8. AskedFor' /\ GroupFollows'
  <2>1. /\ \A op : (\E d \in calls : d.op = op) => \E d \in calls' : d.op = op
        /\ \A x : (\E d \in calls : d.op = "group" /\ d.arg.about = x)
                  => \E d \in calls' : d.op = "group" /\ d.arg.about = x
    BY <1>2
  <2> QED BY <1>3, <2>1 DEF SInv, AskedFor, GroupFollows
<1> QED BY <1>5, <1>6, <1>7, <1>8 DEF SInv

LEMMA ServeSessionStep ==
  ASSUME SInv, NEW c \in calls, ServeSession(c)
  PROVE  SInv'
<1>1. UNCHANGED <<sessionVars, asked>> /\ faults' = faults
  BY DEF ServeSession
<1>2. Pending(c) /\ faults \in 0..MaxFaults
  BY DEF SInv, AllPending, RestTyped
<1>3. CASE Answer(c, Said(c)) /\ UNCHANGED noted
  <2>1. PICK a : a = Said(c)
    OBVIOUS
  <2>2. c.op \in {"user", "permissions"} => a = token.of /\ a # None
    BY <1>2, <2>1, SessionAssumption DEF Said, Pending, SInv, PlaceOK, RestTyped, Tokens
  <2>3. c.op = "group" => a = c.arg.about /\ a # None
    BY <1>2, <2>1, SessionAssumption DEF Said, Pending
  <2>4. c.op = "exchange" => a = c.arg.about
    BY <2>1 DEF Said
  <2>5. calls' = (calls \ {c}) \union {[c EXCEPT !.served = TRUE, !.answer = a]}
    BY <1>3, <2>1 DEF Answer
  <2>6. c.op \in {"user", "permissions", "group", "exchange"}
    BY <1>2 DEF Pending
  <2> QED BY <1>1, <1>2, <1>3, <2>2, <2>3, <2>4, <2>5, <2>6, AnswerOK
<1>4. CASE Answer(c, None) /\ noted' = noted \union {"failed"}
  BY <1>1, <1>2, <1>4, AnswerOK DEF Answer
<1> QED BY <1>3, <1>4 DEF ServeSession

LEMMA LoseSessionStep ==
  ASSUME SInv, NEW c \in calls, LoseSession(c)
  PROVE  SInv'
<1>1. /\ UNCHANGED <<sessionVars, asked>> /\ noted' = noted \union {"failed"}
      /\ calls' = (calls \ {c}) \union {[c EXCEPT !.served = TRUE, !.answer = None]}
      /\ faults < MaxFaults /\ faults' = faults + 1
  BY DEF LoseSession, Fail, Answer
<1>2. faults' \in 0..MaxFaults
  BY <1>1, RequestsAssumption DEF SInv, RestTyped
<1> QED BY <1>1, <1>2, AnswerOK

-----------------------------------------------------------------------------
(* The answers.                                                             *)

(* A request is answered to the page, which shows what u is by now.         *)
LEMMA UserBecomesOK ==
  ASSUME SInv, NEW c \in calls, NEW u, UserBecomes(c, u),
         place.at = "page", token.of # None,
         u \in [of: Accounts \union {None}, rules: Accounts \union {None}],
         {u.of, u.rules} \subseteq {token.of, None},
         \/ c.op = "user" /\ u.of = token.of /\ u.rules = user.rules
         \/ c.op = "permissions" /\ u.rules = token.of /\ u.of = user.of
  PROVE  SInv'
<1>1. /\ user' = u /\ shown' = CanAccess(u, group, place.path) /\ calls' = calls \ {c}
      /\ noted' = noted \ {"undrawn"}
      /\ UNCHANGED <<storage, token, expired, place, group, rule, asked, faults>>
  BY DEF UserBecomes
<1>2. CanAccess(u, group, place.path) \in BOOLEAN
  BY DEF CanAccess
<1>3. RestTyped' /\ PageTyped'
  BY <1>1, <1>2 DEF SInv, RestTyped, PageTyped
<1>4. AllPending'
  BY <1>1, PendingStays DEF SInv, AllPending
<1>5. PlaceOK' /\ UserOK'
  BY <1>1 DEF SInv, PlaceOK, UserOK
<1>6. DrawnOK'
  BY <1>1 DEF DrawnOK, CanAccess
<1>7. AskedFor' /\ GroupFollows'
  BY <1>1 DEF SInv, AskedFor, GroupFollows
<1> QED BY <1>3, <1>4, <1>5, <1>6, <1>7 DEF SInv

LEMMA TokenThere ==
  ASSUME SInv, place.at = "page"
  PROVE  token.of \in Accounts /\ token.of # None
BY SessionAssumption DEF SInv, PlaceOK, RestTyped, Tokens

LEMMA UserAnsweredStep ==
  ASSUME SInv, NEW c \in calls, UserAnswered(c) \/ PermissionsAnswered(c)
  PROVE  SInv'
<1>1. c.op \in {"user", "permissions"} /\ c.answer # None
  BY DEF UserAnswered, PermissionsAnswered, Heard
<1>2. place.at = "page" /\ c.answer = token.of
  BY <1>1 DEF SInv, AllPending, Pending
<1>3. token.of \in Accounts /\ token.of # None
  BY <1>2, TokenThere
<1>4. user \in [of: Accounts \union {None}, rules: Accounts \union {None}]
      /\ {user.of, user.rules} \subseteq {token.of, None}
  BY <1>2 DEF SInv, PageTyped, UserOK
<1>5. CASE UserAnswered(c)
  <2>1. PICK u : u = [user EXCEPT !.of = c.answer]
    OBVIOUS
  <2>2. /\ u \in [of: Accounts \union {None}, rules: Accounts \union {None}]
        /\ u.of = token.of /\ u.rules = user.rules
    BY <1>2, <1>3, <1>4, <2>1
  <2>3. UserBecomes(c, u) /\ c.op = "user"
    BY <1>5, <2>1 DEF UserAnswered, Heard
  <2>4. {u.of, u.rules} \subseteq {token.of, None}
    BY <1>4, <2>2
  <2> QED BY <1>2, <1>3, <2>2, <2>3, <2>4, UserBecomesOK
<1>6. CASE PermissionsAnswered(c)
  <2>1. PICK u : u = [user EXCEPT !.rules = c.answer]
    OBVIOUS
  <2>2. /\ u \in [of: Accounts \union {None}, rules: Accounts \union {None}]
        /\ u.rules = token.of /\ u.of = user.of
    BY <1>2, <1>3, <1>4, <2>1
  <2>3. UserBecomes(c, u) /\ c.op = "permissions"
    BY <1>6, <2>1 DEF PermissionsAnswered, Heard
  <2>4. {u.of, u.rules} \subseteq {token.of, None}
    BY <1>4, <2>2
  <2> QED BY <1>2, <1>3, <2>2, <2>3, <2>4, UserBecomesOK
<1> QED BY <1>5, <1>6

LEMMA GroupAnsweredStep ==
  ASSUME SInv, NEW c \in calls, GroupAnswered(c)
  PROVE  SInv'
<1>1. /\ c.op = "group" /\ c.answer # None /\ group' = c.answer /\ calls' = calls \ {c}
      /\ noted' = noted \union {"undrawn"} \union Overtakes(c)
      /\ UNCHANGED <<storage, token, expired, place, user, shown, rule, asked, faults>>
  BY DEF GroupAnswered, Heard
<1>2. place.at = "page" /\ c.answer \in RoleGroups /\ c.answer = c.arg.about
  BY <1>1 DEF SInv, AllPending, Pending
<1>3. RestTyped' /\ PageTyped'
  BY <1>1, <1>2 DEF SInv, RestTyped, PageTyped
<1>4. AllPending'
  BY <1>1, PendingStays DEF SInv, AllPending
<1>5. PlaceOK' /\ UserOK' /\ DrawnOK'
  BY <1>1, <1>2 DEF SInv, PlaceOK, UserOK, DrawnOK
<1>6. AskedFor'
  BY <1>1 DEF SInv, AskedFor
<1>7. GroupFollows'
  <2>1. CASE c.arg.about = place.path
    BY <1>1, <1>2, <2>1 DEF GroupFollows
  <2>2. CASE c.arg.about # place.path
    BY <1>1, <1>2, <2>2 DEF GroupFollows, Overtakes, Requests
  <2> QED BY <2>1, <2>2
<1> QED BY <1>3, <1>4, <1>5, <1>6, <1>7 DEF SInv

LEMMA ExchangedStep ==
  ASSUME SInv, NEW c \in calls, Exchanged(c)
  PROVE  SInv'
<1>1. /\ c.op = "exchange" /\ c.answer # None /\ token' = c.answer /\ storage' = c.answer
      /\ UNCHANGED <<expired, rule, asked, faults>>
  BY DEF Exchanged, Heard
<1>2. place.at = "callback" /\ c.answer \in Tokens
  BY <1>1 DEF SInv, AllPending, Pending
<1>3. place.enc = 0
  BY <1>2 DEF SInv, PlaceOK
<1>4. PICK path \in Paths : path = place.path /\ path = place.wanted
  BY DEF SInv, PageTyped, PlaceOK
<1>5. EnterPage(path, c.answer, path, {})
  BY <1>3, <1>4 DEF Exchanged
<1>6. RestTyped'
  BY <1>1, <1>2 DEF SInv, RestTyped
<1> QED BY <1>1, <1>5, <1>6, EnterPageOK

LEMMA IgnoredSessionStep ==
  ASSUME SInv, NEW c \in calls, Ignored(c), UNCHANGED sessionVars
  PROVE  SInv'
<1>1. /\ c.served /\ (c.answer = None \/ ~ c.heard) /\ calls' = calls \ {c}
      /\ UNCHANGED <<storage, token, expired, place, user, group, shown, rule, asked, faults, noted>>
  BY DEF Ignored, sessionVars
<1>2. "failed" \in noted \/ place.at = "callback"
  BY <1>1 DEF SInv, AllPending, Pending
<1>3. RestTyped' /\ PageTyped'
  BY <1>1 DEF SInv, RestTyped, PageTyped
<1>4. AllPending'
  BY <1>1, PendingStays DEF SInv, AllPending
<1>5. PlaceOK' /\ UserOK' /\ DrawnOK' /\ AskedFor' /\ GroupFollows'
  BY <1>1, <1>2 DEF SInv, PlaceOK, UserOK, DrawnOK, AskedFor, GroupFollows, CanAccess
<1> QED BY <1>3, <1>4, <1>5 DEF SInv

LEMMA SessionStep == SInv /\ SessionNext => SInv'
BY VisitPathStep, LoadStep, LogoutStep, RetryStep, RedrawStep, LogInStep, OtherTabStep,
   ExpireStep, ServeSessionStep, LoseSessionStep, UserAnsweredStep, GroupAnsweredStep,
   ExchangedStep, IgnoredSessionStep DEF SessionNext

LEMMA SessionStart == SessionInit => SInv
<1> SUFFICES ASSUME SessionInit PROVE SInv
  OBVIOUS
<1>1. PICK path \in Paths : place = Place("login", path, 1, path)
  BY DEF SessionInit
<1>2. PICK p : p = Place("login", path, 1, path)
  OBVIOUS
<1>3. /\ p \in [at: {"page", "login", "callback", "nowhere"}, path: Paths, enc: 0..1,
                wanted: Paths]
      /\ p.at = "login" /\ p.path = path /\ p.enc = 1 /\ p.wanted = path
  BY <1>2, PlaceThere
<1>4. place = p /\ user = Nobody /\ group = None /\ shown = FALSE /\ calls = {}
  BY <1>1, <1>2 DEF SessionInit
<1>5. RestTyped /\ PageTyped
  <2>1. 0 \in 0..MaxSent /\ 0 \in 0..MaxFaults
    BY RequestsAssumption
  <2>2. RestTyped
    BY <2>1 DEF SessionInit, RestTyped
  <2>3. PageTyped
    BY <1>3, <1>4, NobodyThere DEF PageTyped
  <2> QED BY <2>2, <2>3
<1>6. AllPending /\ PlaceOK /\ UserOK /\ DrawnOK /\ AskedFor /\ GroupFollows
  BY <1>3, <1>4 DEF AllPending, PlaceOK, UserOK, DrawnOK, AskedFor, GroupFollows
<1> QED BY <1>5, <1>6 DEF SInv

LEMMA AlwaysSInv == Spec => [](screen = "session" => SInv)
<1>1. Init => (screen = "session" => SInv)
  BY SessionStart DEF Init
<1>2. (screen = "session" => SInv) /\ [Next]_vars => (screen = "session" => SInv)'
  <2>1. CASE UNCHANGED vars
    BY <2>1 DEF vars, sessionVars, requestVars, SInv, RestTyped, PageTyped, AllPending, Pending,
                Shape, PlaceOK, UserOK, DrawnOK, AskedFor, GroupFollows, CanAccess
  <2>2. CASE Next
    BY <2>2, SessionStep DEF Next
  <2> QED BY <2>1, <2>2
<1> QED BY <1>1, <1>2, PTL DEF Spec

-----------------------------------------------------------------------------
(* What a page shows of a user is that of the account of the tab's token,   *)
(* whoever was logged on before and whatever was still to be answered       *)
(* (CurrentUserProvider, MustLogon).                                        *)
THEOREM UserOfTheToken == Spec => []SessionOfOneAccount
<1>1. (screen = "session" => SInv) => SessionOfOneAccount
  BY NobodyThere DEF SInv, PlaceOK, UserOK, PageTyped, SessionOfOneAccount, UserIsOfToken
<1> QED BY <1>1, AlwaysSInv, PTL

(* Whoever logs in is led to the page that was left or asked for, unless    *)
(* the login page was loaded again after another tab had logged in          *)
(* (MustLogon, LoginCard, AuthProviderCallback).                            *)
THEOREM LedBack == Spec => []LoginLeadsBack
<1>1. (screen = "session" => SInv) => LoginLeadsBack
  BY DEF SInv, PlaceOK, LoginLeadsBack, BackToThePage
<1> QED BY <1>1, AlwaysSInv, PTL

(* A control that was drawn since the group was answered is only shown to   *)
(* those whom the server lets use it, and to all of them once everything is *)
(* answered and nothing failed (AccessControl, createCanAccess), except     *)
(* where GroupContext holds another group than the page's.                  *)
THEOREM ControlsAllowed == Spec => []ControlsAreAllowed
<1>1. ASSUME SInv PROVE ShownToThoseWhoMay
  <2> SUFFICES ASSUME place.at = "page", "undrawn" \notin noted,
                      ~ GroupIsAnothers
               PROVE  /\ shown => May(token.of, place.path)
                      /\ calls = {} /\ noted = {} => shown = May(token.of, place.path)
    BY DEF ShownToThoseWhoMay
  <2>1. shown \in BOOLEAN /\ (shown <=> CanAccess(user, group, place.path))
    BY <1>1 DEF SInv, DrawnOK, PageTyped
  <2>2. token.of \in Accounts /\ token.of # None
    BY <1>1, TokenThere
  <2>3. user.of \in {token.of, None}
    BY <1>1 DEF SInv, UserOK
  <2>4. place.path \in RoleGroups \union {Home}
    BY <1>1 DEF SInv, PageTyped, Paths
  <2>5. CanAccess(user, group, place.path) => May(token.of, place.path)
    <3>1. place.path = Home \/ group \in {place.path, None}
      <4> SUFFICES ASSUME place.path # Home, group \notin {place.path, None}
                   PROVE  FALSE
        OBVIOUS
      <4>1. "failed" \notin noted /\ "overtaken" \notin noted /\ \A c \in calls : c.op # "group"
        BY DEF GroupIsAnothers, Requests
      <4> QED BY <1>1, <2>4, <4>1 DEF SInv, GroupFollows
    <3> QED BY <2>2, <2>3, <2>4, <3>1 DEF CanAccess, May
  <2>6. ASSUME calls = {}, noted = {}
        PROVE  May(token.of, place.path) => CanAccess(user, group, place.path)
    <3>1. user.of = token.of /\ user.rules # None
      BY <1>1, <2>3, <2>6 DEF SInv, AskedFor, GroupFollows
    <3>2. place.path # Home => group = place.path /\ group # None
      BY <1>1, <2>4, <2>6, SessionAssumption DEF SInv, GroupFollows
    <3> QED BY <2>2, <3>1, <3>2 DEF CanAccess, May
  <2>7. May(token.of, place.path) \in BOOLEAN
    <3>1. CASE place.path = Home
      BY <3>1 DEF May
    <3>2. CASE place.path # Home
      BY <3>2 DEF May
    <3> QED BY <3>1, <3>2
  <2> QED BY <2>1, <2>5, <2>6, <2>7
<1>2. (screen = "session" => SInv) => ControlsAreAllowed
  BY <1>1 DEF ControlsAreAllowed
<1> QED BY <1>2, AlwaysSInv, PTL
=============================================================================

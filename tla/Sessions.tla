------------------------------ MODULE Sessions ------------------------------
(***************************************************************************)
(* The sessions of one account and one browser: the RefreshToken rows that *)
(* services/auth.service.ts and services/sessionService.ts keep, the       *)
(* cookies that controller/auth.controller.ts sets, and the tabs that call *)
(* it through lib/api.ts and store/auth.store.ts.                          *)
(*                                                                         *)
(* Tokens are numbers in the order of their creation, a row is the token   *)
(* whose hash it holds.  The tabs of the browser share its cookies; the    *)
(* access token of a tab lives in its memory.  A request takes the cookie  *)
(* along when it is sent, the server reads and writes in separate          *)
(* statements, and the answer may be lost.  Passwords and profiles are     *)
(* left out.                                                               *)
(***************************************************************************)
EXTENDS Integers

CONSTANTS Tabs, NoTab,
          Requests,  \* requests that may be under way at a time
          MaxLogins, \* bound: sessions created
          MaxTokens  \* bound: refresh tokens created

ASSUME SessionAssumption == MaxLogins \in Nat /\ MaxTokens \in Nat /\ NoTab \notin Tabs

VARIABLES
  row,      \* per session, the token its row holds; 0 before and after it exists
  logins,   \* the sessions created so far
  issued,   \* the refresh tokens created so far
  cookie,   \* the refreshToken cookie, 0 for none
  marker,   \* the has_session cookie
  tab,      \* per tab: an access token in memory, a refresh in flight, refreshes
            \* blocked by the rate limit
  sent,     \* the requests under way
  spent,    \* per token, how often it was exchanged for another
  smooth    \* no answer was lost and no request sent while another was under way

sessionVars == <<row, logins, issued, cookie, marker, tab, sent, spent, smooth>>

Sessions == 1..MaxLogins
Tokens == 1..MaxTokens

Free == [op |-> "none", from |-> NoTab, token |-> 0, of |-> 0, answer |-> "none", fresh |-> 0]

FreshPage == [access |-> FALSE, flight |-> FALSE, blocked |-> FALSE]

SessionTypeOK ==
  /\ row \in [Sessions -> 0..MaxTokens]
  /\ logins \in 0..MaxLogins /\ issued \in 0..MaxTokens
  /\ cookie \in 0..issued /\ marker \in BOOLEAN
  /\ tab \in [Tabs -> [access : BOOLEAN, flight : BOOLEAN, blocked : BOOLEAN]]
  /\ sent \in [Requests ->
       [op : {"none", "signin", "refresh", "logout", "logoutAll", "revoke"},
        from : Tabs \cup {NoTab}, token : 0..MaxTokens, of : 0..MaxLogins,
        answer : {"none", "ok", "refused", "limited"}, fresh : 0..MaxTokens]]
  /\ spent \in [Tokens -> Nat]
  /\ smooth \in BOOLEAN

SessionInit ==
  /\ row = [s \in Sessions |-> 0]
  /\ logins = 0 /\ issued = 0
  /\ cookie = 0 /\ marker = FALSE
  /\ tab = [t \in Tabs |-> FreshPage]
  /\ sent = [r \in Requests |-> Free]
  /\ spent = [k \in Tokens |-> 0]
  /\ smooth = TRUE

-----------------------------------------------------------------------------
(* The browser sends.                                                      *)

Send(t, op, s) ==
  \E r \in Requests :
    /\ sent[r] = Free
    /\ sent' = [sent EXCEPT ![r] = [Free EXCEPT !.op = op, !.from = t, !.token = cookie,
                                                !.of = s]]
    /\ smooth' = (smooth /\ \A q \in Requests : sent[q] = Free)
    /\ UNCHANGED <<row, logins, issued, cookie, marker, spent>>

\* The form, the tester login, or the way back from Google or GitHub.
SignIn(t) == Send(t, "signin", 0) /\ UNCHANGED tab

\* One refresh at a time in a tab; whoever asks meanwhile waits for its result.
RefreshAccessToken(t) ==
  /\ ~tab[t].blocked /\ ~tab[t].flight
  /\ tab' = [tab EXCEPT ![t].flight = TRUE]
  /\ Send(t, "refresh", 0)

\* On a page load, if the marker says that there is a cookie to send.
InitApiAuth(t) == tab[t] = FreshPage /\ marker /\ RefreshAccessToken(t)

\* A call is answered 401, for want of a token or because it has run out, or the
\* socket asks for a new token before it connects.
FetchX(t) == RefreshAccessToken(t)

\* Requests of a tab that is signed in: the profile page revokes any session.
Revoke(t, s) == tab[t].access /\ s <= logins /\ Send(t, "revoke", s) /\ UNCHANGED tab

LogoutAllRequest(t) == tab[t].access /\ Send(t, "logoutAll", 0) /\ UNCHANGED tab

\* The endpoint takes the cookie alone.
LogoutRequest(t) == Send(t, "logout", 0) /\ UNCHANGED tab

\* A page is loaded anew: its memory is gone, and so is who waits for its answers.
Orphaned(t) ==
  [r \in Requests |->
     CASE sent[r].from # t -> sent[r]
       [] sent[r].from = t /\ sent[r].answer = "none" -> [sent[r] EXCEPT !.from = NoTab]
       [] OTHER -> Free]

LoadPage(t) ==
  /\ tab[t] # FreshPage
  /\ tab' = [tab EXCEPT ![t] = FreshPage]
  /\ sent' = Orphaned(t)
  /\ smooth' = (smooth /\ sent' = sent)
  /\ UNCHANGED <<row, logins, issued, cookie, marker, spent>>

\* The sign-out of the page tells the server nothing: the row and the httpOnly
\* cookie stay.
SignOut(t) ==
  /\ tab[t].access
  /\ marker' = FALSE
  /\ tab' = [tab EXCEPT ![t] = FreshPage]
  /\ sent' = Orphaned(t)
  /\ smooth' = (smooth /\ sent' = sent)
  /\ UNCHANGED <<row, logins, issued, cookie, spent>>

\* The window of the rate limit is over.
Unblock(t) ==
  /\ tab[t].blocked
  /\ tab' = [tab EXCEPT ![t].blocked = FALSE]
  /\ UNCHANGED <<row, logins, issued, cookie, marker, sent, spent, smooth>>

-----------------------------------------------------------------------------
(* The server handles.                                                     *)

Unanswered(r, op) == sent[r].op = op /\ sent[r].answer = "none"

\* Nobody receives the answer to a page that is gone.
Answer(r, answer, fresh) ==
  sent' = [sent EXCEPT ![r] = IF @.from = NoTab THEN Free
                              ELSE [@ EXCEPT !.answer = answer, !.fresh = fresh]]

\* The request is not authenticated or not valid, or the database fails: the page that
\* asked for a refresh has to act on that, others show an error.
Refuse(r) ==
  /\ sent[r].op # "none" /\ sent[r].answer = "none"
  /\ IF sent[r].op = "refresh" THEN Answer(r, "refused", 0)
     ELSE sent' = [sent EXCEPT ![r] = Free]
  /\ UNCHANGED <<row, logins, issued, cookie, marker, tab, spent, smooth>>

\* The middleware stops a refresh that is over its rate before it is handled.
Limit(r) ==
  /\ Unanswered(r, "refresh") /\ sent[r].of = 0
  /\ Answer(r, "limited", 0)
  /\ UNCHANGED <<row, logins, issued, cookie, marker, tab, spent, smooth>>

CreateSession(r) ==
  /\ Unanswered(r, "signin")
  /\ logins < MaxLogins /\ issued < MaxTokens
  /\ logins' = logins + 1 /\ issued' = issued + 1
  /\ row' = [row EXCEPT ![logins'] = issued']
  /\ Answer(r, "ok", issued')
  /\ UNCHANGED <<cookie, marker, tab, spent, smooth>>

Holder(k) == {s \in Sessions : k # 0 /\ row[s] = k}

\* refreshAccessToken reads the row of the token, and deletes it if it is past its
\* date: how long ago it was made is left open.
FindSession(r) ==
  /\ Unanswered(r, "refresh") /\ sent[r].of = 0
  /\ LET found == Holder(sent[r].token)
     IN \/ /\ row' = [s \in Sessions |-> IF s \in found THEN 0 ELSE row[s]]
           /\ Answer(r, "refused", 0)
        \/ /\ \E s \in found : sent' = [sent EXCEPT ![r].of = s]
           /\ UNCHANGED row
  /\ UNCHANGED <<logins, issued, cookie, marker, tab, spent, smooth>>

\* Mutant of Rotate: the update takes the row that was found.
RotateFound(r) ==
  LET s == sent[r].of
  IN /\ Unanswered(r, "refresh") /\ s # 0 /\ issued < MaxTokens
     /\ issued' = issued + 1
     /\ row' = [row EXCEPT ![s] = issued']
     /\ spent' = [spent EXCEPT ![sent[r].token] = @ + 1]
     /\ Answer(r, "ok", issued')
     /\ UNCHANGED <<logins, cookie, marker, tab, smooth>>

\* The update looks the token up again: it finds nothing if the row was rotated or
\* deleted since.
Rotate(r) ==
  /\ Unanswered(r, "refresh") /\ sent[r].of # 0 /\ issued < MaxTokens
  /\ IF Holder(sent[r].token) = {}
       THEN /\ Answer(r, "refused", 0)
            /\ UNCHANGED <<row, issued, spent>>
       ELSE \E s \in Holder(sent[r].token) :
              /\ issued' = issued + 1
              /\ row' = [row EXCEPT ![s] = issued']
              /\ spent' = [spent EXCEPT ![sent[r].token] = @ + 1]
              /\ Answer(r, "ok", issued')
  /\ UNCHANGED <<logins, cookie, marker, tab, smooth>>

Logout(r) ==
  /\ Unanswered(r, "logout")
  /\ row' = [s \in Sessions |-> IF s \in Holder(sent[r].token) THEN 0 ELSE row[s]]
  /\ Answer(r, "ok", 0)
  /\ UNCHANGED <<logins, issued, cookie, marker, tab, spent, smooth>>

LogoutAll(r) ==
  /\ Unanswered(r, "logoutAll")
  /\ row' = [s \in Sessions |-> 0]
  /\ Answer(r, "ok", 0)
  /\ UNCHANGED <<logins, issued, cookie, marker, tab, spent, smooth>>

DeleteSession(r) ==
  /\ Unanswered(r, "revoke") /\ row[sent[r].of] # 0
  /\ row' = [row EXCEPT ![sent[r].of] = 0]
  /\ sent' = [sent EXCEPT ![r] = Free]
  /\ UNCHANGED <<logins, issued, cookie, marker, tab, spent, smooth>>

-----------------------------------------------------------------------------
(* The browser receives.                                                   *)

\* Mutant of Cookies: a token that was rotated stays in the cookie.
CookiesKept(r) ==
  /\ cookie' = IF sent[r].op = "refresh" THEN cookie ELSE sent[r].fresh
  /\ marker' = (sent[r].fresh # 0)

\* The cookies come with the answer, setRefreshTokenCookie and clearCookie, before
\* the page reads it.
Cookies(r) ==
  cookie' = sent[r].fresh /\ marker' = (sent[r].fresh # 0)

\* A page that asked for a refresh keeps its token if the server was busy, and is
\* signed out by any other refusal, a 500 as well as a 401.
Receive(r) ==
  LET t == sent[r].from
      q == sent[r]
  IN /\ q.answer # "none"
     /\ CASE q.op = "refresh" /\ q.answer = "refused" ->
               /\ tab' = [tab EXCEPT ![t].flight = FALSE, ![t].access = FALSE]
               /\ marker' = FALSE /\ UNCHANGED cookie
          [] q.op = "refresh" /\ q.answer = "limited" ->
               /\ tab' = [tab EXCEPT ![t].flight = FALSE, ![t].blocked = TRUE]
               /\ UNCHANGED <<cookie, marker>>
          [] q.op = "refresh" /\ q.answer = "ok" ->
               /\ tab' = [tab EXCEPT ![t].flight = FALSE, ![t].access = TRUE]
               /\ Cookies(r)
          [] q.op = "signin" ->
               /\ tab' = [tab EXCEPT ![t].access = TRUE]
               /\ Cookies(r)
          [] OTHER -> Cookies(r) /\ UNCHANGED tab
     /\ sent' = [sent EXCEPT ![r] = Free]
     /\ UNCHANGED <<row, logins, issued, spent, smooth>>

\* The connection fails, before or after the server has done its part.  The page keeps
\* what it has.
Lose(r) ==
  LET t == sent[r].from
  IN /\ t # NoTab
     /\ tab' = [tab EXCEPT ![t].flight = @ /\ sent[r].op # "refresh"]
     /\ sent' = [sent EXCEPT ![r] = Free]
     /\ smooth' = FALSE
     /\ UNCHANGED <<row, logins, issued, cookie, marker, spent>>

SessionNext ==
  \/ \E t \in Tabs :
       \/ SignIn(t) \/ InitApiAuth(t) \/ FetchX(t) \/ LogoutAllRequest(t)
       \/ LogoutRequest(t) \/ LoadPage(t) \/ SignOut(t) \/ Unblock(t)
  \/ \E t \in Tabs, s \in Sessions : Revoke(t, s)
  \/ \E r \in Requests :
       \/ Refuse(r) \/ Limit(r) \/ CreateSession(r) \/ FindSession(r) \/ Rotate(r) \/ Logout(r)
       \/ LogoutAll(r) \/ DeleteSession(r) \/ Receive(r) \/ Lose(r)

SessionSpec == SessionInit /\ [][SessionNext]_sessionVars

-----------------------------------------------------------------------------

\* A refresh token is exchanged once, however many tabs send it at a time and
\* whatever they read before another of them rotated it.
ExchangedOnce == \A k \in Tokens : spent[k] <= 1

\* As long as requests follow each other and none is lost, the cookie of the browser is
\* the token its newest session holds, through sign-ins, reloads, sign-outs of the page,
\* refusals and rotations, until the session is ended.
CookieFollows ==
  smooth /\ (\A r \in Requests : sent[r] = Free) /\ logins > 0 /\ row[logins] # 0 =>
    cookie = row[logins]

=============================================================================

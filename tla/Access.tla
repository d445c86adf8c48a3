------------------------------- MODULE Access -------------------------------
(***************************************************************************)
(* The ways into one account: its password and the links that reset it,    *)
(* its second factor, the sessions of its user's browsers, and the mail    *)
(* that the server sends to it.                                            *)
(*                                                                         *)
(*   server/src/routes/localAuth.ts     login, codes, reset, second factor *)
(*   server/src/routes/auth.ts          logout                             *)
(*   server/src/auth/sessionStore/SqliteSessionStore.ts                    *)
(*   server/src/repos/impl/UserRepoImpl.ts                                 *)
(*   server/src/scheduler.ts, services/emailService.ts,                    *)
(*   server/src/routes/emailWebhook.ts  reminders, suppression, bounces    *)
(*   web/src/pages/Login.tsx, ForgotPassword.tsx, ResetPassword.tsx,       *)
(*   Settings.tsx (TotpCard)            what the pages let the user send   *)
(*                                                                         *)
(* The database is SQLite, so a request is one action unless it waits for  *)
(* argon2, for the drawing of a QR code or, as "work", for some service.   *)
(* express-session gives a request a copy of its session. At the end it    *)
(* stores a copy that was changed ("set") and touches one that was not;    *)
(* passport's login puts a new session in the place of the old one.        *)
(* Passwords, secrets, links and session ids are numbered as they are      *)
(* made; a code is the secret that makes it.                               *)
(***************************************************************************)
EXTENDS Integers, Sequences

CONSTANTS
  Browser, Tab,
  BrowserOf,     \* Tab -> the browser whose cookie it sends
  Ops,           \* what the user of the instance does
  MaxPasswords,  \* bound: passwords chosen, the first one at the sign-up
  MaxSecrets,    \* bound: secrets of the second factor drawn
  MaxTokens,     \* bound: reset links asked for
  MaxSids,       \* bound: sessions ever made
  MaxRequests,   \* bound: requests of the pages that may change something
  MaxFaults,     \* bound: crashes and mails that fail or bounce
  None

ASSUME AccessAssumption ==
  /\ BrowserOf \in [Tab -> Browser]
  /\ MaxPasswords \in Nat \ {0}
  /\ \A bound \in {MaxSecrets, MaxTokens, MaxSids, MaxRequests, MaxFaults} : bound \in Nat
  /\ None \notin Nat

VARIABLES
  account,   \* users, user_totp, subscriptions: what belongs to the user
  tokens,    \* password_reset_tokens, in the order they were issued
  sessions,  \* user_sessions: sid -> session
  cookie,    \* kml.sid of each browser
  pages,     \* what each tab shows
  calls,     \* the request a tab waits for, if there is one
  mails,     \* mail on its way to SES, for which nobody waits
  known,     \* secrets in the user's app, links in the user's mailbox
  past       \* history and bounds, see TypeOK

vars == <<account, tokens, sessions, cookie, pages, calls, mails, known, past>>

-----------------------------------------------------------------------------
Password == 1..MaxPasswords
Secret == 1..MaxSecrets
Token == 1..MaxTokens
Sid == 1..MaxSids

Totp == [secret : Secret, enabled : BOOLEAN]
Session == [user : BOOLEAN, pending : {"no", "fresh", "expired"}]

\* "signin", "code": the login page. "off", "on", "setup", "disabling": the card of the settings.
Page == [view : {"signin", "code", "off", "on", "setup", "disabling", "reset", "other"},
         secret : Secret \cup {None}, token : Token \cup {None}]

\* "sid" and "copy" are what the request has read from the store; "ok": the password was right.
Request == [op : {"login", "reset", "setup", "work"}, sid : Sid \cup {None}, copy : Session,
            ok : BOOLEAN, new : Password \cup {None}, token : Token \cup {None},
            secret : Secret \cup {None}]

Mail == [kind : {"link", "reminder"}, token : Token \cup {None}]

TypeOK ==
  /\ account \in [password : Password, email : BOOLEAN, bounced : BOOLEAN,
                  totp : Totp \cup {None}, trial : {"long", "ending", "reminded"}]
  /\ \E n \in 0..MaxTokens : tokens \in [1..n -> {"live", "used", "expired"}]
  /\ DOMAIN sessions \in SUBSET Sid /\ sessions \in [DOMAIN sessions -> Session]
  /\ cookie \in [Browser -> Sid \cup {None}]
  /\ pages \in [Tab -> Page]
  /\ DOMAIN calls \in SUBSET Tab /\ calls \in [DOMAIN calls -> Request]
  /\ mails \in SUBSET Mail
  /\ known \in [secrets : SUBSET Secret, links : SUBSET Token]
  \* the secrets that a code has confirmed; sessions that were ended; links that have set a
  \* password; and counts of what is bounded
  /\ past \in [confirmed : SUBSET Secret, ended : SUBSET Sid, opened : SUBSET Token,
               secrets : 0..MaxSecrets, sids : 0..MaxSids,
               passwords : Password, sent : 0..MaxRequests, faults : 0..MaxFaults]

Blank == [view |-> "other", secret |-> None, token |-> None]
Fresh == [user |-> FALSE, pending |-> "no"]

Init ==
  /\ \E email \in BOOLEAN :  \* accounts from before an email was required have none
       account = [password |-> 1, email |-> email, bounced |-> FALSE, totp |-> None, trial |-> "long"]
  /\ tokens = <<>> /\ sessions = [s \in {} |-> Fresh]
  /\ cookie = [b \in Browser |-> None]
  /\ pages = [t \in Tab |-> Blank] /\ calls = [t \in {} |-> None]
  /\ mails = {} /\ known = [secrets |-> {}, links |-> {}]
  /\ past = [confirmed |-> {}, ended |-> {}, opened |-> {}, secrets |-> 0,
             sids |-> 0, passwords |-> 1, sent |-> 0, faults |-> 0]

-----------------------------------------------------------------------------
With(f, x, y) == [z \in DOMAIN f \cup {x} |-> IF z = x THEN y ELSE f[z]]
Without(f, S) == [z \in DOMAIN f \ S |-> f[z]]

Sent(t) == cookie[BrowserOf[t]]

\* express-session and the store's "get": a cookie without a row starts a fresh session,
\* which is not stored unless the handler changes it.
SidOf(t) == IF Sent(t) \in DOMAIN sessions THEN Sent(t) ELSE None
SessionOf(t) == IF SidOf(t) = None THEN Fresh ELSE sessions[SidOf(t)]
SignedIn(t) == SessionOf(t).user

FactorOn == account.totp # None /\ account.totp.enabled

Idle(t) == t \notin DOMAIN calls
Show(t, view) == pages' = [pages EXCEPT ![t] = [Blank EXCEPT !.view = view]]

\* The forms of the pages, whose buttons rest while a request is under way.
SignInForm(t) == Idle(t) /\ pages[t].view = "signin"
CodeForm(t) == Idle(t) /\ pages[t].view = "code"
ForgotForm(t) == SignInForm(t)
ResetForm(t) == Idle(t) /\ pages[t].view = "reset"
Card(t, view) == Idle(t) /\ pages[t].view = view
Banner(t) == Idle(t) /\ pages[t].view = "other" /\ ~account.email

Call(t, op) == [op |-> op, sid |-> SidOf(t), copy |-> SessionOf(t), ok |-> FALSE,
                new |-> None, token |-> None, secret |-> None]
\* A request of a page; "past" becomes "next" with one more of them.
Counted(next) == past.sent < MaxRequests /\ past' = [next EXCEPT !.sent = past.sent + 1]

Wait(t, request) == calls' = With(calls, t, request)
Answered(t) == calls' = Without(calls, {t})

\* Fault: touching writes the row again, whether it is there or not.
TouchAnyway(r) == sessions' = IF r.sid = None THEN sessions ELSE With(sessions, r.sid, r.copy)

\* "touch" updates the expiry of a row that is there, and makes none.
Touch(r) == UNCHANGED sessions

\* req.login: the session the request came with goes, a new one comes and the browser gets
\* its cookie.
NextSid == past.sids + 1

LogIn(t, sid) ==
  /\ NextSid \in Sid
  /\ sessions' = With(Without(sessions, {sid}), NextSid, [Fresh EXCEPT !.user = TRUE])
  /\ cookie' = [cookie EXCEPT ![BrowserOf[t]] = NextSid]
  /\ Show(t, "other")

-----------------------------------------------------------------------------
(* Sign-in.                                                                 *)

\* A page is opened by its address; a tab that waits for an answer is left alone.
Open(t, view) ==
  /\ Idle(t) /\ pages[t].view # view
  /\ \/ view = "signin"
     \/ view \in {"other", IF FactorOn THEN "on" ELSE "off"} /\ SignedIn(t)
  /\ Show(t, view)
  /\ UNCHANGED <<account, tokens, sessions, cookie, calls, mails, known, past>>

\* POST /login up to the verification of the password: the present one, or another that the
\* user has chosen once or is about to choose.
Login(t, p) ==
  /\ "login" \in Ops /\ SignInForm(t) /\ p <= past.passwords
  /\ Wait(t, [Call(t, "login") EXCEPT !.ok = (p = account.password)])
  /\ Counted(past)
  /\ UNCHANGED <<account, tokens, sessions, cookie, pages, mails, known>>

Refuse(t) ==
  /\ t \in DOMAIN calls /\ calls[t].op = "login" /\ ~calls[t].ok
  /\ Touch(calls[t]) /\ Answered(t)
  /\ UNCHANGED <<account, tokens, cookie, pages, mails, known, past>>

\* Fault: the second factor is asked for only in a browser that was signed in before.
AdmitAtOnce(t) ==
  /\ t \in DOMAIN calls /\ calls[t].op = "login" /\ calls[t].ok
  /\ ~FactorOn \/ calls[t].sid = None
  /\ LogIn(t, calls[t].sid) /\ Answered(t)
  /\ past' = [past EXCEPT !.sids = NextSid]
  /\ UNCHANGED <<account, tokens, mails, known>>

\* The rest of POST /login without a second factor, which is looked up after the wait.
Admit(t) ==
  /\ t \in DOMAIN calls /\ calls[t].op = "login" /\ calls[t].ok /\ ~FactorOn
  /\ LogIn(t, calls[t].sid) /\ Answered(t)
  /\ past' = [past EXCEPT !.sids = NextSid]
  /\ UNCHANGED <<account, tokens, mails, known>>

\* With one: the session, as it was read before the wait, is stored with a pending sign-in.
AskForCode(t) ==
  /\ t \in DOMAIN calls /\ calls[t].op = "login" /\ calls[t].ok /\ FactorOn
  /\ LET r == calls[t]
         sid == IF r.sid = None THEN NextSid ELSE r.sid
     IN  /\ sid \in Sid
         /\ sessions' = With(sessions, sid, [r.copy EXCEPT !.pending = "fresh"])
         /\ cookie' = [cookie EXCEPT ![BrowserOf[t]] = sid]
         /\ past' = [past EXCEPT !.sids = IF r.sid = None THEN sid ELSE @]
  /\ Show(t, "code") /\ Answered(t)
  /\ UNCHANGED <<account, tokens, mails, known>>

\* POST /verify-mfa with a code of the user's app, or with a wrong one, which changes nothing.
Verify(t, code) ==
  /\ CodeForm(t) /\ code \in known.secrets
  /\ SessionOf(t).pending = "fresh" /\ FactorOn /\ code = account.totp.secret
  /\ LogIn(t, SidOf(t))
  /\ Counted([past EXCEPT !.sids = NextSid])
  /\ UNCHANGED <<account, tokens, calls, mails, known>>

\* "Back to sign in"; five minutes go by; thirty days go by, and the row is reaped.
Back(t) ==
  /\ CodeForm(t)
  /\ Show(t, "signin")
  /\ UNCHANGED <<account, tokens, sessions, cookie, calls, mails, known, past>>

Expire(s) ==
  /\ s \in DOMAIN sessions /\ sessions[s].pending = "fresh"
  /\ sessions' = [sessions EXCEPT ![s].pending = "expired"]
  /\ UNCHANGED <<account, tokens, cookie, pages, calls, mails, known, past>>

Lapse(s) ==
  /\ "lapse" \in Ops /\ s \in DOMAIN sessions
  /\ sessions' = Without(sessions, {s})
  /\ past' = [past EXCEPT !.ended = @ \cup {s}]
  /\ UNCHANGED <<account, tokens, cookie, pages, calls, mails, known>>

\* POST /logout: passport stores the session without the user, regenerates it, and what is
\* left of it is destroyed. The browser keeps a cookie of nothing.
Logout(t) ==
  /\ "logout" \in Ops /\ Idle(t) /\ SignedIn(t)
  /\ sessions' = Without(sessions, {SidOf(t)})
  /\ Counted([past EXCEPT !.ended = @ \cup {SidOf(t)}])
  /\ Show(t, "signin")
  /\ UNCHANGED <<account, tokens, cookie, calls, mails, known>>

\* Any request that a signed-in page sends and that waits for something outside.
Work(t) ==
  /\ "work" \in Ops /\ Idle(t) /\ SignedIn(t) /\ pages[t].view = "other"
  /\ Wait(t, Call(t, "work"))
  /\ Counted(past)
  /\ UNCHANGED <<account, tokens, sessions, cookie, pages, mails, known>>

Worked(t) ==
  /\ t \in DOMAIN calls /\ calls[t].op = "work"
  /\ Touch(calls[t]) /\ Answered(t)
  /\ UNCHANGED <<account, tokens, cookie, pages, mails, known, past>>

-----------------------------------------------------------------------------
(* The second factor.                                                       *)

\* Fault: a secret that is drawn for an enabled factor leaves it enabled.
KeepEnabled(s) == [secret |-> s, enabled |-> FactorOn]

\* Fault: a first secret is stored without the flag.
KeepFlag(s) == [secret |-> s, enabled |-> IF account.totp = None THEN None ELSE FALSE]

\* setTotpSecret
SetTotpSecret(s) == [secret |-> s, enabled |-> FALSE]

\* GET /setup stores a secret and then draws it. The button is there while the card believes
\* that there is no second factor.
Setup(t) ==
  /\ "factor" \in Ops /\ Card(t, "off") /\ SignedIn(t)
  /\ past.secrets < MaxSecrets
  /\ account' = [account EXCEPT !.totp = SetTotpSecret(past.secrets + 1)]
  /\ Counted([past EXCEPT !.secrets = @ + 1])
  /\ Wait(t, [Call(t, "setup") EXCEPT !.secret = past.secrets + 1])
  /\ UNCHANGED <<tokens, sessions, cookie, pages, mails, known>>

Drawn(t) ==
  /\ t \in DOMAIN calls /\ calls[t].op = "setup"
  /\ pages' = [pages EXCEPT ![t] = [Blank EXCEPT !.view = "setup", !.secret = calls[t].secret]]
  /\ Touch(calls[t]) /\ Answered(t)
  /\ UNCHANGED <<account, tokens, cookie, mails, known, past>>

Scan(t) ==
  /\ pages[t].view = "setup"
  /\ known' = [known EXCEPT !.secrets = @ \cup {pages[t].secret}]
  /\ UNCHANGED <<account, tokens, sessions, cookie, pages, calls, mails, past>>

\* POST /enable, with a code that fits the secret as it is stored now.
Enable(t, code) ==
  /\ Card(t, "setup") /\ code \in known.secrets
  /\ SignedIn(t) /\ account.totp # None /\ code = account.totp.secret
  /\ account' = [account EXCEPT !.totp.enabled = TRUE]
  /\ Counted([past EXCEPT !.confirmed = @ \cup {code}])
  /\ Show(t, "on")
  /\ UNCHANGED <<tokens, sessions, cookie, calls, mails, known>>

\* "Disable 2FA", "Cancel"
Turn(t, from, to) ==
  /\ Card(t, from)
  /\ <<from, to>> \in {<<"on", "disabling">>, <<"disabling", "on">>, <<"setup", "off">>}
  /\ Show(t, to)
  /\ UNCHANGED <<account, tokens, sessions, cookie, calls, mails, known, past>>

\* POST /disable
Disable(t, code) ==
  /\ Card(t, "disabling") /\ code \in known.secrets
  /\ SignedIn(t) /\ FactorOn /\ code = account.totp.secret
  /\ account' = [account EXCEPT !.totp = None]
  /\ Show(t, "off") /\ Counted(past)
  /\ UNCHANGED <<tokens, sessions, cookie, calls, mails, known>>

-----------------------------------------------------------------------------
(* Mail.                                                                    *)

\* sendEmail: an address on record as bounced gets nothing; nobody waits for the rest.
Queue(mail) == mails' = IF account.bounced THEN mails ELSE mails \cup {mail}

\* SES takes a mail, refuses it, or takes it and reports a bounce.
Deliver(mail) ==
  /\ mail \in mails /\ mails' = mails \ {mail}
  /\ known' = [known EXCEPT !.links = @ \cup ({mail.token} \ {None})]
  /\ UNCHANGED <<account, tokens, sessions, cookie, pages, calls, past>>

Lose(mail) ==
  /\ mail \in mails /\ past.faults < MaxFaults
  /\ mails' = mails \ {mail}
  /\ past' = [past EXCEPT !.faults = @ + 1]
  /\ \/ account' = [account EXCEPT !.bounced = TRUE]
     \/ UNCHANGED account
  /\ UNCHANGED <<tokens, sessions, cookie, pages, calls, known>>

\* The trial comes near its end; the scheduler marks the reminder in the turn that sends it.
Approach ==
  /\ "trial" \in Ops /\ account.trial = "long"
  /\ account' = [account EXCEPT !.trial = "ending"]
  /\ UNCHANGED <<tokens, sessions, cookie, pages, calls, mails, known, past>>

Remind ==
  /\ account.trial = "ending" /\ account.email
  /\ Queue([kind |-> "reminder", token |-> None])
  /\ account' = [account EXCEPT !.trial = "reminded"]
  /\ UNCHANGED <<tokens, sessions, cookie, pages, calls, known, past>>

\* PATCH /email, from the banner that asks for one.
ChangeEmail(t) ==
  /\ Banner(t) /\ SignedIn(t)
  /\ account' = [account EXCEPT !.email = TRUE]
  /\ Counted(past)
  /\ UNCHANGED <<tokens, sessions, cookie, pages, calls, mails, known>>

-----------------------------------------------------------------------------
(* The reset of the password.                                               *)

\* POST /forgot-password for the account's address; any other one is answered alike.
Forgot(t) ==
  /\ "reset" \in Ops /\ account.email /\ ForgotForm(t) /\ Len(tokens) < MaxTokens
  /\ tokens' = Append(tokens, "live")
  /\ Queue([kind |-> "link", token |-> Len(tokens) + 1])
  /\ Counted(past)
  /\ UNCHANGED <<account, sessions, cookie, pages, calls, known>>

Age(k) ==
  /\ k \in DOMAIN tokens /\ tokens[k] = "live"
  /\ tokens' = [tokens EXCEPT ![k] = "expired"]
  /\ UNCHANGED <<account, sessions, cookie, pages, calls, mails, known, past>>

Follow(t, k) ==
  /\ Idle(t) /\ k \in known.links
  /\ pages' = [pages EXCEPT ![t] = [Blank EXCEPT !.view = "reset", !.token = k]]
  /\ UNCHANGED <<account, tokens, sessions, cookie, calls, mails, known, past>>

\* POST /reset-password up to the hashing of the new password.
Reset(t) ==
  /\ ResetForm(t) /\ tokens[pages[t].token] = "live"
  /\ past.passwords < MaxPasswords
  /\ Wait(t, [Call(t, "reset") EXCEPT !.token = pages[t].token, !.new = past.passwords + 1])
  /\ Counted([past EXCEPT !.passwords = @ + 1])
  /\ UNCHANGED <<account, tokens, sessions, cookie, pages, mails, known>>

\* Fault: the link stays good until it expires.
Reusable(k) == tokens

\* used_at
Used(k) == [tokens EXCEPT ![k] = "used"]

\* The password and the link change together; the session of this browser goes.
SetPassword(t) ==
  /\ t \in DOMAIN calls /\ calls[t].op = "reset"
  /\ account' = [account EXCEPT !.password = calls[t].new]
  /\ tokens' = Used(calls[t].token)
  /\ sessions' = Without(sessions, {calls[t].sid})
  /\ past' = [past EXCEPT !.opened = @ \cup {calls[t].token},
                          !.ended = @ \cup ({calls[t].sid} \ {None})]
  /\ Show(t, "signin") /\ Answered(t)
  /\ UNCHANGED <<cookie, mails, known>>

-----------------------------------------------------------------------------
\* The server stops: requests are lost, and the mail that SES has not taken.
Crash ==
  /\ past.faults < MaxFaults /\ (DOMAIN calls # {} \/ mails # {})
  /\ calls' = [t \in {} |-> None] /\ mails' = {}
  /\ past' = [past EXCEPT !.faults = @ + 1]
  /\ UNCHANGED <<account, tokens, sessions, cookie, pages, known>>

User(t) ==
  \/ \E view \in {"signin", "on", "off", "other"} : Open(t, view)
  \/ \E p \in Password : Login(t, p)
  \/ \E code \in Secret : Verify(t, code) \/ Enable(t, code) \/ Disable(t, code)
  \/ \E from, to \in {"on", "off", "setup", "disabling"} : Turn(t, from, to)
  \/ \E k \in Token : Follow(t, k)
  \/ Back(t) \/ Logout(t) \/ Work(t) \/ Setup(t) \/ Scan(t) \/ ChangeEmail(t) \/ Forgot(t) \/ Reset(t)

Server(t) == Refuse(t) \/ Admit(t) \/ AskForCode(t) \/ Worked(t) \/ Drawn(t) \/ SetPassword(t)

Next ==
  \/ \E t \in Tab : User(t) \/ Server(t)
  \/ \E s \in Sid : Expire(s) \/ Lapse(s)
  \/ \E k \in Token : Age(k)
  \/ \E mail \in mails : Deliver(mail) \/ Lose(mail)
  \/ Approach \/ Remind \/ Crash

Spec == Init /\ [][Next]_vars

-----------------------------------------------------------------------------
(* Properties.                                                              *)

\* While a second factor is on, no session begins without its present code, whatever is switched
\* on or off between the password and the end of the sign-in (localAuth.ts looks the factor up
\* after the wait, and again for the code).
CodeBeforeSession ==
  [][\A s \in DOMAIN sessions' :
       s > past.sids /\ sessions'[s].user /\ FactorOn =>
         /\ account.totp.secret \in known.secrets
         /\ \E t \in Tab : pages[t].view = "code" /\ SessionOf(t).pending = "fresh"]_vars

\* The user is not locked out: a factor that is on has a secret that the user's app holds and that a
\* code has confirmed, however many set-ups were begun and left in other tabs (setTotpSecret
\* takes the factor back to "not enabled").
EnabledIsConfirmed ==
  FactorOn => account.totp.secret \in past.confirmed \cap known.secrets

\* A session that was ended by a logout, a reset or its age does not come back through a request that
\* was under way ("touch" only updates). The one exception is a sign-in: a right password that
\* still needs a code stores the session as it read it before.
EndedStaysEnded ==
  [][\A s \in past.ended \ DOMAIN sessions :
       s \in DOMAIN sessions' =>
         FactorOn /\ \E t \in DOMAIN calls : calls[t].op = "login" /\ calls[t].ok /\ calls[t].sid = s]_vars

\* A link that has set a password sets no other one, except for requests that were hashing
\* already (used_at is written with the password).
UsedLinkIsDead ==
  [][\A t \in DOMAIN calls' \ DOMAIN calls :
       calls'[t].op = "reset" => calls'[t].token \notin past.opened]_vars
=============================================================================


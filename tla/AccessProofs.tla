---------------------------- MODULE AccessProofs ----------------------------
(***************************************************************************)
(* Proofs about Access, for every value of its constants.                  *)
(***************************************************************************)
EXTENDS Access, TLAPS

AccountRow == [password : Password, email : BOOLEAN, bounced : BOOLEAN,
               totp : Totp \cup {None}, trial : {"long", "ending", "reminded"}]

Past == [confirmed : SUBSET Secret, ended : SUBSET Sid, opened : SUBSET Token,
         secrets : 0..MaxSecrets, sids : 0..MaxSids,
         passwords : Password, sent : 0..MaxRequests, faults : 0..MaxFaults]

(* A page that follows a link knows it, and a request carries what it will write. *)
PageOK(p) ==
  /\ p \in Page
  /\ p.view = "reset" => p.token \in Token
  /\ p.view = "setup" => p.secret \in Secret

CallOK(q) ==
  /\ q \in Request
  /\ q.op = "reset" => q.new \in Password /\ q.token \in Token
  /\ q.op = "setup" => q.secret \in Secret

TypeInv ==
  /\ TypeOK
  /\ \A t \in Tab : PageOK(pages[t])
  /\ \A t \in DOMAIN calls : CallOK(calls[t])

(* TypeInv, variable by variable. *)
TokensFit == \E n \in 0..MaxTokens : tokens \in [1..n -> {"live", "used", "expired"}]
SessionsFit == DOMAIN sessions \in SUBSET Sid /\ sessions \in [DOMAIN sessions -> Session]
CookieFits == cookie \in [Browser -> Sid \cup {None}]
PagesFit == pages \in [Tab -> Page] /\ \A t \in Tab : PageOK(pages[t])
CallsFit == /\ DOMAIN calls \in SUBSET Tab /\ calls \in [DOMAIN calls -> Request]
            /\ \A t \in DOMAIN calls : CallOK(calls[t])
MailFits == mails \in SUBSET Mail /\ known \in [secrets : SUBSET Secret, links : SUBSET Token]

Fit == /\ account \in AccountRow /\ TokensFit /\ SessionsFit /\ CookieFits
       /\ PagesFit /\ CallsFit /\ MailFits /\ past \in Past

-----------------------------------------------------------------------------
(* Pages, requests, sessions and the history keep their types.             *)

LEMMA FitIsTypeInv == Fit <=> TypeInv
BY DEF Fit, TypeInv, TypeOK, AccountRow, Past, TokensFit, SessionsFit, CookieFits, PagesFit,
       CallsFit, MailFits

LEMMA FitIsTypeInvNext == Fit' <=> TypeInv'
BY DEF Fit, TypeInv, TypeOK, AccountRow, Past, TokensFit, SessionsFit, CookieFits, PagesFit,
       CallsFit, MailFits

LEMMA Frame ==
  ASSUME TypeInv
  PROVE  /\ UNCHANGED account => account' \in AccountRow
         /\ (UNCHANGED tokens => TokensFit') /\ (UNCHANGED sessions => SessionsFit')
         /\ (UNCHANGED cookie => CookieFits') /\ (UNCHANGED pages => PagesFit')
         /\ (UNCHANGED calls => CallsFit') /\ (UNCHANGED <<mails, known>> => MailFits')
         /\ UNCHANGED past => past' \in Past
BY FitIsTypeInv DEF Fit, TokensFit, SessionsFit, CookieFits, PagesFit, CallsFit, MailFits

LEMMA Unfolded ==
  ASSUME TypeInv
  PROVE  /\ account \in AccountRow /\ past \in Past
         /\ cookie \in [Browser -> Sid \cup {None}]
         /\ DOMAIN sessions \subseteq Sid /\ sessions \in [DOMAIN sessions -> Session]
         /\ DOMAIN calls \subseteq Tab /\ pages \in [Tab -> Page]
BY DEF TypeInv, TypeOK, AccountRow, Past

LEMMA ShowOK ==
  ASSUME TypeInv, NEW t \in Tab, NEW view \in {"signin", "code", "off", "on", "disabling", "other"},
         Show(t, view)
  PROVE  pages' \in [Tab -> Page] /\ \A u \in Tab : PageOK(pages'[u])
<1>1. PageOK([Blank EXCEPT !.view = view])
  BY DEF PageOK, Page, Blank
<1> QED BY <1>1 DEF Show, TypeInv, TypeOK, PageOK

LEMMA CallFits ==
  ASSUME TypeInv, NEW t \in Tab, NEW op \in {"login", "reset", "setup", "work"}
  PROVE  /\ Call(t, op) \in Request /\ Call(t, op).op = op
         /\ Call(t, op).sid = SidOf(t) /\ Call(t, op).copy = SessionOf(t)
         /\ SidOf(t) \in DOMAIN sessions \cup {None} /\ SessionOf(t) \in Session
         /\ SidOf(t) = None => SessionOf(t) = Fresh
<1>1. SidOf(t) \in DOMAIN sessions \cup {None} /\ SidOf(t) \in Sid \cup {None}
  BY Unfolded DEF SidOf
<1>2. SessionOf(t) \in Session /\ (SidOf(t) = None => SessionOf(t) = Fresh)
  BY <1>1, Unfolded DEF SessionOf, Fresh, Session
<1> QED BY <1>1, <1>2 DEF Call, Request

LEMMA WaitOK ==
  ASSUME TypeInv, NEW t \in Tab, NEW q, CallOK(q), Wait(t, q)
  PROVE  /\ DOMAIN calls' \in SUBSET Tab /\ calls' \in [DOMAIN calls' -> Request]
         /\ \A u \in DOMAIN calls' : CallOK(calls'[u])
         /\ DOMAIN calls' = DOMAIN calls \cup {t} /\ calls'[t] = q
         /\ \A u \in DOMAIN calls \ {t} : calls'[u] = calls[u]
BY DEF Wait, With, CallOK, TypeInv, TypeOK

LEMMA AnsweredOK ==
  ASSUME TypeInv, NEW t, Answered(t)
  PROVE  /\ DOMAIN calls' \in SUBSET Tab /\ calls' \in [DOMAIN calls' -> Request]
         /\ \A u \in DOMAIN calls' : CallOK(calls'[u])
         /\ DOMAIN calls' = DOMAIN calls \ {t}
         /\ \A u \in DOMAIN calls' : calls'[u] = calls[u]
BY DEF Answered, Without, CallOK, TypeInv, TypeOK

LEMMA SessionsOK ==
  ASSUME TypeInv, NEW S
  PROVE  /\ DOMAIN Without(sessions, S) = DOMAIN sessions \ S
         /\ Without(sessions, S) \in [DOMAIN sessions \ S -> Session]
BY DEF Without, TypeInv, TypeOK

LEMMA WithSession ==
  ASSUME NEW f, DOMAIN f \subseteq Sid, f \in [DOMAIN f -> Session],
         NEW s, s \in Sid, NEW x, x \in Session
  PROVE  /\ DOMAIN With(f, s, x) = DOMAIN f \cup {s} /\ DOMAIN f \cup {s} \in SUBSET Sid
         /\ With(f, s, x) \in [DOMAIN With(f, s, x) -> Session]
         /\ With(f, s, x)[s] = x
         /\ \A z \in DOMAIN f \ {s} : With(f, s, x)[z] = f[z]
BY DEF With

LEMMA LogInOK ==
  ASSUME TypeInv, NEW t \in Tab, NEW sid, LogIn(t, sid)
  PROVE  /\ DOMAIN sessions' \in SUBSET Sid /\ sessions' \in [DOMAIN sessions' -> Session]
         /\ cookie' \in [Browser -> Sid \cup {None}]
         /\ pages' \in [Tab -> Page] /\ \A u \in Tab : PageOK(pages'[u])
         /\ NextSid \in Sid /\ DOMAIN sessions' = (DOMAIN sessions \ {sid}) \cup {NextSid}
<1>1. NextSid \in Sid /\ [Fresh EXCEPT !.user = TRUE] \in Session
  BY DEF LogIn, Fresh, Session
<1>2. sessions' = With(Without(sessions, {sid}), NextSid, [Fresh EXCEPT !.user = TRUE])
  BY DEF LogIn
<1>3. DOMAIN Without(sessions, {sid}) \subseteq Sid
      /\ Without(sessions, {sid}) \in [DOMAIN Without(sessions, {sid}) -> Session]
      /\ DOMAIN Without(sessions, {sid}) = DOMAIN sessions \ {sid}
  BY SessionsOK, Unfolded
<1>4. cookie' \in [Browser -> Sid \cup {None}]
  BY <1>1, Unfolded DEF LogIn
<1>5. Show(t, "other")
  BY DEF LogIn
<1>6. pages' \in [Tab -> Page] /\ \A u \in Tab : PageOK(pages'[u])
  BY <1>5, ShowOK
<1>7. /\ DOMAIN sessions' = (DOMAIN sessions \ {sid}) \cup {NextSid}
      /\ DOMAIN sessions' \in SUBSET Sid /\ sessions' \in [DOMAIN sessions' -> Session]
  <2> DEFINE rest == Without(sessions, {sid})
             x == [Fresh EXCEPT !.user = TRUE]
  <2> HIDE DEF rest, x
  <2>1. sessions' = With(rest, NextSid, x)
    BY <1>2 DEF rest, x
  <2>2. /\ DOMAIN rest \subseteq Sid /\ rest \in [DOMAIN rest -> Session] /\ x \in Session
        /\ DOMAIN rest = DOMAIN sessions \ {sid}
    BY <1>1, <1>3 DEF rest, x
  <2> HIDE DEF NextSid
  <2> QED BY <1>1, <2>1, <2>2 DEF With
<1> QED BY <1>1, <1>4, <1>6, <1>7

LEMMA Bounds ==
  /\ MaxSecrets \in Nat /\ MaxTokens \in Nat /\ MaxSids \in Nat
  /\ MaxRequests \in Nat /\ MaxFaults \in Nat
BY AccessAssumption

LEMMA CountedOK ==
  ASSUME NEW p \in Past, past \in Past, Counted(p)
  PROVE  /\ past' \in Past /\ past'.confirmed = p.confirmed /\ past'.ended = p.ended
         /\ past'.opened = p.opened /\ past'.sids = p.sids
<1>1. past.sent + 1 \in 0..MaxRequests
  BY Bounds DEF Counted, Past
<1>2. past' = [p EXCEPT !.sent = past.sent + 1]
  BY DEF Counted
<1> QED BY <1>1, <1>2 DEF Past

LEMMA FaultyOK ==
  ASSUME past \in Past, past.faults < MaxFaults, past' = [past EXCEPT !.faults = @ + 1]
  PROVE  /\ past' \in Past /\ past'.confirmed = past.confirmed /\ past'.ended = past.ended
         /\ past'.opened = past.opened /\ past'.sids = past.sids
<1>1. past.faults + 1 \in 0..MaxFaults
  BY Bounds DEF Past
<1> QED BY <1>1 DEF Past
-----------------------------------------------------------------------------
(* Every step keeps TypeInv.                                               *)

LEMMA SignInType ==
  ASSUME TypeInv, NEW t \in Tab,
         \/ \E view \in {"signin", "on", "off", "other"} : Open(t, view)
         \/ \E p \in Password : Login(t, p)
         \/ Refuse(t) \/ Admit(t) \/ AskForCode(t) \/ \E code \in Secret : Verify(t, code)
         \/ Back(t) \/ Logout(t) \/ Work(t) \/ Worked(t)
  PROVE  TypeInv'
<1>1. ASSUME NEW view \in {"signin", "on", "off", "other"}, Open(t, view) PROVE Fit'
  <2>1. PagesFit'
    BY <1>1, ShowOK DEF Open, PagesFit
  <2> QED BY <1>1, <2>1, Frame DEF Open, Fit
<1>2. ASSUME NEW op \in {"login", "work"}, NEW ok \in BOOLEAN,
             Wait(t, [Call(t, op) EXCEPT !.ok = ok]) \/ Wait(t, Call(t, op))
      PROVE  CallsFit'
  <2>1. CallOK([Call(t, op) EXCEPT !.ok = ok]) /\ CallOK(Call(t, op))
    BY CallFits DEF CallOK, Request
  <2> QED BY <1>2, <2>1, WaitOK DEF CallsFit
<1>3. Answered(t) => CallsFit'
  BY AnsweredOK DEF CallsFit
<1>4. Counted(past) => past' \in Past
  BY CountedOK, Unfolded
<1>5. ASSUME NEW p \in Password, Login(t, p) PROVE Fit'
  <2>1. CallsFit'
    BY <1>2, <1>5 DEF Login
  <2> QED BY <1>4, <1>5, <2>1, Frame DEF Login, Fit
<1>6. CASE Refuse(t) \/ Worked(t)
  BY <1>3, <1>6, Frame, FitIsTypeInvNext DEF Refuse, Worked, Touch, Fit
<1>7. ASSUME Admit(t) PROVE Fit'
  <2>1. LogIn(t, calls[t].sid)
    BY <1>7 DEF Admit
  <2>2. SessionsFit' /\ CookieFits' /\ PagesFit' /\ NextSid \in Sid
    BY <2>1, LogInOK DEF SessionsFit, CookieFits, PagesFit
  <2>3. past' \in Past
    BY <1>7, <2>2, Unfolded, Bounds DEF Admit, Past, Sid
  <2> QED BY <1>3, <1>7, <2>2, <2>3, Frame DEF Admit, Fit
<1>8. ASSUME AskForCode(t) PROVE Fit'
  <2> DEFINE r == calls[t]
             sid == IF r.sid = None THEN NextSid ELSE r.sid
             x == [r.copy EXCEPT !.pending = "fresh"]
  <2>1. r \in Request /\ sid \in Sid
    BY <1>8 DEF AskForCode, TypeInv, CallOK
  <2>2. x \in Session
    BY <2>1 DEF Request, Session
  <2>3. sessions' = With(sessions, sid, x)
    BY <1>8 DEF AskForCode
  <2>4. CookieFits'
    BY <1>8, <2>1, Unfolded DEF AskForCode, CookieFits
  <2>5. past' \in Past
    BY <1>8, <2>1, Unfolded, Bounds DEF AskForCode, Past, Sid
  <2> HIDE DEF sid, x
  <2>6. SessionsFit'
    <3>1. DOMAIN sessions \subseteq Sid /\ sessions \in [DOMAIN sessions -> Session]
      BY Unfolded
    <3>2. DOMAIN sessions' \in SUBSET Sid /\ sessions' \in [DOMAIN sessions' -> Session]
      <4>1. sid \in Sid /\ x \in Session
        BY <2>1, <2>2
      <4>2. DOMAIN With(sessions, sid, x) \in SUBSET Sid
            /\ With(sessions, sid, x) \in [DOMAIN With(sessions, sid, x) -> Session]
        BY <3>1, <4>1 DEF With
      <4> QED BY <2>3, <4>2
    <3> QED BY <3>2 DEF SessionsFit
  <2>7. PagesFit'
    BY <1>8, ShowOK DEF AskForCode, PagesFit
  <2> QED BY <1>3, <1>8, <2>4, <2>5, <2>6, <2>7, Frame DEF AskForCode, Fit
<1>9. ASSUME NEW code \in Secret, Verify(t, code) PROVE Fit'
  <2>1. LogIn(t, SidOf(t))
    BY <1>9 DEF Verify
  <2>2. SessionsFit' /\ CookieFits' /\ PagesFit' /\ NextSid \in Sid
    BY <2>1, LogInOK DEF SessionsFit, CookieFits, PagesFit
  <2>3. [past EXCEPT !.sids = NextSid] \in Past
    BY <2>2, Unfolded, Bounds DEF Past, Sid
  <2>4. past' \in Past
    BY <1>9, <2>3, CountedOK, Unfolded DEF Verify
  <2> QED BY <1>9, <2>2, <2>4, Frame DEF Verify, Fit
<1>10. ASSUME Back(t) PROVE Fit'
  <2>1. PagesFit'
    BY <1>10, ShowOK DEF Back, PagesFit
  <2> QED BY <1>10, <2>1, Frame DEF Back, Fit
<1>11. ASSUME Logout(t) PROVE Fit'
  <2>1. SidOf(t) \in Sid
    BY <1>11, CallFits, Unfolded DEF Logout, SignedIn, Fresh
  <2>2. [past EXCEPT !.ended = @ \cup {SidOf(t)}] \in Past
    BY <2>1, Unfolded DEF Past
  <2>3. past' \in Past
    BY <1>11, <2>2, CountedOK, Unfolded DEF Logout
  <2>4. SessionsFit'
    BY <1>11, SessionsOK, Unfolded DEF Logout, SessionsFit
  <2>5. PagesFit'
    BY <1>11, ShowOK DEF Logout, PagesFit
  <2> QED BY <1>11, <2>3, <2>4, <2>5, Frame DEF Logout, Fit
<1>12. ASSUME Work(t) PROVE Fit'
  <2>1. CallsFit'
    BY <1>2, <1>12 DEF Work
  <2> QED BY <1>4, <1>12, <2>1, Frame DEF Work, Fit
<1> QED BY <1>1, <1>5, <1>6, <1>7, <1>8, <1>9, <1>10, <1>11, <1>12, FitIsTypeInvNext

LEMMA FactorType ==
  ASSUME TypeInv, NEW t \in Tab,
         \/ \E code \in Secret : Enable(t, code) \/ Disable(t, code)
         \/ \E from, to \in {"on", "off", "setup", "disabling"} : Turn(t, from, to)
         \/ Setup(t) \/ Drawn(t) \/ Scan(t)
  PROVE  TypeInv'
<1>1. ASSUME NEW code \in Secret, Enable(t, code) PROVE Fit'
  <2>1. account.totp \in Totp
    BY <1>1, Unfolded DEF Enable, AccountRow
  <2>2. account' \in AccountRow
    BY <1>1, <2>1, Unfolded DEF Enable, AccountRow, Totp
  <2>3. [past EXCEPT !.confirmed = @ \cup {code}] \in Past
    BY Unfolded DEF Past
  <2>4. past' \in Past
    BY <1>1, <2>3, CountedOK, Unfolded DEF Enable
  <2>5. PagesFit'
    BY <1>1, ShowOK DEF Enable, PagesFit
  <2> QED BY <1>1, <2>2, <2>4, <2>5, Frame DEF Enable, Fit
<1>2. ASSUME NEW code \in Secret, Disable(t, code) PROVE Fit'
  <2>1. account' \in AccountRow
    BY <1>2, Unfolded DEF Disable, AccountRow
  <2>2. past' \in Past
    BY <1>2, CountedOK, Unfolded DEF Disable
  <2>3. PagesFit'
    BY <1>2, ShowOK DEF Disable, PagesFit
  <2> QED BY <1>2, <2>1, <2>2, <2>3, Frame DEF Disable, Fit
<1>3. ASSUME NEW from \in {"on", "off", "setup", "disabling"}, NEW to \in {"on", "off", "setup", "disabling"},
             Turn(t, from, to)
      PROVE  Fit'
  <2>1. to \in {"disabling", "on", "off"} /\ Show(t, to)
    BY <1>3 DEF Turn
  <2>2. PagesFit'
    BY <2>1, ShowOK DEF PagesFit
  <2> QED BY <1>3, <2>2, Frame DEF Turn, Fit
<1>4. ASSUME Setup(t) PROVE Fit'
  <2>1. past.secrets + 1 \in Secret
    BY <1>4, Unfolded, Bounds DEF Setup, Past, Secret
  <2>2. account' \in AccountRow
    BY <1>4, <2>1, Unfolded DEF Setup, SetTotpSecret, AccountRow, Totp
  <2>3. [past EXCEPT !.secrets = @ + 1] \in Past
    BY <2>1, Unfolded, Bounds DEF Past, Secret
  <2>4. past' \in Past
    BY <1>4, <2>3, CountedOK, Unfolded DEF Setup
  <2>5. CallOK([Call(t, "setup") EXCEPT !.secret = past.secrets + 1])
    BY <2>1, CallFits DEF CallOK, Request
  <2>6. CallsFit'
    BY <1>4, <2>5, WaitOK DEF Setup, CallsFit
  <2> QED BY <1>4, <2>2, <2>4, <2>6, Frame DEF Setup, Fit
<1>5. ASSUME Drawn(t) PROVE Fit'
  <2>1. calls[t].secret \in Secret
    BY <1>5 DEF Drawn, TypeInv, CallOK
  <2> DEFINE p == [Blank EXCEPT !.view = "setup", !.secret = calls[t].secret]
  <2>2. PageOK(p)
    BY <2>1 DEF PageOK, Page, Blank
  <2>3. pages' = [pages EXCEPT ![t] = p]
    BY <1>5 DEF Drawn
  <2> HIDE DEF p
  <2>4. PagesFit'
    BY <2>2, <2>3 DEF PagesFit, TypeInv, TypeOK, PageOK
  <2>5. CallsFit'
    BY <1>5, AnsweredOK DEF Drawn, CallsFit
  <2> QED BY <1>5, <2>4, <2>5, Frame DEF Drawn, Touch, Fit
<1>6. ASSUME Scan(t) PROVE Fit'
  <2>1. pages[t].secret \in Secret
    BY <1>6 DEF Scan, TypeInv, PageOK
  <2>2. MailFits'
    BY <1>6, <2>1 DEF Scan, MailFits, TypeInv, TypeOK
  <2> QED BY <1>6, <2>2, Frame DEF Scan, Fit
<1> QED BY <1>1, <1>2, <1>3, <1>4, <1>5, <1>6, FitIsTypeInvNext

LEMMA MailType ==
  ASSUME TypeInv,
         \/ \E mail \in mails : Deliver(mail) \/ Lose(mail)
         \/ Approach \/ Remind \/ \E t \in Tab : ChangeEmail(t)
  PROVE  TypeInv'
<1>1. ASSUME NEW mail \in mails, Deliver(mail) PROVE Fit'
  <2>1. mail \in Mail
    BY DEF TypeInv, TypeOK
  <2>2. MailFits'
    BY <1>1, <2>1 DEF Deliver, MailFits, TypeInv, TypeOK, Mail
  <2> QED BY <1>1, <2>2, Frame DEF Deliver, Fit
<1>2. ASSUME NEW mail \in mails, Lose(mail) PROVE Fit'
  <2>1. MailFits'
    BY <1>2 DEF Lose, MailFits, TypeInv, TypeOK
  <2>2. account' \in AccountRow
    BY <1>2, Unfolded DEF Lose, AccountRow
  <2>3. past' \in Past
    BY <1>2, FaultyOK, Unfolded DEF Lose
  <2> QED BY <1>2, <2>1, <2>2, <2>3, Frame DEF Lose, Fit
<1>3. ASSUME Approach PROVE Fit'
  <2>1. account' \in AccountRow
    BY <1>3, Unfolded DEF Approach, AccountRow
  <2> QED BY <1>3, <2>1, Frame DEF Approach, Fit
<1>4. ASSUME Remind PROVE Fit'
  <2>1. account' \in AccountRow
    BY <1>4, Unfolded DEF Remind, AccountRow
  <2>2. MailFits'
    BY <1>4 DEF Remind, Queue, MailFits, Mail, TypeInv, TypeOK
  <2> QED BY <1>4, <2>1, <2>2, Frame DEF Remind, Fit
<1>5. ASSUME NEW t \in Tab, ChangeEmail(t) PROVE Fit'
  <2>1. account' \in AccountRow
    BY <1>5, Unfolded DEF ChangeEmail, AccountRow
  <2>2. past' \in Past
    BY <1>5, CountedOK, Unfolded DEF ChangeEmail
  <2> QED BY <1>5, <2>1, <2>2, Frame DEF ChangeEmail, Fit
<1> QED BY <1>1, <1>2, <1>3, <1>4, <1>5, FitIsTypeInvNext

LEMMA TokensOK ==
  ASSUME TypeInv
  PROVE  /\ Len(tokens) \in 0..MaxTokens /\ DOMAIN tokens = 1..Len(tokens)
         /\ tokens \in [1..Len(tokens) -> {"live", "used", "expired"}]
         /\ DOMAIN tokens \subseteq Token
         /\ \A k, x : k \in DOMAIN tokens /\ x \in {"live", "used", "expired"} =>
              TokensFit' \/ tokens' # [tokens EXCEPT ![k] = x]
<1>1. PICK n \in 0..MaxTokens : tokens \in [1..n -> {"live", "used", "expired"}]
  BY DEF TypeInv, TypeOK
<1>2. n \in Nat /\ DOMAIN tokens = 1..n
  BY <1>1, Bounds
<1>3. tokens \in Seq({"live", "used", "expired"})
  BY <1>1, <1>2
<1>4. Len(tokens) = n
  BY <1>2, <1>3
<1>5. DOMAIN tokens \subseteq Token
  BY <1>1, <1>2, Bounds DEF Token
<1>6. ASSUME NEW k \in DOMAIN tokens, NEW x \in {"live", "used", "expired"}, tokens' = [tokens EXCEPT ![k] = x]
      PROVE  TokensFit'
  BY <1>1, <1>6 DEF TokensFit
<1> QED BY <1>1, <1>2, <1>4, <1>5, <1>6

LEMMA ResetType ==
  ASSUME TypeInv, NEW t \in Tab,
         \/ Forgot(t) \/ (\E k \in Token : Age(k) \/ Follow(t, k)) \/ Reset(t) \/ SetPassword(t)
  PROVE  TypeInv'
<1>1. ASSUME Forgot(t) PROVE Fit'
  <2>1. Len(tokens) + 1 \in 1..MaxTokens
    <3>1. Len(tokens) < MaxTokens
      BY <1>1 DEF Forgot
    <3>2. Len(tokens) \in 0..MaxTokens
      BY TokensOK
    <3> QED BY <3>1, <3>2, Bounds
  <2>2. tokens' \in [1..(Len(tokens) + 1) -> {"live", "used", "expired"}]
    <3>1. tokens \in Seq({"live", "used", "expired"})
      BY TokensOK
    <3>2. tokens' = Append(tokens, "live")
      BY <1>1 DEF Forgot
    <3>3. tokens' \in Seq({"live", "used", "expired"}) /\ Len(tokens') = Len(tokens) + 1
      BY <3>1, <3>2
    <3> QED BY <3>3
  <2>3. TokensFit'
    BY <2>1, <2>2, Bounds DEF TokensFit
  <2>4. MailFits'
    BY <1>1, <2>1 DEF Forgot, Queue, MailFits, Mail, Token, TypeInv, TypeOK
  <2>5. past' \in Past
    BY <1>1, CountedOK, Unfolded DEF Forgot
  <2> QED BY <1>1, <2>3, <2>4, <2>5, Frame DEF Forgot, Fit
<1>2. ASSUME NEW k \in Token, Age(k) PROVE Fit'
  <2>1. TokensFit'
    BY <1>2, TokensOK DEF Age
  <2> QED BY <1>2, <2>1, Frame DEF Age, Fit
<1>3. ASSUME NEW k \in Token, Follow(t, k) PROVE Fit'
  <2> DEFINE p == [Blank EXCEPT !.view = "reset", !.token = k]
  <2>1. PageOK(p)
    BY DEF PageOK, Page, Blank
  <2>2. pages' = [pages EXCEPT ![t] = p]
    BY <1>3 DEF Follow
  <2> HIDE DEF p
  <2>3. PagesFit'
    BY <2>1, <2>2 DEF PagesFit, TypeInv, TypeOK, PageOK
  <2> QED BY <1>3, <2>3, Frame DEF Follow, Fit
<1>4. ASSUME Reset(t) PROVE Fit'
  <2>1. past.passwords + 1 \in Password
    BY <1>4, Unfolded, AccessAssumption DEF Reset, Past, Password
  <2>2. pages[t].token \in Token
    BY <1>4 DEF Reset, ResetForm, TypeInv, PageOK
  <2>3. CallOK([Call(t, "reset") EXCEPT !.token = pages[t].token, !.new = past.passwords + 1])
    BY <2>1, <2>2, CallFits DEF CallOK, Request
  <2>4. CallsFit'
    BY <1>4, <2>3, WaitOK DEF Reset, CallsFit
  <2>5. [past EXCEPT !.passwords = @ + 1] \in Past
    BY <2>1, Unfolded DEF Past
  <2>6. past' \in Past
    BY <1>4, <2>5, CountedOK, Unfolded DEF Reset
  <2> QED BY <1>4, <2>4, <2>6, Frame DEF Reset, Fit
<1>5. ASSUME SetPassword(t) PROVE Fit'
  <2>1. calls[t].new \in Password /\ calls[t].token \in Token /\ calls[t].sid \in Sid \cup {None}
    BY <1>5 DEF SetPassword, TypeInv, CallOK, Request
  <2>2. account' \in AccountRow
    BY <1>5, <2>1, Unfolded DEF SetPassword, AccountRow
  <2>3. TokensFit'
    <3>1. tokens' = [tokens EXCEPT ![calls[t].token] = "used"]
      BY <1>5 DEF SetPassword, Used
    <3>2. CASE calls[t].token \in DOMAIN tokens
      BY <3>1, <3>2, TokensOK
    <3>3. CASE calls[t].token \notin DOMAIN tokens
      BY <3>1, <3>3, TokensOK DEF TokensFit
    <3> QED BY <3>2, <3>3
  <2>4. SessionsFit'
    BY <1>5, SessionsOK, Unfolded DEF SetPassword, SessionsFit
  <2>5. past' \in Past
    BY <1>5, <2>1, Unfolded DEF SetPassword, Past
  <2>6. PagesFit'
    BY <1>5, ShowOK DEF SetPassword, PagesFit
  <2>7. CallsFit'
    BY <1>5, AnsweredOK DEF SetPassword, CallsFit
  <2> QED BY <1>5, <2>2, <2>3, <2>4, <2>5, <2>6, <2>7, Frame DEF SetPassword, Fit
<1> QED BY <1>1, <1>2, <1>3, <1>4, <1>5, FitIsTypeInvNext

LEMMA TimeType ==
  ASSUME TypeInv, Crash \/ \E s \in Sid : Expire(s) \/ Lapse(s)
  PROVE  TypeInv'
<1>1. ASSUME Crash PROVE Fit'
  <2>1. CallsFit' /\ MailFits'
    BY <1>1 DEF Crash, CallsFit, MailFits, TypeInv, TypeOK
  <2>2. past' \in Past
    BY <1>1, FaultyOK, Unfolded DEF Crash
  <2> QED BY <1>1, <2>1, <2>2, Frame DEF Crash, Fit
<1>2. ASSUME NEW s \in Sid, Expire(s) PROVE Fit'
  <2>1. sessions[s] \in Session /\ [sessions[s] EXCEPT !.pending = "expired"] \in Session
    BY <1>2, Unfolded DEF Expire, Session
  <2>2. sessions' = [sessions EXCEPT ![s] = [sessions[s] EXCEPT !.pending = "expired"]]
    BY <1>2 DEF Expire
  <2>3. SessionsFit'
    BY <2>1, <2>2, Unfolded DEF SessionsFit
  <2> QED BY <1>2, <2>3, Frame DEF Expire, Fit
<1>3. ASSUME NEW s \in Sid, Lapse(s) PROVE Fit'
  <2>1. SessionsFit'
    <3>1. sessions' = Without(sessions, {s})
      BY <1>3 DEF Lapse
    <3> QED BY <3>1, Unfolded DEF Without, SessionsFit
  <2>2. past' \in Past
    BY <1>3, Unfolded DEF Lapse, Past
  <2> QED BY <1>3, <2>1, <2>2, Frame DEF Lapse, Fit
<1> QED BY <1>1, <1>2, <1>3, FitIsTypeInvNext

LEMMA TypeInvNext == TypeInv /\ [Next]_vars => TypeInv'
<1> SUFFICES ASSUME TypeInv, [Next]_vars PROVE TypeInv'
  OBVIOUS
<1>1. ASSUME NEW t \in Tab, User(t) PROVE TypeInv'
  BY <1>1, SignInType, FactorType, MailType, ResetType DEF User
<1>2. ASSUME NEW t \in Tab, Server(t) PROVE TypeInv'
  BY <1>2, SignInType, FactorType, ResetType DEF Server
<1>3. ASSUME NEW k \in Token, Age(k) PROVE TypeInv'
  <2>1. TokensFit'
    BY <1>3, TokensOK DEF Age
  <2>2. Fit'
    BY <1>3, <2>1, Frame DEF Age, Fit
  <2> QED BY <2>2, FitIsTypeInvNext
<1>4. CASE UNCHANGED vars
  <2>1. Fit'
    BY <1>4, Frame DEF vars, Fit
  <2> QED BY <2>1, FitIsTypeInvNext
<1> QED BY <1>1, <1>2, <1>3, <1>4, TimeType, MailType DEF Next

LEMMA TypeInvInit == Init => TypeInv
<1> SUFFICES ASSUME Init PROVE TypeInv
  OBVIOUS
<1>1. account \in AccountRow /\ past \in Past
  BY AccessAssumption, Bounds DEF Init, AccountRow, Past, Password
<1>2. TokensFit
  <2>1. tokens \in [1..0 -> {"live", "used", "expired"}]
    BY DEF Init
  <2> QED BY <2>1, Bounds DEF TokensFit
<1>3. SessionsFit /\ CookieFits /\ CallsFit /\ MailFits
  BY DEF Init, SessionsFit, CookieFits, CallsFit, MailFits
<1>4. PagesFit
  BY DEF Init, PagesFit, PageOK, Page, Blank
<1> QED BY <1>1, <1>2, <1>3, <1>4, FitIsTypeInv DEF Fit

(* TypeOK holds in every reachable state: rows, cookies, pages, requests   *)
(* under way and mail are what Access says they are.                       *)
THEOREM TypeCorrect == Spec => []TypeOK
<1>1. TypeInv => TypeOK
  BY DEF TypeInv
<1> QED BY <1>1, TypeInvInit, TypeInvNext, PTL DEF Spec

-----------------------------------------------------------------------------
(* What a step does, variable by variable.                                 *)

LEMMA Acts ==
  ASSUME Next
  PROVE  \/ \E t \in Tab : \/ \E view \in {"signin", "on", "off", "other"} : Open(t, view)
                           \/ \E p \in Password : Login(t, p)
                           \/ Refuse(t) \/ Admit(t) \/ AskForCode(t) \/ Back(t) \/ Logout(t)
                           \/ Work(t) \/ Worked(t)
         \/ \E t \in Tab, code \in Secret : Verify(t, code) \/ Enable(t, code) \/ Disable(t, code)
         \/ \E t \in Tab, from, to \in {"on", "off", "setup", "disabling"} : Turn(t, from, to)
         \/ \E t \in Tab : Setup(t) \/ Drawn(t) \/ Scan(t) \/ ChangeEmail(t) \/ Forgot(t)
                           \/ Reset(t) \/ SetPassword(t)
         \/ \E t \in Tab, k \in Token : Follow(t, k)
         \/ \E k \in Token : Age(k)
         \/ \E s \in Sid : Expire(s) \/ Lapse(s)
         \/ \E mail \in mails : Deliver(mail) \/ Lose(mail)
         \/ Approach \/ Remind \/ Crash
BY DEF Next, User, Server

LEMMA CallsStep ==
  ASSUME TypeInv, Next
  PROVE  \A t \in DOMAIN calls' :
           \/ t \in DOMAIN calls /\ calls'[t] = calls[t]
           \/ /\ t \in Tab /\ t \notin DOMAIN calls
              /\ calls'[t].sid = SidOf(t) /\ calls'[t].copy = SessionOf(t)
              /\ calls'[t].op = "reset" => Reset(t) /\ calls'[t].token = pages[t].token
<1> DEFINE Kept == \A u \in DOMAIN calls' : u \in DOMAIN calls /\ calls'[u] = calls[u]
           Sends(t) == /\ \A u \in DOMAIN calls' : u = t \/ (u \in DOMAIN calls /\ calls'[u] = calls[u])
                       /\ t \notin DOMAIN calls
                       /\ calls'[t].sid = SidOf(t) /\ calls'[t].copy = SessionOf(t)
                       /\ calls'[t].op = "reset" => Reset(t) /\ calls'[t].token = pages[t].token
<1>1. UNCHANGED calls => Kept
  OBVIOUS
<1>2. ASSUME NEW t, Answered(t) PROVE Kept
  BY <1>2, AnsweredOK
<1>3. ASSUME NEW t \in Tab, NEW p \in Password, Login(t, p) PROVE Sends(t)
  <2> DEFINE right == p = account.password
             q == [Call(t, "login") EXCEPT !.ok = right]
  <2>2. Wait(t, q) /\ t \notin DOMAIN calls
    BY <1>3 DEF Login, SignInForm, Idle
  <2>3. right \in BOOLEAN
    OBVIOUS
  <2> HIDE DEF right
  <2>1. CallOK(q) /\ q.sid = SidOf(t) /\ q.copy = SessionOf(t) /\ q.op = "login"
    BY <2>3, CallFits DEF CallOK, Request
  <2> HIDE DEF q
  <2> QED BY <2>1, <2>2, WaitOK
<1>4. ASSUME NEW t \in Tab, Work(t) PROVE Sends(t)
  <2> DEFINE q == Call(t, "work")
  <2>1. CallOK(q) /\ q.sid = SidOf(t) /\ q.copy = SessionOf(t) /\ q.op = "work"
    BY CallFits DEF CallOK, Request
  <2>2. Wait(t, q) /\ t \notin DOMAIN calls
    BY <1>4 DEF Work, Idle
  <2> HIDE DEF q
  <2> QED BY <2>1, <2>2, WaitOK
<1>5. ASSUME NEW t \in Tab, Setup(t) PROVE Sends(t)
  <2> DEFINE q == [Call(t, "setup") EXCEPT !.secret = past.secrets + 1]
  <2>1. past.secrets + 1 \in Secret
    BY <1>5, Unfolded, Bounds DEF Setup, Past, Secret
  <2>2. CallOK(q) /\ q.sid = SidOf(t) /\ q.copy = SessionOf(t) /\ q.op = "setup"
    BY <2>1, CallFits DEF CallOK, Request
  <2>3. Wait(t, q) /\ t \notin DOMAIN calls
    BY <1>5 DEF Setup, Card, Idle
  <2> HIDE DEF q
  <2> QED BY <2>2, <2>3, WaitOK
<1>6. ASSUME NEW t \in Tab, Reset(t) PROVE Sends(t)
  <2> DEFINE q == [Call(t, "reset") EXCEPT !.token = pages[t].token, !.new = past.passwords + 1]
  <2>1. past.passwords + 1 \in Password /\ pages[t].token \in Token
    BY <1>6, Unfolded, AccessAssumption DEF Reset, ResetForm, Past, Password, TypeInv, PageOK
  <2>2. CallOK(q) /\ q.sid = SidOf(t) /\ q.copy = SessionOf(t) /\ q.token = pages[t].token
    BY <2>1, CallFits DEF CallOK, Request
  <2>3. Wait(t, q) /\ t \notin DOMAIN calls
    BY <1>6 DEF Reset, ResetForm, Idle
  <2> HIDE DEF q
  <2>4. calls'[t] = q /\ DOMAIN calls' = DOMAIN calls \cup {t}
        /\ \A u \in DOMAIN calls \ {t} : calls'[u] = calls[u]
    BY <2>2, <2>3, WaitOK
  <2> QED BY <1>6, <2>2, <2>3, <2>4
<1>7. Crash => Kept
  BY DEF Crash
<1>8. Kept \/ \E t \in Tab : Sends(t)
  <2> HIDE DEF Kept, Sends
  <2>1. \/ UNCHANGED calls \/ Crash \/ \E t \in Tab : Answered(t)
        \/ \E t \in Tab : (\E p \in Password : Login(t, p)) \/ Work(t) \/ Setup(t) \/ Reset(t)
    BY Acts DEF Open, Refuse, Admit, AskForCode, Back, Logout, Worked, Verify, Enable, Disable, Turn,
                Drawn, Scan, ChangeEmail, Forgot, SetPassword, Follow, Age, Expire, Lapse,
                Deliver, Lose, Approach, Remind
  <2> QED BY <1>1, <1>2, <1>3, <1>4, <1>5, <1>6, <1>7, <2>1
<1> QED BY <1>8

LEMMA PagesStep ==
  ASSUME TypeInv, Next, NEW t \in Tab, pages'[t].view = "reset"
  PROVE  pages'[t] = pages[t] \/ pages'[t].token \in known.links
<1>1. ASSUME NEW u \in Tab, NEW view \in {"signin", "code", "off", "on", "disabling", "other"}, Show(u, view)
      PROVE  pages'[t] = pages[t]
  BY <1>1, Unfolded DEF Show, Blank
<1>2. ASSUME NEW u \in Tab, LogIn(u, SidOf(u)) \/ LogIn(u, calls[u].sid) PROVE pages'[t] = pages[t]
  BY <1>1, <1>2 DEF LogIn
<1>3. ASSUME NEW u \in Tab, NEW k \in Token, Follow(u, k) PROVE pages'[t] = pages[t] \/ pages'[t].token \in known.links
  BY <1>3, Unfolded DEF Follow, Blank
<1>4. ASSUME NEW u \in Tab, Drawn(u) PROVE pages'[t] = pages[t]
  BY <1>4, Unfolded DEF Drawn, Blank
<1>5. ASSUME NEW u \in Tab, NEW from, NEW to, Turn(u, from, to) PROVE pages'[t] = pages[t]
  <2>1. to \in {"disabling", "on", "off"} /\ Show(u, to)
    BY <1>5 DEF Turn
  <2> QED BY <1>1, <2>1
<1>6. \/ UNCHANGED pages
      \/ \E u \in Tab, view \in {"signin", "code", "off", "on", "disabling", "other"} : Show(u, view)
      \/ \E u \in Tab : LogIn(u, SidOf(u)) \/ LogIn(u, calls[u].sid) \/ Drawn(u)
      \/ \E u \in Tab, k \in Token : Follow(u, k)
      \/ \E u \in Tab, from, to \in {"on", "off", "setup", "disabling"} : Turn(u, from, to)
  BY Acts DEF Open, Login, Refuse, Admit, AskForCode, Back, Logout, Work, Worked, Verify, Enable, Disable,
              Setup, Scan, ChangeEmail, Forgot, Reset, SetPassword, Age, Expire, Lapse,
              Deliver, Lose, Approach, Remind, Crash
<1> QED BY <1>1, <1>2, <1>3, <1>4, <1>5, <1>6

LEMMA PastStep ==
  ASSUME TypeInv, Next
  PROVE  /\ past'.opened = past.opened \/ \E t \in Tab : SetPassword(t)
         /\ past.confirmed \subseteq past'.confirmed
         /\ past'.sids = past.sids \/ (past'.sids = NextSid /\ NextSid \in Sid)
         /\ past'.ended \subseteq past.ended \cup DOMAIN sessions \cup {calls[t].sid : t \in DOMAIN calls}
         /\ None \notin past'.ended
<1> DEFINE Ended == /\ past'.ended \subseteq past.ended \cup DOMAIN sessions \cup {calls[t].sid : t \in DOMAIN calls}
                    /\ None \notin past'.ended
           Rest == past'.opened = past.opened /\ past'.confirmed = past.confirmed
           Same == past'.sids = past.sids
<1>1. None \notin past.ended
  BY Unfolded, AccessAssumption DEF Past, Sid
<1>2. ASSUME UNCHANGED past \/ Counted(past) PROVE Ended /\ Rest /\ Same
  BY <1>1, <1>2, CountedOK, Unfolded
<1>3. ASSUME past.faults < MaxFaults, past' = [past EXCEPT !.faults = @ + 1] PROVE Ended /\ Rest /\ Same
  BY <1>1, <1>3, FaultyOK, Unfolded
<1>4. ASSUME NEW t \in Tab, Admit(t) \/ AskForCode(t)
      PROVE  Ended /\ Rest /\ (Same \/ (past'.sids = NextSid /\ NextSid \in Sid))
  <2>1. CASE Admit(t)
    <3>1. LogIn(t, calls[t].sid) /\ past' = [past EXCEPT !.sids = NextSid]
      BY <2>1 DEF Admit
    <3>2. NextSid \in Sid
      BY <3>1, LogInOK
    <3> HIDE DEF NextSid
    <3> QED BY <1>1, <3>1, <3>2, Unfolded DEF Past
  <2>2. CASE AskForCode(t)
    <3>1. \/ past' = [past EXCEPT !.sids = past.sids]
          \/ past' = [past EXCEPT !.sids = NextSid] /\ NextSid \in Sid
      <4>1. CASE calls[t].sid = None
        BY <2>2, <4>1 DEF AskForCode
      <4>2. CASE calls[t].sid # None
        BY <2>2, <4>2 DEF AskForCode
      <4> QED BY <4>1, <4>2
    <3> HIDE DEF NextSid
    <3> QED BY <1>1, <3>1, Unfolded DEF Past
  <2> QED BY <1>4, <2>1, <2>2
<1>5. ASSUME NEW t \in Tab, NEW code \in Secret, Verify(t, code)
      PROVE  Ended /\ Rest /\ past'.sids = NextSid /\ NextSid \in Sid
  <2>1. NextSid \in Sid /\ Counted([past EXCEPT !.sids = NextSid])
    BY <1>5, LogInOK DEF Verify
  <2>2. [past EXCEPT !.sids = NextSid] \in Past
    BY <2>1, Unfolded, Bounds DEF Past, Sid
  <2> HIDE DEF NextSid
  <2> QED BY <1>1, <2>1, <2>2, CountedOK, Unfolded DEF Past
<1>6. ASSUME NEW t \in Tab, Logout(t) PROVE Ended /\ Rest /\ Same
  <2>1. SidOf(t) \in Sid /\ SidOf(t) \in DOMAIN sessions
    BY <1>6, CallFits, Unfolded DEF Logout, SignedIn, Fresh
  <2>2. [past EXCEPT !.ended = @ \cup {SidOf(t)}] \in Past
    BY <2>1, Unfolded DEF Past
  <2>3. past'.ended = past.ended \cup {SidOf(t)} /\ Rest /\ Same
    BY <1>6, <2>2, CountedOK, Unfolded DEF Logout, Past
  <2> QED BY <1>1, <2>1, <2>3, AccessAssumption DEF Sid
<1>7. ASSUME NEW s \in Sid, Lapse(s) PROVE Ended /\ Rest /\ Same
  BY <1>1, <1>7, Unfolded, AccessAssumption DEF Lapse, Past, Sid
<1>8. ASSUME NEW t \in Tab, SetPassword(t) PROVE Ended /\ past'.confirmed = past.confirmed /\ Same
  BY <1>1, <1>8, Unfolded DEF SetPassword, Past
<1>9. ASSUME NEW t \in Tab, Setup(t) \/ Reset(t) PROVE Ended /\ Rest /\ Same
  <2>1. CASE Setup(t)
    <3>1. past.secrets + 1 \in Secret
      BY <2>1, Unfolded, Bounds DEF Setup, Past, Secret
    <3>2. [past EXCEPT !.secrets = @ + 1] \in Past
      BY <3>1, Unfolded, Bounds DEF Past, Secret
    <3> QED BY <1>1, <2>1, <3>2, CountedOK, Unfolded DEF Setup, Past
  <2>2. CASE Reset(t)
    <3>1. past.passwords + 1 \in Password
      BY <2>2, Unfolded, AccessAssumption DEF Reset, Past, Password
    <3>2. [past EXCEPT !.passwords = @ + 1] \in Past
      BY <3>1, Unfolded DEF Past
    <3> QED BY <1>1, <2>2, <3>2, CountedOK, Unfolded DEF Reset, Past
  <2> QED BY <1>9, <2>1, <2>2
<1>10. ASSUME NEW t \in Tab, NEW code \in Secret, Enable(t, code)
       PROVE  Ended /\ past'.opened = past.opened /\ past'.confirmed = past.confirmed \cup {code} /\ Same
  <2>1. [past EXCEPT !.confirmed = @ \cup {code}] \in Past
    BY Unfolded DEF Past
  <2> QED BY <1>1, <1>10, <2>1, CountedOK, Unfolded DEF Enable, Past
<1> HIDE DEF Ended, Rest, Same
<1>11. \/ UNCHANGED past \/ Counted(past)
       \/ past.faults < MaxFaults /\ past' = [past EXCEPT !.faults = @ + 1]
       \/ \E t \in Tab : \/ Admit(t) \/ AskForCode(t) \/ Logout(t) \/ SetPassword(t) \/ Setup(t) \/ Reset(t)
                         \/ \E code \in Secret : Verify(t, code) \/ Enable(t, code)
       \/ \E s \in Sid : Lapse(s)
  BY Acts DEF Open, Login, Refuse, Back, Work, Worked, Disable, Turn, Drawn, Scan, ChangeEmail, Forgot,
              Follow, Age, Expire, Deliver, Lose, Approach, Remind, Crash
<1> QED BY <1>2, <1>3, <1>4, <1>5, <1>6, <1>7, <1>8, <1>9, <1>10, <1>11 DEF Ended, Rest, Same

LEMMA SessionsStep ==
  ASSUME TypeInv, Next, NEW s \in DOMAIN sessions', s \notin DOMAIN sessions
  PROVE  \E t \in Tab :
           \/ Admit(t) /\ s = NextSid
           \/ s = NextSid /\ \E code \in Secret : Verify(t, code)
           \/ /\ AskForCode(t) /\ t \in DOMAIN calls
              /\ s = IF calls[t].sid = None THEN NextSid ELSE calls[t].sid
              /\ sessions'[s].user = calls[t].copy.user
<1>1. ASSUME NEW S, sessions' = Without(sessions, S) PROVE FALSE
  BY <1>1, SessionsOK
<1>2. ASSUME NEW t \in Tab, NEW sid, LogIn(t, sid) PROVE s = NextSid
  BY <1>2, LogInOK
<1>3. ASSUME NEW t \in Tab, AskForCode(t)
      PROVE  /\ t \in DOMAIN calls
             /\ s = IF calls[t].sid = None THEN NextSid ELSE calls[t].sid
             /\ sessions'[s].user = calls[t].copy.user
  <2> DEFINE sid == IF calls[t].sid = None THEN NextSid ELSE calls[t].sid
             x == [calls[t].copy EXCEPT !.pending = "fresh"]
  <2>1. t \in DOMAIN calls /\ sessions' = With(sessions, sid, x)
    BY <1>3 DEF AskForCode
  <2>2. calls[t].copy \in Session
    BY <2>1 DEF TypeInv, CallOK, Request
  <2>3. x.user = calls[t].copy.user
    BY <2>2 DEF Session
  <2> HIDE DEF sid, x
  <2>4. s = sid /\ sessions'[s] = x
    BY <2>1 DEF With
  <2> QED BY <2>1, <2>3, <2>4 DEF sid
<1>4. ASSUME NEW u \in Sid, Expire(u) PROVE FALSE
  BY <1>4 DEF Expire
<1>5. \/ UNCHANGED sessions
      \/ \E S : sessions' = Without(sessions, S)
      \/ \E t \in Tab : Admit(t) \/ AskForCode(t) \/ \E code \in Secret : Verify(t, code)
      \/ \E u \in Sid : Expire(u)
  BY Acts DEF Open, Login, Refuse, Touch, Back, Logout, Work, Worked, Enable, Disable, Turn, Setup, Drawn, Scan,
              ChangeEmail, Forgot, Reset, SetPassword, Follow, Age, Lapse, Deliver, Lose, Approach, Remind, Crash
<1> QED BY <1>1, <1>2, <1>3, <1>4, <1>5 DEF Admit, Verify

-----------------------------------------------------------------------------
(* Session ids are given once: a session that was ended, or that a request *)
(* remembers, has an id from before. A request without a session carries   *)
(* the copy of a fresh one, in which nobody is signed in.                  *)
Given == 1..past.sids

SidInv ==
  /\ TypeInv
  /\ past.ended \subseteq Given /\ DOMAIN sessions \subseteq Given
  /\ \A t \in DOMAIN calls : /\ calls[t].sid \in Given \cup {None}
                             /\ calls[t].sid = None => ~calls[t].copy.user

LEMMA SidInvNext == SidInv /\ [Next]_vars => SidInv'
<1> SUFFICES ASSUME SidInv, [Next]_vars PROVE SidInv'
  OBVIOUS
<1>0. TypeInv' /\ past.sids \in Nat
  BY TypeInvNext, Unfolded, Bounds DEF SidInv, Past
<1>1. CASE UNCHANGED vars
  BY <1>0, <1>1 DEF vars, SidInv, Given
<1>2. CASE Next
  <2>1. TypeInv
    BY DEF SidInv
  <2>2. /\ past'.sids = past.sids \/ past'.sids = NextSid
        /\ past'.ended \subseteq past.ended \cup DOMAIN sessions \cup {calls[t].sid : t \in DOMAIN calls}
        /\ None \notin past'.ended
    BY <1>2, <2>1, PastStep
  <2>3. Given \subseteq Given'
    BY <1>0, <2>2 DEF Given, NextSid
  <2>4. past'.ended \subseteq Given'
    BY <2>2, <2>3 DEF SidInv
  <2>5. ASSUME NEW s \in DOMAIN sessions' PROVE s \in Given'
    <3>1. CASE s \in DOMAIN sessions
      BY <2>3, <3>1 DEF SidInv
    <3>2. CASE s \notin DOMAIN sessions
      <4>1. PICK t \in Tab :
              \/ Admit(t) /\ s = NextSid
              \/ s = NextSid /\ \E code \in Secret : Verify(t, code)
              \/ /\ AskForCode(t) /\ t \in DOMAIN calls
                 /\ s = IF calls[t].sid = None THEN NextSid ELSE calls[t].sid
        BY <1>2, <2>1, <3>2, SessionsStep
      <4>2. CASE AskForCode(t) /\ t \in DOMAIN calls /\ s = calls[t].sid /\ s # None
        BY <2>3, <4>2 DEF SidInv
      <4>3. s = NextSid => NextSid \in Given'
        <5>1. s = NextSid => past'.sids = NextSid
          <6>1. ASSUME Admit(t) PROVE past'.sids = NextSid
            BY <2>1, <6>1, Unfolded DEF Admit, Past
          <6>2. ASSUME NEW code \in Secret, Verify(t, code) PROVE past'.sids = NextSid
            <7>1. NextSid \in Sid /\ Counted([past EXCEPT !.sids = NextSid])
              BY <2>1, <6>2, LogInOK DEF Verify
            <7>2. [past EXCEPT !.sids = NextSid] \in Past
              BY <2>1, <7>1, Unfolded, Bounds DEF Past, Sid
            <7> HIDE DEF NextSid
            <7> QED BY <2>1, <7>1, <7>2, CountedOK, Unfolded DEF Past
          <6>3. ASSUME AskForCode(t), calls[t].sid = None PROVE past'.sids = NextSid
            BY <2>1, <6>3, Unfolded DEF AskForCode, Past
          <6>4. ASSUME AskForCode(t), t \in DOMAIN calls, s = calls[t].sid, calls[t].sid # None, s = NextSid
                PROVE  FALSE
            <7>1. s \in Given
              BY <6>4 DEF SidInv
            <7> QED BY <1>0, <6>4, <7>1 DEF Given, NextSid
          <6> QED BY <4>1, <6>1, <6>2, <6>3, <6>4
        <5> QED BY <1>0, <5>1 DEF Given, NextSid
      <4> QED BY <4>1, <4>2, <4>3
    <3> QED BY <3>1, <3>2
  <2>6. ASSUME NEW t \in DOMAIN calls'
        PROVE  calls'[t].sid \in Given' \cup {None} /\ (calls'[t].sid = None => ~calls'[t].copy.user)
    <3>1. CASE t \in DOMAIN calls /\ calls'[t] = calls[t]
      BY <2>3, <3>1 DEF SidInv
    <3>2. CASE t \in Tab /\ calls'[t].sid = SidOf(t) /\ calls'[t].copy = SessionOf(t)
      <4>1. SidOf(t) \in DOMAIN sessions \cup {None} /\ (SidOf(t) = None => SessionOf(t) = Fresh)
        BY <2>1, <3>2, CallFits
      <4> QED BY <2>3, <3>2, <4>1 DEF SidInv, Fresh
    <3> QED BY <1>2, <2>1, <3>1, <3>2, CallsStep
  <2> QED BY <1>0, <2>4, <2>5, <2>6 DEF SidInv
<1> QED BY <1>1, <1>2

LEMMA SidInvInit == Init => SidInv
<1>1. Init => past.ended = {} /\ DOMAIN sessions = {} /\ DOMAIN calls = {}
  BY DEF Init
<1> QED BY <1>1, TypeInvInit DEF SidInv

(* A session that was ended by a logout, a reset or its age comes back     *)
(* through no request that was under way, but for a sign-in with a right   *)
(* password that still needs a code.                                       *)
THEOREM EndedStays == Spec => EndedStaysEnded
<1>1. ASSUME SidInv, [Next]_vars
      PROVE  [\A s \in past.ended \ DOMAIN sessions :
                s \in DOMAIN sessions' =>
                  FactorOn /\ \E t \in DOMAIN calls : calls[t].op = "login" /\ calls[t].ok /\ calls[t].sid = s]_vars
  <2> SUFFICES ASSUME Next, NEW s \in past.ended \ DOMAIN sessions, s \in DOMAIN sessions'
               PROVE  FactorOn /\ \E t \in DOMAIN calls : calls[t].op = "login" /\ calls[t].ok /\ calls[t].sid = s
    BY <1>1
  <2>1. TypeInv
    BY <1>1 DEF SidInv
  <2>2. s # NextSid
    BY <1>1, <2>1, Unfolded DEF SidInv, Given, NextSid, Past
  <2>3. PICK t \in Tab : AskForCode(t) /\ t \in DOMAIN calls /\ calls[t].sid = s
    BY <2>1, <2>2, SessionsStep
  <2> QED BY <2>3 DEF AskForCode
<1> QED BY <1>1, SidInvInit, SidInvNext, PTL DEF Spec, EndedStaysEnded

(* No session begins without the present code while a second factor is on. *)
THEOREM CodeComesFirst == Spec => CodeBeforeSession
<1>1. ASSUME SidInv, [Next]_vars
      PROVE  [\A s \in DOMAIN sessions' :
                s > past.sids /\ sessions'[s].user /\ FactorOn =>
                  /\ account.totp.secret \in known.secrets
                  /\ \E t \in Tab : pages[t].view = "code" /\ SessionOf(t).pending = "fresh"]_vars
  <2> SUFFICES ASSUME Next, NEW s \in DOMAIN sessions', s > past.sids, sessions'[s].user, FactorOn
               PROVE  /\ account.totp.secret \in known.secrets
                      /\ \E t \in Tab : pages[t].view = "code" /\ SessionOf(t).pending = "fresh"
    BY <1>1
  <2>1. TypeInv /\ past.sids \in Nat
    BY <1>1, Unfolded, Bounds DEF SidInv, Past
  <2>2. s \notin Given
    BY <2>1 DEF Given
  <2>3. s \notin DOMAIN sessions
    BY <1>1, <2>2 DEF SidInv
  <2>4. PICK t \in Tab :
          \/ Admit(t)
          \/ \E code \in Secret : Verify(t, code)
          \/ /\ t \in DOMAIN calls
             /\ s = IF calls[t].sid = None THEN NextSid ELSE calls[t].sid
             /\ sessions'[s].user = calls[t].copy.user
    BY <2>1, <2>3, SessionsStep
  <2>5. ~Admit(t)
    BY DEF Admit
  <2>6. CASE /\ t \in DOMAIN calls
             /\ s = IF calls[t].sid = None THEN NextSid ELSE calls[t].sid
             /\ sessions'[s].user = calls[t].copy.user
    BY <1>1, <2>2, <2>6 DEF SidInv
  <2>7. ASSUME NEW code \in Secret, Verify(t, code)
        PROVE  /\ account.totp.secret \in known.secrets
               /\ pages[t].view = "code" /\ SessionOf(t).pending = "fresh"
    BY <2>7 DEF Verify, CodeForm
  <2> QED BY <2>4, <2>5, <2>6, <2>7
<1> QED BY <1>1, SidInvInit, SidInvNext, PTL DEF Spec, CodeBeforeSession

-----------------------------------------------------------------------------
(* The user's app holds the secret of a factor that is on: it is switched  *)
(* on by a code for the secret that is stored, and a new secret switches   *)
(* it off.                                                                 *)
FactorInv == TypeInv /\ EnabledIsConfirmed

LEMMA FactorInvNext == FactorInv /\ [Next]_vars => FactorInv'
<1> SUFFICES ASSUME FactorInv, [Next]_vars PROVE FactorInv'
  OBVIOUS
<1>0. TypeInv /\ TypeInv'
  BY TypeInvNext DEF FactorInv
<1>1. CASE UNCHANGED vars
  BY <1>0, <1>1 DEF vars, FactorInv, EnabledIsConfirmed, FactorOn
<1>2. CASE Next
  <2>1. past.confirmed \subseteq past'.confirmed
    BY <1>0, <1>2, PastStep
  <2>2. known.secrets \subseteq known'.secrets
    <3>1. ASSUME NEW t \in Tab, Scan(t) PROVE known.secrets \subseteq known'.secrets
      BY <1>0, <3>1 DEF Scan, TypeInv, TypeOK
    <3>2. ASSUME NEW mail \in mails, Deliver(mail) PROVE known.secrets \subseteq known'.secrets
      BY <1>0, <3>2 DEF Deliver, TypeInv, TypeOK
    <3>3. UNCHANGED known \/ (\E t \in Tab : Scan(t)) \/ \E mail \in mails : Deliver(mail)
      BY <1>2, Acts DEF Open, Login, Refuse, Admit, AskForCode, Back, Logout, Work, Worked, Verify, Enable,
                        Disable, Turn, Setup, Drawn, ChangeEmail, Forgot, Reset, SetPassword, Follow, Age,
                        Expire, Lapse, Lose, Approach, Remind, Crash
    <3> QED BY <3>1, <3>2, <3>3
  <2>3. ASSUME account'.totp = account.totp PROVE EnabledIsConfirmed'
    BY <2>1, <2>2, <2>3 DEF FactorInv, EnabledIsConfirmed, FactorOn
  <2>4. ASSUME NEW t \in Tab, Setup(t) PROVE EnabledIsConfirmed'
    <3>1. account'.totp = [secret |-> past.secrets + 1, enabled |-> FALSE]
      BY <1>0, <2>4, Unfolded DEF Setup, SetTotpSecret, AccountRow
    <3> QED BY <3>1 DEF EnabledIsConfirmed, FactorOn
  <2>5. ASSUME NEW t \in Tab, NEW code \in Secret, Enable(t, code) PROVE EnabledIsConfirmed'
    <3>1. account.totp \in Totp /\ code = account.totp.secret /\ code \in known.secrets
      BY <1>0, <2>5, Unfolded DEF Enable, AccountRow
    <3>2. account'.totp.secret = code
      BY <1>0, <2>5, <3>1, Unfolded DEF Enable, AccountRow, Totp
    <3>3. [past EXCEPT !.confirmed = @ \cup {code}] \in Past
      BY <1>0, Unfolded DEF Past
    <3>4. code \in past'.confirmed
      BY <1>0, <2>5, <3>3, CountedOK, Unfolded DEF Enable, Past
    <3> QED BY <2>2, <3>1, <3>2, <3>4 DEF EnabledIsConfirmed
  <2>6. ASSUME NEW t \in Tab, NEW code \in Secret, Disable(t, code) PROVE EnabledIsConfirmed'
    <3>1. account'.totp = None
      BY <1>0, <2>6, Unfolded DEF Disable, AccountRow
    <3> QED BY <3>1 DEF EnabledIsConfirmed, FactorOn
  <2>7. \/ account'.totp = account.totp
        \/ \E t \in Tab : Setup(t) \/ \E code \in Secret : Enable(t, code) \/ Disable(t, code)
    <3>1. ASSUME NEW t \in Tab, SetPassword(t) \/ ChangeEmail(t) PROVE account'.totp = account.totp
      BY <1>0, <3>1, Unfolded DEF SetPassword, ChangeEmail, AccountRow
    <3>2. ASSUME NEW mail \in mails, Lose(mail) PROVE account'.totp = account.totp
      BY <1>0, <3>2, Unfolded DEF Lose, AccountRow
    <3>3. Approach \/ Remind => account'.totp = account.totp
      BY <1>0, Unfolded DEF Approach, Remind, AccountRow
    <3>4. \/ UNCHANGED account \/ Approach \/ Remind \/ \E mail \in mails : Lose(mail)
          \/ \E t \in Tab : \/ SetPassword(t) \/ ChangeEmail(t) \/ Setup(t)
                            \/ \E code \in Secret : Enable(t, code) \/ Disable(t, code)
      BY <1>2, Acts DEF Open, Login, Refuse, Admit, AskForCode, Back, Logout, Work, Worked, Verify, Turn, Drawn,
                        Scan, Forgot, Reset, Follow, Age, Expire, Lapse, Deliver, Crash
    <3> QED BY <3>1, <3>2, <3>3, <3>4
  <2> QED BY <1>0, <2>3, <2>4, <2>5, <2>6, <2>7 DEF FactorInv
<1> QED BY <1>1, <1>2

(* The second factor locks nobody out: while it is on, its secret has been *)
(* confirmed by a code and is in the user's app.                           *)
THEOREM FactorIsConfirmed == Spec => []EnabledIsConfirmed
<1>1. Init => FactorInv
  <2>1. Init => account.totp = None
    BY DEF Init
  <2> QED BY <2>1, TypeInvInit DEF FactorInv, EnabledIsConfirmed, FactorOn
<1>2. FactorInv => EnabledIsConfirmed
  BY DEF FactorInv
<1> QED BY <1>1, <1>2, FactorInvNext, PTL DEF Spec

-----------------------------------------------------------------------------
(* A link that is known, shown, on its way or under way has been issued,   *)
(* and one that has set a password is used.                                *)
LinkInv ==
  /\ TypeInv
  /\ known.links \subseteq DOMAIN tokens
  /\ \A m \in mails : m.token \in DOMAIN tokens \cup {None}
  /\ \A t \in Tab : pages[t].view = "reset" => pages[t].token \in DOMAIN tokens
  /\ \A t \in DOMAIN calls : calls[t].op = "reset" => calls[t].token \in DOMAIN tokens
  /\ \A k \in past.opened : k \in DOMAIN tokens /\ tokens[k] = "used"

LEMMA TokensStep ==
  ASSUME LinkInv, Next
  PROVE  /\ DOMAIN tokens \subseteq DOMAIN tokens'
         /\ \A k \in DOMAIN tokens : tokens[k] = "used" => tokens'[k] = "used"
         /\ \A t \in Tab : SetPassword(t) => tokens'[calls[t].token] = "used"
<1>0. tokens \in [1..Len(tokens) -> {"live", "used", "expired"}] /\ Len(tokens) \in Nat
  BY TokensOK, Bounds DEF LinkInv
<1>1. CASE \E t \in Tab : Forgot(t)
  <2>1. tokens' = Append(tokens, "live") /\ tokens \in Seq({"live", "used", "expired"})
    BY <1>0, <1>1 DEF Forgot
  <2>2. \A t \in Tab : SetPassword(t) => t \in DOMAIN calls /\ DOMAIN calls' = DOMAIN calls \ {t}
    BY AnsweredOK DEF SetPassword, LinkInv
  <2>3. UNCHANGED calls
    BY <1>1 DEF Forgot
  <2>4. \A t \in Tab : ~SetPassword(t)
    BY <2>2, <2>3
  <2> QED BY <1>0, <2>1, <2>4
<1>2. CASE \E k \in Token : Age(k)
  <2>1. PICK k \in Token : Age(k)
    BY <1>2
  <2>2. \A t \in Tab : ~SetPassword(t)
    BY <2>1 DEF Age, SetPassword, Answered, Without
  <2> QED BY <1>0, <2>1, <2>2 DEF Age
<1>3. CASE \E t \in Tab : SetPassword(t)
  <2>1. \A t \in Tab : SetPassword(t) =>
          /\ tokens' = [tokens EXCEPT ![calls[t].token] = "used"]
          /\ calls[t].token \in DOMAIN tokens
    BY DEF SetPassword, Used, LinkInv
  <2> QED BY <1>0, <1>3, <2>1
<1>4. CASE UNCHANGED tokens
  <2>1. \A t \in Tab : SetPassword(t) => tokens' = [tokens EXCEPT ![calls[t].token] = "used"]
                                         /\ calls[t].token \in DOMAIN tokens
    BY DEF SetPassword, Used, LinkInv
  <2> QED BY <1>0, <1>4, <2>1
<1>5. \/ UNCHANGED tokens \/ (\E t \in Tab : Forgot(t) \/ SetPassword(t)) \/ \E k \in Token : Age(k)
  BY Acts DEF Open, Login, Refuse, Admit, AskForCode, Back, Logout, Work, Worked, Verify, Enable, Disable, Turn,
              Setup, Drawn, Scan, ChangeEmail, Reset, Follow, Expire, Lapse, Deliver, Lose, Approach, Remind, Crash
<1> QED BY <1>1, <1>2, <1>3, <1>4, <1>5

LEMMA LinkInvNext == LinkInv /\ [Next]_vars => LinkInv'
<1> SUFFICES ASSUME LinkInv, [Next]_vars PROVE LinkInv'
  OBVIOUS
<1>0. TypeInv /\ TypeInv'
  BY TypeInvNext DEF LinkInv
<1>1. CASE UNCHANGED vars
  BY <1>0, <1>1 DEF vars, LinkInv
<1>2. CASE Next
  <2>1. /\ DOMAIN tokens \subseteq DOMAIN tokens'
        /\ \A k \in DOMAIN tokens : tokens[k] = "used" => tokens'[k] = "used"
        /\ \A t \in Tab : SetPassword(t) => tokens'[calls[t].token] = "used"
    BY <1>2, TokensStep
  <2>2. known'.links \subseteq DOMAIN tokens'
    <3>1. ASSUME NEW mail \in mails, Deliver(mail) PROVE known'.links \subseteq DOMAIN tokens
      BY <1>0, <3>1 DEF Deliver, LinkInv, TypeInv, TypeOK
    <3>2. ASSUME NEW t \in Tab, Scan(t) PROVE known'.links = known.links
      BY <1>0, <3>2 DEF Scan, TypeInv, TypeOK
    <3>3. UNCHANGED known \/ (\E t \in Tab : Scan(t)) \/ \E mail \in mails : Deliver(mail)
      BY <1>2, Acts DEF Open, Login, Refuse, Admit, AskForCode, Back, Logout, Work, Worked, Verify, Enable,
                        Disable, Turn, Setup, Drawn, ChangeEmail, Forgot, Reset, SetPassword, Follow, Age,
                        Expire, Lapse, Lose, Approach, Remind, Crash
    <3> QED BY <2>1, <3>1, <3>2, <3>3 DEF LinkInv
  <2>3. ASSUME NEW m \in mails' PROVE m.token \in DOMAIN tokens' \cup {None}
    <3>1. CASE m \in mails
      BY <2>1, <3>1 DEF LinkInv
    <3>2. ASSUME NEW t \in Tab, Forgot(t), m \notin mails PROVE m.token \in DOMAIN tokens'
      <4>1. m.token = Len(tokens) + 1
        BY <3>2 DEF Forgot, Queue
      <4>2. tokens' = Append(tokens, "live")
        BY <3>2 DEF Forgot
      <4>3. tokens \in [1..Len(tokens) -> {"live", "used", "expired"}] /\ Len(tokens) \in Nat
        BY <1>0, TokensOK, Bounds
      <4>4. tokens \in Seq({"live", "used", "expired"})
        BY <4>3
      <4>5. DOMAIN tokens' = 1..(Len(tokens) + 1)
        BY <4>2, <4>4
      <4> QED BY <4>1, <4>3, <4>5
    <3>3. Remind /\ m \notin mails => m.token = None
      BY DEF Remind, Queue
    <3>4. mails' \subseteq mails \/ Remind \/ \E t \in Tab : Forgot(t)
      BY <1>2, Acts DEF Open, Login, Refuse, Admit, AskForCode, Back, Logout, Work, Worked, Verify, Enable,
                        Disable, Turn, Setup, Drawn, Scan, ChangeEmail, Reset, SetPassword, Follow, Age,
                        Expire, Lapse, Deliver, Lose, Approach, Crash
    <3> QED BY <3>1, <3>2, <3>3, <3>4
  <2>4. ASSUME NEW t \in Tab, pages'[t].view = "reset" PROVE pages'[t].token \in DOMAIN tokens'
    BY <1>0, <1>2, <2>1, <2>4, PagesStep DEF LinkInv
  <2>5. ASSUME NEW t \in DOMAIN calls', calls'[t].op = "reset" PROVE calls'[t].token \in DOMAIN tokens'
    <3>1. CASE t \in DOMAIN calls /\ calls'[t] = calls[t]
      BY <2>1, <2>5, <3>1 DEF LinkInv
    <3>2. CASE t \in Tab /\ Reset(t) /\ calls'[t].token = pages[t].token
      BY <2>1, <3>2 DEF LinkInv, Reset, ResetForm
    <3> QED BY <1>0, <1>2, <2>5, <3>1, <3>2, CallsStep
  <2>6. ASSUME NEW k \in past'.opened PROVE k \in DOMAIN tokens' /\ tokens'[k] = "used"
    <3>1. CASE k \in past.opened
      BY <2>1, <3>1 DEF LinkInv
    <3>2. ASSUME NEW t \in Tab, SetPassword(t), k \notin past.opened PROVE k \in DOMAIN tokens' /\ tokens'[k] = "used"
      <4>1. k = calls[t].token
        BY <1>0, <3>2, Unfolded DEF SetPassword, Past
      <4>2. k \in DOMAIN tokens
        BY <3>2, <4>1 DEF SetPassword, LinkInv
      <4> QED BY <2>1, <3>2, <4>1, <4>2
    <3> QED BY <1>0, <1>2, <3>1, <3>2, PastStep
  <2> QED BY <1>0, <2>2, <2>3, <2>4, <2>5, <2>6 DEF LinkInv
<1> QED BY <1>1, <1>2

LEMMA LinkInvInit == Init => LinkInv
<1>1. Init => /\ known.links = {} /\ mails = {} /\ DOMAIN calls = {} /\ past.opened = {}
              /\ \A t \in Tab : pages[t].view = "other"
  BY DEF Init, Blank
<1> QED BY <1>1, TypeInvInit DEF LinkInv

(* A link that has set a password starts no other reset, in whatever tab   *)
(* or mail it is still to be found.                                        *)
THEOREM LinksAreUsedOnce == Spec => UsedLinkIsDead
<1>1. ASSUME LinkInv, [Next]_vars
      PROVE  [\A t \in DOMAIN calls' \ DOMAIN calls :
                calls'[t].op = "reset" => calls'[t].token \notin past.opened]_vars
  <2> SUFFICES ASSUME Next, NEW t \in DOMAIN calls' \ DOMAIN calls, calls'[t].op = "reset"
               PROVE  calls'[t].token \notin past.opened
    BY <1>1
  <2>1. Reset(t) /\ calls'[t].token = pages[t].token
    BY <1>1, CallsStep DEF LinkInv
  <2>2. tokens[calls'[t].token] = "live"
    BY <2>1 DEF Reset
  <2> QED BY <1>1, <2>2 DEF LinkInv
<1> QED BY <1>1, LinkInvInit, LinkInvNext, PTL DEF Spec, UsedLinkIsDead
=============================================================================

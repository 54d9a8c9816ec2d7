---------------------------- MODULE PanelLoginProofs ----------------------------
(***************************************************************************)
(* Who is let in: the sessions of the panel, for any number of browsers,     *)
(* logins, callbacks and any lifetimes, and the logins with Discord, for any  *)
(* number of requests, states and accounts.  The argument for sessions: a     *)
(* state is in panel_oauth_states or it has been taken by one callback, never *)
(* both, and what a browser carries it was given itself.  For Discord: a      *)
(* state that was completed is gone for good, and a ticket that was used      *)
(* leaves its nonce for as long as it is valid; what the file has of an       *)
(* account is what is held of it, unless the file was lost.                   *)
(***************************************************************************)
EXTENDS PanelLogin, DiscordLogin, FiniteSetTheorems, SequenceTheorems, TLAPS

Phases == {"none", "discord", "session", "over"}

PanelTypeOK ==
    /\ clock \in Nat
    /\ begun \in [Logins -> [browser : Browsers, until : Nat]]
    /\ oauth \subseteq Logins /\ sessions \subseteq Visits /\ revoked \subseteq Visits
    /\ jar \in [Browsers -> [login : Logins \cup {0}, session : Visits \cup {0}]]
    /\ visit \in [Visits -> [browser : Browsers, login : Logins \cup {0}, phase : Phases,
                             until : Nat]]

Took(v) == visit[v].phase \in {"discord", "session"}

TakenOnce == \A v, w \in Visits : Took(v) /\ Took(w) /\ visit[v].login = visit[w].login => v = w

TakenIsSpent ==
    \A v \in Visits : Took(v) =>
       /\ visit[v].login \in Logins /\ visit[v].login \notin oauth
       /\ begun[visit[v].login].until # 0
       /\ begun[visit[v].login].browser = visit[v].browser

CookieIsOwn ==
    \A b \in Browsers : jar[b].login # 0 =>
       begun[jar[b].login].until # 0 /\ begun[jar[b].login].browser = b

SessionIsOwn ==
    \A b \in Browsers : jar[b].session # 0 =>
       visit[jar[b].session].phase = "session" /\ visit[jar[b].session].browser = b

RevokedIsOut ==
    /\ revoked \cap sessions = {}
    /\ \A v \in revoked : visit[v].phase = "session"

PanelInv ==
    PanelTypeOK /\ TakenOnce /\ TakenIsSpent /\ CookieIsOwn /\ SessionIsOwn /\ RevokedIsOut

-----------------------------------------------------------------------------
\* An instant that is over stays so: clean-up only takes away (cleanupExpired,
\* panel-auth.service.ts:195).
LEMMA CleanedUp == KeptStates \subseteq oauth /\ KeptSessions \subseteq sessions
  BY DEF KeptStates, KeptSessions

\* Nobody is signed in when the panel starts with an empty database.
LEMMA PanelStarts == PanelInit => PanelInv
<1> SUFFICES ASSUME PanelInit PROVE PanelInv
  OBVIOUS
<1>1. (CHOOSE b \in Browsers : TRUE) \in Browsers
  BY LoginAssumption
<1>2. PanelTypeOK
  BY <1>1, LoginAssumption DEF PanelInit, PanelTypeOK, NoVisit, Phases
<1>3. \A v \in Visits : visit[v].phase = "none"
  BY DEF PanelInit, NoVisit
<1>4. \A b \in Browsers : jar[b].login = 0 /\ jar[b].session = 0
  BY DEF PanelInit
<1> QED
  BY <1>2, <1>3, <1>4 DEF PanelInit, PanelInv, TakenOnce, TakenIsSpent, CookieIsOwn,
     SessionIsOwn, RevokedIsOut, Took

\* GET /login keeps it: the new login is one that nobody took.
LEMMA StartLoginKeeps ==
  ASSUME PanelInv, NEW b \in Browsers, StartLogin(b) PROVE PanelInv'
<1>1. PICK l \in Logins :
         /\ begun[l].until = 0
         /\ begun' = [begun EXCEPT ![l] = [browser |-> b, until |-> clock + StateLife]]
         /\ oauth' = KeptStates \cup {l}
         /\ jar' = [jar EXCEPT ![b].login = l]
  BY DEF StartLogin
<1>2. sessions' = KeptSessions /\ UNCHANGED <<clock, visit, revoked>>
  BY DEF StartLogin
<1>3. l # 0 /\ clock + StateLife \in Nat /\ clock + StateLife # 0
  BY LoginAssumption DEF PanelInv, PanelTypeOK
<1>4. PanelTypeOK'
  <2>1. begun' \in [Logins -> [browser : Browsers, until : Nat]]
    BY <1>1, <1>3 DEF PanelInv, PanelTypeOK
  <2>2. jar' \in [Browsers -> [login : Logins \cup {0}, session : Visits \cup {0}]]
    BY <1>1 DEF PanelInv, PanelTypeOK
  <2> QED
    BY <1>1, <1>2, <2>1, <2>2, CleanedUp DEF PanelInv, PanelTypeOK
<1>5. TakenOnce'
  BY <1>2 DEF PanelInv, TakenOnce, Took
<1>6. TakenIsSpent'
  <2> SUFFICES ASSUME NEW v \in Visits, Took(v)
      PROVE /\ visit[v].login \in Logins /\ visit[v].login \notin oauth'
            /\ begun'[visit[v].login].until # 0
            /\ begun'[visit[v].login].browser = visit[v].browser
    BY <1>2 DEF TakenIsSpent, Took
  <2>1. /\ visit[v].login \in Logins /\ visit[v].login \notin oauth
        /\ begun[visit[v].login].until # 0
        /\ begun[visit[v].login].browser = visit[v].browser
    BY DEF PanelInv, TakenIsSpent
  <2>2. visit[v].login # l
    BY <1>1, <2>1
  <2>3. begun'[visit[v].login] = begun[visit[v].login]
    BY <1>1, <2>1, <2>2 DEF PanelInv, PanelTypeOK
  <2> QED
    BY <1>1, <2>1, <2>2, <2>3, CleanedUp
<1>7. CookieIsOwn'
  <2> SUFFICES ASSUME NEW c \in Browsers, jar'[c].login # 0
      PROVE begun'[jar'[c].login].until # 0 /\ begun'[jar'[c].login].browser = c
    BY DEF CookieIsOwn
  <2>1. CASE c = b
    <3>1. jar'[c].login = l
      BY <1>1, <2>1 DEF PanelInv, PanelTypeOK
    <3>2. begun'[l] = [browser |-> b, until |-> clock + StateLife]
      BY <1>1 DEF PanelInv, PanelTypeOK
    <3> QED
      BY <3>1, <3>2, <1>3, <2>1
  <2>2. CASE c # b
    <3>1. jar'[c] = jar[c]
      BY <1>1, <2>2 DEF PanelInv, PanelTypeOK
    <3>2. jar[c].login \in Logins /\ begun[jar[c].login].until # 0
          /\ begun[jar[c].login].browser = c
      BY <3>1 DEF PanelInv, PanelTypeOK, CookieIsOwn
    <3>3. begun'[jar[c].login] = begun[jar[c].login]
      BY <1>1, <3>2 DEF PanelInv, PanelTypeOK
    <3> QED
      BY <3>1, <3>2, <3>3
  <2> QED
    BY <2>1, <2>2
<1>8. SessionIsOwn'
  <2>1. \A c \in Browsers : jar'[c].session = jar[c].session
    BY <1>1 DEF PanelInv, PanelTypeOK
  <2> QED
    BY <1>2, <2>1 DEF PanelInv, SessionIsOwn
<1>9. RevokedIsOut'
  BY <1>2, CleanedUp DEF PanelInv, RevokedIsOut
<1> QED
  BY <1>4, <1>5, <1>6, <1>7, <1>8, <1>9 DEF PanelInv

\* The callback up to Discord keeps it: it takes its state out of the table in the same step
\* (consumeState, panel-auth.service.ts:132).
LEMMA OpenCallbackKeeps ==
  ASSUME PanelInv, NEW v \in Visits, NEW b \in Browsers, NEW l \in Logins, OpenCallback(v, b, l)
  PROVE  PanelInv'
<1>1. visit[v].phase = "none" /\ begun[l].until # 0 /\ UNCHANGED <<clock, begun, revoked>>
  BY DEF OpenCallback
<1>2. CASE ~SameState(b, l) \/ l \notin KeptStates
  <2>1. /\ visit' = [visit EXCEPT ![v].phase = "over"]
        /\ jar' = [jar EXCEPT ![b] = [jar[b] EXCEPT !.login = 0]]
        /\ oauth' \subseteq oauth /\ sessions' \subseteq sessions
    BY <1>2, CleanedUp DEF OpenCallback, Answer, Spent
  <2>2. PanelTypeOK'
    <3>1. [visit[v] EXCEPT !.phase = "over"] \in
            [browser : Browsers, login : Logins \cup {0}, phase : Phases, until : Nat]
      BY DEF PanelInv, PanelTypeOK, Phases
    <3>2. [jar[b] EXCEPT !.login = 0] \in [login : Logins \cup {0}, session : Visits \cup {0}]
      BY DEF PanelInv, PanelTypeOK
    <3> QED
      BY <1>1, <2>1, <3>1, <3>2 DEF PanelInv, PanelTypeOK
  <2>3. \A w \in Visits : /\ visit'[w].login = visit[w].login
                          /\ visit'[w].browser = visit[w].browser
                          /\ w # v => visit'[w].phase = visit[w].phase
    BY <2>1 DEF PanelInv, PanelTypeOK
  <2>4. visit'[v].phase = "over"
    BY <2>1 DEF PanelInv, PanelTypeOK
  <2>5. \A c \in Browsers : /\ jar'[c].session = jar[c].session
                            /\ jar'[c].login \in {0, jar[c].login}
    BY <2>1 DEF PanelInv, PanelTypeOK
  <2>6. \A w \in Visits : Took(w)' => w # v /\ Took(w)
    BY <2>3, <2>4 DEF Took
  <2>7. TakenOnce' /\ TakenIsSpent'
    BY <1>1, <2>1, <2>3, <2>6 DEF PanelInv, TakenOnce, TakenIsSpent
  <2>8. CookieIsOwn'
    BY <1>1, <2>5 DEF PanelInv, CookieIsOwn
  <2>9. SessionIsOwn'
    <3> SUFFICES ASSUME NEW c \in Browsers, jar[c].session # 0
        PROVE visit'[jar[c].session].phase = "session" /\ visit'[jar[c].session].browser = c
      BY <2>5 DEF SessionIsOwn
    <3>1. /\ jar[c].session \in Visits /\ visit[jar[c].session].phase = "session"
          /\ visit[jar[c].session].browser = c
      BY DEF PanelInv, PanelTypeOK, SessionIsOwn
    <3> QED
      BY <1>1, <2>3, <3>1
  <2>10. RevokedIsOut'
    BY <1>1, <2>1, <2>3 DEF PanelInv, PanelTypeOK, RevokedIsOut
  <2> QED
    BY <2>2, <2>7, <2>8, <2>9, <2>10 DEF PanelInv
<1>3. CASE SameState(b, l) /\ l \in KeptStates
  <2>1. /\ visit' = [visit EXCEPT ![v] = [NoVisit EXCEPT !.browser = b, !.login = l,
                                                         !.phase = "discord"]]
        /\ oauth' = KeptStates \ {l} /\ sessions' = KeptSessions /\ jar' = jar
    BY <1>3 DEF OpenCallback, Spent
  <2>2. /\ visit'[v].browser = b /\ visit'[v].login = l /\ visit'[v].phase = "discord"
        /\ \A w \in Visits : w # v => visit'[w] = visit[w]
    BY <2>1 DEF PanelInv, PanelTypeOK, NoVisit
  <2>3. visit' \in [Visits -> [browser : Browsers, login : Logins \cup {0}, phase : Phases,
                               until : Nat]]
    BY <2>1 DEF PanelInv, PanelTypeOK, NoVisit, Phases
  <2>4. PanelTypeOK'
    BY <1>1, <2>1, <2>3, CleanedUp DEF PanelInv, PanelTypeOK
  <2>5. l \in oauth /\ l # 0 /\ begun[l].browser = b
    BY <1>3, CleanedUp, LoginAssumption DEF PanelInv, CookieIsOwn, SameState
  <2>6. \A w \in Visits : w # v /\ Took(w) => visit[w].login # l
    BY <2>5 DEF PanelInv, TakenIsSpent
  <2>7. \A w \in Visits : w # v => (Took(w)' <=> Took(w))
    BY <2>2 DEF Took
  <2>8. TakenOnce'
    BY <2>2, <2>6, <2>7 DEF PanelInv, TakenOnce
  <2>9. TakenIsSpent'
    BY <1>1, <2>1, <2>2, <2>5, <2>7, CleanedUp DEF PanelInv, TakenIsSpent
  <2>10. CookieIsOwn'
    BY <1>1, <2>1 DEF PanelInv, CookieIsOwn
  <2>11. SessionIsOwn' /\ RevokedIsOut'
    <3>1. \A c \in Browsers : jar[c].session # 0 => jar[c].session \in Visits /\ jar[c].session # v
      BY <1>1 DEF PanelInv, PanelTypeOK, SessionIsOwn
    <3>2. SessionIsOwn'
      BY <2>1, <2>2, <3>1 DEF PanelInv, SessionIsOwn
    <3>3. RevokedIsOut'
      BY <1>1, <2>1, <2>2, CleanedUp DEF PanelInv, PanelTypeOK, RevokedIsOut
    <3> QED
      BY <3>2, <3>3
  <2> QED
    BY <2>4, <2>8, <2>9, <2>10, <2>11 DEF PanelInv
<1> QED
  BY <1>2, <1>3

\* The end of a callback keeps it, whether Discord let it in or not: a session is new, so nobody
\* has logged it out, and it is given to the browser that came.
LEMMA CallbackEndKeeps ==
  ASSUME PanelInv, NEW v \in Visits, LoginFails(v) \/ CompleteLogin(v) PROVE PanelInv'
<1>1. visit[v].phase = "discord" /\ UNCHANGED <<clock, begun, revoked>>
  BY DEF LoginFails, CompleteLogin
<1>2. PICK phase \in {"over", "session"}, until \in Nat :
         /\ visit' = [visit EXCEPT ![v] = [visit[v] EXCEPT !.phase = phase, !.until = until]]
         /\ sessions' \subseteq (IF phase = "session" THEN sessions \cup {v} ELSE sessions)
         /\ \/ jar' = jar
            \/ jar' = [jar EXCEPT ![visit[v].browser] = [jar[visit[v].browser] EXCEPT !.login = 0]]
            \/ /\ phase = "session"
               /\ jar' = [jar EXCEPT ![visit[v].browser] = [login |-> 0, session |-> v]]
  <2>1. CASE LoginFails(v)
    <3>1. visit[v].until \in Nat
      BY DEF PanelInv, PanelTypeOK
    <3>2. visit' = [visit EXCEPT ![v] = [visit[v] EXCEPT !.phase = "over", !.until = visit[v].until]]
      BY <2>1 DEF LoginFails, PanelInv, PanelTypeOK
    <3> QED
      BY <2>1, <3>1, <3>2 DEF LoginFails, Answer
  <2>2. CASE CompleteLogin(v)
    <3>1. clock + SessionLife \in Nat
      BY LoginAssumption DEF PanelInv, PanelTypeOK
    <3> QED
      BY <2>2, <3>1, CleanedUp DEF CompleteLogin, Answer
  <2> QED
    BY <2>1, <2>2
<1>3. oauth' \subseteq oauth
  BY CleanedUp DEF LoginFails, CompleteLogin
<1>4. PanelTypeOK'
  <2>1. /\ visit[v].browser \in Browsers /\ phase \in Phases /\ v \in Visits /\ until \in Nat
        /\ visit \in [Visits -> [browser : Browsers, login : Logins \cup {0}, phase : Phases,
                                 until : Nat]]
    BY DEF PanelInv, PanelTypeOK, Phases
  <2>2. [visit[v] EXCEPT !.phase = phase, !.until = until]
           \in [browser : Browsers, login : Logins \cup {0}, phase : Phases, until : Nat]
    BY <2>1
  <2>3. visit' \in [Visits -> [browser : Browsers, login : Logins \cup {0}, phase : Phases,
                               until : Nat]]
    BY <1>2, <2>1, <2>2
  <2>4. /\ jar[visit[v].browser].login \in Logins \cup {0}
        /\ jar[visit[v].browser].session \in Visits \cup {0}
        /\ [jar[visit[v].browser] EXCEPT !.login = 0] =
              [login |-> 0, session |-> jar[visit[v].browser].session]
    BY <2>1 DEF PanelInv, PanelTypeOK
  <2>5. PICK s \in Visits \cup {0} :
           jar' = jar \/ jar' = [jar EXCEPT ![visit[v].browser] = [login |-> 0, session |-> s]]
    BY <1>2, <2>4
  <2>6. jar' \in [Browsers -> [login : Logins \cup {0}, session : Visits \cup {0}]]
    BY <2>5 DEF PanelInv, PanelTypeOK
  <2> QED
    BY <1>1, <1>2, <1>3, <2>3, <2>6 DEF PanelInv, PanelTypeOK
<1>5. \A w \in Visits : /\ visit'[w].login = visit[w].login
                        /\ visit'[w].browser = visit[w].browser
                        /\ w # v => visit'[w] = visit[w]
  BY <1>2 DEF PanelInv, PanelTypeOK
<1>6. visit'[v].phase = phase
  BY <1>2 DEF PanelInv, PanelTypeOK
<1>7. \A w \in Visits : Took(w)' => Took(w)
  BY <1>1, <1>5, <1>6 DEF Took
<1>8. TakenOnce' /\ TakenIsSpent'
  BY <1>1, <1>3, <1>5, <1>7 DEF PanelInv, TakenOnce, TakenIsSpent
<1>9. \A c \in Browsers :
         /\ jar'[c].login \in {0, jar[c].login}
         /\ \/ jar'[c].session = jar[c].session
            \/ phase = "session" /\ jar'[c].session = v /\ c = visit[v].browser
  BY <1>2 DEF PanelInv, PanelTypeOK
<1>10. CookieIsOwn'
  BY <1>1, <1>9 DEF PanelInv, CookieIsOwn
<1>11. SessionIsOwn'
  <2> SUFFICES ASSUME NEW c \in Browsers, jar'[c].session # 0
      PROVE visit'[jar'[c].session].phase = "session" /\ visit'[jar'[c].session].browser = c
    BY DEF SessionIsOwn
  <2>1. CASE jar'[c].session = jar[c].session
    <3>1. /\ jar[c].session \in Visits /\ visit[jar[c].session].phase = "session"
          /\ visit[jar[c].session].browser = c
      BY <2>1 DEF PanelInv, PanelTypeOK, SessionIsOwn
    <3> QED
      BY <1>1, <1>5, <2>1, <3>1
  <2>2. CASE phase = "session" /\ jar'[c].session = v /\ c = visit[v].browser
    BY <1>5, <1>6, <2>2
  <2> QED
    BY <1>9, <2>1, <2>2
<1>12. RevokedIsOut'
  <2>1. v \notin revoked
    BY <1>1 DEF PanelInv, RevokedIsOut
  <2> QED
    BY <1>1, <1>2, <1>5, <2>1 DEF PanelInv, PanelTypeOK, RevokedIsOut
<1> QED
  BY <1>4, <1>8, <1>10, <1>11, <1>12 DEF PanelInv

\* Logging out and being let in keep it (revokeSession, panel-auth.service.ts:171).
LEMMA BrowserKeeps ==
  ASSUME PanelInv, NEW b \in Browsers, Logout(b) \/ Enter(b) PROVE PanelInv'
<1>1. CASE Logout(b)
  <2>1. /\ jar[b].session \in Visits /\ visit[jar[b].session].phase = "session"
    BY <1>1 DEF Logout, PanelInv, PanelTypeOK, SessionIsOwn
  <2>2. /\ sessions' = sessions \ {jar[b].session}
        /\ revoked' = revoked \cup {jar[b].session}
        /\ UNCHANGED <<clock, begun, oauth, visit>>
        /\ jar' = jar \/ jar' = [jar EXCEPT ![b] = [jar[b] EXCEPT !.session = 0]]
    BY <1>1 DEF Logout, Revoked, Answer
  <2>3. PanelTypeOK'
    <3>1. jar' \in [Browsers -> [login : Logins \cup {0}, session : Visits \cup {0}]]
      BY <2>2 DEF PanelInv, PanelTypeOK
    <3> QED
      BY <2>1, <2>2, <3>1 DEF PanelInv, PanelTypeOK
  <2>4. \A c \in Browsers : /\ jar'[c].login = jar[c].login
                            /\ jar'[c].session \in {0, jar[c].session}
    BY <2>2 DEF PanelInv, PanelTypeOK
  <2>5. TakenOnce' /\ TakenIsSpent'
    BY <2>2 DEF PanelInv, TakenOnce, TakenIsSpent, Took
  <2>6. CookieIsOwn' /\ SessionIsOwn'
    BY <2>2, <2>4 DEF PanelInv, CookieIsOwn, SessionIsOwn
  <2>7. RevokedIsOut'
    BY <2>1, <2>2 DEF PanelInv, RevokedIsOut
  <2> QED
    BY <2>3, <2>5, <2>6, <2>7 DEF PanelInv
<1>2. CASE Enter(b)
  BY <1>2, CleanedUp DEF Enter, PanelInv, PanelTypeOK, TakenOnce, TakenIsSpent, CookieIsOwn,
     SessionIsOwn, RevokedIsOut, Took
<1> QED
  BY <1>1, <1>2

\* Every step of the panel keeps the invariant.
LEMMA PanelStepKeeps == PanelInv /\ [PanelNext]_panelVars => PanelInv'
<1> SUFFICES ASSUME PanelInv, [PanelNext]_panelVars PROVE PanelInv'
  OBVIOUS
<1>1. CASE Tick
  <2>1. clock + 1 \in Nat
    BY DEF PanelInv, PanelTypeOK
  <2> QED
    BY <1>1, <2>1 DEF Tick, PanelInv, PanelTypeOK, TakenOnce, TakenIsSpent, CookieIsOwn,
       SessionIsOwn, RevokedIsOut, Took
<1>2. ASSUME NEW b \in Browsers, StartLogin(b) PROVE PanelInv'
  BY <1>2, StartLoginKeeps
<1>3. ASSUME NEW b \in Browsers, NEW v \in Visits, NEW l \in Logins, OpenCallback(v, b, l)
      PROVE PanelInv'
  BY <1>3, OpenCallbackKeeps
<1>4. ASSUME NEW v \in Visits, LoginFails(v) \/ CompleteLogin(v) PROVE PanelInv'
  BY <1>4, CallbackEndKeeps
<1>5. ASSUME NEW b \in Browsers, Logout(b) \/ Enter(b) PROVE PanelInv'
  BY <1>5, BrowserKeeps
<1>6. CASE UNCHANGED panelVars
  BY <1>6 DEF panelVars, PanelInv, PanelTypeOK, TakenOnce, TakenIsSpent, CookieIsOwn,
     SessionIsOwn, RevokedIsOut, Took
<1> QED
  BY <1>1, <1>2, <1>3, <1>4, <1>5, <1>6 DEF PanelNext

\* The invariant implies what the runs check.
LEMMA PanelInvSuffices == PanelInv => SessionsAreSound
<1> SUFFICES ASSUME PanelInv PROVE SessionsAreSound
  OBVIOUS
<1>1. OneSessionPerLogin
  BY DEF PanelInv, TakenOnce, Took, OneSessionPerLogin
<1>2. LetInIsLive
  BY DEF PanelInv, RevokedIsOut, LetInIsLive, LetIn, KeptSessions
<1>3. SessionIsOfItsBrowser
  <2> SUFFICES ASSUME NEW b \in Browsers, jar[b].session # 0
      PROVE begun[visit[jar[b].session].login].browser = b
    BY DEF SessionIsOfItsBrowser
  <2>1. /\ jar[b].session \in Visits /\ visit[jar[b].session].phase = "session"
        /\ visit[jar[b].session].browser = b
    BY DEF PanelInv, PanelTypeOK, SessionIsOwn
  <2> QED
    BY <2>1 DEF PanelInv, TakenIsSpent, Took
<1> QED
  BY <1>1, <1>2, <1>3 DEF SessionsAreSound

\* Every variable of the panel's login keeps its type.
THEOREM PanelTypeCorrect == PanelSpec => []PanelTypeOK
<1>1. PanelInv => PanelTypeOK
  BY DEF PanelInv
<1> QED
  BY PanelStarts, PanelStepKeeps, <1>1, PTL DEF PanelSpec

\* One login is one session, who is let in has not expired or logged out, and a browser has
\* sessions of its own logins only (panel-auth.service.ts, panel-auth.routes.ts).
THEOREM SessionsSound == PanelSpec => []SessionsAreSound
  BY PanelStarts, PanelStepKeeps, PanelInvSuffices, PTL DEF PanelSpec

-----------------------------------------------------------------------------
(* Signing in with Discord: a state that was completed is gone for good, and a ticket is made by *)
(* a request that is over and leaves its nonce for as long as it is valid. *)

ThreadSteps == {"none", "exchange", "find", "create", "update", "save", "report", "renew", "end"}

ThreadRecords == [kind : {"none", "browser", "portal", "refresh"}, at : ThreadSteps,
                  state : {0} \cup States, account : Accounts, object : Nat]

OneTimeTypeOK ==
    /\ thread \in [Threads -> ThreadRecords] /\ byAccount \in [Accounts -> Nat]
    /\ \E S : users \in Seq(S)
    /\ state \in [States -> StateKinds] /\ gained \in [States -> Nat]
    /\ tickets \in [Threads -> {"none", "valid", "expired", "late"}]
    /\ portal \in [nonces : SUBSET Threads, sessions : [Threads -> Nat]]

CompletedIsGone == \A s \in States : gained[s] # 0 => gained[s] = 1 /\ state[s] = "gone"

TicketIsOfWhoIsOver ==
    \A t \in Threads :
       /\ tickets[t] # "none" => thread[t].at = "end"
       /\ portal.sessions[t] # 0 =>
             /\ portal.sessions[t] = 1 \/ (portal.sessions[t] = 2 /\ tickets[t] = "late")
             /\ tickets[t] # "none" /\ (tickets[t] = "valid" => t \in portal.nonces)

OneTimeInv ==
    OneTimeTypeOK /\ CompletedIsGone /\ LinkIsTheOneThatWaits /\ TicketIsOfWhoIsOver

\* A request is a thread that goes on from step to step and does not come back from its end.
ThreadsGoOn ==
    /\ thread' \in [Threads -> ThreadRecords] /\ byAccount' \in [Accounts -> Nat]
    /\ \E S : users' \in Seq(S)
    /\ \A t \in Threads : thread[t].at = "end" => thread'[t].at = "end"

LEMMA ThreadIs ==
  ASSUME OneTimeInv, NEW t \in Threads
  PROVE  /\ thread[t].kind \in {"none", "browser", "portal", "refresh"} /\ thread[t].at \in ThreadSteps
         /\ thread[t].state \in {0} \cup States /\ thread[t].account \in Accounts
         /\ thread[t].object \in Nat
<1>1. thread[t] \in ThreadRecords
  BY DEF OneTimeInv, OneTimeTypeOK
<1> QED
  BY <1>1 DEF ThreadRecords

\* A table of objects is a sequence whatever is in it.
LEMMA IsTable ==
  ASSUME NEW f, NEW n \in Nat, f = [i \in 1 .. n |-> f[i]]
  PROVE  \E S : f \in Seq(S)
<1> DEFINE S == {f[i] : i \in 1 .. n}
<1>1. \A i \in 1 .. n : f[i] \in S
  OBVIOUS
<1>2. f \in [1 .. n -> S]
  <2> HIDE DEF S
  <2> QED
    BY <1>1
<1> HIDE DEF S
<1>3. f \in Seq(S)
  BY <1>2, SeqDef
<1> QED
  BY <1>3

LEMMA GoesOn ==
  ASSUME OneTimeInv, NEW t \in Threads, thread[t].at # "end", NEW r \in ThreadRecords,
         thread' = [thread EXCEPT ![t] = r], byAccount' \in [Accounts -> Nat],
         \E S : users' \in Seq(S)
  PROVE  ThreadsGoOn /\ thread'[t] = r
BY DEF OneTimeInv, OneTimeTypeOK, ThreadsGoOn

LEMMA GoIs ==
  ASSUME OneTimeInv, NEW t \in Threads, NEW step \in ThreadSteps, thread[t].at # "end",
         Go(t, step), byAccount' = byAccount, \E S : users' \in Seq(S)
  PROVE  ThreadsGoOn /\ thread'[t].at = step
<1> DEFINE r == [thread[t] EXCEPT !.at = step]
<1>1. thread[t] \in ThreadRecords /\ byAccount \in [Accounts -> Nat]
  BY DEF OneTimeInv, OneTimeTypeOK
<1>2. r \in ThreadRecords /\ r.at = step
  BY <1>1 DEF ThreadRecords
<1>3. thread' = [thread EXCEPT ![t] = r]
  BY DEF Go
<1> HIDE DEF r
<1> QED
  BY <1>1, <1>2, <1>3, GoesOn

LEMMA AuthenticateGoesOn ==
  ASSUME OneTimeInv, NEW t \in Threads, Authenticate(t) PROVE ThreadsGoOn
<1>1. CASE Exchange(t) \/ Renew(t)
  <2>1. /\ Go(t, "find") \/ Go(t, "end") \/ Go(t, "update")
        /\ thread[t].at # "end" /\ byAccount' = byAccount /\ users' = users
    BY <1>1 DEF Exchange, Renew, At, storageVars
  <2> QED
    BY <2>1, GoIs DEF ThreadSteps, OneTimeInv, OneTimeTypeOK
<1>2. CASE UpdateUser(t) \/ SaveUsers(t) \/ RefreshEnds(t)
  <2>1. /\ Go(t, "save") \/ Go(t, "report") \/ Go(t, "end")
        /\ thread[t].at # "end" /\ byAccount' = byAccount
    BY <1>2 DEF UpdateUser, SaveUsers, RefreshEnds, At, storageVars
  <2>2. \E S : users' \in Seq(S)
    <3>1. PICK S : users \in Seq(S)
      BY DEF OneTimeInv, OneTimeTypeOK
    <3>2. CASE users' = users
      BY <3>1, <3>2
    <3>3. CASE users' = [users EXCEPT ![thread[t].object].token = t]
      <4>1. Len(users) \in Nat /\ DOMAIN users = 1 .. Len(users)
        BY <3>1, LenProperties
      <4>2. users' = [i \in 1 .. Len(users) |-> users'[i]]
        BY <3>3, <4>1
      <4> QED
        BY <4>1, <4>2, IsTable
    <3> QED
      BY <1>2, <3>2, <3>3 DEF UpdateUser, SaveUsers, RefreshEnds, storageVars
  <2> QED
    BY <2>1, <2>2, GoIs DEF ThreadSteps
<1>3. CASE Find(t)
  <2> DEFINE o == byAccount[thread[t].account]
             one == [thread[t] EXCEPT !.object = o]
             r == [one EXCEPT !.at = IF o = 0 THEN "create" ELSE "update"]
  <2>1. thread[t] \in ThreadRecords /\ byAccount \in [Accounts -> Nat] /\ o \in Nat
    BY ThreadIs DEF OneTimeInv, OneTimeTypeOK
  <2>2. /\ thread' = [thread EXCEPT ![t] = r] /\ thread[t].at # "end" /\ byAccount' = byAccount
        /\ \E S : users' \in Seq(S)
    BY <1>3 DEF Find, At, storageVars, OneTimeInv, OneTimeTypeOK
  <2> HIDE DEF o
  <2>3. one \in ThreadRecords
    BY <2>1 DEF ThreadRecords
  <2> HIDE DEF one
  <2>4. r \in ThreadRecords
    BY <2>3 DEF ThreadRecords, ThreadSteps
  <2> HIDE DEF r
  <2> QED
    BY <2>1, <2>2, <2>4, GoesOn
<1>4. CASE CreateUser(t)
  <2> DEFINE o == Len(users) + 1
             one == [thread[t] EXCEPT !.object = o]
             r == [one EXCEPT !.at = "update"]
             u == [account |-> thread[t].account, name |-> FreeName, token |-> 0]
  <2>1. PICK S : users \in Seq(S)
    BY DEF OneTimeInv, OneTimeTypeOK
  <2>2. thread[t] \in ThreadRecords /\ byAccount \in [Accounts -> Nat] /\ o \in Nat
    BY <2>1, LenProperties DEF OneTimeInv, OneTimeTypeOK
  <2>3. /\ thread' = [thread EXCEPT ![t] = r] /\ thread[t].at # "end"
        /\ byAccount' = [byAccount EXCEPT ![thread[t].account] = o] /\ users' = Append(users, u)
    BY <1>4 DEF CreateUser, At, OneTimeInv, OneTimeTypeOK
  <2> HIDE DEF o, u
  <2>4. byAccount' \in [Accounts -> Nat]
    BY <2>2, <2>3
  <2>5. \E V : users' \in Seq(V)
    <3>1. users \in Seq(S \cup {u})
      BY <2>1, SeqMonotonic
    <3>2. Append(users, u) \in Seq(S \cup {u})
      BY <3>1, AppendProperties
    <3> QED
      BY <2>3, <3>2
  <2>6. one \in ThreadRecords
    BY <2>2 DEF ThreadRecords
  <2> HIDE DEF one
  <2>7. r \in ThreadRecords
    BY <2>6 DEF ThreadRecords, ThreadSteps
  <2> HIDE DEF r
  <2> QED
    BY <2>3, <2>4, <2>5, <2>7, GoesOn
<1>5. CASE BeginRefresh(t)
  <2>1. PICK a \in Accounts :
           thread' = [thread EXCEPT ![t] = [@ EXCEPT !.kind = "refresh", !.account = a,
                                                     !.object = byAccount[a], !.at = "renew"]]
    BY <1>5 DEF BeginRefresh
  <2> DEFINE one == [thread[t] EXCEPT !.kind = "refresh"]
             two == [one EXCEPT !.account = a]
             three == [two EXCEPT !.object = byAccount[a]]
             r == [three EXCEPT !.at = "renew"]
  <2>2. thread[t] \in ThreadRecords /\ byAccount[a] \in Nat /\ byAccount \in [Accounts -> Nat]
    BY DEF OneTimeInv, OneTimeTypeOK
  <2>3. /\ thread' = [thread EXCEPT ![t] = r] /\ thread[t].at # "end" /\ byAccount' = byAccount
        /\ \E S : users' \in Seq(S)
    BY <1>5, <2>1 DEF BeginRefresh, At, storageVars, OneTimeInv, OneTimeTypeOK
  <2>4. one \in ThreadRecords
    BY <2>2 DEF ThreadRecords
  <2> HIDE DEF one
  <2>5. two \in ThreadRecords
    BY <2>4 DEF ThreadRecords
  <2> HIDE DEF two
  <2>6. three \in ThreadRecords
    BY <2>2, <2>5 DEF ThreadRecords
  <2> HIDE DEF three
  <2>7. r \in ThreadRecords
    BY <2>6 DEF ThreadRecords, ThreadSteps
  <2> HIDE DEF r
  <2> QED
    BY <2>2, <2>3, <2>7, GoesOn
<1> QED
  BY <1>1, <1>2, <1>3, <1>4, <1>5 DEF Authenticate

\* Tickets stay when only threads and states move.
LEMMA TicketsStay ==
  ASSUME OneTimeInv, ThreadsGoOn, tickets' = tickets, portal' = portal,
         state' \in [States -> StateKinds], gained' \in [States -> Nat]
  PROVE  OneTimeTypeOK' /\ TicketIsOfWhoIsOver'
<1>1. OneTimeTypeOK'
  BY DEF OneTimeInv, OneTimeTypeOK, ThreadsGoOn
<1>2. TicketIsOfWhoIsOver'
  BY DEF OneTimeInv, TicketIsOfWhoIsOver, ThreadsGoOn
<1> QED
  BY <1>1, <1>2

\* The others are where they were.
LEMMA ThreadsStay ==
  ASSUME OneTimeInv, UNCHANGED <<users, byAccount, thread>> PROVE ThreadsGoOn
BY DEF OneTimeInv, OneTimeTypeOK, ThreadsGoOn

\* States that are gone stay so, and what waits is what the launcher shows.
LEMMA StatesMove ==
  ASSUME OneTimeInv, ThreadsGoOn, tickets' = tickets, portal' = portal, gained' = gained,
         state' \in [States -> StateKinds],
         \A s \in States : state[s] = "gone" => state'[s] = "gone",
         \A s \in States : state'[s] = "pending" => s = link'
  PROVE  OneTimeInv'
<1>1. OneTimeTypeOK' /\ TicketIsOfWhoIsOver'
  BY TicketsStay DEF OneTimeInv, OneTimeTypeOK
<1>2. CompletedIsGone'
  BY DEF OneTimeInv, CompletedIsGone
<1>3. LinkIsTheOneThatWaits'
  BY DEF LinkIsTheOneThatWaits, Pending
<1> QED
  BY <1>1, <1>2, <1>3 DEF OneTimeInv

LEMMA PendingIsShown == ASSUME OneTimeInv PROVE \A s \in States : state[s] = "pending" => s = link
BY DEF OneTimeInv, LinkIsTheOneThatWaits, Pending

LEMMA LauncherKeeps ==
  ASSUME OneTimeInv,
         Availability \/ Reconnect \/ ConfirmByClient \/ ConfirmByState \/ ExpireState \/ StartPortal
  PROVE  OneTimeInv'
<1>1. UNCHANGED <<users, byAccount, thread, tickets, portal, gained>>
  BY DEF Availability, Reconnect, ConfirmByClient, ConfirmByState, ExpireState, StartPortal,
         discordVars, storageVars
<1>2. ThreadsGoOn /\ state \in [States -> StateKinds]
  BY <1>1, ThreadsStay DEF OneTimeInv, OneTimeTypeOK
<1>3. ASSUME NEW s \in States, state[s] = "unused", state' = [state EXCEPT ![s] = "pending"],
             Pending = {}, link' = s
      PROVE  OneTimeInv'
  BY <1>1, <1>2, <1>3, StatesMove DEF Pending, StateKinds
<1>4. CASE Availability
  <2>1. CASE Pending # {}
    <3>1. link' \in Pending /\ state' = state
      BY <1>4, <2>1 DEF Availability
    <3>2. link' = link
      BY <3>1, PendingIsShown DEF Pending
    <3> QED
      BY <1>1, <1>2, <3>1, <3>2, PendingIsShown, StatesMove
  <2>2. CASE Pending = {}
    BY <1>3, <1>4, <2>2 DEF Availability, Fresh
  <2> QED
    BY <2>1, <2>2
<1>5. CASE Reconnect
  <2>1. /\ state' = [s \in States |-> IF s \in Pending THEN "lost" ELSE state[s]] /\ link' = link
    BY <1>5 DEF Reconnect
  <2>2. /\ state' \in [States -> StateKinds]
        /\ \A s \in States : state[s] = "gone" => state'[s] = "gone"
        /\ \A s \in States : state'[s] # "pending"
    BY <1>2, <2>1 DEF Pending, StateKinds
  <2> QED
    BY <1>1, <1>2, <2>1, <2>2, StatesMove
<1>6. CASE ConfirmByClient \/ ConfirmByState
  BY <1>1, <1>2, <1>6, PendingIsShown, StatesMove DEF ConfirmByClient, ConfirmByState
<1>7. CASE ExpireState
  <2>1. link' = link /\ (state' = state \/ \E s \in States : state' = [state EXCEPT ![s] = "gone"])
    BY <1>7 DEF ExpireState
  <2>2. /\ state' \in [States -> StateKinds]
        /\ \A s \in States : state'[s] = state[s] \/ state'[s] = "gone"
    BY <1>2, <2>1 DEF StateKinds
  <2> QED
    BY <1>1, <1>2, <2>1, <2>2, PendingIsShown, StatesMove
<1>8. CASE StartPortal
  <2>1. link' = link /\ \E s \in States : state[s] = "unused" /\ state' = [state EXCEPT ![s] = "portal"]
    BY <1>8 DEF StartPortal, Fresh
  <2>2. /\ state' \in [States -> StateKinds]
        /\ \A s \in States : state'[s] = state[s] \/ (state[s] = "unused" /\ state'[s] = "portal")
    BY <1>2, <2>1 DEF StateKinds
  <2> QED
    BY <1>1, <1>2, <2>1, <2>2, PendingIsShown, StatesMove
<1> QED
  BY <1>4, <1>5, <1>6, <1>7, <1>8

\* What load has made: one object for each account of the file.
LEMMA LoadedIs ==
  ASSUME Loaded
  PROVE  \E n \in Nat : \E order \in [1 .. n -> Accounts] :
           /\ users' = [i \in 1 .. n |-> [account |-> order[i], name |-> database[order[i]].name,
                                          token |-> database[order[i]].token]]
           /\ \A i \in 1 .. n : database[order[i]] # NoAccount
           /\ \A i, j \in 1 .. n : order[i] = order[j] => i = j
           /\ byAccount' \in [Accounts -> 0 .. n]
           /\ \A a \in Accounts : byAccount'[a] # 0 <=> database[a] # NoAccount
           /\ \A a \in Accounts : byAccount'[a] # 0 => order[byAccount'[a]] = a
           /\ taken' = {database[a].name : a \in {b \in Accounts : database[b] # NoAccount}}
<1> DEFINE known == {a \in Accounts : database[a] # NoAccount}
           n == Cardinality(known)
           order == CHOOSE f \in Bijection(1 .. n, known) : TRUE
<1>1. known \subseteq Accounts
  OBVIOUS
<1>2. IsFiniteSet(known)
  BY <1>1, ThreadsAssumption, FS_Subset
<1>3. n \in Nat /\ ExistsBijection(1 .. n, known)
  BY <1>2, FS_CardinalityType
<1>4. /\ users' = [i \in 1 .. n |-> [account |-> order[i], name |-> database[order[i]].name,
                                     token |-> database[order[i]].token]]
      /\ byAccount' = [a \in Accounts |-> IF a \notin known THEN 0
                                          ELSE CHOOSE i \in 1 .. n : order[i] = a]
      /\ taken' = {database[a].name : a \in known}
  BY DEF Loaded
<1>5. \A a \in Accounts : a \in known <=> database[a] # NoAccount
  OBVIOUS
<1> HIDE DEF known
<1> HIDE DEF n
<1>6. order \in Bijection(1 .. n, known)
  BY <1>3 DEF ExistsBijection
<1> HIDE DEF order
<1>7. /\ order \in [1 .. n -> known] /\ \A i, j \in 1 .. n : order[i] = order[j] => i = j
      /\ \A a \in known : \E i \in 1 .. n : order[i] = a
  BY <1>6 DEF Bijection, Injection, Surjection, IsInjective, Range
<1>8. \A a \in known : byAccount'[a] \in 1 .. n /\ order[byAccount'[a]] = a
  BY <1>1, <1>4, <1>7
<1>9. byAccount' \in [Accounts -> 0 .. n] /\ \A a \in Accounts : a \notin known => byAccount'[a] = 0
  BY <1>3, <1>4, <1>8
<1>10. \A a \in Accounts : byAccount'[a] # 0 <=> database[a] # NoAccount
  BY <1>3, <1>5, <1>8, <1>9
<1>11. \A a \in Accounts : byAccount'[a] # 0 => order[byAccount'[a]] = a
  BY <1>8, <1>9
<1>12. /\ order \in [1 .. n -> Accounts] /\ \A i \in 1 .. n : database[order[i]] # NoAccount
  BY <1>1, <1>5, <1>7
<1>13. taken' = {database[a].name : a \in {b \in Accounts : database[b] # NoAccount}}
  BY <1>4 DEF known
<1> QED
  BY <1>3, <1>4, <1>7, <1>9, <1>10, <1>11, <1>12, <1>13

\* A killed LaunchServer forgets every state that was issued, and every request is over.
LEMMA DiesKeeps == ASSUME OneTimeInv, LaunchServerDies PROVE OneTimeInv'
<1>1. /\ state' = [s \in States |-> IF state[s] = "unused" THEN "unused" ELSE "gone"]
      /\ UNCHANGED <<link, gained, tickets, portal>>
      /\ thread' = [t \in Threads |-> IF thread[t].at = "none" THEN NoThread
                                      ELSE [NoThread EXCEPT !.at = "end"]]
      /\ Loaded \/ LoadsNothing
  BY DEF LaunchServerDies, Killed
<1>2. NoThread \in ThreadRecords /\ [NoThread EXCEPT !.at = "end"] \in ThreadRecords
      /\ [NoThread EXCEPT !.at = "end"].at = "end"
  <2>1. (CHOOSE a \in Accounts : TRUE) \in Accounts
    BY ThreadsAssumption
  <2> QED
    BY <2>1 DEF NoThread, ThreadRecords, ThreadSteps
<1>3. byAccount' \in [Accounts -> Nat] /\ \E S : users' \in Seq(S)
  <2>1. CASE LoadsNothing
    BY <2>1, EmptySeq DEF LoadsNothing
  <2>2. CASE Loaded
    <3>1. PICK n \in Nat : \E order \in [1 .. n -> Accounts] :
            /\ users' = [i \in 1 .. n |-> [account |-> order[i], name |-> database[order[i]].name,
                                           token |-> database[order[i]].token]]
            /\ byAccount' \in [Accounts -> 0 .. n]
      BY <2>2, LoadedIs
    <3>2. users' = [i \in 1 .. n |-> users'[i]] /\ byAccount' \in [Accounts -> Nat]
      BY <3>1
    <3> QED
      BY <3>2, IsTable
  <2> QED
    BY <1>1, <2>1, <2>2
<1>4. ThreadsGoOn
  BY <1>1, <1>2, <1>3 DEF ThreadsGoOn
<1>5. /\ state' \in [States -> StateKinds]
      /\ \A s \in States : state[s] = "gone" => state'[s] = "gone"
      /\ \A s \in States : state'[s] # "pending"
  BY <1>1 DEF StateKinds
<1> QED
  BY <1>1, <1>4, <1>5, StatesMove

LEMMA BeginIs ==
  ASSUME OneTimeInv, NEW t \in Threads, NEW s \in States,
         NEW kind \in {"browser", "portal"}, NEW at \in {"exchange", "end"},
         Begin(t, s, kind, at), byAccount' = byAccount, users' = users
  PROVE  ThreadsGoOn
<1>1. PICK a \in Accounts :
         thread' = [thread EXCEPT ![t] = [NoThread EXCEPT !.kind = kind, !.at = at, !.state = s,
                                                          !.account = a]]
  BY DEF Begin
<1> DEFINE r == [NoThread EXCEPT !.kind = kind, !.at = at, !.state = s, !.account = a]
<1>2. r \in ThreadRecords
  BY DEF NoThread, ThreadRecords, ThreadSteps
<1>3. thread[t].at # "end" /\ thread' = [thread EXCEPT ![t] = r]
  BY <1>1 DEF Begin, At
<1>4. byAccount' \in [Accounts -> Nat] /\ \E S : users' \in Seq(S)
  BY DEF OneTimeInv, OneTimeTypeOK
<1> HIDE DEF r
<1> QED
  BY <1>2, <1>3, <1>4, GoesOn

LEMMA LinkLoginKeeps ==
  ASSUME OneTimeInv, NEW t \in Threads, BrowserReturns(t) \/ BrowserEnds(t) PROVE OneTimeInv'
<1>1. UNCHANGED <<users, byAccount, link, tickets, portal>>
  BY DEF BrowserReturns, BrowserEnds, storageVars, flowVars
<1>2. state \in [States -> StateKinds] /\ gained \in [States -> Nat]
  BY DEF OneTimeInv, OneTimeTypeOK
<1>3. CASE BrowserReturns(t)
  <2>1. ThreadsGoOn
    BY <1>1, <1>3, BeginIs DEF BrowserReturns
  <2> QED
    BY <1>1, <1>2, <1>3, <2>1, PendingIsShown, StatesMove DEF BrowserReturns, flowVars
<1>4. CASE BrowserEnds(t)
  <2> DEFINE s == thread[t].state
  <2>1. ThreadsGoOn
    <3>1. Go(t, "end") /\ thread[t].at # "end"
      BY <1>4 DEF BrowserEnds, At
    <3> QED
      BY <1>1, <3>1, GoIs DEF ThreadSteps, OneTimeInv, OneTimeTypeOK
  <2>2. CASE UNCHANGED <<state, gained>>
    <3>1. /\ state' = state /\ gained' = gained /\ tickets' = tickets /\ portal' = portal
          /\ state' \in [States -> StateKinds]
      BY <1>1, <1>2, <2>2
    <3>2. \A r \in States : state'[r] = "pending" => r = link'
      BY <1>1, <3>1, PendingIsShown
    <3> HIDE DEF s
    <3> QED
      BY <2>1, <3>1, <3>2, StatesMove
  <2>3. CASE /\ Completes(s) /\ state' = [state EXCEPT ![s] = "gone"]
             /\ gained' = [gained EXCEPT ![s] = @ + 1]
    <3>1. state' \in [States -> StateKinds] /\ gained' \in [States -> Nat]
      <4>1. s \in States => gained[s] + 1 \in Nat
        BY <1>2
      <4>2. gained' \in [States -> Nat]
        BY <1>2, <2>3, <4>1
      <4>3. state' \in [States -> StateKinds]
        BY <1>2, <2>3 DEF StateKinds
      <4> QED
        BY <4>2, <4>3
    <3>2. OneTimeTypeOK' /\ TicketIsOfWhoIsOver'
      BY <1>1, <2>1, <3>1, TicketsStay
    <3>3. CompletedIsGone'
      <4>1. ASSUME NEW r \in States, gained'[r] # 0 PROVE gained'[r] = 1 /\ state'[r] = "gone"
        <5>1. CASE r # s
          BY <1>2, <2>3, <4>1, <5>1 DEF OneTimeInv, CompletedIsGone
        <5>2. CASE r = s
          <6>1. gained[s] = 0
            BY <2>3, <5>2 DEF OneTimeInv, CompletedIsGone, Completes
          <6> QED
            BY <1>2, <2>3, <5>2, <6>1
        <5> QED
          BY <5>1, <5>2
      <4> QED
        BY <4>1 DEF CompletedIsGone
    <3>4. LinkIsTheOneThatWaits'
      BY <1>1, <1>2, <2>3, PendingIsShown DEF LinkIsTheOneThatWaits, Pending
    <3> QED
      BY <3>2, <3>3, <3>4 DEF OneTimeInv
  <2> QED
    BY <1>4, <2>2, <2>3 DEF BrowserEnds
<1> QED
  BY <1>3, <1>4

LEMMA PortalKeeps ==
  ASSUME OneTimeInv, NEW t \in Threads, PortalReturns(t) \/ PortalEnds(t) PROVE OneTimeInv'
<1>1. UNCHANGED <<users, byAccount, link, portal, gained>>
  BY DEF PortalReturns, PortalEnds, storageVars, flowVars
<1>2. state \in [States -> StateKinds]
  BY DEF OneTimeInv, OneTimeTypeOK
<1>3. CASE PortalReturns(t)
  <2>1. PICK s \in States : /\ Begin(t, s, "portal", "exchange")
                            /\ state' = [state EXCEPT ![s] = "gone"]
    BY <1>3 DEF PortalReturns
  <2>2. ThreadsGoOn /\ tickets' = tickets
    BY <1>1, <1>3, <2>1, BeginIs DEF PortalReturns
  <2>3. /\ state' \in [States -> StateKinds]
        /\ \A r \in States : state'[r] = state[r] \/ state'[r] = "gone"
    BY <1>2, <2>1 DEF StateKinds
  <2> QED
    BY <1>1, <2>2, <2>3, PendingIsShown, StatesMove
<1>4. CASE PortalEnds(t)
  <2>1. /\ Go(t, "end") /\ thread[t].at = "report" /\ tickets' = [tickets EXCEPT ![t] = "valid"]
        /\ state' = state
    BY <1>4 DEF PortalEnds, At, flowVars
  <2>2. ThreadsGoOn /\ thread'[t].at = "end"
    BY <1>1, <2>1, GoIs DEF ThreadSteps, OneTimeInv, OneTimeTypeOK
  <2>3. tickets[t] = "none" /\ portal.sessions[t] = 0
    BY <2>1 DEF OneTimeInv, TicketIsOfWhoIsOver
  <2>4. tickets' \in [Threads -> {"none", "valid", "expired", "late"}] /\ tickets'[t] = "valid"
        /\ \A r \in Threads : r # t => tickets'[r] = tickets[r]
    BY <2>1 DEF OneTimeInv, OneTimeTypeOK
  <2>5. OneTimeTypeOK'
    BY <1>1, <2>1, <2>2, <2>4 DEF OneTimeInv, OneTimeTypeOK, ThreadsGoOn
  <2>6. TicketIsOfWhoIsOver'
    BY <1>1, <2>2, <2>3, <2>4 DEF OneTimeInv, TicketIsOfWhoIsOver, ThreadsGoOn
  <2>7. CompletedIsGone' /\ LinkIsTheOneThatWaits'
    BY <1>1, <2>1 DEF OneTimeInv, CompletedIsGone, LinkIsTheOneThatWaits, Pending
  <2> QED
    BY <2>5, <2>6, <2>7 DEF OneTimeInv
<1> QED
  BY <1>3, <1>4

LEMMA TicketKeeps ==
  ASSUME OneTimeInv, CleanNonces \/ \E t \in Threads : TakeTicket(t) \/ TicketExpires(t)
  PROVE  OneTimeInv'
<1>1. UNCHANGED <<users, byAccount, thread, link, state, gained>>
  BY DEF TakeTicket, TicketExpires, CleanNonces, discordVars, storageVars, flowVars
<1>2. /\ portal \in [nonces : SUBSET Threads, sessions : [Threads -> Nat]]
      /\ portal.nonces \subseteq Threads /\ portal.sessions \in [Threads -> Nat]
      /\ tickets \in [Threads -> {"none", "valid", "expired", "late"}]
  BY DEF OneTimeInv, OneTimeTypeOK
<1>3. CompletedIsGone' /\ LinkIsTheOneThatWaits'
  BY <1>1 DEF OneTimeInv, CompletedIsGone, LinkIsTheOneThatWaits, Pending
<1>4. ASSUME portal' \in [nonces : SUBSET Threads, sessions : [Threads -> Nat]],
             tickets' \in [Threads -> {"none", "valid", "expired", "late"}], TicketIsOfWhoIsOver'
      PROVE  OneTimeInv'
  <2>1. OneTimeTypeOK'
    BY <1>1, <1>4 DEF OneTimeInv, OneTimeTypeOK
  <2> QED
    BY <1>3, <1>4, <2>1 DEF OneTimeInv
<1>5. ASSUME NEW t \in Threads, TakeTicket(t) PROVE OneTimeInv'
  <2> DEFINE n == Kept(portal.nonces, tickets') \cup {t}
             m == [portal.sessions EXCEPT ![t] = @ + 1]
  <2>1. /\ tickets[t] = "valid" /\ t \notin Kept(portal.nonces, tickets')
        /\ tickets' = tickets \/ tickets' = [tickets EXCEPT ![t] = "late"]
        /\ portal' = [nonces |-> n, sessions |-> m]
    BY <1>5 DEF TakeTicket
  <2>2. /\ n \in SUBSET Threads /\ m \in [Threads -> Nat] /\ m[t] = portal.sessions[t] + 1 /\ t \in n
        /\ \A r \in Threads : r # t => m[r] = portal.sessions[r]
        /\ \A r \in Threads : r \in portal.nonces /\ tickets'[r] = "valid" => r \in n
    BY <1>2 DEF Kept
  <2> HIDE DEF n, m
  <2>3. /\ portal'.nonces = n /\ portal'.sessions = m
        /\ portal' \in [nonces : SUBSET Threads, sessions : [Threads -> Nat]]
    BY <2>1, <2>2
  <2>4. /\ tickets' \in [Threads -> {"none", "valid", "expired", "late"}]
        /\ \A r \in Threads : r # t => tickets'[r] = tickets[r]
        /\ tickets'[t] = "valid" \/ tickets'[t] = "late"
    BY <1>2, <2>1
  <2>5. portal.sessions[t] = 0 \/ (portal.sessions[t] = 1 /\ tickets'[t] = "late")
    <3>1. portal.sessions[t] # 0 => portal.sessions[t] = 1 /\ t \in portal.nonces
      BY <2>1 DEF OneTimeInv, TicketIsOfWhoIsOver
    <3>2. t \in portal.nonces => tickets'[t] # "valid"
      BY <2>1 DEF Kept
    <3> QED
      BY <2>4, <3>1, <3>2
  <2>6. m[t] = 1 \/ (m[t] = 2 /\ tickets'[t] = "late")
    BY <2>2, <2>5
  <2>7. TicketIsOfWhoIsOver'
    <3>1. ASSUME NEW r \in Threads
          PROVE  /\ tickets'[r] # "none" => thread[r].at = "end"
                 /\ m[r] # 0 => /\ m[r] = 1 \/ (m[r] = 2 /\ tickets'[r] = "late")
                                /\ tickets'[r] # "none" /\ (tickets'[r] = "valid" => r \in n)
      <4>1. CASE r = t
        BY <2>1, <2>2, <2>4, <2>6, <4>1 DEF OneTimeInv, TicketIsOfWhoIsOver
      <4>2. CASE r # t
        BY <2>2, <2>4, <4>2 DEF OneTimeInv, TicketIsOfWhoIsOver
      <4> QED
        BY <4>1, <4>2
    <3> QED
      BY <1>1, <2>3, <3>1 DEF TicketIsOfWhoIsOver
  <2> QED
    BY <1>4, <2>3, <2>4, <2>7
<1>6. ASSUME NEW t \in Threads, TicketExpires(t) PROVE OneTimeInv'
  <2>1. tickets[t] = "valid" /\ tickets' = [tickets EXCEPT ![t] = "expired"] /\ portal' = portal
    BY <1>6 DEF TicketExpires
  <2>2. /\ tickets' \in [Threads -> {"none", "valid", "expired", "late"}] /\ tickets'[t] = "expired"
        /\ \A r \in Threads : r # t => tickets'[r] = tickets[r]
    BY <1>2, <2>1
  <2>3. TicketIsOfWhoIsOver'
    BY <1>1, <2>1, <2>2 DEF OneTimeInv, TicketIsOfWhoIsOver
  <2> QED
    BY <1>2, <1>4, <2>1, <2>2, <2>3
<1>7. CASE CleanNonces
  <2>1. tickets' = tickets /\ portal' = [portal EXCEPT !.nonces = Kept(portal.nonces, tickets)]
    BY <1>7 DEF CleanNonces
  <2>2. /\ portal'.nonces = Kept(portal.nonces, tickets) /\ portal'.sessions = portal.sessions
        /\ portal' \in [nonces : SUBSET Threads, sessions : [Threads -> Nat]]
    BY <1>2, <2>1 DEF Kept
  <2>3. \A r \in Threads : tickets[r] = "valid" /\ r \in portal.nonces => r \in portal'.nonces
    BY <2>2 DEF Kept
  <2>4. TicketIsOfWhoIsOver'
    BY <1>1, <2>1, <2>2, <2>3 DEF OneTimeInv, TicketIsOfWhoIsOver
  <2> QED
    BY <1>2, <1>4, <2>1, <2>2, <2>4
<1> QED
  BY <1>5, <1>6, <1>7

LEMMA OneTimeStarts == ASSUME LoginInit PROVE OneTimeInv
<1>1. /\ thread = [t \in Threads |-> NoThread] /\ byAccount = [a \in Accounts |-> 0] /\ users = <<>>
      /\ state = [s \in States |-> "unused"] /\ gained = [s \in States |-> 0]
      /\ tickets = [t \in Threads |-> "none"]
      /\ portal = [nonces |-> {}, sessions |-> [t \in Threads |-> 0]]
  BY DEF LoginInit, DiscordInit
<1>2. NoThread \in ThreadRecords
  <2>1. (CHOOSE a \in Accounts : TRUE) \in Accounts
    BY ThreadsAssumption
  <2> QED
    BY <2>1 DEF NoThread, ThreadRecords, ThreadSteps
<1>3. OneTimeTypeOK
  <2>1. \E S : users \in Seq(S)
    BY <1>1, EmptySeq
  <2> QED
    BY <1>1, <1>2, <2>1 DEF OneTimeTypeOK, StateKinds
<1>4. CompletedIsGone /\ LinkIsTheOneThatWaits /\ TicketIsOfWhoIsOver
  BY <1>1 DEF CompletedIsGone, LinkIsTheOneThatWaits, Pending, TicketIsOfWhoIsOver
<1> QED
  BY <1>3, <1>4 DEF OneTimeInv

LEMMA OneTimeStep == ASSUME OneTimeInv, [LoginNext]_loginVars PROVE OneTimeInv'
<1>1. CASE Availability \/ Reconnect \/ ConfirmByClient \/ ConfirmByState \/ ExpireState \/ StartPortal
  BY <1>1, LauncherKeeps
<1>2. CASE LaunchServerDies
  BY <1>2, DiesKeeps
<1>3. ASSUME NEW t \in Threads, Authenticate(t), UNCHANGED <<flowVars, tickets, portal>>
      PROVE  OneTimeInv'
  <2>1. ThreadsGoOn
    BY <1>3, AuthenticateGoesOn
  <2>2. UNCHANGED <<state, link, gained, tickets, portal>> /\ state \in [States -> StateKinds]
    BY <1>3 DEF flowVars, OneTimeInv, OneTimeTypeOK
  <2>3. \A s \in States : state'[s] = "pending" => s = link'
    BY <2>2, PendingIsShown
  <2> QED
    BY <2>1, <2>2, <2>3, StatesMove
<1>4. ASSUME NEW t \in Threads, BrowserReturns(t) \/ BrowserEnds(t) PROVE OneTimeInv'
  BY <1>4, LinkLoginKeeps
<1>5. ASSUME NEW t \in Threads, PortalReturns(t) \/ PortalEnds(t) PROVE OneTimeInv'
  BY <1>5, PortalKeeps
<1>6. CASE CleanNonces \/ \E t \in Threads : TakeTicket(t) \/ TicketExpires(t)
  BY <1>6, TicketKeeps
<1>7. CASE UNCHANGED loginVars
  <2>1. UNCHANGED <<users, byAccount, thread, state, link, gained, tickets, portal>>
        /\ state \in [States -> StateKinds]
    BY <1>7 DEF loginVars, discordVars, storageVars, OneTimeInv, OneTimeTypeOK
  <2> QED
    BY <2>1, ThreadsStay, PendingIsShown, StatesMove
<1> QED
  BY <1>1, <1>2, <1>3, <1>4, <1>5, <1>6, <1>7 DEF LoginNext

\* A login with Discord has one link at a time (DiscordAuthCoreProvider.java:165) and is completed
\* once, however many tabs return (DiscordAuthCoreProvider.java:123); its ticket for the public
\* page makes one session, or a second one when it is repeated in the instant at which it is over
\* (public-portal.service.ts:60).  How often the launcher confirms a completed login is not told.
THEOREM DiscordLoginsAreOneTime == LoginSpec => []LoginsAreOneTime
<1>1. OneTimeInv => LoginsAreOneTime
  <2> SUFFICES ASSUME OneTimeInv PROVE LoginsAreOneTime
    OBVIOUS
  <2>1. CompletedOnce
    <3>1. \A n \in Nat : n = 0 \/ n = 1 => n <= 1
      OBVIOUS
    <3> QED
      BY <3>1 DEF OneTimeInv, OneTimeTypeOK, CompletedIsGone, CompletedOnce
  <2>2. OneSessionPerTicket
    <3>1. portal.sessions \in [Threads -> Nat]
      BY DEF OneTimeInv, OneTimeTypeOK
    <3>2. \A t \in Threads : \/ portal.sessions[t] = 0 \/ portal.sessions[t] = 1
                             \/ portal.sessions[t] = 2 /\ tickets[t] = "late"
      BY DEF OneTimeInv, TicketIsOfWhoIsOver
    <3>3. ASSUME NEW t \in Threads PROVE portal.sessions[t] <= IF tickets[t] = "late" THEN 2 ELSE 1
      BY <3>1, <3>2
    <3> QED
      BY <3>3 DEF OneSessionPerTicket
  <2> QED
    BY <2>1, <2>2 DEF OneTimeInv, LoginsAreOneTime
<1>2. LoginInit => OneTimeInv
  BY OneTimeStarts
<1>3. OneTimeInv /\ [LoginNext]_loginVars => OneTimeInv'
  BY OneTimeStep
<1> QED
  BY <1>1, <1>2, <1>3, PTL DEF LoginSpec

-----------------------------------------------------------------------------
(* The accounts of Discord users: memory, file and what a request holds.  *)

Holding == {"update", "save", "report", "renew"}

UserRecords == [account : Accounts, name : Nat \ {0}, token : Nat]

TablesOK ==
    /\ users \in Seq(UserRecords) /\ database \in [Accounts -> [name : Nat, token : Nat]]
    /\ taken \in SUBSET (Nat \ {0}) /\ IsFiniteSet(taken)

ObjectsAreIndexed ==
    /\ \A a \in Accounts : byAccount[a] # 0 =>
          byAccount[a] \in DOMAIN users /\ users[byAccount[a]].account = a
    /\ \A i \in DOMAIN users : users[i].name \in taken
    /\ \A i, j \in DOMAIN users : users[i].name = users[j].name => i = j

StoredNamesDiffer ==
    \A a, b \in Accounts : database[a] # NoAccount =>
       database[a].name # 0 /\ (a # b => database[a].name # database[b].name)

StoredIsHeld ==
    ~twins /\ found = "all" =>
       \A a \in Accounts : database[a] # NoAccount =>
          byAccount[a] # 0 /\ users[byAccount[a]].name = database[a].name

ThreadsHoldObjects ==
    \A t \in Threads : thread[t].at \in Holding =>
       /\ thread[t].object \in DOMAIN users
       /\ users[thread[t].object].account = thread[t].account
       /\ ~twins => byAccount[thread[t].account] = thread[t].object

SavedOrSaving ==
    ~unsaved =>
       \A a \in Accounts : byAccount[a] # 0 =>
          \/ database[a].token = users[byAccount[a]].token
          \/ \E t \in Threads : thread[t].at = "save" /\ thread[t].object = byAccount[a]

AccountsInv ==
    /\ TablesOK /\ ObjectsAreIndexed /\ StoredNamesDiffer /\ StoredIsHeld
    /\ ThreadsHoldObjects /\ SavedOrSaving

\* What NameIsKept says of a step.
HeldNameStays(a) ==
    byAccount[a] # 0 =>
       \/ byAccount'[a] # 0 /\ users'[byAccount'[a]].name = users[byAccount[a]].name
       \/ byAccount'[a] = 0 /\ database[a] = NoAccount

StoredNameStays(a) ==
    database[a] # NoAccount =>
       \/ database'[a].name = database[a].name
       \/ database'[a] = NoAccount /\ torn' # "no"

NamesStay ==
    \A a \in Accounts : ~twins' /\ found' = "all" => HeldNameStays(a) /\ StoredNameStays(a)

\* What the file has is held after the step.
StoredIsHeldThen ==
    ~twins' /\ found' = "all" =>
       \A a \in Accounts : database[a] # NoAccount =>
          byAccount'[a] # 0 /\ users'[byAccount'[a]].name = database[a].name

\* Steps in which a request goes on and no table changes.
OnlyThreads ==
    /\ UNCHANGED <<storageVars, twins>>
    /\ \A t \in Threads : thread[t].at = "save" => thread'[t] = thread[t]
    /\ \A t \in Threads : thread'[t].at \in Holding =>
          \/ /\ thread[t].at \in Holding /\ thread'[t].object = thread[t].object
             /\ thread'[t].account = thread[t].account
          \/ /\ thread'[t].account \in Accounts /\ thread'[t].object # 0
             /\ thread'[t].object = byAccount[thread'[t].account]

LEMMA LeastNumber ==
  ASSUME NEW T \in SUBSET Nat, T # {}
  PROVE  \E x \in T : \A y \in T : x <= y
<1> DEFINE R == OpToRel(<, Nat)
<1>1. IsWellFoundedOn(R, Nat)
  BY NatLessThanWellFounded
<1>2. \A x, y \in Nat : y < x => <<y, x>> \in R
  BY DEF OpToRel
<1> HIDE DEF R
<1>3. PICK x \in T : \A y \in T : ~ (<<y, x>> \in R)
  BY <1>1, WFMin
<1>4. ASSUME NEW y \in T PROVE x <= y
  <2>1. ~ (y < x) /\ x \in Nat /\ y \in Nat
    BY <1>2, <1>3
  <2> QED
    BY <2>1
<1> QED
  BY <1>4

\* A suffix that nobody has is found.
LEMMA FreeNameIsFree ==
  ASSUME taken \in SUBSET (Nat \ {0}), IsFiniteSet(taken)
  PROVE  FreeName \in Nat \ {0} /\ FreeName \notin taken
<1> DEFINE k == Cardinality(taken) + 1
<1>1. k \in Nat \ {0} /\ Cardinality(taken) \in Nat
  BY FS_CardinalityType
<1>2. IsFiniteSet(1 .. k) /\ Cardinality(1 .. k) = k
  BY <1>1, FS_Interval
<1>3. (1 .. k) \ taken # {}
  <2>1. SUFFICES ASSUME (1 .. k) \subseteq taken PROVE FALSE
    OBVIOUS
  <2>2. Cardinality(1 .. k) <= Cardinality(taken)
    BY <2>1, FS_Subset
  <2> QED
    BY <1>1, <1>2, <2>2
<1>4. (1 .. k) \ taken \in SUBSET Nat
  BY <1>1
<1>5. PICK n \in (1 .. k) \ taken : \A m \in (1 .. k) \ taken : n <= m
  BY <1>3, <1>4, LeastNumber
<1>6. n \notin taken /\ \A m \in 1 .. n - 1 : m \in taken
  BY <1>1, <1>5
<1>7. FreeName \in 1 .. k /\ FreeName \notin taken
  BY <1>5, <1>6 DEF FreeName
<1> QED
  BY <1>1, <1>7

LEMMA TablesAre ==
  ASSUME TablesOK
  PROVE  /\ Len(users) \in Nat /\ DOMAIN users = 1 .. Len(users)
         /\ \A i \in 1 .. Len(users) :
              /\ users[i] \in UserRecords /\ users[i].account \in Accounts
              /\ users[i].name \in Nat \ {0} /\ users[i].token \in Nat
         /\ \A a \in Accounts : database[a] \in [name : Nat, token : Nat]
<1>1. users \in Seq(UserRecords) /\ database \in [Accounts -> [name : Nat, token : Nat]]
  BY DEF TablesOK
<1>2. Len(users) \in Nat /\ DOMAIN users = 1 .. Len(users)
  BY <1>1, LenProperties
<1>3. \A i \in 1 .. Len(users) : users[i] \in UserRecords
  BY <1>1, ElementOfSeq
<1>4. \A u \in UserRecords : u.account \in Accounts /\ u.name \in Nat \ {0} /\ u.token \in Nat
  BY DEF UserRecords
<1> QED
  BY <1>1, <1>2, <1>3, <1>4

LEMMA OnlyThreadsKeeps == ASSUME AccountsInv, OnlyThreads PROVE AccountsInv' /\ NamesStay
<1>1. UNCHANGED <<users, byAccount, taken, database, torn, unsaved, found, twins>>
  BY DEF OnlyThreads, storageVars
<1>2. TablesOK' /\ ObjectsAreIndexed' /\ StoredNamesDiffer' /\ StoredIsHeld'
  BY <1>1 DEF AccountsInv, TablesOK, ObjectsAreIndexed, StoredNamesDiffer, StoredIsHeld
<1>3. ThreadsHoldObjects'
  BY <1>1 DEF AccountsInv, OnlyThreads, ThreadsHoldObjects, ObjectsAreIndexed
<1>4. SavedOrSaving'
  BY <1>1 DEF AccountsInv, OnlyThreads, SavedOrSaving
<1>5. NamesStay
  BY <1>1 DEF NamesStay, HeldNameStays, StoredNameStays
<1> QED
  BY <1>2, <1>3, <1>4, <1>5 DEF AccountsInv

\* One request moves.
LEMMA MovesOnly ==
  ASSUME thread \in [Threads -> ThreadRecords], UNCHANGED <<storageVars, twins>>,
         NEW t \in Threads, thread[t].at # "save", NEW r, thread' = [thread EXCEPT ![t] = r],
         r.at \in Holding =>
           \/ thread[t].at \in Holding /\ r.object = thread[t].object /\ r.account = thread[t].account
           \/ r.account \in Accounts /\ r.object # 0 /\ r.object = byAccount[r.account]
  PROVE  OnlyThreads
BY DEF OnlyThreads

LEMMA GoesOnly ==
  ASSUME thread \in [Threads -> ThreadRecords], UNCHANGED <<storageVars, twins>>,
         NEW t \in Threads, thread[t].at # "save", NEW step, Go(t, step),
         step \in Holding => thread[t].at \in Holding
  PROVE  OnlyThreads
<1> DEFINE r == [thread[t] EXCEPT !.at = step]
<1>1. r.at = step /\ r.object = thread[t].object /\ r.account = thread[t].account
  BY DEF ThreadRecords
<1>2. thread' = [thread EXCEPT ![t] = r]
  BY DEF Go
<1> HIDE DEF r
<1> QED
  BY <1>1, <1>2, MovesOnly

\* What save writes.
LEMMA SavedIs ==
  ASSUME users' \in Seq(UserRecords), byAccount' \in [Accounts -> Nat], ObjectsAreIndexed',
         database' = Stored(users', byAccount')
  PROVE  /\ database' \in [Accounts -> [name : Nat, token : Nat]]
         /\ StoredNamesDiffer' /\ StoredIsHeld' /\ SavedOrSaving'
         /\ \A a \in Accounts : byAccount'[a] # 0 => database'[a].name = users'[byAccount'[a]].name
<1>1. Len(users') \in Nat /\ DOMAIN users' = 1 .. Len(users')
  BY LenProperties
<1>2. \A i \in 1 .. Len(users') : users'[i] \in UserRecords
  BY ElementOfSeq
<1>3. \A i \in DOMAIN users' : users'[i].name \in Nat \ {0} /\ users'[i].token \in Nat
  BY <1>1, <1>2 DEF UserRecords
<1>4. \A a \in Accounts : byAccount'[a] # 0 =>
        byAccount'[a] \in DOMAIN users' /\ users'[byAccount'[a]].account = a
  BY DEF ObjectsAreIndexed
<1>5. \A a \in Accounts :
        database'[a] = IF byAccount'[a] = 0 THEN NoAccount
                       ELSE [name |-> users'[byAccount'[a]].name, token |-> users'[byAccount'[a]].token]
  BY DEF Stored
<1>6. \A a \in Accounts : byAccount'[a] = 0 => database'[a] = NoAccount
  BY <1>5
<1>7. \A a \in Accounts : byAccount'[a] # 0 =>
        /\ database'[a].name = users'[byAccount'[a]].name /\ database'[a].name \in Nat \ {0}
        /\ database'[a].token = users'[byAccount'[a]].token
        /\ database'[a] \in [name : Nat, token : Nat]
  <2>1. ASSUME NEW a \in Accounts, byAccount'[a] # 0
        PROVE  /\ database'[a].name = users'[byAccount'[a]].name /\ database'[a].name \in Nat \ {0}
               /\ database'[a].token = users'[byAccount'[a]].token
               /\ database'[a] \in [name : Nat, token : Nat]
    <3>1. PICK x \in Nat \ {0}, y \in Nat :
             x = users'[byAccount'[a]].name /\ y = users'[byAccount'[a]].token
      BY <1>3, <1>4, <2>1
    <3>2. database'[a] = [name |-> x, token |-> y]
      BY <1>5, <2>1, <3>1
    <3> QED
      BY <3>1, <3>2
  <2> QED
    BY <2>1
<1>8. NoAccount \in [name : Nat, token : Nat] /\ NoAccount.name = 0
  BY DEF NoAccount
<1>9. database' \in [Accounts -> [name : Nat, token : Nat]]
  <2>1. \A a \in Accounts : database'[a] \in [name : Nat, token : Nat]
    BY <1>6, <1>7, <1>8
  <2>2. database' = [a \in Accounts |-> database'[a]]
    BY DEF Stored
  <2> QED
    BY <2>1, <2>2
<1>10. \A a, b \in Accounts : byAccount'[a] # 0 /\ byAccount'[b] # 0 /\ a # b =>
         database'[a].name # database'[b].name
  BY <1>4, <1>7 DEF ObjectsAreIndexed
<1>11. StoredNamesDiffer'
  BY <1>6, <1>7, <1>8, <1>10 DEF StoredNamesDiffer
<1>12. StoredIsHeld'
  BY <1>6, <1>7 DEF StoredIsHeld
<1>13. SavedOrSaving'
  BY <1>7 DEF SavedOrSaving
<1> QED
  BY <1>7, <1>9, <1>11, <1>12, <1>13

\* A save that fails leaves the file as it was or with nothing that can be read.
LEMMA SaveLeaves ==
  ASSUME users' \in Seq(UserRecords), byAccount' \in [Accounts -> Nat], ObjectsAreIndexed',
         database \in [Accounts -> [name : Nat, token : Nat]], StoredNamesDiffer, StoredIsHeldThen,
         NEW t, Save(t)
  PROVE  /\ database' \in [Accounts -> [name : Nat, token : Nat]]
         /\ StoredNamesDiffer' /\ StoredIsHeld' /\ SavedOrSaving'
         /\ ~twins' /\ found' = "all" => \A a \in Accounts : StoredNameStays(a)
<1>1. CASE database' = Stored(users', byAccount')
  <2>1. /\ database' \in [Accounts -> [name : Nat, token : Nat]]
        /\ StoredNamesDiffer' /\ StoredIsHeld' /\ SavedOrSaving'
        /\ \A a \in Accounts : byAccount'[a] # 0 => database'[a].name = users'[byAccount'[a]].name
    BY <1>1, SavedIs
  <2> QED
    BY <2>1 DEF StoredIsHeldThen, StoredNameStays
<1>2. CASE unsaved' = TRUE /\ database' = database
  BY <1>2 DEF StoredNamesDiffer, StoredIsHeld, StoredIsHeldThen, SavedOrSaving, StoredNameStays
<1>3. CASE unsaved' = TRUE /\ CutOff
  <2>1. /\ \A a \in Accounts : database'[a] = NoAccount
        /\ database' = [a \in Accounts |-> NoAccount] /\ torn' # "no"
    BY <1>3 DEF CutOff
  <2>2. database' \in [Accounts -> [name : Nat, token : Nat]]
    BY <2>1 DEF NoAccount
  <2> QED
    BY <1>3, <2>1, <2>2 DEF StoredNamesDiffer, StoredIsHeld, SavedOrSaving, StoredNameStays
<1> QED
  BY <1>1, <1>2, <1>3 DEF Save

LEMMA SaveKeeps ==
  ASSUME OneTimeInv, AccountsInv, NEW t \in Threads, SaveUsers(t) PROVE AccountsInv' /\ NamesStay
<1>1. /\ UNCHANGED <<users, byAccount, taken, found, twins>> /\ Save(t)
      /\ thread[t].at = "save" /\ thread' = [thread EXCEPT ![t].at = "report"]
  BY DEF SaveUsers, Go, At
<1>2. /\ thread \in [Threads -> ThreadRecords] /\ users \in Seq(UserRecords)
      /\ byAccount \in [Accounts -> Nat] /\ TablesOK /\ ObjectsAreIndexed
      /\ database \in [Accounts -> [name : Nat, token : Nat]] /\ StoredNamesDiffer
  BY DEF OneTimeInv, OneTimeTypeOK, AccountsInv, TablesOK
<1>3. ObjectsAreIndexed'
  BY <1>1, <1>2 DEF ObjectsAreIndexed
<1>4. StoredIsHeldThen
  BY <1>1 DEF AccountsInv, StoredIsHeld, StoredIsHeldThen
<1>5. /\ database' \in [Accounts -> [name : Nat, token : Nat]]
      /\ StoredNamesDiffer' /\ StoredIsHeld' /\ SavedOrSaving'
      /\ ~twins' /\ found' = "all" => \A a \in Accounts : StoredNameStays(a)
  BY <1>1, <1>2, <1>3, <1>4, SaveLeaves
<1>6. TablesOK'
  BY <1>1, <1>2, <1>5 DEF TablesOK
<1>7. \A r \in Threads : /\ thread'[r].object = thread[r].object
                         /\ thread'[r].account = thread[r].account
                         /\ thread'[r].at \in Holding => thread[r].at \in Holding
  BY <1>1, <1>2 DEF ThreadRecords, Holding
<1>8. ThreadsHoldObjects'
  BY <1>1, <1>7 DEF AccountsInv, ThreadsHoldObjects
<1>9. NamesStay
  BY <1>1, <1>5 DEF NamesStay, HeldNameStays
<1> QED
  BY <1>3, <1>5, <1>6, <1>8, <1>9 DEF AccountsInv

LEMMA UpdateKeeps ==
  ASSUME OneTimeInv, AccountsInv, NEW t \in Threads, UpdateUser(t) PROVE AccountsInv' /\ NamesStay
<1> DEFINE o == thread[t].object
           u == [users[o] EXCEPT !.token = t]
<1>1. /\ UNCHANGED <<byAccount, taken, database, torn, unsaved, found, twins>> /\ users' = [users EXCEPT ![o] = u]
      /\ thread[t].at = "update" /\ thread' = [thread EXCEPT ![t].at = "save"]
  BY DEF UpdateUser, Go, At
<1>2. /\ thread \in [Threads -> ThreadRecords] /\ users \in Seq(UserRecords)
      /\ byAccount \in [Accounts -> Nat] /\ TablesOK /\ ObjectsAreIndexed /\ t \in Nat
  BY ThreadsAssumption DEF OneTimeInv, OneTimeTypeOK, AccountsInv, TablesOK
<1>3. Len(users) \in Nat /\ DOMAIN users = 1 .. Len(users)
      /\ \A i \in 1 .. Len(users) : users[i] \in UserRecords
  BY <1>2, TablesAre
<1>4. o \in DOMAIN users
  BY <1>1 DEF AccountsInv, ThreadsHoldObjects, Holding
<1>5. u \in UserRecords /\ u.account = users[o].account /\ u.name = users[o].name
  BY <1>2, <1>3, <1>4 DEF UserRecords
<1> HIDE DEF u
<1>6. users' \in Seq(UserRecords) /\ DOMAIN users' = DOMAIN users
  <2>1. users \in [1 .. Len(users) -> UserRecords]
    BY <1>2, LenProperties
  <2>2. users' \in [1 .. Len(users) -> UserRecords]
    BY <1>1, <1>5, <2>1
  <2> QED
    BY <1>3, <2>2, SeqDef
<1>7. /\ \A i \in DOMAIN users : users'[i].account = users[i].account /\ users'[i].name = users[i].name
      /\ \A i \in DOMAIN users : i # o => users'[i] = users[i]
  BY <1>1, <1>3, <1>4, <1>5
<1>8. TablesOK'
  BY <1>1, <1>2, <1>6 DEF TablesOK
<1>9. ObjectsAreIndexed'
  BY <1>1, <1>2, <1>6, <1>7 DEF ObjectsAreIndexed
<1>10. StoredNamesDiffer'
  BY <1>1 DEF AccountsInv, StoredNamesDiffer
<1>11. StoredIsHeld'
  BY <1>1, <1>2, <1>7 DEF AccountsInv, StoredIsHeld, ObjectsAreIndexed
<1>12. \A r \in Threads : /\ thread'[r].object = thread[r].object
                          /\ thread'[r].account = thread[r].account
                          /\ thread'[r].at \in Holding => thread[r].at \in Holding
                          /\ thread[r].at = "save" => thread'[r].at = "save"
  BY <1>1, <1>2 DEF ThreadRecords, Holding
<1>13. ThreadsHoldObjects'
  <2>1. ASSUME NEW r \in Threads, thread'[r].at \in Holding
        PROVE  /\ thread'[r].object \in DOMAIN users'
               /\ users'[thread'[r].object].account = thread'[r].account
               /\ ~twins' => byAccount'[thread'[r].account] = thread'[r].object
    <3>1. /\ thread[r].object \in DOMAIN users
          /\ users[thread[r].object].account = thread[r].account
          /\ ~twins => byAccount[thread[r].account] = thread[r].object
      BY <1>12, <2>1 DEF AccountsInv, ThreadsHoldObjects
    <3>2. thread'[r].object = thread[r].object /\ thread'[r].account = thread[r].account
      BY <1>12
    <3> QED
      BY <1>1, <1>6, <1>7, <3>1, <3>2
  <2> QED
    BY <2>1 DEF ThreadsHoldObjects
<1>14. thread'[t].at = "save" /\ thread'[t].object = o
  BY <1>1, <1>2 DEF ThreadRecords
<1>15. SavedOrSaving'
  <2>1. ASSUME ~unsaved, NEW a \in Accounts, byAccount[a] # 0
        PROVE  \/ database[a].token = users'[byAccount[a]].token
               \/ \E r \in Threads : thread'[r].at = "save" /\ thread'[r].object = byAccount[a]
    <3>1. CASE byAccount[a] = o
      BY <1>14, <3>1
    <3>2. CASE byAccount[a] # o
      <4>1. users'[byAccount[a]] = users[byAccount[a]]
        BY <1>2, <1>7, <2>1, <3>2 DEF ObjectsAreIndexed
      <4>2. \/ database[a].token = users[byAccount[a]].token
            \/ \E r \in Threads : thread[r].at = "save" /\ thread[r].object = byAccount[a]
        BY <2>1 DEF AccountsInv, SavedOrSaving
      <4> QED
        BY <1>12, <4>1, <4>2
    <3> QED
      BY <3>1, <3>2
  <2> QED
    BY <1>1, <2>1 DEF SavedOrSaving
<1>16. NamesStay
  BY <1>1, <1>2, <1>7 DEF NamesStay, HeldNameStays, StoredNameStays, ObjectsAreIndexed
<1> QED
  BY <1>8, <1>9, <1>10, <1>11, <1>13, <1>15, <1>16 DEF AccountsInv

\* A new account gets a name of its own, and is saved with all the others in the same step.
LEMMA CreateKeeps ==
  ASSUME OneTimeInv, OneTimeInv', AccountsInv, NEW t \in Threads, CreateUser(t)
  PROVE  AccountsInv' /\ NamesStay
<1> DEFINE a0 == thread[t].account
           o == Len(users) + 1
           n == FreeName
           u == [account |-> a0, name |-> n, token |-> 0]
<1>1. /\ thread \in [Threads -> ThreadRecords] /\ users \in Seq(UserRecords)
      /\ byAccount \in [Accounts -> Nat] /\ TablesOK /\ ObjectsAreIndexed /\ a0 \in Accounts
  BY ThreadIs DEF OneTimeInv, OneTimeTypeOK, AccountsInv, TablesOK
<1>2. Len(users) \in Nat /\ DOMAIN users = 1 .. Len(users)
      /\ \A i \in 1 .. Len(users) : users[i] \in UserRecords
  BY <1>1, TablesAre
<1>3. n \in Nat \ {0} /\ n \notin taken
  BY <1>1, FreeNameIsFree DEF TablesOK
<1>4. u \in UserRecords /\ u.account = a0 /\ u.name = n
  BY <1>1, <1>3 DEF UserRecords
<1>5. /\ users' = Append(users, u) /\ twins' = (twins \/ byAccount[a0] # 0) /\ found' = found
      /\ byAccount' = [byAccount EXCEPT ![a0] = o] /\ taken' = taken \cup {n}
      /\ Save(t)
      /\ thread' = [thread EXCEPT ![t].object = o, ![t].at = "update"] /\ thread[t].at = "create"
  BY DEF CreateUser, At
<1> HIDE DEF u, n
<1>6. /\ users' \in Seq(UserRecords) /\ Len(users') = o /\ DOMAIN users' = 1 .. o
      /\ \A i \in 1 .. Len(users) : users'[i] = users[i]
      /\ users'[o] = u
  <2>1. users' \in Seq(UserRecords) /\ Len(users') = o
    BY <1>1, <1>4, <1>5, AppendProperties
  <2>2. (\A i \in 1 .. Len(users) : users'[i] = users[i]) /\ users'[o] = u
    BY <1>1, <1>4, <1>5, AppendProperties
  <2> QED
    BY <2>1, <2>2, LenProperties
<1>7. /\ byAccount' \in [Accounts -> Nat] /\ byAccount'[a0] = o
      /\ \A a \in Accounts : a # a0 => byAccount'[a] = byAccount[a]
  BY <1>1, <1>2, <1>5
<1>8. /\ o \in Nat /\ o # 0 /\ o \notin 1 .. Len(users) /\ o \in 1 .. o
      /\ 1 .. o = (1 .. Len(users)) \cup {o}
  BY <1>2
<1> HIDE DEF o
<1>9. ObjectsAreIndexed'
  <2>1. \A a \in Accounts : byAccount'[a] # 0 =>
          byAccount'[a] \in DOMAIN users' /\ users'[byAccount'[a]].account = a
    <3>1. byAccount'[a0] \in DOMAIN users' /\ users'[byAccount'[a0]].account = a0
      BY <1>4, <1>6, <1>7, <1>8
    <3>2. ASSUME NEW a \in Accounts, a # a0, byAccount'[a] # 0
          PROVE  byAccount'[a] \in DOMAIN users' /\ users'[byAccount'[a]].account = a
      <4>1. byAccount'[a] = byAccount[a] /\ byAccount[a] # 0
        BY <1>7, <3>2
      <4>2. byAccount[a] \in 1 .. Len(users) /\ users[byAccount[a]].account = a
        BY <1>1, <1>2, <4>1 DEF ObjectsAreIndexed
      <4> QED
        BY <1>6, <1>8, <4>1, <4>2
    <3> QED
      BY <3>1, <3>2
  <2>2. \A i \in DOMAIN users' : users'[i].name \in taken'
    BY <1>1, <1>2, <1>4, <1>5, <1>6, <1>8 DEF ObjectsAreIndexed
  <2>3. \A i \in 1 .. Len(users) : users'[i].name # n
    BY <1>1, <1>2, <1>3, <1>6 DEF ObjectsAreIndexed
  <2>4. \A i, j \in DOMAIN users' : users'[i].name = users'[j].name => i = j
    BY <1>1, <1>2, <1>4, <1>6, <1>8, <2>3 DEF ObjectsAreIndexed
  <2> QED
    BY <2>1, <2>2, <2>4 DEF ObjectsAreIndexed
<1>10. ASSUME NEW a \in Accounts, byAccount[a] # 0, ~twins'
       PROVE  byAccount'[a] # 0 /\ users'[byAccount'[a]].name = users[byAccount[a]].name
  <2>1. a # a0 /\ byAccount'[a] = byAccount[a] /\ byAccount[a] \in 1 .. Len(users)
    BY <1>1, <1>2, <1>5, <1>7, <1>10 DEF ObjectsAreIndexed
  <2> QED
    BY <1>6, <1>10, <2>1
<1>16. StoredIsHeldThen
  <2>1. ASSUME ~twins', found' = "all", NEW a \in Accounts, database[a] # NoAccount
        PROVE  byAccount'[a] # 0 /\ users'[byAccount'[a]].name = database[a].name
    <3>1. byAccount[a] # 0 /\ users[byAccount[a]].name = database[a].name
      BY <1>5, <2>1 DEF AccountsInv, StoredIsHeld
    <3> QED
      BY <1>10, <2>1, <3>1
  <2> QED
    BY <2>1 DEF StoredIsHeldThen
<1>17. /\ database' \in [Accounts -> [name : Nat, token : Nat]]
       /\ StoredNamesDiffer' /\ StoredIsHeld' /\ SavedOrSaving'
       /\ ~twins' /\ found' = "all" => \A a \in Accounts : StoredNameStays(a)
  BY <1>1, <1>5, <1>6, <1>7, <1>9, <1>16, SaveLeaves DEF AccountsInv, TablesOK
<1>11. TablesOK'
  <2>1. IsFiniteSet(taken') /\ taken' \in SUBSET (Nat \ {0})
    BY <1>1, <1>3, <1>5, FS_AddElement DEF TablesOK
  <2> QED
    BY <1>6, <1>17, <2>1 DEF TablesOK
<1>12. \A r \in Threads : r # t => thread'[r] = thread[r]
  BY <1>1, <1>5
<1>13. thread'[t].object = o /\ thread'[t].account = a0
  BY <1>1, <1>5 DEF ThreadRecords
<1>14. ThreadsHoldObjects'
  <2>1. ASSUME NEW r \in Threads, thread'[r].at \in Holding
        PROVE  /\ thread'[r].object \in DOMAIN users'
               /\ users'[thread'[r].object].account = thread'[r].account
               /\ ~twins' => byAccount'[thread'[r].account] = thread'[r].object
    <3>1. CASE r = t
      BY <1>4, <1>6, <1>7, <1>8, <1>13, <3>1
    <3>2. CASE r # t
      <4>1. /\ thread'[r] = thread[r] /\ thread[r].object \in DOMAIN users
            /\ users[thread[r].object].account = thread[r].account
            /\ ~twins => byAccount[thread[r].account] = thread[r].object
            /\ thread[r].account \in Accounts
        BY <1>12, <2>1, <3>2, ThreadIs DEF AccountsInv, ThreadsHoldObjects
      <4>2. thread[r].object # 0
        BY <1>2, <4>1
      <4>3. ~twins' => byAccount'[thread[r].account] = thread[r].object
        BY <1>5, <1>7, <4>1, <4>2
      <4> QED
        BY <1>2, <1>6, <1>8, <4>1, <4>3
    <3> QED
      BY <3>1, <3>2
  <2> QED
    BY <2>1 DEF ThreadsHoldObjects
<1>15. NamesStay
  BY <1>10, <1>17 DEF NamesStay, HeldNameStays
<1> QED
  BY <1>9, <1>11, <1>14, <1>15, <1>17 DEF AccountsInv

\* A LaunchServer that starts again has what the file has, or nothing.
LEMMA KilledKeeps ==
  ASSUME OneTimeInv, OneTimeInv', AccountsInv, LaunchServerDies PROVE AccountsInv' /\ NamesStay
<1>1. /\ thread' = [t \in Threads |-> IF thread[t].at = "none" THEN NoThread
                                      ELSE [NoThread EXCEPT !.at = "end"]]
      /\ twins' = twins
  BY DEF LaunchServerDies, Killed
<1>2. \A t \in Threads : thread'[t].at \in {"none", "end"}
  <2>1. NoThread.at = "none" /\ [NoThread EXCEPT !.at = "end"].at = "end"
    BY DEF NoThread
  <2> QED
    BY <1>1, <2>1
<1>3. ThreadsHoldObjects'
  BY <1>2 DEF ThreadsHoldObjects, Holding
<1>4. CASE LoadsNothing /\ found' # "all" /\ (database' = database
                                            \/ database' = [a \in Accounts |-> NoAccount])
  <2>1. /\ users' = <<>> /\ byAccount' = [a \in Accounts |-> 0] /\ taken' = {}
    BY <1>4 DEF LoadsNothing
  <2>2. users' \in Seq(UserRecords) /\ DOMAIN users' = {} /\ IsFiniteSet(taken')
    BY <2>1, EmptySeq, FS_EmptySet
  <2>3. database' \in [Accounts -> [name : Nat, token : Nat]]
    BY <1>4 DEF AccountsInv, TablesOK, NoAccount
  <2>4. TablesOK'
    BY <2>1, <2>2, <2>3 DEF TablesOK
  <2>5. ObjectsAreIndexed' /\ SavedOrSaving'
    BY <2>1, <2>2 DEF ObjectsAreIndexed, SavedOrSaving
  <2>6. StoredNamesDiffer'
    BY <1>4 DEF AccountsInv, StoredNamesDiffer
  <2>7. StoredIsHeld' /\ NamesStay
    BY <1>4 DEF StoredIsHeld, NamesStay
  <2> QED
    BY <1>3, <2>4, <2>5, <2>6, <2>7 DEF AccountsInv
<1>5. CASE Loaded /\ UNCHANGED <<database, found>>
  <2>0. PICK n \in Nat : \E order \in [1 .. n -> Accounts] :
           /\ users' = [i \in 1 .. n |-> [account |-> order[i], name |-> database[order[i]].name,
                                          token |-> database[order[i]].token]]
           /\ \A i \in 1 .. n : database[order[i]] # NoAccount
           /\ \A i, j \in 1 .. n : order[i] = order[j] => i = j
           /\ byAccount' \in [Accounts -> 0 .. n]
           /\ \A a \in Accounts : byAccount'[a] # 0 <=> database[a] # NoAccount
           /\ \A a \in Accounts : byAccount'[a] # 0 => order[byAccount'[a]] = a
           /\ taken' = {database[a].name : a \in {b \in Accounts : database[b] # NoAccount}}
    BY <1>5, LoadedIs
  <2>1. PICK order \in [1 .. n -> Accounts] :
           /\ users' = [i \in 1 .. n |-> [account |-> order[i], name |-> database[order[i]].name,
                                          token |-> database[order[i]].token]]
           /\ \A i \in 1 .. n : database[order[i]] # NoAccount
           /\ \A i, j \in 1 .. n : order[i] = order[j] => i = j
           /\ byAccount' \in [Accounts -> 0 .. n]
           /\ \A a \in Accounts : byAccount'[a] # 0 <=> database[a] # NoAccount
           /\ \A a \in Accounts : byAccount'[a] # 0 => order[byAccount'[a]] = a
           /\ taken' = {database[a].name : a \in {b \in Accounts : database[b] # NoAccount}}
    BY <2>0
  <2>2. /\ database \in [Accounts -> [name : Nat, token : Nat]] /\ database' = database /\ found' = found
        /\ StoredNamesDiffer
    BY <1>5 DEF AccountsInv, TablesOK
  <2>3. \A a \in Accounts : database[a] # NoAccount =>
          database[a].name \in Nat \ {0} /\ database[a].token \in Nat
    BY <2>2 DEF StoredNamesDiffer
  <2>4. DOMAIN users' = 1 .. n
    BY <2>1
  <2>5. \A i \in 1 .. n : /\ users'[i].account = order[i] /\ users'[i].name = database[order[i]].name
                          /\ users'[i].token = database[order[i]].token
    BY <2>1
  <2>6. \A i \in 1 .. n : order[i] \in Accounts /\ database[order[i]] # NoAccount
    BY <2>1
  <2>7. users' \in Seq(UserRecords)
    <3>1. ASSUME NEW i \in 1 .. n PROVE users'[i] \in UserRecords
      <4>1. PICK a \in Accounts, x \in Nat \ {0}, y \in Nat :
              a = order[i] /\ x = database[order[i]].name /\ y = database[order[i]].token
        BY <2>3, <2>6
      <4>2. users'[i] = [account |-> a, name |-> x, token |-> y]
        BY <2>1, <4>1
      <4> QED
        BY <4>2 DEF UserRecords
    <3>2. users' = [i \in 1 .. n |-> users'[i]]
      BY <2>1
    <3>3. users' \in [1 .. n -> UserRecords]
      BY <3>1, <3>2
    <3> QED
      BY <3>3, SeqDef
  <2>8. taken' \in SUBSET (Nat \ {0}) /\ IsFiniteSet(taken')
    <3> DEFINE known == {b \in Accounts : database[b] # NoAccount}
               f == [a \in known |-> database[a].name]
    <3>1. known \subseteq Accounts
      OBVIOUS
    <3>2. IsFiniteSet(known)
      BY <3>1, ThreadsAssumption, FS_Subset
    <3>3. taken' = {f[a] : a \in known}
      <4>1. taken' = {database[a].name : a \in known}
        BY <2>1
      <4>2. \A a \in known : f[a] = database[a].name
        OBVIOUS
      <4> HIDE DEF f
      <4> QED
        BY <4>1, <4>2
    <3>4. f \in Surjection(known, taken')
      BY <3>3 DEF Surjection
    <3>5. IsFiniteSet(taken')
      BY <3>2, <3>4, FS_Surjection
    <3>6. \A a \in known : f[a] \in Nat \ {0}
      BY <2>3
    <3> HIDE DEF f, known
    <3> QED
      BY <3>3, <3>5, <3>6
  <2>9. TablesOK'
    BY <2>2, <2>7, <2>8 DEF TablesOK
  <2>10. \A a \in Accounts : byAccount'[a] # 0 => byAccount'[a] \in 1 .. n
    BY <2>1
  <2>11. ObjectsAreIndexed'
    <3>1. \A a \in Accounts : byAccount'[a] # 0 =>
            byAccount'[a] \in DOMAIN users' /\ users'[byAccount'[a]].account = a
      BY <2>1, <2>4, <2>5, <2>10
    <3>2. \A i \in 1 .. n : users'[i].name \in taken'
      BY <2>1, <2>5, <2>6
    <3>3. \A i, j \in 1 .. n : users'[i].name = users'[j].name => order[i] = order[j]
      BY <2>2, <2>5, <2>6 DEF StoredNamesDiffer
    <3>4. \A i, j \in 1 .. n : users'[i].name = users'[j].name => i = j
      BY <2>1, <3>3
    <3> QED
      BY <2>4, <3>1, <3>2, <3>4 DEF ObjectsAreIndexed
  <2>12. \A a \in Accounts : byAccount'[a] # 0 =>
           /\ users'[byAccount'[a]].name = database[a].name
           /\ users'[byAccount'[a]].token = database[a].token
    BY <2>1, <2>5, <2>10
  <2>13. StoredNamesDiffer'
    BY <2>2 DEF StoredNamesDiffer
  <2>14. StoredIsHeld' /\ SavedOrSaving'
    BY <2>1, <2>2, <2>12 DEF StoredIsHeld, SavedOrSaving
  <2>15. NamesStay
    BY <1>1, <2>1, <2>2, <2>12 DEF AccountsInv, StoredIsHeld, NamesStay, HeldNameStays, StoredNameStays
  <2> QED
    BY <1>3, <2>9, <2>11, <2>13, <2>14, <2>15 DEF AccountsInv
<1>6. /\ database' = database \/ (CutOff /\ database' = [a \in Accounts |-> NoAccount])
      /\ \/ torn' = "no" /\ Loaded /\ found' = found
         \/ LoadsNothing /\ found' # "all"
  BY DEF LaunchServerDies, Killed, CutOff
<1>7. torn' = "no" => database' = database
  BY <1>6 DEF CutOff
<1> QED
  BY <1>4, <1>5, <1>6, <1>7

LEMMA BeginsOnly ==
  ASSUME OneTimeInv, NEW t \in Threads, NEW s, NEW kind, NEW at \in {"exchange", "end"},
         Begin(t, s, kind, at), UNCHANGED <<storageVars, twins>>
  PROVE  OnlyThreads
<1>1. PICK a \in Accounts :
         thread' = [thread EXCEPT ![t] = [NoThread EXCEPT !.kind = kind, !.at = at, !.state = s,
                                                          !.account = a]]
  BY DEF Begin
<1> DEFINE r == [NoThread EXCEPT !.kind = kind, !.at = at, !.state = s, !.account = a]
<1>2. r.at \notin Holding
  BY DEF NoThread, Holding
<1>3. /\ thread[t].at # "save" /\ thread' = [thread EXCEPT ![t] = r]
      /\ thread \in [Threads -> ThreadRecords]
  BY <1>1 DEF Begin, At, OneTimeInv, OneTimeTypeOK
<1> HIDE DEF r
<1> QED
  BY <1>2, <1>3, MovesOnly

LEMMA AuthenticateKeeps ==
  ASSUME OneTimeInv, OneTimeInv', AccountsInv, NEW t \in Threads, Authenticate(t)
  PROVE  AccountsInv' /\ NamesStay
<1>1. thread \in [Threads -> ThreadRecords] /\ byAccount \in [Accounts -> Nat]
      /\ thread[t].account \in Accounts
  BY ThreadIs DEF OneTimeInv, OneTimeTypeOK
<1>2. CASE Exchange(t)
  <2>1. UNCHANGED <<storageVars, twins>> /\ thread[t].at # "save"
        /\ (Go(t, "find") \/ Go(t, "end")) /\ "find" \notin Holding /\ "end" \notin Holding
    BY <1>2 DEF Exchange, At, Holding
  <2> QED
    BY <1>1, <2>1, GoesOnly, OnlyThreadsKeeps
<1>3. CASE Renew(t) \/ RefreshEnds(t)
  <2>1. UNCHANGED <<storageVars, twins>> /\ thread[t].at # "save" /\ thread[t].at \in Holding
        /\ (Go(t, "update") \/ Go(t, "end"))
    BY <1>3 DEF Renew, RefreshEnds, At, Holding
  <2> QED
    BY <1>1, <2>1, GoesOnly, OnlyThreadsKeeps
<1>4. CASE Find(t)
  <2> DEFINE o == byAccount[thread[t].account]
             r == [thread[t] EXCEPT !.object = o, !.at = IF o = 0 THEN "create" ELSE "update"]
  <2>1. UNCHANGED <<storageVars, twins>> /\ thread[t].at # "save"
        /\ thread' = [thread EXCEPT ![t] = r]
    BY <1>4 DEF Find, At
  <2>2. r.object = o /\ r.account = thread[t].account /\ (r.at \in Holding => o # 0)
    BY <1>1 DEF ThreadRecords, Holding
  <2> HIDE DEF r
  <2> QED
    BY <1>1, <2>1, <2>2, MovesOnly, OnlyThreadsKeeps
<1>5. CASE BeginRefresh(t)
  <2>1. PICK a \in Accounts :
           /\ byAccount[a] # 0
           /\ thread' = [thread EXCEPT ![t] = [@ EXCEPT !.kind = "refresh", !.account = a,
                                                        !.object = byAccount[a], !.at = "renew"]]
    BY <1>5 DEF BeginRefresh
  <2> DEFINE r == [thread[t] EXCEPT !.kind = "refresh", !.account = a, !.object = byAccount[a],
                                    !.at = "renew"]
  <2>2. UNCHANGED <<storageVars, twins>> /\ thread[t].at # "save"
        /\ thread' = [thread EXCEPT ![t] = r]
    BY <1>5, <2>1 DEF BeginRefresh, At
  <2>3. r.object = byAccount[a] /\ r.account = a
    BY <1>1 DEF ThreadRecords
  <2> HIDE DEF r
  <2> QED
    BY <1>1, <2>1, <2>2, <2>3, MovesOnly, OnlyThreadsKeeps
<1> QED
  BY <1>2, <1>3, <1>4, <1>5, CreateKeeps, UpdateKeeps, SaveKeeps DEF Authenticate

LEMMA AccountsStep ==
  ASSUME OneTimeInv, OneTimeInv', AccountsInv, [LoginNext]_loginVars PROVE AccountsInv' /\ NamesStay
<1>1. thread \in [Threads -> ThreadRecords]
  BY DEF OneTimeInv, OneTimeTypeOK
<1>2. CASE UNCHANGED discordVars
  <2>1. OnlyThreads
    <3>1. \A t \in Threads : thread[t].account \in Accounts
      BY ThreadIs
    <3> QED
      BY <1>2, <3>1 DEF OnlyThreads, discordVars
  <2> QED
    BY <2>1, OnlyThreadsKeeps
<1>3. CASE Availability \/ Reconnect \/ ConfirmByClient \/ ConfirmByState \/ ExpireState \/ StartPortal
  BY <1>2, <1>3 DEF Availability, Reconnect, ConfirmByClient, ConfirmByState, ExpireState, StartPortal
<1>4. CASE LaunchServerDies
  BY <1>4, KilledKeeps
<1>5. ASSUME NEW t \in Threads, Authenticate(t) PROVE AccountsInv' /\ NamesStay
  BY <1>5, AuthenticateKeeps
<1>6. ASSUME NEW t \in Threads, BrowserReturns(t) \/ PortalReturns(t) PROVE AccountsInv' /\ NamesStay
  <2>1. UNCHANGED <<storageVars, twins>>
        /\ \E s, kind : \E at \in {"exchange", "end"} : Begin(t, s, kind, at)
    BY <1>6 DEF BrowserReturns, PortalReturns
  <2> QED
    BY <2>1, BeginsOnly, OnlyThreadsKeeps
<1>7. ASSUME NEW t \in Threads, BrowserEnds(t) \/ PortalEnds(t) PROVE AccountsInv' /\ NamesStay
  <2>1. UNCHANGED <<storageVars, twins>> /\ thread[t].at = "report" /\ Go(t, "end")
        /\ "end" \notin Holding
    BY <1>7 DEF BrowserEnds, PortalEnds, At, Holding
  <2> QED
    BY <1>1, <2>1, GoesOnly, OnlyThreadsKeeps
<1>8. CASE CleanNonces \/ \E t \in Threads : TakeTicket(t) \/ TicketExpires(t)
  BY <1>2, <1>8 DEF TakeTicket, TicketExpires, CleanNonces
<1>9. CASE UNCHANGED loginVars
  BY <1>2, <1>9 DEF loginVars
<1> QED
  BY <1>3, <1>4, <1>5, <1>6, <1>7, <1>8, <1>9 DEF LoginNext

LEMMA AccountsStart == ASSUME LoginInit PROVE AccountsInv
<1>1. /\ users = <<>> /\ byAccount = [a \in Accounts |-> 0] /\ taken = {}
      /\ database = [a \in Accounts |-> NoAccount] /\ thread = [t \in Threads |-> NoThread]
  BY DEF LoginInit, DiscordInit
<1>2. users \in Seq(UserRecords) /\ DOMAIN users = {} /\ IsFiniteSet(taken)
  BY <1>1, EmptySeq, FS_EmptySet
<1>3. TablesOK
  BY <1>1, <1>2 DEF TablesOK, NoAccount
<1>4. ObjectsAreIndexed /\ SavedOrSaving /\ StoredNamesDiffer /\ StoredIsHeld
  BY <1>1, <1>2 DEF ObjectsAreIndexed, SavedOrSaving, StoredNamesDiffer, StoredIsHeld
<1>5. ThreadsHoldObjects
  BY <1>1 DEF ThreadsHoldObjects, Holding, NoThread
<1> QED
  BY <1>3, <1>4, <1>5 DEF AccountsInv

LEMMA NamesDifferHere == ASSUME OneTimeInv, AccountsInv PROVE NamesDiffer
<1>1. \A a \in Accounts : database[a] \in [name : Nat, token : Nat]
  BY TablesAre DEF AccountsInv
<1>2. \A a, b \in Accounts : a # b /\ byAccount[a] # 0 /\ byAccount[b] # 0 =>
        users[byAccount[a]].name # users[byAccount[b]].name
  BY DEF AccountsInv, ObjectsAreIndexed
<1>3. \A a, b \in Accounts : a # b /\ database[a] # NoAccount => database[a].name # database[b].name
  BY DEF AccountsInv, StoredNamesDiffer
<1> QED
  BY <1>2, <1>3 DEF NamesDiffer

\* What ReportedSessionIsStored says of a step.
SessionStored ==
    \A t \in Threads :
       LET a == thread[t].account
           alone == \A r \in Threads \ {t} : thread[r].account # a \/ thread[r].at \in {"none", "end"}
       IN  At(t, "report") /\ thread'[t].at = "end" /\ ~twins /\ alone =>
              /\ users[byAccount[a]].token = Reported(t)
              /\ ~unsaved => database[a].token = Reported(t)

LEMMA SessionsAreStored == ASSUME OneTimeInv, AccountsInv PROVE SessionStored
<1> SUFFICES ASSUME NEW t \in Threads, At(t, "report"), ~twins,
                    \A r \in Threads \ {t} : \/ thread[r].account # thread[t].account
                                             \/ thread[r].at \in {"none", "end"}
             PROVE  /\ users[byAccount[thread[t].account]].token = Reported(t)
                    /\ ~unsaved => database[thread[t].account].token = Reported(t)
  BY DEF SessionStored
<1> DEFINE a == thread[t].account
<1>1. /\ thread[t].at = "report" /\ a \in Accounts /\ thread[t].object \in DOMAIN users
      /\ users[thread[t].object].account = a /\ byAccount[a] = thread[t].object
  BY ThreadIs DEF At, AccountsInv, ThreadsHoldObjects, Holding
<1>2. byAccount[a] # 0
  BY <1>1, TablesAre DEF AccountsInv
<1>3. ASSUME NEW r \in Threads, thread[r].at = "save", thread[r].object = byAccount[a] PROVE FALSE
  <2>1. thread[r].account = a /\ r # t
    BY <1>1, <1>3 DEF AccountsInv, ThreadsHoldObjects, Holding
  <2> QED
    BY <1>3, <2>1
<1>4. ~unsaved => database[a].token = users[byAccount[a]].token
  BY <1>1, <1>2, <1>3 DEF AccountsInv, SavedOrSaving
<1> QED
  BY <1>1, <1>4 DEF Reported

\* Two accounts never have one name, in memory or in the file, whoever signs in at the same moment
\* and whenever LaunchServer is killed (JsonUserStorage.java:141).  An account keeps its name while
\* LaunchServer runs, and when it starts again and reads it in its file, unless two requests
\* created it at once.  The session that is reported is in memory, when no other request works on
\* that account, and in the file, unless the last save failed (JsonUserStorage.java:100).
THEOREM DiscordAccountsLast == LoginSpec => AccountsLast
<1> DEFINE Both == OneTimeInv /\ AccountsInv
<1>1. LoginInit => Both
  BY OneTimeStarts, AccountsStart
<1>2. Both /\ [LoginNext]_loginVars => Both' /\ NamesStay /\ SessionStored
  BY OneTimeStep, AccountsStep, SessionsAreStored
<1>3. Both => NamesDiffer
  BY NamesDifferHere
<1>4. LoginSpec => []NamesDiffer
  <2> HIDE DEF Both
  <2> QED
    BY <1>1, <1>2, <1>3, PTL DEF LoginSpec
<1>5. LoginSpec => [][NamesStay]_loginVars /\ [][SessionStored]_loginVars
  <2> HIDE DEF Both
  <2> QED
    BY <1>1, <1>2, PTL DEF LoginSpec
<1>6. [][NamesStay]_loginVars => NameIsKept
  <2>1. NamesStay =>
          \A a \in Accounts : ~twins' /\ found' = "all" =>
             /\ byAccount[a] # 0 =>
                   \/ byAccount'[a] # 0 /\ users'[byAccount'[a]].name = users[byAccount[a]].name
                   \/ byAccount'[a] = 0 /\ database[a] = NoAccount
             /\ database[a] # NoAccount =>
                   \/ database'[a].name = database[a].name
                   \/ database'[a] = NoAccount /\ torn' # "no"
    BY DEF NamesStay, HeldNameStays, StoredNameStays
  <2> QED
    BY <2>1, PTL DEF NameIsKept
<1>7. [][SessionStored]_loginVars => ReportedSessionIsStored
  BY PTL DEF SessionStored, ReportedSessionIsStored
<1> QED
  BY <1>4, <1>5, <1>6, <1>7 DEF AccountsLast
=============================================================================

------------------------------- MODULE PanelLogin -------------------------------
(***************************************************************************)
(* Signing in to the panel with Discord (panel-auth.service.ts and           *)
(* panel-auth.routes.ts): a state that is kept for ten minutes and in a       *)
(* cookie of the browser, a callback that waits for Discord, a session that   *)
(* is kept for seven days.  What is over is deleted when the next request     *)
(* looks.  A session is the number of the callback that made it.              *)
(***************************************************************************)
EXTENDS Naturals, FiniteSets

CONSTANTS Browsers,     \* browsers, each with its cookies
          Logins,       \* numbers of the logins that are begun
          Visits,       \* numbers of the requests of the callback
          StateLife,    \* how long a state is kept
          SessionLife,  \* how long a session is kept
          MaxClock      \* bound: the last instant

ASSUME LoginAssumption ==
    /\ Browsers # {}
    /\ Logins \subseteq Nat \ {0} /\ Visits \subseteq Nat \ {0}
    /\ StateLife \in Nat \ {0} /\ SessionLife \in Nat \ {0} /\ MaxClock \in Nat

VARIABLES clock,    \* the time
          begun,    \* begun[l]: the browser of login l and when its state is over
          oauth,    \* panel_oauth_states
          sessions, \* panel_sessions
          jar,      \* jar[b]: the cookies of browser b, 0 for none
          visit,    \* visit[v]: a request of the callback
          revoked   \* the sessions that were logged out

panelVars == <<clock, begun, oauth, sessions, jar, visit, revoked>>

NoVisit == [browser |-> CHOOSE b \in Browsers : TRUE, login |-> 0, phase |-> "none", until |-> 0]

PanelInit ==
    /\ clock = 0
    /\ begun = [l \in Logins |-> [browser |-> CHOOSE b \in Browsers : TRUE, until |-> 0]]
    /\ oauth = {} /\ sessions = {} /\ revoked = {}
    /\ jar = [b \in Browsers |-> [login |-> 0, session |-> 0]]
    /\ visit = [v \in Visits |-> NoVisit]

-----------------------------------------------------------------------------
(* cleanupExpired; the mutant deletes nothing. *)
EverySession == sessions
KeptStates == {l \in oauth : begun[l].until > clock}
KeptSessions == {v \in sessions : visit[v].until > clock}

(* GET /login *)
StartLogin(b) ==
    /\ \E l \in Logins :
          /\ begun[l].until = 0 /\ \A k \in Logins : k < l => begun[k].until # 0
          /\ begun' = [begun EXCEPT ![l] = [browser |-> b, until |-> clock + StateLife]]
          /\ oauth' = KeptStates \cup {l}
          /\ jar' = [jar EXCEPT ![b].login = l]
    /\ sessions' = KeptSessions
    /\ UNCHANGED <<clock, visit, revoked>>

(* The mutant takes whatever state the address names. *)
AnyState(b, l) == TRUE
SameState(b, l) == jar[b].login = l

(* The mutant only looks the state up. *)
Unspent(l) == KeptStates
Spent(l) == KeptStates \ {l}

(* A cookie is cleared, or set, when the answer comes to the browser. *)
Answer(b, cookies) == jar' = [jar EXCEPT ![b] = cookies]

(* GET /callback, to where it waits for Discord.  Any browser may open any address. *)
OpenCallback(v, b, l) ==
    /\ visit[v].phase = "none" /\ \A w \in Visits : w < v => visit[w].phase # "none"
    /\ begun[l].until # 0
    /\ IF ~SameState(b, l)
       THEN /\ visit' = [visit EXCEPT ![v].phase = "over"]
            /\ Answer(b, [jar[b] EXCEPT !.login = 0])
            /\ UNCHANGED <<oauth, sessions>>
       ELSE /\ oauth' = Spent(l) /\ sessions' = KeptSessions
            /\ IF l \in KeptStates
               THEN /\ visit' = [visit EXCEPT ![v] = [NoVisit EXCEPT !.browser = b, !.login = l,
                                                                     !.phase = "discord"]]
                    /\ UNCHANGED jar
               ELSE /\ visit' = [visit EXCEPT ![v].phase = "over"]
                    /\ Answer(b, [jar[b] EXCEPT !.login = 0])
    /\ UNCHANGED <<clock, begun, revoked>>

(* Discord refuses, cannot be reached, or names an account that is not allowed. *)
LoginFails(v) ==
    /\ visit[v].phase = "discord"
    /\ visit' = [visit EXCEPT ![v].phase = "over"]
    /\ Answer(visit[v].browser, [jar[visit[v].browser] EXCEPT !.login = 0])
    /\ UNCHANGED <<clock, begun, oauth, sessions, revoked>>

(* The session is stored, whether or not the browser still takes the answer. *)
CompleteLogin(v) ==
    /\ visit[v].phase = "discord"
    /\ visit' = [visit EXCEPT ![v] = [@ EXCEPT !.phase = "session", !.until = clock + SessionLife]]
    /\ oauth' = KeptStates
    /\ sessions' = KeptSessions \cup {v}
    /\ Answer(visit[v].browser, [login |-> 0, session |-> v]) \/ UNCHANGED jar
    /\ UNCHANGED <<clock, begun, revoked>>

Unrevoked(b) == sessions
Revoked(b) == sessions \ {jar[b].session}

(* POST /logout *)
Logout(b) ==
    /\ jar[b].session # 0
    /\ sessions' = Revoked(b)
    /\ revoked' = revoked \cup {jar[b].session}
    /\ Answer(b, [jar[b] EXCEPT !.session = 0]) \/ UNCHANGED jar
    /\ UNCHANGED <<clock, begun, oauth, visit>>

(* The guard lets a request of the browser in, which has cleaned up. *)
LetIn(b) == jar[b].session \in KeptSessions

Enter(b) ==
    /\ jar[b].session # 0
    /\ oauth' = KeptStates /\ sessions' = KeptSessions
    /\ UNCHANGED <<clock, begun, jar, visit, revoked>>

Tick ==
    /\ clock < MaxClock /\ clock' = clock + 1
    /\ UNCHANGED <<begun, oauth, sessions, jar, visit, revoked>>

PanelNext ==
    \/ Tick
    \/ \E b \in Browsers :
          \/ StartLogin(b) \/ Logout(b) \/ Enter(b)
          \/ \E v \in Visits, l \in Logins : OpenCallback(v, b, l)
    \/ \E v \in Visits : LoginFails(v) \/ CompleteLogin(v)

PanelSpec == PanelInit /\ [][PanelNext]_panelVars

-----------------------------------------------------------------------------
(* Properties *)

\* One login makes one session at most, however often its address is opened again while the
\* first request waits for Discord ("creates a one-time OAuth state",
\* panel-auth.service.test.ts:29).
OneSessionPerLogin ==
    \A v, w \in Visits :
       visit[v].phase = "session" /\ visit[w].phase = "session" /\ visit[v].login = visit[w].login => v = w

\* Who is let in has a session that is not over and that nobody logged out, also when the
\* answer of the logout was lost and the browser still has the cookie.
LetInIsLive == \A b \in Browsers : LetIn(b) => visit[jar[b].session].until > clock /\ jar[b].session \notin revoked

\* A browser has only sessions of logins that it began itself, in less than the ten minutes of
\* the state before the callback.
SessionIsOfItsBrowser ==
    \A b \in Browsers : jar[b].session # 0 => begun[visit[jar[b].session].login].browser = b

\* Who may use the panel (panel-auth.service.ts:132): whoever began one login, and is not out.
SessionsAreSound == OneSessionPerLogin /\ LetInIsLive /\ SessionIsOfItsBrowser
=============================================================================

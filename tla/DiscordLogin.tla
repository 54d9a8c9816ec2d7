------------------------------ MODULE DiscordLogin ------------------------------
(***************************************************************************)
(* Signing in with Discord: to the game, where the browser finishes what the *)
(* launcher waits for (DiscordAuthCoreProvider.java, DiscordWebApiHandler    *)
(* .java), and to the public page of the panel, by a ticket that its service *)
(* takes once (DiscordPortalWebApiHandler.java, public-portal.service.ts).   *)
(***************************************************************************)
EXTENDS DiscordUsers

CONSTANTS States,      \* the states that may be issued
          MaxPortals   \* at most so many portal authorizations wait (10 000 in the code)

ASSUME StatesAssumption == States \subseteq Nat \ {0} /\ MaxPortals \in Nat

VARIABLES state,    \* state[s]: what became of the state s
          link,     \* the state in the link that the launcher shows, 0 for none
          waiting,  \* completedAuth has the report of this state for the launcher, 0 for none
          finished, \* the states that completedAuthByState has a report for
          report,   \* report[s]: the account and the token that were reported
          gained,   \* gained[s]: how often the state s was completed
          tickets,  \* tickets[t]: the ticket of thread t; "late": it was over when it was taken
          portal    \* the portal's database: the nonces and the player sessions

loginVars == <<discordVars, state, link, waiting, finished, report, gained, tickets, portal>>
flowVars == <<state, link, waiting, finished, report, gained>>

(* "lost": the launcher of this state has another connection now. *)
StateKinds == {"unused", "pending", "lost", "portal", "gone"}

LoginInit ==
    /\ DiscordInit
    /\ state = [s \in States |-> "unused"]
    /\ link = 0 /\ waiting = 0 /\ finished = {}
    /\ report = [s \in States |-> [account |-> CHOOSE a \in Accounts : TRUE, token |-> 0]]
    /\ gained = [s \in States |-> 0]
    /\ tickets = [t \in Threads |-> "none"]
    /\ portal = [nonces |-> {}, sessions |-> [t \in Threads |-> 0]]

-----------------------------------------------------------------------------
(* The launcher *)

Fresh(s) == state[s] = "unused" /\ \A r \in States : r < s => state[r] # "unused"

Pending == {s \in States : state[s] = "pending"}

(* Without the storage nothing can be begun. *)
Serves == found # "broken"

\* Mutant: each refresh issues a new state.
AvailabilityAnew ==
    /\ \E s \in States : Fresh(s) /\ state' = [state EXCEPT ![s] = "pending"] /\ link' = s
    /\ UNCHANGED <<discordVars, waiting, finished, report, gained, tickets, portal>>

(* createPendingState: the one that waits is shown again. *)
Availability ==
    /\ Serves
    /\ IF Pending # {} THEN link' \in Pending /\ UNCHANGED state
       ELSE \E s \in States : Fresh(s) /\ state' = [state EXCEPT ![s] = "pending"] /\ link' = s
    /\ UNCHANGED <<discordVars, waiting, finished, report, gained, tickets, portal>>

(* LaunchServer replaces the client of a connection; what waits for it is not found any more. *)
Reconnect ==
    /\ link # 0
    /\ state' = [s \in States |-> IF s \in Pending THEN "lost" ELSE state[s]]
    /\ waiting' = 0
    /\ UNCHANGED <<discordVars, link, finished, report, gained, tickets, portal>>

(* "Confirm login": the report that waits for the client, or for the state of its link.  The one *)
(* that the client took is still there for its state. *)
ConfirmByClient ==
    /\ waiting # 0
    /\ waiting' = 0
    /\ UNCHANGED <<discordVars, state, link, finished, report, gained, tickets, portal>>

ConfirmByState ==
    /\ link \in finished
    /\ finished' = finished \ {link}
    /\ waiting' = IF waiting = link THEN 0 ELSE waiting
    /\ UNCHANGED <<discordVars, state, link, report, gained, tickets, portal>>

(* cleanupExpiredStates: ten minutes for what is pending, two for what is completed. *)
ExpireState ==
    /\ \E s \in States :
          \/ /\ state[s] \in {"pending", "lost", "portal"} /\ state' = [state EXCEPT ![s] = "gone"]
             /\ UNCHANGED <<waiting, finished>>
          \/ /\ s \in finished \cup {waiting} /\ finished' = finished \ {s}
             /\ waiting' = IF waiting = s THEN 0 ELSE waiting
             /\ UNCHANGED state
    /\ UNCHANGED <<discordVars, link, report, gained, tickets, portal>>

-----------------------------------------------------------------------------
(* The browser *)

Begin(t, s, kind, at) ==
    /\ At(t, "none") /\ \A r \in Threads : r < t => ~At(r, "none")
    /\ \E a \in Accounts :
          thread' = [thread EXCEPT ![t] = [NoThread EXCEPT !.kind = kind, !.at = at, !.state = s,
                                                           !.account = a]]

(* completeBrowserAuthorization looks the state up and leaves it, until Discord has answered. *)
BrowserReturns(t) ==
    /\ Serves
    /\ \E s \in States :
          /\ state[s] \notin {"unused", "portal"}
          /\ Begin(t, s, "browser", IF state[s] \in {"pending", "lost"} THEN "exchange" ELSE "end")
    /\ UNCHANGED <<storageVars, twins, flowVars, tickets, portal>>

\* Mutant: the state is not removed by who completes it.
CompletesAgain(s) == state[s] # "unused"

(* One of the threads that found the state removes it. *)
Completes(s) == state[s] \in {"pending", "lost"}

BrowserEnds(t) ==
    /\ At(t, "report") /\ thread[t].kind = "browser"
    /\ LET s == thread[t].state
       IN  IF Completes(s)
           THEN /\ state' = [state EXCEPT ![s] = "gone"]
                /\ waiting' = IF state[s] = "lost" THEN waiting ELSE s
                /\ finished' = finished \cup {s}
                /\ report' = [report EXCEPT ![s] = [account |-> thread[t].account,
                                                    token |-> Reported(t)]]
                /\ gained' = [gained EXCEPT ![s] = @ + 1]
           ELSE UNCHANGED <<state, waiting, finished, report, gained>>
    /\ Go(t, "end")
    /\ UNCHANGED <<storageVars, twins, link, tickets, portal>>

-----------------------------------------------------------------------------
(* The portal *)

StartPortal ==
    /\ Serves
    /\ Cardinality({s \in States : state[s] = "portal"}) < MaxPortals
    /\ \E s \in States : Fresh(s) /\ state' = [state EXCEPT ![s] = "portal"]
    /\ UNCHANGED <<discordVars, link, waiting, finished, report, gained, tickets, portal>>

(* completePortalAuthorization takes the state before it asks Discord. *)
PortalReturns(t) ==
    /\ Serves
    /\ \E s \in States :
          /\ state[s] = "portal"
          /\ Begin(t, s, "portal", "exchange")
          /\ state' = [state EXCEPT ![s] = "gone"]
    /\ UNCHANGED <<storageVars, twins, link, waiting, finished, report, gained, tickets, portal>>

PortalEnds(t) ==
    /\ At(t, "report") /\ thread[t].kind = "portal"
    /\ tickets' = [tickets EXCEPT ![t] = "valid"]
    /\ Go(t, "end")
    /\ UNCHANGED <<storageVars, twins, flowVars, portal>>

TicketExpires(t) ==
    /\ tickets[t] = "valid"
    /\ tickets' = [tickets EXCEPT ![t] = "expired"]
    /\ UNCHANGED <<discordVars, flowVars, portal>>

(* cleanup: the nonces of the tickets that are over by now. *)
Kept(nonces, over) == {r \in nonces : over[r] = "valid"}

(* completeTicket: the browser may come with it more than once.  The clock is read for the ticket, *)
(* and then once more for the clean-up, when the ticket may just be over. *)
TakeTicket(t) ==
    /\ tickets[t] = "valid"
    /\ tickets' \in {tickets, [tickets EXCEPT ![t] = "late"]}
    /\ t \notin Kept(portal.nonces, tickets')
    /\ portal' = [nonces |-> Kept(portal.nonces, tickets') \cup {t},
                  sessions |-> [portal.sessions EXCEPT ![t] = @ + 1]]
    /\ UNCHANGED <<discordVars, flowVars>>

\* Mutant: a nonce is forgotten before its ticket is over.
CleanNoncesEarly ==
    /\ portal' = [portal EXCEPT !.nonces = {}]
    /\ UNCHANGED <<discordVars, flowVars, tickets>>

CleanNonces ==
    /\ portal' = [portal EXCEPT !.nonces = Kept(@, tickets)]
    /\ UNCHANGED <<discordVars, flowVars, tickets>>

-----------------------------------------------------------------------------
(* What waits in memory is gone with LaunchServer. *)
LaunchServerDies ==
    /\ Killed
    /\ state' = [s \in States |-> IF state[s] = "unused" THEN "unused" ELSE "gone"]
    /\ waiting' = 0 /\ finished' = {}
    /\ UNCHANGED <<link, report, gained, tickets, portal>>

LoginNext ==
    \/ Availability \/ Reconnect \/ ConfirmByClient \/ ConfirmByState \/ ExpireState
    \/ StartPortal \/ LaunchServerDies \/ CleanNonces
    \/ \E t \in Threads :
          \/ Authenticate(t) /\ UNCHANGED <<flowVars, tickets, portal>>
          \/ BrowserReturns(t) \/ BrowserEnds(t) \/ PortalReturns(t) \/ PortalEnds(t)
          \/ TakeTicket(t) \/ TicketExpires(t)

LoginSpec == LoginInit /\ [][LoginNext]_loginVars

-----------------------------------------------------------------------------
(* Properties *)

\* Two accounts never have one name, in LaunchServer or in its file, whoever signs in at the
\* same moment for the first time (JsonUserStorage.java:141-156).
NamesDiffer ==
    \A a, b \in Accounts :
       /\ a # b /\ byAccount[a] # 0 /\ byAccount[b] # 0 =>
             users[byAccount[a]].name # users[byAccount[b]].name
       /\ a # b /\ database[a] # NoAccount => database[a].name # database[b].name

\* An account keeps its name as long as LaunchServer runs, and through a restart when it is in
\* the file; what is in the file stays there unless a write does not get to its end.  Not so when
\* two requests created the account at once, or when a start did not get at the file's accounts.
NameIsKept ==
    [][\A a \in Accounts : ~twins' /\ found' = "all" =>
          /\ byAccount[a] # 0 =>
                \/ byAccount'[a] # 0 /\ users'[byAccount'[a]].name = users[byAccount[a]].name
                \/ byAccount'[a] = 0 /\ database[a] = NoAccount
          /\ database[a] # NoAccount =>
                \/ database'[a].name = database[a].name
                \/ database'[a] = NoAccount /\ torn' # "no"]_loginVars

\* The session that a browser has just brought to the launcher is one that LaunchServer
\* restores, also after a restart: it is in memory and in the file when it is reported,
\* unless another request works on the same account at the same time (in memory) or the last save
\* failed, of which the launcher is not told (in the file).
ReportedSessionIsStored ==
    [][\A t \in Threads :
          LET a == thread[t].account
              alone == \A r \in Threads \ {t} : thread[r].account # a \/ thread[r].at \in {"none", "end"}
          IN  At(t, "report") /\ thread'[t].at = "end" /\ ~twins /\ alone =>
                 /\ users[byAccount[a]].token = Reported(t)
                 /\ ~unsaved => database[a].token = Reported(t)]_loginVars

\* However many tabs come back with one state, at most one of them completes it
\* (DiscordAuthCoreProvider.java:104-132).
CompletedOnce == \A s \in States : gained[s] <= 1

\* While a login waits for the browser, its state is the one in the link that the launcher
\* shows, however often it asked: "Reuse the pending state so LauncherRuntime never displays a
\* link that a later availability refresh has made stale" (DiscordAuthCoreProvider.java:165).
LinkIsTheOneThatWaits == Pending \subseteq {link}

\* A ticket of the portal makes one session of a player, however often the browser repeats it
\* (public-portal.service.ts:60-70).  A second one needs a repetition that meets the instant at
\* which the ticket is over: it passes the check, and the clean-up takes its nonce.
OneSessionPerTicket == \A t \in Threads : portal.sessions[t] <= IF tickets[t] = "late" THEN 2 ELSE 1

\* A login has one link and is completed once, and its ticket for the public page is taken once
\* but for the instant at which it ends (DiscordAuthCoreProvider.java:123,
\* public-portal.service.ts:60).  How often the launcher confirms what was completed is left open:
\* the code lets it do so by its connection and then by its state.
LoginsAreOneTime == CompletedOnce /\ OneSessionPerTicket /\ LinkIsTheOneThatWaits

\* An account of a Discord user is one name of its own, and the session it was last given is there
\* when it is reported; each part says what it does not cover (JsonUserStorage.java:141).
AccountsLast == []NamesDiffer /\ NameIsKept /\ ReportedSessionIsStored
=============================================================================

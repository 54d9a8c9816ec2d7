------------------------------- MODULE ServerConsole -------------------------------
(***************************************************************************)
(* The console of a server in the browser (ServerRuntimeConsole.vue): the    *)
(* events that the agent reports, sent over a WebSocket by                   *)
(* server-browser-events.service.ts, first the last ones of the journal,     *)
(* then each as it is recorded.  The page connects when the console is       *)
(* shown and again after a break; the callbacks of earlier connections come  *)
(* late.                                                                      *)
(***************************************************************************)
EXTENDS Naturals, Sequences, FiniteSets

CONSTANTS MaxShown,        \* how many events are shown, 500 in the code
          MaxReports,  \* bound: events of the server
          MaxLinks     \* bound: connections

ASSUME ConsoleAssumption == MaxShown \in Nat \ {0} /\ MaxReports \in Nat /\ MaxLinks \in Nat

VARIABLES reports,  \* the events of the binding, 1 .. reports
          active,   \* the console is the selected tab
          gen,      \* connectionGeneration; each connection has its own
          links,    \* links[g]: connection g, its state in the browser, subscribed, frames on the way
          drawn, undrawn, seen, \* events, pendingEvents, seenSequences
          frame,    \* flushPendingEvents has been requested
          beat,     \* the connection of the heartbeat timer, or 0
          timer,    \* the reconnect timer runs
          streamState \* what the page says of its connection

consoleVars == <<reports, active, gen, links, drawn, undrawn, seen, frame, beat, timer, streamState>>

NoLink == [state |-> "closed", subscribed |-> FALSE, wire |-> <<>>]

ConsoleInit ==
    /\ reports = 0 /\ active = FALSE /\ gen = 0 /\ links = [g \in 1 .. MaxLinks |-> NoLink]
    /\ drawn = <<>> /\ undrawn = <<>> /\ seen = {} /\ frame = FALSE
    /\ beat = 0 /\ timer = FALSE /\ streamState = "closed"

LastOnes(seq) == SubSeq(seq, IF Len(seq) > MaxShown THEN Len(seq) - MaxShown + 1 ELSE 1, Len(seq))
Journal == [i \in 1 .. reports |-> i]

EventsOf(seq) == {seq[i] : i \in DOMAIN seq}
(* By their numbers, which differ. *)
Sorted(seq) ==
    [i \in DOMAIN seq |-> CHOOSE e \in EventsOf(seq) : Cardinality({f \in EventsOf(seq) : f < e}) = i - 1]

-----------------------------------------------------------------------------
(* The panel *)

(* An event is recorded and published in one turn. *)
Report ==
    /\ reports < MaxReports /\ reports' = reports + 1
    /\ links' = [g \in DOMAIN links |->
                    IF links[g].subscribed
                    THEN [links[g] EXCEPT !.wire = Append(@, [type |-> "event", events |-> <<reports'>>])]
                    ELSE links[g]]
    /\ UNCHANGED <<active, gen, drawn, undrawn, seen, frame, beat, timer, streamState>>

(* ServerBrowserEventsService.open: subscribed, then the history, in one turn. *)
OpenConsole(g) ==
    /\ links[g].state = "asked"
    /\ links' = [links EXCEPT ![g] = [state |-> "opening", subscribed |-> TRUE,
                                      wire |-> <<[type |-> "history", events |-> LastOnes(Journal)]>>]]
    /\ UNCHANGED <<reports, active, gen, drawn, undrawn, seen, frame, beat, timer, streamState>>

(* The connection breaks, a frame cannot be sent, the panel restarts: what was on its way may be lost. *)
LinkBreaks(g) ==
    /\ links[g].state \in {"asked", "opening", "open"}
    /\ links' = [links EXCEPT ![g] = [state |-> "broken", subscribed |-> FALSE, wire |-> <<>>]]
    /\ UNCHANGED <<reports, active, gen, drawn, undrawn, seen, frame, beat, timer, streamState>>

-----------------------------------------------------------------------------
(* The page *)

(* connect: clearSocket closes the connection before it, whose callbacks may still come. *)
Connects ==
    /\ gen < MaxLinks /\ gen' = gen + 1
    /\ links' = [links EXCEPT ![gen'] = [NoLink EXCEPT !.state = "asked"]]
    /\ drawn' = <<>> /\ undrawn' = <<>> /\ seen' = {}
    /\ beat' = 0 /\ timer' = FALSE /\ streamState' = "connecting"
    /\ UNCHANGED <<reports, frame>>

ShowConsole == ~active /\ active' = TRUE /\ Connects

Reconnect == timer /\ Connects /\ UNCHANGED active

(* disconnect: another tab, or the page is left. *)
HideConsole ==
    /\ active /\ active' = FALSE /\ gen < MaxLinks /\ gen' = gen + 1
    /\ undrawn' = <<>> /\ frame' = FALSE
    /\ beat' = 0 /\ timer' = FALSE /\ streamState' = "closed"
    /\ UNCHANGED <<reports, links, drawn, seen>>

\* Mutant: the callbacks do not ask which connection they are of.
AnyGeneration(g) == active
IsCurrent(g) == g = gen

SocketOpens(g) ==
    /\ links[g].state = "opening" /\ links' = [links EXCEPT ![g].state = "open"]
    /\ IF IsCurrent(g) THEN streamState' = "live" /\ beat' = g ELSE UNCHANGED <<streamState, beat>>
    /\ UNCHANGED <<reports, active, gen, drawn, undrawn, seen, frame, timer>>

(* applyHistory *)
ApplyHistory(events) ==
    /\ drawn' = LastOnes(events) /\ seen' = EventsOf(LastOnes(events))
    /\ UNCHANGED <<undrawn, frame>>

(* enqueueEvent *)
EnqueueEvent(event) ==
    /\ IF event \in seen THEN UNCHANGED <<undrawn, seen, frame>>
       ELSE undrawn' = Append(undrawn, event) /\ seen' = seen \cup {event} /\ frame' = TRUE
    /\ UNCHANGED drawn

FrameArrives(g) ==
    /\ links[g].state = "open" /\ links[g].wire # <<>>
    /\ links' = [links EXCEPT ![g].wire = Tail(@)]
    /\ LET message == Head(links[g].wire)
       IN  IF ~IsCurrent(g) THEN UNCHANGED <<drawn, undrawn, seen, frame>>
           ELSE IF message.type = "history" THEN ApplyHistory(message.events)
           ELSE EnqueueEvent(message.events[1])
    /\ UNCHANGED <<reports, active, gen, beat, timer, streamState>>

\* Mutant: what is pending replaces what is shown.
Replaced == LastOnes(Sorted(undrawn))
Merged == LastOnes(Sorted(drawn \o undrawn))

FlushPending ==
    /\ frame /\ frame' = FALSE
    /\ IF undrawn = <<>> THEN UNCHANGED <<drawn, undrawn, seen>>
       ELSE drawn' = Merged /\ undrawn' = <<>> /\ seen' = EventsOf(Merged)
    /\ UNCHANGED <<reports, active, gen, links, beat, timer, streamState>>

(* Also the end of a connection that the page has closed itself. *)
SocketCloses(g) ==
    /\ links[g].state = "broken" \/ (links[g].state \notin {"closed", "broken"} /\ g # gen)
    /\ links' = [links EXCEPT ![g] = NoLink]
    /\ IF IsCurrent(g) /\ active THEN beat' = 0 /\ streamState' = "reconnecting" /\ timer' = TRUE
       ELSE UNCHANGED <<beat, streamState, timer>>
    /\ UNCHANGED <<reports, active, gen, drawn, undrawn, seen, frame>>

ConsoleNext ==
    \/ Report \/ ShowConsole \/ Reconnect \/ HideConsole \/ FlushPending
    \/ \E g \in 1 .. MaxLinks :
          OpenConsole(g) \/ LinkBreaks(g) \/ SocketOpens(g) \/ FrameArrives(g) \/ SocketCloses(g)

ConsoleSpec == ConsoleInit /\ [][ConsoleNext]_consoleVars

-----------------------------------------------------------------------------
(* Properties *)

\* The end of the journal of `last` events.
IsEndOfJournal(seq, last) ==
    /\ Len(seq) <= last /\ (Len(seq) >= MaxShown \/ Len(seq) = last)
    /\ \A i \in DOMAIN seq : seq[i] = last - Len(seq) + i

HistoryAwaited(wire) == wire # <<>> /\ wire[1].type = "history"

\* What an open console shows, what it has not drawn yet and what is on its way are together the
\* end of the server's journal: in order, no event twice and none left out, and never an event
\* of an earlier connection among them. (The last frame on its way has the newest event; while
\* the history is on its way nothing is shown.)
NothingIsMissed ==
    active /\ gen \in DOMAIN links /\ links[gen].subscribed =>
       LET wire == links[gen].wire
       IN  /\ \A i \in DOMAIN wire :
                 IF wire[i].type = "history" THEN i = 1 /\ IsEndOfJournal(wire[i].events, reports - Len(wire) + 1)
                 ELSE wire[i].events = <<reports - Len(wire) + i>>
           /\ IF HistoryAwaited(wire) THEN drawn = <<>> /\ undrawn = <<>>
              ELSE IsEndOfJournal(drawn \o undrawn, reports - Len(wire))

\* The page is never still: pending events are drawn, and a console that is selected has a
\* connection or a timer to get one; it says that it is live with its own connection only.
ConsoleGoesOn ==
    /\ undrawn # <<>> => frame
    /\ active => timer \/ links[gen].state # "closed"
    /\ streamState = "live" <=> beat # 0
    /\ beat # 0 => beat = gen /\ active
    /\ active <=> streamState # "closed"

ConsoleIsComplete == NothingIsMissed /\ ConsoleGoesOn
=============================================================================

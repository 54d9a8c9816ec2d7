----------------------------- MODULE JournalStream -----------------------------
(***************************************************************************)
(* The console of a game server: the agent follows its journal with           *)
(* journalctl (streamJournal in system.go), sends line after line, waits for  *)
(* the acknowledgement of each (sendLog in agent.go) and then persists its    *)
(* cursor; the panel stores a line unless it has its cursor (log of           *)
(* server-agent.service.ts, appendEvent of server-agent.store.ts).  Each      *)
(* connection starts a stream, and nobody waits for the one before to end.    *)
(* A line is its number, which stands for its cursor.                         *)
(***************************************************************************)
EXTENDS Naturals, Sequences

CONSTANTS MaxLines,          \* bound: lines of the journal
          Links,             \* numbers of the connections, in their order
          KeptRows,          \* how many rows of a server the panel keeps (2000)
          MaxJournalFaults   \* bound: rotations, cursors not written, lines not stored,
                             \* other events that push a line out

ASSUME JournalAssumption ==
    /\ MaxLines \in Nat /\ Links \subseteq Nat \ {0} /\ MaxJournalFaults \in Nat
    /\ KeptRows \in Nat \ {0}

VARIABLES written,   \* how many lines the journal ever had
          oldest,    \* the first line that it still has
          cursor,    \* the persisted cursor, 0 for none
          connected, \* the connection of the agent, 0 for none
          linked,    \* how many connections there have been
          stream,    \* stream[k]: the stream that connection k has started
          wire,      \* wire[k]: lines on their way to the panel
          acks,      \* acks[k]: acknowledgements on their way to the agent
          stored,    \* the log lines in server_runtime_events
          dropped,   \* history: lines that were stored and had to go for newer rows
          first,     \* the first line that was ever read, 0 for none
          skipped,   \* lines were passed over: the journal had lost them, or there was no cursor
          trouble    \* how many faults there have been

journalVars == <<written, oldest, cursor, connected, linked, stream, wire, acks, stored, dropped, first, skipped,
                 trouble>>

NoStream == [phase |-> "none", next |-> 0, invalid |-> FALSE]

JournalInit ==
    /\ written = 0 /\ oldest = 1 /\ cursor = 0
    /\ connected = 0 /\ linked = 0
    /\ stream = [k \in Links |-> NoStream]
    /\ wire = [k \in Links |-> <<>>] /\ acks = [k \in Links |-> <<>>]
    /\ stored = <<>> /\ dropped = {} /\ first = 0 /\ skipped = FALSE /\ trouble = 0

LastLink == \A k \in Links : k <= linked

Trouble == trouble < MaxJournalFaults /\ trouble' = trouble + 1

In(line, s) == \E i \in DOMAIN s : s[i] = line

-----------------------------------------------------------------------------
(* The journal *)

WriteLine ==
    /\ written < MaxLines /\ written' = written + 1
    /\ UNCHANGED <<oldest, cursor, connected, linked, stream, wire, acks, stored, dropped, first, skipped, trouble>>

Rotate ==
    /\ oldest <= written /\ oldest' = oldest + 1
    /\ Trouble
    /\ UNCHANGED <<written, cursor, connected, linked, stream, wire, acks, stored, dropped, first, skipped>>

-----------------------------------------------------------------------------
(* The connection *)

Reach(k) ==
    /\ connected = 0 /\ k = linked + 1
    /\ connected' = k /\ linked' = k
    /\ stream' = [stream EXCEPT ![k] = [NoStream EXCEPT !.phase = "open"]]
    /\ UNCHANGED <<written, oldest, cursor, wire, acks, stored, dropped, first, skipped, trouble>>

(* What the panel has received it still handles; an acknowledgement does not arrive any more. *)
Broken ==
    /\ ~LastLink /\ connected' = 0
    /\ wire' \in {wire, [wire EXCEPT ![connected] = <<>>]}
    /\ acks' = [acks EXCEPT ![connected] = <<>>]

Break ==
    /\ connected # 0 /\ Broken
    /\ UNCHANGED <<written, oldest, cursor, linked, stream, stored, dropped, first, skipped, trouble>>

AgentStops ==
    /\ connected # 0 /\ Broken
    /\ stream' = [k \in Links |-> IF k <= linked THEN [NoStream EXCEPT !.phase = "over"] ELSE NoStream]
    /\ UNCHANGED <<written, oldest, cursor, linked, stored, dropped, first, skipped, trouble>>

-----------------------------------------------------------------------------
(* streamJournal *)

Does(k, phase) == stream[k].phase = phase

(* journalctl from the cursor; without one, or when it is invalid, from some of the last lines: *)
(* of five minutes and at most 200, so never from before where it once began. *)
OpenJournal(k) ==
    /\ Does(k, "open") /\ connected = k
    /\ IF cursor # 0 /\ ~stream[k].invalid
       THEN /\ \/ stream' = [stream EXCEPT ![k].phase = "read", ![k].next = cursor + 1]
               \/ cursor < oldest /\ stream' = [stream EXCEPT ![k].invalid = TRUE]
            /\ UNCHANGED <<first, skipped>>
       ELSE \E n \in oldest .. written + 1 :
               /\ n >= first
               /\ stream' = [stream EXCEPT ![k].phase = "read", ![k].next = n]
               /\ first' = IF first = 0 THEN n ELSE first
               /\ skipped' = (skipped \/ n > IF cursor = 0 THEN first' ELSE cursor + 1)
    /\ UNCHANGED <<written, oldest, cursor, connected, linked, wire, acks, stored, dropped, trouble>>

\* Mutant: the cursor is written as soon as the line is sent.
PersistFirst == "persist"
AfterSend == "ack"

(* sendLog *)
SendLine(k) ==
    /\ Does(k, "read") /\ connected = k
    /\ LET line == IF stream[k].next < oldest THEN oldest ELSE stream[k].next
       IN  /\ line <= written
           /\ wire' = [wire EXCEPT ![k] = Append(@, line)]
           /\ stream' = [stream EXCEPT ![k].phase = AfterSend, ![k].next = line]
           /\ skipped' = (skipped \/ line # stream[k].next)
    /\ UNCHANGED <<written, oldest, cursor, connected, linked, acks, stored, dropped, first, trouble>>

(* The read loop finds who waits for the acknowledgement, if anybody does. *)
TakeAck(k) ==
    /\ connected = k /\ acks[k] # <<>>
    /\ acks' = [acks EXCEPT ![k] = Tail(@)]
    /\ stream' = IF Does(k, "ack") /\ stream[k].next = Head(acks[k])
                 THEN [stream EXCEPT ![k].phase = "persist"] ELSE stream
    /\ UNCHANGED <<written, oldest, cursor, connected, linked, wire, stored, dropped, first, skipped, trouble>>

\* Mutant: the wait for the acknowledgement has no end.
WaitsForever(k) == FALSE
WaitEnds(k) == Does(k, "ack") /\ connected = k

(* Ten seconds without it: the connection is given up. *)
AckTimesOut(k) ==
    /\ WaitEnds(k) /\ Broken
    /\ UNCHANGED <<written, oldest, cursor, linked, stream, stored, dropped, first, skipped, trouble>>

(* deliverJournalLine writes the cursor; the stream of a former connection may, too. *)
Persist(k) ==
    /\ Does(k, "persist")
    /\ cursor' = stream[k].next
    /\ stream' = [stream EXCEPT ![k] = [phase |-> "read", next |-> @.next + 1, invalid |-> FALSE]]
    /\ UNCHANGED <<written, oldest, connected, linked, wire, acks, stored, dropped, first, skipped, trouble>>

(* The file is not written, or journalctl ends: it is started again. *)
Reopens(k) ==
    /\ Does(k, "persist") \/ Does(k, "read")
    /\ stream' = [stream EXCEPT ![k].phase = "open"]
    /\ Trouble
    /\ UNCHANGED <<written, oldest, cursor, connected, linked, wire, acks, stored, dropped, first, skipped>>

StreamEnds(k) ==
    /\ connected # k /\ stream[k].phase \notin {"none", "over"}
    /\ stream' = [stream EXCEPT ![k].phase = "over"]
    /\ UNCHANGED <<written, oldest, cursor, connected, linked, wire, acks, stored, dropped, first, skipped, trouble>>

-----------------------------------------------------------------------------
(* The panel *)

\* Mutant: INSERT without OR IGNORE.
StoredAgain(line) == Append(stored, line)
StoredOnce(line) == IF In(line, stored) THEN stored ELSE Append(stored, line)

(* A row too many: the oldest goes. *)
StoreLine(k) ==
    /\ wire[k] # <<>>
    /\ wire' = [wire EXCEPT ![k] = Tail(@)]
    /\ LET rows == StoredOnce(Head(wire[k]))
       IN  IF Len(rows) > KeptRows
           THEN stored' = Tail(rows) /\ dropped' = dropped \cup {Head(rows)}
           ELSE stored' = rows /\ UNCHANGED dropped
    /\ acks' = IF k = connected THEN [acks EXCEPT ![k] = Append(@, Head(wire[k]))] ELSE acks
    /\ UNCHANGED <<written, oldest, cursor, connected, linked, stream, first, skipped, trouble>>

(* Another event of the server is stored among its rows, which are not told here: a line goes. *)
OtherEvent ==
    /\ stored # <<>> /\ stored' = Tail(stored) /\ dropped' = dropped \cup {Head(stored)}
    /\ Trouble
    /\ UNCHANGED <<written, oldest, cursor, connected, linked, stream, wire, acks, first, skipped>>

(* The database refuses the line, and the handler throws. *)
StoreFails(k) ==
    /\ wire[k] # <<>> /\ ~LastLink
    /\ wire' = [wire EXCEPT ![k] = Tail(@)]
    /\ Trouble
    /\ UNCHANGED <<written, oldest, cursor, connected, linked, stream, acks, stored, dropped, first, skipped>>

JournalNext ==
    \/ WriteLine \/ Rotate \/ Break \/ AgentStops \/ OtherEvent
    \/ \E k \in Links :
          \/ Reach(k) \/ OpenJournal(k) \/ SendLine(k) \/ AckTimesOut(k) \/ Persist(k) \/ TakeAck(k)
          \/ Reopens(k) \/ StreamEnds(k) \/ StoreLine(k) \/ StoreFails(k)

(* The stream goes on from step to step, and timers fire; an agent that was connected once *)
(* connects again. *)
StreamStep(k) == OpenJournal(k) \/ SendLine(k) \/ AckTimesOut(k) \/ Persist(k)

JournalFairness ==
    /\ \A k \in Links : WF_journalVars(StreamStep(k)) /\ WF_journalVars(TakeAck(k)) /\ WF_journalVars(StoreLine(k))
    /\ \A k \in Links \ {1} : WF_journalVars(Reach(k))

JournalSpec == JournalInit /\ [][JournalNext]_journalVars /\ JournalFairness

-----------------------------------------------------------------------------
(* Properties *)

Reached(line) == In(line, stored) \/ line \in dropped

\* Among the rows that the panel keeps each line is there once, and a line comes after all that
\* are older unless it was there before and had to go (then it may come again), as long as no
\* line was passed over; however often the agent sends it again and however late the stream of a
\* former connection writes its cursor ("deduplicates journal lines by cursor",
\* server-agent.service.test.ts:90).
StoredOnceInOrder ==
    /\ Len(stored) <= KeptRows
    /\ \A i, j \in DOMAIN stored : i < j =>
          /\ stored[i] # stored[j]
          /\ ~skipped /\ stored[j] \notin dropped => stored[i] < stored[j]

\* The persisted cursor is at a line that the panel has stored, and so it has all before it: one
\* that is missing had to go for newer rows, and is older than all that did not.
NoHoleBeforeCursor ==
    /\ cursor # 0 => Reached(cursor)
    /\ ~skipped /\ cursor # 0 => \A n \in first .. cursor : Reached(n)
    /\ ~skipped => \A n \in dropped : \A i \in DOMAIN stored :
                     stored[i] \in dropped \/ n < stored[i]

\* The console that the panel keeps (log in server-agent.service.ts) is the newest part of the
\* journal: each line once, and none is missing there that the agent will not send again.
JournalIsWhole == StoredOnceInOrder /\ NoHoleBeforeCursor

\* A line that is written after the stream has first gets to the panel, through lost
\* connections, restarts of the agent and lines that could not be stored, unless the journal
\* loses it before.
LineArrives ==
    \A n \in 1 .. MaxLines :
       (n <= written /\ cursor # 0 /\ cursor < n) ~> (Reached(n) \/ skipped \/ n < oldest)
=============================================================================

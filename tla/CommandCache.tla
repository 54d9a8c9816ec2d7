---------------------------- MODULE CommandCache ----------------------------
(***************************************************************************)
(* The command journal of the host agent (agent/idempotency.go): which     *)
(* command ids are in flight, which have a retained terminal result, and   *)
(* the snapshot of both in the state file.  Begin is split into its four   *)
(* outcomes.  A failed write (atomicWriteState) leaves either the old file *)
(* or, when only the directory fsync failed, the new one.                  *)
(*                                                                         *)
(* Result texts, timestamps and the file's JSON layout are abstracted: a   *)
(* result is "completed", "failed" or "unknown" (unknownOutcomeError).     *)
(***************************************************************************)
EXTENDS ServerCommands

CONSTANT CacheLimit       \* commandResultCache.limit (maxCachedCommandResults)

ASSUME CacheLimitAssumption == CacheLimit \in Nat \ {0}

VARIABLES
  order,          \* ids with a retained result, oldest first
  completed,      \* id -> its retained result, or NoResult
  pending,        \* ids whose execution is owned but not finished
  disk            \* the last snapshot that reached the state file

cacheVars == <<order, completed, pending, disk>>

Elements(s) == {s[i] : i \in DOMAIN s}

Snapshot(o, r, p) == [order |-> o, completed |-> r, accepted |-> p]

\* Mutant of Trim: the oldest ids survive.
TrimNewest(o) == IF Len(o) > CacheLimit THEN SubSeq(o, 1, CacheLimit) ELSE o

\* trimLocked: the newest CacheLimit ids of a sequence.
Trim(o) ==
  IF Len(o) > CacheLimit THEN SubSeq(o, Len(o) - CacheLimit + 1, Len(o)) ELSE o

\* Only ids of the sequence keep their result.
Keep(o, r) == [c \in Commands |-> IF c \in Elements(o) THEN r[c] ELSE NoResult]

\* The orders sort.Strings may give to a set of ids: ids are random UUIDs.
IdOrders(S) == {p \in [1..Cardinality(S) -> S] : Elements(p) = S}

CacheInit ==
  /\ order = <<>>
  /\ completed = [c \in Commands |-> NoResult]
  /\ pending = {}
  /\ disk = Snapshot(<<>>, [c \in Commands |-> NoResult], {})

\* begin: the id has a retained result, which is returned.
BeginCached(c) ==
  /\ completed[c] # NoResult
  /\ UNCHANGED cacheVars

\* begin: the id is in flight; the caller waits for its owner's result.
BeginJoin(c) ==
  /\ completed[c] = NoResult
  /\ c \in pending
  /\ UNCHANGED cacheVars

\* Mutant of BeginOwn: ownership is granted before the acceptance is on disk.
BeginOwnUnwritten(c) ==
  /\ completed[c] = NoResult
  /\ c \notin pending
  /\ pending' = pending \union {c}
  /\ UNCHANGED <<order, completed, disk>>

\* begin: acceptance is on disk, then ownership is granted.
BeginOwn(c) ==
  /\ completed[c] = NoResult
  /\ c \notin pending
  /\ pending' = pending \union {c}
  /\ disk' = Snapshot(order, completed, pending')
  /\ UNCHANGED <<order, completed>>

\* begin: the acceptance could not be persisted, ownership is refused.
BeginRefused(c) ==
  /\ "disk" \in Faults
  /\ completed[c] = NoResult
  /\ c \notin pending
  /\ disk' \in {disk, Snapshot(order, completed, pending \union {c})}
  /\ UNCHANGED <<order, completed, pending>>

\* complete: the result is retained in memory even when it cannot be written.
Complete(c, r) ==
  LET appended == IF completed[c] = NoResult THEN Append(order, c) ELSE order
  IN /\ order' = Trim(appended)
     /\ completed' = Keep(order', [completed EXCEPT ![c] = r])
     /\ pending' = pending \ {c}
     /\ \/ disk' = Snapshot(order', completed', pending')
        \/ "disk" \in Faults /\ disk' = disk

\* Mutant of Reload: accepted ids without a result are forgotten.
ReloadResultsOnly ==
  /\ order' = Trim(disk.order)
  /\ completed' = Keep(order', disk.completed)
  /\ pending' = {}
  /\ disk' = Snapshot(order', completed', pending')

\* A new process: load turns every accepted id into an unknown outcome, then
\* openCommandResultCache writes the result back before the agent starts.
Reload ==
  /\ \E accepted \in IdOrders(disk.accepted) :
       order' = Trim(disk.order \o accepted)
  /\ completed' = Keep(order', [c \in Commands |->
                    IF c \in disk.accepted THEN "unknown" ELSE disk.completed[c]])
  /\ pending' = {}
  /\ disk' = Snapshot(order', completed', pending')

\* The variables hold values of the types the Go struct declares.
CacheTypeOK ==
  /\ order \in Seq(Commands)
  /\ completed \in [Commands -> Results \union {NoResult}]
  /\ pending \subseteq Commands
  /\ disk \in [order : Seq(Commands),
               completed : [Commands -> Results \union {NoResult}],
               accepted : SUBSET Commands]
=============================================================================

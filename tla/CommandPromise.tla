--------------------------- MODULE CommandPromise ---------------------------
(***************************************************************************)
(* What a server command promises whoever creates it: it runs at most      *)
(* once, only after it was created, it gets one final report, and a report *)
(* of success means that its one run succeeded.  A report of failure       *)
(* promises nothing about the run: it may have expired, or its outcome may *)
(* be unknown, and it may even run later.                                  *)
(***************************************************************************)
CONSTANT Ids
VARIABLES
  report,     \* "none", "open", "succeeded" or "failed"
  started,    \* ids whose run has started
  ended       \* id -> "none", "completed" or "failed"

promiseVars == <<report, started, ended>>

Init ==
  /\ report = [c \in Ids |-> "none"]
  /\ started = {}
  /\ ended = [c \in Ids |-> "none"]

Report ==
  /\ report' \in [Ids -> {"none", "open", "succeeded", "failed"}]
  /\ \A c \in Ids :
       \/ report'[c] = report[c]
       \/ report[c] = "none" /\ report'[c] \in {"open", "failed"}
       \/ report[c] = "open" /\ report'[c] = "failed"
       \/ report[c] = "open" /\ report'[c] = "succeeded" /\ ended[c] = "completed"
  /\ UNCHANGED <<started, ended>>

Start(c) ==
  /\ c \notin started
  /\ report[c] # "none"
  /\ started' = started \union {c}
  /\ UNCHANGED <<report, ended>>

Finish(c) ==
  /\ c \in started
  /\ ended[c] = "none"
  /\ \E r \in {"completed", "failed"} : ended' = [ended EXCEPT ![c] = r]
  /\ UNCHANGED <<report, started>>

Next == Report \/ \E c \in Ids : Start(c) \/ Finish(c)

Spec == Init /\ [][Next]_promiseVars
=============================================================================

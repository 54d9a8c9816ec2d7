---------------------------- MODULE ControlTransport ----------------------------
(***************************************************************************)
(* Commands to LaunchServer: control-file.service.ts sends one line to the   *)
(* socket in the container and reads until LaunchServer closes it; an        *)
(* inspection may go over HTTP first (launchserver-transport.service.ts,     *)
(* remote-control-http.service.ts).  LaunchServer runs what it accepted one  *)
(* after another, also what nobody waits for any more.                       *)
(***************************************************************************)
EXTENDS Naturals, Sequences

CONSTANT Callers   \* the jobs and requests that send commands

VARIABLES active,   \* activeInstallations has the installation
          call,     \* call[c]: the call of caller c
          socket,   \* is the control socket there
          accepted  \* the commands that LaunchServer has read and not finished

controlVars == <<active, call, socket, accepted>>

NoCall == [phase |-> "idle", cmd |-> "none", sent |-> 0, answer |-> "none"]

(* sendWhenReady is under way. *)
Holding(c) == call[c].phase \in {"probe", "send", "wait"}

ControlInit ==
    /\ active = FALSE
    /\ call = [c \in Callers |-> NoCall]
    /\ socket = TRUE
    /\ accepted = <<>>

-----------------------------------------------------------------------------
(* Calls *)

Phase(c, p) == call' = [call EXCEPT ![c].phase = p]

(* The end of a call that held the installation: finally. *)
Released(c, answer) ==
    /\ call' = [call EXCEPT ![c].phase = "over", ![c].answer = answer]
    /\ active' = FALSE

\* Mutant: activeInstallations is not looked at.
AcquireAnyway(c, cmd) ==
    /\ call' = [call EXCEPT ![c] = [NoCall EXCEPT !.phase = "probe", !.cmd = cmd]]
    /\ active' = TRUE

(* executeCommand refuses at once when another call is under way. *)
Acquire(c, cmd) ==
    IF active
    THEN /\ call' = [call EXCEPT ![c] = [NoCall EXCEPT !.phase = "over", !.cmd = cmd,
                                                       !.answer = "busy"]]
         /\ UNCHANGED active
    ELSE /\ call' = [call EXCEPT ![c] = [NoCall EXCEPT !.phase = "probe", !.cmd = cmd]]
         /\ active' = TRUE

Execute(c, cmd) ==
    /\ call[c].phase = "idle"
    /\ Acquire(c, cmd)
    /\ UNCHANGED <<socket, accepted>>

(* With a stored credential an inspection goes over HTTP. *)
Inspect(c) ==
    /\ call[c].phase = "idle"
    /\ call' = [call EXCEPT ![c] = [NoCall EXCEPT !.phase = "remote", !.cmd = "inspect"]]
    /\ UNCHANGED <<active, socket, accepted>>

(* RemoteControl answers, or the control file is asked the same. *)
RemoteEnds(c) ==
    /\ call[c].phase = "remote"
    /\ \/ /\ call' = [call EXCEPT ![c].phase = "over", ![c].answer = "yes"]
          /\ UNCHANGED active
       \/ Acquire(c, "inspect")
    /\ UNCHANGED <<socket, accepted>>

(* test -S finds the socket; else it is tried again 250 ms later. *)
Probe(c) ==
    /\ call[c].phase = "probe" /\ socket
    /\ Phase(c, "send")
    /\ UNCHANGED <<active, socket, accepted>>

(* Compose itself fails. *)
ProbeFails(c) ==
    /\ call[c].phase = "probe"
    /\ Released(c, "error")
    /\ UNCHANGED <<socket, accepted>>

(* socat connects and writes its line; that it cannot connect is transient. *)
Connect(c) ==
    /\ call[c].phase = "send"
    /\ IF socket
       THEN /\ call' = [call EXCEPT ![c].phase = "wait", ![c].sent = @ + 1]
            /\ accepted' = Append(accepted, [by |-> c, cmd |-> call[c].cmd, awaited |-> TRUE])
       ELSE Phase(c, "probe") /\ UNCHANGED accepted
    /\ UNCHANGED <<active, socket>>

\* Mutant: the deadline is looked at only when the socket is there.
GiveUpWhenReady(c) ==
    /\ call[c].phase = "probe" /\ socket
    /\ Released(c, "error")
    /\ UNCHANGED <<socket, accepted>>

(* The socket did not appear in 30 s. *)
GiveUp(c) ==
    /\ call[c].phase = "probe" /\ ~socket
    /\ Released(c, "error")
    /\ UNCHANGED <<socket, accepted>>

Orphaned(c) ==
    [i \in DOMAIN accepted |-> [accepted[i] EXCEPT !.awaited = @ /\ accepted[i].by # c]]

\* Mutant: every failure of socat counts as transient.
AfterFailureAgain(c) == Phase(c, "probe") /\ UNCHANGED active

(* What follows a failure of socat after it connected. *)
AfterFailure(c) == Released(c, "error")

(* The minute, 5 s for the modules, half an hour for builds: socat is killed, the command is not. *)
TimesOut(c) ==
    /\ call[c].phase = "wait"
    /\ AfterFailure(c)
    /\ accepted' = Orphaned(c)
    /\ UNCHANGED socket

-----------------------------------------------------------------------------
(* LaunchServer *)

(* The first command ends; who waits for it has the answer, if it is not too long to read. *)
Answered(answer) ==
    /\ accepted # <<>>
    /\ IF Head(accepted).awaited
       THEN \E a \in {answer, "error"} : Released(Head(accepted).by, a)
       ELSE UNCHANGED <<active, call>>
    /\ accepted' = Tail(accepted)
    /\ UNCHANGED socket

(* LaunchServer stops, and with it what it has not run. *)
Stops ==
    /\ socket
    /\ socket' = FALSE
    /\ accepted' = <<>>
    /\ LET cut == {c \in Callers : call[c].phase = "wait"}
       IN  /\ call' = [c \in Callers |->
                          IF c \in cut THEN [call[c] EXCEPT !.phase = "over", !.answer = "error"]
                          ELSE call[c]]
           /\ active' = (active /\ cut = {})

Starts ==
    /\ ~socket
    /\ socket' = TRUE
    /\ UNCHANGED <<active, call, accepted>>

(* The caller has read the answer. *)
Taken(c) == [call EXCEPT ![c] = NoCall]

-----------------------------------------------------------------------------
(* Properties *)

\* The installation is marked as long as a call is between its probe and its answer, and no
\* longer; two callers never talk to the socket at once (control-file.service.ts:250-265).
OneCallAtATime ==
    /\ active <=> \E c \in Callers : Holding(c)
    /\ \A c, d \in Callers : Holding(c) /\ Holding(d) => c = d

\* A command reaches LaunchServer at most once in a call, however often the socket was not
\* ready, and not at all when the call is refused as busy (control-file.service.ts:267-305).
SentAtMostOnce ==
    \A c \in Callers : call[c].sent <= 1 /\ (call[c].answer = "busy" => call[c].sent = 0)

\* LaunchServer gets one command at a time and each of them once, whatever was given up or tried
\* over HTTP before (executeCommand, control-file.service.ts:249).
ControlInv == OneCallAtATime /\ SentAtMostOnce
=============================================================================

-------------------------- MODULE FileAuthUsersProofs --------------------------
(***************************************************************************)
(* LaunchServer: the commands it gets and the accounts it keeps, for any      *)
(* number of jobs, accounts and events, and how it comes and goes, for any    *)
(* number of jobs and faults.                                                 *)
(* The argument for commands: whatever LaunchServer has read and somebody     *)
(* still waits for was sent by the one caller that holds the installation, so *)
(* an answer, a timeout or a stop frees nobody else.                          *)
(***************************************************************************)
EXTENDS FileAuthUsers, LaunchServerSetup, SequenceTheorems, TLAPS

CommandNames == Commands \cup {"inspect", "none"}
CallPhases == {"idle", "remote", "probe", "send", "wait", "over"}
Answers == {"none", "yes", "no", "rejected", "error", "busy"}
CallRecords == [phase : CallPhases, cmd : CommandNames, sent : Nat, answer : Answers]
Entries == [by : Callers, cmd : CommandNames, awaited : BOOLEAN]

CallsTypeOK ==
    /\ active \in BOOLEAN /\ socket \in BOOLEAN
    /\ call \in [Callers -> CallRecords]
    /\ accepted \in Seq(Entries)

AwaitedIsHeld ==
    \A i \in 1 .. Len(accepted) : accepted[i].awaited => call[accepted[i].by].phase = "wait"

OneAwaited ==
    \A i, j \in 1 .. Len(accepted) : accepted[i].awaited /\ accepted[j].awaited => i = j

Fresh(r) == r.phase \in {"idle", "remote", "probe", "send"} => r.sent = 0
Counted(r) == r.sent <= 1 /\ (r.answer = "busy" => r.sent = 0 /\ r.phase = "over")

SentOnce == \A c \in Callers : Fresh(call[c]) /\ Counted(call[c])

CallsInv == CallsTypeOK /\ AwaitedIsHeld /\ OneAwaited /\ SentOnce /\ OneCallAtATime

-----------------------------------------------------------------------------
\* The invariant implies that LaunchServer gets one command at a time, and each once.
LEMMA CallsInvSuffices == CallsInv => ControlInv
<1> SUFFICES ASSUME CallsInv PROVE SentAtMostOnce
  BY DEF CallsInv, ControlInv
<1> QED
  BY DEF CallsInv, SentOnce, Counted, SentAtMostOnce

\* No call: nothing sent, nothing answered.
LEMMA NoCallIsFresh ==
  /\ NoCall \in CallRecords /\ NoCall.phase = "idle" /\ NoCall.sent = 0 /\ NoCall.answer = "none"
BY DEF NoCall, CallRecords, CallPhases, CommandNames, Answers

\* A panel that has just started sends nothing.
LEMMA CallsStart == UsersInit => CallsInv
<1> SUFFICES ASSUME ControlInit PROVE CallsInv
  BY DEF UsersInit
<1>1. NoCall \in CallRecords /\ NoCall.phase = "idle" /\ NoCall.sent = 0 /\ NoCall.answer = "none"
  BY NoCallIsFresh
<1>2. accepted \in Seq(Entries) /\ Len(accepted) = 0
  BY EmptySeq DEF ControlInit
<1>3. CallsTypeOK
  BY <1>1, <1>2 DEF ControlInit, CallsTypeOK
<1>4. AwaitedIsHeld /\ OneAwaited
  BY <1>2 DEF AwaitedIsHeld, OneAwaited
<1>5. \A c \in Callers : call[c].phase = "idle" /\ call[c].sent = 0 /\ call[c].answer = "none"
  BY <1>1 DEF ControlInit
<1>6. SentOnce
  <2> SUFFICES ASSUME NEW c \in Callers PROVE Fresh(call[c]) /\ Counted(call[c])
    BY DEF SentOnce
  <2>1. call[c].sent = 0 /\ call[c].answer # "busy"
    BY <1>5
  <2>2. call[c].sent <= 1
    BY <2>1
  <2> QED
    BY <2>1, <2>2 DEF Fresh, Counted
<1>7. OneCallAtATime
  BY <1>5 DEF ControlInit, OneCallAtATime, Holding
<1> QED
  BY <1>3, <1>4, <1>6, <1>7 DEF CallsInv

\* A call that waits for no answer goes from one record to another: it keeps the invariant when
\* it takes the installation only while that is free, and gives it back when it leaves.
LEMMA CallMoves ==
  ASSUME CallsInv, NEW c \in Callers, NEW r \in CallRecords,
         call' = [call EXCEPT ![c] = r], accepted' = accepted, socket' = socket,
         call[c].phase # "wait", r.phase # "wait", Fresh(r), Counted(r), active' \in BOOLEAN,
         r.phase \in {"probe", "send"} => active' /\ (Holding(c) \/ ~active),
         r.phase \notin {"probe", "send"} => (active' <=> active /\ ~Holding(c))
  PROVE  CallsInv'
<1>1. call'[c] = r /\ \A d \in Callers : d # c => call'[d] = call[d]
  BY DEF CallsInv, CallsTypeOK
<1>2. CallsTypeOK'
  BY DEF CallsInv, CallsTypeOK
<1>3. OneAwaited'
  BY DEF CallsInv, OneAwaited
<1>4. AwaitedIsHeld'
  <2> SUFFICES ASSUME NEW i \in 1 .. Len(accepted), accepted[i].awaited
      PROVE call'[accepted[i].by].phase = "wait"
    BY DEF AwaitedIsHeld
  <2>1. accepted[i] \in Entries
    BY ElementOfSeq DEF CallsInv, CallsTypeOK
  <2>2. call[accepted[i].by].phase = "wait" /\ accepted[i].by \in Callers
    BY <2>1 DEF CallsInv, AwaitedIsHeld, Entries
  <2> QED
    BY <2>2, <1>1
<1>5. SentOnce'
  BY <1>1 DEF CallsInv, SentOnce
<1>6. \A d \in Callers : d # c => (Holding(d)' <=> Holding(d))
  BY <1>1 DEF Holding
<1>7. Holding(c)' <=> r.phase \in {"probe", "send"}
  BY <1>1 DEF Holding
<1>8. OneCallAtATime'
  <2>1. /\ active <=> \E d \in Callers : Holding(d)
        /\ \A d, e \in Callers : Holding(d) /\ Holding(e) => d = e
    BY DEF CallsInv, OneCallAtATime
  <2>2. CASE r.phase \in {"probe", "send"}
    <3>1. \A d \in Callers : Holding(d)' => d = c
      BY <1>6, <2>1, <2>2
    <3> QED
      BY <1>7, <2>2, <3>1 DEF OneCallAtATime
  <2>3. CASE r.phase \notin {"probe", "send"}
    <3>1. \A d \in Callers : Holding(d)' <=> Holding(d) /\ d # c
      BY <1>6, <1>7, <2>3
    <3>2. (active /\ ~Holding(c)) <=> \E d \in Callers : Holding(d) /\ d # c
      BY <2>1
    <3> QED
      BY <2>1, <2>3, <3>1, <3>2 DEF OneCallAtATime
  <2> QED
    BY <2>2, <2>3
<1> QED
  BY <1>2, <1>3, <1>4, <1>5, <1>8 DEF CallsInv

\* An answer, a timeout and a failure free the installation: the caller that is freed is the one
\* that held it, and nothing that LaunchServer has read is awaited any more.
LEMMA CallReleases ==
  ASSUME CallsInv, NEW c \in Callers, NEW a \in Answers \ {"busy"}, Released(c, a),
         call[c].phase = "wait", socket' \in BOOLEAN, accepted' \in Seq(Entries),
         \A i \in 1 .. Len(accepted') : ~accepted'[i].awaited
  PROVE  CallsInv'
<1>1. /\ call' = [call EXCEPT ![c] = [call[c] EXCEPT !.phase = "over", !.answer = a]]
      /\ active' = FALSE
  BY DEF Released, CallsInv, CallsTypeOK
<1>2. /\ call'[c].phase = "over" /\ call'[c].answer = a /\ call'[c].sent = call[c].sent
      /\ \A d \in Callers : d # c => call'[d] = call[d]
  BY <1>1 DEF CallsInv, CallsTypeOK
<1>3. CallsTypeOK'
  <2>1. call[c] \in CallRecords /\ "over" \in CallPhases /\ a \in Answers
    BY DEF CallsInv, CallsTypeOK, CallPhases
  <2>2. [call[c] EXCEPT !.phase = "over", !.answer = a] \in CallRecords
    BY <2>1 DEF CallRecords
  <2> QED
    BY <1>1, <2>2 DEF CallsInv, CallsTypeOK
<1>4. AwaitedIsHeld' /\ OneAwaited'
  BY DEF AwaitedIsHeld, OneAwaited
<1>5. SentOnce'
  <2>1. Fresh(call[c]) /\ Counted(call[c])
    BY DEF CallsInv, SentOnce
  <2>2. Fresh(call'[c]) /\ Counted(call'[c])
    BY <1>2, <2>1 DEF Fresh, Counted
  <2> QED
    BY <1>2, <2>2 DEF CallsInv, SentOnce
<1>6. OneCallAtATime'
  <2>1. Holding(c)
    BY DEF Holding
  <2>2. \A d \in Callers : d # c => ~Holding(d)
    BY <2>1 DEF CallsInv, OneCallAtATime
  <2>3. \A d \in Callers : ~Holding(d)'
    BY <1>2, <2>2 DEF Holding
  <2> QED
    BY <1>1, <2>3 DEF OneCallAtATime
<1> QED
  BY <1>3, <1>4, <1>5, <1>6 DEF CallsInv

\* Nothing that LaunchServer has read is awaited by anybody but the one caller that waits.
LEMMA WaitingIsAlone ==
  ASSUME CallsInv, NEW c \in Callers, Holding(c), NEW i \in 1 .. Len(accepted), accepted[i].awaited
  PROVE  accepted[i].by = c /\ call[c].phase = "wait"
<1>1. accepted[i] \in Entries
  BY ElementOfSeq DEF CallsInv, CallsTypeOK
<1>2. accepted[i].by \in Callers /\ call[accepted[i].by].phase = "wait"
  BY <1>1 DEF CallsInv, AwaitedIsHeld, Entries
<1>3. Holding(accepted[i].by)
  BY <1>2 DEF Holding
<1> QED
  BY <1>2, <1>3 DEF CallsInv, OneCallAtATime

\* The command line is written once: what is accepted is awaited by the caller that sent it.
LEMMA ConnectKeeps == ASSUME CallsInv, NEW c \in Callers, Connect(c) PROVE CallsInv'
<1>1. call[c].phase = "send" /\ active' = active /\ socket' = socket
  BY DEF Connect
<1>2. call[c] \in CallRecords /\ Holding(c) /\ active
  BY <1>1 DEF CallsInv, CallsTypeOK, OneCallAtATime, Holding
<1>3. CASE ~socket
  <2>1. call' = [call EXCEPT ![c] = [call[c] EXCEPT !.phase = "probe"]] /\ accepted' = accepted
    BY <1>3 DEF Connect, Phase, CallsInv, CallsTypeOK
  <2>2. /\ [call[c] EXCEPT !.phase = "probe"] \in CallRecords
        /\ [call[c] EXCEPT !.phase = "probe"].phase = "probe"
        /\ [call[c] EXCEPT !.phase = "probe"].sent = call[c].sent
        /\ [call[c] EXCEPT !.phase = "probe"].answer = call[c].answer
    BY <1>2 DEF CallRecords, CallPhases
  <2>3. Fresh(call[c]) /\ Counted(call[c])
    BY DEF CallsInv, SentOnce
  <2>4. Fresh([call[c] EXCEPT !.phase = "probe"]) /\ Counted([call[c] EXCEPT !.phase = "probe"])
    BY <1>1, <2>2, <2>3 DEF Fresh, Counted
  <2>5. active' \in BOOLEAN
    BY <1>1 DEF CallsInv, CallsTypeOK
  <2> QED
    BY <1>1, <1>2, <2>1, <2>2, <2>4, <2>5, CallMoves
<1>4. CASE socket
  <2> DEFINE new == [by |-> c, cmd |-> call[c].cmd, awaited |-> TRUE]
  <2>1. /\ call' = [call EXCEPT ![c] = [call[c] EXCEPT !.phase = "wait", !.sent = call[c].sent + 1]]
        /\ accepted' = Append(accepted, new)
    BY <1>4 DEF Connect, CallsInv, CallsTypeOK
  <2>2. new \in Entries /\ new.awaited /\ new.by = c
    BY <1>2 DEF CallRecords, Entries
  <2>3. call[c].sent = 0 /\ call[c].answer # "busy"
    BY <1>1 DEF CallsInv, SentOnce, Fresh, Counted
  <2>4. [call[c] EXCEPT !.phase = "wait", !.sent = call[c].sent + 1] \in CallRecords
    <3> DEFINE n == call[c].sent + 1
    <3>1. n \in Nat /\ "wait" \in CallPhases
      BY <2>3 DEF CallPhases
    <3> HIDE DEF n
    <3>2. [call[c] EXCEPT !.phase = "wait", !.sent = n] \in CallRecords
      BY <1>2, <3>1 DEF CallRecords
    <3> QED
      BY <3>2 DEF n
  <2>5. /\ call'[c].phase = "wait" /\ call'[c].sent = 1 /\ call'[c].answer = call[c].answer
        /\ \A d \in Callers : d # c => call'[d] = call[d]
    <3>1. call'[c] = [call[c] EXCEPT !.phase = "wait", !.sent = call[c].sent + 1]
      BY <2>1 DEF CallsInv, CallsTypeOK
    <3>2. call'[c].phase = "wait" /\ call'[c].answer = call[c].answer
      BY <1>2, <3>1 DEF CallRecords
    <3>3. call'[c].sent = 1
      BY <1>2, <2>3, <3>1 DEF CallRecords
    <3>4. \A d \in Callers : d # c => call'[d] = call[d]
      BY <2>1 DEF CallsInv, CallsTypeOK
    <3> QED
      BY <3>2, <3>3, <3>4
  <2>6. accepted' \in Seq(Entries) /\ Len(accepted') = Len(accepted) + 1 /\ Len(accepted) \in Nat
        /\ accepted'[Len(accepted) + 1] = new
        /\ \A i \in 1 .. Len(accepted) : accepted'[i] = accepted[i]
    BY <2>1, <2>2 DEF CallsInv, CallsTypeOK
  <2>7. \A i \in 1 .. Len(accepted) : ~accepted[i].awaited
    BY <1>1, <1>2, WaitingIsAlone
  <2>8. \A i \in 1 .. Len(accepted') : accepted'[i].awaited => i = Len(accepted) + 1
    BY <2>6, <2>7
  <2>9. CallsTypeOK'
    BY <1>1, <2>1, <2>4, <2>6 DEF CallsInv, CallsTypeOK
  <2>10. AwaitedIsHeld' /\ OneAwaited'
    BY <2>2, <2>5, <2>6, <2>8 DEF AwaitedIsHeld, OneAwaited
  <2>11. SentOnce'
    <3>1. Fresh(call'[c]) /\ Counted(call'[c])
      BY <2>3, <2>5 DEF Fresh, Counted
    <3> QED
      BY <2>5, <3>1 DEF CallsInv, SentOnce
  <2>12. OneCallAtATime'
    <3>1. \A d \in Callers : Holding(d)' <=> Holding(d)
      BY <1>1, <2>5 DEF Holding
    <3> QED
      BY <1>1, <3>1 DEF CallsInv, OneCallAtATime
  <2> QED
    BY <2>9, <2>10, <2>11, <2>12 DEF CallsInv
<1> QED
  BY <1>3, <1>4

\* A timeout frees the caller that waited, and what it sent is nobody's.
LEMMA TimeoutKeeps == ASSUME CallsInv, NEW c \in Callers, TimesOut(c) PROVE CallsInv'
<1>1. /\ call[c].phase = "wait" /\ Released(c, "error") /\ socket' = socket
      /\ accepted' = [i \in DOMAIN accepted |->
                         [accepted[i] EXCEPT !.awaited = accepted[i].awaited /\ accepted[i].by # c]]
  BY DEF TimesOut, AfterFailure, Orphaned
<1>2. Len(accepted) \in Nat /\ DOMAIN accepted = 1 .. Len(accepted)
  BY LenProperties DEF CallsInv, CallsTypeOK
<1>3. Holding(c)
  BY <1>1 DEF Holding
<1>4. \A i \in 1 .. Len(accepted) : accepted[i].awaited => accepted[i].by = c
  BY <1>3, WaitingIsAlone
<1>5. ASSUME NEW i \in 1 .. Len(accepted)
      PROVE  accepted'[i] \in Entries /\ ~accepted'[i].awaited
  <2>1. accepted[i] \in Entries
    BY ElementOfSeq DEF CallsInv, CallsTypeOK
  <2>2. accepted'[i] = [accepted[i] EXCEPT !.awaited = FALSE]
    BY <1>1, <1>2, <1>4
  <2> QED
    BY <2>1, <2>2 DEF Entries
<1>6. accepted' \in [1 .. Len(accepted) -> Entries]
  BY <1>1, <1>2, <1>5
<1>7. accepted' \in Seq(Entries) /\ Len(accepted') = Len(accepted)
  BY <1>2, <1>6, SeqDef
<1>8. "error" \in Answers \ {"busy"} /\ socket' \in BOOLEAN
  BY <1>1 DEF Answers, CallsInv, CallsTypeOK
<1> QED
  BY <1>1, <1>5, <1>7, <1>8, CallReleases

\* A command that ends frees whoever waits for it.
LEMMA AnswerKeeps ==
  ASSUME CallsInv, NEW a \in {"yes", "no", "rejected"}, Answered(a) PROVE CallsInv'
<1>1. /\ accepted # <<>> /\ accepted' = Tail(accepted) /\ socket' = socket
  BY DEF Answered
<1>2. /\ Tail(accepted) \in Seq(Entries) /\ Len(accepted) \in Nat \ {0}
      /\ Len(Tail(accepted)) = Len(accepted) - 1
      /\ \A i \in 1 .. Len(Tail(accepted)) : Tail(accepted)[i] = accepted[i + 1]
      /\ Head(accepted) = accepted[1] /\ Head(accepted) \in Entries
  BY <1>1, HeadTailProperties, EmptySeq DEF CallsInv, CallsTypeOK
<1>3. socket' \in BOOLEAN
  BY <1>1 DEF CallsInv, CallsTypeOK
<1>4. CASE Head(accepted).awaited
  <2> DEFINE c == Head(accepted).by
  <2>1. c \in Callers /\ call[c].phase = "wait"
    BY <1>2, <1>4 DEF Entries, CallsInv, AwaitedIsHeld
  <2>2. PICK b \in {a, "error"} : Released(c, b)
    BY <1>4 DEF Answered
  <2>3. \A i \in 1 .. Len(accepted') : ~accepted'[i].awaited
    BY <1>1, <1>2, <1>4 DEF CallsInv, OneAwaited
  <2>4. b \in Answers \ {"busy"}
    BY DEF Answers
  <2> HIDE DEF c
  <2> QED
    BY <1>1, <1>2, <1>3, <2>1, <2>2, <2>3, <2>4, CallReleases
<1>5. CASE ~Head(accepted).awaited
  <2>1. active' = active /\ call' = call
    BY <1>5 DEF Answered
  <2>2. CallsTypeOK'
    BY <1>1, <1>2, <2>1 DEF CallsInv, CallsTypeOK
  <2>3. AwaitedIsHeld' /\ OneAwaited'
    BY <1>1, <1>2, <2>1 DEF CallsInv, AwaitedIsHeld, OneAwaited
  <2>4. SentOnce' /\ OneCallAtATime'
    BY <2>1 DEF CallsInv, SentOnce, OneCallAtATime, Holding
  <2> QED
    BY <2>2, <2>3, <2>4 DEF CallsInv
<1> QED
  BY <1>4, <1>5

\* A LaunchServer that stops cuts the caller that waited off, and nobody else.
LEMMA StopKeeps == ASSUME CallsInv, Stops PROVE CallsInv'
<1> DEFINE cut == {c \in Callers : call[c].phase = "wait"}
<1>1. /\ socket' = FALSE /\ accepted' = <<>> /\ active' = (active /\ cut = {})
      /\ call' = [c \in Callers |-> IF c \in cut
                                    THEN [call[c] EXCEPT !.phase = "over", !.answer = "error"]
                                    ELSE call[c]]
  BY DEF Stops
<1>2. \A c \in Callers : call[c] \in CallRecords
  BY DEF CallsInv, CallsTypeOK
<1>3. ASSUME NEW c \in Callers
      PROVE  /\ call'[c] \in CallRecords /\ call'[c].sent = call[c].sent
             /\ c \in cut => call'[c].phase = "over" /\ call'[c].answer = "error"
             /\ c \notin cut => call'[c] = call[c]
  <2>1. CASE c \in cut
    <3>1. [call[c] EXCEPT !.phase = "over", !.answer = "error"] \in CallRecords
      BY <1>2 DEF CallRecords, CallPhases, Answers
    <3> QED
      BY <1>1, <1>2, <2>1, <3>1 DEF CallRecords
  <2>2. CASE c \notin cut
    BY <1>1, <1>2, <2>2
  <2> QED
    BY <2>1, <2>2
<1>4. CallsTypeOK'
  <2>1. accepted' \in Seq(Entries) /\ socket' \in BOOLEAN
    BY <1>1, EmptySeq
  <2>2. active' \in BOOLEAN
    BY <1>1
  <2>3. call' \in [Callers -> CallRecords]
    <3>1. call' = [c \in Callers |-> call'[c]]
      BY <1>1
    <3> QED
      BY <1>3, <3>1
  <2> QED
    BY <2>1, <2>2, <2>3 DEF CallsTypeOK
<1>5. AwaitedIsHeld' /\ OneAwaited'
  <2>1. Len(accepted') = 0
    BY <1>1
  <2> QED
    BY <2>1 DEF AwaitedIsHeld, OneAwaited
<1>6. SentOnce'
  <2> SUFFICES ASSUME NEW c \in Callers PROVE Fresh(call'[c]) /\ Counted(call'[c])
    BY DEF SentOnce
  <2>1. Fresh(call[c]) /\ Counted(call[c])
    BY DEF CallsInv, SentOnce
  <2> QED
    BY <1>3, <2>1 DEF Fresh, Counted
<1>7. OneCallAtATime'
  <2>1. \A c \in Callers : Holding(c)' <=> Holding(c) /\ c \notin cut
    BY <1>3 DEF Holding
  <2>2. \A c \in cut : Holding(c)
    BY DEF Holding
  <2>3. /\ active <=> \E c \in Callers : Holding(c)
        /\ \A c, d \in Callers : Holding(c) /\ Holding(d) => c = d
    BY DEF CallsInv, OneCallAtATime
  <2>4. active' <=> \E c \in Callers : Holding(c)'
    <3>1. CASE cut = {}
      BY <1>1, <2>1, <2>3, <3>1
    <3>2. CASE cut # {}
      <4>1. PICK d \in cut : TRUE
        BY <3>2
      <4>2. \A c \in Callers : ~Holding(c)'
        BY <2>1, <2>2, <2>3, <4>1
      <4> QED
        BY <1>1, <3>2, <4>2
    <3> QED
      BY <3>1, <3>2
  <2> QED
    BY <2>1, <2>3, <2>4 DEF OneCallAtATime
<1> QED
  BY <1>4, <1>5, <1>6, <1>7 DEF CallsInv

-----------------------------------------------------------------------------
\* A call starts, or is refused because another one is under way.
LEMMA AcquireKeeps ==
  ASSUME CallsInv, NEW c \in Callers, NEW cmd \in CommandNames, Acquire(c, cmd),
         call[c].phase \in {"idle", "remote"}, accepted' = accepted, socket' = socket
  PROVE  CallsInv'
<1>1. ~Holding(c) /\ active \in BOOLEAN /\ "probe" \in CallPhases /\ "over" \in CallPhases
      /\ "busy" \in Answers
  BY DEF Holding, CallsInv, CallsTypeOK, CallPhases, Answers
<1>2. CASE active
  <2> DEFINE r == [NoCall EXCEPT !.phase = "over", !.cmd = cmd, !.answer = "busy"]
  <2>1. r \in CallRecords
    BY <1>1, NoCallIsFresh DEF CallRecords
  <2>2. r.phase = "over" /\ Fresh(r) /\ Counted(r)
    <3>1. r.phase = "over" /\ r.sent = 0
      BY NoCallIsFresh DEF CallRecords
    <3> QED
      BY <3>1 DEF Fresh, Counted
  <2>3. call' = [call EXCEPT ![c] = r] /\ active' = active
    BY <1>2 DEF Acquire
  <2> HIDE DEF r
  <2> QED
    BY <1>1, <1>2, <2>1, <2>2, <2>3, CallMoves
<1>3. CASE ~active
  <2> DEFINE r == [NoCall EXCEPT !.phase = "probe", !.cmd = cmd]
  <2>1. r \in CallRecords
    BY <1>1, NoCallIsFresh DEF CallRecords
  <2>2. r.phase = "probe" /\ Fresh(r) /\ Counted(r)
    <3>1. r.phase = "probe" /\ r.sent = 0 /\ r.answer = "none"
      BY NoCallIsFresh DEF CallRecords
    <3> QED
      BY <3>1 DEF Fresh, Counted
  <2>3. call' = [call EXCEPT ![c] = r] /\ active' = TRUE
    BY <1>3 DEF Acquire
  <2> HIDE DEF r
  <2> QED
    BY <1>1, <1>3, <2>1, <2>2, <2>3, CallMoves
<1> QED
  BY <1>2, <1>3

\* An inspection over HTTP does not touch the socket.
LEMMA InspectKeeps == ASSUME CallsInv, NEW c \in Callers, Inspect(c) PROVE CallsInv'
<1> DEFINE r == [NoCall EXCEPT !.phase = "remote", !.cmd = "inspect"]
<1>1. r \in CallRecords
  BY NoCallIsFresh DEF CallRecords, CallPhases, CommandNames
<1>2. r.phase = "remote" /\ Fresh(r) /\ Counted(r)
  <2>1. r.phase = "remote" /\ r.sent = 0 /\ r.answer = "none"
    BY NoCallIsFresh DEF CallRecords
  <2> QED
    BY <2>1 DEF Fresh, Counted
<1>3. /\ call[c].phase = "idle" /\ call' = [call EXCEPT ![c] = r]
      /\ active' = active /\ accepted' = accepted /\ socket' = socket
  BY DEF Inspect
<1>4. ~Holding(c) /\ active \in BOOLEAN
  BY <1>3 DEF Holding, CallsInv, CallsTypeOK
<1> HIDE DEF r
<1> QED
  BY <1>1, <1>2, <1>3, <1>4, CallMoves

\* The answer over HTTP ends an inspection that never held the installation.
LEMMA RemoteKeeps == ASSUME CallsInv, NEW c \in Callers, RemoteEnds(c) PROVE CallsInv'
<1>1. call[c].phase = "remote" /\ accepted' = accepted /\ socket' = socket
  BY DEF RemoteEnds
<1>2. CASE Acquire(c, "inspect")
  BY <1>1, <1>2, AcquireKeeps DEF CommandNames
<1>3. CASE call' = [call EXCEPT ![c].phase = "over", ![c].answer = "yes"] /\ active' = active
  <2> DEFINE r == [call[c] EXCEPT !.phase = "over", !.answer = "yes"]
  <2>1. call[c] \in CallRecords /\ Fresh(call[c]) /\ Counted(call[c])
    BY DEF CallsInv, CallsTypeOK, SentOnce
  <2>2. r \in CallRecords
    BY <2>1 DEF CallRecords, CallPhases, Answers
  <2>3. r.phase = "over" /\ r.answer = "yes" /\ r.sent = call[c].sent
    BY <2>1 DEF CallRecords
  <2>4. Fresh(r) /\ Counted(r)
    BY <2>1, <2>3 DEF Fresh, Counted
  <2>5. call' = [call EXCEPT ![c] = r]
    BY <1>3 DEF CallsInv, CallsTypeOK
  <2>6. ~Holding(c) /\ active \in BOOLEAN
    BY <1>1 DEF Holding, CallsInv, CallsTypeOK
  <2> HIDE DEF r
  <2> QED
    BY <1>1, <1>3, <2>2, <2>3, <2>4, <2>5, <2>6, CallMoves
<1> QED
  BY <1>2, <1>3 DEF RemoteEnds

\* The socket is there, and the call goes on.
LEMMA ProbeKeeps == ASSUME CallsInv, NEW c \in Callers, Probe(c) PROVE CallsInv'
<1> DEFINE r == [call[c] EXCEPT !.phase = "send"]
<1>1. /\ call[c].phase = "probe" /\ active' = active /\ accepted' = accepted /\ socket' = socket
  BY DEF Probe
<1>2. call[c] \in CallRecords /\ Fresh(call[c]) /\ Counted(call[c])
  BY DEF CallsInv, CallsTypeOK, SentOnce
<1>3. /\ r \in CallRecords /\ r.phase = "send" /\ r.answer = call[c].answer
      /\ r.sent = call[c].sent
  BY <1>2 DEF CallRecords, CallPhases
<1>4. Fresh(r) /\ Counted(r)
  BY <1>1, <1>2, <1>3 DEF Fresh, Counted
<1>5. call' = [call EXCEPT ![c] = r]
  BY DEF Probe, Phase, CallsInv, CallsTypeOK
<1>6. Holding(c) /\ active /\ active \in BOOLEAN
  BY <1>1 DEF Holding, CallsInv, CallsTypeOK, OneCallAtATime
<1> HIDE DEF r
<1> QED
  BY <1>1, <1>3, <1>4, <1>5, <1>6, CallMoves

\* A call that fails before it connected frees the installation.
LEMMA FailureKeeps ==
  ASSUME CallsInv, NEW c \in Callers, call[c].phase = "probe", Released(c, "error"),
         accepted' = accepted, socket' = socket
  PROVE  CallsInv'
<1> DEFINE r == [call[c] EXCEPT !.phase = "over", !.answer = "error"]
<1>1. call[c] \in CallRecords /\ Fresh(call[c]) /\ Counted(call[c])
  BY DEF CallsInv, CallsTypeOK, SentOnce
<1>2. r \in CallRecords
  BY <1>1 DEF CallRecords, CallPhases, Answers
<1>3. r.phase = "over" /\ r.answer = "error" /\ r.sent = call[c].sent
  BY <1>1 DEF CallRecords
<1>4. Fresh(r) /\ Counted(r)
  BY <1>1, <1>3 DEF Fresh, Counted
<1>5. call' = [call EXCEPT ![c] = r] /\ active' = FALSE
  BY DEF Released, CallsInv, CallsTypeOK
<1>6. Holding(c) /\ active' \in BOOLEAN
  BY <1>5 DEF Holding
<1> HIDE DEF r
<1> QED
  BY <1>2, <1>3, <1>4, <1>5, <1>6, CallMoves

\* A caller that has read its answer may call again.
LEMMA TakenKeeps ==
  ASSUME CallsInv, NEW c \in Callers, call[c].phase = "over", call' = Taken(c),
         active' = active, accepted' = accepted, socket' = socket
  PROVE  CallsInv'
<1>1. /\ NoCall \in CallRecords /\ NoCall.phase = "idle" /\ Fresh(NoCall) /\ Counted(NoCall)
  BY DEF NoCall, CallRecords, CallPhases, CommandNames, Answers, Fresh, Counted
<1>2. call' = [call EXCEPT ![c] = NoCall]
  BY DEF Taken
<1>3. ~Holding(c) /\ active \in BOOLEAN
  BY DEF Holding, CallsInv, CallsTypeOK
<1> QED
  BY <1>1, <1>2, <1>3, CallMoves

\* A step that leaves the transport alone keeps what holds of it.
LEMMA AloneKeeps == ASSUME CallsInv, UNCHANGED controlVars PROVE CallsInv'
BY DEF controlVars, CallsInv, CallsTypeOK, AwaitedIsHeld, OneAwaited, SentOnce, OneCallAtATime,
       Holding

\* Every step keeps the invariant.
LEMMA CallsStep == CallsInv /\ [UsersNext]_usersVars => CallsInv'
<1> SUFFICES ASSUME CallsInv, [UsersNext]_usersVars PROVE CallsInv'
  OBVIOUS
<1>1. CASE UNCHANGED usersVars \/ RequestPage
  BY <1>1, AloneKeeps DEF usersVars, RequestPage
<1>2. CASE RunCommand
  <2>1. PICK a \in {"yes", "no", "rejected"} : Answered(a)
    BY <1>2 DEF RunCommand, Replies
  <2> QED
    BY <2>1, AnswerKeeps
<1>3. CASE ServerStops
  BY <1>3, StopKeeps DEF ServerStops
<1>4. CASE ServerStarts
  <2>1. socket' = TRUE /\ active' = active /\ call' = call /\ accepted' = accepted
    BY <1>4 DEF ServerStarts, Starts
  <2> QED
    BY <2>1 DEF CallsInv, CallsTypeOK, AwaitedIsHeld, OneAwaited, SentOnce, OneCallAtATime, Holding
<1>5. ASSUME NEW j \in AccountJobs, RequestAccount(j) \/ CancelAccount(j) PROVE CallsInv'
  BY <1>5, AloneKeeps DEF RequestAccount, CancelAccount
<1>6. ASSUME NEW c \in Callers, SendCommand(c) PROVE CallsInv'
  <2>1. CASE StepAt(c) \in Commands /\ Execute(c, StepAt(c))
    <3>1. /\ Acquire(c, StepAt(c)) /\ call[c].phase = "idle"
          /\ accepted' = accepted /\ socket' = socket
      BY <2>1 DEF Execute
    <3>2. StepAt(c) \in CommandNames
      BY <2>1 DEF CommandNames
    <3> QED
      BY <3>1, <3>2, AcquireKeeps
  <2>2. CASE Inspect(c)
    BY <2>2, InspectKeeps
  <2> QED
    BY <1>6, <2>1, <2>2 DEF SendCommand
<1>7. ASSUME NEW c \in Callers, TakeAnswer(c) PROVE CallsInv'
  BY <1>7, TakenKeeps DEF TakeAnswer
<1>8. ASSUME NEW c \in Callers, ReadDatabase(c) \/ WriteDatabase(c) \/ VolumeFails(c)
      PROVE  CallsInv'
  BY <1>8, AloneKeeps DEF ReadDatabase, WriteDatabase, VolumeFails
<1>9. ASSUME NEW c \in Callers, Calling(c) PROVE CallsInv'
  <2>1. CASE RemoteEnds(c) \/ Probe(c) \/ Connect(c) \/ TimesOut(c)
    BY <2>1, RemoteKeeps, ProbeKeeps, ConnectKeeps, TimeoutKeeps
  <2>2. CASE ProbeFails(c) \/ GiveUp(c)
    BY <2>2, FailureKeeps DEF ProbeFails, GiveUp
  <2> QED
    BY <1>9, <2>1, <2>2 DEF Calling
<1> QED
  BY <1>1, <1>2, <1>3, <1>4, <1>5, <1>6, <1>7, <1>8, <1>9 DEF UsersNext

\* LaunchServer gets one command at a time and each of them once, for any number of jobs,
\* accounts, lists, cancellations and stops of LaunchServer.
THEOREM OneCommandAtATime == UsersSpec => []ControlInv
<1>1. UsersInit => CallsInv
  BY CallsStart
<1>2. CallsInv /\ [UsersNext]_usersVars => CallsInv'
  BY CallsStep
<1>3. CallsInv => ControlInv
  BY CallsInvSuffices
<1> QED
  BY <1>1, <1>2, <1>3, PTL DEF UsersSpec

-----------------------------------------------------------------------------
(* The accounts.  The argument: what LaunchServer has read of a job that is over changes only *)
(* the account of that job, of which nothing is reported; and once a job has been answered,   *)
(* LaunchServer has run everything that was sent before.                                      *)

Contents == [Names -> Nat]

AccountRecords ==
    [op : {"none", "over"} \cup DOMAIN Plans, name : Names \cup {"none"}, at : 0 .. 4,
     copy : {<<>>} \cup Contents, aborted : BOOLEAN]

\* A job is at a step of its plan, or looks again at what it registered.
Doing(c) ==
    /\ Busy(c) => /\ work[c].at \in 0 .. Len(Plans[work[c].op])
                  /\ work[c].at = 0 => work[c].op = "create"
    /\ c \in AccountJobs =>
          /\ work[c].op \notin {"list", "inspect"}
          /\ work[c].op # "none" => work[c].name \in Names
          /\ work[c].op = "delete" /\ work[c].at = 3 => work[c].copy \in Contents
    /\ c = Listing => /\ work[c].op \in {"none", "over", "list", "inspect"}
                      /\ work[c].op = "list" => "list" \in events

AccountsTypeOK ==
    /\ memory \in Contents /\ disk \in Contents /\ said \in Contents
    /\ work \in [Callers -> AccountRecords]
    /\ \A c \in Callers : Doing(c)

\* A call is that of the step where its caller is, and a command is of somebody who had begun.
CalledFor(c) ==
    /\ call[c].phase # "idle" =>
          Busy(c) /\ call[c].cmd = StepAt(c) /\ call[c].cmd \in Commands \cup {"inspect"}
    /\ call[c].phase = "remote" => call[c].cmd = "inspect"

SentFor(e) ==
    /\ work[e.by].op # "none"
    /\ e.awaited => e.cmd = call[e.by].cmd
    /\ e.by = Listing => e.cmd \in {"save", "inspect"} /\ (e.cmd = "save" => "list" \in events)

SentByPlan ==
    /\ \A c \in Callers : CalledFor(c)
    /\ \A i \in 1 .. Len(accepted) : SentFor(accepted[i])

Undisturbed == events \subseteq {"list", "inspect", "cancel"}
Unlisted    == events \subseteq {"inspect", "cancel"}

Kept(m) == said[m] \in AccountJobs \/ (Unlisted /\ said[m] = 0)

Heard(c) == call[c].phase = "over" /\ call[c].answer \in {"yes", "no", "rejected"}
Agrees(c) == call[c].phase = "over" /\ call[c].answer = "yes"

\* LaunchServer has nothing left of jobs before j.
Clear(j) ==
    /\ Busy(j)
    /\ IF work[j].at = 1 THEN Heard(j)
       ELSE work[j].at > 1 /\ (call[j].phase = "over" => Heard(j))

OnlyIts(j) ==
    \A i \in 1 .. Len(accepted) :
       accepted[i].by = Listing \/ (accepted[i].by = j /\ accepted[i].awaited)

OneJob == \A j, k \in AccountJobs : Busy(j) /\ Busy(k) => j = k

NothingSaid ==
    /\ \A j \in AccountJobs : Busy(j) => said[work[j].name] = Unsaid
    /\ \A i \in 1 .. Len(accepted) :
          accepted[i].cmd \in {"register", "change"} => said[work[accepted[i].by].name] = Unsaid

InTurn ==
    /\ \A j \in AccountJobs : Clear(j) => OnlyIts(j)
    /\ \A i, k \in 1 .. Len(accepted) :
          accepted[i].by # Listing /\ accepted[i].awaited /\ i < k => accepted[k].by = Listing

\* What a job has done so far.
Registered(j) ==
    /\ work[j].at = 2 /\ Agrees(j) => memory[work[j].name] = j
    /\ work[j].at = 3 /\ Clear(j)  => memory[work[j].name] = j
    /\ work[j].at = 3 /\ Agrees(j) => disk[work[j].name] = j

Removed(j) ==
    /\ work[j].at = 3 => /\ work[j].copy[work[j].name] = 0
                         /\ \A m \in Names : Kept(m) => work[j].copy[m] = said[m]
    /\ work[j].at = 4 /\ Clear(j) /\ Unlisted  => disk[work[j].name] = 0
    /\ work[j].at = 4 /\ Agrees(j) /\ Unlisted => memory[work[j].name] = 0

Done(j) ==
    /\ work[j].op \in {"create", "change"} => Registered(j)
    /\ work[j].op = "delete" => Removed(j)

Told ==
    /\ \A m \in Names : Kept(m) => memory[m] = said[m] /\ disk[m] = said[m]
    /\ \A j \in AccountJobs : Done(j)

AccountInv ==
    /\ CallsInv /\ AccountsTypeOK /\ SentByPlan
    /\ Undisturbed => OneJob /\ NothingSaid /\ InTurn /\ Told

LEMMA CallersAre ==
  /\ \A j \in AccountJobs : j \in Callers /\ j # Listing /\ j \in Nat /\ j # 0 /\ j # Unsaid
  /\ \A c \in Callers : c = Listing \/ c \in AccountJobs
  /\ Listing \in Callers
BY AccountsAssumption DEF Unsaid

LEMMA PlansAre ==
  /\ DOMAIN Plans = {"create", "change", "delete", "list", "inspect"}
  /\ Plans["create"][1] = "exists" /\ Plans["create"][2] = "register" /\ Plans["create"][3] = "save"
  /\ Plans["change"][1] = "exists" /\ Plans["change"][2] = "change" /\ Plans["change"][3] = "save"
  /\ Plans["delete"][1] = "save" /\ Plans["delete"][2] = "read" /\ Plans["delete"][3] = "write"
  /\ Plans["delete"][4] = "reload"
  /\ Plans["list"][1] = "save" /\ Plans["list"][2] = "read" /\ Plans["inspect"][1] = "inspect"
  /\ Len(Plans["create"]) = 3 /\ Len(Plans["change"]) = 3 /\ Len(Plans["delete"]) = 4
  /\ Len(Plans["list"]) = 2 /\ Len(Plans["inspect"]) = 1
BY DEF Plans, RegisterAccount, RemoveAccount

LEMMA WorkIsOf ==
  ASSUME AccountsTypeOK, NEW c \in Callers
  PROVE  /\ work[c] \in AccountRecords /\ Doing(c) /\ work[c].aborted \in BOOLEAN
         /\ work[c].at \in 0 .. 4 /\ work[c].name \in Names \cup {"none"}
         /\ Busy(c) <=> work[c].op \in {"create", "change", "delete", "list", "inspect"}
BY PlansAre DEF AccountsTypeOK, AccountRecords, Busy

\* Where somebody is who has come to a step.
LEMMA StepAtIs ==
  ASSUME AccountsTypeOK, NEW c \in Callers, Busy(c),
         NEW o, o = work[c].op, NEW i, i = work[c].at
  PROVE  /\ StepAt(c) = "recheck" <=> i = 0
         /\ i = 0 => o = "create"
         /\ StepAt(c) = "exists"   => o \in {"create", "change"} /\ i = 1
         /\ StepAt(c) = "register" => o = "create" /\ i = 2
         /\ StepAt(c) = "change"   => o = "change" /\ i = 2
         /\ StepAt(c) = "save"     => (o \in {"create", "change"} /\ i = 3)
                                      \/ (o \in {"delete", "list"} /\ i = 1)
         /\ StepAt(c) = "read"     => o \in {"delete", "list"} /\ i = 2
         /\ StepAt(c) = "write"    => o = "delete" /\ i = 3
         /\ StepAt(c) = "reload"   => o = "delete" /\ i = 4
         /\ StepAt(c) = "inspect"  => o = "inspect" /\ i = 1
         /\ StepAt(c) \in {"recheck", "exists", "register", "change", "save", "read", "write",
                           "reload", "inspect"}
         /\ Len(Plans[o]) = CASE o \in {"create", "change"} -> 3 [] o = "delete" -> 4
                              [] o = "list" -> 2 [] OTHER -> 1
         /\ i \in 0 .. Len(Plans[o])
<1>1. /\ o \in {"create", "change", "delete", "list", "inspect"}
      /\ i \in 0 .. Len(Plans[o]) /\ (i = 0 => o = "create")
      /\ StepAt(c) = IF i = 0 THEN "recheck" ELSE Plans[o][i]
  BY WorkIsOf DEF Doing, StepAt
<1>2. CASE o = "create"
  <2>1. i = 0 \/ i = 1 \/ i = 2 \/ i = 3
    BY <1>1, <1>2, PlansAre
  <2> QED
    BY <1>1, <1>2, <2>1, PlansAre
<1>3. CASE o = "change"
  <2>1. i = 1 \/ i = 2 \/ i = 3
    BY <1>1, <1>3, PlansAre
  <2> QED
    BY <1>1, <1>3, <2>1, PlansAre
<1>4. CASE o = "delete"
  <2>1. i = 1 \/ i = 2 \/ i = 3 \/ i = 4
    BY <1>1, <1>4, PlansAre
  <2> QED
    BY <1>1, <1>4, <2>1, PlansAre
<1>5. CASE o = "list"
  <2>1. i = 1 \/ i = 2
    BY <1>1, <1>5, PlansAre
  <2> QED
    BY <1>1, <1>5, <2>1, PlansAre
<1>6. CASE o = "inspect"
  <2>1. i = 1
    BY <1>1, <1>6, PlansAre
  <2> QED
    BY <1>1, <1>6, <2>1, PlansAre
<1> QED
  BY <1>1, <1>2, <1>3, <1>4, <1>5, <1>6

\* Who waits is alone with what it sent.
LEMMA WaiterIs ==
  ASSUME AccountInv, NEW i \in 1 .. Len(accepted)
  PROVE  /\ accepted[i] \in Entries /\ accepted[i].by \in Callers /\ SentFor(accepted[i])
         /\ accepted[i].awaited \in BOOLEAN
         /\ accepted[i].awaited => call[accepted[i].by].phase = "wait"
<1>1. accepted[i] \in Entries
  BY ElementOfSeq DEF AccountInv, CallsInv, CallsTypeOK
<1> QED
  BY <1>1 DEF AccountInv, SentByPlan, CallsInv, AwaitedIsHeld, Entries

\* A caller that does not wait and has got no answer goes on, or fails.
LEMMA CallGoesOn ==
  ASSUME AccountInv, CallsInv', NEW c \in Callers, NEW r, call' = [call EXCEPT ![c] = r],
         Busy(c), call[c].phase \notin {"wait", "over"}, r.phase \notin {"idle", "wait"},
         r.cmd = StepAt(c), r.cmd \in Commands \cup {"inspect"},
         r.phase = "remote" => r.cmd = "inspect",
         c # Listing /\ r.phase = "over" => r.answer \in {"error", "busy"},
         accepted' = accepted, UNCHANGED accountVars
  PROVE  AccountInv'
<1>1. call'[c] = r /\ \A d \in Callers : d # c => call'[d] = call[d]
  BY DEF AccountInv, CallsInv, CallsTypeOK
<1>2. UNCHANGED <<memory, disk, work, said, events>>
  BY DEF accountVars
<1>3. AccountsTypeOK'
  BY <1>2 DEF AccountInv, AccountsTypeOK, Doing, Busy
<1>4. \A d \in Callers : /\ Busy(d)' <=> Busy(d)
                         /\ StepAt(d)' = StepAt(d)
  BY <1>2 DEF Busy, StepAt
<1>5. ASSUME NEW i \in 1 .. Len(accepted) PROVE SentFor(accepted[i])' /\ (accepted[i].awaited => accepted[i].by # c)
  <2>1. accepted[i].awaited => accepted[i].by # c
    BY WaiterIs
  <2> QED
    BY <1>1, <1>2, <2>1, WaiterIs DEF SentFor
<1>6. SentByPlan'
  <2>1. \A d \in Callers : CalledFor(d)'
    <3> SUFFICES ASSUME NEW d \in Callers PROVE CalledFor(d)'
      OBVIOUS
    <3>1. CASE d = c
      BY <1>1, <1>4, <3>1 DEF CalledFor
    <3>2. CASE d # c
      BY <1>1, <1>4, <3>2 DEF CalledFor, AccountInv, SentByPlan
    <3> QED
      BY <3>1, <3>2
  <2> QED
    BY <1>5, <2>1 DEF SentByPlan
<1>7. ASSUME Undisturbed' PROVE (OneJob /\ NothingSaid /\ InTurn /\ Told)'
  <2>1. OneJob /\ NothingSaid /\ InTurn /\ Told
    BY <1>2, <1>7 DEF AccountInv, Undisturbed
  <2>2. OneJob' /\ NothingSaid'
    BY <1>2, <1>4, <2>1, CallersAre DEF OneJob, NothingSaid
  <2>3. \A j \in AccountJobs : /\ Heard(j)' => Heard(j)
                               /\ Agrees(j)' => Agrees(j)
                               /\ Clear(j)' => Clear(j)
    <3> SUFFICES ASSUME NEW j \in AccountJobs
        PROVE (Heard(j)' => Heard(j)) /\ (Agrees(j)' => Agrees(j)) /\ (Clear(j)' => Clear(j))
      OBVIOUS
    <3>1. CASE j = c
      <4>1. ~Heard(j)' /\ ~Agrees(j)'
        BY <1>1, <3>1, CallersAre DEF Heard, Agrees
      <4> QED
        BY <1>2, <1>4, <3>1, <4>1 DEF Clear
    <3>2. CASE j # c
      BY <1>1, <1>2, <1>4, <3>2, CallersAre DEF Heard, Agrees, Clear
    <3> QED
      BY <3>1, <3>2
  <2>4. InTurn'
    BY <2>1, <2>3 DEF InTurn, OnlyIts
  <2>5. Told'
    <3>1. \A m : Kept(m)' <=> Kept(m)
      BY <1>2 DEF Kept, Unlisted
    <3>2. \A m \in Names : Kept(m)' => memory'[m] = said'[m] /\ disk'[m] = said'[m]
      BY <1>2, <2>1, <3>1 DEF Told
    <3>3. ASSUME NEW j \in AccountJobs PROVE Done(j)'
      <4>1. Done(j)
        BY <2>1 DEF Told
      <4> QED
        BY <1>2, <2>3, <3>1, <4>1 DEF Done, Registered, Removed, Unlisted
    <3> QED
      BY <3>2, <3>3 DEF Told
  <2> QED
    BY <2>2, <2>4, <2>5
<1> QED
  BY <1>3, <1>6, <1>7 DEF AccountInv

\* A command that LaunchServer reads is the last one of a job, and of a job that is under way.
LEMMA ConnectAdds == ASSUME AccountInv, CallsInv', NEW c \in Callers, Connect(c), UNCHANGED accountVars
                     PROVE AccountInv'
<1>1. call[c].phase = "send" /\ call[c] \in CallRecords
  BY DEF Connect, AccountInv, CallsInv, CallsTypeOK
<1>2. Busy(c) /\ CalledFor(c) /\ call[c].cmd = StepAt(c) /\ call[c].cmd \in Commands \cup {"inspect"}
  BY <1>1 DEF AccountInv, SentByPlan, CalledFor
<1>3. CASE ~socket
  <2> DEFINE r == [call[c] EXCEPT !.phase = "probe"]
  <2>1. call' = [call EXCEPT ![c] = r] /\ accepted' = accepted
    BY <1>3 DEF Connect, Phase, AccountInv, CallsInv, CallsTypeOK
  <2>2. r.phase = "probe" /\ r.cmd = call[c].cmd
    BY <1>1 DEF CallRecords
  <2> HIDE DEF r
  <2> QED
    BY <1>1, <1>2, <2>1, <2>2, CallGoesOn
<1>4. CASE socket
  <2>0. [by |-> c, cmd |-> call[c].cmd, awaited |-> TRUE] \in Entries
    BY <1>1 DEF Entries, CallRecords
  <2>20. PICK new \in Entries : new = [by |-> c, cmd |-> call[c].cmd, awaited |-> TRUE]
    BY <2>0
  <2>21. PICK n : n = Len(accepted)
    OBVIOUS
  <2>1. accepted' = Append(accepted, new) /\ accepted \in Seq(Entries)
    BY <1>4, <2>20 DEF Connect, AccountInv, CallsInv, CallsTypeOK
  <2>2. /\ call'[c].phase = "wait" /\ call'[c].cmd = call[c].cmd
        /\ \A d \in Callers : d # c => call'[d] = call[d]
    <3>1. /\ call'[c] = [call[c] EXCEPT !.phase = "wait", !.sent = call[c].sent + 1]
          /\ \A d \in Callers : d # c => call'[d] = call[d]
      BY <1>4 DEF Connect, AccountInv, CallsInv, CallsTypeOK
    <3> QED
      BY <1>1, <3>1 DEF CallRecords
  <2>3. n \in Nat /\ Len(accepted') = n + 1 /\ accepted'[n + 1] = new
        /\ \A i \in 1 .. n : accepted'[i] = accepted[i]
    BY <2>1, <2>21
  <2>4. new.by = c /\ new.awaited /\ new.cmd = call[c].cmd
    BY <2>20
  <2>5. UNCHANGED <<memory, disk, work, said, events>>
    BY DEF accountVars
  <2>6. \A d \in Callers : (Busy(d)' <=> Busy(d)) /\ StepAt(d)' = StepAt(d)
    BY <2>5 DEF Busy, StepAt
  <2>7. AccountsTypeOK'
    BY <2>5 DEF AccountInv, AccountsTypeOK, Doing, Busy
  <2>8. \A i \in 1 .. n : accepted[i].by \in Callers /\ (accepted[i].awaited => accepted[i].by # c)
    BY <1>1, WaiterIs, <2>21
  <2>9. \A i \in 1 .. n + 1 : i \in 1 .. n \/ i = n + 1
    BY <2>3
  <2>10. SentByPlan'
    <3>1. ASSUME NEW d \in Callers PROVE CalledFor(d)'
      <4>1. CalledFor(d)
        BY DEF AccountInv, SentByPlan
      <4>2. CASE d = c
        BY <1>2, <2>2, <2>6, <4>2 DEF CalledFor
      <4>3. CASE d # c
        BY <2>2, <2>6, <4>1, <4>3 DEF CalledFor
      <4> QED
        BY <4>2, <4>3
    <3>2. SentFor(accepted[n + 1])'
      <4>1. work[c].op # "none"
        BY <1>2, WorkIsOf DEF AccountInv
      <4>2. ASSUME c = Listing
            PROVE  call[c].cmd \in {"save", "inspect"} /\ (call[c].cmd = "save" => "list" \in events)
        <5>1. Doing(c) /\ AccountsTypeOK
          BY WorkIsOf DEF AccountInv
        <5>2. work[c].op \in {"list", "inspect"} /\ (work[c].op = "list" => "list" \in events)
          BY <1>2, <4>2, <5>1, WorkIsOf DEF Doing
        <5> QED
          BY <1>2, <5>1, <5>2, StepAtIs DEF Commands
      <4> QED
        BY <2>2, <2>3, <2>4, <2>5, <4>1, <4>2 DEF SentFor
    <3>3. ASSUME NEW i \in 1 .. n PROVE SentFor(accepted[i])'
      <4>1. SentFor(accepted[i])
        BY WaiterIs, <2>21
      <4> QED
        BY <2>2, <2>5, <2>8, <4>1, <2>3 DEF SentFor
    <3>4. \A i \in 1 .. n + 1 : SentFor(accepted[i])'
      BY <2>9, <3>2, <3>3
    <3> QED
      BY <2>3, <3>1, <3>4 DEF SentByPlan
  <2>11. ASSUME Undisturbed' PROVE (OneJob /\ NothingSaid /\ InTurn /\ Told)'
    <3>1. OneJob /\ NothingSaid /\ InTurn /\ Told
      BY <2>5, <2>11 DEF AccountInv, Undisturbed
    <3>2. OneJob'
      BY <2>5, <2>6, <3>1, CallersAre DEF OneJob
    <3>3. NothingSaid'
      <4>1. \A j \in AccountJobs : Busy(j)' => said'[work'[j].name] = Unsaid
        BY <2>5, <2>6, <3>1, CallersAre DEF NothingSaid
      <4>2. new.cmd \in {"register", "change"} => said[work[c].name] = Unsaid
        <5> SUFFICES ASSUME new.cmd \in {"register", "change"} PROVE said[work[c].name] = Unsaid
          OBVIOUS
        <5>1. work[c].op \in {"create", "change"}
          BY <1>2, <2>4, StepAtIs DEF AccountInv
        <5>2. c \in AccountJobs
          BY <5>1, WorkIsOf, CallersAre DEF Doing, AccountInv
        <5> QED
          BY <1>2, <3>1, <5>2 DEF NothingSaid
      <4>3. \A i \in 1 .. n : accepted'[i].cmd \in {"register", "change"} =>
                                 said[work[accepted'[i].by].name] = Unsaid
        BY <2>3, <3>1, <2>21 DEF NothingSaid
      <4> QED
        BY <2>3, <2>4, <2>5, <2>9, <4>1, <4>2, <4>3 DEF NothingSaid
    <3>4. \A j \in AccountJobs : /\ Heard(j)' => Heard(j)
                                 /\ Agrees(j)' => Agrees(j)
                                 /\ Clear(j)' => Clear(j)
      <4> SUFFICES ASSUME NEW j \in AccountJobs
          PROVE (Heard(j)' => Heard(j)) /\ (Agrees(j)' => Agrees(j)) /\ (Clear(j)' => Clear(j))
        OBVIOUS
      <4>1. CASE j = c
        <5>1. ~Heard(j)' /\ ~Agrees(j)'
          BY <2>2, <4>1 DEF Heard, Agrees
        <5> QED
          BY <1>1, <2>2, <2>5, <2>6, <4>1, <5>1 DEF Clear
      <4>2. CASE j # c
        BY <2>2, <2>5, <2>6, <4>2, CallersAre DEF Heard, Agrees, Clear
      <4> QED
        BY <4>1, <4>2
    <3>5. InTurn'
      <4>1. ASSUME NEW j \in AccountJobs, Clear(j)' PROVE OnlyIts(j)'
        <5>1. OnlyIts(j) /\ Busy(j)
          BY <3>1, <3>4, <4>1 DEF InTurn, Clear
        <5>2. c # Listing => c = j
          BY <1>2, <3>1, <5>1, CallersAre DEF OneJob
        <5>3. \A i \in 1 .. n : accepted'[i].by = Listing \/ (accepted'[i].by = j /\ accepted'[i].awaited)
          BY <2>3, <5>1, <2>21 DEF OnlyIts
        <5> QED
          BY <2>3, <2>4, <2>9, <5>2, <5>3 DEF OnlyIts
      <4>2. ASSUME NEW i \in 1 .. n + 1, NEW k \in 1 .. n + 1, accepted'[i].by # Listing,
                   accepted'[i].awaited, i < k
            PROVE  accepted'[k].by = Listing
        <5>1. i \in 1 .. n
          BY <2>3, <4>2
        <5>2. CASE k \in 1 .. n
          BY <2>3, <3>1, <4>2, <5>1, <5>2, <2>21 DEF InTurn
        <5>3. CASE k = n + 1
          <6> DEFINE d == accepted[i].by
          <6>1. d \in Callers /\ d # Listing /\ d # c /\ call[d].phase = "wait"
            BY <2>3, <2>8, <4>2, <5>1, WaiterIs, <2>21
          <6>2. Busy(d)
            BY <6>1 DEF AccountInv, SentByPlan, CalledFor
          <6> HIDE DEF d
          <6>3. c = Listing
            BY <1>2, <3>1, <6>1, <6>2, CallersAre DEF OneJob
          <6> QED
            BY <2>3, <2>4, <5>3, <6>3
        <5> QED
          BY <2>9, <5>2, <5>3
      <4> QED
        BY <2>3, <4>1, <4>2 DEF InTurn
    <3>6. Told'
      <4>1. \A m : Kept(m)' <=> Kept(m)
        BY <2>5 DEF Kept, Unlisted
      <4>2. \A m \in Names : Kept(m)' => memory'[m] = said'[m] /\ disk'[m] = said'[m]
        BY <2>5, <3>1, <4>1 DEF Told
      <4>3. ASSUME NEW j \in AccountJobs PROVE Done(j)'
        <5>1. Done(j)
          BY <3>1 DEF Told
        <5> QED
          BY <2>5, <3>4, <4>1, <5>1 DEF Done, Registered, Removed, Unlisted
      <4> QED
        BY <4>2, <4>3 DEF Told
    <3> QED
      BY <3>2, <3>3, <3>5, <3>6
  <2> QED
    BY <2>7, <2>10, <2>11 DEF AccountInv
<1> QED
  BY <1>3, <1>4

\* What a caller gives up is not awaited any more, and what is said of it stays unsaid.
LEMMA GivenUpKeeps == ASSUME AccountInv, CallsInv', NEW c \in Callers, TimesOut(c), UNCHANGED accountVars
                      PROVE AccountInv'
<1>1. /\ call[c].phase = "wait" /\ call[c] \in CallRecords /\ call \in [Callers -> CallRecords]
      /\ call' = [call EXCEPT ![c] = [call[c] EXCEPT !.phase = "over", !.answer = "error"]]
  BY DEF TimesOut, AfterFailure, Released, AccountInv, CallsInv, CallsTypeOK
<1>2. /\ call'[c].phase = "over" /\ call'[c].cmd = call[c].cmd /\ call'[c].answer = "error"
      /\ \A d \in Callers : d # c => call'[d] = call[d]
  <2>1. call'[c] = [call[c] EXCEPT !.phase = "over", !.answer = "error"]
    BY <1>1
  <2> QED
    BY <1>1, <2>1 DEF CallRecords
<1>3. UNCHANGED <<memory, disk, work, said, events>>
  BY DEF accountVars
<1>4. DOMAIN accepted = 1 .. Len(accepted) /\ Len(accepted) \in Nat
  BY LenProperties DEF AccountInv, CallsInv, CallsTypeOK
<1>5. accepted' = [i \in 1 .. Len(accepted) |->
                      [accepted[i] EXCEPT !.awaited = accepted[i].awaited /\ accepted[i].by # c]]
  BY <1>4 DEF TimesOut, Orphaned
<1>6. Len(accepted') = Len(accepted)
  <2>1. accepted' \in Seq(Entries)
    BY DEF CallsInv, CallsTypeOK
  <2>2. DOMAIN accepted' = 1 .. Len(accepted') /\ Len(accepted') \in Nat
    BY <2>1, LenProperties
  <2> QED
    BY <1>4, <1>5, <2>2
<1>7. ASSUME NEW i \in 1 .. Len(accepted)
      PROVE  /\ accepted'[i].by = accepted[i].by /\ accepted'[i].cmd = accepted[i].cmd
             /\ accepted'[i].awaited => accepted[i].awaited
             /\ accepted[i].awaited /\ accepted[i].by # c => accepted'[i].awaited
             /\ accepted'[i].awaited => accepted[i].by # c
  <2>1. accepted'[i] = [accepted[i] EXCEPT !.awaited = accepted[i].awaited /\ accepted[i].by # c]
    BY <1>5
  <2>2. accepted[i] \in Entries
    BY WaiterIs
  <2> QED
    BY <2>1, <2>2 DEF Entries
<1>8. AccountsTypeOK'
  BY <1>3 DEF AccountInv, AccountsTypeOK, Doing, Busy
<1>9. \A d \in Callers : (Busy(d)' <=> Busy(d)) /\ StepAt(d)' = StepAt(d)
  BY <1>3 DEF Busy, StepAt
<1>10. SentByPlan'
  <2>1. ASSUME NEW d \in Callers PROVE CalledFor(d)'
    <3>1. CalledFor(d)
      BY DEF AccountInv, SentByPlan
    <3>2. CASE d = c
      BY <1>1, <1>2, <1>9, <3>1, <3>2 DEF CalledFor
    <3>3. CASE d # c
      BY <1>2, <1>9, <3>1, <3>3 DEF CalledFor
    <3> QED
      BY <3>2, <3>3
  <2>2. ASSUME NEW i \in 1 .. Len(accepted) PROVE SentFor(accepted[i])'
    BY <1>2, <1>3, <1>7, WaiterIs DEF SentFor
  <2> QED
    BY <1>6, <2>1, <2>2 DEF SentByPlan
<1>11. ASSUME Undisturbed' PROVE (OneJob /\ NothingSaid /\ InTurn /\ Told)'
  <2>1. OneJob /\ NothingSaid /\ InTurn /\ Told
    BY <1>3, <1>11 DEF AccountInv, Undisturbed
  <2>2. OneJob'
    BY <1>3, <1>9, <2>1, CallersAre DEF OneJob
  <2>3. NothingSaid'
    BY <1>3, <1>6, <1>7, <1>9, <2>1, CallersAre DEF NothingSaid
  <2>4. \A j \in AccountJobs : /\ Heard(j)' => Heard(j)
                               /\ Agrees(j)' => Agrees(j)
                               /\ Clear(j)' => Clear(j) /\ j # c
    <3> SUFFICES ASSUME NEW j \in AccountJobs
        PROVE  /\ Heard(j)' => Heard(j)
               /\ Agrees(j)' => Agrees(j)
               /\ Clear(j)' => Clear(j) /\ j # c
      OBVIOUS
    <3>1. CASE j = c
      <4>1. ~Heard(j)' /\ ~Agrees(j)'
        BY <1>2, <3>1 DEF Heard, Agrees
      <4> QED
        BY <1>2, <1>9, <3>1, <4>1 DEF Clear
    <3>2. CASE j # c
      BY <1>2, <1>3, <1>9, <3>2, CallersAre DEF Heard, Agrees, Clear
    <3> QED
      BY <3>1, <3>2
  <2>5. InTurn'
    <3>1. ASSUME NEW j \in AccountJobs, Clear(j)' PROVE OnlyIts(j)'
      BY <1>6, <1>7, <2>1, <2>4, <3>1 DEF InTurn, OnlyIts
    <3>2. ASSUME NEW i \in 1 .. Len(accepted), NEW k \in 1 .. Len(accepted),
                 accepted'[i].by # Listing, accepted'[i].awaited, i < k
          PROVE  accepted'[k].by = Listing
      BY <1>7, <2>1, <3>2 DEF InTurn
    <3> QED
      BY <1>6, <3>1, <3>2 DEF InTurn
  <2>6. Told'
    <3>1. \A m : Kept(m)' <=> Kept(m)
      BY <1>3 DEF Kept, Unlisted
    <3>2. \A m \in Names : Kept(m)' => memory'[m] = said'[m] /\ disk'[m] = said'[m]
      BY <1>3, <2>1, <3>1 DEF Told
    <3>3. ASSUME NEW j \in AccountJobs PROVE Done(j)'
      <4>1. Done(j)
        BY <2>1 DEF Told
      <4> QED
        BY <1>3, <2>4, <3>1, <4>1 DEF Done, Registered, Removed, Unlisted
    <3> QED
      BY <3>2, <3>3 DEF Told
  <2> QED
    BY <2>2, <2>3, <2>5, <2>6
<1> QED
  BY <1>8, <1>10, <1>11 DEF AccountInv

\* Every step of a call that waits for no answer of LaunchServer keeps what holds of accounts.
LEMMA CallingKeeps ==
  ASSUME AccountInv, CallsInv', NEW c \in Callers, Calling(c) PROVE AccountInv'
<1>1. /\ UNCHANGED accountVars /\ call \in [Callers -> CallRecords] /\ call[c] \in CallRecords
      /\ CalledFor(c)
  BY DEF Calling, AccountInv, CallsInv, CallsTypeOK, SentByPlan
<1>2. CASE RemoteEnds(c)
  <2>1. /\ call[c].phase = "remote" /\ accepted' = accepted /\ Busy(c)
        /\ call[c].cmd = "inspect" /\ StepAt(c) = "inspect"
    BY <1>1, <1>2 DEF RemoteEnds, CalledFor
  <2>2. c = Listing
    <3>1. work[c].op = "inspect"
      BY <2>1, StepAtIs DEF AccountInv
    <3> QED
      BY <3>1, WorkIsOf, CallersAre DEF Doing, AccountInv
  <2>3. PICK r \in CallRecords : /\ call' = [call EXCEPT ![c] = r]
                                 /\ r.cmd = "inspect" /\ r.phase \in {"over", "probe"}
    <3>1. CASE call' = [call EXCEPT ![c].phase = "over", ![c].answer = "yes"]
      <4> DEFINE r == [call[c] EXCEPT !.phase = "over", !.answer = "yes"]
      <4>1. call' = [call EXCEPT ![c] = r]
        BY <1>1, <3>1
      <4>2. r \in CallRecords /\ r.cmd = "inspect" /\ r.phase = "over"
        BY <1>1, <2>1 DEF CallRecords, CallPhases, Answers
      <4> HIDE DEF r
      <4> QED
        BY <4>1, <4>2
    <3>2. CASE Acquire(c, "inspect") /\ active
      <4> DEFINE r == [NoCall EXCEPT !.phase = "over", !.cmd = "inspect", !.answer = "busy"]
      <4>1. call' = [call EXCEPT ![c] = r]
        BY <3>2 DEF Acquire
      <4>2. r \in CallRecords /\ r.cmd = "inspect" /\ r.phase = "over"
        BY NoCallIsFresh DEF CallRecords, CallPhases, Answers, CommandNames
      <4> HIDE DEF r
      <4> QED
        BY <4>1, <4>2
    <3>3. CASE Acquire(c, "inspect") /\ ~active
      <4> DEFINE r == [NoCall EXCEPT !.phase = "probe", !.cmd = "inspect"]
      <4>1. call' = [call EXCEPT ![c] = r]
        BY <3>3 DEF Acquire
      <4>2. r \in CallRecords /\ r.cmd = "inspect" /\ r.phase = "probe"
        BY NoCallIsFresh DEF CallRecords, CallPhases, Answers, CommandNames
      <4> HIDE DEF r
      <4> QED
        BY <4>1, <4>2
    <3> QED
      BY <1>2, <3>1, <3>2, <3>3 DEF RemoteEnds
  <2> QED
    BY <1>1, <2>1, <2>2, <2>3, CallGoesOn
<1>3. CASE Probe(c)
  <2> DEFINE r == [call[c] EXCEPT !.phase = "send"]
  <2>1. call' = [call EXCEPT ![c] = r] /\ accepted' = accepted /\ call[c].phase = "probe"
    BY <1>1, <1>3 DEF Probe, Phase
  <2>2. r.phase = "send" /\ r.cmd = call[c].cmd
    BY <1>1 DEF CallRecords
  <2> HIDE DEF r
  <2> QED
    BY <1>1, <2>1, <2>2, CallGoesOn DEF CalledFor
<1>4. CASE ProbeFails(c) \/ GiveUp(c)
  <2> DEFINE r == [call[c] EXCEPT !.phase = "over", !.answer = "error"]
  <2>1. call' = [call EXCEPT ![c] = r] /\ accepted' = accepted /\ call[c].phase = "probe"
    BY <1>1, <1>4 DEF ProbeFails, GiveUp, Released
  <2>2. r.phase = "over" /\ r.cmd = call[c].cmd /\ r.answer = "error"
    BY <1>1 DEF CallRecords
  <2> HIDE DEF r
  <2> QED
    BY <1>1, <2>1, <2>2, CallGoesOn DEF CalledFor
<1> QED
  BY <1>1, <1>2, <1>3, <1>4, ConnectAdds, GivenUpKeeps DEF Calling

\* A call begins with the command of the step where its caller is.
LEMMA SendKeeps == ASSUME AccountInv, CallsInv', NEW c \in Callers, SendCommand(c) PROVE AccountInv'
<1>1. UNCHANGED accountVars /\ Busy(c) /\ call[c].phase = "idle" /\ accepted' = accepted
  BY DEF SendCommand, Execute, Inspect
<1>2. CASE StepAt(c) = "inspect" /\ Inspect(c)
  <2> DEFINE r == [NoCall EXCEPT !.phase = "remote", !.cmd = "inspect"]
  <2>1. call' = [call EXCEPT ![c] = r]
    BY <1>2 DEF Inspect
  <2>2. r.cmd = "inspect" /\ r.phase = "remote"
    BY NoCallIsFresh DEF CallRecords
  <2> HIDE DEF r
  <2> QED
    BY <1>1, <1>2, <2>1, <2>2, CallGoesOn
<1>3. CASE StepAt(c) \in Commands /\ Acquire(c, StepAt(c)) /\ active
  <2> DEFINE r == [NoCall EXCEPT !.phase = "over", !.cmd = StepAt(c), !.answer = "busy"]
  <2>1. call' = [call EXCEPT ![c] = r]
    BY <1>3 DEF Acquire
  <2>2. r.cmd = StepAt(c) /\ r.phase = "over" /\ r.answer = "busy"
    BY NoCallIsFresh DEF CallRecords
  <2> HIDE DEF r
  <2> QED
    BY <1>1, <1>3, <2>1, <2>2, CallGoesOn
<1>4. CASE StepAt(c) \in Commands /\ Acquire(c, StepAt(c)) /\ ~active
  <2> DEFINE r == [NoCall EXCEPT !.phase = "probe", !.cmd = StepAt(c)]
  <2>1. call' = [call EXCEPT ![c] = r]
    BY <1>4 DEF Acquire
  <2>2. r.cmd = StepAt(c) /\ r.phase = "probe"
    BY NoCallIsFresh DEF CallRecords
  <2> HIDE DEF r
  <2> QED
    BY <1>1, <1>4, <2>1, <2>2, CallGoesOn
<1> QED
  BY <1>2, <1>3, <1>4 DEF SendCommand, Execute

-----------------------------------------------------------------------------
\* The work of one caller goes from one record to another, and its call is over or was none.
WorkBecomes(c, w) ==
    /\ w \in AccountRecords /\ work' \in [Callers -> AccountRecords]
    /\ work'[c] = w /\ \A d \in Callers : d # c => work'[d] = work[d]
    /\ w.name = work[c].name /\ w.aborted = work[c].aborted /\ w.op # "none"

Rests(c) ==
    /\ call[c].phase # "wait" /\ call'[c].phase = "idle"
    /\ \A d \in Callers : d # c => call'[d] = call[d]
    /\ accepted' = accepted /\ events' = events

LEMMA LeaveIs ==
  ASSUME AccountsTypeOK, NEW c \in Callers, Leave(c)
  PROVE  \E w : WorkBecomes(c, w) /\ w.op = "over"
<1> DEFINE v == [work[c] EXCEPT !.op = "over"]
           u == [v EXCEPT !.at = 0]
           w == [u EXCEPT !.copy = <<>>]
<1>1. work[c] \in AccountRecords /\ work \in [Callers -> AccountRecords]
  BY DEF AccountsTypeOK
<1>2. work' = [work EXCEPT ![c] = w]
  BY <1>1 DEF Leave
<1>3. /\ v \in AccountRecords /\ v.op = "over" /\ v.name = work[c].name
      /\ v.aborted = work[c].aborted
  BY <1>1 DEF AccountRecords
<1> HIDE DEF v
<1>4. /\ u \in AccountRecords /\ u.op = "over" /\ u.name = work[c].name
      /\ u.aborted = work[c].aborted
  BY <1>3 DEF AccountRecords
<1> HIDE DEF u
<1>5. /\ w \in AccountRecords /\ w.op = "over" /\ w.name = work[c].name
      /\ w.aborted = work[c].aborted
  BY <1>4 DEF AccountRecords
<1> HIDE DEF w
<1>6. WorkBecomes(c, w)
  BY <1>1, <1>2, <1>5 DEF WorkBecomes
<1> QED
  BY <1>5, <1>6

LEMMA NextIs ==
  ASSUME AccountsTypeOK, NEW c \in Callers, NEW copy \in {<<>>} \cup Contents,
         work[c].at \in 0 .. 3, work[c].op # "none",
         work' = [work EXCEPT ![c].at = @ + 1, ![c].copy = copy]
  PROVE  \E w : /\ WorkBecomes(c, w) /\ w.op = work[c].op /\ w.at = work[c].at + 1 /\ w.copy = copy
<1> DEFINE n == work[c].at + 1
           u == [work[c] EXCEPT !.at = n]
           w == [u EXCEPT !.copy = copy]
<1>1. work[c] \in AccountRecords /\ work \in [Callers -> AccountRecords] /\ n \in 0 .. 4
  BY DEF AccountsTypeOK
<1>2. work' = [work EXCEPT ![c] = w]
  BY <1>1
<1> HIDE DEF n
<1>3. /\ u \in AccountRecords /\ u.op = work[c].op /\ u.name = work[c].name
      /\ u.aborted = work[c].aborted /\ u.at = n
  BY <1>1 DEF AccountRecords
<1> HIDE DEF u
<1>4. /\ w \in AccountRecords /\ w.op = work[c].op /\ w.name = work[c].name
      /\ w.aborted = work[c].aborted /\ w.at = n /\ w.copy = copy
  BY <1>3 DEF AccountRecords
<1> HIDE DEF w
<1>5. WorkBecomes(c, w)
  BY <1>1, <1>2, <1>4 DEF WorkBecomes
<1> QED
  BY <1>4, <1>5 DEF n

\* What a caller sent stays its own when it goes on without a call.
LEMMA RestKeeps ==
  ASSUME AccountInv, NEW c \in Callers, NEW w, WorkBecomes(c, w), Rests(c), Doing(c)',
         memory' \in Contents, disk' \in Contents, said' \in Contents
  PROVE  AccountsTypeOK' /\ SentByPlan'
<1>1. \A d \in Callers : d # c => /\ work'[d] = work[d] /\ call'[d] = call[d]
                                  /\ Busy(d)' <=> Busy(d)
                                  /\ StepAt(d)' = StepAt(d)
  BY DEF WorkBecomes, Rests, Busy, StepAt
<1>2. events' = events /\ accepted' = accepted /\ call'[c].phase = "idle" /\ call[c].phase # "wait"
  BY DEF Rests
<1>3. AccountsTypeOK'
  <2>1. ASSUME NEW d \in Callers, d # c PROVE Doing(d)'
    BY <1>1, <1>2, <2>1, WorkIsOf DEF AccountInv, Doing
  <2> QED
    BY <2>1 DEF AccountsTypeOK, WorkBecomes
<1>4. ASSUME NEW d \in Callers PROVE CalledFor(d)'
  <2>1. CASE d = c
    BY <1>2, <2>1 DEF CalledFor
  <2>2. CASE d # c
    BY <1>1, <2>2 DEF CalledFor, AccountInv, SentByPlan
  <2> QED
    BY <2>1, <2>2
<1>5. ASSUME NEW i \in 1 .. Len(accepted) PROVE SentFor(accepted[i])'
  <2>1. /\ accepted[i].by \in Callers /\ SentFor(accepted[i])
        /\ accepted[i].awaited => accepted[i].by # c
    BY <1>2, WaiterIs
  <2>2. CASE accepted[i].by = c
    BY <1>2, <2>1, <2>2 DEF SentFor, WorkBecomes
  <2>3. CASE accepted[i].by # c
    BY <1>1, <1>2, <2>1, <2>3 DEF SentFor
  <2> QED
    BY <2>2, <2>3
<1> QED
  BY <1>2, <1>3, <1>4, <1>5 DEF SentByPlan

\* The others are not disturbed by it either.
LEMMA OthersStay ==
  ASSUME AccountInv, NEW c \in Callers, NEW w, WorkBecomes(c, w), Rests(c), Undisturbed,
         Busy(c), Busy(c)' => w.op = work[c].op
  PROVE  /\ OneJob /\ NothingSaid /\ InTurn /\ Told /\ OneJob'
         /\ \A d \in Callers : d # c =>
               /\ (Busy(d)' <=> Busy(d)) /\ (Clear(d)' <=> Clear(d)) /\ (Agrees(d)' <=> Agrees(d))
         /\ \A j \in AccountJobs : j # c => work'[j].op = work[j].op /\ (c # Listing => ~Busy(j))
         /\ \A i \in 1 .. Len(accepted) : work'[accepted[i].by].name = work[accepted[i].by].name
<1>1. OneJob /\ NothingSaid /\ InTurn /\ Told
  BY DEF AccountInv
<1>2. \A d \in Callers : d # c => work'[d] = work[d] /\ call'[d] = call[d]
  BY DEF WorkBecomes, Rests
<1>3. \A d \in Callers : d # c => Busy(d)' <=> Busy(d)
  BY <1>2 DEF Busy
<1>4. \A d \in Callers : d # c => (Clear(d)' <=> Clear(d)) /\ (Agrees(d)' <=> Agrees(d))
  BY <1>2, <1>3 DEF Clear, Heard, Agrees
<1>5. OneJob'
  <2>1. \A d \in Callers : Busy(d)' => Busy(d)
    BY <1>3
  <2> QED
    BY <1>1, <2>1, CallersAre DEF OneJob
<1>6. \A j \in AccountJobs : j # c => work'[j].op = work[j].op /\ (c # Listing => ~Busy(j))
  BY <1>1, <1>2, CallersAre DEF OneJob
<1>7. \A i \in 1 .. Len(accepted) : work'[accepted[i].by].name = work[accepted[i].by].name
  BY <1>2, WaiterIs DEF WorkBecomes
<1> QED
  BY <1>1, <1>3, <1>4, <1>5, <1>6, <1>7

\* Who leaves, or looks again, reports nothing.
LEMMA OutKeeps ==
  ASSUME AccountInv, CallsInv', NEW c \in Callers, NEW w, WorkBecomes(c, w), Rests(c), Busy(c),
         w.op = "over" \/ (w.op = work[c].op /\ w.op = "create" /\ w.at = 0),
         UNCHANGED <<memory, said>>, disk' \in Contents, c = Listing => disk' = disk,
         Undisturbed => \A m \in Names : Kept(m) => disk'[m] = disk[m]
  PROVE  AccountInv'
<1>1. work'[c] = w /\ events' = events /\ accepted' = accepted /\ call'[c].phase = "idle"
  BY DEF WorkBecomes, Rests
<1>2. Doing(c)'
  <2>1. w.op = "over" => ~Busy(c)'
    BY <1>1, PlansAre DEF Busy
  <2>2. Doing(c) /\ (Busy(c) <=> work[c].op \in DOMAIN Plans)
    BY WorkIsOf DEF AccountInv, Busy
  <2>3. c \in AccountJobs => w.name \in Names
    <3>1. work[c].op # "none"
      BY WorkIsOf DEF AccountInv
    <3> QED
      BY <2>2, <3>1 DEF Doing, WorkBecomes
  <2>4. CASE w.op = "over"
    BY <1>1, <2>1, <2>3, <2>4 DEF Doing
  <2>5. CASE w.op = "create" /\ w.at = 0 /\ w.op = work[c].op
    <3>1. c # Listing
      BY <2>2, <2>5 DEF Doing
    <3> QED
      BY <1>1, <2>3, <2>5, <3>1, PlansAre DEF Doing
  <2> QED
    BY <2>4, <2>5
<1>3. AccountsTypeOK' /\ SentByPlan'
  BY <1>2, RestKeeps DEF AccountInv, AccountsTypeOK
<1>4. ASSUME Undisturbed' PROVE (OneJob /\ NothingSaid /\ InTurn /\ Told)'
  <2>1. Undisturbed
    BY <1>1, <1>4 DEF Undisturbed
  <2>2. Busy(c)' => w.op = work[c].op
    BY <1>1, PlansAre DEF Busy
  <2>3. /\ OneJob /\ NothingSaid /\ InTurn /\ Told /\ OneJob'
        /\ \A d \in Callers : d # c =>
              /\ (Busy(d)' <=> Busy(d)) /\ (Clear(d)' <=> Clear(d)) /\ (Agrees(d)' <=> Agrees(d))
        /\ \A i \in 1 .. Len(accepted) : work'[accepted[i].by].name = work[accepted[i].by].name
        /\ \A d \in Callers : d # c => work'[d] = work[d]
    BY <2>1, <2>2, OthersStay DEF WorkBecomes
  <2>4. ~Clear(c)' /\ ~Agrees(c)'
    BY <1>1, PlansAre DEF Clear, Agrees, Busy
  <2>5. NothingSaid'
    <3>1. ASSUME NEW j \in AccountJobs, Busy(j)' PROVE said[work'[j].name] = Unsaid
      <4>1. Busy(j) /\ work'[j].name = work[j].name
        BY <2>3, <3>1, CallersAre DEF WorkBecomes
      <4> QED
        BY <2>3, <4>1 DEF NothingSaid
    <3> QED
      BY <1>1, <2>3, <3>1 DEF NothingSaid
  <2>6. InTurn'
    <3>1. \A j \in AccountJobs : Clear(j)' => Clear(j)
      BY <2>3, <2>4, CallersAre
    <3> QED
      BY <1>1, <2>3, <3>1 DEF InTurn, OnlyIts
  <2>7. Told'
    <3>1. \A m : Kept(m)' <=> Kept(m)
      BY <1>1 DEF Kept, Unlisted
    <3>2. ASSUME NEW j \in AccountJobs PROVE Done(j)'
      <4>1. CASE j = c
        BY <1>1, <2>4, <4>1 DEF Done, Registered, Removed
      <4>2. CASE j # c
        <5>1. CASE c = Listing
          BY <1>1, <2>3, <3>1, <4>2, <5>1, CallersAre DEF Told, Done, Registered, Removed, Unlisted
        <5>2. CASE c # Listing
          <6>1. ~Busy(j)'
            BY <2>1, <2>2, <2>3, <4>2, <5>2, OthersStay, CallersAre
          <6> QED
            BY <6>1, PlansAre DEF Busy, Done
        <5> QED
          BY <5>1, <5>2
      <4> QED
        BY <4>1, <4>2
    <3>3. \A m \in Names : Kept(m) => disk'[m] = disk[m]
      BY <2>1
    <3> QED
      BY <2>3, <3>1, <3>2, <3>3 DEF Told
  <2> QED
    BY <2>3, <2>5, <2>6, <2>7
<1> QED
  BY <1>3, <1>4 DEF AccountInv

\* Who goes on has been answered, and has done what its step is for.
LEMMA OnwardKeeps ==
  ASSUME AccountInv, CallsInv', NEW c \in Callers, NEW w, WorkBecomes(c, w), Rests(c), Busy(c),
         w.op = work[c].op, w.at = work[c].at + 1, work[c].at \in 1 .. Len(Plans[w.op]) - 1,
         w.op = "delete" /\ w.at = 3 => w.copy \in Contents,
         c # Listing => Clear(c), memory' = memory, said' = said, disk' \in Contents,
         Undisturbed => /\ c # Listing => Done(c)'
                        /\ c = Listing => disk' = disk
                        /\ \A m \in Names : Kept(m) => disk'[m] = disk[m]
  PROVE  AccountInv'
<1>1. work'[c] = w /\ events' = events /\ accepted' = accepted /\ call'[c].phase = "idle"
  BY DEF WorkBecomes, Rests
<1>2. Doing(c)'
  <2>1. Doing(c) /\ AccountsTypeOK /\ Len(Plans[w.op]) \in Nat
    BY WorkIsOf, StepAtIs, PlansAre DEF AccountInv
  <2>2. w.at \in 0 .. Len(Plans[w.op]) /\ w.at # 0
    BY <2>1
  <2> QED
    BY <1>1, <2>1, <2>2 DEF Doing, WorkBecomes
<1>3. AccountsTypeOK' /\ SentByPlan'
  BY <1>2, RestKeeps DEF AccountInv, AccountsTypeOK
<1>4. ASSUME Undisturbed' PROVE (OneJob /\ NothingSaid /\ InTurn /\ Told)'
  <2>1. Undisturbed
    BY <1>1, <1>4 DEF Undisturbed
  <2>3. /\ OneJob /\ NothingSaid /\ InTurn /\ Told /\ OneJob'
        /\ \A d \in Callers : d # c =>
              /\ (Busy(d)' <=> Busy(d)) /\ (Clear(d)' <=> Clear(d)) /\ (Agrees(d)' <=> Agrees(d))
        /\ \A i \in 1 .. Len(accepted) : work'[accepted[i].by].name = work[accepted[i].by].name
        /\ \A d \in Callers : d # c => work'[d] = work[d]
        /\ \A j \in AccountJobs : j # c /\ c # Listing => ~Busy(j)
    BY <2>1, OthersStay DEF WorkBecomes
  <2>5. NothingSaid'
    <3>1. ASSUME NEW j \in AccountJobs, Busy(j)' PROVE said[work'[j].name] = Unsaid
      <4>1. Busy(j) /\ work'[j].name = work[j].name
        BY <2>3, <3>1, CallersAre DEF WorkBecomes
      <4> QED
        BY <2>3, <4>1 DEF NothingSaid
    <3> QED
      BY <1>1, <2>3, <3>1 DEF NothingSaid
  <2>6. InTurn'
    <3>1. \A j \in AccountJobs : Clear(j)' => Clear(j)
      BY <2>3, CallersAre
    <3> QED
      BY <1>1, <2>3, <3>1 DEF InTurn, OnlyIts
  <2>7. Told'
    <3>1. \A m : Kept(m)' <=> Kept(m)
      BY <1>1 DEF Kept, Unlisted
    <3>2. ASSUME NEW j \in AccountJobs PROVE Done(j)'
      <4>1. CASE j = c
        BY <2>1, <4>1, CallersAre
      <4>2. CASE j # c /\ c = Listing
        BY <1>1, <2>1, <2>3, <3>1, <4>2, CallersAre DEF Told, Done, Registered, Removed, Unlisted
      <4>3. CASE j # c /\ c # Listing
        <5>1. ~Busy(j) /\ work'[j] = work[j]
          BY <2>3, <4>3, CallersAre
        <5> QED
          BY <5>1, PlansAre DEF Done, Busy
      <4> QED
        BY <4>1, <4>2, <4>3
    <3> QED
      BY <2>1, <2>3, <3>1, <3>2 DEF Told
  <2> QED
    BY <2>3, <2>5, <2>6, <2>7
<1> QED
  BY <1>3, <1>4 DEF AccountInv

LEMMA BeforeTheEnd == \A n \in 1 .. 4 : \A i \in 1 .. n : i < n => i \in 0 .. 3
OBVIOUS

LEMMA AnsweredIsClear ==
  ASSUME NEW c \in Callers, Busy(c), Agrees(c), work[c].at = 3 \/ work[c].at = 4
  PROVE  Clear(c)
<1>1. Heard(c)
  BY DEF Heard, Agrees
<1>2. work[c].at # 1 /\ work[c].at > 1
  OBVIOUS
<1> QED
  BY <1>1, <1>2 DEF Clear

\* Who reports has been answered by a LaunchServer that has nothing left about its account.
LEMMA ReportKeeps ==
  ASSUME AccountInv, CallsInv', NEW c \in AccountJobs, NEW w, WorkBecomes(c, w), Rests(c), Busy(c),
         w.op = "over", Agrees(c), work[c].at = Len(Plans[work[c].op]), UNCHANGED <<memory, disk>>,
         NEW v, v = IF work[c].op = "delete" THEN 0 ELSE c,
         said' = [said EXCEPT ![work[c].name] = v]
  PROVE  AccountInv'
<1>1. /\ work'[c] = w /\ events' = events /\ accepted' = accepted /\ call'[c].phase = "idle"
      /\ c \in Callers /\ c # Listing /\ c \in Nat /\ c # 0
  BY CallersAre DEF WorkBecomes, Rests
<1>2. /\ work[c].op \in {"create", "change", "delete"} /\ work[c].name \in Names /\ Doing(c)
      /\ (work[c].op # "delete" => work[c].at = 3) /\ (work[c].op = "delete" => work[c].at = 4)
  BY <1>1, WorkIsOf, StepAtIs DEF AccountInv, Doing
<1>3. /\ said \in Contents /\ said' \in Contents /\ said'[work[c].name] = v
      /\ \A m \in Names : m # work[c].name => said'[m] = said[m]
  <2>1. said \in Contents /\ v \in Nat
    BY <1>1 DEF AccountInv, AccountsTypeOK
  <2> QED
    BY <1>2, <2>1 DEF Contents
<1>4. ~Busy(c)'
  BY <1>1, PlansAre DEF Busy
<1>5. Doing(c)'
  BY <1>1, <1>2, <1>4 DEF Doing, WorkBecomes
<1>6. AccountsTypeOK' /\ SentByPlan'
  BY <1>1, <1>3, <1>5, RestKeeps DEF AccountInv, AccountsTypeOK
<1>7. Clear(c)
  BY <1>1, <1>2, AnsweredIsClear
<1>8. ASSUME Undisturbed' PROVE (OneJob /\ NothingSaid /\ InTurn /\ Told)'
  <2>1. Undisturbed
    BY <1>1, <1>8 DEF Undisturbed
  <2>2. /\ OneJob /\ NothingSaid /\ InTurn /\ Told /\ OneJob'
        /\ \A d \in Callers : d # c =>
              /\ (Busy(d)' <=> Busy(d)) /\ (Clear(d)' <=> Clear(d)) /\ (Agrees(d)' <=> Agrees(d))
        /\ \A i \in 1 .. Len(accepted) : work'[accepted[i].by].name = work[accepted[i].by].name
        /\ \A j \in AccountJobs : j # c => work'[j].op = work[j].op /\ ~Busy(j)
    BY <1>1, <1>4, <2>1, OthersStay
  <2>3. \A j \in AccountJobs : ~Busy(j)'
    BY <1>4, <2>2, CallersAre
  <2>4. \A i \in 1 .. Len(accepted) : accepted[i].cmd \notin {"register", "change"}
    <3> SUFFICES ASSUME NEW i \in 1 .. Len(accepted) PROVE accepted[i].cmd \notin {"register", "change"}
      OBVIOUS
    <3>2. accepted[i].by = Listing \/ (accepted[i].by = c /\ accepted[i].awaited)
      BY <1>7, <2>2 DEF InTurn, OnlyIts
    <3>3. accepted[i].by = Listing
      BY <3>2, WaiterIs DEF Agrees
    <3> QED
      BY <3>3, WaiterIs DEF SentFor
  <2>5. NothingSaid'
    BY <1>1, <2>3, <2>4 DEF NothingSaid
  <2>6. InTurn'
    <3>1. \A j \in AccountJobs : ~Clear(j)'
      BY <2>3 DEF Clear
    <3> QED
      BY <1>1, <2>2, <3>1 DEF InTurn
  <2>7. Told'
    <3>1. ASSUME NEW m \in Names, Kept(m)' PROVE memory[m] = said'[m] /\ disk[m] = said'[m]
      <4>1. CASE m # work[c].name
        BY <1>1, <1>3, <2>2, <3>1, <4>1 DEF Told, Kept, Unlisted
      <4>2. CASE m = work[c].name /\ work[c].op # "delete"
        <5>1. Registered(c) /\ work[c].at = 3 /\ Clear(c)
          BY <1>2, <1>7, <2>2, <4>2 DEF Told, Done
        <5> QED
          BY <1>3, <4>2, <5>1 DEF Registered
      <4>3. CASE m = work[c].name /\ work[c].op = "delete"
        <5>1. Removed(c) /\ work[c].at = 4 /\ Clear(c)
          BY <1>2, <1>7, <2>2, <4>3 DEF Told, Done
        <5>2. said'[m] = 0 /\ Unlisted
          BY <1>1, <1>3, <3>1, <4>3, CallersAre DEF Kept, Unlisted
        <5> QED
          BY <4>3, <5>1, <5>2 DEF Removed
      <4> QED
        BY <4>1, <4>2, <4>3
    <3>2. ASSUME NEW j \in AccountJobs PROVE Done(j)'
      BY <2>3, PlansAre DEF Done, Busy
    <3> QED
      BY <3>1, <3>2 DEF Told
  <2> QED
    BY <2>2, <2>5, <2>6, <2>7
<1> QED
  BY <1>6, <1>8 DEF AccountInv

\* A step that went well: the next one, or the end.
LEMMA OntoKeeps ==
  ASSUME AccountInv, CallsInv', NEW c \in Callers, NEW copy \in {<<>>} \cup Contents, Onto(c, copy),
         Rests(c), Busy(c), c # Listing => Clear(c), work[c].at # 0,
         c # Listing /\ work[c].at = Len(Plans[work[c].op]) => Agrees(c),
         work[c].op = "delete" /\ work[c].at = 2 => copy \in Contents,
         memory' = memory, disk' \in Contents,
         work[c].op # "delete" \/ work[c].at # 3 => disk' = disk,
         Undisturbed => \A m \in Names : Kept(m) => disk'[m] = disk[m],
         c # Listing /\ Undisturbed =>
            /\ work[c].op = "create" \/ work[c].op = "change" =>
                  (work[c].at = 2 => memory[work[c].name] = c)
            /\ work[c].op = "delete" /\ work[c].at = 2 =>
                  /\ copy[work[c].name] = 0
                  /\ \A m \in Names : Kept(m) => copy[m] = said[m]
            /\ work[c].op = "delete" /\ work[c].at = 3 => disk'[work[c].name] = 0
  PROVE  AccountInv'
<1>1. work[c].at \in 1 .. Len(Plans[work[c].op]) /\ Len(Plans[work[c].op]) \in 1 .. 4
      /\ work[c].at \in 1 .. 4 /\ work[c].op # "none"
  <2>1. AccountsTypeOK /\ work[c].at \in 0 .. 4 /\ work[c].op # "none"
    BY WorkIsOf DEF AccountInv
  <2>2. Len(Plans[work[c].op]) \in 1 .. 4 /\ work[c].at \in 0 .. Len(Plans[work[c].op])
    <3>1. \/ Len(Plans[work[c].op]) = 3 \/ Len(Plans[work[c].op]) = 4
          \/ Len(Plans[work[c].op]) = 2 \/ Len(Plans[work[c].op]) = 1
      BY <2>1, StepAtIs
    <3>2. work[c].at \in 0 .. Len(Plans[work[c].op])
      BY <2>1, StepAtIs
    <3> QED
      BY <3>1, <3>2
  <2> QED
    BY <2>1, <2>2
<1>2. CASE work[c].aborted
  <2>1. Leave(c) /\ UNCHANGED said
    BY <1>2 DEF Onto
  <2>2. PICK w : WorkBecomes(c, w) /\ w.op = "over"
    BY <2>1, LeaveIs DEF AccountInv
  <2>3. c = Listing => disk' = disk
    BY WorkIsOf DEF Doing, AccountInv
  <2> QED
    BY <2>1, <2>2, <2>3, OutKeeps
<1>3. CASE ~work[c].aborted /\ work[c].at < Len(Plans[work[c].op])
  <2>0. work[c].at \in 0 .. 3
    BY <1>1, <1>3, BeforeTheEnd
  <2>1. work' = [work EXCEPT ![c].at = @ + 1, ![c].copy = copy] /\ UNCHANGED said
    BY <1>3 DEF Onto
  <2>2. PICK w : WorkBecomes(c, w) /\ w.op = work[c].op /\ w.at = work[c].at + 1 /\ w.copy = copy
    BY <1>1, <2>0, <2>1, NextIs DEF AccountInv
  <2>3. work[c].at \in 1 .. Len(Plans[w.op]) - 1
    BY <1>1, <1>3, <2>2
  <2>4. w.op = "delete" /\ w.at = 3 => w.copy \in Contents
    BY <1>1, <2>2
  <2>5. ASSUME Undisturbed, c # Listing PROVE Done(c)'
    <3>1. /\ work'[c] = w /\ said' = said /\ w.name = work[c].name /\ call'[c].phase = "idle"
          /\ events' = events
      BY <2>1, <2>2 DEF WorkBecomes, Rests
    <3>2. ~Agrees(c)'
      BY <3>1 DEF Agrees
    <3>3. w.op = "create" \/ w.op = "change" => Registered(c)'
      BY <1>1, <2>2, <2>5, <3>1, <3>2 DEF Registered
    <3>4. w.op = "delete" => Removed(c)'
      BY <1>1, <2>2, <2>5, <3>1, <3>2 DEF Removed, Kept, Unlisted
    <3> QED
      BY <3>1, <3>3, <3>4 DEF Done
  <2>6. c = Listing => disk' = disk
    BY WorkIsOf DEF Doing, AccountInv
  <2> QED
    BY <2>1, <2>2, <2>3, <2>4, <2>5, <2>6, OnwardKeeps
<1>4. CASE ~work[c].aborted /\ work[c].at = Len(Plans[work[c].op])
  <2>1. Leave(c) /\ said' = IF c = Listing THEN said
                            ELSE [said EXCEPT ![work[c].name] =
                                     IF work[c].op = "delete" THEN 0 ELSE c]
    BY <1>1, <1>4 DEF Onto
  <2>2. PICK w : WorkBecomes(c, w) /\ w.op = "over"
    BY <2>1, LeaveIs DEF AccountInv
  <2>3. disk' = disk
    BY <1>4, PlansAre
  <2>4. CASE c = Listing
    BY <2>1, <2>2, <2>3, <2>4, OutKeeps
  <2>5. CASE c # Listing
    BY <1>4, <2>1, <2>2, <2>3, <2>5, CallersAre, ReportKeeps
  <2> QED
    BY <2>4, <2>5
<1> QED
  BY <1>1, <1>2, <1>3, <1>4

\* The answer of a step that went well lets the caller go on.
LEMMA TakeKeeps == ASSUME AccountInv, CallsInv', NEW c \in Callers, TakeAnswer(c) PROVE AccountInv'
<1>1. /\ Busy(c) /\ call[c].phase = "over" /\ call' = [call EXCEPT ![c] = NoCall]
      /\ accepted' = accepted /\ UNCHANGED <<memory, disk, events>>
  BY DEF TakeAnswer, Taken
<1>2. Rests(c)
  <2>1. call'[c] = NoCall /\ \A d \in Callers : d # c => call'[d] = call[d]
    BY <1>1 DEF AccountInv, CallsInv, CallsTypeOK
  <2> QED
    BY <1>1, <2>1, NoCallIsFresh DEF Rests
<1>3. CalledFor(c) /\ StepAt(c) \in Commands \cup {"inspect"}
  BY <1>1 DEF AccountInv, SentByPlan, CalledFor
<1>4. /\ AccountsTypeOK /\ work[c] \in AccountRecords /\ disk \in Contents
      /\ work[c].copy \in {<<>>} \cup Contents
      /\ work[c].op \in {"create", "change", "delete", "list", "inspect"}
  <2>1. AccountsTypeOK /\ work[c] \in AccountRecords /\ disk \in Contents
    BY DEF AccountInv, AccountsTypeOK
  <2> QED
    BY <1>1, <2>1, WorkIsOf DEF AccountRecords
<1>5. CASE Leave(c) /\ UNCHANGED said
  <2>1. PICK w : WorkBecomes(c, w) /\ w.op = "over"
    BY <1>4, <1>5, LeaveIs
  <2> QED
    BY <1>1, <1>2, <1>4, <1>5, <2>1, OutKeeps
<1>6. CASE StepAt(c) = "register" /\ work' = [work EXCEPT ![c].at = 0] /\ UNCHANGED said
  <2> DEFINE w == [work[c] EXCEPT !.at = 0]
  <2>1. work' = [work EXCEPT ![c] = w] /\ work \in [Callers -> AccountRecords]
    BY <1>4, <1>6 DEF AccountsTypeOK
  <2>2. work[c].op = "create"
    BY <1>1, <1>4, <1>6, StepAtIs
  <2>3. /\ w \in AccountRecords /\ w.op = work[c].op /\ w.at = 0 /\ w.name = work[c].name
        /\ w.aborted = work[c].aborted
    BY <1>4 DEF AccountRecords
  <2> HIDE DEF w
  <2>4. WorkBecomes(c, w)
    BY <2>1, <2>2, <2>3 DEF WorkBecomes
  <2> QED
    BY <1>1, <1>2, <1>4, <1>6, <2>2, <2>3, <2>4, OutKeeps
<1>7. CASE /\ Proceed(c) /\ StepAt(c) # "recheck" /\ call[c].answer \in {"yes", "no"}
           /\ StepAt(c) # "exists" => call[c].answer = "yes"
  <2>1. Onto(c, work[c].copy)
    BY <1>7 DEF Proceed
  <2>2. /\ work[c].at # 0
        /\ ~(work[c].op = "delete" /\ work[c].at = 2) /\ ~(work[c].op = "delete" /\ work[c].at = 3)
    <3>1. StepAt(c) \notin {"read", "write"}
      BY <1>3 DEF Commands
    <3>2. work[c].at # 0
      BY <1>1, <1>4, <1>7, StepAtIs
    <3> QED
      BY <1>4, <3>1, <3>2, PlansAre DEF StepAt
  <2>3. Heard(c) /\ (StepAt(c) # "exists" => Agrees(c))
    BY <1>1, <1>7 DEF Heard, Agrees
  <2>4. c # Listing => Clear(c)
    <3>1. work[c].at \in 0 .. 4
      BY <1>4, WorkIsOf
    <3> QED
      BY <1>1, <2>2, <2>3, <3>1 DEF Clear
  <2>5. c # Listing /\ work[c].at = Len(Plans[work[c].op]) => Agrees(c)
    <3> SUFFICES ASSUME c # Listing, work[c].at = Len(Plans[work[c].op]) PROVE StepAt(c) # "exists"
      BY <2>3
    <3>1. work[c].op \in {"create", "change", "delete"}
      BY <1>4, CallersAre, WorkIsOf DEF Doing
    <3> QED
      BY <1>1, <1>4, <3>1, PlansAre, StepAtIs
  <2>6. ASSUME c # Listing, Undisturbed, work[c].op = "create" \/ work[c].op = "change",
               work[c].at = 2
        PROVE  memory[work[c].name] = c
    <3>1. StepAt(c) # "exists"
      BY <1>1, <1>4, <2>6, StepAtIs
    <3>2. Done(c)
      BY <2>6, CallersAre DEF AccountInv, Told
    <3> QED
      BY <2>3, <2>6, <3>1, <3>2 DEF Done, Registered
  <2> QED
    BY <1>1, <1>2, <1>4, <2>1, <2>2, <2>4, <2>5, <2>6, OntoKeeps
<1>8. \/ Leave(c) /\ UNCHANGED said
      \/ StepAt(c) = "register" /\ work' = [work EXCEPT ![c].at = 0] /\ UNCHANGED said
      \/ /\ Proceed(c) /\ StepAt(c) # "recheck" /\ call[c].answer \in {"yes", "no"}
         /\ StepAt(c) # "exists" => call[c].answer = "yes"
  BY DEF TakeAnswer
<1> QED
  BY <1>5, <1>6, <1>7, <1>8

\* A read or a write has no call.
LEMMA NoCallRests ==
  ASSUME AccountInv, NEW c \in Callers, StepAt(c) \in {"read", "write"}, UNCHANGED controlVars,
         events' = events
  PROVE  Rests(c) /\ call[c].phase = "idle"
<1>1. CalledFor(c) /\ call' = call /\ accepted' = accepted
  BY DEF AccountInv, SentByPlan, controlVars
<1>2. call[c].phase = "idle"
  BY <1>1 DEF CalledFor, Commands
<1> QED
  BY <1>1, <1>2 DEF Rests

LEMMA VolumeKeeps == ASSUME AccountInv, CallsInv', NEW c \in Callers, VolumeFails(c) PROVE AccountInv'
<1>1. Rests(c) /\ Busy(c)
  BY NoCallRests DEF VolumeFails
<1>2. PICK w : WorkBecomes(c, w) /\ w.op = "over"
  BY LeaveIs DEF VolumeFails, AccountInv
<1>3. disk' = disk /\ memory' = memory /\ said' = said /\ disk \in Contents
  BY DEF VolumeFails, AccountInv, AccountsTypeOK
<1> QED
  BY <1>1, <1>2, <1>3, OutKeeps

\* What a deletion reads is as it was reported, but for the account that goes.
LEMMA ReadKeeps == ASSUME AccountInv, CallsInv', NEW c \in Callers, ReadDatabase(c) PROVE AccountInv'
<1>1. /\ Busy(c) /\ StepAt(c) = "read" /\ UNCHANGED <<memory, disk, events>>
      /\ Rests(c) /\ call[c].phase = "idle"
  BY NoCallRests DEF ReadDatabase
<1>2. /\ work[c].op \in {"delete", "list"} /\ work[c].at = 2 /\ AccountsTypeOK /\ disk \in Contents
      /\ c # Listing => work[c].op = "delete" /\ work[c].name \in Names
      /\ work[c].copy \in {<<>>} \cup Contents
  <2>1. work[c].op \in {"delete", "list"} /\ work[c].at = 2 /\ AccountsTypeOK /\ disk \in Contents
    BY <1>1, StepAtIs DEF AccountInv, AccountsTypeOK
  <2>2. c # Listing => work[c].op = "delete" /\ work[c].name \in Names
    BY <2>1, CallersAre, WorkIsOf DEF Doing
  <2>3. work[c].copy \in {<<>>} \cup Contents
    BY <2>1, WorkIsOf DEF AccountRecords
  <2> QED
    BY <2>1, <2>2, <2>3
<1>3. Clear(c)
  BY <1>1, <1>2 DEF Clear
<1>4. CASE work[c].op = "delete" /\ disk[work[c].name] = 0
  <2>1. Leave(c) /\ UNCHANGED said
    BY <1>4 DEF ReadDatabase
  <2>2. PICK w : WorkBecomes(c, w) /\ w.op = "over"
    BY <1>2, <2>1, LeaveIs
  <2> QED
    BY <1>1, <1>2, <2>1, <2>2, OutKeeps
<1>5. CASE work[c].op = "delete" /\ disk[work[c].name] # 0
  <2> DEFINE copy == [disk EXCEPT ![work[c].name] = 0]
  <2>1. Onto(c, copy)
    BY <1>5 DEF ReadDatabase
  <2>2. c # Listing
    BY <1>5, WorkIsOf DEF Doing, AccountInv
  <2>3. /\ copy \in Contents /\ copy[work[c].name] = 0
        /\ \A m \in Names : m # work[c].name => copy[m] = disk[m]
    BY <1>2, <2>2 DEF Contents
  <2> HIDE DEF copy
  <2>4. ASSUME Undisturbed, NEW m \in Names, Kept(m) PROVE copy[m] = said[m]
    <3>1. disk[m] = said[m]
      BY <2>4 DEF AccountInv, Told
    <3>2. said[work[c].name] = Unsaid
      BY <1>1, <2>2, <2>4, CallersAre DEF AccountInv, NothingSaid
    <3>3. m # work[c].name
      BY <2>4, <3>2, CallersAre DEF Kept, Unsaid
    <3> QED
      BY <2>3, <3>1, <3>3
  <2>5. work[c].at # Len(Plans[work[c].op]) /\ work[c].at # 0 /\ work[c].at # 3
    BY <1>2, <1>5, PlansAre
  <2>6. copy \in {<<>>} \cup Contents /\ disk' \in Contents /\ disk' = disk /\ memory' = memory
    BY <1>1, <1>2, <2>3
  <2>7. c # Listing /\ Undisturbed =>
          /\ work[c].op = "create" \/ work[c].op = "change" =>
                (work[c].at = 2 => memory[work[c].name] = c)
          /\ work[c].op = "delete" /\ work[c].at = 2 =>
                /\ copy[work[c].name] = 0
                /\ \A m \in Names : Kept(m) => copy[m] = said[m]
          /\ work[c].op = "delete" /\ work[c].at = 3 => disk'[work[c].name] = 0
    BY <1>5, <2>3, <2>4, <2>5
  <2> QED
    BY <1>1, <1>3, <2>1, <2>3, <2>5, <2>6, <2>7, OntoKeeps
<1>6. CASE work[c].op = "list"
  <2>1. Onto(c, work[c].copy) /\ c = Listing
    BY <1>2, <1>6 DEF ReadDatabase, Proceed
  <2> QED
    BY <1>1, <1>2, <1>6, <2>1, OntoKeeps
<1> QED
  BY <1>2, <1>4, <1>5, <1>6

\* What a deletion writes is as it was reported.
LEMMA WriteKeeps == ASSUME AccountInv, CallsInv', NEW c \in Callers, WriteDatabase(c) PROVE AccountInv'
<1>1. /\ Busy(c) /\ StepAt(c) = "write" /\ UNCHANGED <<memory, events>> /\ disk' = work[c].copy
      /\ Rests(c) /\ call[c].phase = "idle" /\ Onto(c, work[c].copy)
  BY NoCallRests DEF WriteDatabase, Proceed
<1>2. work[c].op = "delete" /\ work[c].at = 3 /\ AccountsTypeOK
  BY <1>1, StepAtIs DEF AccountInv
<1>3. c # Listing /\ work[c].copy \in Contents /\ c \in AccountJobs
  BY <1>2, CallersAre, WorkIsOf DEF Doing
<1>4. Clear(c)
  BY <1>1, <1>2 DEF Clear
<1>5. ASSUME Undisturbed
      PROVE  /\ work[c].copy[work[c].name] = 0
             /\ \A m \in Names : Kept(m) => work[c].copy[m] = disk[m]
  <2>1. Removed(c) /\ Told
    BY <1>2, <1>3, <1>5 DEF AccountInv, Told, Done
  <2> QED
    BY <1>2, <2>1 DEF Removed, Told
<1>6. work[c].at # Len(Plans[work[c].op]) /\ work[c].at # 0 /\ work[c].at # 2
  BY <1>2, PlansAre
<1>7. work[c].copy \in {<<>>} \cup Contents /\ disk' \in Contents /\ memory' = memory
  BY <1>1, <1>3
<1>8. Undisturbed => \A m \in Names : Kept(m) => disk'[m] = disk[m]
  BY <1>1, <1>5
<1>9. c # Listing /\ Undisturbed =>
        /\ work[c].op = "create" \/ work[c].op = "change" =>
              (work[c].at = 2 => memory[work[c].name] = c)
        /\ work[c].op = "delete" /\ work[c].at = 2 =>
              /\ work[c].copy[work[c].name] = 0
              /\ \A m \in Names : Kept(m) => work[c].copy[m] = said[m]
        /\ work[c].op = "delete" /\ work[c].at = 3 => disk'[work[c].name] = 0
  BY <1>1, <1>2, <1>5, <1>6
<1> QED
  BY <1>1, <1>2, <1>4, <1>6, <1>7, <1>8, <1>9, OntoKeeps

-----------------------------------------------------------------------------
\* What LaunchServer runs: the command that came first, for the caller that sent it.
LEMMA HeadIs ==
  ASSUME AccountInv, RunCommand, NEW e, e = Head(accepted)
  PROVE  /\ e = accepted[1] /\ 1 \in 1 .. Len(accepted) /\ UNCHANGED <<work, said, events>>
         /\ \A i \in 1 .. Len(accepted') : i + 1 \in 1 .. Len(accepted)
                                           /\ accepted'[i] = accepted[i + 1]
         /\ e.by \in Callers /\ SentFor(e) /\ e \in Entries
         /\ e.awaited => call[e.by].phase = "wait"
         /\ Runs(e.cmd, work[e.by].name, e.by)
<1>1. /\ accepted # <<>> /\ accepted' = Tail(accepted) /\ accepted \in Seq(Entries)
      /\ UNCHANGED <<work, said, events>> /\ Runs(e.cmd, work[e.by].name, e.by)
  BY DEF RunCommand, Answered, AccountInv, CallsInv, CallsTypeOK
<1>2. /\ Len(accepted) \in Nat \ {0} /\ Len(Tail(accepted)) = Len(accepted) - 1
      /\ \A i \in 1 .. Len(Tail(accepted)) : Tail(accepted)[i] = accepted[i + 1]
      /\ e = accepted[1]
  BY <1>1, HeadTailProperties, EmptySeq
<1>3. 1 \in 1 .. Len(accepted)
  BY <1>2
<1>4. \A i \in 1 .. Len(accepted') : i + 1 \in 1 .. Len(accepted) /\ accepted'[i] = accepted[i + 1]
  BY <1>1, <1>2
<1>5. /\ e.by \in Callers /\ SentFor(e) /\ e \in Entries
      /\ e.awaited => call[e.by].phase = "wait"
  BY <1>2, <1>3, WaiterIs
<1> QED
  BY <1>1, <1>2, <1>3, <1>4, <1>5

\* Who waited for it has its answer, or an answer too long to read; the others have what they had.
LEMMA AnswerIs ==
  ASSUME AccountInv, RunCommand, NEW e, e = Head(accepted), NEW c \in Callers
  PROVE  /\ call'[c].cmd = call[c].cmd
         /\ \/ call'[c] = call[c]
            \/ /\ c = e.by /\ e.awaited /\ call[c].phase = "wait" /\ call'[c].phase = "over"
               /\ e.cmd = StepAt(c) /\ Busy(c)
               /\ call'[c].answer \in {Replies(e.cmd, work[c].name), "error"}
<1>1. call \in [Callers -> CallRecords]
  BY DEF AccountInv, CallsInv, CallsTypeOK
<1>2. CASE ~e.awaited
  BY <1>2 DEF RunCommand, Answered
<1>3. CASE e.awaited
  <2>1. e.by \in Callers /\ SentFor(e) /\ call[e.by].phase = "wait"
    BY <1>3, HeadIs
  <2>2. PICK a \in {Replies(e.cmd, work[e.by].name), "error"} : Released(e.by, a)
    BY <1>3 DEF RunCommand, Answered
  <2>3. call' = [call EXCEPT ![e.by] = [call[e.by] EXCEPT !.phase = "over", !.answer = a]]
    BY <1>1, <2>1, <2>2 DEF Released
  <2>4. CASE c # e.by
    BY <1>1, <2>1, <2>3, <2>4
  <2>5. CASE c = e.by
    <3>1. call'[c] = [call[c] EXCEPT !.phase = "over", !.answer = a] /\ call[c] \in CallRecords
      BY <1>1, <2>3, <2>5
    <3>2. call'[c].cmd = call[c].cmd /\ call'[c].phase = "over" /\ call'[c].answer = a
      BY <3>1 DEF CallRecords
    <3>3. e.cmd = StepAt(c) /\ Busy(c)
      BY <1>3, <2>1, <2>5 DEF SentFor, AccountInv, SentByPlan, CalledFor
    <3> QED
      BY <1>3, <2>1, <2>2, <2>5, <3>2, <3>3
  <2> QED
    BY <2>4, <2>5
<1> QED
  BY <1>2, <1>3

\* What a command does to the accounts.
LEMMA RunIs ==
  ASSUME AccountInv, RunCommand, NEW e, e = Head(accepted), NEW n, n = work[e.by].name
  PROVE  /\ memory' \in Contents /\ disk' \in Contents
         /\ e.cmd \in {"register", "change"} =>
               /\ disk' = disk /\ n \in Names
               /\ \A m \in Names : m # n => memory'[m] = memory[m]
               /\ Replies(e.cmd, n) = "yes" => memory'[n] = e.by
         /\ e.cmd = "reload" => memory' = disk /\ disk' = disk
         /\ e.cmd = "save" => memory' = memory /\ disk' = memory
         /\ e.cmd \notin {"register", "change", "reload", "save"} => memory' = memory /\ disk' = disk
<1>1. /\ memory \in Contents /\ disk \in Contents /\ e.by \in Callers /\ SentFor(e)
      /\ Runs(e.cmd, n, e.by)
  BY HeadIs DEF AccountInv, AccountsTypeOK
<1>2. CASE e.cmd \notin {"register", "change"}
  BY <1>1, <1>2 DEF Runs
<1>3. CASE e.cmd \in {"register", "change"}
  <2>1. e.by \in AccountJobs /\ e.by \in Nat
    BY <1>1, <1>3, CallersAre DEF SentFor
  <2>2. n \in Names
    BY <1>1, <2>1, WorkIsOf DEF SentFor, Doing, AccountInv
  <2>3. disk' = disk
    BY <1>1, <1>3 DEF Runs
  <2>4. memory' = memory \/ memory' = [memory EXCEPT ![n] = e.by]
    BY <1>1, <1>3 DEF Runs
  <2>5. memory' \in Contents /\ \A m \in Names : m # n => memory'[m] = memory[m]
    BY <1>1, <2>1, <2>2, <2>4 DEF Contents
  <2>6. Replies(e.cmd, n) = "yes" => memory'[n] = e.by
    <3> SUFFICES ASSUME Replies(e.cmd, n) = "yes" PROVE memory'[n] = e.by
      OBVIOUS
    <3>1. memory' = [memory EXCEPT ![n] = e.by]
      BY <1>1, <1>3 DEF Runs, Replies
    <3> QED
      BY <1>1, <2>2, <3>1 DEF Contents
  <2> QED
    BY <1>1, <1>3, <2>2, <2>3, <2>5, <2>6
<1> QED
  BY <1>2, <1>3

\* A command that was sent in turn does what its job is for, and nothing to what was reported.
LEMMA RunToldKeeps ==
  ASSUME AccountInv, RunCommand, Undisturbed, NEW j \in AccountJobs, NEW e, e = Head(accepted)
  PROVE  /\ Clear(j)' => Clear(j) \/ (work[j].at = 1 /\ e.by = j /\ e.awaited)
         /\ Done(j)'
<1>1. /\ UNCHANGED <<work, said, events>> /\ j \in Callers /\ j # Listing
      /\ OneJob /\ NothingSaid /\ InTurn /\ Told /\ SentFor(e) /\ Done(j) /\ AccountsTypeOK
      /\ e.awaited => call[e.by].phase = "wait"
  BY HeadIs, CallersAre DEF AccountInv, Told
<1>2. /\ work[j].at \in 0 .. 4
      /\ Busy(j) <=> work[j].op \in {"create", "change", "delete", "list", "inspect"}
      /\ Busy(j)' <=> Busy(j)
  BY <1>1, WorkIsOf DEF Busy
<1>3. PICK n : n = work[e.by].name
  OBVIOUS
<1>4. \/ call'[j] = call[j]
      \/ /\ j = e.by /\ e.awaited /\ call[j].phase = "wait" /\ call'[j].phase = "over"
         /\ e.cmd = StepAt(j) /\ Busy(j)
         /\ call'[j].answer \in {Replies(e.cmd, n), "error"} /\ n = work[j].name
  BY <1>1, <1>3, AnswerIs
<1>5. Clear(j)' => Clear(j) \/ (work[j].at = 1 /\ e.by = j /\ e.awaited)
  <2>1. CASE call'[j] = call[j]
    BY <1>1, <1>2, <2>1 DEF Clear, Heard
  <2>2. CASE call'[j] # call[j]
    BY <1>1, <1>2, <1>4, <2>2 DEF Clear, Heard
  <2> QED
    BY <2>1, <2>2
<1>6. Clear(j) => e.by = Listing \/ (e.by = j /\ e.awaited /\ call[j].phase = "wait" /\ e.cmd = StepAt(j))
  <2> SUFFICES ASSUME Clear(j), e.by # Listing
      PROVE e.by = j /\ e.awaited /\ call[j].phase = "wait" /\ e.cmd = StepAt(j)
    OBVIOUS
  <2>1. e.by = j /\ e.awaited
    BY <1>1, HeadIs DEF InTurn, OnlyIts
  <2>2. call[j].phase = "wait" /\ e.cmd = call[j].cmd
    BY <1>1, <2>1 DEF SentFor
  <2> QED
    BY <1>1, <2>1, <2>2 DEF AccountInv, SentByPlan, CalledFor
<1>7. /\ e.cmd \in {"register", "change"} /\ Replies(e.cmd, n) = "yes" => memory'[n] = e.by
      /\ e.cmd = "reload" => memory' = disk /\ disk' = disk
      /\ e.cmd = "save" => memory' = memory /\ disk' = memory
      /\ e.cmd \notin {"register", "change", "reload", "save"} => memory' = memory /\ disk' = disk
  BY <1>3, RunIs
<1>8. Agrees(j)' => \/ Agrees(j)
                    \/ /\ e.by = j /\ e.cmd = StepAt(j) /\ n = work[j].name /\ call[j].phase = "wait"
                       /\ Busy(j) /\ Replies(e.cmd, n) = "yes"
  <2>1. CASE call'[j] # call[j]
    <3> SUFFICES ASSUME Agrees(j)' PROVE Replies(e.cmd, n) = "yes"
      BY <1>4, <2>1
    <3> QED
      BY <1>4, <2>1 DEF Agrees
  <2>2. CASE call'[j] = call[j]
    BY <2>2 DEF Agrees
  <2> QED
    BY <2>1, <2>2
<1>9. e.by = Listing => e.cmd \in {"save", "inspect"} /\ (Unlisted => e.cmd = "inspect")
  BY <1>1 DEF SentFor, Unlisted
<1>10. ASSUME Busy(j), Agrees(j), work[j].at \in {2, 3, 4}
       PROVE  Clear(j) /\ e.by = Listing
  <2>1. Heard(j) /\ work[j].at # 1 /\ work[j].at > 1 /\ call[j].phase = "over"
    BY <1>10 DEF Heard, Agrees
  <2>2. Clear(j)
    BY <1>10, <2>1 DEF Clear
  <2> QED
    BY <1>6, <2>1, <2>2
<1>11. ASSUME Busy(j), call[j].phase = "wait", work[j].at \in {3, 4}
       PROVE  Clear(j)
  <2>1. work[j].at # 1 /\ work[j].at > 1 /\ call[j].phase # "over"
    BY <1>11
  <2> QED
    BY <1>11, <2>1 DEF Clear
<1>12. ASSUME work[j].op \in {"create", "change"} PROVE Registered(j)'
  <2>1. /\ Busy(j) /\ Registered(j) /\ work'[j] = work[j]
        /\ work[j].at = 2 => StepAt(j) \in {"register", "change"}
        /\ work[j].at = 3 => StepAt(j) = "save"
    BY <1>1, <1>2, <1>12, PlansAre DEF Done, StepAt
  <2>2. work[j].at = 2 /\ Agrees(j)' => memory'[work[j].name] = j
    <3> SUFFICES ASSUME work[j].at = 2, Agrees(j)' PROVE memory'[work[j].name] = j
      OBVIOUS
    <3>1. CASE Agrees(j)
      <4>1. e.by = Listing
        BY <1>10, <2>1, <3>1
      <4>2. memory' = memory
        BY <1>7, <1>9, <4>1
      <4> QED
        BY <2>1, <3>1, <4>2 DEF Registered
    <3>2. CASE ~Agrees(j)
      <4>1. e.by = j /\ e.cmd \in {"register", "change"} /\ Replies(e.cmd, n) = "yes" /\ n = work[j].name
        BY <1>8, <2>1, <3>2
      <4> QED
        BY <1>7, <4>1
    <3> QED
      BY <3>1, <3>2
  <2>3. work[j].at = 3 /\ Clear(j)' => memory'[work[j].name] = j
    <3> SUFFICES ASSUME work[j].at = 3, Clear(j)' PROVE memory'[work[j].name] = j
      OBVIOUS
    <3>1. Clear(j)
      BY <1>5
    <3>2. e.cmd \in {"save", "inspect"}
      BY <1>6, <1>9, <2>1, <3>1
    <3>3. memory' = memory
      BY <1>7, <3>2
    <3> QED
      BY <2>1, <3>1, <3>3 DEF Registered
  <2>4. work[j].at = 3 /\ Agrees(j)' => disk'[work[j].name] = j
    <3> SUFFICES ASSUME work[j].at = 3, Agrees(j)' PROVE disk'[work[j].name] = j
      OBVIOUS
    <3>1. Clear(j) /\ (e.cmd = "save" \/ (e.cmd = "inspect" /\ Agrees(j)))
      BY <1>8, <1>9, <1>10, <1>11, <2>1
    <3>2. memory[work[j].name] = j /\ (Agrees(j) => disk[work[j].name] = j)
      BY <2>1, <3>1 DEF Registered
    <3> QED
      BY <1>7, <3>1, <3>2
  <2> QED
    BY <1>1, <2>1, <2>2, <2>3, <2>4 DEF Registered
<1>13. ASSUME work[j].op = "delete" PROVE Removed(j)'
  <2>1. /\ Busy(j) /\ Removed(j) /\ work'[j] = work[j]
        /\ work[j].at = 4 => StepAt(j) = "reload"
    BY <1>1, <1>2, <1>13, PlansAre DEF Done, StepAt
  <2>2. \A m : Kept(m)' <=> Kept(m)
    BY <1>1 DEF Kept, Unlisted
  <2>3. work[j].at = 4 /\ Clear(j)' /\ Unlisted => disk'[work[j].name] = 0
    <3> SUFFICES ASSUME work[j].at = 4, Clear(j)', Unlisted PROVE disk'[work[j].name] = 0
      OBVIOUS
    <3>1. Clear(j)
      BY <1>5
    <3>2. e.cmd \in {"reload", "inspect"}
      BY <1>6, <1>9, <2>1, <3>1
    <3>3. disk' = disk
      BY <1>7, <3>2
    <3> QED
      BY <2>1, <3>1, <3>3 DEF Removed
  <2>4. work[j].at = 4 /\ Agrees(j)' /\ Unlisted => memory'[work[j].name] = 0
    <3> SUFFICES ASSUME work[j].at = 4, Agrees(j)', Unlisted PROVE memory'[work[j].name] = 0
      OBVIOUS
    <3>1. Clear(j) /\ (e.cmd = "reload" \/ (e.cmd = "inspect" /\ Agrees(j)))
      BY <1>8, <1>9, <1>10, <1>11, <2>1
    <3>2. disk[work[j].name] = 0 /\ (Agrees(j) => memory[work[j].name] = 0)
      BY <2>1, <3>1 DEF Removed
    <3> QED
      BY <1>7, <3>1, <3>2
  <2> QED
    BY <1>1, <2>1, <2>2, <2>3, <2>4 DEF Removed, Unlisted
<1>14. Done(j)'
  BY <1>1, <1>12, <1>13 DEF Done
<1> QED
  BY <1>5, <1>14

\* A command that LaunchServer runs keeps what holds of accounts.
LEMMA RunKeepsAccounts == ASSUME AccountInv, CallsInv', RunCommand PROVE AccountInv'
<1>1. PICK e, n : e = Head(accepted) /\ n = work[e.by].name
  OBVIOUS
<1>2. /\ e = accepted[1] /\ 1 \in 1 .. Len(accepted) /\ UNCHANGED <<work, said, events>>
      /\ \A i \in 1 .. Len(accepted') : i + 1 \in 1 .. Len(accepted)
                                        /\ accepted'[i] = accepted[i + 1]
      /\ e.by \in Callers /\ SentFor(e)
      /\ e.awaited => call[e.by].phase = "wait"
  BY <1>1, HeadIs
<1>3. memory' \in Contents /\ disk' \in Contents
  BY <1>1, RunIs
<1>4. AccountsTypeOK'
  BY <1>2, <1>3 DEF AccountInv, AccountsTypeOK, Doing, Busy
<1>5. \A d \in Callers : (Busy(d)' <=> Busy(d)) /\ StepAt(d)' = StepAt(d)
  BY <1>2 DEF Busy, StepAt
<1>6. \A d \in Callers : /\ call'[d].cmd = call[d].cmd
                         /\ call'[d] = call[d] \/ (call[d].phase = "wait" /\ call'[d].phase = "over")
  BY <1>1, AnswerIs
<1>7. SentByPlan'
  <2>1. ASSUME NEW d \in Callers PROVE CalledFor(d)'
    <3>1. CalledFor(d)
      BY DEF AccountInv, SentByPlan
    <3> QED
      BY <1>5, <1>6, <3>1 DEF CalledFor
  <2>2. ASSUME NEW i \in 1 .. Len(accepted') PROVE SentFor(accepted[i])'
    <3>1. /\ SentFor(accepted[i + 1]) /\ accepted'[i] = accepted[i + 1]
          /\ accepted[i + 1].by \in Callers
      BY <1>2, WaiterIs
    <3> QED
      BY <1>2, <1>6, <3>1 DEF SentFor
  <2> QED
    BY <2>1, <2>2 DEF SentByPlan
<1>8. ASSUME Undisturbed' PROVE (OneJob /\ NothingSaid /\ InTurn /\ Told)'
  <2>1. OneJob /\ NothingSaid /\ InTurn /\ Told /\ Undisturbed
    BY <1>2, <1>8 DEF AccountInv, Undisturbed
  <2>2. OneJob'
    BY <1>2, <1>5, <2>1, CallersAre DEF OneJob
  <2>3. NothingSaid'
    BY <1>2, <1>5, <2>1, CallersAre DEF NothingSaid
  <2>4. InTurn'
    <3>1. ASSUME NEW j \in AccountJobs, Clear(j)' PROVE OnlyIts(j)'
      <4>1. Clear(j) \/ (e.by = j /\ e.awaited)
        BY <1>1, <2>1, <3>1, RunToldKeeps
      <4>2. CASE Clear(j)
        BY <1>2, <2>1, <4>2 DEF InTurn, OnlyIts
      <4>3. CASE e.by = j /\ e.awaited
        <5>1. ASSUME NEW i \in 1 .. Len(accepted') PROVE accepted'[i].by = Listing
          <6>1. i + 1 \in 1 .. Len(accepted) /\ accepted'[i] = accepted[i + 1] /\ 1 < i + 1
            BY <1>2
          <6>2. accepted[1].by # Listing /\ accepted[1].awaited
            BY <1>2, <4>3, CallersAre
          <6> QED
            BY <1>2, <2>1, <6>1, <6>2 DEF InTurn
        <5> QED
          BY <5>1 DEF OnlyIts
      <4> QED
        BY <4>1, <4>2, <4>3
    <3>2. ASSUME NEW i \in 1 .. Len(accepted'), NEW k \in 1 .. Len(accepted'),
                 accepted'[i].by # Listing, accepted'[i].awaited, i < k
          PROVE  accepted'[k].by = Listing
      <4>1. i + 1 < k + 1
        BY <3>2
      <4> QED
        BY <1>2, <2>1, <3>2, <4>1 DEF InTurn
    <3> QED
      BY <3>1, <3>2 DEF InTurn
  <2>5. Told'
    <3>1. ASSUME NEW m \in Names, Kept(m)' PROVE memory'[m] = said'[m] /\ disk'[m] = said'[m]
      <4>1. memory[m] = said[m] /\ disk[m] = said[m] /\ said' = said /\ Kept(m)
        BY <1>2, <2>1, <3>1 DEF Told, Kept, Unlisted
      <4>2. e.cmd \in {"register", "change"} => m # n
        <5> SUFFICES ASSUME e.cmd \in {"register", "change"} PROVE m # n
          OBVIOUS
        <5>1. said[n] = Unsaid
          BY <1>1, <1>2, <2>1 DEF NothingSaid
        <5> QED
          BY <4>1, <5>1, CallersAre DEF Kept, Unsaid
      <4> QED
        BY <1>1, <4>1, <4>2, RunIs
    <3>2. ASSUME NEW j \in AccountJobs PROVE Done(j)'
      BY <1>1, <2>1, RunToldKeeps
    <3> QED
      BY <3>1, <3>2 DEF Told
  <2> QED
    BY <2>2, <2>3, <2>4, <2>5
<1> QED
  BY <1>4, <1>7, <1>8 DEF AccountInv

-----------------------------------------------------------------------------
LEMMA NoAccountWorkIs == NoAccountWork \in AccountRecords /\ ~NoAccountWork.aborted
BY DEF NoAccountWork, AccountRecords

\* A page about the accounts begins: it says no more than that it has.
LEMMA PageKeeps == ASSUME AccountInv, CallsInv', RequestPage PROVE AccountInv'
<1>1. PICK op \in {"list", "inspect"} :
        /\ Happens(op) /\ work[Listing].op = "none"
        /\ work' = [work EXCEPT ![Listing] = [NoAccountWork EXCEPT !.op = op, !.at = 1]]
        /\ UNCHANGED <<controlVars, memory, disk, said>>
  BY DEF RequestPage
<1>2. /\ events' = events \cup {op} /\ Listing \in Callers /\ call' = call /\ accepted' = accepted
      /\ memory' = memory /\ disk' = disk /\ said' = said
  BY <1>1, CallersAre DEF Happens, controlVars
<1> DEFINE q == [NoAccountWork EXCEPT !.op = op]
           r == [q EXCEPT !.at = 1]
<1>3. r.op = op /\ r.at = 1 /\ r.aborted = FALSE /\ r \in AccountRecords
  <2>1. /\ q \in AccountRecords /\ q.op = op /\ q.aborted = FALSE
    BY NoAccountWorkIs, PlansAre DEF AccountRecords
  <2> HIDE DEF q
  <2> QED
    BY <2>1 DEF AccountRecords
<1>4. work' = [work EXCEPT ![Listing] = r] /\ work \in [Callers -> AccountRecords]
  <2>1. work \in [Callers -> AccountRecords]
    BY DEF AccountInv, AccountsTypeOK
  <2> QED
    BY <1>1, <2>1
<1> HIDE DEF r
<1>5. /\ work' \in [Callers -> AccountRecords] /\ work'[Listing] = r
      /\ \A d \in Callers : d # Listing => work'[d] = work[d]
  BY <1>2, <1>3, <1>4
<1>6. Busy(Listing)' /\ ~Busy(Listing)
  BY <1>1, <1>3, <1>5, PlansAre DEF Busy
<1>7. AccountsTypeOK'
  <2>1. ASSUME NEW d \in Callers, d # Listing PROVE Doing(d)'
    BY <1>2, <1>5, <2>1, WorkIsOf DEF AccountInv, Doing, Busy
  <2>2. Doing(Listing)'
    BY <1>2, <1>3, <1>5, CallersAre, PlansAre DEF Doing
  <2> QED
    BY <1>2, <1>5, <2>1, <2>2 DEF AccountInv, AccountsTypeOK
<1>8. \A d \in Callers : d # Listing => (Busy(d)' <=> Busy(d)) /\ StepAt(d)' = StepAt(d)
  BY <1>5 DEF Busy, StepAt
<1>9. SentByPlan'
  <2>1. ASSUME NEW d \in Callers PROVE CalledFor(d)'
    <3>1. CalledFor(d)
      BY DEF AccountInv, SentByPlan
    <3> QED
      BY <1>2, <1>6, <1>8, <3>1 DEF CalledFor
  <2>2. ASSUME NEW i \in 1 .. Len(accepted) PROVE SentFor(accepted[i])'
    <3>1. SentFor(accepted[i]) /\ accepted[i].by \in Callers
      BY WaiterIs
    <3> QED
      BY <1>1, <1>2, <1>5, <3>1 DEF SentFor
  <2> QED
    BY <1>2, <2>1, <2>2 DEF SentByPlan
<1>10. ASSUME Undisturbed' PROVE (OneJob /\ NothingSaid /\ InTurn /\ Told)'
  <2>1. OneJob /\ NothingSaid /\ InTurn /\ Told
    BY <1>2, <1>10 DEF AccountInv, Undisturbed
  <2>2. OneJob'
    BY <1>3, <1>5, <1>8, <2>1, CallersAre DEF OneJob
  <2>3. \A i \in 1 .. Len(accepted) : accepted[i].by # Listing
    BY <1>1, WaiterIs DEF SentFor
  <2>4. NothingSaid'
    BY <1>2, <1>5, <1>8, <2>1, <2>3, CallersAre, WaiterIs DEF NothingSaid
  <2>5. \A j \in AccountJobs : work'[j] = work[j] /\ (Clear(j)' <=> Clear(j)) /\ (Agrees(j)' <=> Agrees(j))
    BY <1>2, <1>5, <1>8, CallersAre DEF Clear, Heard, Agrees
  <2>6. InTurn'
    BY <1>2, <2>1, <2>5 DEF InTurn, OnlyIts
  <2>7. Told'
    <3>1. \A m : Kept(m)' => Kept(m)
      BY <1>2 DEF Kept, Unlisted
    <3>2. ASSUME NEW j \in AccountJobs PROVE Done(j)'
      <4>1. Done(j) /\ (Unlisted' => Unlisted)
        BY <1>2, <2>1 DEF Told, Unlisted
      <4> QED
        BY <1>2, <2>5, <3>1, <4>1 DEF Done, Registered, Removed
    <3> QED
      BY <1>2, <2>1, <3>1, <3>2 DEF Told
  <2> QED
    BY <2>2, <2>4, <2>6, <2>7
<1> QED
  BY <1>7, <1>9, <1>10 DEF AccountInv

\* A job is requested while no other one is under way: from now on nothing is said of its account.
LEMMA RequestKeeps ==
  ASSUME AccountInv, CallsInv', NEW c \in AccountJobs, RequestAccount(c) PROVE AccountInv'
<1>1. PICK op \in {"create", "change", "delete"}, n \in Names :
        /\ work' = [work EXCEPT ![c] = [NoAccountWork EXCEPT !.op = op, !.name = n, !.at = 1]]
        /\ said' = [said EXCEPT ![n] = Unsaid]
  BY DEF RequestAccount
<1>2. /\ events' = events /\ c \in Callers /\ c # Listing /\ call' = call /\ accepted' = accepted
      /\ memory' = memory /\ disk' = disk /\ work[c].op = "none" /\ ~AccountActive
  BY CallersAre DEF RequestAccount, controlVars
<1> DEFINE p == [NoAccountWork EXCEPT !.op = op]
           q == [p EXCEPT !.name = n]
           r == [q EXCEPT !.at = 1]
<1>3. r.op = op /\ r.name = n /\ r.at = 1 /\ r.aborted = FALSE /\ r \in AccountRecords
  <2>1. /\ p \in AccountRecords /\ p.op = op /\ p.aborted = FALSE
    BY NoAccountWorkIs, PlansAre DEF AccountRecords
  <2> HIDE DEF p
  <2>2. /\ q \in AccountRecords /\ q.op = op /\ q.name = n /\ q.aborted = FALSE
    BY <2>1 DEF AccountRecords
  <2> HIDE DEF q
  <2> QED
    BY <2>2 DEF AccountRecords
<1>4. work' = [work EXCEPT ![c] = r] /\ work \in [Callers -> AccountRecords]
  <2>1. work \in [Callers -> AccountRecords]
    BY DEF AccountInv, AccountsTypeOK
  <2> QED
    BY <1>1, <2>1
<1> HIDE DEF r
<1>5. /\ work' \in [Callers -> AccountRecords] /\ work'[c] = r
      /\ \A d \in Callers : d # c => work'[d] = work[d]
  BY <1>2, <1>3, <1>4
<1>6. Busy(c)' /\ ~Busy(c)
  BY <1>2, <1>3, <1>5, PlansAre DEF Busy
<1>7. /\ said' \in Contents /\ said'[n] = Unsaid
      /\ \A m \in Names : m # n => said'[m] = said[m]
  BY <1>1 DEF AccountInv, AccountsTypeOK, Contents, Unsaid
<1>8. AccountsTypeOK'
  <2>1. ASSUME NEW d \in Callers, d # c PROVE Doing(d)'
    BY <1>2, <1>5, <2>1, WorkIsOf DEF AccountInv, Doing, Busy
  <2>2. Doing(c)'
    BY <1>2, <1>3, <1>5, PlansAre DEF Doing
  <2> QED
    BY <1>2, <1>5, <1>7, <2>1, <2>2 DEF AccountInv, AccountsTypeOK
<1>9. \A d \in Callers : d # c => (Busy(d)' <=> Busy(d)) /\ StepAt(d)' = StepAt(d)
  BY <1>5 DEF Busy, StepAt
<1>10. CalledFor(c) /\ call[c].phase = "idle"
  BY <1>2, <1>6 DEF AccountInv, SentByPlan, CalledFor
<1>11. SentByPlan'
  <2>1. ASSUME NEW d \in Callers PROVE CalledFor(d)'
    <3>1. CalledFor(d)
      BY DEF AccountInv, SentByPlan
    <3> QED
      BY <1>2, <1>9, <1>10, <3>1 DEF CalledFor
  <2>2. ASSUME NEW i \in 1 .. Len(accepted) PROVE SentFor(accepted[i])'
    <3>1. SentFor(accepted[i]) /\ accepted[i].by \in Callers
      BY WaiterIs
    <3> QED
      BY <1>2, <1>5, <3>1 DEF SentFor
  <2> QED
    BY <1>2, <2>1, <2>2 DEF SentByPlan
<1>12. ASSUME Undisturbed' PROVE (OneJob /\ NothingSaid /\ InTurn /\ Told)'
  <2>1. OneJob /\ NothingSaid /\ InTurn /\ Told
    BY <1>2, <1>12 DEF AccountInv, Undisturbed
  <2>2. \A j \in AccountJobs : ~Busy(j)
    BY <1>2, <2>1, CallersAre DEF AccountActive, OneJob
  <2>3. OneJob'
    BY <1>3, <1>5, <1>9, <2>1, <2>2, CallersAre DEF OneJob
  <2>4. ASSUME NEW i \in 1 .. Len(accepted)
        PROVE  /\ accepted[i].by \in Callers /\ accepted[i].by # c
               /\ accepted[i].cmd \in {"register", "change"} => work[accepted[i].by].name \in Names
    <3>1. accepted[i].by \in Callers /\ SentFor(accepted[i])
      BY WaiterIs
    <3>2. accepted[i].by # c
      BY <1>2, <3>1 DEF SentFor
    <3>3. ASSUME accepted[i].cmd \in {"register", "change"} PROVE work[accepted[i].by].name \in Names
      <4>1. accepted[i].by # Listing
        BY <3>1, <3>3 DEF SentFor
      <4> QED
        BY <3>1, <4>1, CallersAre, WorkIsOf DEF AccountInv, Doing, SentFor
    <3> QED
      BY <3>1, <3>2, <3>3
  <2>5. NothingSaid'
    <3>1. ASSUME NEW j \in AccountJobs, Busy(j)' PROVE said'[work'[j].name] = Unsaid
      <4>1. j = c
        BY <1>9, <2>2, <3>1, CallersAre
      <4> QED
        BY <1>3, <1>5, <1>7, <4>1
    <3>2. ASSUME NEW i \in 1 .. Len(accepted), accepted[i].cmd \in {"register", "change"}
          PROVE  said'[work'[accepted[i].by].name] = Unsaid
      BY <1>5, <1>7, <2>1, <2>4, <3>2 DEF NothingSaid
    <3> QED
      BY <1>2, <3>1, <3>2 DEF NothingSaid
  <2>6. \A j \in AccountJobs : ~Clear(j)'
    <3>1. ~Heard(c)'
      BY <1>2, <1>10 DEF Heard
    <3> QED
      BY <1>3, <1>5, <1>9, <2>2, <3>1, CallersAre DEF Clear
  <2>7. InTurn'
    BY <1>2, <2>1, <2>6 DEF InTurn
  <2>8. Told'
    <3>1. ASSUME NEW m \in Names, Kept(m)' PROVE memory[m] = said'[m] /\ disk[m] = said'[m]
      <4>1. m # n
        BY <1>7, <3>1, CallersAre DEF Kept, Unsaid
      <4>2. Kept(m) /\ said'[m] = said[m]
        BY <1>2, <1>7, <3>1, <4>1 DEF Kept, Unlisted
      <4> QED
        BY <2>1, <4>2 DEF Told
    <3>2. ASSUME NEW j \in AccountJobs PROVE Done(j)'
      <4>1. CASE j = c
        BY <1>3, <1>5, <4>1 DEF Done, Registered, Removed
      <4>2. CASE j # c
        <5>1. ~Busy(j)'
          BY <1>9, <2>2, <4>2, CallersAre
        <5> QED
          BY <5>1, PlansAre DEF Busy, Done
      <4> QED
        BY <4>1, <4>2
    <3> QED
      BY <1>2, <3>1, <3>2 DEF Told
  <2> QED
    BY <2>3, <2>5, <2>7, <2>8
<1> QED
  BY <1>8, <1>11, <1>12 DEF AccountInv

\* A job that is cancelled goes on with what it awaits.
LEMMA CancelKeepsAccounts ==
  ASSUME AccountInv, CallsInv', NEW c \in AccountJobs, CancelAccount(c) PROVE AccountInv'
<1>1. /\ events' = events \cup {"cancel"} /\ c \in Callers /\ call' = call /\ accepted' = accepted
      /\ memory' = memory /\ disk' = disk /\ said' = said /\ Busy(c)
      /\ work' = [work EXCEPT ![c] = [work[c] EXCEPT !.aborted = TRUE]]
  BY CallersAre DEF CancelAccount, Happens, controlVars
<1>2. (Undisturbed' <=> Undisturbed) /\ (Unlisted' <=> Unlisted)
  BY <1>1 DEF Undisturbed, Unlisted
<1>3. work \in [Callers -> AccountRecords] /\ work[c] \in AccountRecords
  BY <1>1 DEF AccountInv, AccountsTypeOK
<1> DEFINE r == [work[c] EXCEPT !.aborted = TRUE]
<1>4. /\ r \in AccountRecords /\ r.op = work[c].op /\ r.name = work[c].name /\ r.at = work[c].at
      /\ r.copy = work[c].copy
  BY <1>3 DEF AccountRecords
<1> HIDE DEF r
<1>5. /\ work' \in [Callers -> AccountRecords] /\ work'[c] = r
      /\ \A d \in Callers : d # c => work'[d] = work[d]
  BY <1>1, <1>3, <1>4 DEF r
<1>6. \A d \in Callers : /\ work'[d].op = work[d].op /\ work'[d].at = work[d].at
                         /\ work'[d].name = work[d].name /\ work'[d].copy = work[d].copy
  BY <1>4, <1>5
<1>7. \A d \in Callers : (Busy(d)' <=> Busy(d)) /\ StepAt(d)' = StepAt(d)
  BY <1>6 DEF Busy, StepAt
<1>8. AccountsTypeOK'
  <2>1. ASSUME NEW d \in Callers PROVE Doing(d)'
    BY <1>1, <1>6, <1>7, WorkIsOf DEF AccountInv, Doing
  <2> QED
    BY <1>1, <1>5, <2>1 DEF AccountInv, AccountsTypeOK
<1>9. SentByPlan'
  <2>1. ASSUME NEW d \in Callers PROVE CalledFor(d)'
    BY <1>1, <1>7 DEF AccountInv, SentByPlan, CalledFor
  <2>2. ASSUME NEW i \in 1 .. Len(accepted) PROVE SentFor(accepted[i])'
    <3>1. SentFor(accepted[i]) /\ accepted[i].by \in Callers
      BY WaiterIs
    <3> QED
      BY <1>1, <1>6, <3>1 DEF SentFor
  <2> QED
    BY <1>1, <2>1, <2>2 DEF SentByPlan
<1>10. ASSUME Undisturbed' PROVE (OneJob /\ NothingSaid /\ InTurn /\ Told)'
  <2>1. OneJob /\ NothingSaid /\ InTurn /\ Told
    BY <1>2, <1>10 DEF AccountInv
  <2>2. OneJob'
    BY <1>7, <2>1, CallersAre DEF OneJob
  <2>3. NothingSaid'
    <3>1. \A i \in 1 .. Len(accepted) : work'[accepted[i].by].name = work[accepted[i].by].name
      BY <1>6, WaiterIs
    <3> QED
      BY <1>1, <1>6, <1>7, <2>1, <3>1, CallersAre DEF NothingSaid
  <2>4. \A j \in AccountJobs : (Clear(j)' <=> Clear(j)) /\ (Agrees(j)' <=> Agrees(j))
    BY <1>1, <1>6, <1>7, CallersAre DEF Clear, Heard, Agrees
  <2>5. InTurn'
    BY <1>1, <2>1, <2>4 DEF InTurn, OnlyIts
  <2>6. Told'
    <3>1. \A m : Kept(m)' <=> Kept(m)
      BY <1>1, <1>2 DEF Kept
    <3>2. ASSUME NEW j \in AccountJobs PROVE Done(j)'
      BY <1>1, <1>2, <1>6, <2>1, <2>4, <3>1, CallersAre DEF Told, Done, Registered, Removed
    <3> QED
      BY <1>1, <2>1, <3>1, <3>2 DEF Told
  <2> QED
    BY <2>2, <2>3, <2>5, <2>6
<1> QED
  BY <1>8, <1>9, <1>10 DEF AccountInv

\* A stop of LaunchServer ends what is said here about reports.
LEMMA StopKeepsAccounts == ASSUME AccountInv, CallsInv', ServerStops PROVE AccountInv'
<1>1. /\ events' = events \cup {"stop"} /\ accepted' = <<>> /\ work' = work /\ said' = said
      /\ disk' \in {disk, memory} /\ memory' = disk'
      /\ call' = [c \in Callers |->
                     IF c \in {d \in Callers : call[d].phase = "wait"}
                     THEN [call[c] EXCEPT !.phase = "over", !.answer = "error"] ELSE call[c]]
  BY DEF ServerStops, Stops, Happens
<1>2. ~Undisturbed'
  BY <1>1 DEF Undisturbed
<1>3. AccountsTypeOK'
  BY <1>1 DEF AccountInv, AccountsTypeOK, Doing, Busy
<1>4. \A d \in Callers : (Busy(d)' <=> Busy(d)) /\ StepAt(d)' = StepAt(d)
  BY <1>1 DEF Busy, StepAt
<1>5. ASSUME NEW c \in Callers PROVE CalledFor(c)'
  <2>1. CalledFor(c) /\ call[c] \in CallRecords
    BY DEF AccountInv, SentByPlan, CallsInv, CallsTypeOK
  <2>2. CASE call[c].phase = "wait"
    <3>1. call'[c] = [call[c] EXCEPT !.phase = "over", !.answer = "error"]
      BY <1>1, <2>2
    <3>2. call'[c].phase = "over" /\ call'[c].cmd = call[c].cmd
      BY <2>1, <3>1 DEF CallRecords
    <3> QED
      BY <1>4, <2>1, <2>2, <3>2 DEF CalledFor
  <2>3. CASE call[c].phase # "wait"
    <3>1. call'[c] = call[c]
      BY <1>1, <2>3
    <3> QED
      BY <1>4, <2>1, <3>1 DEF CalledFor
  <2> QED
    BY <2>2, <2>3
<1>6. SentByPlan'
  <2>1. Len(accepted') = 0
    BY <1>1
  <2> QED
    BY <1>5, <2>1 DEF SentByPlan
<1> QED
  BY <1>2, <1>3, <1>6 DEF AccountInv

LEMMA AloneKeepsAccounts ==
  ASSUME AccountInv, CallsInv', UNCHANGED <<call, accepted>>, UNCHANGED accountVars PROVE AccountInv'
BY DEF accountVars, AccountInv, AccountsTypeOK, Doing, Busy, StepAt, SentByPlan, CalledFor, SentFor,
       Undisturbed, Unlisted, OneJob, NothingSaid, InTurn, OnlyIts, Clear, Heard, Agrees, Told, Kept,
       Done, Registered, Removed

-----------------------------------------------------------------------------
\* What the panel finds when it starts is what it would report.
LEMMA AccountsStart == ASSUME UsersInit PROVE AccountInv
<1>1. CallsInv
  BY CallsStart
<1>2. /\ call = [c \in Callers |-> NoCall] /\ accepted = <<>> /\ Len(accepted) = 0
      /\ memory = disk /\ said = disk /\ events = {} /\ work = [c \in Callers |-> NoAccountWork]
      /\ disk \in Contents
  BY DEF UsersInit, ControlInit, Contents, Earlier
<1>3. ASSUME NEW c \in Callers
      PROVE  /\ work[c] \in AccountRecords /\ work[c].op = "none" /\ ~work[c].aborted /\ ~Busy(c)
             /\ call[c].phase = "idle"
  <2>1. work[c] = NoAccountWork /\ call[c] = NoCall /\ NoAccountWork.op = "none"
    BY <1>2 DEF NoAccountWork
  <2> QED
    BY <2>1, NoAccountWorkIs, NoCallIsFresh, PlansAre DEF Busy
<1>4. AccountsTypeOK
  <2>1. work \in [Callers -> AccountRecords]
    BY <1>2, NoAccountWorkIs
  <2>2. \A c \in Callers : Doing(c)
    BY <1>3 DEF Doing
  <2> QED
    BY <1>2, <2>1, <2>2 DEF AccountsTypeOK
<1>5. SentByPlan
  BY <1>2, <1>3 DEF SentByPlan, CalledFor
<1>6. OneJob /\ NothingSaid /\ InTurn
  BY <1>2, <1>3, CallersAre DEF OneJob, NothingSaid, InTurn, Clear
<1>7. Told
  BY <1>2, <1>3, CallersAre DEF Told, Done
<1> QED
  BY <1>1, <1>4, <1>5, <1>6, <1>7 DEF AccountInv

\* Every step keeps it.
LEMMA AccountsStep == ASSUME AccountInv, [UsersNext]_usersVars PROVE AccountInv'
<1>1. CallsInv'
  BY CallsStep DEF AccountInv
<1>2. CASE UNCHANGED usersVars \/ ServerStarts
  BY <1>1, <1>2, AloneKeepsAccounts DEF usersVars, controlVars, ServerStarts, Starts
<1>3. CASE RequestPage \/ RunCommand \/ ServerStops
  BY <1>1, <1>3, PageKeeps, RunKeepsAccounts, StopKeepsAccounts
<1>4. ASSUME NEW j \in AccountJobs, RequestAccount(j) \/ CancelAccount(j) PROVE AccountInv'
  BY <1>1, <1>4, RequestKeeps, CancelKeepsAccounts
<1>5. ASSUME NEW c \in Callers,
             SendCommand(c) \/ TakeAnswer(c) \/ ReadDatabase(c) \/ WriteDatabase(c)
             \/ VolumeFails(c) \/ Calling(c)
      PROVE  AccountInv'
  BY <1>1, <1>5, SendKeeps, TakeKeeps, ReadKeeps, WriteKeeps, VolumeKeeps, CallingKeeps
<1> QED
  BY <1>2, <1>3, <1>4, <1>5 DEF UsersNext

\* What the panel has reported of an account lasts, for any number of accounts, jobs and events,
\* whichever job is cancelled: a registration and a password also while the accounts are listed,
\* a deletion unless they are, and neither when LaunchServer stops.
THEOREM AccountsTruly == UsersSpec => []AccountsAreAsReported
<1>1. UsersInit => AccountInv
  BY AccountsStart
<1>2. AccountInv /\ [UsersNext]_usersVars => AccountInv'
  BY AccountsStep
<1>3. AccountInv => AccountsAreAsReported
  <2> SUFFICES ASSUME AccountInv PROVE AccountsAreAsReported
    OBVIOUS
  <2>1. ReportedIsKept
    BY DEF AccountInv, Undisturbed, Told, Kept, ReportedIsKept
  <2>2. DeletedStaysGone
    <3>1. Unlisted => Undisturbed
      BY DEF Unlisted, Undisturbed
    <3> QED
      BY <3>1 DEF AccountInv, Told, Kept, Unlisted, DeletedStaysGone
  <2> QED
    BY <2>1, <2>2 DEF AccountsAreAsReported
<1> QED
  BY <1>1, <1>2, <1>3, PTL DEF UsersSpec

-----------------------------------------------------------------------------
(* The LaunchServer comes and goes.  The argument: a setup is alone until it has registered,   *)
(* and as long as nobody cancels and nothing goes wrong, what is at the managed path before a  *)
(* row names it belongs to the one clone that is past its place.                               *)

WorkRecords == [mode : {"none", "remove"} \cup Modes, at : 0 .. 11, path : Paths,
                aborted : BOOLEAN, back : {"no", "down", "erase"}]

LastStep(mode) == CASE mode = "clone" -> 11 [] mode = "import" -> 8 [] mode = "attach" -> 5
                [] mode = "remove" -> 6 [] OTHER -> 0

Placed(w) ==
    /\ w.mode # "none" => w.at \in 1 .. LastStep(w.mode)
    /\ w.mode = "clone" => w.path = "managed"
    /\ w.back # "no" => w.mode = "clone" /\ w.at \in {1, 4, 5, 6, 7, 8, 9}

SetupTypeOK ==
    /\ tree \in [Paths -> {"none", "marked", "plain", "ruined"}] /\ boxes \in [Paths -> BOOLEAN]
    /\ row \in Paths \cup {"none"} /\ mishaps \in Nat /\ cancels \in Nat
    /\ works \in [SetupJobs -> WorkRecords] /\ \A j \in SetupJobs : Placed(works[j])

\* One setup and one removal at a time, and a row when a setup is done.
NoneAborted == \A j \in SetupJobs : ~works[j].aborted

SetupsExclude ==
    \A j, k \in SetupJobs :
       \/ works[j].mode \in Modes /\ works[k].mode \in Modes
       \/ works[j].mode = "remove" /\ works[k].mode = "remove"
       => j = k

RowFollows ==
    \A j \in SetupJobs :
       /\ works[j].mode \in Modes /\ works[j].at < LastStep(works[j].mode) => row = "none"
       /\ works[j].mode = "remove" => row = works[j].path

Alone == (cancels = 0 => NoneAborted) /\ SetupsExclude /\ RowFollows

\* Nothing went wrong either: what is at the managed path is a registered LaunchServer, or what
\* a clone has put there.
Cloned(w) == w.mode = "clone" /\ w.at \in 4 .. 10

Clean == tree["managed"] = "none" /\ ~boxes["managed"]

Owned(w) ==
    /\ Cloned(w) => tree["managed"] = IF w.at = 10 THEN "plain" ELSE "marked"
    /\ w.back # "no" => w.at # 1
    /\ w.back = "erase" => ~boxes["managed"]
    /\ w.mode \in {"import", "attach"} /\ w.path = "managed" => w.at = 1
    /\ w.mode = "remove" /\ w.path = "managed" =>
          /\ w.at > 4 => ~boxes["managed"]
          /\ w.at > 5 => tree["managed"] = "none"

Accounted ==
    cancels = 0 /\ mishaps = 0 =>
       /\ tree["managed"] = "none" => ~boxes["managed"]
       /\ tree["managed"] # "ruined"
       /\ row = "managed" \/ Clean \/ \E j \in SetupJobs : Cloned(works[j])
       /\ \A j \in SetupJobs : Owned(works[j])

SetupInv == SetupTypeOK /\ Alone /\ Accounted

LEMMA NoWorkIs ==
  NoWork \in WorkRecords /\ Placed(NoWork) /\ NoWork.mode = "none" /\ NoWork.aborted = FALSE
  /\ NoWork.back = "no" /\ NoWork.path = "managed"
BY DEF NoWork, WorkRecords, Placed, Paths, Modes

LEMMA WorkIs ==
  ASSUME SetupTypeOK, NEW j \in SetupJobs
  PROVE  /\ works[j] \in WorkRecords /\ Placed(works[j])
         /\ works[j].mode \in {"none", "clone", "import", "attach", "remove"}
         /\ works[j].at \in 0 .. 11 /\ works[j].path \in Paths /\ works[j].aborted \in BOOLEAN
         /\ works[j].back \in {"no", "down", "erase"}
BY DEF SetupTypeOK, WorkRecords, Modes

\* The steps of each plan by their numbers.
LEMMA CloneIs ==
  /\ Plan.clone[1] = "look" /\ Plan.clone[2] = "clone" /\ Plan.clone[3] = "place"
  /\ Plan.clone[4] = "validate" /\ Plan.clone[5] = "env" /\ Plan.clone[6] = "up"
  /\ Plan.clone[7] = "ready" /\ Plan.clone[8] = "urls" /\ Plan.clone[9] = "unmark"
  /\ Plan.clone[10] = "register" /\ Plan.clone[11] = "provision" /\ Len(Plan.clone) = 11
BY DEF Plan, CloneSteps

LEMMA OthersAre ==
  /\ Plan.import[1] = "inspect" /\ Plan.import[2] = "validate" /\ Plan.import[3] = "env"
  /\ Plan.import[4] = "up" /\ Plan.import[5] = "ready" /\ Plan.import[6] = "urls"
  /\ Plan.import[7] = "register" /\ Plan.import[8] = "provision" /\ Len(Plan.import) = 8
  /\ Plan.attach[1] = "inspect" /\ Plan.attach[2] = "validate" /\ Plan.attach[3] = "ready"
  /\ Plan.attach[4] = "register" /\ Plan.attach[5] = "provision" /\ Len(Plan.attach) = 5
  /\ Plan.remove[1] = "exists" /\ Plan.remove[2] = "stop" /\ Plan.remove[3] = "own"
  /\ Plan.remove[4] = "down" /\ Plan.remove[5] = "erase" /\ Plan.remove[6] = "unregister"
  /\ Len(Plan.remove) = 6
BY DEF Plan

LEMMA PlanEnds ==
  ASSUME SetupTypeOK, NEW j \in SetupJobs, Working(j)
  PROVE  Len(Plan[works[j].mode]) = LastStep(works[j].mode) /\ works[j].at \in 1 .. LastStep(works[j].mode)
<1>1. works[j].mode \in {"clone", "import", "attach", "remove"} /\ Placed(works[j])
  BY WorkIs DEF Working
<1>2. Len(Plan[works[j].mode]) = LastStep(works[j].mode)
  BY <1>1, CloneIs, OthersAre DEF LastStep
<1> QED
  BY <1>1, <1>2 DEF Placed

\* Where a job is that has come to a step.
LEMMA StepIs ==
  ASSUME SetupTypeOK, NEW j \in SetupJobs, Working(j), works[j].back = "no",
         NEW m, m = works[j].mode, NEW i, i = works[j].at
  PROVE  /\ StepOf(j) = "look" => m = "clone" /\ i = 1
         /\ StepOf(j) = "place" => m = "clone" /\ i = 3
         /\ StepOf(j) = "up" => (m = "clone" /\ i = 6) \/ (m = "import" /\ i = 4)
         /\ StepOf(j) = "unmark" => m = "clone" /\ i = 9
         /\ StepOf(j) = "register" <=> m \in Modes /\ i = LastStep(m) - 1
         /\ StepOf(j) = "exists" => m = "remove" /\ i = 1
         /\ StepOf(j) = "down" => m = "remove" /\ i = 4
         /\ StepOf(j) = "erase" => m = "remove" /\ i = 5
         /\ StepOf(j) = "unregister" <=> m = "remove" /\ i = 6
         /\ StepOf(j) \in OnProject \cup {"clone", "provision"} =>
               /\ m = "clone" => i \notin {3, 6, 9, 10}
               /\ m = "remove" => i \in {2, 3}
               /\ m \in {"import", "attach"} /\ i = 1 => StepOf(j) = "inspect"
<1>1. StepOf(j) = Plan[m][i] /\ i \in 1 .. LastStep(m)
  BY PlanEnds DEF StepOf
<1>2. CASE m = "clone"
  <2>1. \/ i = 1 \/ i = 2 \/ i = 3 \/ i = 4 \/ i = 5 \/ i = 6 \/ i = 7 \/ i = 8 \/ i = 9 \/ i = 10
        \/ i = 11
    BY <1>1, <1>2 DEF LastStep
  <2> QED
    BY <1>1, <1>2, <2>1, CloneIs DEF LastStep, Modes, OnProject
<1>3. CASE m = "import"
  <2>1. i = 1 \/ i = 2 \/ i = 3 \/ i = 4 \/ i = 5 \/ i = 6 \/ i = 7 \/ i = 8
    BY <1>1, <1>3 DEF LastStep
  <2> QED
    BY <1>1, <1>3, <2>1, OthersAre DEF LastStep, Modes, OnProject
<1>4. CASE m = "attach"
  <2>1. i = 1 \/ i = 2 \/ i = 3 \/ i = 4 \/ i = 5
    BY <1>1, <1>4 DEF LastStep
  <2> QED
    BY <1>1, <1>4, <2>1, OthersAre DEF LastStep, Modes, OnProject
<1>5. CASE m = "remove"
  <2>1. i = 1 \/ i = 2 \/ i = 3 \/ i = 4 \/ i = 5 \/ i = 6
    BY <1>1, <1>5 DEF LastStep
  <2> QED
    BY <1>1, <1>5, <2>1, OthersAre DEF LastStep, Modes, OnProject
<1> QED
  BY <1>2, <1>3, <1>4, <1>5, WorkIs DEF Working

\* A rollback is at no step of a plan.
LEMMA BackIsNoStep ==
  ASSUME NEW j, works[j].back # "no"
  PROVE  StepOf(j) = works[j].back
BY DEF StepOf

\* One job moves: it stays what it is and never goes back, or it is over.
Moves(j) ==
    /\ works' \in [SetupJobs -> WorkRecords] /\ Placed(works'[j])
    /\ \A k \in SetupJobs : k # j => works'[k] = works[k]
    /\ works'[j].mode \in {"none", works[j].mode}
    /\ works'[j].mode # "none" =>
          /\ works'[j].path = works[j].path /\ works'[j].aborted = works[j].aborted
          /\ works'[j].at >= works[j].at
    /\ works'[j].mode = "none" => ~works'[j].aborted /\ works'[j].back = "no"

Over(j) == Moves(j) /\ works'[j].mode = "none"

NextAt(j) ==
    /\ Moves(j) /\ works'[j].mode = works[j].mode /\ works'[j].at = works[j].at + 1
    /\ works'[j].back = "no"

BackAt(j, b) ==
    /\ Moves(j) /\ works'[j].mode = "clone" /\ works[j].mode = "clone" /\ works'[j].at = works[j].at
    /\ works'[j].back = b

LEMMA EndsIs == ASSUME SetupTypeOK, NEW j \in SetupJobs, Ends(j) PROVE Over(j)
BY NoWorkIs DEF Ends, Over, Moves, SetupTypeOK

LEMMA BackIs ==
  ASSUME SetupTypeOK, NEW j \in SetupJobs, NEW b \in {"down", "erase"},
         works[j].mode = "clone", works[j].at \in {1, 4, 5, 6, 7, 8, 9},
         works' = [works EXCEPT ![j].back = b]
  PROVE  BackAt(j, b)
<1> DEFINE w == [works[j] EXCEPT !.back = b]
<1>1. works' = [works EXCEPT ![j] = w]
  BY DEF SetupTypeOK
<1>2. w \in WorkRecords /\ w.mode = "clone" /\ w.at = works[j].at /\ w.path = works[j].path
      /\ w.aborted = works[j].aborted /\ w.back = b
  BY WorkIs DEF WorkRecords
<1>3. Placed(w)
  BY <1>2, WorkIs DEF Placed, LastStep
<1> HIDE DEF w
<1> QED
  BY <1>1, <1>2, <1>3, WorkIs DEF BackAt, Moves, SetupTypeOK

LEMMA OnwardsIs ==
  ASSUME SetupTypeOK, NEW j \in SetupJobs, Working(j), Onwards(j)
  PROVE  \/ Over(j) /\ works[j].at = LastStep(works[j].mode)
         \/ NextAt(j) /\ works[j].at < LastStep(works[j].mode)
<1>1. works[j].at \in 1 .. LastStep(works[j].mode) /\ Len(Plan[works[j].mode]) = LastStep(works[j].mode)
  BY PlanEnds
<1>2. CASE works[j].at = LastStep(works[j].mode)
  BY <1>1, <1>2, EndsIs DEF Onwards
<1>3. CASE works[j].at # LastStep(works[j].mode)
  <2> DEFINE w == [works[j] EXCEPT !.at = works[j].at + 1]
             v == [w EXCEPT !.back = "no"]
  <2>1. works' = [works EXCEPT ![j] = v]
    BY <1>1, <1>3 DEF Onwards, SetupTypeOK
  <2>2. LastStep(works[j].mode) \in 0 .. 11
    BY DEF LastStep
  <2>3. w \in WorkRecords /\ w.mode = works[j].mode /\ w.at = works[j].at + 1
        /\ w.path = works[j].path /\ w.aborted = works[j].aborted
    <3>1. works[j] \in WorkRecords /\ works[j].at + 1 \in 0 .. 11
      BY <1>1, <1>3, <2>2, WorkIs
    <3> QED
      BY <3>1 DEF WorkRecords
  <2> HIDE DEF w
  <2>4. v \in WorkRecords /\ v.mode = works[j].mode /\ v.at = works[j].at + 1
        /\ v.path = works[j].path /\ v.aborted = works[j].aborted /\ v.back = "no"
    BY <2>3 DEF WorkRecords
  <2> HIDE DEF v
  <2>5. Placed(v)
    BY <1>1, <1>3, <2>2, <2>4, WorkIs DEF Placed
  <2>6. works[j].mode # "none"
    BY DEF Working
  <2>7. works'[j] = v /\ works' \in [SetupJobs -> WorkRecords]
        /\ \A k \in SetupJobs : k # j => works'[k] = works[k]
    BY <2>1, <2>4 DEF SetupTypeOK
  <2>8. Moves(j)
    BY <2>4, <2>5, <2>6, <2>7, WorkIs DEF Moves
  <2> QED
    BY <1>1, <1>3, <2>2, <2>4, <2>7, <2>8 DEF NextAt
<1> QED
  BY <1>2, <1>3

LEMMA FailsIs ==
  ASSUME SetupTypeOK, NEW j \in SetupJobs, Working(j), Fails(j)
  PROVE  \/ Over(j) /\ ~(works[j].mode = "clone" /\ works[j].at \in 4 .. 9)
         \/ BackAt(j, "down") /\ works[j].at \in 4 .. 9
<1>1. works[j].mode = "clone" =>
         (RollsBack(works[j]) <=> works[j].at \in 4 .. 9)
  <2> SUFFICES ASSUME works[j].mode = "clone" PROVE RollsBack(works[j]) <=> works[j].at \in 4 .. 9
    OBVIOUS
  <2>1. works[j].at \in 1 .. 11
    BY PlanEnds DEF LastStep
  <2>2. \/ works[j].at = 1 \/ works[j].at = 2 \/ works[j].at = 3 \/ works[j].at = 4
        \/ works[j].at = 5 \/ works[j].at = 6 \/ works[j].at = 7 \/ works[j].at = 8
        \/ works[j].at = 9 \/ works[j].at = 10 \/ works[j].at = 11
    BY <2>1
  <2> QED
    BY <2>2, CloneIs DEF RollsBack
<1>2. CASE RollsBack(works[j])
  <2>1. works[j].mode = "clone" /\ works[j].at \in 4 .. 9
    BY <1>1, <1>2 DEF RollsBack
  <2>2. works' = [works EXCEPT ![j].back = "down"]
    BY <1>2 DEF Fails
  <2>3. works[j].at \in {1, 4, 5, 6, 7, 8, 9}
    BY <2>1
  <2> QED
    BY <2>1, <2>2, <2>3, BackIs
<1>3. CASE ~RollsBack(works[j])
  BY <1>1, <1>3, EndsIs DEF Fails
<1> QED
  BY <1>2, <1>3

\* Whatever one job does without the row, the others are who they were.
LEMMA MoveIsType ==
  ASSUME SetupTypeOK, NEW j \in SetupJobs, Moves(j)
  PROVE  \A k \in SetupJobs : Placed(works'[k])
BY DEF Moves, SetupTypeOK

LEMMA AloneStays ==
  ASSUME SetupInv, NEW j \in SetupJobs, Moves(j), row' = row, cancels' = cancels
  PROVE  Alone'
<1>1. (cancels = 0 => NoneAborted) /\ SetupsExclude /\ RowFollows
  BY DEF SetupInv, Alone
<1>2. cancels = 0 => NoneAborted'
  BY <1>1 DEF NoneAborted, Moves
<1>3. SetupsExclude'
  BY <1>1 DEF SetupsExclude, Moves, Modes
<1>4. RowFollows'
  <2> SUFFICES ASSUME NEW k \in SetupJobs
      PROVE  /\ works'[k].mode \in Modes /\ works'[k].at < LastStep(works'[k].mode) => row = "none"
             /\ works'[k].mode = "remove" => row = works'[k].path
    BY DEF RowFollows
  <2>1. CASE k # j
    BY <1>1, <2>1 DEF RowFollows, Moves
  <2>2. CASE k = j /\ works'[k].mode # "none"
    <3>1. works'[k].mode = works[k].mode /\ works'[k].path = works[k].path /\ works'[k].at >= works[k].at
      BY <2>2 DEF Moves
    <3>2. works'[k].at \in Nat /\ works[k].at \in Nat /\ LastStep(works[k].mode) \in Nat
      BY WorkIs DEF Moves, WorkRecords, LastStep, SetupInv
    <3>3. works'[k].at < LastStep(works[k].mode) => works[k].at < LastStep(works[k].mode)
      BY <3>1, <3>2
    <3> QED
      BY <1>1, <3>1, <3>3 DEF RowFollows
  <2>3. CASE works'[k].mode = "none"
    BY <2>3 DEF Modes
  <2> QED
    BY <2>1, <2>2, <2>3
<1> QED
  BY <1>2, <1>3, <1>4 DEF Alone

LEMMA TypeStays ==
  ASSUME SetupTypeOK, NEW j \in SetupJobs, Moves(j),
         tree' \in [Paths -> {"none", "marked", "plain", "ruined"}], boxes' \in [Paths -> BOOLEAN],
         row' \in Paths \cup {"none"}, mishaps' \in Nat, cancels' \in Nat
  PROVE  SetupTypeOK'
BY MoveIsType DEF SetupTypeOK, Moves

Quiet == cancels = 0 /\ mishaps = 0

\* A job to which what is at the managed path means nothing.
Inert(w) ==
    /\ ~Cloned(w) /\ w.back = "no"
    /\ w.mode \in {"import", "attach", "remove"} /\ w.path = "managed" =>
          w.mode # "remove" /\ w.at = 1

\* Beside a setup that has not registered, and beside a removal of the managed path, all are so.
LEMMA OthersAreInert ==
  ASSUME SetupInv, Quiet, NEW j \in SetupJobs,
         \/ works[j].mode \in Modes /\ works[j].at < LastStep(works[j].mode)
         \/ works[j].mode = "remove" /\ works[j].path = "managed"
  PROVE  \A k \in SetupJobs : k # j => Inert(works[k])
<1> SUFFICES ASSUME NEW k \in SetupJobs, k # j PROVE Inert(works[k])
  OBVIOUS
<1>1. SetupsExclude /\ RowFollows /\ Owned(works[k]) /\ SetupTypeOK
  BY DEF SetupInv, Quiet, Alone, Accounted
<1>2. Placed(works[k]) /\ works[k].mode \in {"none", "clone", "import", "attach", "remove"}
      /\ works[k].path \in Paths /\ works[k].at \in 0 .. 11
  BY <1>1, WorkIs
<1>3. CASE works[j].mode \in Modes /\ works[j].at < LastStep(works[j].mode)
  <2>1. row = "none" /\ works[k].mode \notin Modes
    BY <1>1, <1>3 DEF RowFollows, SetupsExclude
  <2>2. works[k].mode # "remove"
    BY <1>1, <1>2, <2>1 DEF RowFollows, Paths
  <2> QED
    BY <1>2, <2>1, <2>2 DEF Inert, Cloned, Placed, Modes
<1>4. CASE works[j].mode = "remove" /\ works[j].path = "managed"
  <2>1. row = "managed" /\ works[k].mode # "remove"
    BY <1>1, <1>4 DEF RowFollows, SetupsExclude
  <2>2. ~(works[k].mode \in Modes /\ works[k].at < LastStep(works[k].mode))
    BY <1>1, <2>1 DEF RowFollows
  <2>3. ~Cloned(works[k]) /\ works[k].back = "no"
    BY <1>2, <2>2 DEF Cloned, Placed, LastStep, Modes
  <2> QED
    BY <1>1, <2>1, <2>3 DEF Inert, Owned
<1> QED
  BY <1>3, <1>4

LEMMA InertIsOwned == ASSUME NEW w, Inert(w) PROVE Owned(w)
BY DEF Inert, Owned

\* One job moves and changes what is at the managed path.
LEMMA OneAccounts ==
  ASSUME SetupInv, NEW j \in SetupJobs, Moves(j), cancels' = cancels, mishaps' = mishaps,
         Quiet => /\ \A k \in SetupJobs : k # j => Inert(works[k])
                  /\ tree'["managed"] = "none" => ~boxes'["managed"]
                  /\ tree'["managed"] # "ruined"
                  /\ row' = "managed" \/ Clean' \/ Cloned(works'[j])
                  /\ Owned(works[j])'
  PROVE  Accounted'
<1> SUFFICES ASSUME Quiet
    PROVE  /\ tree'["managed"] = "none" => ~boxes'["managed"]
           /\ tree'["managed"] # "ruined"
           /\ row' = "managed" \/ Clean' \/ \E k \in SetupJobs : Cloned(works'[k])
           /\ \A k \in SetupJobs : Owned(works[k])'
  BY DEF Accounted, Quiet, Clean, Cloned
<1>1. ASSUME NEW k \in SetupJobs, k # j PROVE Owned(works[k])'
  <2>1. works'[k] = works[k] /\ Inert(works[k])
    BY <1>1 DEF Moves
  <2> QED
    BY <2>1 DEF Inert, Owned, Cloned
<1> QED
  BY <1>1

\* One job moves and leaves what is at the managed path alone.
LEMMA AsideAccounts ==
  ASSUME SetupInv, NEW j \in SetupJobs, Moves(j), cancels' = cancels, mishaps' = mishaps, row' = row,
         tree'["managed"] = tree["managed"], boxes'["managed"] = boxes["managed"],
         Quiet => /\ Cloned(works[j]) => Cloned(works'[j])
                  /\ Owned(works[j])'
  PROVE  Accounted'
<1> SUFFICES ASSUME Quiet
    PROVE  /\ tree'["managed"] = "none" => ~boxes'["managed"]
           /\ tree'["managed"] # "ruined"
           /\ row' = "managed" \/ Clean' \/ \E k \in SetupJobs : Cloned(works'[k])
           /\ \A k \in SetupJobs : Owned(works[k])'
  BY DEF Accounted, Quiet, Clean, Cloned
<1>1. /\ tree["managed"] = "none" => ~boxes["managed"]
      /\ tree["managed"] # "ruined"
      /\ row = "managed" \/ Clean \/ \E k \in SetupJobs : Cloned(works[k])
      /\ \A k \in SetupJobs : Owned(works[k])
  BY DEF SetupInv, Accounted, Quiet
<1>2. ASSUME NEW k \in SetupJobs, k # j PROVE Owned(works[k])' /\ works'[k] = works[k]
  <2>1. works'[k] = works[k]
    BY <1>2 DEF Moves
  <2> QED
    BY <1>1, <2>1 DEF Owned, Cloned
<1>3. (\E k \in SetupJobs : Cloned(works[k])) => \E k \in SetupJobs : Cloned(works'[k])
  BY <1>2
<1> QED
  BY <1>1, <1>2, <1>3 DEF Clean

\* Before its place, and for an import of the managed path, there is nothing.
LEMMA NothingYet ==
  ASSUME SetupInv, Quiet, NEW j \in SetupJobs, works[j].mode \in Modes,
         works[j].at < LastStep(works[j].mode), ~Cloned(works[j])
  PROVE  row = "none" /\ Clean
<1>1. row = "none"
  BY DEF SetupInv, Alone, RowFollows, Quiet
<1>2. \A k \in SetupJobs : ~Cloned(works[k])
  BY OthersAreInert DEF Inert
<1> QED
  BY <1>1, <1>2 DEF SetupInv, Accounted, Quiet

LEMMA LookKeepsSetup == ASSUME SetupInv, NEW j \in SetupJobs, LookForOne(j) PROVE SetupInv'
<1>1. SetupTypeOK /\ Working(j) /\ works[j].back = "no" /\ works[j].mode = "clone" /\ works[j].at = 1
  <2>1. Working(j) /\ StepOf(j) = "look" /\ SetupTypeOK
    BY DEF LookForOne, Reaches, SetupInv
  <2>2. works[j].back = "no"
    BY <2>1, BackIsNoStep, WorkIs
  <2> QED
    BY <2>1, <2>2, StepIs
<1>2. UNCHANGED <<tree, boxes, row, mishaps, cancels>>
  BY DEF LookForOne
<1>3. Over(j) \/ NextAt(j) \/ (tree["managed"] = "marked" /\ BackAt(j, "down"))
  <2>1. Onwards(j) \/ Ends(j)
          \/ (tree["managed"] = "marked" /\ works' = [works EXCEPT ![j].back = "down"])
    BY DEF LookForOne
  <2> QED
    BY <1>1, <2>1, OnwardsIs, EndsIs, BackIs
<1>4. Moves(j)
  BY <1>3 DEF Over, NextAt, BackAt
<1>5. SetupTypeOK'
  BY <1>1, <1>2, <1>4, TypeStays DEF SetupTypeOK
<1>6. Alone'
  BY <1>2, <1>4, AloneStays
<1>7. Accounted'
  <2>1. ASSUME Quiet PROVE (Cloned(works[j]) => Cloned(works'[j])) /\ Owned(works[j])'
    <3>1. ~Cloned(works[j])
      BY <1>1 DEF Cloned
    <3>2. tree["managed"] = "none"
      BY <1>1, <2>1, <3>1, NothingYet DEF Clean, Modes, LastStep
    <3>3. Over(j) \/ NextAt(j)
      BY <1>3, <3>2
    <3>4. ~Cloned(works'[j]) /\ works'[j].back = "no" /\ works'[j].mode \in {"none", "clone"}
      BY <1>1, <3>3 DEF Over, NextAt, Moves, Cloned
    <3> QED
      BY <3>1, <3>4 DEF Owned, Cloned
  <2> QED
    BY <1>2, <1>4, <2>1, AsideAccounts
<1> QED
  BY <1>5, <1>6, <1>7 DEF SetupInv

LEMMA PlaceKeeps == ASSUME SetupInv, NEW j \in SetupJobs, Place(j) PROVE SetupInv'
<1>1. SetupTypeOK /\ Working(j) /\ works[j].back = "no" /\ works[j].mode = "clone" /\ works[j].at = 3
  <2>1. Working(j) /\ StepOf(j) = "place" /\ SetupTypeOK
    BY DEF Place, Reaches, SetupInv
  <2>2. works[j].back = "no"
    BY <2>1, BackIsNoStep, WorkIs
  <2> QED
    BY <2>1, <2>2, StepIs
<1>2. UNCHANGED <<boxes, row, mishaps, cancels>> /\ tree' = [tree EXCEPT !["managed"] = "marked"]
  BY DEF Place
<1>3. NextAt(j)
  BY <1>1, OnwardsIs DEF Place, LastStep
<1>4. Moves(j) /\ Paths = {"managed", "external"}
  BY <1>3 DEF NextAt, Paths
<1>5. tree' \in [Paths -> {"none", "marked", "plain", "ruined"}] /\ tree'["managed"] = "marked"
  BY <1>1, <1>2, <1>4 DEF SetupTypeOK
<1>6. SetupTypeOK'
  BY <1>1, <1>2, <1>4, <1>5, TypeStays DEF SetupTypeOK
<1>7. Alone'
  BY <1>2, <1>4, AloneStays
<1>8. Accounted'
  <2>1. ASSUME Quiet PROVE \A k \in SetupJobs : k # j => Inert(works[k])
    BY <1>1, <2>1, OthersAreInert DEF Modes, LastStep
  <2>2. works'[j].mode = "clone" /\ works'[j].at = 4 /\ works'[j].back = "no"
    BY <1>1, <1>3 DEF NextAt
  <2>3. Cloned(works'[j]) /\ Owned(works[j])'
    BY <1>5, <2>2 DEF Cloned, Owned
  <2> QED
    BY <1>2, <1>4, <1>5, <2>1, <2>3, OneAccounts
<1> QED
  BY <1>6, <1>7, <1>8 DEF SetupInv

LEMMA UseKeeps == ASSUME SetupInv, NEW j \in SetupJobs, UseProject(j) PROVE SetupInv'
<1>1. PICK s \in OnProject \cup {"clone", "provision"} :
         Reaches(j, s) /\ (s \in OnProject => Present(works[j].path))
  BY DEF UseProject
<1>2. SetupTypeOK /\ Working(j) /\ works[j].back = "no" /\ StepOf(j) = s
  <2>1. Working(j) /\ StepOf(j) = s /\ SetupTypeOK
    BY <1>1 DEF Reaches, SetupInv
  <2>2. works[j].back = "no"
    BY <2>1, BackIsNoStep, WorkIs DEF OnProject
  <2> QED
    BY <2>1, <2>2
<1>3. UNCHANGED <<tree, boxes, row, mishaps, cancels>> /\ Onwards(j)
  BY DEF UseProject
<1>4. \/ Over(j) /\ works[j].at = LastStep(works[j].mode)
      \/ NextAt(j) /\ works[j].at < LastStep(works[j].mode)
  BY <1>2, <1>3, OnwardsIs
<1>5. Moves(j)
  BY <1>4 DEF Over, NextAt
<1>6. SetupTypeOK'
  BY <1>2, <1>3, <1>5, TypeStays DEF SetupTypeOK
<1>7. Alone'
  BY <1>3, <1>5, AloneStays
<1>8. /\ works[j].mode = "clone" => works[j].at \notin {3, 6, 9, 10}
      /\ works[j].mode = "remove" => works[j].at \in {2, 3}
      /\ works[j].mode \in {"import", "attach"} /\ works[j].at = 1 => s = "inspect"
      /\ works[j].at \in 0 .. 11 /\ works[j].path \in Paths
  BY <1>2, StepIs, WorkIs
<1>9. Accounted'
  <2>1. ASSUME Quiet PROVE (Cloned(works[j]) => Cloned(works'[j])) /\ Owned(works[j])'
    <3>1. CASE Over(j) /\ works[j].at = LastStep(works[j].mode)
      <4>1. ~Cloned(works[j]) /\ works'[j].mode = "none" /\ works'[j].back = "no"
        BY <3>1 DEF Cloned, LastStep, Over, Moves
      <4> QED
        BY <4>1 DEF Owned, Cloned
    <3>2. CASE NextAt(j) /\ works[j].at < LastStep(works[j].mode)
      <4>1. /\ works'[j].mode = works[j].mode /\ works'[j].at = works[j].at + 1
            /\ works'[j].back = "no" /\ works'[j].path = works[j].path /\ Owned(works[j])
        BY <1>2, <2>1, <3>2 DEF NextAt, Moves, Working, SetupInv, Accounted, Quiet
      <4>2. Cloned(works[j]) => works'[j].at \in {5, 6, 8, 9} /\ works[j].at # 10
        <5> SUFFICES ASSUME works[j].mode = "clone", works[j].at \in 4 .. 10
            PROVE  works[j].at + 1 \in {5, 6, 8, 9} /\ works[j].at # 10
          BY <4>1 DEF Cloned
        <5>1. \/ works[j].at = 4 \/ works[j].at = 5 \/ works[j].at = 7 \/ works[j].at = 8
          BY <1>8
        <5> QED
          BY <5>1
      <4>3. Cloned(works'[j]) => Cloned(works[j])
        <5> SUFFICES ASSUME works[j].mode = "clone", works[j].at + 1 \in 4 .. 10
            PROVE  works[j].at \in 4 .. 10
          BY <4>1 DEF Cloned
        <5> QED
          BY <1>8
      <4>4. ~(works[j].mode \in {"import", "attach"} /\ works[j].path = "managed")
        <5> SUFFICES ASSUME works[j].mode \in {"import", "attach"}, works[j].path = "managed" PROVE FALSE
          OBVIOUS
        <5>1. works[j].at = 1 /\ s = "inspect"
          BY <1>8, <4>1 DEF Owned
        <5>2. tree["managed"] # "none"
          BY <1>1, <5>1 DEF Present, OnProject
        <5> QED
          BY <2>1, <3>2, <5>2, NothingYet DEF Clean, Modes, Cloned
      <4>5. Cloned(works[j]) => Cloned(works'[j])
        BY <4>1, <4>2 DEF Cloned
      <4>6. Cloned(works'[j]) => tree["managed"] = IF works'[j].at = 10 THEN "plain" ELSE "marked"
        BY <4>1, <4>2, <4>3 DEF Owned
      <4>7. works'[j].mode = "remove" => works'[j].at = 3 \/ works'[j].at = 4
        <5> SUFFICES ASSUME works[j].mode = "remove" PROVE works'[j].at = 3 \/ works'[j].at = 4
          BY <4>1
        <5>1. works[j].at = 2 \/ works[j].at = 3
          BY <1>8
        <5> QED
          BY <4>1, <5>1
      <4> QED
        BY <1>3, <4>1, <4>4, <4>5, <4>6, <4>7 DEF Owned, Cloned
    <3> QED
      BY <1>4, <3>1, <3>2
  <2> QED
    BY <1>3, <1>5, <2>1, AsideAccounts
<1> QED
  BY <1>6, <1>7, <1>9 DEF SetupInv

\* A step of a plan that is not its last.
LEMMA StepsOn ==
  ASSUME SetupInv, NEW j \in SetupJobs, Working(j), works[j].back = "no",
         works[j].at < LastStep(works[j].mode), Onwards(j)
  PROVE  /\ Moves(j) /\ works'[j].mode = works[j].mode /\ works'[j].at = works[j].at + 1
         /\ works'[j].back = "no" /\ works'[j].path = works[j].path
<1>1. SetupTypeOK /\ LastStep(works[j].mode) \in Nat /\ works[j].at \in Nat
  BY WorkIs DEF SetupInv, LastStep
<1>2. NextAt(j)
  BY <1>1, OnwardsIs
<1> QED
  BY <1>2 DEF NextAt, Moves, Working

LEMMA UpKeeps == ASSUME SetupInv, NEW j \in SetupJobs, ComposeUp(j) PROVE SetupInv'
<1>1. /\ SetupTypeOK /\ Working(j) /\ works[j].back = "no" /\ works[j].path \in Paths
      /\ \/ works[j].mode = "clone" /\ works[j].at = 6
         \/ works[j].mode = "import" /\ works[j].at = 4
  <2>1. Working(j) /\ StepOf(j) = "up" /\ SetupTypeOK
    BY DEF ComposeUp, Compose, Reaches, SetupInv
  <2>2. works[j].back = "no"
    BY <2>1, BackIsNoStep, WorkIs
  <2> QED
    BY <2>1, <2>2, StepIs, WorkIs
<1>2. UNCHANGED <<tree, row, mishaps, cancels>> /\ boxes' = [boxes EXCEPT ![works[j].path] = TRUE]
  BY DEF ComposeUp, Compose
<1>3. /\ Moves(j) /\ works'[j].mode = works[j].mode /\ works'[j].at = works[j].at + 1
      /\ works'[j].back = "no" /\ works'[j].path = works[j].path
  BY <1>1, StepsOn DEF ComposeUp, Compose, LastStep
<1>4. boxes' \in [Paths -> BOOLEAN]
  BY <1>1, <1>2 DEF SetupTypeOK
<1>5. SetupTypeOK'
  BY <1>1, <1>2, <1>3, <1>4, TypeStays DEF SetupTypeOK
<1>6. Alone'
  BY <1>2, <1>3, AloneStays
<1>7. CASE works[j].mode = "clone"
  <2>1. ASSUME Quiet
        PROVE  /\ \A k \in SetupJobs : k # j => Inert(works[k])
               /\ tree["managed"] = "marked"
    <3>1. Owned(works[j]) /\ Cloned(works[j])
      BY <1>1, <1>7, <2>1 DEF SetupInv, Accounted, Quiet, Cloned
    <3> QED
      BY <1>1, <1>7, <2>1, <3>1, OthersAreInert DEF Modes, LastStep, Owned
  <2>2. works'[j].mode = "clone" /\ works'[j].at = 7
    BY <1>1, <1>3, <1>7
  <2>3. Cloned(works'[j]) /\ (Quiet => Owned(works[j])')
    BY <1>2, <1>3, <2>1, <2>2 DEF Cloned, Owned
  <2>4. Accounted'
    BY <1>2, <1>3, <2>1, <2>3, OneAccounts
  <2> QED
    BY <1>5, <1>6, <2>4 DEF SetupInv
<1>8. CASE works[j].mode = "import"
  <2>1. works'[j].mode = "import" /\ works'[j].at = 5
    BY <1>1, <1>3, <1>8
  <2>2. ASSUME Quiet PROVE works[j].path = "external"
    <3>1. Owned(works[j])
      BY <2>2 DEF SetupInv, Accounted, Quiet
    <3> QED
      BY <1>1, <1>8, <3>1 DEF Owned, Paths
  <2>3. ASSUME Quiet PROVE Accounted'
    <3>1. boxes'["managed"] = boxes["managed"]
      BY <1>1, <1>2, <2>2, <2>3 DEF SetupTypeOK, Paths
    <3>2. ~Cloned(works[j]) /\ Owned(works[j])'
      BY <1>3, <1>8, <2>1, <2>2, <2>3 DEF Cloned, Owned
    <3> QED
      BY <1>2, <1>3, <3>1, <3>2, AsideAccounts
  <2>4. Accounted'
    BY <1>2, <2>3 DEF Accounted, Quiet
  <2> QED
    BY <1>5, <1>6, <2>4 DEF SetupInv
<1> QED
  BY <1>1, <1>7, <1>8

LEMMA UnmarkKeeps == ASSUME SetupInv, NEW j \in SetupJobs, Unmark(j) PROVE SetupInv'
<1>1. SetupTypeOK /\ Working(j) /\ works[j].back = "no" /\ works[j].mode = "clone" /\ works[j].at = 9
  <2>1. Working(j) /\ StepOf(j) = "unmark" /\ SetupTypeOK
    BY DEF Unmark, Reaches, SetupInv
  <2>2. works[j].back = "no"
    BY <2>1, BackIsNoStep, WorkIs
  <2> QED
    BY <2>1, <2>2, StepIs
<1>2. /\ UNCHANGED <<boxes, row, mishaps, cancels>>
      /\ tree' = [tree EXCEPT !["managed"] = IF tree["managed"] = "marked" THEN "plain" ELSE tree["managed"]]
  BY DEF Unmark
<1>3. /\ Moves(j) /\ works'[j].mode = "clone" /\ works'[j].at = 10 /\ works'[j].back = "no"
  BY <1>1, StepsOn DEF Unmark, LastStep
<1>4. /\ tree' \in [Paths -> {"none", "marked", "plain", "ruined"}]
      /\ tree["managed"] = "marked" => tree'["managed"] = "plain"
  BY <1>1, <1>2 DEF SetupTypeOK, Paths
<1>5. SetupTypeOK'
  BY <1>1, <1>2, <1>3, <1>4, TypeStays DEF SetupTypeOK
<1>6. Alone'
  BY <1>2, <1>3, AloneStays
<1>7. ASSUME Quiet
      PROVE  (\A k \in SetupJobs : k # j => Inert(works[k])) /\ tree'["managed"] = "plain"
  <2>1. Owned(works[j]) /\ Cloned(works[j])
    BY <1>1, <1>7 DEF SetupInv, Accounted, Quiet, Cloned
  <2> QED
    BY <1>1, <1>4, <1>7, <2>1, OthersAreInert DEF Modes, LastStep, Owned
<1>8. Cloned(works'[j]) /\ (Quiet => Owned(works[j])')
  BY <1>3, <1>7 DEF Cloned, Owned
<1>9. Accounted'
  BY <1>2, <1>3, <1>7, <1>8, OneAccounts
<1> QED
  BY <1>5, <1>6, <1>9 DEF SetupInv

LEMMA ThrowsKeeps == ASSUME SetupInv, NEW j \in SetupJobs, Throws(j) PROVE SetupInv'
<1>1. /\ SetupTypeOK /\ Working(j) /\ works[j].back = "no"
      /\ UNCHANGED <<tree, boxes, row, mishaps, cancels>>
      /\ ~(works[j].mode = "clone" /\ works[j].at = 10)
  <2>1. /\ SetupTypeOK /\ Working(j) /\ works[j].back = "no" /\ StepOf(j) # "register"
        /\ UNCHANGED <<tree, boxes, row, mishaps, cancels>>
    BY DEF Throws, SetupInv
  <2> QED
    BY <2>1, StepIs DEF Modes, LastStep
<1>2. \/ Over(j) /\ ~(works[j].mode = "clone" /\ works[j].at \in 4 .. 9)
      \/ BackAt(j, "down") /\ works[j].at \in 4 .. 9
  BY <1>1, FailsIs DEF Throws
<1>3. Moves(j)
  BY <1>2 DEF Over, BackAt
<1>4. SetupTypeOK'
  BY <1>1, <1>3, TypeStays DEF SetupTypeOK
<1>5. Alone'
  BY <1>1, <1>3, AloneStays
<1>6. ASSUME Quiet PROVE (Cloned(works[j]) => Cloned(works'[j])) /\ Owned(works[j])'
  <2>1. CASE Over(j) /\ ~(works[j].mode = "clone" /\ works[j].at \in 4 .. 9)
    <3>1. ~Cloned(works[j])
      BY <1>1, <2>1 DEF Cloned
    <3>2. works'[j].mode = "none" /\ works'[j].back = "no"
      BY <2>1 DEF Over, Moves
    <3> QED
      BY <3>1, <3>2 DEF Owned, Cloned
  <2>2. CASE BackAt(j, "down") /\ works[j].at \in 4 .. 9
    <3>1. works'[j].mode = "clone" /\ works[j].mode = "clone" /\ works'[j].at = works[j].at
          /\ works'[j].back = "down"
      BY <2>2 DEF BackAt
    <3>2. Owned(works[j])
      BY <1>6 DEF SetupInv, Accounted, Quiet
    <3> QED
      BY <1>1, <2>2, <3>1, <3>2 DEF Owned, Cloned
  <2> QED
    BY <1>2, <2>1, <2>2
<1>7. Accounted'
  BY <1>1, <1>3, <1>6, AsideAccounts
<1> QED
  BY <1>4, <1>5, <1>7 DEF SetupInv

\* A removal of another path, and what it does there, is nothing to the managed one.
LEMMA RemovalAside ==
  ASSUME SetupInv, NEW j \in SetupJobs, Moves(j), works[j].mode = "remove", works[j].path = "external",
         UNCHANGED <<row, mishaps, cancels>>,
         tree'["managed"] = tree["managed"], boxes'["managed"] = boxes["managed"]
  PROVE  Accounted'
<1>1. ~Cloned(works[j]) /\ works'[j].mode \in {"none", "remove"} /\ Placed(works'[j])
      /\ (works'[j].mode = "remove" => works'[j].path = "external")
  BY DEF Cloned, Moves
<1>2. works'[j].back = "no"
  BY <1>1 DEF Placed
<1>3. Owned(works[j])'
  BY <1>1, <1>2 DEF Owned, Cloned
<1> QED
  BY <1>1, <1>3, AsideAccounts

\* A removal of the managed path: nobody else is there.
LEMMA RemovalAccounts ==
  ASSUME SetupInv, NEW j \in SetupJobs, Moves(j), works[j].mode = "remove", works[j].path = "managed",
         UNCHANGED <<row, mishaps, cancels>>,
         Quiet => /\ tree'["managed"] = "none" => ~boxes'["managed"]
                  /\ tree'["managed"] # "ruined"
                  /\ works'[j].mode = "remove" =>
                        /\ works'[j].at > 4 => ~boxes'["managed"]
                        /\ works'[j].at > 5 => tree'["managed"] = "none"
  PROVE  Accounted'
<1> SUFFICES ASSUME Quiet PROVE Accounted'
  BY DEF Accounted, Quiet
<1>1. row = "managed" /\ \A k \in SetupJobs : k # j => Inert(works[k])
  BY OthersAreInert DEF SetupInv, Alone, RowFollows, Quiet
<1>2. works'[j].mode \in {"none", "remove"} /\ Placed(works'[j])
  BY DEF Moves
<1>3. works'[j].back = "no"
  BY <1>2 DEF Placed
<1>4. Owned(works[j])'
  BY <1>2, <1>3 DEF Owned, Cloned
<1> QED
  BY <1>1, <1>4, OneAccounts

LEMMA DownKeepsSetup == ASSUME SetupInv, NEW j \in SetupJobs, ComposeDown(j) PROVE SetupInv'
<1>1. /\ SetupTypeOK /\ Working(j) /\ works[j].back = "no" /\ works[j].path \in Paths
      /\ works[j].mode = "remove" /\ works[j].at = 4 /\ Present(works[j].path)
  <2>1. /\ Working(j) /\ StepOf(j) = "down" /\ SetupTypeOK /\ works[j].back = "no"
        /\ Present(works[j].path)
    BY DEF ComposeDown, Compose, Reaches, SetupInv
  <2> QED
    BY <2>1, StepIs, WorkIs
<1>2. UNCHANGED <<tree, row, mishaps, cancels>> /\ boxes' = [boxes EXCEPT ![works[j].path] = FALSE]
  BY DEF ComposeDown, Compose
<1>3. Moves(j) /\ works'[j].at = 5
  BY <1>1, StepsOn DEF ComposeDown, Compose, LastStep
<1>4. boxes' \in [Paths -> BOOLEAN]
  BY <1>1, <1>2 DEF SetupTypeOK
<1>5. SetupTypeOK'
  BY <1>1, <1>2, <1>3, <1>4, TypeStays DEF SetupTypeOK
<1>6. Alone'
  BY <1>2, <1>3, AloneStays
<1>7. CASE works[j].path = "managed"
  <2>1. ~boxes'["managed"]
    BY <1>1, <1>2, <1>7 DEF SetupTypeOK
  <2>2. Quiet => tree["managed"] # "ruined"
    BY DEF SetupInv, Accounted, Quiet
  <2>3. Accounted'
    BY <1>1, <1>2, <1>3, <1>7, <2>1, <2>2, RemovalAccounts
  <2> QED
    BY <1>5, <1>6, <2>3 DEF SetupInv
<1>8. CASE works[j].path = "external"
  <2>1. boxes'["managed"] = boxes["managed"]
    BY <1>1, <1>2, <1>8 DEF SetupTypeOK, Paths
  <2>2. Accounted'
    BY <1>1, <1>2, <1>3, <1>8, <2>1, RemovalAside
  <2> QED
    BY <1>5, <1>6, <2>2 DEF SetupInv
<1> QED
  BY <1>1, <1>7, <1>8 DEF Paths

LEMMA ExistsKeeps == ASSUME SetupInv, NEW j \in SetupJobs, Exists(j) PROVE SetupInv'
<1>1. /\ SetupTypeOK /\ Working(j) /\ works[j].back = "no" /\ works[j].path \in Paths
      /\ works[j].mode = "remove" /\ works[j].at = 1
  <2>1. Working(j) /\ StepOf(j) = "exists" /\ SetupTypeOK
    BY DEF Exists, Reaches, SetupInv
  <2>2. works[j].back = "no"
    BY <2>1, BackIsNoStep, WorkIs
  <2> QED
    BY <2>1, <2>2, StepIs, WorkIs
<1>2. UNCHANGED <<tree, boxes, row, mishaps, cancels>>
  BY DEF Exists
<1>3. Moves(j) /\ (works'[j].at = 2 \/ tree[works[j].path] = "none")
  <2>1. CASE tree[works[j].path] = "none"
    <3> DEFINE w == [works[j] EXCEPT !.at = 6]
    <3>1. works' = [works EXCEPT ![j] = w]
      BY <2>1, OthersAre DEF Exists, SetupTypeOK
    <3>2. w \in WorkRecords /\ w.mode = "remove" /\ w.at = 6 /\ w.path = works[j].path
          /\ w.aborted = works[j].aborted /\ w.back = "no"
      BY <1>1, WorkIs DEF WorkRecords
    <3>3. Placed(w)
      BY <3>2 DEF Placed, LastStep
    <3> HIDE DEF w
    <3>4. Moves(j)
      BY <1>1, <3>1, <3>2, <3>3 DEF Moves, SetupTypeOK
    <3> QED
      BY <2>1, <3>4
  <2>2. CASE tree[works[j].path] # "none"
    BY <1>1, <2>2, StepsOn DEF Exists, LastStep
  <2> QED
    BY <2>1, <2>2
<1>4. SetupTypeOK'
  BY <1>1, <1>2, <1>3, TypeStays DEF SetupTypeOK
<1>5. Alone'
  BY <1>2, <1>3, AloneStays
<1>6. CASE works[j].path = "managed"
  <2>1. Quiet => tree["managed"] # "ruined" /\ (tree["managed"] = "none" => ~boxes["managed"])
    BY DEF SetupInv, Accounted, Quiet
  <2>2. Accounted'
    BY <1>1, <1>2, <1>3, <1>6, <2>1, RemovalAccounts
  <2> QED
    BY <1>4, <1>5, <2>2 DEF SetupInv
<1>7. CASE works[j].path = "external"
  <2>1. Accounted'
    BY <1>1, <1>2, <1>3, <1>7, RemovalAside
  <2> QED
    BY <1>4, <1>5, <2>1 DEF SetupInv
<1> QED
  BY <1>1, <1>6, <1>7 DEF Paths

LEMMA EraseKeeps == ASSUME SetupInv, NEW j \in SetupJobs, Erase(j) PROVE SetupInv'
<1>1. /\ SetupTypeOK /\ Working(j) /\ works[j].back = "no" /\ works[j].path \in Paths
      /\ works[j].mode = "remove" /\ works[j].at = 5
  <2>1. Working(j) /\ StepOf(j) = "erase" /\ SetupTypeOK /\ works[j].back = "no"
    BY DEF Erase, Reaches, SetupInv
  <2> QED
    BY <2>1, StepIs, WorkIs
<1>2. UNCHANGED <<boxes, row, mishaps, cancels>> /\ tree' = [tree EXCEPT ![works[j].path] = "none"]
  BY DEF Erase
<1>3. Moves(j)
  BY <1>1, StepsOn, EndsIs DEF Erase, LastStep, Over
<1>4. tree' \in [Paths -> {"none", "marked", "plain", "ruined"}]
  BY <1>1, <1>2 DEF SetupTypeOK
<1>5. SetupTypeOK'
  BY <1>1, <1>2, <1>3, <1>4, TypeStays DEF SetupTypeOK
<1>6. Alone'
  BY <1>2, <1>3, AloneStays
<1>7. CASE works[j].path = "managed"
  <2>1. tree'["managed"] = "none"
    BY <1>1, <1>2, <1>7 DEF SetupTypeOK
  <2>2. Quiet => ~boxes["managed"]
    BY <1>1, <1>7 DEF SetupInv, Accounted, Quiet, Owned
  <2>3. Accounted'
    BY <1>1, <1>2, <1>3, <1>7, <2>1, <2>2, RemovalAccounts
  <2> QED
    BY <1>5, <1>6, <2>3 DEF SetupInv
<1>8. CASE works[j].path = "external"
  <2>1. tree'["managed"] = tree["managed"]
    BY <1>1, <1>2, <1>8 DEF SetupTypeOK, Paths
  <2>2. Accounted'
    BY <1>1, <1>2, <1>3, <1>8, <2>1, RemovalAside
  <2> QED
    BY <1>5, <1>6, <2>2 DEF SetupInv
<1> QED
  BY <1>1, <1>7, <1>8 DEF Paths

\* A part of a step that brings containers up or erases files.
LEMMA PartsAre ==
  ASSUME SetupInv, NEW j \in SetupJobs, PartlyUp(j) \/ PartlyErased(j)
  PROVE  /\ SetupTypeOK /\ Working(j)
         /\ tree' \in [Paths -> {"none", "marked", "plain", "ruined"}] /\ boxes' \in [Paths -> BOOLEAN]
         /\ PartlyUp(j) =>
               /\ works[j].back = "no" /\ works[j].path \in Paths
               /\ \/ works[j].mode = "clone" /\ works[j].at = 6
                  \/ works[j].mode = "import" /\ works[j].at = 4
<1>1. SetupTypeOK /\ Working(j) /\ works[j].path \in Paths
  BY WorkIs DEF PartlyUp, PartlyErased, Reaches, SetupInv
<1>2. tree' \in [Paths -> {"none", "marked", "plain", "ruined"}] /\ boxes' \in [Paths -> BOOLEAN]
  BY <1>1 DEF PartlyUp, PartlyErased, SetupTypeOK
<1>3. ASSUME PartlyUp(j)
      PROVE  /\ works[j].back = "no"
             /\ \/ works[j].mode = "clone" /\ works[j].at = 6
                \/ works[j].mode = "import" /\ works[j].at = 4
  <2>1. StepOf(j) = "up"
    BY <1>3 DEF PartlyUp, Reaches
  <2>2. works[j].back = "no"
    BY <1>1, <2>1, BackIsNoStep, WorkIs
  <2> QED
    BY <1>1, <2>1, <2>2, StepIs
<1> QED
  BY <1>1, <1>2, <1>3

\* A step that went wrong midway: containers that came up belong to the clone that rolls back,
\* and after a removal that failed nothing is promised but that setups exclude each other.
LEMMA MidwayKeeps == ASSUME SetupInv, NEW j \in SetupJobs, ThrowsMidway(j) PROVE SetupInv'
<1>1. /\ SetupTypeOK /\ Working(j) /\ UNCHANGED <<row, cancels>> /\ Fails(j)
      /\ tree' \in [Paths -> {"none", "marked", "plain", "ruined"}] /\ boxes' \in [Paths -> BOOLEAN]
      /\ \/ PartlyUp(j) /\ mishaps' = mishaps
         \/ mishaps' = mishaps + 1
  BY PartsAre DEF ThrowsMidway, Mishap
<1>2. \/ Over(j) /\ ~(works[j].mode = "clone" /\ works[j].at \in 4 .. 9)
      \/ BackAt(j, "down") /\ works[j].at \in 4 .. 9
  BY <1>1, FailsIs
<1>3. Moves(j)
  BY <1>2 DEF Over, BackAt
<1>4. mishaps' \in Nat /\ (mishaps' = mishaps + 1 => mishaps' # 0)
  BY <1>1 DEF SetupTypeOK
<1>5. SetupTypeOK'
  BY <1>1, <1>3, <1>4, TypeStays DEF SetupTypeOK
<1>6. Alone'
  BY <1>1, <1>3, AloneStays
<1>7. CASE mishaps' = mishaps + 1
  BY <1>4, <1>5, <1>6, <1>7 DEF SetupInv, Accounted
<1>8. CASE PartlyUp(j) /\ mishaps' = mishaps
  <2>1. /\ works[j].back = "no" /\ works[j].path \in Paths
        /\ \/ works[j].mode = "clone" /\ works[j].at = 6
           \/ works[j].mode = "import" /\ works[j].at = 4
    BY <1>8, PartsAre
  <2>2. tree' = tree /\ boxes' = [boxes EXCEPT ![works[j].path] = TRUE]
    BY <1>8 DEF PartlyUp
  <2>3. CASE works[j].mode = "clone"
    <3>1. ASSUME Quiet
          PROVE  /\ \A k \in SetupJobs : k # j => Inert(works[k])
                 /\ tree["managed"] = "marked"
      <4>1. Owned(works[j]) /\ Cloned(works[j])
        BY <2>1, <2>3, <3>1 DEF SetupInv, Accounted, Quiet, Cloned
      <4> QED
        BY <2>1, <2>3, <3>1, <4>1, OthersAreInert DEF Modes, LastStep, Owned
    <3>2. works'[j].mode = "clone" /\ works'[j].at = 6 /\ works'[j].back = "down"
      BY <1>2, <2>1, <2>3 DEF BackAt
    <3>3. Cloned(works'[j]) /\ (Quiet => Owned(works[j])')
      BY <2>2, <3>1, <3>2 DEF Cloned, Owned
    <3>4. Accounted'
      BY <1>1, <1>3, <1>8, <2>2, <3>1, <3>3, OneAccounts
    <3> QED
      BY <1>5, <1>6, <3>4 DEF SetupInv
  <2>4. CASE works[j].mode = "import"
    <3>1. works'[j].mode = "none" /\ works'[j].back = "no"
      BY <1>2, <2>4 DEF BackAt, Over, Moves
    <3>2. ASSUME Quiet PROVE Accounted'
      <4>1. Owned(works[j])
        BY <3>2 DEF SetupInv, Accounted, Quiet
      <4>2. works[j].path = "external"
        BY <2>1, <2>4, <4>1 DEF Owned, Paths
      <4>3. boxes'["managed"] = boxes["managed"]
        BY <1>1, <2>2, <4>2 DEF SetupTypeOK, Paths
      <4>4. ~Cloned(works[j]) /\ Owned(works[j])'
        BY <2>4, <3>1 DEF Cloned, Owned
      <4> QED
        BY <1>1, <1>3, <1>8, <2>2, <4>3, <4>4, AsideAccounts
    <3>3. Accounted'
      BY <1>1, <1>8, <3>2 DEF Accounted, Quiet
    <3> QED
      BY <1>5, <1>6, <3>3 DEF SetupInv
  <2> QED
    BY <2>1, <2>3, <2>4
<1> QED
  BY <1>1, <1>7, <1>8

\* A rollback is of a setup that has not registered.
LEMMA RollbackIs ==
  ASSUME SetupInv, NEW j \in SetupJobs, Working(j), works[j].back # "no"
  PROVE  /\ SetupTypeOK /\ works[j].mode = "clone" /\ works[j].at \in {1, 4, 5, 6, 7, 8, 9}
         /\ cancels = 0 => ~works[j].aborted
         /\ Quiet => /\ works[j].at # 1 /\ Cloned(works[j])
                     /\ tree["managed"] = "marked"
                     /\ \A k \in SetupJobs : k # j => Inert(works[k])
<1>1. SetupTypeOK /\ works[j].mode = "clone" /\ works[j].at \in {1, 4, 5, 6, 7, 8, 9}
  BY WorkIs DEF SetupInv, Placed
<1>2. cancels = 0 => ~works[j].aborted
  BY DEF SetupInv, Alone, NoneAborted
<1>3. ASSUME Quiet
      PROVE  /\ works[j].at # 1 /\ Cloned(works[j])
             /\ tree["managed"] = "marked"
             /\ \A k \in SetupJobs : k # j => Inert(works[k])
  <2>1. Owned(works[j])
    BY <1>3 DEF SetupInv, Accounted, Quiet
  <2>2. works[j].at # 1 /\ Cloned(works[j])
    BY <1>1, <2>1 DEF Owned, Cloned
  <2>3. tree["managed"] = "marked"
    BY <1>1, <2>1, <2>2 DEF Owned
  <2>4. works[j].mode \in Modes /\ works[j].at < LastStep(works[j].mode)
    BY <1>1 DEF Modes, LastStep
  <2> QED
    BY <1>3, <2>2, <2>3, <2>4, OthersAreInert
<1> QED
  BY <1>1, <1>2, <1>3

LEMMA RollbackDownKeeps == ASSUME SetupInv, NEW j \in SetupJobs, RollbackDown(j) PROVE SetupInv'
<1>1. Working(j) /\ works[j].back = "down" /\ UNCHANGED <<tree, row, cancels>>
  BY DEF RollbackDown
<1>2. /\ SetupTypeOK /\ works[j].mode = "clone" /\ works[j].at \in {1, 4, 5, 6, 7, 8, 9}
      /\ cancels = 0 => ~works[j].aborted
      /\ Quiet => /\ works[j].at # 1 /\ Cloned(works[j])
                  /\ tree["managed"] = "marked"
                  /\ \A k \in SetupJobs : k # j => Inert(works[k])
  BY <1>1, RollbackIs
<1>3. CASE works[j].aborted
  <2>1. Over(j) /\ UNCHANGED <<boxes, mishaps>> /\ Moves(j) /\ cancels # 0
    BY <1>2, <1>3, EndsIs DEF RollbackDown, Over
  <2>2. SetupTypeOK'
    BY <1>1, <1>2, <2>1, TypeStays DEF SetupTypeOK
  <2>3. Alone'
    BY <1>1, <2>1, AloneStays
  <2> QED
    BY <1>1, <2>1, <2>2, <2>3 DEF SetupInv, Accounted
<1>4. CASE ~works[j].aborted
  <2>1. works' = [works EXCEPT ![j].back = "erase"]
        /\ \/ boxes' = [boxes EXCEPT !["managed"] = FALSE] /\ UNCHANGED mishaps
           \/ UNCHANGED boxes /\ mishaps' = mishaps + 1
    BY <1>4 DEF RollbackDown, Mishap
  <2>2. BackAt(j, "erase") /\ Moves(j)
    BY <1>2, <2>1, BackIs DEF BackAt
  <2>3. boxes' \in [Paths -> BOOLEAN] /\ mishaps' \in Nat
    <3>1. boxes \in [Paths -> BOOLEAN] /\ mishaps \in Nat
      BY <1>2 DEF SetupTypeOK
    <3>2. CASE boxes' = [boxes EXCEPT !["managed"] = FALSE] /\ mishaps' = mishaps
      BY <3>1, <3>2
    <3>3. CASE boxes' = boxes /\ mishaps' = mishaps + 1
      BY <3>1, <3>3
    <3> QED
      BY <2>1, <3>2, <3>3
  <2>4. SetupTypeOK'
    BY <1>1, <1>2, <2>2, <2>3, TypeStays DEF SetupTypeOK
  <2>5. Alone'
    BY <1>1, <2>2, AloneStays
  <2>6. CASE mishaps' = mishaps + 1
    <3>1. mishaps' # 0
      BY <1>2, <2>6 DEF SetupTypeOK
    <3> QED
      BY <2>4, <2>5, <3>1 DEF SetupInv, Accounted
  <2>7. CASE boxes' = [boxes EXCEPT !["managed"] = FALSE] /\ mishaps' = mishaps
    <3>1. ~boxes'["managed"]
      BY <1>2, <2>7 DEF SetupTypeOK, Paths
    <3>2. works'[j].mode = "clone" /\ works'[j].at = works[j].at /\ works'[j].back = "erase"
      BY <2>2 DEF BackAt
    <3>3. Quiet => Cloned(works'[j]) /\ Owned(works[j])'
      BY <1>1, <1>2, <3>1, <3>2 DEF Cloned, Owned
    <3>4. Accounted'
      BY <1>1, <1>2, <2>2, <2>7, <3>1, <3>3, OneAccounts
    <3> QED
      BY <2>4, <2>5, <3>4 DEF SetupInv
  <2> QED
    BY <2>1, <2>6, <2>7
<1> QED
  BY <1>2, <1>3, <1>4, WorkIs

LEMMA RollbackEraseKeeps == ASSUME SetupInv, NEW j \in SetupJobs, RollbackErase(j) PROVE SetupInv'
<1>1. Working(j) /\ works[j].back = "erase" /\ UNCHANGED <<boxes, row, cancels>>
  BY DEF RollbackErase
<1>2. /\ SetupTypeOK /\ works[j].mode = "clone" /\ works[j].at \in {1, 4, 5, 6, 7, 8, 9}
      /\ cancels = 0 => ~works[j].aborted
      /\ Quiet => /\ works[j].at # 1 /\ Cloned(works[j])
                  /\ tree["managed"] = "marked"
                  /\ \A k \in SetupJobs : k # j => Inert(works[k])
  BY <1>1, RollbackIs
<1>3. Moves(j) /\ (works[j].at # 1 => Over(j))
  <2>1. Ends(j) \/ (Onwards(j) /\ Plan.clone[works[j].at] = "look")
    BY DEF RollbackErase
  <2>2. CASE Ends(j)
    BY <1>2, <2>2, EndsIs DEF Over
  <2>3. CASE Onwards(j) /\ Plan.clone[works[j].at] = "look"
    <3>1. works[j].at = 1
      BY <1>2, <2>3, CloneIs
    <3> QED
      BY <1>1, <1>2, <2>3, <3>1, OnwardsIs DEF Over, NextAt
  <2> QED
    BY <2>1, <2>2, <2>3
<1>4. /\ tree' \in [Paths -> {"none", "marked", "plain", "ruined"}]
      /\ \/ tree' = [tree EXCEPT !["managed"] = "none"] /\ mishaps' = mishaps
         \/ mishaps' = mishaps + 1
         \/ works[j].aborted /\ mishaps' = mishaps
  <2>1. tree["managed"] \in {"none", "marked", "plain", "ruined"}
    BY <1>2 DEF SetupTypeOK, Paths
  <2> QED
    BY <1>2, <2>1 DEF RollbackErase, Mishap, SetupTypeOK
<1>5. mishaps' \in Nat /\ (mishaps' = mishaps + 1 => mishaps' # 0)
  BY <1>2, <1>4 DEF SetupTypeOK
<1>6. SetupTypeOK'
  BY <1>1, <1>2, <1>3, <1>4, <1>5, TypeStays DEF SetupTypeOK
<1>7. Alone'
  BY <1>1, <1>3, AloneStays
<1>8. CASE tree' = [tree EXCEPT !["managed"] = "none"] /\ mishaps' = mishaps
  <2>1. tree'["managed"] = "none"
    BY <1>2, <1>8 DEF SetupTypeOK, Paths
  <2>2. ASSUME Quiet PROVE Clean' /\ Owned(works[j])'
    <3>1. ~boxes["managed"]
      BY <1>1, <2>2 DEF SetupInv, Accounted, Quiet, Owned
    <3>2. works'[j].mode = "none" /\ works'[j].back = "no"
      BY <1>2, <1>3, <2>2 DEF Over, Moves
    <3> QED
      BY <1>1, <2>1, <3>1, <3>2 DEF Clean, Owned, Cloned
  <2>3. Accounted'
    BY <1>1, <1>2, <1>3, <1>8, <2>1, <2>2, OneAccounts DEF Clean
  <2> QED
    BY <1>6, <1>7, <2>3 DEF SetupInv
<1>9. CASE mishaps' = mishaps + 1 \/ works[j].aborted
  BY <1>1, <1>2, <1>5, <1>6, <1>7, <1>9 DEF SetupInv, Accounted
<1> QED
  BY <1>4, <1>8, <1>9

LEMMA RegisterKeeps == ASSUME SetupInv, NEW j \in SetupJobs, Register(j) PROVE SetupInv'
<1>1. /\ SetupTypeOK /\ Working(j) /\ works[j].back = "no" /\ works[j].path \in Paths
      /\ works[j].mode \in Modes /\ works[j].at = LastStep(works[j].mode) - 1
      /\ UNCHANGED <<tree, boxes, mishaps, cancels>>
  <2>1. Working(j) /\ StepOf(j) = "register" /\ SetupTypeOK /\ UNCHANGED <<tree, boxes, mishaps, cancels>>
    BY DEF Register, Reaches, SetupInv
  <2>2. works[j].back = "no"
    BY <2>1, BackIsNoStep, WorkIs
  <2> QED
    BY <2>1, <2>2, StepIs, WorkIs
<1>2. works[j].at < LastStep(works[j].mode) /\ LastStep(works[j].mode) \in {5, 8, 11}
  BY <1>1 DEF LastStep, Modes
<1>3. Moves(j) /\ row' \in {row, works[j].path}
  BY <1>1, <1>2, StepsOn, EndsIs DEF Register, Over
<1>4. SetupTypeOK'
  <2>1. row' \in Paths \cup {"none"}
    BY <1>1, <1>3 DEF SetupTypeOK
  <2> QED
    BY <1>1, <1>3, <2>1, TypeStays DEF SetupTypeOK
<1>5. /\ row = "none" /\ row' = works[j].path
      /\ \/ cancels # 0 /\ works'[j].mode = "none"
         \/ /\ works'[j].mode = works[j].mode /\ works'[j].at = LastStep(works[j].mode)
            /\ works'[j].back = "no" /\ works'[j].path = works[j].path
      /\ \A k \in SetupJobs : k # j => works[k].mode = "none" /\ works[k].back = "no"
  <2>1. (cancels = 0 => NoneAborted) /\ SetupsExclude /\ RowFollows
    BY DEF SetupInv, Alone
  <2>2. row = "none"
    BY <1>1, <1>2, <2>1 DEF RowFollows
  <2>3. row' = works[j].path /\ IF works[j].aborted THEN Ends(j) ELSE Onwards(j)
    BY <2>2 DEF Register
  <2>4. ASSUME works[j].aborted = TRUE PROVE cancels # 0 /\ works'[j].mode = "none"
    <3>1. cancels # 0
      BY <2>1, <2>4 DEF NoneAborted
    <3>2. Ends(j)
      BY <2>3, <2>4
    <3>3. works'[j].mode = "none"
      BY <1>1, <3>2, EndsIs DEF Over
    <3> QED
      BY <3>1, <3>3
  <2>5. ASSUME works[j].aborted = FALSE
        PROVE  /\ works'[j].mode = works[j].mode /\ works'[j].at = LastStep(works[j].mode)
               /\ works'[j].back = "no" /\ works'[j].path = works[j].path
    <3>1. Onwards(j)
      BY <2>3, <2>5
    <3>2. works'[j].at = works[j].at + 1 /\ works'[j].mode = works[j].mode /\ works'[j].back = "no"
          /\ works'[j].path = works[j].path
      BY <1>1, <1>2, <3>1, StepsOn
    <3>3. works[j].at + 1 = LastStep(works[j].mode)
      BY <1>1, <1>2
    <3> QED
      BY <3>2, <3>3
  <2>6. ASSUME NEW k \in SetupJobs, k # j PROVE works[k].mode = "none" /\ works[k].back = "no"
    <3>1. works[k].mode \notin Modes
      BY <1>1, <2>1, <2>6 DEF SetupsExclude
    <3>2. works[k].path # "none" /\ Placed(works[k])
          /\ works[k].mode \in {"none", "clone", "import", "attach", "remove"}
      BY <1>1, WorkIs DEF Paths
    <3>3. works[k].mode # "remove"
      BY <2>1, <2>2, <3>2 DEF RowFollows
    <3> QED
      BY <3>1, <3>2, <3>3 DEF Placed, Modes
  <2>7. works[j].aborted \in BOOLEAN
    BY <1>1, WorkIs
  <2>8. works[j].aborted = TRUE \/ works[j].aborted = FALSE
    BY <2>7
  <2>9. \/ cancels # 0 /\ works'[j].mode = "none"
        \/ /\ works'[j].mode = works[j].mode /\ works'[j].at = LastStep(works[j].mode)
           /\ works'[j].back = "no" /\ works'[j].path = works[j].path
    BY <2>4, <2>5, <2>8
  <2> QED
    BY <2>2, <2>3, <2>6, <2>9
<1>6. Alone'
  <2>1. cancels' = 0 => NoneAborted'
    BY <1>1, <1>3 DEF SetupInv, Alone, NoneAborted, Moves
  <2>2. SetupsExclude'
    BY <1>3 DEF SetupInv, Alone, SetupsExclude, Moves, Modes
  <2>3. RowFollows'
    <3> SUFFICES ASSUME NEW k \in SetupJobs
        PROVE  /\ works'[k].mode \in Modes /\ works'[k].at < LastStep(works'[k].mode) => row' = "none"
               /\ works'[k].mode = "remove" => row' = works'[k].path
      BY DEF RowFollows
    <3>1. CASE k = j
      <4>1. CASE works'[j].mode = "none"
        BY <3>1, <4>1 DEF Modes
      <4>2. CASE works'[j].mode = works[j].mode /\ works'[j].at = LastStep(works[j].mode)
        <5>1. works'[j].mode # "remove" /\ works'[j].at = LastStep(works'[j].mode)
          BY <1>1, <4>2 DEF Modes
        <5>2. ~(works'[j].at < LastStep(works'[j].mode))
          BY <1>2, <4>2, <5>1
        <5> QED
          BY <3>1, <5>1, <5>2
      <4> QED
        BY <1>5, <4>1, <4>2
    <3>2. CASE k # j
      <4>1. works'[k].mode = "none"
        BY <1>3, <1>5, <3>2 DEF Moves
      <4> QED
        BY <4>1 DEF Modes
    <3> QED
      BY <3>1, <3>2
  <2> QED
    BY <2>1, <2>2, <2>3 DEF Alone
<1>7. Accounted'
  <2>1. ASSUME Quiet
        PROVE  /\ \A k \in SetupJobs : k # j => Inert(works[k])
               /\ tree["managed"] = "none" => ~boxes["managed"]
               /\ tree["managed"] # "ruined"
               /\ row' = "managed" \/ Clean
               /\ Owned(works[j])'
    <3>1. \A k \in SetupJobs : k # j => Inert(works[k])
      BY <1>1, <1>2, <2>1, OthersAreInert
    <3>2. Owned(works[j]) /\ tree["managed"] # "ruined"
          /\ (tree["managed"] = "none" => ~boxes["managed"])
      BY <2>1 DEF SetupInv, Accounted, Quiet
    <3>3. row' = "managed" \/ Clean
      <4>1. CASE works[j].mode = "clone"
        BY <1>1, <1>5, <2>1, <4>1, WorkIs DEF Placed, Quiet
      <4>2. CASE works[j].mode # "clone"
        <5>1. ~Cloned(works[j])
          BY <4>2 DEF Cloned
        <5> QED
          BY <1>1, <1>2, <2>1, <5>1, NothingYet
      <4> QED
        BY <4>1, <4>2
    <3>4. ~Cloned(works'[j])
      BY <1>5, <2>1 DEF Cloned, LastStep, Quiet
    <3>5. works[j].path = "managed" /\ works[j].mode \in {"import", "attach"} => works[j].at = 1
      BY <3>2 DEF Owned
    <3>6. works[j].at # 1
      BY <1>1, <1>2 DEF LastStep
    <3>7. Owned(works[j])'
      BY <1>1, <1>5, <2>1, <3>4, <3>5, <3>6 DEF Owned, Cloned, Modes, Quiet
    <3> QED
      BY <3>1, <3>2, <3>3, <3>7
  <2>2. Clean => Clean'
    BY <1>1 DEF Clean
  <2> QED
    BY <1>1, <1>3, <2>1, <2>2, OneAccounts
<1> QED
  BY <1>4, <1>6, <1>7 DEF SetupInv

LEMMA UnregisterKeeps == ASSUME SetupInv, NEW j \in SetupJobs, Unregister(j) PROVE SetupInv'
<1>1. /\ SetupTypeOK /\ Working(j) /\ works[j].back = "no" /\ works[j].path \in Paths
      /\ works[j].mode = "remove" /\ works[j].at = 6
      /\ UNCHANGED <<tree, boxes, mishaps, cancels>> /\ row' = "none"
  <2>1. Working(j) /\ StepOf(j) = "unregister" /\ SetupTypeOK
        /\ UNCHANGED <<tree, boxes, mishaps, cancels>> /\ row' = "none"
    BY DEF Unregister, Reaches, SetupInv
  <2>2. works[j].back = "no"
    BY <2>1, BackIsNoStep, WorkIs
  <2> QED
    BY <2>1, <2>2, StepIs, WorkIs
<1>2. Over(j) /\ Moves(j)
  BY <1>1, OnwardsIs DEF Unregister, Over, LastStep
<1>3. SetupTypeOK'
  BY <1>1, <1>2, TypeStays DEF SetupTypeOK
<1>4. Alone'
  <2>1. (cancels = 0 => NoneAborted) /\ SetupsExclude /\ RowFollows
    BY DEF SetupInv, Alone
  <2>2. cancels' = 0 => NoneAborted'
    BY <1>1, <1>2, <2>1 DEF NoneAborted, Moves
  <2>3. SetupsExclude'
    BY <1>2, <2>1 DEF SetupsExclude, Moves, Modes
  <2>4. RowFollows'
    <3> SUFFICES ASSUME NEW k \in SetupJobs PROVE works'[k].mode # "remove"
      BY <1>1 DEF RowFollows
    <3> QED
      BY <1>1, <1>2, <2>1 DEF SetupsExclude, Over, Moves
  <2> QED
    BY <2>2, <2>3, <2>4 DEF Alone
<1>5. ASSUME Quiet PROVE Clean /\ \A k \in SetupJobs : Owned(works[k])
  <2>1. Owned(works[j]) /\ row = works[j].path /\ (row = "managed" \/ Clean \/ \E k \in SetupJobs : Cloned(works[k]))
        /\ \A k \in SetupJobs : Owned(works[k])
    BY <1>1, <1>5 DEF SetupInv, Accounted, Quiet, Alone, RowFollows
  <2>2. CASE works[j].path = "managed"
    BY <1>1, <2>1, <2>2 DEF Owned, Clean
  <2>3. CASE works[j].path = "external"
    <3>1. ASSUME NEW k \in SetupJobs PROVE ~Cloned(works[k])
      <4>1. RowFollows /\ row # "none"
        BY <1>1, <1>5, <2>1 DEF SetupInv, Alone, Quiet, Paths
      <4> QED
        BY <4>1 DEF RowFollows, Cloned, LastStep, Modes
    <3> QED
      BY <2>1, <2>3, <3>1
  <2> QED
    BY <1>1, <2>1, <2>2, <2>3 DEF Paths
<1>6. Accounted'
  <2> SUFFICES ASSUME Quiet PROVE Accounted'
    BY <1>1 DEF Accounted, Quiet
  <2>1. Clean' /\ tree'["managed"] # "ruined"
    BY <1>1, <1>5 DEF Clean
  <2>2. \A k \in SetupJobs : Owned(works[k])'
    <3>1. ASSUME NEW k \in SetupJobs, k # j PROVE Owned(works[k])'
      BY <1>1, <1>2, <1>5, <3>1 DEF Owned, Cloned, Moves
    <3>2. Owned(works[j])'
      BY <1>2 DEF Owned, Cloned, Over, Moves
    <3> QED
      BY <3>1, <3>2
  <2> QED
    BY <2>1, <2>2 DEF Accounted, Clean
<1> QED
  BY <1>3, <1>4, <1>6 DEF SetupInv

\* A new job is at its first step, and there is nothing that it owns.
LEMMA EmployKeeps ==
  ASSUME SetupInv, NEW j \in SetupJobs, NEW m \in {"clone", "import", "attach", "remove"},
         NEW p \in Paths, m = "clone" => p = "managed", Employ(j, m, p),
         \/ m = "remove" /\ row = p /\ \A k \in SetupJobs : works[k].mode # "remove"
         \/ m # "remove" /\ row = "none" /\ \A k \in SetupJobs : works[k].mode \notin Modes
  PROVE  SetupInv'
<1> DEFINE w == [NoWork EXCEPT !.mode = m, !.at = 1, !.path = p]
<1>1. /\ w \in WorkRecords /\ w.mode = m /\ w.at = 1 /\ w.path = p /\ ~w.aborted /\ w.back = "no"
  <2> DEFINE v == [NoWork EXCEPT !.mode = m]
             u == [v EXCEPT !.at = 1]
  <2>1. v \in WorkRecords /\ v.mode = m /\ ~v.aborted /\ v.back = "no"
    BY NoWorkIs DEF WorkRecords, Modes
  <2>2. w = [u EXCEPT !.path = p]
    OBVIOUS
  <2> HIDE DEF v, w
  <2>3. u \in WorkRecords /\ u.mode = m /\ u.at = 1 /\ ~u.aborted /\ u.back = "no"
    BY <2>1 DEF WorkRecords
  <2> HIDE DEF u
  <2> QED
    BY <2>2, <2>3 DEF WorkRecords
<1>2. /\ UNCHANGED <<tree, boxes, row, mishaps, cancels>> /\ works' = [works EXCEPT ![j] = w]
      /\ works[j].mode = "none"
  BY DEF Employ, Working
<1> HIDE DEF w
<1>3. /\ works' \in [SetupJobs -> WorkRecords] /\ works'[j] = w
      /\ \A k \in SetupJobs : k # j => works'[k] = works[k]
  BY <1>1, <1>2 DEF SetupInv, SetupTypeOK
<1>4. SetupTypeOK'
  <2>1. Placed(w)
    BY <1>1 DEF Placed, LastStep
  <2> QED
    BY <1>2, <1>3, <2>1 DEF SetupInv, SetupTypeOK
<1>5. Alone'
  <2>1. (cancels = 0 => NoneAborted) /\ SetupsExclude /\ RowFollows
    BY DEF SetupInv, Alone
  <2>2. cancels' = 0 => NoneAborted'
    BY <1>1, <1>2, <1>3, <2>1 DEF NoneAborted
  <2>3. SetupsExclude'
    BY <1>1, <1>3, <2>1 DEF SetupsExclude, Modes
  <2>4. RowFollows'
    <3> SUFFICES ASSUME NEW k \in SetupJobs
        PROVE  /\ works'[k].mode \in Modes /\ works'[k].at < LastStep(works'[k].mode) => row = "none"
               /\ works'[k].mode = "remove" => row = works'[k].path
      BY <1>2 DEF RowFollows
    <3>1. CASE k = j
      BY <1>1, <1>3, <3>1 DEF Modes
    <3>2. CASE k # j
      BY <1>3, <2>1, <3>2 DEF RowFollows
    <3> QED
      BY <3>1, <3>2
  <2> QED
    BY <2>2, <2>3, <2>4 DEF Alone
<1>6. Accounted'
  <2> SUFFICES ASSUME Quiet PROVE Accounted'
    BY <1>2 DEF Accounted, Quiet
  <2>1. /\ tree["managed"] = "none" => ~boxes["managed"]
        /\ tree["managed"] # "ruined"
        /\ row = "managed" \/ Clean \/ \E k \in SetupJobs : Cloned(works[k])
        /\ \A k \in SetupJobs : Owned(works[k])
    BY DEF SetupInv, Accounted, Quiet
  <2>2. Owned(works[j])'
    BY <1>1, <1>3 DEF Owned, Cloned
  <2>3. ASSUME NEW k \in SetupJobs, k # j PROVE Owned(works[k])'
    BY <1>2, <1>3, <2>1, <2>3 DEF Owned, Cloned
  <2>4. row' = "managed" \/ Clean' \/ \E k \in SetupJobs : Cloned(works'[k])
    <3>1. ASSUME NEW k \in SetupJobs, Cloned(works[k]) PROVE Cloned(works'[k])
      BY <1>2, <1>3, <3>1 DEF Cloned
    <3>2. Clean => Clean'
      BY <1>2 DEF Clean
    <3> QED
      BY <1>2, <2>1, <3>1, <3>2
  <2>5. \A k \in SetupJobs : Owned(works[k])'
    BY <2>2, <2>3
  <2> QED
    BY <1>2, <2>1, <2>4, <2>5 DEF Accounted, Cloned, Clean
<1> QED
  BY <1>4, <1>5, <1>6 DEF SetupInv

LEMMA RequestsKeep ==
  ASSUME SetupInv, NEW j \in SetupJobs, RequestSetup(j) \/ RequestRemoval(j) PROVE SetupInv'
<1>2. CASE RequestSetup(j)
  <2>1. PICK m \in Modes, p \in Paths : (m = "clone" => p = "managed") /\ Employ(j, m, p)
    BY <1>2 DEF RequestSetup
  <2>2. row = "none" /\ \A k \in SetupJobs : works[k].mode \notin Modes
    BY <1>2 DEF RequestSetup, SetupActive
  <2>3. m \in {"clone", "import", "attach", "remove"} /\ m # "remove"
    BY DEF Modes
  <2> QED
    BY <2>1, <2>2, <2>3, EmployKeeps
<1>3. CASE RequestRemoval(j)
  <2>1. row \in Paths /\ Employ(j, "remove", row)
    BY <1>3 DEF RequestRemoval, SetupInv, SetupTypeOK
  <2>2. \A k \in SetupJobs : works[k].mode # "remove"
    BY <1>3 DEF RequestRemoval, RemovalActive
  <2> QED
    BY <2>1, <2>2, EmployKeeps
<1> QED
  BY <1>2, <1>3

LEMMA CancelKeepsSetup == ASSUME SetupInv, NEW j \in SetupJobs, CancelSetup(j) PROVE SetupInv'
<1>1. /\ UNCHANGED <<tree, boxes, row, mishaps>> /\ cancels' = cancels + 1
      /\ works' = [works EXCEPT ![j].aborted = TRUE]
  BY DEF CancelSetup
<1> DEFINE w == [works[j] EXCEPT !.aborted = TRUE]
<1>2. w \in WorkRecords /\ Placed(w)
  BY WorkIs DEF WorkRecords, Placed, SetupInv
<1>3. works' = [works EXCEPT ![j] = w]
  BY <1>1 DEF SetupInv, SetupTypeOK
<1> HIDE DEF w
<1>4. cancels' # 0 /\ cancels' \in Nat
  BY <1>1 DEF SetupInv, SetupTypeOK
<1>5. SetupTypeOK'
  BY <1>1, <1>2, <1>3, <1>4 DEF SetupInv, SetupTypeOK
<1>6. \A k \in SetupJobs : /\ works'[k].mode = works[k].mode /\ works'[k].at = works[k].at
                           /\ works'[k].path = works[k].path
  BY <1>1, WorkIs DEF SetupInv, SetupTypeOK, WorkRecords
<1>7. SetupsExclude' /\ RowFollows'
  BY <1>1, <1>6 DEF SetupInv, Alone, SetupsExclude, RowFollows
<1> QED
  BY <1>4, <1>5, <1>7 DEF SetupInv, Alone, Accounted

LEMMA CrashKeepsSetup == ASSUME SetupInv, SetupCrash PROVE SetupInv'
<1>1. /\ works' = [j \in SetupJobs |-> NoWork] /\ mishaps' = mishaps + 1
      /\ UNCHANGED <<row, cancels>>
      /\ tree' \in [Paths -> {"none", "marked", "plain", "ruined"}] /\ boxes' \in [Paths -> BOOLEAN]
  BY PartsAre DEF SetupCrash, Mishap, SetupInv, SetupTypeOK
<1>2. mishaps' # 0 /\ mishaps' \in Nat
  BY <1>1 DEF SetupInv, SetupTypeOK
<1>3. SetupTypeOK'
  BY <1>1, <1>2, NoWorkIs DEF SetupInv, SetupTypeOK
<1>4. Alone'
  BY <1>1, NoWorkIs DEF Alone, NoneAborted, SetupsExclude, RowFollows, Modes
<1> QED
  BY <1>2, <1>3, <1>4 DEF SetupInv, Accounted

LEMMA SetupStarts == ASSUME SetupInit PROVE SetupInv
<1> USE DEF SetupInit
<1>1. SetupTypeOK
  BY NoWorkIs DEF SetupTypeOK, Paths
<1>2. Alone
  BY NoWorkIs DEF Alone, NoneAborted, SetupsExclude, RowFollows, Modes
<1>3. Accounted
  BY NoWorkIs DEF Accounted, Clean, Owned, Cloned, Paths
<1> QED
  BY <1>1, <1>2, <1>3 DEF SetupInv

LEMMA SetupStepKeeps == ASSUME SetupInv, [SetupNext]_setupVars PROVE SetupInv'
<1>1. CASE UNCHANGED setupVars
  <2>1. UNCHANGED <<tree, boxes, row, works, mishaps, cancels>>
    BY <1>1 DEF setupVars
  <2>2. SetupTypeOK'
    BY <2>1 DEF SetupInv, SetupTypeOK
  <2>3. Alone'
    BY <2>1 DEF SetupInv, Alone, NoneAborted, SetupsExclude, RowFollows
  <2>4. Accounted'
    BY <2>1 DEF SetupInv, Accounted, Clean, Owned, Cloned
  <2> QED
    BY <2>2, <2>3, <2>4 DEF SetupInv
<1>2. CASE SetupCrash
  BY <1>2, CrashKeepsSetup
<1>3. ASSUME NEW j \in SetupJobs,
             \/ RequestSetup(j) \/ RequestRemoval(j) \/ CancelSetup(j)
             \/ LookForOne(j) \/ Place(j) \/ UseProject(j) \/ ComposeUp(j) \/ Unmark(j)
             \/ Register(j) \/ Exists(j) \/ ComposeDown(j) \/ Erase(j) \/ Unregister(j)
             \/ Throws(j) \/ ThrowsMidway(j) \/ RollbackDown(j) \/ RollbackErase(j)
      PROVE  SetupInv'
  BY <1>3, RequestsKeep, CancelKeepsSetup, LookKeepsSetup, PlaceKeeps, UseKeeps, UpKeeps, UnmarkKeeps,
     RegisterKeeps, ExistsKeeps, DownKeepsSetup, EraseKeeps, UnregisterKeeps, ThrowsKeeps,
     MidwayKeeps, RollbackDownKeeps, RollbackEraseKeeps
<1> QED
  BY <1>1, <1>2, <1>3 DEF SetupNext

LEMMA SetupAlways == SetupSpec => []SetupInv
<1>1. SetupInit => SetupInv
  BY SetupStarts
<1>2. SetupInv /\ [SetupNext]_setupVars => SetupInv'
  BY SetupStepKeeps
<1> QED
  BY <1>1, <1>2, PTL DEF SetupSpec

\* When all jobs are over and no row names a LaunchServer, the managed path has neither files nor
\* containers, whatever has failed in setups, as far as nobody cancelled one, no removal and no
\* rollback failed and the API did not stop.
THEOREM SetupLeavesNothing == SetupSpec => []FailedSetupLeavesNothing
<1>1. SetupInv => FailedSetupLeavesNothing
  <2> SUFFICES ASSUME SetupInv, SetupIdle, row = "none", Quiet PROVE Clean
    BY DEF FailedSetupLeavesNothing, Clean, Quiet
  <2>1. row = "managed" \/ Clean \/ \E j \in SetupJobs : Cloned(works[j])
    BY DEF SetupInv, Accounted, Quiet
  <2>2. \A j \in SetupJobs : ~Cloned(works[j])
    BY DEF SetupIdle, Working, Cloned
  <2> QED
    BY <2>1, <2>2
<1> QED
  BY <1>1, SetupAlways, PTL

\* A clone that is unmarked and not registered is at its registration.
LEMMA UnmarkedIsRegistered ==
  ASSUME SetupInv, row = "none", Quiet
  PROVE  \/ tree["managed"] \in {"none", "marked"}
         \/ \E j \in SetupJobs : works[j].mode = "clone" /\ StepOf(j) = "register"
<1>1. CASE Clean
  BY <1>1 DEF Clean
<1>2. CASE ~Clean
  <2>1. PICK j \in SetupJobs : Cloned(works[j])
    BY <1>2 DEF SetupInv, Accounted, Quiet
  <2>2. Owned(works[j])
    BY DEF SetupInv, Accounted, Quiet
  <2>3. CASE works[j].at # 10
    BY <2>1, <2>2, <2>3 DEF Owned
  <2>4. CASE works[j].at = 10
    <3>1. works[j].mode = "clone" /\ works[j].back = "no" /\ Working(j)
      BY <2>1, <2>4, WorkIs DEF Cloned, Working, Placed, SetupInv
    <3>2. StepOf(j) = "register"
      BY <2>4, <3>1, StepIs DEF LastStep, Modes, SetupInv
    <3> QED
      BY <3>1, <3>2
  <2> QED
    BY <2>3, <2>4
<1> QED
  BY <1>1, <1>2

\* What rolls back is a setup, and so no row names anything and no other setup is under way.
LEMMA RollsBackAlone ==
  ASSUME SetupInv, NEW j \in SetupJobs, works[j].back # "no"
  PROVE  row = "none" /\ \A k \in SetupJobs \ {j} : works[k].mode \notin Modes
<1>1. works[j].mode = "clone" /\ works[j].at < 11
  BY WorkIs DEF Placed, SetupInv
<1>2. row = "none"
  BY <1>1 DEF SetupInv, Alone, RowFollows, Modes, LastStep
<1>3. \A k \in SetupJobs \ {j} : works[k].mode \notin Modes
  BY <1>1 DEF SetupInv, Alone, SetupsExclude, Modes
<1> QED
  BY <1>2, <1>3

\* A crash in a setup that does not remove files just then leaves the managed path as it was, as
\* far as the next setup looks at it.
LEMMA CrashLeaves ==
  ASSUME SetupCrash, \A j \in SetupJobs : Working(j) => StepOf(j) # "erase"
  PROVE  tree' = tree
BY DEF SetupCrash, PartlyUp, PartlyErased, Reaches

\* A crash, other than in the middle of a rollback's removal of files, leaves what the next setup
\* recognizes, and a rollback, also one beside cancelled jobs, erases only what the setup has put
\* there or an interrupted one has left.
THEOREM SetupsKnowTheirOwn == SetupSpec => SetupKnowsItsOwn
<1>1. SetupInv /\ [SetupNext]_setupVars =>
         [SetupCrash /\ row = "none" /\ mishaps = 0 /\ cancels = 0
          /\ (\A j \in SetupJobs : Working(j) => StepOf(j) # "erase") =>
             \/ tree'["managed"] \in {"none", "marked"}
             \/ \E j \in SetupJobs : works[j].mode = "clone" /\ StepOf(j) = "register"]_setupVars
  BY UnmarkedIsRegistered, CrashLeaves DEF Quiet
<1>2. SetupInv /\ [SetupNext]_setupVars =>
         [\A j \in SetupJobs :
             works[j].back # "no" /\ works'[j] # works[j] /\ (tree' # tree \/ boxes' # boxes) =>
                /\ row # "managed"
                /\ \A k \in SetupJobs \ {j} : works[k].mode \notin Modes]_setupVars
  BY RollsBackAlone
<1> QED
  BY <1>1, <1>2, SetupAlways, PTL
     DEF SetupSpec, SetupKnowsItsOwn, InterruptedIsRecognized, SetupErasesOnlyItsOwn
=============================================================================

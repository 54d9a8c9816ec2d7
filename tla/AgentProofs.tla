------------------------------ MODULE AgentProofs ------------------------------
(***************************************************************************)
(* What the panel and the machine of an agent agree on beside commands: the   *)
(* live files and the journal of a game server, and its installation, for any *)
(* number of requests, connections, lines, runs and faults.  Each part has an *)
(* inductive invariant of its own, stated where the part begins.              *)
(***************************************************************************)
EXTENDS LiveFiles, JournalStream, ServerInstall, SequenceTheorems, TLAPS

-----------------------------------------------------------------------------
(* Live files.  The argument: connections follow each other, each carries its requests in the *)
(* order they were made, and so the next request the agent does is newer than every one it    *)
(* has done (DoneBefore).                                                                     *)

Made(r) == request[r].op # "none"

\* Requests are made in their order, each on the connection there was.
MadeInOrder ==
    \A r \in Requests :
       /\ \A q \in Requests : Made(r) /\ q < r =>
             Made(q) /\ (request[r].sock = 0 \/ request[q].sock <= request[r].sock)
       /\ ~Made(r) => request[r] = NoRequest /\ applied[r] = Nought
       /\ Made(r) => /\ request[r].path \in Files /\ request[r].to \in Files
                     /\ request[r].path # request[r].to => request[r].op \in {"move", "delete"}
       /\ request[r].sock # 0 => request[r].sock \in opened
       /\ current # 0 => request[r].sock <= current

\* Connections are opened in their order; those of the agent and of the panel are the last.
OpenedInOrder ==
    /\ opened \subseteq Conns
    /\ \A s \in opened, t \in Conns : t < s => t \in opened
    /\ conn # 0 => conn \in opened /\ \A s \in opened : s <= conn
    /\ current # 0 => current \in opened /\ \A s \in opened : s <= current

\* What is on its way to the agent has not been done, and comes in the order it was made.
DownInOrder ==
    \A s \in Conns : \A i \in 1 .. Len(down[s]) :
       /\ request[down[s][i]].sock = s /\ Made(down[s][i]) /\ applied[down[s][i]] = Nought
       /\ \A j \in 1 .. Len(down[s]) : i < j => down[s][i] < down[s][j]

\* It is newer than everything that was done on its connection.
DoneBefore ==
    \A q \in Requests : applied[q].times # 0 =>
       /\ Made(q) /\ request[q].sock # 0
       /\ \A i \in 1 .. Len(down[request[q].sock]) : q < down[request[q].sock][i]

\* An answer on its way tells what its request gave.
AnswersTell ==
    \A s \in Conns : \A i \in 1 .. Len(up[s]) :
       /\ up[s][i].id \in Requests
       /\ applied[up[s][i].id] = [times |-> 1, ok |-> up[s][i].ok, seen |-> up[s][i].seen,
                                  touched |-> applied[up[s][i].id].touched]

\* What was written is in place, what was deleted is gone, or a newer request has changed it.
InPlace(r, f) == file[f] = Left(r) \/ \E q \in Requests : q > r /\ f \in applied[q].touched

DoneIsInPlace ==
    \A r \in Requests :
       /\ applied[r].ok => applied[r].times = 1
       /\ applied[r].ok /\ request[r].op \in Changes =>
             InPlace(r, request[r].path) /\ InPlace(r, request[r].to)

LiveTypeOK ==
    /\ request \in [Requests -> [op : {"none"} \cup Operations, path : {"none"} \cup Files,
                                 to : {"none"} \cup Files, sock : {0} \cup Conns,
                                 phase : {"none", "waiting", "ok", "failed"},
                                 seen : {0, Before} \cup Requests]]
    /\ current \in {0} \cup Conns /\ bound \subseteq Conns /\ conn \in {0} \cup Conns
    /\ down \in [Conns -> Seq(Requests)]
    /\ up \in [Conns -> Seq([id : Requests, ok : BOOLEAN, seen : {0, Before} \cup Requests])]
    /\ file \in [Files -> {0, Before} \cup Requests]
    /\ applied \in [Requests -> [times : {0, 1}, ok : BOOLEAN, seen : {0, Before} \cup Requests,
                                 touched : SUBSET Files]]

LiveInv ==
    /\ LiveTypeOK /\ OpenedInOrder /\ MadeInOrder /\ DownInOrder /\ DoneBefore
    /\ AnswersTell /\ DoneIsInPlace /\ AnswerIsItsOwn

LEMMA LiveTypes ==
  ASSUME LiveTypeOK, NEW r \in Requests
  PROVE  /\ request[r].op \in {"none"} \cup Operations /\ request[r].path \in {"none"} \cup Files
         /\ request[r].to \in {"none"} \cup Files /\ request[r].sock \in {0} \cup Conns
         /\ request[r].phase \in {"none", "waiting", "ok", "failed"}
         /\ request[r].seen \in {0, Before} \cup Requests
         /\ applied[r].times \in {0, 1} /\ applied[r].ok \in BOOLEAN
         /\ applied[r].seen \in {0, Before} \cup Requests /\ applied[r].touched \in SUBSET Files
         /\ r \in Nat /\ request[r].sock \in Nat
<1>1. request[r] \in [op : {"none"} \cup Operations, path : {"none"} \cup Files,
                      to : {"none"} \cup Files, sock : {0} \cup Conns,
                      phase : {"none", "waiting", "ok", "failed"}, seen : {0, Before} \cup Requests]
  BY DEF LiveTypeOK
<1>2. applied[r] \in [times : {0, 1}, ok : BOOLEAN, seen : {0, Before} \cup Requests,
                      touched : SUBSET Files]
  BY DEF LiveTypeOK
<1>3. r \in Nat /\ {0} \cup Conns \subseteq Nat
  BY LiveAssumption
<1> QED
  BY <1>1, <1>2, <1>3

LEMMA WireTypes ==
  ASSUME LiveTypeOK, NEW s \in Conns
  PROVE  /\ s \in Nat /\ s # 0
         /\ down[s] \in Seq(Requests) /\ Len(down[s]) \in Nat
         /\ \A i \in 1 .. Len(down[s]) : down[s][i] \in Requests /\ down[s][i] \in Nat
         /\ up[s] \in Seq([id : Requests, ok : BOOLEAN, seen : {0, Before} \cup Requests])
         /\ Len(up[s]) \in Nat
         /\ \A i \in 1 .. Len(up[s]) : /\ up[s][i].id \in Requests /\ up[s][i].ok \in BOOLEAN
                                       /\ up[s][i].seen \in {0, Before} \cup Requests
<1> DEFINE A == [id : Requests, ok : BOOLEAN, seen : {0, Before} \cup Requests]
<1>1. down[s] \in Seq(Requests) /\ up[s] \in Seq(A)
  BY DEF LiveTypeOK
<1>2. \A i \in 1 .. Len(down[s]) : down[s][i] \in Requests
  BY <1>1, ElementOfSeq
<1>3. \A i \in 1 .. Len(up[s]) : up[s][i] \in A
  <2> HIDE DEF A
  <2> QED
    BY <1>1, ElementOfSeq
<1>4. s \in Nat /\ s # 0 /\ Requests \subseteq Nat
  BY LiveAssumption
<1>5. Len(down[s]) \in Nat /\ Len(up[s]) \in Nat
  BY <1>1, LenProperties
<1> QED
  BY <1>1, <1>2, <1>3, <1>4, <1>5

\* The panel writes down what came of a request that was made: nothing else depends on it.
LEMMA SettledKeeps ==
  ASSUME LiveInv,
         request' \in [Requests -> [op : {"none"} \cup Operations, path : {"none"} \cup Files,
                                    to : {"none"} \cup Files, sock : {0} \cup Conns,
                                    phase : {"none", "waiting", "ok", "failed"},
                                    seen : {0, Before} \cup Requests]],
         \A q \in Requests :
            \/ request'[q] = request[q]
            \/ /\ Made(q)
               /\ request'[q].op = request[q].op /\ request'[q].path = request[q].path
               /\ request'[q].to = request[q].to /\ request'[q].sock = request[q].sock
               /\ request'[q].phase = "ok" => applied[q].ok /\ request'[q].seen = applied[q].seen,
         current' = current \/ current' = 0, opened' = opened, conn' = conn, applied' = applied,
         file' = file, down' = down
  PROVE  OpenedInOrder' /\ MadeInOrder' /\ DownInOrder' /\ DoneBefore' /\ DoneIsInPlace' /\ AnswerIsItsOwn'
<1>1. \A q \in Requests : /\ Made(q)' = Made(q) /\ request'[q].path = request[q].path
                          /\ request'[q].to = request[q].to /\ request'[q].sock = request[q].sock
                          /\ request'[q].op = request[q].op
                          /\ ~Made(q) => request'[q] = request[q]
  BY DEF Made
<1>2. OpenedInOrder'
  BY DEF LiveInv, OpenedInOrder
<1>3. MadeInOrder'
  BY <1>1 DEF LiveInv, MadeInOrder, NoRequest, Nought
<1>4. DownInOrder'
  <2>1. ASSUME NEW s \in Conns, NEW i \in 1 .. Len(down[s])
        PROVE  /\ request'[down[s][i]].sock = s /\ Made(down[s][i])'
               /\ applied[down[s][i]] = Nought
               /\ \A j \in 1 .. Len(down[s]) : i < j => down[s][i] < down[s][j]
    <3>1. down[s][i] \in Requests
      BY WireTypes DEF LiveInv
    <3> QED
      BY <1>1, <3>1 DEF LiveInv, DownInOrder
  <2> QED
    BY <2>1 DEF DownInOrder, Nought, Made
<1>5. DoneBefore'
  BY <1>1 DEF LiveInv, DoneBefore
<1>6. DoneIsInPlace'
  BY <1>1 DEF LiveInv, DoneIsInPlace, InPlace, Left
<1>7. AnswerIsItsOwn'
  BY DEF LiveInv, AnswerIsItsOwn
<1> QED
  BY <1>2, <1>3, <1>4, <1>5, <1>6, <1>7

LEMMA SettledIs ==
  ASSUME LiveTypeOK, NEW r \in Requests, NEW p \in {"none", "waiting", "ok", "failed"},
         NEW v \in {0, Before} \cup Requests
  PROVE  /\ Settled(r, p, v) \in
              [Requests -> [op : {"none"} \cup Operations, path : {"none"} \cup Files,
                            to : {"none"} \cup Files, sock : {0} \cup Conns,
                            phase : {"none", "waiting", "ok", "failed"},
                            seen : {0, Before} \cup Requests]]
         /\ \A q \in Requests : q # r => Settled(r, p, v)[q] = request[q]
         /\ Settled(r, p, v)[r].op = request[r].op /\ Settled(r, p, v)[r].path = request[r].path
         /\ Settled(r, p, v)[r].to = request[r].to /\ Settled(r, p, v)[r].sock = request[r].sock
         /\ Settled(r, p, v)[r].phase = p /\ Settled(r, p, v)[r].seen = v
<1> DEFINE T == [op : {"none"} \cup Operations, path : {"none"} \cup Files,
                 to : {"none"} \cup Files, sock : {0} \cup Conns,
                 phase : {"none", "waiting", "ok", "failed"}, seen : {0, Before} \cup Requests]
           one == [request EXCEPT ![r].phase = p]
           two == [one EXCEPT ![r].seen = v]
<1>1. request \in [Requests -> T]
  BY DEF LiveTypeOK
<1>2. one \in [Requests -> T] /\ one[r].phase = p
      /\ one[r].op = request[r].op /\ one[r].path = request[r].path
      /\ one[r].to = request[r].to /\ one[r].sock = request[r].sock
      /\ \A q \in Requests : q # r => one[q] = request[q]
  BY <1>1
<1> HIDE DEF one
<1>3. two \in [Requests -> T] /\ two[r].phase = p /\ two[r].seen = v
      /\ two[r].op = one[r].op /\ two[r].path = one[r].path
      /\ two[r].to = one[r].to /\ two[r].sock = one[r].sock
      /\ \A q \in Requests : q # r => two[q] = one[q]
  BY <1>2
<1>4. Settled(r, p, v) = two
  BY DEF Settled, one
<1> HIDE DEF two
<1> QED
  BY <1>2, <1>3, <1>4

LEMMA TimeOutKeeps == ASSUME LiveInv, NEW r \in Requests, TimeOut(r) PROVE LiveInv'
<1>1. /\ request[r].phase = "waiting" /\ request' = Settled(r, "failed", 0)
      /\ UNCHANGED <<current, bound, conn, opened, down, up, file, applied>>
  BY DEF TimeOut, TimerRuns
<1>2. Made(r)
  BY <1>1 DEF LiveInv, MadeInOrder, Made, NoRequest
<1>3. /\ \A q \in Requests : q # r => request'[q] = request[q]
      /\ request'[r].op = request[r].op /\ request'[r].path = request[r].path
      /\ request'[r].to = request[r].to /\ request'[r].sock = request[r].sock
      /\ request'[r].phase = "failed" /\ request'[r].seen = 0
  BY <1>1, SettledIs DEF LiveInv
<1>4. request' \in [Requests -> [op : {"none"} \cup Operations, path : {"none"} \cup Files,
                                 to : {"none"} \cup Files, sock : {0} \cup Conns,
                                 phase : {"none", "waiting", "ok", "failed"},
                                 seen : {0, Before} \cup Requests]]
  BY <1>1, SettledIs DEF LiveInv
<1>5. OpenedInOrder' /\ MadeInOrder' /\ DownInOrder' /\ DoneBefore' /\ DoneIsInPlace' /\ AnswerIsItsOwn'
  BY <1>1, <1>2, <1>3, <1>4, SettledKeeps
<1>6. AnswersTell'
  BY <1>1 DEF LiveInv, AnswersTell
<1>7. LiveTypeOK'
  BY <1>1, <1>4 DEF LiveInv, LiveTypeOK
<1> QED
  BY <1>5, <1>6, <1>7 DEF LiveInv

\* A connection on which answers come only tells what requests gave.
LEMMA AnswersLeft ==
  ASSUME LiveInv, NEW s \in Conns, up[s] # <<>>, up' = [up EXCEPT ![s] = Tail(@)], applied' = applied
  PROVE  /\ AnswersTell'
         /\ up' \in [Conns -> Seq([id : Requests, ok : BOOLEAN, seen : {0, Before} \cup Requests])]
         /\ Head(up[s]).id \in Requests /\ Head(up[s]).ok \in BOOLEAN
         /\ Head(up[s]).seen \in {0, Before} \cup Requests
         /\ applied[Head(up[s]).id].ok = Head(up[s]).ok
         /\ applied[Head(up[s]).id].seen = Head(up[s]).seen
<1> DEFINE A == [id : Requests, ok : BOOLEAN, seen : {0, Before} \cup Requests]
<1>1. up \in [Conns -> Seq(A)] /\ up[s] \in Seq(A)
  BY DEF LiveInv, LiveTypeOK
<1>2. /\ Head(up[s]) \in A /\ Head(up[s]) = up[s][1] /\ Tail(up[s]) \in Seq(A)
      /\ Len(up[s]) \in Nat /\ Len(up[s]) > 0 /\ Len(Tail(up[s])) = Len(up[s]) - 1
      /\ \A i \in 1 .. Len(Tail(up[s])) : Tail(up[s])[i] = up[s][i + 1]
  <2> HIDE DEF A
  <2> QED
    BY <1>1, HeadTailProperties, EmptySeq, LenProperties
<1>3. up' \in [Conns -> Seq(A)]
  <2> HIDE DEF A
  <2> QED
    BY <1>1, <1>2
<1>4. ASSUME NEW t \in Conns, NEW i \in 1 .. Len(up'[t])
      PROVE  /\ up'[t][i].id \in Requests
             /\ applied'[up'[t][i].id] = [times |-> 1, ok |-> up'[t][i].ok, seen |-> up'[t][i].seen,
                                            touched |-> applied'[up'[t][i].id].touched]
  <2>1. CASE t = s
    <3>1. up'[t] = Tail(up[s])
      BY <1>1, <2>1
    <3>2. i \in 1 .. Len(Tail(up[s])) /\ Len(Tail(up[s])) = Len(up[s]) - 1 /\ Len(up[s]) \in Nat
      BY <1>2, <3>1
    <3>3. i + 1 \in 1 .. Len(up[s])
      BY <3>2
    <3>4. up'[t][i] = up[s][i + 1]
      BY <1>2, <3>1, <3>2
    <3> QED
      BY <3>3, <3>4 DEF LiveInv, AnswersTell
  <2>2. CASE t # s
    <3>1. up'[t] = up[t]
      BY <1>1, <2>2
    <3> QED
      BY <3>1 DEF LiveInv, AnswersTell
  <2> QED
    BY <2>1, <2>2
<1>5. AnswersTell'
  BY <1>4 DEF AnswersTell
<1>6. 1 \in 1 .. Len(up[s])
  BY <1>2
<1>7. applied[up[s][1].id] = [times |-> 1, ok |-> up[s][1].ok, seen |-> up[s][1].seen,
                              touched |-> applied[up[s][1].id].touched]
  BY <1>6 DEF LiveInv, AnswersTell
<1>8. applied[up[s][1].id].ok = up[s][1].ok /\ applied[up[s][1].id].seen = up[s][1].seen
  BY <1>7
<1>9. up[s][1].id \in Requests /\ up[s][1].ok \in BOOLEAN /\ up[s][1].seen \in {0, Before} \cup Requests
  BY <1>2
<1> HIDE DEF A
<1>10. up[s][1] = Head(up[s])
  BY <1>2
<1> QED
  BY <1>3, <1>5, <1>8, <1>9, <1>10 DEF A

LEMMA HearKeeps == ASSUME LiveInv, NEW s \in Conns, Hear(s) PROVE LiveInv'
<1> DEFINE answer == Head(up[s])
           for == IF s \in bound THEN PendingFor(s, answer.id) ELSE {}
<1>1. /\ up[s] # <<>> /\ up' = [up EXCEPT ![s] = Tail(@)]
      /\ UNCHANGED <<current, bound, conn, opened, down, file, applied>>
      /\ IF for = {} THEN UNCHANGED request
         ELSE \E r \in for : request' = Settled(r, IF answer.ok THEN "ok" ELSE "failed", answer.seen)
  BY DEF Hear
<1>2. /\ AnswersTell'
      /\ up' \in [Conns -> Seq([id : Requests, ok : BOOLEAN, seen : {0, Before} \cup Requests])]
      /\ answer.id \in Requests /\ answer.ok \in BOOLEAN /\ answer.seen \in {0, Before} \cup Requests
      /\ applied[answer.id].ok = answer.ok /\ applied[answer.id].seen = answer.seen
  BY <1>1, AnswersLeft
<1>3. /\ request' \in [Requests -> [op : {"none"} \cup Operations, path : {"none"} \cup Files,
                                    to : {"none"} \cup Files, sock : {0} \cup Conns,
                                    phase : {"none", "waiting", "ok", "failed"},
                                    seen : {0, Before} \cup Requests]]
      /\ \A q \in Requests :
            \/ request'[q] = request[q]
            \/ /\ Made(q)
               /\ request'[q].op = request[q].op /\ request'[q].path = request[q].path
               /\ request'[q].to = request[q].to /\ request'[q].sock = request[q].sock
               /\ request'[q].phase = "ok" => applied[q].ok /\ request'[q].seen = applied[q].seen
  <2>1. CASE for = {}
    BY <1>1, <2>1 DEF LiveInv, LiveTypeOK
  <2>2. CASE for # {}
    <3>1. for \subseteq {answer.id}
      BY DEF PendingFor
    <3>2. PICK r \in for : request' = Settled(r, IF answer.ok THEN "ok" ELSE "failed", answer.seen)
      BY <1>1, <2>2
    <3>3. r = answer.id /\ r \in Requests /\ request[r].phase = "waiting"
      BY <1>2, <3>1 DEF PendingFor
    <3>4. Made(r)
      BY <3>3 DEF LiveInv, MadeInOrder, Made, NoRequest
    <3> DEFINE p == IF answer.ok THEN "ok" ELSE "failed"
               v == answer.seen
    <3>5. p \in {"none", "waiting", "ok", "failed"} /\ v \in {0, Before} \cup Requests
      BY <1>2
    <3>6. p = "ok" => applied[r].ok
      BY <1>2, <3>3
    <3>7. request' = Settled(r, p, v) /\ v = applied[r].seen
      BY <1>2, <3>2, <3>3
    <3> HIDE DEF p, v, for, answer
    <3>8. /\ Settled(r, p, v) \in
              [Requests -> [op : {"none"} \cup Operations, path : {"none"} \cup Files,
                            to : {"none"} \cup Files, sock : {0} \cup Conns,
                            phase : {"none", "waiting", "ok", "failed"},
                            seen : {0, Before} \cup Requests]]
          /\ \A q \in Requests : q # r => Settled(r, p, v)[q] = request[q]
          /\ Settled(r, p, v)[r].op = request[r].op /\ Settled(r, p, v)[r].path = request[r].path
          /\ Settled(r, p, v)[r].to = request[r].to /\ Settled(r, p, v)[r].sock = request[r].sock
          /\ Settled(r, p, v)[r].phase = p /\ Settled(r, p, v)[r].seen = v
      BY <3>3, <3>5, SettledIs DEF LiveInv
    <3>9. \A q \in Requests : q # r => request'[q] = request[q]
      BY <3>7, <3>8
    <3>10. /\ request'[r].op = request[r].op /\ request'[r].path = request[r].path
           /\ request'[r].to = request[r].to /\ request'[r].sock = request[r].sock
           /\ request'[r].phase = "ok" => applied[r].ok /\ request'[r].seen = applied[r].seen
      BY <3>6, <3>7, <3>8
    <3> QED
      BY <3>4, <3>7, <3>8, <3>9, <3>10
  <2> QED
    BY <2>1, <2>2
<1> HIDE DEF for, answer
<1>5. OpenedInOrder' /\ MadeInOrder' /\ DownInOrder' /\ DoneBefore' /\ DoneIsInPlace' /\ AnswerIsItsOwn'
  BY <1>1, <1>3, SettledKeeps
<1>7. LiveTypeOK'
  BY <1>1, <1>2, <1>3 DEF LiveInv, LiveTypeOK
<1> QED
  BY <1>2, <1>5, <1>7 DEF LiveInv

LEMMA SocketClosesKeeps == ASSUME LiveInv, NEW s \in Conns, SocketCloses(s) PROVE LiveInv'
<1> DEFINE A == [id : Requests, ok : BOOLEAN, seen : {0, Before} \cup Requests]
           T == [op : {"none"} \cup Operations, path : {"none"} \cup Files,
                 to : {"none"} \cup Files, sock : {0} \cup Conns,
                 phase : {"none", "waiting", "ok", "failed"}, seen : {0, Before} \cup Requests]
<1>1. /\ bound' = bound \ {s} /\ up' = [up EXCEPT ![s] = <<>>]
      /\ UNCHANGED <<conn, opened, down, file, applied>>
      /\ current' = current \/ current' = 0
      /\ \/ request' = request
         \/ request' = [r \in Requests |->
               IF request[r].phase = "waiting" /\ request[r].sock = s
               THEN [request[r] EXCEPT !.phase = "failed"] ELSE request[r]]
  BY DEF SocketCloses
<1>2. up \in [Conns -> Seq(A)] /\ request \in [Requests -> T]
  BY DEF LiveInv, LiveTypeOK
<1>3. up' \in [Conns -> Seq(A)] /\ AnswersTell'
  <2>1. up' \in [Conns -> Seq(A)]
    <3> HIDE DEF A
    <3>1. <<>> \in Seq(A)
      BY EmptySeq
    <3> QED
      BY <1>1, <1>2, <3>1
  <2>2. ASSUME NEW t \in Conns, NEW i \in 1 .. Len(up'[t])
        PROVE  /\ up'[t][i].id \in Requests
               /\ applied'[up'[t][i].id] = [times |-> 1, ok |-> up'[t][i].ok, seen |-> up'[t][i].seen,
                                            touched |-> applied'[up'[t][i].id].touched]
    <3>1. up'[t] = <<>> \/ up'[t] = up[t]
      BY <1>1, <1>2
    <3>2. up'[t] = up[t]
      <4>1. Len(<<>>) = 0 /\ 1 .. 0 = {}
        OBVIOUS
      <4> QED
        BY <3>1, <4>1
    <3> QED
      BY <1>1, <3>2 DEF LiveInv, AnswersTell
  <2> QED
    BY <2>1, <2>2 DEF AnswersTell
<1>4. ASSUME NEW q \in Requests
      PROVE  /\ request'[q] \in T
             /\ \/ request'[q] = request[q]
                \/ /\ Made(q)
                   /\ request'[q].op = request[q].op /\ request'[q].path = request[q].path
                   /\ request'[q].to = request[q].to /\ request'[q].sock = request[q].sock
                   /\ request'[q].phase = "failed"
  <2>1. CASE request'[q] = request[q]
    BY <1>2, <2>1
  <2>2. CASE request'[q] # request[q]
    <3>1. request[q].phase = "waiting" /\ request'[q] = [request[q] EXCEPT !.phase = "failed"]
      BY <1>1, <2>2
    <3>2. Made(q)
      BY <3>1 DEF LiveInv, MadeInOrder, Made, NoRequest
    <3>3. request[q] \in T
      BY <1>2
    <3> QED
      BY <3>1, <3>2, <3>3
  <2> QED
    BY <2>1, <2>2
<1>5. request' \in [Requests -> T]
  <2>1. request' = [r \in Requests |-> request'[r]]
    <3> HIDE DEF T
    <3> QED
      BY <1>1, <1>2
  <2> HIDE DEF T
  <2> QED
    BY <1>4, <2>1
<1>6. OpenedInOrder' /\ MadeInOrder' /\ DownInOrder' /\ DoneBefore' /\ DoneIsInPlace' /\ AnswerIsItsOwn'
  <2>1. "failed" # "ok"
    OBVIOUS
  <2> QED
    BY <1>1, <1>4, <1>5, <2>1, SettledKeeps
<1>7. LiveTypeOK'
  BY <1>1, <1>3, <1>5 DEF LiveInv, LiveTypeOK
<1> QED
  BY <1>3, <1>6, <1>7 DEF LiveInv

LEMMA ConnectsKeeps == ASSUME LiveInv, Connects PROVE LiveInv'
<1>1. PICK s \in Conns \ opened :
         /\ \A r \in Conns \ opened : s <= r
         /\ conn' = s /\ opened' = opened \cup {s}
         /\ current' = s /\ bound' = bound \cup {s}
  BY DEF Connects
<1>2. UNCHANGED <<request, down, up, file, applied>>
  BY DEF Connects
<1>3. s \in Nat /\ s # 0 /\ opened \subseteq Conns /\ Conns \subseteq Nat
  BY LiveAssumption DEF LiveInv, OpenedInOrder
<1>4. \A t \in opened : t < s
  BY <1>3 DEF LiveInv, OpenedInOrder
<1>5. OpenedInOrder'
  BY <1>1, <1>3, <1>4 DEF LiveInv, OpenedInOrder
<1>6. MadeInOrder'
  <2>1. \A r \in Requests : request[r].sock = 0 \/ request[r].sock \in opened
    BY DEF LiveInv, MadeInOrder
  <2>2. \A r \in Requests : request[r].sock <= s
    BY <1>3, <1>4, <2>1
  <2>3. \A r \in Requests : /\ Made(r)' = Made(r)
                            /\ (request[r].sock # 0 => request[r].sock \in opened')
    BY <1>1, <1>2, <2>1 DEF Made
  <2> QED
    BY <1>1, <1>2, <2>2, <2>3 DEF LiveInv, MadeInOrder, Nought, NoRequest
<1>7. DownInOrder' /\ DoneBefore' /\ AnswersTell' /\ DoneIsInPlace' /\ AnswerIsItsOwn'
  <2>1. DownInOrder' /\ DoneBefore' /\ AnswersTell'
    BY <1>2 DEF LiveInv, DownInOrder, DoneBefore, AnswersTell, Made, Nought
  <2>2. \A r \in Requests : \A f : InPlace(r, f)' <=> InPlace(r, f)
    BY <1>2 DEF InPlace, Left
  <2>3. DoneIsInPlace' /\ AnswerIsItsOwn'
    BY <1>2, <2>2 DEF LiveInv, DoneIsInPlace, AnswerIsItsOwn
  <2> QED
    BY <2>1, <2>3
<1>8. LiveTypeOK'
  BY <1>1, <1>2 DEF LiveInv, LiveTypeOK
<1> QED
  BY <1>5, <1>6, <1>7, <1>8 DEF LiveInv

LEMMA AgentLosesKeeps == ASSUME LiveInv, AgentLoses PROVE LiveInv'
<1>1. /\ conn # 0 /\ conn' = 0 /\ down' = [down EXCEPT ![conn] = <<>>]
      /\ UNCHANGED <<request, current, bound, opened, up, file, applied>>
  BY DEF AgentLoses
<1>2. down \in [Conns -> Seq(Requests)]
  BY DEF LiveInv, LiveTypeOK
<1>3. \A s \in Conns : down'[s] = down[s] \/ 1 .. Len(down'[s]) = {}
  <2>1. 1 .. Len(<<>>) = {}
    OBVIOUS
  <2> QED
    BY <1>1, <1>2, <2>1
<1>4. OpenedInOrder' /\ MadeInOrder' /\ AnswersTell' /\ DoneIsInPlace' /\ AnswerIsItsOwn'
  BY <1>1 DEF LiveInv, OpenedInOrder, MadeInOrder, AnswersTell, AnswerIsItsOwn,
              Made, InPlace, Left, Nought, NoRequest, DoneIsInPlace
<1>5. DownInOrder'
  <2>1. ASSUME NEW s \in Conns, NEW i \in 1 .. Len(down'[s])
        PROVE  /\ request[down'[s][i]].sock = s /\ Made(down'[s][i]) /\ applied[down'[s][i]] = Nought
               /\ \A j \in 1 .. Len(down'[s]) : i < j => down'[s][i] < down'[s][j]
    BY <1>3, <2>1 DEF LiveInv, DownInOrder
  <2> QED
    BY <1>1, <2>1 DEF DownInOrder, Made, Nought
<1>6. DoneBefore'
  <2>1. ASSUME NEW q \in Requests, applied[q].times # 0
        PROVE  /\ Made(q) /\ request[q].sock # 0
               /\ \A i \in 1 .. Len(down'[request[q].sock]) : q < down'[request[q].sock][i]
    <3>1. request[q].sock \in Conns /\ Made(q) /\ request[q].sock # 0
      BY <2>1, LiveTypes DEF LiveInv, DoneBefore
    <3> QED
      BY <1>3, <2>1, <3>1 DEF LiveInv, DoneBefore
  <2> QED
    BY <1>1, <2>1 DEF DoneBefore, Made
<1>7. LiveTypeOK'
  <2>1. <<>> \in Seq(Requests)
    BY EmptySeq
  <2>2. down' \in [Conns -> Seq(Requests)]
    BY <1>1, <1>2, <2>1
  <2> QED
    BY <1>1, <2>2 DEF LiveInv, LiveTypeOK
<1> QED
  BY <1>4, <1>5, <1>6, <1>7 DEF LiveInv

LEMMA AskKeeps == ASSUME LiveInv, NEW r \in Requests, Ask(r) PROVE LiveInv'
<1> DEFINE T == [op : {"none"} \cup Operations, path : {"none"} \cup Files,
                 to : {"none"} \cup Files, sock : {0} \cup Conns,
                 phase : {"none", "waiting", "ok", "failed"}, seen : {0, Before} \cup Requests]
<1>1. PICK op \in Operations, f \in Files, to \in Files :
         /\ f # to => op \in {"move", "delete"}
         /\ request' = [request EXCEPT ![r] =
               [op |-> op, path |-> f, to |-> to, sock |-> current, seen |-> 0,
                phase |-> IF current = 0 THEN "failed" ELSE "waiting"]]
  BY DEF Ask
<1>2. /\ ~Made(r) /\ \A q \in Requests : q < r => Made(q)
      /\ down' = IF current = 0 THEN down ELSE [down EXCEPT ![current] = Append(@, r)]
      /\ UNCHANGED <<current, bound, conn, opened, up, file, applied>>
  BY DEF Ask, Made
<1>3. current \in {0} \cup Conns /\ request \in [Requests -> T] /\ down \in [Conns -> Seq(Requests)]
  BY DEF LiveInv, LiveTypeOK
<1>4. \A q \in Requests : q \in Nat
  BY LiveAssumption
<1>5. \A q \in Requests : Made(q) => q < r
  BY <1>2, <1>4 DEF LiveInv, MadeInOrder
<1> DEFINE new == [op |-> op, path |-> f, to |-> to, sock |-> current, seen |-> 0,
                   phase |-> IF current = 0 THEN "failed" ELSE "waiting"]
<1>6. /\ new \in T /\ new.op # "none" /\ new.path \in Files /\ new.to \in Files
      /\ new.sock = current /\ new.phase # "ok"
      /\ new.path # new.to => new.op \in {"move", "delete"}
  BY <1>1, <1>3 DEF Operations
<1>7. request' = [request EXCEPT ![r] = new]
  BY <1>1
<1> HIDE DEF new, T
<1>8. request' \in [Requests -> T] /\ request'[r] = new
      /\ \A q \in Requests : q # r => request'[q] = request[q]
  BY <1>3, <1>6, <1>7
<1>9. Made(r)' /\ \A q \in Requests : q # r => (Made(q)' <=> Made(q))
  BY <1>6, <1>8 DEF Made
<1>10. applied[r] = Nought
  BY <1>2 DEF LiveInv, MadeInOrder
<1>11. OpenedInOrder' /\ AnswersTell'
  BY <1>2 DEF LiveInv, OpenedInOrder, AnswersTell
<1>12. MadeInOrder'
  <2>1. ASSUME NEW x \in Requests
        PROVE  /\ \A q \in Requests : Made(x)' /\ q < x =>
                     Made(q)' /\ (request'[x].sock = 0 \/ request'[q].sock <= request'[x].sock)
               /\ ~Made(x)' => request'[x] = NoRequest /\ applied[x] = Nought
               /\ Made(x)' => /\ request'[x].path \in Files /\ request'[x].to \in Files
                              /\ request'[x].path # request'[x].to =>
                                    request'[x].op \in {"move", "delete"}
               /\ request'[x].sock # 0 => request'[x].sock \in opened
               /\ current # 0 => request'[x].sock <= current
    <3>1. CASE x = r
      <4>1. \A q \in Requests : q < r =>
               Made(q)' /\ (current = 0 \/ request'[q].sock <= current)
        <5>1. \A q \in Requests : q < r => q # r
          BY <1>4
        <5> QED
          BY <5>1, <1>2, <1>8, <1>9 DEF LiveInv, MadeInOrder
      <4>2. current # 0 => current \in opened /\ current <= current
        BY LiveAssumption, <1>3 DEF LiveInv, OpenedInOrder
      <4> QED
        BY <3>1, <4>1, <4>2, <1>6, <1>8, <1>9
    <3>2. CASE x # r
      <4>1. request'[x] = request[x] /\ (Made(x)' <=> Made(x))
        BY <3>2, <1>8, <1>9
      <4>2. \A q \in Requests : Made(x) /\ q < x => q # r
        BY <1>2 DEF LiveInv, MadeInOrder
      <4>3. \A q \in Requests : Made(x) /\ q < x =>
               Made(q)' /\ (request[x].sock = 0 \/ request'[q].sock <= request[x].sock)
        BY <4>2, <1>8, <1>9 DEF LiveInv, MadeInOrder
      <4> QED
        BY <4>1, <4>3 DEF LiveInv, MadeInOrder
    <3> QED
      BY <3>1, <3>2
  <2>2. Nought' = Nought /\ NoRequest' = NoRequest
    BY DEF Nought, NoRequest
  <2> QED
    BY <1>2, <2>1, <2>2 DEF MadeInOrder
<1>13. ASSUME NEW s \in Conns
       PROVE  /\ down'[s] \in Seq(Requests)
              /\ \/ down'[s] = down[s]
                 \/ /\ s = current /\ Len(down'[s]) = Len(down[s]) + 1
                    /\ down'[s][Len(down[s]) + 1] = r
                    /\ \A i \in 1 .. Len(down[s]) : down'[s][i] = down[s][i]
  <2>1. CASE s = current
    <3>1. s # 0 /\ down[s] \in Seq(Requests)
      BY LiveAssumption, <1>3
    <3>2. down'[s] = Append(down[s], r)
      BY <1>2, <1>3, <2>1, <3>1
    <3> QED
      BY <2>1, <3>1, <3>2, AppendProperties
  <2>2. CASE s # current
    BY <1>2, <1>3, <2>2
  <2> QED
    BY <2>1, <2>2
<1>14. down' \in [Conns -> Seq(Requests)]
  <2>1. down' = [s \in Conns |-> down'[s]]
    BY <1>2, <1>3
  <2> QED
    BY <1>13, <2>1
<1>15. ASSUME NEW s \in Conns, NEW i \in 1 .. Len(down'[s])
       PROVE  \/ /\ i \in 1 .. Len(down[s]) /\ down'[s][i] = down[s][i]
                 /\ down[s][i] \in Requests /\ down[s][i] # r /\ down[s][i] < r
              \/ s = current /\ i = Len(down[s]) + 1 /\ down'[s][i] = r
  <2>1. Len(down[s]) \in Nat /\ \A j \in 1 .. Len(down[s]) : down[s][j] \in Requests
    BY WireTypes DEF LiveInv
  <2>2. i \in 1 .. Len(down[s]) => Made(down[s][i])
    BY DEF LiveInv, DownInOrder
  <2>3. i \in 1 .. Len(down[s]) => down[s][i] # r /\ down[s][i] < r
    BY <1>2, <1>5, <2>1, <2>2
  <2>4. i \in 1 .. Len(down[s]) \/ (i = Len(down[s]) + 1 /\ Len(down'[s]) = Len(down[s]) + 1)
    BY <1>13, <2>1
  <2>5. Len(down'[s]) = Len(down[s]) + 1 => s = current /\ down'[s][Len(down[s]) + 1] = r
    BY <1>13, <2>1
  <2>6. i \in 1 .. Len(down[s]) => down'[s][i] = down[s][i]
    BY <1>13, <2>1
  <2> QED
    BY <2>1, <2>3, <2>4, <2>5, <2>6
<1>16. DownInOrder'
  <2>1. ASSUME NEW s \in Conns, NEW i \in 1 .. Len(down'[s])
        PROVE  /\ request'[down'[s][i]].sock = s /\ request'[down'[s][i]].op # "none" /\ applied[down'[s][i]] = Nought
               /\ \A j \in 1 .. Len(down'[s]) : i < j => down'[s][i] < down'[s][j]
    <3>0. Len(down[s]) \in Nat /\ i \in Nat
      BY WireTypes DEF LiveInv
    <3>1. CASE /\ i \in 1 .. Len(down[s]) /\ down'[s][i] = down[s][i]
               /\ down[s][i] \in Requests /\ down[s][i] # r /\ down[s][i] < r
      <4>1. /\ request[down[s][i]].sock = s /\ Made(down[s][i]) /\ applied[down[s][i]] = Nought
            /\ \A j \in 1 .. Len(down[s]) : i < j => down[s][i] < down[s][j]
        BY <3>1 DEF LiveInv, DownInOrder
      <4>2. request'[down[s][i]] = request[down[s][i]] /\ Made(down[s][i])'
        BY <3>1, <4>1, <1>8 DEF Made
      <4>3. \A j \in 1 .. Len(down'[s]) : i < j => down'[s][i] < down'[s][j]
        BY <3>1, <4>1, <1>15
      <4>4. down'[s][i] = down[s][i]
        BY <3>1
      <4>5. request'[down'[s][i]].op # "none"
        BY <4>2, <4>4 DEF Made
      <4> QED
        BY <4>1, <4>2, <4>3, <4>4, <4>5
    <3>2. CASE s = current /\ i = Len(down[s]) + 1 /\ down'[s][i] = r
      <4>1. \A j \in 1 .. Len(down'[s]) : ~(i < j)
        BY <3>0, <3>2, <1>15
      <4>2. request'[down'[s][i]].op # "none"
        BY <3>2, <1>9 DEF Made
      <4> QED
        BY <3>2, <4>1, <4>2, <1>6, <1>8, <1>10
    <3> QED
      BY <3>1, <3>2, <1>15
  <2>2. Nought' = Nought
    BY DEF Nought
  <2> QED
    BY <1>2, <2>1, <2>2 DEF DownInOrder, Made
<1>17. DoneBefore'
  <2>1. ASSUME NEW q \in Requests, applied[q].times # 0
        PROVE  /\ Made(q)' /\ request'[q].sock # 0
               /\ \A i \in 1 .. Len(down'[request'[q].sock]) : q < down'[request'[q].sock][i]
    <3>1. q # r
      BY <1>10, <2>1 DEF Nought
    <3>2. /\ request'[q] = request[q] /\ Made(q) /\ Made(q)' /\ request[q].sock # 0
          /\ \A i \in 1 .. Len(down[request[q].sock]) : q < down[request[q].sock][i]
      BY <1>8, <1>9, <2>1, <3>1 DEF LiveInv, DoneBefore
    <3>3. request[q].sock \in Conns /\ q < r
      BY <3>2, <1>5, LiveTypes DEF LiveInv
    <3> QED
      BY <3>2, <3>3, <1>15
  <2> QED
    BY <1>2, <2>1 DEF DoneBefore, Made
<1>18. DoneIsInPlace'
  <2>1. \A q \in Requests : applied[q].ok => request'[q] = request[q]
    BY <1>8, <1>10 DEF Nought
  <2>2. ASSUME NEW x \in Requests, applied[x].ok, NEW g, InPlace(x, g) PROVE InPlace(x, g)'
    BY <1>2, <2>1, <2>2 DEF InPlace, Left
  <2>3. ASSUME NEW x \in Requests
        PROVE  /\ applied[x].ok => applied[x].times = 1
               /\ applied'[x].ok /\ request'[x].op \in Changes =>
                     (InPlace(x, request[x].path) /\ InPlace(x, request[x].to))'
    <3>1. applied[x].ok => applied[x].times = 1
      BY DEF LiveInv, DoneIsInPlace
    <3>2. ASSUME applied[x].ok, request'[x].op \in Changes
          PROVE  (InPlace(x, request[x].path) /\ InPlace(x, request[x].to))'
      <4> DEFINE p == request[x].path
                 t == request[x].to
      <4>1. request'[x] = request[x]
        BY <2>1, <3>2
      <4>2. InPlace(x, p) /\ InPlace(x, t)
        BY <3>2, <4>1 DEF LiveInv, DoneIsInPlace
      <4>3. p' = p /\ t' = t
        BY <4>1
      <4>4. \A g : g = p \/ g = t => InPlace(x, g)'
        BY <2>2, <3>2, <4>2
      <4> QED
        BY <4>3, <4>4 DEF InPlace
    <3> QED
      BY <1>2, <3>1, <3>2
  <2> QED
    BY <1>2, <2>3 DEF DoneIsInPlace
<1>19. AnswerIsItsOwn'
  BY <1>2, <1>6, <1>8 DEF LiveInv, AnswerIsItsOwn
<1>20. LiveTypeOK'
  BY <1>2, <1>8, <1>14 DEF LiveInv, LiveTypeOK, T
<1> QED
  BY <1>11, <1>12, <1>16, <1>17, <1>18, <1>19, <1>20 DEF LiveInv

\* What was done on an older connection, or before on this one, was asked before.
LEMMA NextIsNewest ==
  ASSUME LiveInv, conn # 0, down[conn] # <<>>,
         NEW q \in Requests, applied[q].times # 0
  PROVE  q < down[conn][1]
<1> DEFINE r == down[conn][1]
<1>1. conn \in Conns /\ Len(down[conn]) \in Nat \ {0}
  <2>1. conn \in Conns
    BY DEF LiveInv, LiveTypeOK
  <2> QED
    BY <2>1, EmptySeq, WireTypes DEF LiveInv
<1>2. 1 \in 1 .. Len(down[conn])
  BY <1>1
<1>3. r \in Requests /\ request[r].sock = conn /\ Made(r) /\ applied[r] = Nought
  BY <1>1, <1>2, WireTypes DEF LiveInv, DownInOrder
<1>4. Made(q) /\ request[q].sock # 0
      /\ \A i \in 1 .. Len(down[request[q].sock]) : q < down[request[q].sock][i]
  BY DEF LiveInv, DoneBefore
<1>5. CASE request[q].sock = conn
  BY <1>2, <1>4, <1>5
<1>6. CASE request[q].sock # conn
  <2>1. request[q].sock \in opened /\ request[q].sock <= conn
    BY <1>4 DEF LiveInv, MadeInOrder, OpenedInOrder
  <2>2. request[q].sock \in Nat /\ conn \in Nat /\ q \in Nat /\ r \in Nat
    BY <1>3, LiveAssumption, <1>1, LiveTypes DEF LiveInv
  <2>3. ~(r < q)
    <3>1. ASSUME r < q PROVE FALSE
      <4>1. request[q].sock = 0 \/ request[r].sock <= request[q].sock
        BY <1>3, <1>4, <3>1 DEF LiveInv, MadeInOrder
      <4> QED
        BY <4>1, <1>3, <1>4, <1>6, <2>1, <2>2
    <3> QED
      BY <3>1
  <2>4. q # r
    BY <1>3, <1>6
  <2> HIDE DEF r
  <2>5. q < r
    BY <2>2, <2>3, <2>4
  <2> QED
    BY <2>5 DEF r
<1> QED
  BY <1>5, <1>6

\* A request leaves its own number, or nothing, at its paths; one that fails may have deleted one.
LEMMA ChangedIs ==
  ASSUME LiveInv, NEW r \in Requests, Made(r)
  PROVE  /\ Changed(r, request[r]) \in [Files -> {0, Before} \cup Requests]
         /\ request[r].op \in Changes =>
               /\ Changed(r, request[r])[request[r].path] = Left(r)
               /\ Changed(r, request[r])[request[r].to] = Left(r)
         /\ Halfway(request[r]) \subseteq [Files -> {0, Before} \cup Requests]
         /\ file[request[r].path] \in {0, Before} \cup Requests
<1> DEFINE q == request[r]
           V == {0, Before} \cup Requests
<1>1. /\ file \in [Files -> V] /\ q.path \in Files /\ q.to \in Files
      /\ q.op \in {"none"} \cup Operations
      /\ q.path # q.to => q.op \in {"move", "delete"}
  BY LiveTypes DEF LiveInv, LiveTypeOK, MadeInOrder
<1>2. Left(r) = IF q.op = "delete" THEN 0 ELSE r
  BY DEF Left
<1>3. r \in V /\ 0 \in V /\ file[q.path] \in V
  BY <1>1
<1> HIDE DEF q, V
<1>4. Halfway(q) \subseteq [Files -> V]
  BY <1>1, <1>3 DEF Halfway
<1>5. CASE q.op \in {"write", "create"}
  <2>1. Changed(r, q) = [file EXCEPT ![q.path] = r]
    BY <1>5 DEF Changed
  <2> QED
    BY <1>1, <1>2, <1>3, <1>4, <1>5, <2>1 DEF q, V
<1>6. CASE q.op = "move" \/ q.op = "delete"
  <2> DEFINE v == IF q.op = "move" THEN file[q.path] ELSE 0
             once == [file EXCEPT ![q.path] = 0]
             twice == [once EXCEPT ![q.to] = v]
  <2>1. Changed(r, q) = twice
    BY <1>6 DEF Changed
  <2>2. once \in [Files -> V] /\ once[q.path] = 0 /\ v \in V
    BY <1>1, <1>3
  <2> HIDE DEF once, v
  <2>3. twice \in [Files -> V] /\ twice[q.to] = v /\ (q.path # q.to => twice[q.path] = 0)
    BY <1>1, <1>3, <2>2
  <2>4. q.op = "delete" => v = 0
    BY DEF v
  <2> HIDE DEF twice
  <2>5. q.op \in Changes => q.op = "delete"
    BY <1>6 DEF Changes
  <2> QED
    BY <1>2, <1>3, <1>4, <2>1, <2>3, <2>4, <2>5 DEF q, V
<1>7. CASE q.op \notin {"write", "create", "move", "delete"}
  <2>1. Changed(r, q) = file
    BY <1>7 DEF Changed
  <2> QED
    BY <1>1, <1>3, <1>4, <1>7, <2>1 DEF q, V, Changes
<1> QED
  BY <1>5, <1>6, <1>7

LEMMA ServeKeeps == ASSUME LiveInv, Serve PROVE LiveInv'
<1> DEFINE A == [id : Requests, ok : BOOLEAN, seen : {0, Before} \cup Requests]
           P == [times : {0, 1}, ok : BOOLEAN, seen : {0, Before} \cup Requests, touched : SUBSET Files]
           changed == {f \in Files : file'[f] # file[f]}
           r == down[conn][1]
           answer(ok) == [id |-> r, ok |-> ok,
                          seen |-> IF ok /\ request[r].op = "read" THEN file[request[r].path] ELSE 0]
<1>1. conn # 0 /\ UNCHANGED <<request, current, bound, conn, opened>>
  BY DEF Serve
<1>2. PICK i \in NextMessage(conn), ok \in BOOLEAN :
         LET n == down[conn][i]
             q == request[n]
             a == [id |-> n, ok |-> ok, seen |-> IF ok /\ q.op = "read" THEN file[q.path] ELSE 0]
         IN  /\ ok => Works(q)
             /\ file' \in IF ok THEN {Changed(n, q)} ELSE Halfway(q)
             /\ applied' = [applied EXCEPT ![n] =
                   [times |-> @.times + 1, ok |-> ok, seen |-> a.seen,
                    touched |-> {f \in Files : file'[f] # file[f]}]]
             /\ down' = [down EXCEPT ![conn] = SubSeq(@, 1, i - 1) \o SubSeq(@, i + 1, Len(@))]
             /\ up' = IF conn \in bound THEN [up EXCEPT ![conn] = Append(@, a)] ELSE up
  BY DEF Serve
<1>3. i = 1 /\ down[conn] # <<>>
  BY DEF NextMessage
<1>4. /\ conn \in Conns /\ down \in [Conns -> Seq(Requests)] /\ up \in [Conns -> Seq(A)]
      /\ applied \in [Requests -> P] /\ file \in [Files -> {0, Before} \cup Requests]
  BY <1>1 DEF LiveInv, LiveTypeOK
<1>5. down[conn] \in Seq(Requests) /\ Len(down[conn]) \in Nat \ {0} /\ 1 \in 1 .. Len(down[conn])
  BY <1>3, <1>4, EmptySeq
<1>6. r \in Requests /\ request[r].sock = conn /\ Made(r) /\ applied[r] = Nought /\ r \in Nat
  BY <1>4, <1>5, WireTypes DEF LiveInv, DownInOrder
<1>7. down' = [down EXCEPT ![conn] = Tail(@)]
  <2>0. i - 1 = 0 /\ i + 1 = 2
    BY <1>3
  <2>1. SubSeq(down[conn], 1, 0) = <<>>
    BY SubSeqEmpty
  <2>4. down' = [down EXCEPT ![conn] = SubSeq(@, 1, 0) \o SubSeq(@, 2, Len(@))]
    BY <1>2, <2>0
  <2>2. Tail(down[conn]) = SubSeq(down[conn], 2, Len(down[conn])) /\ Tail(down[conn]) \in Seq(Requests)
    BY <1>3, <1>5, TailIsSubSeq, HeadTailProperties
  <2>3. <<>> \o Tail(down[conn]) = Tail(down[conn])
    BY <2>2, ConcatEmptySeq
  <2> QED
    BY <2>1, <2>2, <2>3, <2>4
<1>8. /\ file' \in IF ok THEN {Changed(r, request[r])} ELSE Halfway(request[r])
      /\ applied' = [applied EXCEPT ![r] = [times |-> @.times + 1, ok |-> ok, seen |-> answer(ok).seen,
                                            touched |-> changed]]
      /\ up' = IF conn \in bound THEN [up EXCEPT ![conn] = Append(@, answer(ok))] ELSE up
  BY <1>2, <1>3
<1>9. /\ Changed(r, request[r]) \in [Files -> {0, Before} \cup Requests]
      /\ request[r].op \in Changes =>
            /\ Changed(r, request[r])[request[r].path] = Left(r)
            /\ Changed(r, request[r])[request[r].to] = Left(r)
      /\ Halfway(request[r]) \subseteq [Files -> {0, Before} \cup Requests]
      /\ file[request[r].path] \in {0, Before} \cup Requests
  BY <1>6, ChangedIs
<1>10. answer(ok) \in A /\ answer(ok).id = r /\ answer(ok).ok = ok
       /\ answer(ok).seen \in {0, Before} \cup Requests
  BY <1>6, <1>9
<1> HIDE DEF answer
<1>11. /\ applied' \in [Requests -> P]
       /\ applied'[r] = [times |-> 1, ok |-> ok, seen |-> answer(ok).seen, touched |-> changed]
       /\ \A q \in Requests : q # r => applied'[q] = applied[q]
  <2> HIDE DEF changed
  <2>1. [times |-> applied[r].times + 1, ok |-> ok, seen |-> answer(ok).seen, touched |-> changed]
          = [times |-> 1, ok |-> ok, seen |-> answer(ok).seen, touched |-> changed]
    BY <1>6 DEF Nought
  <2>2. [times |-> 1, ok |-> ok, seen |-> answer(ok).seen, touched |-> changed] \in P
    <3>1. changed \in SUBSET Files
      BY DEF changed
    <3> QED
      BY <1>10, <3>1
  <2>3. applied' = [applied EXCEPT ![r] = [times |-> 1, ok |-> ok, seen |-> answer(ok).seen,
                                          touched |-> changed]]
    BY <1>8, <2>1
  <2> HIDE DEF P, r
  <2> QED
    BY <1>4, <1>6, <2>2, <2>3
<1>12. /\ Len(Tail(down[conn])) = Len(down[conn]) - 1
       /\ \A k \in 1 .. Len(Tail(down[conn])) : Tail(down[conn])[k] = down[conn][k + 1]
       /\ Tail(down[conn]) \in Seq(Requests)
  BY <1>3, <1>5, HeadTailProperties
<1>13. down' \in [Conns -> Seq(Requests)] /\ down'[conn] = Tail(down[conn])
       /\ \A s \in Conns : s # conn => down'[s] = down[s]
  BY <1>4, <1>7, <1>12
<1>14. ASSUME NEW s \in Conns, NEW k \in 1 .. Len(down'[s])
       PROVE  \E m \in 1 .. Len(down[s]) :
                 /\ m = IF s = conn THEN k + 1 ELSE k
                 /\ down'[s][k] = down[s][m] /\ down[s][m] # r /\ down[s][m] \in Requests
  <2>1. CASE s = conn
    <3>1. k \in 1 .. Len(Tail(down[conn])) /\ Len(down[conn]) \in Nat
      BY <1>5, <1>13, <2>1
    <3>2. k + 1 \in 1 .. Len(down[conn]) /\ 1 < k + 1
      BY <1>12, <3>1
    <3>3. down'[s][k] = down[conn][k + 1]
      BY <1>12, <1>13, <2>1, <3>1
    <3>4. r < down[conn][k + 1]
      BY <1>4, <1>5, <3>2 DEF LiveInv, DownInOrder
    <3>5. down[conn][k + 1] \in Requests /\ down[conn][k + 1] # r
      BY <1>4, <1>6, <3>2, <3>4, WireTypes DEF LiveInv
    <3> QED
      BY <2>1, <3>2, <3>3, <3>5
  <2>2. CASE s # conn
    <3>1. k \in 1 .. Len(down[s]) /\ down'[s][k] = down[s][k]
      BY <1>13, <2>2
    <3>2. request[down[s][k]].sock = s /\ down[s][k] \in Requests
      BY <3>1, WireTypes DEF LiveInv, DownInOrder
    <3> QED
      BY <1>6, <2>2, <3>1, <3>2
  <2> QED
    BY <2>1, <2>2
<1>15. OpenedInOrder' /\ LiveTypeOK' /\ MadeInOrder'
  <2>1. OpenedInOrder'
    BY <1>1 DEF LiveInv, OpenedInOrder
  <2>2. up' \in [Conns -> Seq(A)]
    <3>1. Append(up[conn], answer(ok)) \in Seq(A)
      <4> HIDE DEF A
      <4> QED
        BY <1>4, <1>10, AppendProperties
    <3> HIDE DEF A
    <3> QED
      BY <1>4, <1>8, <3>1
  <2>3. file' \in [Files -> {0, Before} \cup Requests]
    BY <1>4, <1>8, <1>9
  <2>4. LiveTypeOK'
    BY <1>1, <1>11, <1>13, <2>2, <2>3 DEF LiveInv, LiveTypeOK
  <2>5. \A q \in Requests : ~Made(q) => applied'[q] = applied[q]
    BY <1>6, <1>11
  <2>6. \A q \in Requests : Made(q)' <=> Made(q)
    BY <1>1 DEF Made
  <2>7. Nought' = Nought /\ NoRequest' = NoRequest
    BY DEF Nought, NoRequest
  <2>8. MadeInOrder'
    BY <1>1, <2>5, <2>6, <2>7 DEF LiveInv, MadeInOrder
  <2> QED
    BY <2>1, <2>4, <2>8
<1>16. DownInOrder'
  <2>1. ASSUME NEW s \in Conns, NEW k \in 1 .. Len(down'[s])
        PROVE  /\ request[down'[s][k]].sock = s /\ request[down'[s][k]].op # "none"
               /\ applied'[down'[s][k]] = Nought
               /\ \A j \in 1 .. Len(down'[s]) : k < j => down'[s][k] < down'[s][j]
    <3>1. PICK m \in 1 .. Len(down[s]) :
             /\ m = IF s = conn THEN k + 1 ELSE k
             /\ down'[s][k] = down[s][m] /\ down[s][m] # r /\ down[s][m] \in Requests
      BY <1>14, <2>1
    <3>2. /\ request[down[s][m]].sock = s /\ Made(down[s][m]) /\ applied[down[s][m]] = Nought
          /\ \A j \in 1 .. Len(down[s]) : m < j => down[s][m] < down[s][j]
      BY <3>1 DEF LiveInv, DownInOrder
    <3>3. applied'[down[s][m]] = Nought
      BY <1>11, <3>1, <3>2
    <3>4. ASSUME NEW j \in 1 .. Len(down'[s]), k < j
          PROVE  down'[s][k] < down'[s][j]
      <4>1. PICK n \in 1 .. Len(down[s]) :
               n = (IF s = conn THEN j + 1 ELSE j) /\ down'[s][j] = down[s][n]
        BY <1>14
      <4>2. m < n
        <5>1. k \in Int /\ j \in Int
          OBVIOUS
        <5> QED
          BY <3>1, <3>4, <4>1, <5>1
      <4> QED
        BY <3>1, <3>2, <4>1, <4>2
    <3> QED
      BY <3>1, <3>2, <3>3, <3>4 DEF Made
  <2>2. Nought' = Nought
    BY DEF Nought
  <2> QED
    BY <1>1, <2>1, <2>2 DEF DownInOrder, Made
<1>17. DoneBefore'
  <2>1. ASSUME NEW q \in Requests, applied'[q].times # 0
        PROVE  /\ Made(q) /\ request[q].sock # 0
               /\ \A k \in 1 .. Len(down'[request[q].sock]) : q < down'[request[q].sock][k]
    <3>1. CASE q = r
      <4>1. ASSUME NEW k \in 1 .. Len(down'[conn]) PROVE r < down'[conn][k]
        <5>1. PICK m \in 1 .. Len(down[conn]) : m = k + 1 /\ down'[conn][k] = down[conn][m]
          BY <1>4, <1>14, <4>1
        <5>2. 1 < m
          BY <5>1
        <5> QED
          BY <1>4, <1>5, <5>1, <5>2 DEF LiveInv, DownInOrder
      <4> QED
        BY <1>1, <1>6, <3>1, <4>1
    <3>2. CASE q # r
      <4>1. /\ Made(q) /\ request[q].sock # 0
            /\ \A k \in 1 .. Len(down[request[q].sock]) : q < down[request[q].sock][k]
        BY <1>11, <2>1, <3>2 DEF LiveInv, DoneBefore
      <4>2. request[q].sock \in Conns
        BY <4>1, LiveTypes DEF LiveInv
      <4>3. ASSUME NEW k \in 1 .. Len(down'[request[q].sock])
            PROVE  q < down'[request[q].sock][k]
        <5>1. PICK m \in 1 .. Len(down[request[q].sock]) :
                 down'[request[q].sock][k] = down[request[q].sock][m]
          BY <1>14, <4>2, <4>3
        <5> QED
          BY <4>1, <5>1
      <4> QED
        BY <4>1, <4>3
    <3> QED
      BY <3>1, <3>2
  <2> QED
    BY <1>1, <2>1 DEF DoneBefore, Made
<1>18. AnswersTell'
  <2>1. ASSUME NEW s \in Conns, NEW k \in 1 .. Len(up'[s])
        PROVE  /\ up'[s][k].id \in Requests
               /\ applied'[up'[s][k].id] = [times |-> 1, ok |-> up'[s][k].ok, seen |-> up'[s][k].seen,
                                            touched |-> applied'[up'[s][k].id].touched]
    <3>1. CASE k \in 1 .. Len(up[s]) /\ up'[s][k] = up[s][k]
      <4>1. /\ up[s][k].id \in Requests
            /\ applied[up[s][k].id] = [times |-> 1, ok |-> up[s][k].ok, seen |-> up[s][k].seen,
                                       touched |-> applied[up[s][k].id].touched]
        BY <3>1 DEF LiveInv, AnswersTell
      <4>2. up[s][k].id # r
        BY <1>6, <4>1 DEF Nought
      <4> QED
        BY <1>11, <3>1, <4>1, <4>2
    <3>2. CASE up'[s][k] = answer(ok)
      BY <1>6, <1>10, <1>11, <3>2
    <3>3. (k \in 1 .. Len(up[s]) /\ up'[s][k] = up[s][k]) \/ up'[s][k] = answer(ok)
      <4>1. CASE up'[s] = up[s]
        BY <4>1
      <4>2. CASE up'[s] = Append(up[s], answer(ok))
        <5>1. /\ Len(Append(up[s], answer(ok))) = Len(up[s]) + 1 /\ Len(up[s]) \in Nat
              /\ \A j \in 1 .. Len(up[s]) : Append(up[s], answer(ok))[j] = up[s][j]
              /\ Append(up[s], answer(ok))[Len(up[s]) + 1] = answer(ok)
          <6> HIDE DEF A
          <6>1. up[s] \in Seq(A) /\ Len(up[s]) \in Nat
            BY <1>4, LenProperties
          <6> QED
            BY <1>10, <6>1, AppendProperties
        <5>2. k \in 1 .. Len(up[s]) + 1
          BY <4>2, <5>1
        <5>3. k \in 1 .. Len(up[s]) \/ k = Len(up[s]) + 1
          BY <5>1, <5>2
        <5> QED
          BY <4>2, <5>1, <5>3
      <4>3. up'[s] = up[s] \/ up'[s] = Append(up[s], answer(ok))
        <5> HIDE DEF A
        <5> QED
          BY <1>4, <1>8
      <4> QED
        BY <4>1, <4>2, <4>3
    <3> QED
      BY <3>1, <3>2, <3>3
  <2> QED
    BY <2>1 DEF AnswersTell
<1>19. \A q \in Requests : applied[q].ok => q # r /\ applied'[q] = applied[q] /\ q < r
  <2>1. ASSUME NEW q \in Requests, applied[q].ok PROVE q # r /\ applied'[q] = applied[q] /\ q < r
    <3>1. q # r
      BY <1>6, <2>1 DEF Nought
    <3>2. applied[q].times # 0
      BY <2>1 DEF LiveInv, DoneIsInPlace
    <3>3. q < r
      BY <1>1, <1>3, <3>2, NextIsNewest
    <3> QED
      BY <1>11, <3>1, <3>3
  <2> QED
    BY <2>1
<1>20. DoneIsInPlace'
  <2>1. ASSUME NEW x \in Requests
        PROVE  /\ applied'[x].ok => applied'[x].times = 1
               /\ applied'[x].ok /\ request[x].op \in Changes =>
                     InPlace(x, request[x].path)' /\ InPlace(x, request[x].to)'
    <3>1. CASE x = r
      <4>1. ASSUME applied'[x].ok, request[x].op \in Changes
            PROVE  file'[request[x].path] = Left(r) /\ file'[request[x].to] = Left(r)
        <5>1. ok
          BY <1>11, <3>1, <4>1
        <5>2. file' = Changed(r, request[r])
          BY <1>8, <5>1
        <5> QED
          BY <1>9, <3>1, <4>1, <5>2
      <4> QED
        BY <1>1, <1>11, <3>1, <4>1 DEF InPlace, Left
    <3>2. CASE x # r
      <4>1. applied'[x] = applied[x] /\ (applied[x].ok => applied[x].times = 1)
        BY <1>11, <3>2 DEF LiveInv, DoneIsInPlace
      <4>2. ASSUME applied[x].ok, NEW f \in Files, InPlace(x, f) PROVE InPlace(x, f)'
        <5>1. CASE \E q \in Requests : q > x /\ f \in applied[q].touched
          <6>1. PICK q \in Requests : q > x /\ f \in applied[q].touched
            BY <5>1
          <6>2. q # r
            BY <1>6, <6>1 DEF Nought
          <6>3. applied'[q] = applied[q]
            BY <1>11, <6>2
          <6> QED
            BY <6>1, <6>3 DEF InPlace
        <5>2. CASE file[f] = Left(x) /\ file'[f] = file[f]
          BY <1>1, <5>2 DEF InPlace, Left
        <5>3. CASE file'[f] # file[f]
          <6>1. f \in applied'[r].touched
            BY <1>11, <5>3
          <6>2. r > x
            BY <1>6, <1>19, <4>2, LiveAssumption
          <6> QED
            BY <1>6, <6>1, <6>2 DEF InPlace
        <5> QED
          BY <4>2, <5>1, <5>2, <5>3 DEF InPlace
      <4>3. applied[x].ok => request[x].path \in Files /\ request[x].to \in Files
        <5>1. applied[x].ok => Made(x)
          <6>1. applied[x].ok => applied[x].times # 0
            BY DEF LiveInv, DoneIsInPlace
          <6> QED
            BY <6>1 DEF LiveInv, DoneBefore
        <5> QED
          BY <5>1 DEF LiveInv, MadeInOrder
      <4>4. ASSUME applied[x].ok, request[x].op \in Changes
            PROVE  InPlace(x, request[x].path)' /\ InPlace(x, request[x].to)'
        <5>1. InPlace(x, request[x].path) /\ InPlace(x, request[x].to)
          BY <4>4 DEF LiveInv, DoneIsInPlace
        <5>2. \A f \in Files : InPlace(x, f) => InPlace(x, f)'
          BY <4>2, <4>4
        <5>3. request'[x].path = request[x].path /\ request'[x].to = request[x].to
          BY <1>1
        <5> QED
          BY <4>3, <4>4, <5>1, <5>2, <5>3 DEF InPlace
      <4> QED
        BY <4>1, <4>4
    <3> QED
      BY <3>1, <3>2
  <2>2. \A x \in Requests : request'[x].op = request[x].op
    BY <1>1
  <2> QED
    BY <2>1, <2>2 DEF DoneIsInPlace
<1>21. AnswerIsItsOwn'
  BY <1>1, <1>19 DEF LiveInv, AnswerIsItsOwn
<1> QED
  BY <1>15, <1>16, <1>17, <1>18, <1>20, <1>21 DEF LiveInv

LEMMA LiveStarts == ASSUME LiveInit PROVE LiveInv
<1>1. /\ request = [r \in Requests |-> NoRequest] /\ applied = [r \in Requests |-> Nought]
      /\ current = 0 /\ bound = {} /\ conn = 0 /\ opened = {}
      /\ down = [s \in Conns |-> <<>>] /\ up = [s \in Conns |-> <<>>]
      /\ file \in [Files -> {0, Before}]
  BY DEF LiveInit
<1>2. \A r \in Requests : ~Made(r) /\ applied[r] = Nought /\ request[r] = NoRequest
  BY <1>1 DEF Made, NoRequest
<1>3. \A s \in Conns : 1 .. Len(down[s]) = {} /\ 1 .. Len(up[s]) = {}
  <2>1. 1 .. Len(<<>>) = {}
    OBVIOUS
  <2> QED
    BY <1>1, <2>1
<1>4. LiveTypeOK
  <2>1. down \in [Conns -> Seq(Requests)] /\ file \in [Files -> {0, Before} \cup Requests]
        /\ applied \in [Requests -> [times : {0, 1}, ok : BOOLEAN, seen : {0, Before} \cup Requests,
                                     touched : SUBSET Files]]
    BY <1>1, EmptySeq DEF Nought
  <2>2. up \in [Conns -> Seq([id : Requests, ok : BOOLEAN, seen : {0, Before} \cup Requests])]
    BY <1>1, EmptySeq
  <2>3. request \in [Requests -> [op : {"none"} \cup Operations, path : {"none"} \cup Files,
                                 to : {"none"} \cup Files, sock : {0} \cup Conns,
                                 phase : {"none", "waiting", "ok", "failed"},
                                 seen : {0, Before} \cup Requests]]
    BY <1>1 DEF NoRequest
  <2> QED
    BY <1>1, <2>1, <2>2, <2>3 DEF LiveTypeOK
<1>5. OpenedInOrder /\ MadeInOrder
  BY <1>1, <1>2 DEF OpenedInOrder, MadeInOrder, NoRequest
<1>6. DownInOrder /\ DoneBefore /\ AnswersTell
  BY <1>2, <1>3 DEF DownInOrder, DoneBefore, AnswersTell, Nought
<1>7. DoneIsInPlace /\ AnswerIsItsOwn
  BY <1>2 DEF DoneIsInPlace, AnswerIsItsOwn, Nought, NoRequest
<1> QED
  BY <1>4, <1>5, <1>6, <1>7 DEF LiveInv

LEMMA LiveStepKeeps == ASSUME LiveInv, [LiveNext]_liveVars PROVE LiveInv'
<1>1. CASE Connects
  BY <1>1, ConnectsKeeps
<1>2. CASE AgentLoses
  BY <1>2, AgentLosesKeeps
<1>3. CASE Serve
  BY <1>3, ServeKeeps
<1>4. ASSUME NEW r \in Requests, Ask(r) PROVE LiveInv'
  BY <1>4, AskKeeps
<1>5. ASSUME NEW r \in Requests, TimeOut(r) PROVE LiveInv'
  BY <1>5, TimeOutKeeps
<1>6. ASSUME NEW s \in Conns, Hear(s) PROVE LiveInv'
  BY <1>6, HearKeeps
<1>7. ASSUME NEW s \in Conns, SocketCloses(s) PROVE LiveInv'
  BY <1>7, SocketClosesKeeps
<1>8. CASE UNCHANGED liveVars
  <2>1. UNCHANGED <<request, current, bound, conn, opened, down, up, file, applied>>
    BY <1>8 DEF liveVars
  <2>2. LiveTypeOK' /\ AnswersTell'
    BY <2>1 DEF LiveInv, LiveTypeOK, AnswersTell, Operations
  <2>3. OpenedInOrder' /\ MadeInOrder' /\ DownInOrder' /\ DoneBefore' /\ DoneIsInPlace' /\ AnswerIsItsOwn'
    BY <2>1, SettledKeeps DEF LiveInv, LiveTypeOK
  <2> QED
    BY <2>2, <2>3 DEF LiveInv
<1> QED
  BY <1>1, <1>2, <1>3, <1>4, <1>5, <1>6, <1>7, <1>8 DEF LiveNext

\* A live file request (requestFilesystem, server-agent.service.ts:107) is done once at most, the
\* panel reports as its result what it gave, and what is reported as written or deleted is so
\* unless a request that was made later, one that worked or one that failed halfway, has changed
\* that path.  Of the files after a request that was reported as failed nothing is said.
THEOREM FilesTruly == LiveSpec => []FilesAreAsReported
<1>1. LiveInv => FilesAreAsReported
  <2> SUFFICES ASSUME LiveInv PROVE FilesAreAsReported
    OBVIOUS
  <2>1. \A r \in Requests : applied[r].times <= 1
    <3>1. \A n \in {0, 1} : n <= 1
      OBVIOUS
    <3> QED
      BY <3>1, LiveTypes DEF LiveInv
  <2>2. ReportedIsInPlace
    BY <2>1 DEF LiveInv, DoneIsInPlace, InPlace, AnswerIsItsOwn, ReportedIsInPlace
  <2> QED
    BY <2>2 DEF LiveInv, FilesAreAsReported
<1>2. LiveInit => LiveInv
  BY LiveStarts
<1>3. LiveInv /\ [LiveNext]_liveVars => LiveInv'
  BY LiveStepKeeps
<1> QED
  BY <1>1, <1>2, <1>3, PTL DEF LiveSpec

-----------------------------------------------------------------------------
(* The journal *)

\* Every line was read after the first one, and nothing happens before that.
NothingRead ==
    first = 0 =>
       /\ cursor = 0 /\ stored = <<>> /\ dropped = {} /\ \A k \in Links : wire[k] = <<>>
       /\ \A k \in Links : stream[k].phase \in {"none", "open", "over"}

OnceEach(s) == \A m, n \in 1 .. Len(s) : m < n => s[m] # s[n]

EachOnce == OnceEach(stored) /\ Len(stored) <= KeptRows

\* What was acknowledged is stored, or was: the answers on their way, the line whose cursor is
\* about to be written, and the cursor.
AckedIsStored ==
    /\ cursor # 0 => Reached(cursor)
    /\ \A k \in Links :
          /\ \A i \in 1 .. Len(acks[k]) : Reached(acks[k][i])
          /\ stream[k].phase = "persist" => Reached(stream[k].next)

\* A row comes after all that are older unless its line had to go before.
InOrder(s, D) ==
    /\ \A m, n \in 1 .. Len(s) : m < n /\ s[n] \notin D => s[m] < s[n]
    /\ \A d \in D : \A n \in 1 .. Len(s) : s[n] \notin D => d < s[n]

\* As long as no line was passed over, the lines that were stored go on from the first one, and
\* every line that is on its way or that is sent next was stored already or is just the next one.
Follows(line) == first <= line /\ (line = first \/ Reached(line - 1))

ReachedGoesOn == \A n \in Nat : Reached(n) => first <= n /\ \A m \in first .. n : Reached(m)

StoredGoesOn ==
    ~skipped =>
       /\ ReachedGoesOn /\ InOrder(stored, dropped)
       /\ \A k \in Links :
             /\ \A i \in 1 .. Len(wire[k]) : Follows(wire[k][i])
             /\ stream[k].phase \in {"read", "ack"} => Follows(stream[k].next)

JournalTypeOK ==
    /\ written \in Nat /\ oldest \in Nat \ {0} /\ cursor \in Nat
    /\ connected \in {0} \cup Links /\ linked \in Nat
    /\ stream \in [Links -> [phase : {"none", "open", "read", "ack", "persist", "over"},
                             next : Nat, invalid : BOOLEAN]]
    /\ wire \in [Links -> Seq(Nat)] /\ acks \in [Links -> Seq(Nat)]
    /\ stored \in Seq(Nat) /\ dropped \in SUBSET Nat /\ first \in Nat /\ skipped \in BOOLEAN

JournalInv ==
    JournalTypeOK /\ NothingRead /\ EachOnce /\ AckedIsStored /\ StoredGoesOn

\* What is left of what was on its way.
Rest(t, s) == t = s \/ t = <<>> \/ (s # <<>> /\ t = Tail(s))

LEMMA Shortened ==
  ASSUME NEW s \in Seq(Nat), NEW t \in Seq(Nat), Rest(t, s)
  PROVE  /\ s = <<>> => t = <<>>
         /\ \A i \in 1 .. Len(t) : \E j \in 1 .. Len(s) : t[i] = s[j]
<1>1. CASE t = s
  BY <1>1
<1>2. CASE t = <<>>
  BY <1>2, EmptySeq
<1>3. CASE s # <<>> /\ t = Tail(s)
  <2>1. /\ t \in Seq(Nat) /\ Len(t) = Len(s) - 1 /\ Len(s) \in Nat
        /\ \A i \in 1 .. Len(t) : t[i] = s[i + 1]
    BY <1>3, HeadTailProperties, LenProperties
  <2>2. \A i \in 1 .. Len(t) : i + 1 \in 1 .. Len(s)
    BY <2>1
  <2> QED
    BY <1>3, <2>1, <2>2
<1> QED
  BY <1>1, <1>2, <1>3 DEF Rest

LEMMA StreamTypes ==
  ASSUME JournalTypeOK, NEW k \in Links
  PROVE  /\ stream[k].phase \in {"none", "open", "read", "ack", "persist", "over"}
         /\ stream[k].next \in Nat /\ stream[k].invalid \in BOOLEAN
         /\ wire[k] \in Seq(Nat) /\ acks[k] \in Seq(Nat)
         /\ Len(stored) \in Nat /\ first \in Nat /\ k \in Nat /\ k # 0
<1>1. stream[k] \in [phase : {"none", "open", "read", "ack", "persist", "over"},
                     next : Nat, invalid : BOOLEAN]
  BY DEF JournalTypeOK
<1>2. wire[k] \in Seq(Nat) /\ acks[k] \in Seq(Nat) /\ first \in Nat /\ stored \in Seq(Nat)
  BY DEF JournalTypeOK
<1>3. Len(stored) \in Nat
  BY <1>2, LenProperties
<1> QED
  BY <1>1, <1>2, <1>3, JournalAssumption

\* Lines and answers are lost or heard, and streams stop, open again or hear that their line is
\* stored.
LEMMA LinesLeft ==
  ASSUME JournalInv, JournalTypeOK', UNCHANGED <<cursor, stored, dropped, first, skipped>>,
         \A k \in Links :
            /\ Rest(wire'[k], wire[k]) /\ Rest(acks'[k], acks[k])
            /\ \/ stream'[k] = stream[k]
               \/ stream'[k].phase \in {"none", "open", "over"}
               \/ stream[k].phase = "ack" /\ stream'[k].phase = "persist" /\ Reached(stream'[k].next)
  PROVE  JournalInv'
<1>1. ASSUME NEW k \in Links
      PROVE  /\ \A i \in 1 .. Len(wire'[k]) : \E j \in 1 .. Len(wire[k]) : wire'[k][i] = wire[k][j]
             /\ \A i \in 1 .. Len(acks'[k]) : \E j \in 1 .. Len(acks[k]) : acks'[k][i] = acks[k][j]
             /\ wire[k] = <<>> => wire'[k] = <<>>
  <2>1. /\ wire[k] \in Seq(Nat) /\ acks[k] \in Seq(Nat)
        /\ wire'[k] \in Seq(Nat) /\ acks'[k] \in Seq(Nat)
    BY DEF JournalInv, JournalTypeOK
  <2>2. Rest(wire'[k], wire[k]) /\ Rest(acks'[k], acks[k])
    OBVIOUS
  <2>4. /\ \A i \in 1 .. Len(wire'[k]) : \E j \in 1 .. Len(wire[k]) : wire'[k][i] = wire[k][j]
        /\ wire[k] = <<>> => wire'[k] = <<>>
    BY <2>1, <2>2, Shortened
  <2>5. \A i \in 1 .. Len(acks'[k]) : \E j \in 1 .. Len(acks[k]) : acks'[k][i] = acks[k][j]
    BY <2>1, <2>2, Shortened
  <2> QED
    BY <2>4, <2>5
<1>2. EachOnce'
  BY DEF JournalInv, EachOnce
<1>3. NothingRead'
  <2>1. ASSUME first = 0, NEW k \in Links
        PROVE  stream'[k].phase \in {"none", "open", "over"} /\ wire'[k] = <<>>
    <3>1. stream[k].phase \in {"none", "open", "over"} /\ wire[k] = <<>>
      BY <2>1 DEF JournalInv, NothingRead
    <3> QED
      BY <1>1, <3>1
  <2> QED
    BY <2>1 DEF JournalInv, NothingRead
<1>4. AckedIsStored'
  <2>1. ASSUME NEW k \in Links
        PROVE  /\ \A i \in 1 .. Len(acks'[k]) : Reached(acks'[k][i])
               /\ stream'[k].phase = "persist" => Reached(stream'[k].next)
    <3>1. \A i \in 1 .. Len(acks[k]) : Reached(acks[k][i])
      BY DEF JournalInv, AckedIsStored
    <3>2. \A i \in 1 .. Len(acks'[k]) : Reached(acks'[k][i])
      BY <1>1, <3>1
    <3>3. stream'[k].phase = "persist" => Reached(stream'[k].next)
      BY DEF JournalInv, AckedIsStored
    <3> QED
      BY <3>2, <3>3
  <2>2. cursor # 0 => Reached(cursor)
    BY DEF JournalInv, AckedIsStored
  <2> QED
    BY <2>1, <2>2 DEF AckedIsStored, Reached, In
<1>5. StoredGoesOn'
  <2>1. ASSUME ~skipped, NEW k \in Links
        PROVE  /\ \A i \in 1 .. Len(wire'[k]) : Follows(wire'[k][i])
               /\ stream'[k].phase \in {"read", "ack"} => Follows(stream'[k].next)
    <3>1. \A i \in 1 .. Len(wire[k]) : Follows(wire[k][i])
      BY <2>1 DEF JournalInv, StoredGoesOn
    <3>2. \A i \in 1 .. Len(wire'[k]) : Follows(wire'[k][i])
      BY <1>1, <3>1
    <3>3. stream'[k].phase \in {"read", "ack"} => Follows(stream'[k].next)
      BY <2>1 DEF JournalInv, StoredGoesOn
    <3> QED
      BY <3>2, <3>3
  <2>2. ~skipped => ReachedGoesOn /\ InOrder(stored, dropped)
    BY DEF JournalInv, StoredGoesOn
  <2>3. \A n : Reached(n)' <=> Reached(n)
    BY DEF Reached, In
  <2>4. ~skipped => ReachedGoesOn' /\ InOrder(stored, dropped)'
    BY <2>2, <2>3 DEF ReachedGoesOn, InOrder
  <2>5. \A n : Follows(n)' <=> Follows(n)
    BY <2>3 DEF Follows
  <2> QED
    BY <2>1, <2>4, <2>5 DEF StoredGoesOn
<1> QED
  BY <1>2, <1>3, <1>4, <1>5 DEF JournalInv

LEMMA BrokenKeeps ==
  ASSUME JournalInv, connected # 0, Broken, JournalTypeOK',
         UNCHANGED <<cursor, stored, dropped, first, skipped>>,
         stream' = stream \/ \A k \in Links : stream'[k].phase \in {"none", "over"}
  PROVE  JournalInv'
<1>1. wire \in [Links -> Seq(Nat)] /\ acks \in [Links -> Seq(Nat)]
  BY DEF JournalInv, JournalTypeOK
<1>2. \A k \in Links : /\ wire'[k] = wire[k] \/ wire'[k] = <<>>
                       /\ acks'[k] = acks[k] \/ acks'[k] = <<>>
  BY <1>1 DEF Broken
<1>3. \A k \in Links : Rest(wire'[k], wire[k]) /\ Rest(acks'[k], acks[k])
  BY <1>2 DEF Rest
<1>4. \A k \in Links : stream'[k] = stream[k] \/ stream'[k].phase \in {"none", "open", "over"}
  OBVIOUS
<1> QED
  BY <1>3, <1>4, LinesLeft

LEMMA BrokenTypes ==
  ASSUME JournalInv, Broken
  PROVE  connected' = 0 /\ wire' \in [Links -> Seq(Nat)] /\ acks' \in [Links -> Seq(Nat)]
<1>1. wire \in [Links -> Seq(Nat)] /\ acks \in [Links -> Seq(Nat)] /\ <<>> \in Seq(Nat)
  BY EmptySeq DEF JournalInv, JournalTypeOK
<1> QED
  BY <1>1 DEF Broken

\* A stream goes to its next step; the others do not move.
Streams == [Links -> [phase : {"none", "open", "read", "ack", "persist", "over"},
                      next : Nat, invalid : BOOLEAN]]

LEMMA StreamGoesOn ==
  ASSUME JournalTypeOK, NEW k \in Links, NEW n \in Nat,
         NEW p \in {"none", "open", "read", "ack", "persist", "over"},
         stream' = [stream EXCEPT ![k].phase = p, ![k].next = n]
  PROVE  /\ stream' \in Streams /\ stream'[k].phase = p /\ stream'[k].next = n
         /\ \A l \in Links : l # k => stream'[l] = stream[l]
<1> DEFINE T == [phase : {"none", "open", "read", "ack", "persist", "over"},
                 next : Nat, invalid : BOOLEAN]
           one == [stream EXCEPT ![k].phase = p]
           two == [one EXCEPT ![k].next = n]
<1>1. stream \in [Links -> T]
  BY DEF JournalTypeOK
<1>2. one \in [Links -> T] /\ one[k].phase = p /\ \A l \in Links : l # k => one[l] = stream[l]
  BY <1>1
<1> HIDE DEF one
<1>3. two \in [Links -> T] /\ two[k].phase = one[k].phase /\ two[k].next = n
      /\ \A l \in Links : l # k => two[l] = one[l]
  BY <1>2
<1>4. stream' = two
  BY DEF one
<1> HIDE DEF two
<1> QED
  BY <1>2, <1>3, <1>4 DEF Streams

LEMMA StreamTurns ==
  ASSUME JournalTypeOK, NEW k \in Links,
         NEW p \in {"none", "open", "read", "ack", "persist", "over"},
         stream' = [stream EXCEPT ![k].phase = p]
  PROVE  /\ stream' \in Streams /\ stream'[k].phase = p /\ stream'[k].next = stream[k].next
         /\ \A l \in Links : l # k => stream'[l] = stream[l]
<1> DEFINE T == [phase : {"none", "open", "read", "ack", "persist", "over"},
                 next : Nat, invalid : BOOLEAN]
<1>1. stream \in [Links -> T]
  BY DEF JournalTypeOK
<1> QED
  BY <1>1 DEF Streams

\* What comes after a line that was stored.
LEMMA StoredIs ==
  ASSUME JournalInv, ~skipped, NEW line \in Nat, Reached(line)
  PROVE  first <= line /\ \A m \in first .. line + 1 : Follows(m)
<1>1. first \in Nat /\ first <= line /\ \A m \in first .. line : Reached(m)
  BY DEF JournalInv, JournalTypeOK, StoredGoesOn, ReachedGoesOn
<1>2. ASSUME NEW m \in first .. line + 1 PROVE Follows(m)
  <2>1. m = first \/ m - 1 \in first .. line
    BY <1>1
  <2> QED
    BY <1>1, <2>1 DEF Follows
<1> QED
  BY <1>1, <1>2

\* The oldest row goes.
LEMMA TrimKeeps ==
  ASSUME NEW s \in Seq(Nat), s # <<>>, NEW D \in SUBSET Nat
  PROVE  /\ Tail(s) \in Seq(Nat) /\ Head(s) \in Nat /\ Len(Tail(s)) = Len(s) - 1 /\ Len(s) \in Nat
         /\ \A m : In(m, Tail(s)) \/ m \in D \cup {Head(s)} <=> In(m, s) \/ m \in D
         /\ OnceEach(s) => OnceEach(Tail(s))
         /\ InOrder(s, D) => InOrder(Tail(s), D \cup {Head(s)})
<1> DEFINE t == Tail(s)
           h == Head(s)
<1>1. /\ t \in Seq(Nat) /\ h \in Nat /\ Len(t) = Len(s) - 1 /\ Len(s) \in Nat \ {0} /\ h = s[1]
      /\ \A i \in 1 .. Len(t) : t[i] = s[i + 1]
  BY HeadTailProperties, EmptySeq, LenProperties
<1>2. DOMAIN s = 1 .. Len(s) /\ DOMAIN t = 1 .. Len(t)
  BY <1>1, LenProperties
<1>3. \A i \in 1 .. Len(t) : i + 1 \in 2 .. Len(s) /\ i + 1 \in 1 .. Len(s)
  BY <1>1
<1>4. \A i \in 1 .. Len(s) : i = 1 \/ (i - 1 \in 1 .. Len(t) /\ s[i] = t[i - 1])
  <2>1. ASSUME NEW i \in 1 .. Len(s), i # 1 PROVE i - 1 \in 1 .. Len(t) /\ s[i] = t[i - 1]
    <3>1. i - 1 \in 1 .. Len(t)
      BY <1>1, <2>1
    <3>2. (i - 1) + 1 = i
      OBVIOUS
    <3> QED
      BY <1>1, <3>1, <3>2
  <2> QED
    BY <2>1
<1> HIDE DEF t, h
<1>5. \A m : In(m, t) \/ m \in D \cup {h} <=> In(m, s) \/ m \in D
  <2>1. \A m : In(m, t) => In(m, s)
    BY <1>1, <1>2, <1>3 DEF In
  <2>2. In(h, s)
    BY <1>1, <1>2 DEF In
  <2>3. \A m : In(m, s) => In(m, t) \/ m = h
    BY <1>1, <1>2, <1>4 DEF In
  <2> QED
    BY <2>1, <2>2, <2>3
<1>6. ASSUME OnceEach(s) PROVE OnceEach(t)
  <2>1. ASSUME NEW m \in 1 .. Len(t), NEW n \in 1 .. Len(t), m < n PROVE t[m] # t[n]
    <3>1. m + 1 < n + 1 /\ m + 1 \in 1 .. Len(s) /\ n + 1 \in 1 .. Len(s)
      BY <1>1, <1>3, <2>1
    <3>2. s[m + 1] # s[n + 1]
      BY <1>6, <3>1 DEF OnceEach
    <3> QED
      BY <1>1, <3>2
  <2> QED
    BY <2>1 DEF OnceEach
<1>7. ASSUME InOrder(s, D) PROVE InOrder(t, D \cup {h})
  <2>1. ASSUME NEW m \in 1 .. Len(t), NEW n \in 1 .. Len(t), m < n, t[n] \notin D PROVE t[m] < t[n]
    <3>1. m + 1 < n + 1 /\ m + 1 \in 1 .. Len(s) /\ n + 1 \in 1 .. Len(s)
      BY <1>1, <1>3, <2>1
    <3>2. s[n + 1] \notin D
      BY <1>1, <2>1
    <3>3. s[m + 1] < s[n + 1]
      BY <1>7, <3>1, <3>2 DEF InOrder
    <3> QED
      BY <1>1, <3>3
  <2>2. \A d \in D : \A n \in 1 .. Len(t) : t[n] \notin D => d < t[n]
    BY <1>1, <1>3, <1>7 DEF InOrder
  <2>3. \A n \in 1 .. Len(t) : t[n] \notin D => h < t[n]
    <3>1. ASSUME NEW n \in 1 .. Len(t), t[n] \notin D PROVE h < t[n]
      <4>1. 1 < n + 1 /\ 1 \in 1 .. Len(s)
        BY <1>1
      <4> QED
        BY <1>1, <1>3, <1>7, <3>1, <4>1 DEF InOrder
    <3> QED
      BY <3>1
  <2> QED
    BY <2>1, <2>2, <2>3 DEF InOrder
<1> QED
  BY <1>1, <1>5, <1>6, <1>7 DEF t, h

LEMMA OpenJournalKeeps == ASSUME JournalInv, NEW k \in Links, OpenJournal(k) PROVE JournalInv'
<1>1. /\ Does(k, "open")
      /\ UNCHANGED <<written, oldest, cursor, connected, linked, wire, acks, stored, dropped, trouble>>
  BY DEF OpenJournal
<1>2. /\ first \in Nat /\ cursor \in Nat /\ oldest \in Nat /\ written \in Nat
      /\ JournalTypeOK /\ skipped \in BOOLEAN
  BY DEF JournalInv, JournalTypeOK
<1>3. CASE UNCHANGED <<first, skipped>> /\ stream' = [stream EXCEPT ![k].invalid = TRUE]
  <2>1. stream' \in Streams /\ stream'[k].phase = "open"
        /\ \A l \in Links : l # k => stream'[l] = stream[l]
    BY <1>1, <1>2, <1>3 DEF JournalTypeOK, Streams, Does
  <2>2. JournalTypeOK'
    BY <1>1, <1>2, <1>3, <2>1 DEF JournalTypeOK, Streams
  <2>3. \A l \in Links : Rest(wire'[l], wire[l]) /\ Rest(acks'[l], acks[l])
    BY <1>1 DEF Rest
  <2>4. \A l \in Links : stream'[l] = stream[l] \/ stream'[l].phase \in {"none", "open", "over"}
    BY <2>1
  <2> QED
    BY <1>1, <1>3, <2>2, <2>3, <2>4, LinesLeft
<1>4. ASSUME NEW n \in Nat, stream' = [stream EXCEPT ![k].phase = "read", ![k].next = n],
             first' \in Nat, first' # 0, skipped' \in BOOLEAN,
             first' = first \/ first = 0,
             ~skipped' => ~skipped /\ first' <= n /\ (n = first' \/ Reached(n - 1))
      PROVE  JournalInv'
  <2>1. /\ stream' \in Streams /\ stream'[k].phase = "read" /\ stream'[k].next = n
        /\ \A l \in Links : l # k => stream'[l] = stream[l]
    BY <1>2, <1>4, StreamGoesOn
  <2>2. JournalTypeOK'
    BY <1>1, <1>2, <1>4, <2>1 DEF JournalTypeOK, Streams
  <2>3. NothingRead' /\ EachOnce'
    BY <1>1, <1>4 DEF JournalInv, NothingRead, EachOnce
  <2>4. AckedIsStored'
    BY <1>1, <2>1 DEF JournalInv, AckedIsStored, Reached, In
  <2>5. StoredGoesOn'
    <3>1. \A m : Reached(m)' <=> Reached(m)
      BY <1>1 DEF Reached, In
    <3>2. ASSUME ~skipped', first' = first PROVE StoredGoesOn'
      <4>1. \A m : Follows(m)' <=> Follows(m)
        BY <3>1, <3>2 DEF Follows
      <4>2. ReachedGoesOn' /\ InOrder(stored, dropped)'
        BY <1>1, <1>4, <3>1, <3>2 DEF JournalInv, StoredGoesOn, ReachedGoesOn, InOrder
      <4>3. Follows(n)'
        BY <1>4, <3>1, <3>2 DEF Follows
      <4>4. ASSUME NEW l \in Links
            PROVE  /\ \A i \in 1 .. Len(wire[l]) : Follows(wire[l][i])'
                   /\ stream'[l].phase \in {"read", "ack"} => Follows(stream[l].next)' \/ l = k
        BY <1>1, <1>4, <2>1, <3>2, <4>1, <4>3 DEF JournalInv, StoredGoesOn
      <4> QED
        BY <1>1, <2>1, <4>2, <4>3, <4>4 DEF StoredGoesOn
    <3>3. ASSUME ~skipped', first = 0 PROVE StoredGoesOn'
      <4>1. /\ stored = <<>> /\ dropped = {} /\ \A l \in Links : wire[l] = <<>>
            /\ \A l \in Links : l # k => stream'[l].phase \in {"none", "open", "over"}
        BY <2>1, <3>3 DEF JournalInv, NothingRead
      <4>2. 1 .. Len(<<>>) = {} /\ DOMAIN <<>> = {}
        OBVIOUS
      <4>3. \A m : ~Reached(m)
        BY <4>1, <4>2 DEF Reached, In
      <4>4. ReachedGoesOn' /\ InOrder(stored, dropped)'
        BY <1>1, <3>1, <4>1, <4>2, <4>3 DEF ReachedGoesOn, InOrder
      <4>5. n = first'
        BY <1>4, <3>3, <4>3
      <4>6. Follows(n)'
        BY <1>4, <4>5 DEF Follows
      <4>7. \A l \in Links : 1 .. Len(wire'[l]) = {}
        BY <1>1, <4>1, <4>2
      <4>8. \A l \in Links : stream'[l].phase \in {"read", "ack"} => l = k
        BY <4>1
      <4> QED
        BY <2>1, <4>4, <4>6, <4>7, <4>8 DEF StoredGoesOn
    <3>4. skipped' => StoredGoesOn'
      BY DEF StoredGoesOn
    <3> QED
      BY <1>4, <3>2, <3>3, <3>4
  <2> QED
    BY <2>2, <2>3, <2>4, <2>5 DEF JournalInv
<1>5. CASE /\ cursor # 0 /\ UNCHANGED <<first, skipped>>
           /\ stream' = [stream EXCEPT ![k].phase = "read", ![k].next = cursor + 1]
  <2>1. Reached(cursor) /\ first # 0
    BY <1>5 DEF JournalInv, AckedIsStored, NothingRead
  <2>2. ~skipped => first <= cursor + 1
    <3>1. ~skipped => first <= cursor
      BY <1>2, <2>1, StoredIs
    <3> QED
      BY <1>2, <3>1
  <2>3. cursor + 1 \in Nat /\ first' = first /\ skipped' = skipped
    BY <1>2, <1>5
  <2>4. stream' = [stream EXCEPT ![k].phase = "read", ![k].next = cursor + 1]
    BY <1>5
  <2> DEFINE n == cursor + 1
  <2>5. /\ n \in Nat /\ stream' = [stream EXCEPT ![k].phase = "read", ![k].next = n]
        /\ ~skipped' => first' <= n /\ Reached(n - 1)
    <3>1. n - 1 = cursor
      BY <1>2
    <3> QED
      BY <2>1, <2>2, <2>3, <2>4, <3>1
  <2> HIDE DEF n
  <2> QED
    BY <1>2, <1>4, <2>1, <2>3, <2>5
<1>6. ASSUME NEW n \in oldest .. written + 1, n >= first,
             stream' = [stream EXCEPT ![k].phase = "read", ![k].next = n],
             first' = IF first = 0 THEN n ELSE first,
             skipped' = (skipped \/ n > IF cursor = 0 THEN first' ELSE cursor + 1)
      PROVE  JournalInv'
  <2>1. oldest # 0 /\ n \in Nat /\ n # 0
    BY <1>2, <1>6 DEF JournalInv, JournalTypeOK
  <2>2. first' \in Nat /\ first' # 0 /\ skipped' \in BOOLEAN /\ (first' = first \/ first = 0)
    BY <1>2, <1>6, <2>1
  <2>3. ASSUME ~skipped' PROVE ~skipped /\ first' <= n /\ (n = first' \/ Reached(n - 1))
    <3>1. ~skipped /\ ~(n > IF cursor = 0 THEN first' ELSE cursor + 1)
      BY <1>6, <2>3
    <3>2. first' <= n
      BY <1>2, <1>6, <2>1
    <3>3. CASE cursor = 0
      BY <1>2, <2>1, <2>2, <3>1, <3>2, <3>3
    <3>4. CASE cursor # 0
      <4>1. Reached(cursor) /\ first # 0 /\ first' = first
        BY <1>6, <3>4 DEF JournalInv, AckedIsStored, NothingRead
      <4>2. first <= cursor /\ n \in first .. cursor + 1
        BY <1>2, <2>1, <3>1, <3>2, <3>4, <4>1, StoredIs
      <4>3. Follows(n)
        BY <1>2, <3>1, <4>1, <4>2, StoredIs
      <4> QED
        BY <3>1, <3>2, <4>1, <4>3 DEF Follows
    <3> QED
      BY <3>3, <3>4
  <2> QED
    BY <1>4, <1>6, <2>1, <2>2, <2>3
<1> QED
  BY <1>3, <1>5, <1>6 DEF OpenJournal

LEMMA SendLineKeeps == ASSUME JournalInv, NEW k \in Links, SendLine(k) PROVE JournalInv'
<1> DEFINE line == IF stream[k].next < oldest THEN oldest ELSE stream[k].next
<1>1. /\ stream[k].phase = "read"
      /\ wire' = [wire EXCEPT ![k] = Append(@, line)]
      /\ stream' = [stream EXCEPT ![k].phase = "ack", ![k].next = line]
      /\ skipped' = (skipped \/ line # stream[k].next)
      /\ UNCHANGED <<written, oldest, cursor, connected, linked, acks, stored, dropped, first, trouble>>
  BY DEF SendLine, Does, AfterSend
<1>2. line \in Nat /\ skipped \in BOOLEAN /\ JournalTypeOK /\ wire \in [Links -> Seq(Nat)]
  BY StreamTypes DEF JournalInv, JournalTypeOK
<1>3. first # 0
  BY <1>1 DEF JournalInv, NothingRead
<1>4. ~skipped' => ~skipped /\ Follows(line)
  BY <1>1 DEF JournalInv, StoredGoesOn
<1> HIDE DEF line
<1>5. /\ stream' \in Streams /\ stream'[k].phase = "ack" /\ stream'[k].next = line
      /\ \A l \in Links : l # k => stream'[l] = stream[l]
  BY <1>1, <1>2, StreamGoesOn
<1>6. /\ Append(wire[k], line) \in Seq(Nat) /\ Len(wire[k]) \in Nat
      /\ Len(Append(wire[k], line)) = Len(wire[k]) + 1
      /\ \A i \in 1 .. Len(wire[k]) : Append(wire[k], line)[i] = wire[k][i]
      /\ Append(wire[k], line)[Len(wire[k]) + 1] = line
  BY <1>2, AppendProperties, LenProperties
<1>7. /\ wire' \in [Links -> Seq(Nat)] /\ wire'[k] = Append(wire[k], line)
      /\ \A l \in Links : l # k => wire'[l] = wire[l]
  BY <1>1, <1>2, <1>6
<1>8. skipped' \in BOOLEAN
  BY <1>1
<1>9. JournalTypeOK'
  BY <1>1, <1>2, <1>5, <1>7, <1>8 DEF JournalTypeOK, Streams
<1>10. NothingRead' /\ EachOnce'
  BY <1>1, <1>3 DEF JournalInv, NothingRead, EachOnce
<1>11. AckedIsStored'
  <2>1. \A l \in Links : stream'[l].phase = "persist" => stream'[l] = stream[l]
    BY <1>5
  <2>2. \A l \in Links : stream'[l].phase = "persist" => Reached(stream'[l].next)
    BY <2>1 DEF JournalInv, AckedIsStored
  <2>3. \A l \in Links : \A i \in 1 .. Len(acks[l]) : Reached(acks[l][i])
    BY DEF JournalInv, AckedIsStored
  <2>4. cursor # 0 => Reached(cursor)
    BY DEF JournalInv, AckedIsStored
  <2>5. cursor' = cursor /\ acks' = acks /\ stored' = stored
    BY <1>1
  <2> QED
    BY <1>1, <2>2, <2>3, <2>4, <2>5 DEF AckedIsStored, Reached, In
<1>12. StoredGoesOn'
  <2>1. ASSUME ~skipped', NEW l \in Links
        PROVE  /\ \A i \in 1 .. Len(wire'[l]) : Follows(wire'[l][i])
               /\ stream'[l].phase \in {"read", "ack"} => Follows(stream'[l].next)
    <3>1. CASE l # k
      BY <1>4, <1>5, <1>7, <2>1, <3>1 DEF JournalInv, StoredGoesOn
    <3>2. CASE l = k
      <4>1. ASSUME NEW i \in 1 .. Len(wire'[k]) PROVE Follows(wire'[k][i])
        <5>0. i \in 1 .. Len(wire[k]) + 1 /\ Len(wire[k]) \in Nat
          BY <1>6, <1>7
        <5>1. i \in 1 .. Len(wire[k]) \/ i = Len(wire[k]) + 1
          BY <5>0
        <5>2. CASE i \in 1 .. Len(wire[k])
          BY <1>4, <1>6, <1>7, <2>1, <5>2 DEF JournalInv, StoredGoesOn
        <5>3. CASE i = Len(wire[k]) + 1
          BY <1>4, <1>6, <1>7, <2>1, <5>3
        <5> QED
          BY <5>1, <5>2, <5>3
      <4> QED
        BY <1>4, <1>5, <2>1, <3>2, <4>1
    <3> QED
      BY <3>1, <3>2
  <2>2. ~skipped' => ReachedGoesOn /\ InOrder(stored, dropped)
    BY <1>4 DEF JournalInv, StoredGoesOn
  <2>3. \A n : (Reached(n)' <=> Reached(n)) /\ (Follows(n)' <=> Follows(n))
    BY <1>1 DEF Reached, In, Follows
  <2>4. ~skipped' => ReachedGoesOn' /\ InOrder(stored, dropped)'
    BY <1>1, <2>2, <2>3 DEF ReachedGoesOn, InOrder
  <2> QED
    BY <2>1, <2>3, <2>4 DEF StoredGoesOn
<1> QED
  BY <1>9, <1>10, <1>11, <1>12 DEF JournalInv

LEMMA PersistKeeps == ASSUME JournalInv, NEW k \in Links, Persist(k) PROVE JournalInv'
<1>1. /\ stream[k].phase = "persist" /\ cursor' = stream[k].next
      /\ stream' = [stream EXCEPT ![k] = [phase |-> "read", next |-> @.next + 1, invalid |-> FALSE]]
      /\ UNCHANGED <<written, oldest, connected, linked, wire, acks, stored, dropped, first, skipped, trouble>>
  BY DEF Persist, Does
<1>2. Reached(stream[k].next) /\ first # 0
  BY <1>1 DEF JournalInv, AckedIsStored, NothingRead
<1>3. stream[k].next \in Nat /\ first \in Nat
  BY StreamTypes DEF JournalInv
<1>4. ~skipped => Follows(stream[k].next + 1)
  <2>1. ASSUME ~skipped PROVE Follows(stream[k].next + 1)
    <3>1. first <= stream[k].next /\ \A m \in first .. stream[k].next + 1 : Follows(m)
      BY <1>2, <1>3, <2>1, StoredIs
    <3>2. stream[k].next + 1 \in first .. stream[k].next + 1
      BY <1>3, <3>1
    <3> QED
      BY <3>1, <3>2
  <2> QED
    BY <2>1
<1>5. /\ stream' \in Streams /\ stream'[k].phase = "read" /\ stream'[k].next = stream[k].next + 1
      /\ \A l \in Links : l # k => stream'[l] = stream[l]
  BY <1>1, <1>3 DEF JournalInv, JournalTypeOK, Streams
<1>6. JournalTypeOK'
  BY <1>1, <1>3, <1>5 DEF JournalInv, JournalTypeOK, Streams
<1>7. NothingRead' /\ EachOnce'
  BY <1>1, <1>2 DEF JournalInv, NothingRead, EachOnce
<1>8. AckedIsStored'
  BY <1>1, <1>2, <1>5 DEF JournalInv, AckedIsStored, Reached, In
<1>9. StoredGoesOn'
  <2>1. \A n : (Reached(n)' <=> Reached(n)) /\ (Follows(n)' <=> Follows(n))
    BY <1>1 DEF Reached, In, Follows
  <2>2. ~skipped => ReachedGoesOn' /\ InOrder(stored, dropped)'
    BY <1>1, <2>1 DEF JournalInv, StoredGoesOn, ReachedGoesOn, InOrder
  <2> QED
    BY <1>1, <1>4, <1>5, <2>1, <2>2 DEF JournalInv, StoredGoesOn
<1> QED
  BY <1>6, <1>7, <1>8, <1>9 DEF JournalInv

\* A line is stored once.
Takes(t, s, n) == t = IF In(n, s) THEN s ELSE Append(s, n)

LEMMA Added ==
  ASSUME NEW s \in Seq(Nat), NEW n \in Nat, NEW t \in Seq(Nat), Takes(t, s, n)
  PROVE  /\ Len(t) \in Nat /\ Len(s) \in Nat
         /\ \/ t = s /\ In(n, s)
            \/ /\ ~In(n, s) /\ Len(t) = Len(s) + 1 /\ t[Len(s) + 1] = n
               /\ \A i \in 1 .. Len(s) : t[i] = s[i]
         /\ \A m : In(m, t) <=> In(m, s) \/ m = n
<1>1. Len(s) \in Nat /\ DOMAIN s = 1 .. Len(s)
  BY LenProperties
<1>2. CASE In(n, s)
  <2>1. t = s
    BY <1>2 DEF Takes
  <2> QED
    BY <1>1, <1>2, <2>1
<1>3. CASE ~In(n, s)
  <2>1. /\ Len(t) = Len(s) + 1 /\ t[Len(s) + 1] = n
        /\ \A i \in 1 .. Len(s) : t[i] = s[i]
    BY <1>3, AppendProperties DEF Takes
  <2>2. DOMAIN t = 1 .. Len(t)
    BY <2>1, LenProperties
  <2>3. DOMAIN s \subseteq DOMAIN t /\ Len(s) + 1 \in DOMAIN t
    BY <1>1, <2>1, <2>2
  <2>4. In(n, t)
    BY <2>1, <2>3 DEF In
  <2>5. \A m : In(m, t) <=> In(m, s) \/ m = n
    <3>1. \A m : In(m, s) => In(m, t)
      BY <1>1, <2>1, <2>3 DEF In
    <3>2. \A i \in DOMAIN t : i \in DOMAIN s \/ i = Len(s) + 1
      BY <1>1, <2>1, <2>2
    <3>3. \A m : In(m, t) => In(m, s) \/ m = n
      BY <1>1, <2>1, <3>2 DEF In
    <3> QED
      BY <2>4, <3>1, <3>3
  <2>6. Len(t) \in Nat
    BY <1>1, <2>1
  <2> QED
    BY <1>1, <1>3, <2>1, <2>5, <2>6, Zenon
<1> QED
  BY <1>2, <1>3

\* A new row comes last; when its line was not dropped before, it is newer than all there were.
LEMMA AddKeeps ==
  ASSUME NEW s \in Seq(Nat), NEW D \in SUBSET Nat, NEW n \in Nat, NEW t \in Seq(Nat), Takes(t, s, n)
  PROVE  /\ OnceEach(s) => OnceEach(t)
         /\ InOrder(s, D) /\ (In(n, s) \/ n \in D \/ \A m \in Nat : In(m, s) \/ m \in D => m < n)
               => InOrder(t, D)
<1>1. /\ Len(t) \in Nat /\ Len(s) \in Nat
      /\ \/ t = s /\ In(n, s)
         \/ /\ ~In(n, s) /\ Len(t) = Len(s) + 1 /\ t[Len(s) + 1] = n
            /\ \A i \in 1 .. Len(s) : t[i] = s[i]
  BY Added
<1>2. CASE t = s /\ In(n, s)
  BY <1>2
<1>3. CASE /\ ~In(n, s) /\ Len(t) = Len(s) + 1 /\ t[Len(s) + 1] = n
           /\ \A i \in 1 .. Len(s) : t[i] = s[i]
  <2>1. \A i \in 1 .. Len(t) : i \in 1 .. Len(s) \/ i = Len(s) + 1
    BY <1>1, <1>3
  <2>2. DOMAIN s = 1 .. Len(s) /\ \A i \in 1 .. Len(s) : s[i] \in Nat
    BY LenProperties, ElementOfSeq
  <2>3. \A i \in 1 .. Len(s) : In(s[i], s) /\ s[i] # n
    <3>1. \A i \in 1 .. Len(s) : In(s[i], s)
      BY <2>2 DEF In
    <3> QED
      BY <1>3, <3>1
  <2>4. \A i, k \in 1 .. Len(t) : i < k => i \in 1 .. Len(s)
    BY <1>1, <1>3
  <2>5. ASSUME OnceEach(s), NEW i \in 1 .. Len(t), NEW k \in 1 .. Len(t), i < k
        PROVE  t[i] # t[k]
    <3>1. i \in 1 .. Len(s) /\ t[i] = s[i]
      BY <1>3, <2>4, <2>5
    <3>2. CASE k \in 1 .. Len(s)
      BY <1>3, <2>5, <3>1, <3>2 DEF OnceEach
    <3>3. CASE k = Len(s) + 1
      BY <1>3, <2>3, <3>1, <3>3
    <3> QED
      BY <2>1, <3>2, <3>3
  <2>6. ASSUME InOrder(s, D), n \in D \/ \A m \in Nat : In(m, s) \/ m \in D => m < n
        PROVE  InOrder(t, D)
    <3>1. ASSUME NEW i \in 1 .. Len(t), NEW k \in 1 .. Len(t), i < k, t[k] \notin D
          PROVE  t[i] < t[k]
      <4>1. i \in 1 .. Len(s) /\ t[i] = s[i]
        BY <1>3, <2>4, <3>1
      <4>2. CASE k \in 1 .. Len(s)
        BY <1>3, <2>6, <3>1, <4>1, <4>2 DEF InOrder
      <4>3. CASE k = Len(s) + 1
        BY <1>3, <2>2, <2>3, <2>6, <3>1, <4>1, <4>3
      <4> QED
        BY <2>1, <4>2, <4>3
    <3>2. ASSUME NEW d \in D, NEW k \in 1 .. Len(t), t[k] \notin D PROVE d < t[k]
      <4>1. CASE k \in 1 .. Len(s)
        BY <1>3, <2>6, <3>2, <4>1 DEF InOrder
      <4>2. CASE k = Len(s) + 1
        BY <1>3, <2>6, <3>2, <4>2
      <4> QED
        BY <2>1, <4>1, <4>2
    <3> QED
      BY <3>1, <3>2 DEF InOrder
  <2> QED
    BY <1>3, <2>5, <2>6 DEF OnceEach
<1> QED
  BY <1>1, <1>2, <1>3

LEMMA StoreLineKeeps == ASSUME JournalInv, NEW k \in Links, StoreLine(k) PROVE JournalInv'
<1> DEFINE line == Head(wire[k])
           rows == StoredOnce(line)
<1>1. /\ wire[k] # <<>> /\ wire' = [wire EXCEPT ![k] = Tail(@)]
      /\ IF Len(rows) > KeptRows
         THEN stored' = Tail(rows) /\ dropped' = dropped \cup {Head(rows)}
         ELSE stored' = rows /\ dropped' = dropped
      /\ acks' = IF k = connected THEN [acks EXCEPT ![k] = Append(@, line)] ELSE acks
      /\ UNCHANGED <<written, oldest, cursor, connected, linked, stream, first, skipped, trouble>>
  BY DEF StoreLine
<1>2. /\ wire \in [Links -> Seq(Nat)] /\ acks \in [Links -> Seq(Nat)] /\ stored \in Seq(Nat)
      /\ first \in Nat /\ dropped \in SUBSET Nat /\ KeptRows \in Nat \ {0}
  BY JournalAssumption DEF JournalInv, JournalTypeOK
<1>3. /\ line \in Nat /\ Tail(wire[k]) \in Seq(Nat) /\ line = wire[k][1] /\ 1 \in 1 .. Len(wire[k])
  <2>1. wire[k] \in Seq(Nat) /\ Len(wire[k]) \in Nat \ {0}
    BY <1>1, <1>2, EmptySeq
  <2> QED
    BY <1>1, <2>1, HeadTailProperties
<1>4. first # 0
  BY <1>1 DEF JournalInv, NothingRead
<1>5. ~skipped => Follows(line)
  BY <1>3 DEF JournalInv, StoredGoesOn
<1> HIDE DEF line
<1>6. rows \in Seq(Nat) /\ Takes(rows, stored, line)
  BY <1>2, <1>3, AppendProperties DEF StoredOnce, Takes
<1> HIDE DEF rows
<1>7. /\ stored' \in Seq(Nat) /\ dropped' \in SUBSET Nat /\ Len(stored') <= KeptRows
      /\ \A m : Reached(m)' <=> Reached(m) \/ m = line
      /\ OnceEach(stored') /\ (~skipped => InOrder(stored', dropped'))
  <2>1. /\ Len(rows) \in Nat /\ Len(stored) \in Nat /\ Len(rows) <= Len(stored) + 1
        /\ \A m : In(m, rows) <=> In(m, stored) \/ m = line
    BY <1>2, <1>3, <1>6, Added
  <2>2. OnceEach(rows) /\ Len(rows) <= KeptRows + 1
    <3>1. OnceEach(stored) /\ Len(stored) <= KeptRows
      BY DEF JournalInv, EachOnce
    <3>2. OnceEach(stored) => OnceEach(rows)
      BY <1>2, <1>3, <1>6, AddKeeps
    <3>3. Len(rows) <= KeptRows + 1
      BY <1>2, <2>1, <3>1
    <3> QED
      BY <3>1, <3>2, <3>3
  <2>3. ~skipped => InOrder(rows, dropped)
    <3>1. ASSUME ~skipped, ~In(line, stored), line \notin dropped,
                 NEW m \in Nat, In(m, stored) \/ m \in dropped
          PROVE  m < line
      <4>1. Reached(m) /\ ~Reached(line)
        BY <3>1 DEF Reached
      <4>2. \A l \in first .. m : Reached(l)
        BY <3>1, <4>1 DEF JournalInv, StoredGoesOn, ReachedGoesOn
      <4>3. first <= line
        BY <1>5, <3>1 DEF Follows
      <4> QED
        BY <1>2, <1>3, <4>1, <4>2, <4>3
    <3>2. ~skipped => InOrder(stored, dropped)
      BY DEF JournalInv, StoredGoesOn
    <3> QED
      BY <1>2, <1>3, <1>6, <3>1, <3>2, AddKeeps
  <2>4. CASE Len(rows) > KeptRows
    <3>1. stored' = Tail(rows) /\ dropped' = dropped \cup {Head(rows)}
      BY <1>1, <2>4
    <3>2. rows # <<>>
      BY <1>2, <2>1, <2>4
    <3>3. /\ Tail(rows) \in Seq(Nat) /\ Head(rows) \in Nat /\ Len(Tail(rows)) = Len(rows) - 1
          /\ \A m : In(m, Tail(rows)) \/ m \in dropped \cup {Head(rows)} <=> In(m, rows) \/ m \in dropped
          /\ OnceEach(rows) => OnceEach(Tail(rows))
          /\ InOrder(rows, dropped) => InOrder(Tail(rows), dropped \cup {Head(rows)})
      BY <1>2, <1>6, <3>2, TrimKeeps
    <3>4. \A m : Reached(m)' <=> Reached(m) \/ m = line
      BY <2>1, <3>1, <3>3 DEF Reached, In
    <3>5. Len(stored') <= KeptRows
      BY <1>2, <2>1, <2>2, <3>1, <3>3
    <3> QED
      BY <1>2, <2>2, <2>3, <3>1, <3>3, <3>4, <3>5
  <2>5. CASE ~(Len(rows) > KeptRows)
    <3>1. stored' = rows /\ dropped' = dropped
      BY <1>1, <2>5
    <3>2. \A m : Reached(m)' <=> Reached(m) \/ m = line
      BY <2>1, <3>1 DEF Reached, In
    <3> QED
      BY <1>2, <1>6, <2>1, <2>2, <2>3, <2>5, <3>1, <3>2
  <2> QED
    BY <2>4, <2>5
<1>8. /\ wire' \in [Links -> Seq(Nat)]
      /\ \A l \in Links : Rest(wire'[l], wire[l])
  BY <1>1, <1>2, <1>3 DEF Rest
<1>9. \A l \in Links : /\ wire[l] \in Seq(Nat) /\ wire'[l] \in Seq(Nat)
                       /\ \A i \in 1 .. Len(wire'[l]) : \E j \in 1 .. Len(wire[l]) : wire'[l][i] = wire[l][j]
  <2>1. ASSUME NEW l \in Links
        PROVE  /\ wire[l] \in Seq(Nat) /\ wire'[l] \in Seq(Nat)
               /\ \A i \in 1 .. Len(wire'[l]) : \E j \in 1 .. Len(wire[l]) : wire'[l][i] = wire[l][j]
    <3>1. wire[l] \in Seq(Nat) /\ wire'[l] \in Seq(Nat) /\ Rest(wire'[l], wire[l])
      BY <1>2, <1>8
    <3> QED
      BY <3>1, Shortened
  <2> QED
    BY <2>1
<1>10. ASSUME NEW l \in Links
       PROVE  /\ acks'[l] \in Seq(Nat)
              /\ \A i \in 1 .. Len(acks'[l]) :
                    acks'[l][i] = line \/ \E j \in 1 .. Len(acks[l]) : acks'[l][i] = acks[l][j]
  <2>1. CASE acks'[l] = acks[l]
    BY <1>2, <2>1
  <2>2. CASE acks'[l] = Append(acks[l], line)
    <3>1. acks[l] \in Seq(Nat) /\ Len(acks[l]) \in Nat
      BY <1>2, LenProperties
    <3>2. /\ acks'[l] \in Seq(Nat) /\ Len(acks'[l]) = Len(acks[l]) + 1
          /\ \A i \in 1 .. Len(acks[l]) : acks'[l][i] = acks[l][i]
          /\ acks'[l][Len(acks[l]) + 1] = line
      BY <1>3, <2>2, <3>1, AppendProperties
    <3>3. \A i \in 1 .. Len(acks'[l]) : i \in 1 .. Len(acks[l]) \/ i = Len(acks[l]) + 1
      BY <3>1, <3>2
    <3> QED
      BY <3>2, <3>3
  <2>3. acks'[l] = acks[l] \/ acks'[l] = Append(acks[l], line)
    BY <1>1, <1>2
  <2> QED
    BY <2>1, <2>2, <2>3
<1>11. acks' \in [Links -> Seq(Nat)]
  <2>1. acks' = [l \in Links |-> acks'[l]]
    BY <1>1, <1>2
  <2> QED
    BY <1>10, <2>1
<1>12. JournalTypeOK'
  BY <1>1, <1>7, <1>8, <1>11 DEF JournalInv, JournalTypeOK
<1>13. NothingRead'
  BY <1>1, <1>4 DEF NothingRead
<1>14. EachOnce'
  BY <1>7 DEF EachOnce, OnceEach
<1>15. AckedIsStored'
  <2>1. ASSUME NEW l \in Links
        PROVE  /\ \A i \in 1 .. Len(acks'[l]) : In(acks'[l][i], stored') \/ acks'[l][i] \in dropped'
               /\ stream'[l].phase = "persist" => In(stream'[l].next, stored') \/ stream'[l].next \in dropped'
    <3>1. \A i \in 1 .. Len(acks[l]) : Reached(acks[l][i])
      BY DEF JournalInv, AckedIsStored
    <3>2. ASSUME NEW i \in 1 .. Len(acks'[l]), NEW m, m = acks'[l][i] PROVE Reached(m)'
      <4>1. m = line \/ \E n \in 1 .. Len(acks[l]) : m = acks[l][n]
        BY <1>10, <3>2
      <4> QED
        BY <1>7, <3>1, <4>1
    <3>3. stream[l].phase = "persist" => Reached(stream[l].next)
      BY DEF JournalInv, AckedIsStored
    <3>4. ASSUME stream[l].phase = "persist", NEW m, m = stream[l].next PROVE Reached(m)'
      BY <1>7, <3>3, <3>4
    <3>5. \A i \in 1 .. Len(acks'[l]) : In(acks'[l][i], stored') \/ acks'[l][i] \in dropped'
      BY <3>2 DEF Reached, In
    <3>6. stream[l].phase = "persist" => In(stream[l].next, stored') \/ stream[l].next \in dropped'
      BY <3>4 DEF Reached, In
    <3>7. stream' = stream
      BY <1>1
    <3> QED
      BY <3>5, <3>6, <3>7
  <2>2. ASSUME cursor # 0, NEW m, m = cursor PROVE Reached(m)'
    BY <1>7, <2>2 DEF JournalInv, AckedIsStored
  <2>3. cursor' # 0 => In(cursor', stored') \/ cursor' \in dropped'
    BY <1>1, <2>2 DEF Reached, In
  <2> QED
    BY ONLY <2>1, <2>3 DEF AckedIsStored, Reached, In
<1>16. StoredGoesOn'
  <2> SUFFICES ASSUME ~skipped PROVE StoredGoesOn'
    BY <1>1 DEF StoredGoesOn
  <2>1. ReachedGoesOn'
    <3>1. ASSUME NEW n \in Nat, Reached(n)' PROVE first <= n /\ \A m \in first .. n : Reached(m)'
      <4>1. CASE Reached(n)
        BY <1>7, <4>1 DEF JournalInv, StoredGoesOn, ReachedGoesOn
      <4>2. CASE n = line
        <5>1. first <= line /\ (line = first \/ Reached(line - 1))
          BY <1>5 DEF Follows
        <5>2. ASSUME NEW m \in first .. line PROVE Reached(m) \/ m = line
          <6>1. CASE line = first
            BY <1>2, <1>3, <6>1
          <6>2. CASE line # first
            <7>1. line - 1 \in Nat /\ first <= line - 1
              BY <1>2, <1>3, <5>1, <6>2
            <7>2. \A l \in first .. line - 1 : Reached(l)
              BY <5>1, <6>2, <7>1 DEF JournalInv, StoredGoesOn, ReachedGoesOn
            <7>3. m \in first .. line - 1 \/ m = line
              BY <1>2, <1>3
            <7> QED
              BY <7>2, <7>3
          <6> QED
            BY <6>1, <6>2
        <5> QED
          BY <1>7, <4>2, <5>1, <5>2
      <4> QED
        BY <1>7, <3>1, <4>1, <4>2
    <3> QED
      BY <1>1, <3>1 DEF ReachedGoesOn
  <2>2. InOrder(stored, dropped)'
    BY <1>7 DEF InOrder
  <2>3. \A m : Follows(m) => Follows(m)'
    BY <1>1, <1>7 DEF Follows
  <2>4. ASSUME NEW l \in Links
        PROVE  /\ \A i \in 1 .. Len(wire'[l]) : \A m : m = wire'[l][i] => Follows(m)'
               /\ \A m : stream[l].phase \in {"read", "ack"} /\ m = stream[l].next => Follows(m)'
    <3>1. ASSUME NEW i \in 1 .. Len(wire'[l]), NEW m, m = wire'[l][i] PROVE Follows(m)'
      <4>1. PICK n \in 1 .. Len(wire[l]) : wire'[l][i] = wire[l][n]
        BY <1>9
      <4>2. Follows(wire[l][n])
        BY DEF JournalInv, StoredGoesOn
      <4> QED
        BY <2>3, <3>1, <4>1, <4>2
    <3>2. \A m : stream[l].phase \in {"read", "ack"} /\ m = stream[l].next => Follows(m)'
      BY <2>3 DEF JournalInv, StoredGoesOn
    <3> QED
      BY <3>1, <3>2
  <2> QED
    BY <1>1, <2>1, <2>2, <2>4 DEF StoredGoesOn, Follows, Reached
<1> QED
  BY <1>12, <1>13, <1>14, <1>15, <1>16 DEF JournalInv

\* What only moves a stream or shortens what is on its way keeps the invariant.
LEMMA StreamMoves ==
  ASSUME JournalInv, stream' \in Streams,
         wire' \in [Links -> Seq(Nat)], acks' \in [Links -> Seq(Nat)],
         UNCHANGED <<written, oldest, cursor, stored, dropped, first, skipped>>,
         connected' \in {0} \cup Links, linked' \in Nat,
         \A k \in Links :
            /\ Rest(wire'[k], wire[k]) /\ Rest(acks'[k], acks[k])
            /\ \/ stream'[k] = stream[k]
               \/ stream'[k].phase \in {"none", "open", "over"}
               \/ stream[k].phase = "ack" /\ stream'[k].phase = "persist" /\ Reached(stream'[k].next)
  PROVE  JournalInv'
<1>1. JournalTypeOK'
  BY DEF JournalInv, JournalTypeOK, Streams
<1> QED
  BY <1>1, LinesLeft

LEMMA NothingMoves ==
  ASSUME JournalInv
  PROVE  /\ stream \in Streams /\ connected \in {0} \cup Links /\ linked \in Nat
         /\ wire \in [Links -> Seq(Nat)] /\ acks \in [Links -> Seq(Nat)]
         /\ written \in Nat /\ oldest \in Nat \ {0}
         /\ \A k \in Links : Rest(wire[k], wire[k]) /\ Rest(acks[k], acks[k])
<1>1. /\ stream \in Streams /\ connected \in {0} \cup Links /\ linked \in Nat
      /\ wire \in [Links -> Seq(Nat)] /\ acks \in [Links -> Seq(Nat)]
      /\ written \in Nat /\ oldest \in Nat \ {0}
  BY DEF JournalInv, JournalTypeOK, Streams
<1>2. \A s : Rest(s, s)
  BY DEF Rest
<1> QED
  BY <1>1, <1>2

LEMMA JournalGrows == ASSUME JournalInv, WriteLine \/ Rotate PROVE JournalInv'
<1>1. /\ UNCHANGED <<cursor, connected, linked, stream, wire, acks, stored, dropped, first, skipped>>
      /\ written' \in Nat /\ oldest' \in Nat \ {0}
  BY NothingMoves DEF WriteLine, Rotate
<1>2. JournalTypeOK'
  BY <1>1 DEF JournalInv, JournalTypeOK
<1>3. \A k \in Links : Rest(wire'[k], wire[k]) /\ Rest(acks'[k], acks[k]) /\ stream'[k] = stream[k]
  BY <1>1, NothingMoves
<1> QED
  BY <1>1, <1>2, <1>3, LinesLeft

LEMMA ConnectionMoves ==
  ASSUME JournalInv, NEW k \in Links, Reach(k) \/ Break \/ AgentStops \/ AckTimesOut(k)
  PROVE  JournalInv'
<1>1. CASE Reach(k)
  <2>1. /\ connected' = k /\ linked' = k
        /\ stream' = [stream EXCEPT ![k] = [NoStream EXCEPT !.phase = "open"]]
        /\ UNCHANGED <<written, oldest, cursor, wire, acks, stored, dropped, first, skipped, trouble>>
    BY <1>1 DEF Reach
  <2>2. stream' \in Streams /\ \A l \in Links : stream'[l] = stream[l] \/ stream'[l].phase = "open"
    BY <2>1, NothingMoves DEF Streams, NoStream
  <2>3. k \in Nat
    BY JournalAssumption
  <2>4. connected' \in {0} \cup Links /\ linked' \in Nat
    BY <2>1, <2>3
  <2>5. \A l \in Links : Rest(wire'[l], wire[l]) /\ Rest(acks'[l], acks[l])
    BY <2>1, NothingMoves
  <2>6. wire' \in [Links -> Seq(Nat)] /\ acks' \in [Links -> Seq(Nat)]
    BY <2>1, NothingMoves
  <2>7. \A l \in Links : stream'[l] = stream[l] \/ stream'[l].phase \in {"none", "open", "over"}
    BY <2>2
  <2> QED
    BY <2>1, <2>2, <2>4, <2>5, <2>6, <2>7, StreamMoves
<1>2. ASSUME Broken, connected # 0, UNCHANGED <<written, oldest, cursor, linked, stored, dropped, first, skipped>>,
             stream' \in Streams, stream' = stream \/ \A l \in Links : stream'[l].phase \in {"none", "over"}
      PROVE  JournalInv'
  <2>1. connected' = 0 /\ wire' \in [Links -> Seq(Nat)] /\ acks' \in [Links -> Seq(Nat)]
    BY <1>2, BrokenTypes
  <2>2. JournalTypeOK'
    BY <1>2, <2>1 DEF JournalInv, JournalTypeOK, Streams
  <2> QED
    BY <1>2, <2>2, BrokenKeeps
<1>3. CASE Break
  BY <1>2, <1>3, NothingMoves DEF Break
<1>4. CASE AgentStops
  <2>1. stream' = [l \in Links |-> IF l <= linked THEN [NoStream EXCEPT !.phase = "over"] ELSE NoStream]
    BY <1>4 DEF AgentStops
  <2>2. /\ stream' \in Streams
        /\ \A l \in Links : stream'[l].phase \in {"none", "over"}
    BY <2>1 DEF Streams, NoStream
  <2> QED
    BY <1>2, <1>4, <2>2 DEF AgentStops
<1>5. CASE AckTimesOut(k)
  <2>1. connected # 0
    BY <1>5, JournalAssumption DEF AckTimesOut, WaitEnds
  <2> QED
    BY <1>2, <1>5, <2>1, NothingMoves DEF AckTimesOut
<1> QED
  BY <1>1, <1>3, <1>4, <1>5

LEMMA TakeAckKeeps == ASSUME JournalInv, NEW k \in Links, TakeAck(k) PROVE JournalInv'
<1>1. /\ acks[k] # <<>> /\ acks' = [acks EXCEPT ![k] = Tail(@)]
      /\ stream' = IF stream[k].phase = "ack" /\ stream[k].next = Head(acks[k])
                   THEN [stream EXCEPT ![k].phase = "persist"] ELSE stream
      /\ UNCHANGED <<written, oldest, cursor, connected, linked, wire, stored, dropped, first, skipped, trouble>>
  BY DEF TakeAck, Does
<1>2. acks[k] \in Seq(Nat) /\ acks \in [Links -> Seq(Nat)] /\ JournalTypeOK
  BY DEF JournalInv, JournalTypeOK
<1>3. Tail(acks[k]) \in Seq(Nat) /\ 1 \in 1 .. Len(acks[k]) /\ Head(acks[k]) = acks[k][1]
  <2>1. Len(acks[k]) \in Nat \ {0}
    BY <1>1, <1>2, EmptySeq
  <2> QED
    BY <1>1, <1>2, <2>1, HeadTailProperties
<1>4. Reached(Head(acks[k]))
  BY <1>3 DEF JournalInv, AckedIsStored
<1>5. /\ stream' \in Streams
      /\ \A l \in Links :
            \/ stream'[l] = stream[l]
            \/ stream[l].phase = "ack" /\ stream'[l].phase = "persist" /\ Reached(stream'[l].next)
  <2>1. CASE stream' = stream
    BY <2>1, NothingMoves
  <2>2. CASE /\ stream[k].phase = "ack" /\ stream[k].next = Head(acks[k])
             /\ stream' = [stream EXCEPT ![k].phase = "persist"]
    <3>1. /\ stream' \in Streams /\ stream'[k].phase = "persist" /\ stream'[k].next = stream[k].next
          /\ \A l \in Links : l # k => stream'[l] = stream[l]
      BY <1>2, <2>2, StreamTurns
    <3>2. Reached(stream'[k].next)
      BY <1>4, <2>2, <3>1
    <3> QED
      BY <2>2, <3>1, <3>2
  <2> QED
    BY <1>1, <2>1, <2>2
<1>6. acks' \in [Links -> Seq(Nat)] /\ \A l \in Links : Rest(acks'[l], acks[l])
  BY <1>1, <1>2, <1>3 DEF Rest
<1>7. \A l \in Links : Rest(wire'[l], wire[l])
  BY <1>1, NothingMoves
<1> QED
  BY <1>1, <1>5, <1>6, <1>7, NothingMoves, StreamMoves

LEMMA StreamGivesUp == ASSUME JournalInv, NEW k \in Links, Reopens(k) \/ StreamEnds(k) PROVE JournalInv'
<1>1. /\ \E p \in {"open", "over"} : stream' = [stream EXCEPT ![k].phase = p]
      /\ UNCHANGED <<written, oldest, cursor, connected, linked, wire, acks, stored, dropped, first, skipped>>
  BY DEF Reopens, StreamEnds
<1>2. PICK p \in {"open", "over"} : stream' = [stream EXCEPT ![k].phase = p]
  BY <1>1
<1>3. /\ stream' \in Streams /\ stream'[k].phase = p
      /\ \A l \in Links : l # k => stream'[l] = stream[l]
  BY <1>2, StreamTurns DEF JournalInv
<1>4. \A l \in Links : stream'[l] = stream[l] \/ stream'[l].phase \in {"none", "open", "over"}
  BY <1>3
<1>5. \A l \in Links : Rest(wire'[l], wire[l]) /\ Rest(acks'[l], acks[l])
  BY <1>1, NothingMoves
<1> QED
  BY <1>1, <1>3, <1>4, <1>5, NothingMoves, StreamMoves

LEMMA StoreFailsKeeps == ASSUME JournalInv, NEW k \in Links, StoreFails(k) PROVE JournalInv'
<1>1. /\ wire[k] # <<>> /\ wire' = [wire EXCEPT ![k] = Tail(@)]
      /\ UNCHANGED <<written, oldest, cursor, connected, linked, stream, acks, stored, dropped, first, skipped>>
  BY DEF StoreFails
<1>2. wire \in [Links -> Seq(Nat)] /\ Tail(wire[k]) \in Seq(Nat)
  BY <1>1, HeadTailProperties DEF JournalInv, JournalTypeOK
<1>3. wire' \in [Links -> Seq(Nat)] /\ \A l \in Links : Rest(wire'[l], wire[l])
  BY <1>1, <1>2 DEF Rest
<1>4. \A l \in Links : Rest(acks'[l], acks[l]) /\ stream'[l] = stream[l]
  BY <1>1, NothingMoves
<1> QED
  BY <1>1, <1>3, <1>4, NothingMoves, StreamMoves

LEMMA OtherEventKeeps == ASSUME JournalInv, OtherEvent PROVE JournalInv'
<1>1. /\ stored # <<>> /\ stored' = Tail(stored) /\ dropped' = dropped \cup {Head(stored)}
      /\ UNCHANGED <<written, oldest, cursor, connected, linked, stream, wire, acks, first, skipped>>
  BY DEF OtherEvent
<1>2. stored \in Seq(Nat) /\ dropped \in SUBSET Nat /\ KeptRows \in Nat
  BY JournalAssumption DEF JournalInv, JournalTypeOK
<1>3. /\ stored' \in Seq(Nat) /\ Head(stored) \in Nat /\ Len(stored') = Len(stored) - 1
      /\ Len(stored) \in Nat
      /\ \A m : In(m, stored') \/ m \in dropped' <=> In(m, stored) \/ m \in dropped
      /\ OnceEach(stored) => OnceEach(stored')
      /\ InOrder(stored, dropped) => InOrder(stored', dropped')
  BY <1>1, <1>2, TrimKeeps
<1>4. \A m : (Reached(m)' <=> Reached(m)) /\ (Follows(m)' <=> Follows(m))
  <2>1. \A m : Reached(m)' <=> Reached(m)
    BY <1>3 DEF Reached, In
  <2> QED
    BY <1>1, <2>1 DEF Follows
<1>5. JournalTypeOK'
  BY <1>1, <1>2, <1>3 DEF JournalInv, JournalTypeOK
<1>6. NothingRead'
  <2>1. first # 0
    BY <1>1 DEF JournalInv, NothingRead
  <2> QED
    BY <1>1, <2>1 DEF NothingRead
<1>7. EachOnce'
  <2>1. OnceEach(stored) /\ Len(stored) <= KeptRows
    BY DEF JournalInv, EachOnce
  <2>2. OnceEach(stored') /\ Len(stored') <= KeptRows
    BY <1>2, <1>3, <2>1
  <2> QED
    BY <2>2 DEF EachOnce, OnceEach
<1>8. AckedIsStored'
  BY <1>1, <1>4 DEF JournalInv, AckedIsStored, Reached
<1>9. StoredGoesOn'
  <2>1. ~skipped => ReachedGoesOn' /\ InOrder(stored, dropped)'
    <3>1. ~skipped => ReachedGoesOn /\ InOrder(stored', dropped')
      BY <1>3 DEF JournalInv, StoredGoesOn
    <3> QED
      BY <1>1, <1>4, <3>1 DEF ReachedGoesOn, InOrder
  <2>2. ~skipped => \A k \in Links :
           /\ \A i \in 1 .. Len(wire[k]) : Follows(wire[k][i])
           /\ stream[k].phase \in {"read", "ack"} => Follows(stream[k].next)
    BY DEF JournalInv, StoredGoesOn
  <2> QED
    BY <1>1, <1>4, <2>1, <2>2 DEF StoredGoesOn, Follows, Reached
<1> QED
  BY <1>5, <1>6, <1>7, <1>8, <1>9 DEF JournalInv

LEMMA JournalStarts == ASSUME JournalInit PROVE JournalInv
<1>1. /\ written = 0 /\ oldest = 1 /\ cursor = 0 /\ connected = 0 /\ linked = 0
      /\ stream = [k \in Links |-> NoStream]
      /\ wire = [k \in Links |-> <<>>] /\ acks = [k \in Links |-> <<>>]
      /\ stored = <<>> /\ dropped = {} /\ first = 0 /\ skipped = FALSE
  BY DEF JournalInit
<1>2. 1 .. Len(<<>>) = {} /\ <<>> \in Seq(Nat)
  BY EmptySeq
<1>3. \A k \in Links : stream[k].phase = "none" /\ 1 .. Len(wire[k]) = {} /\ 1 .. Len(acks[k]) = {}
  BY <1>1, <1>2 DEF NoStream
<1>4. JournalTypeOK
  <2>1. wire \in [Links -> Seq(Nat)] /\ acks \in [Links -> Seq(Nat)] /\ stored \in Seq(Nat)
    BY <1>1, <1>2
  <2>2. stream \in [Links -> [phase : {"none", "open", "read", "ack", "persist", "over"},
                             next : Nat, invalid : BOOLEAN]]
    BY <1>1 DEF NoStream
  <2>3. /\ written \in Nat /\ oldest \in Nat \ {0} /\ cursor \in Nat
        /\ connected \in {0} \cup Links /\ linked \in Nat /\ first \in Nat
    BY <1>1
  <2>4. skipped \in BOOLEAN /\ dropped \in SUBSET Nat
    BY <1>1
  <2> QED
    BY <2>1, <2>2, <2>3, <2>4 DEF JournalTypeOK
<1>5. NothingRead
  <2>1. \A k \in Links : wire[k] = <<>>
    BY <1>1
  <2>2. cursor = 0 /\ stored = <<>> /\ dropped = {}
    BY <1>1
  <2> QED
    BY <1>3, <2>1, <2>2 DEF NothingRead
<1>6. 1 .. Len(stored) = {}
  BY <1>1, <1>2
<1>7. EachOnce
  <2>1. Len(stored) = 0 /\ 0 <= KeptRows
    BY <1>1, JournalAssumption
  <2> QED
    BY <1>6, <2>1 DEF EachOnce, OnceEach
<1>8. AckedIsStored
  BY <1>1, <1>3 DEF AckedIsStored
<1>9. StoredGoesOn
  <2>1. \A m : ~Reached(m)
    <3>1. DOMAIN stored = {} /\ dropped = {}
      BY <1>1
    <3> QED
      BY <3>1 DEF Reached, In
  <2>2. InOrder(stored, dropped)
    BY <1>1, <1>6 DEF InOrder
  <2> QED
    BY <1>3, <2>1, <2>2 DEF StoredGoesOn, ReachedGoesOn
<1> QED
  BY <1>4, <1>5, <1>7, <1>8, <1>9 DEF JournalInv

LEMMA JournalStep == ASSUME JournalInv, [JournalNext]_journalVars PROVE JournalInv'
<1>1. CASE WriteLine \/ Rotate
  BY <1>1, JournalGrows
<1>2. CASE Break \/ AgentStops
  <2>1. CASE Links = {}
    <3>1. connected = 0
      BY <2>1, NothingMoves
    <3> QED
      BY <1>2, <3>1 DEF Break, AgentStops, Broken, LastLink
  <2>2. CASE Links # {}
    BY <1>2, <2>2, ConnectionMoves
  <2> QED
    BY <2>1, <2>2
<1>3. ASSUME NEW k \in Links, Reach(k) \/ AckTimesOut(k) PROVE JournalInv'
  BY <1>3, ConnectionMoves
<1>4. ASSUME NEW k \in Links, OpenJournal(k) PROVE JournalInv'
  BY <1>4, OpenJournalKeeps
<1>5. ASSUME NEW k \in Links, SendLine(k) PROVE JournalInv'
  BY <1>5, SendLineKeeps
<1>6. ASSUME NEW k \in Links, Persist(k) PROVE JournalInv'
  BY <1>6, PersistKeeps
<1>7. ASSUME NEW k \in Links, TakeAck(k) PROVE JournalInv'
  BY <1>7, TakeAckKeeps
<1>8. ASSUME NEW k \in Links, Reopens(k) \/ StreamEnds(k) PROVE JournalInv'
  BY <1>8, StreamGivesUp
<1>9. ASSUME NEW k \in Links, StoreLine(k) PROVE JournalInv'
  BY <1>9, StoreLineKeeps
<1>10. ASSUME NEW k \in Links, StoreFails(k) PROVE JournalInv'
  BY <1>10, StoreFailsKeeps
<1>12. CASE OtherEvent
  BY <1>12, OtherEventKeeps
<1>11. CASE UNCHANGED journalVars
  <2>1. UNCHANGED <<written, oldest, cursor, connected, linked, stream, wire, acks, stored, dropped, first, skipped>>
    BY <1>11 DEF journalVars
  <2>2. \A k \in Links : Rest(wire'[k], wire[k]) /\ Rest(acks'[k], acks[k]) /\ stream'[k] = stream[k]
    BY <2>1, NothingMoves
  <2> QED
    BY <2>1, <2>2, NothingMoves, StreamMoves
<1> QED
  BY <1>1, <1>2, <1>3, <1>4, <1>5, <1>6, <1>7, <1>8, <1>9, <1>10, <1>11, <1>12 DEF JournalNext

\* Of the rows that the panel keeps of a game server's journal (log, server-agent.service.ts; the
\* newest ones, appendEvent) each line is there once, and the cursor that the agent starts again
\* from is at a line that was stored.  As long as the agent has passed over no line, all before
\* that were stored, too, those that are missing had to go for newer ones and are older than what
\* is left, and lines are in their order, but for one that comes again after it had to go.
THEOREM ConsoleIsWhole == JournalSpec => []JournalIsWhole
<1>1. JournalInv => JournalIsWhole
  <2> SUFFICES ASSUME JournalInv PROVE JournalIsWhole
    OBVIOUS
  <2>1. /\ DOMAIN stored = 1 .. Len(stored) /\ Len(stored) \in Nat
        /\ first \in Nat /\ cursor \in Nat
    BY LenProperties DEF JournalInv, JournalTypeOK
  <2>2. StoredOnceInOrder
    <3>1. EachOnce /\ (~skipped => InOrder(stored, dropped))
      BY DEF JournalInv, StoredGoesOn
    <3> QED
      BY <2>1, <3>1 DEF EachOnce, OnceEach, InOrder, StoredOnceInOrder
  <2>3. cursor # 0 => Reached(cursor)
    BY DEF JournalInv, AckedIsStored
  <2>4. ~skipped /\ cursor # 0 => \A n \in first .. cursor : Reached(n)
    BY <2>1, <2>3 DEF JournalInv, StoredGoesOn, ReachedGoesOn
  <2>5. ~skipped => \A n \in dropped : \A i \in DOMAIN stored :
                     stored[i] \in dropped \/ n < stored[i]
    BY <2>1 DEF JournalInv, StoredGoesOn, InOrder
  <2>6. NoHoleBeforeCursor
    BY <2>3, <2>4, <2>5 DEF NoHoleBeforeCursor
  <2> QED
    BY <2>2, <2>6 DEF JournalIsWhole
<1>2. JournalInit => JournalInv
  BY JournalStarts
<1>3. JournalInv /\ [JournalNext]_journalVars => JournalInv'
  BY JournalStep
<1> QED
  BY <1>1, <1>2, <1>3, PTL DEF JournalSpec

-----------------------------------------------------------------------------
(* The installation of a game server: a run that has come to a step has written everything *)
(* before it, and its service was stopped until it is started from that.                    *)

PartRows == [InDirectory -> Nat]

RunRecords == [number : Nat, at : 0 .. 16, name : ServiceNames, update : BOOLEAN,
               found : PartRows, backup : BOOLEAN, claim : BOOLEAN]

InstallTypeOK ==
    /\ marker \in BOOLEAN /\ onDisk \in [Parts -> Nat] /\ unit \in [ServiceNames -> Nat]
    /\ process \in [ServiceNames -> PartRows] /\ agent \in Nat
    /\ run \in RunRecords /\ (run.number # 0 => run.at # 0)
    /\ installs \in 0 .. MaxInstalls /\ run.number \in {0, installs}
    /\ bindingRow \in [state : {"pending", "installed", "failed"}, token : Nat]
    /\ unheard \in BOOLEAN

\* What was written into a directory that is not marked, or is up without a unit: nothing.
MarkedFirst ==
    /\ CanBeRepeated
    /\ run.number # 0 /\ run.at > 1 => marker
    /\ run.number # 0 /\ run.backup => run.at > 3
    /\ \A n \in ServiceNames : /\ unit[n] # 0 => marker
                               /\ process[n] # Stopped => unit[n] # 0

\* The step at which the run has written a part.
WrittenAt(p) == CASE p = "jre"  -> 6 [] p = "jars" -> 7 [] p = "rcon" -> 8 [] p = "env" -> 9
                  [] OTHER -> 10

WrittenByNow ==
    run.number # 0 =>
       /\ \A p \in Parts : run.at > WrittenAt(p) => onDisk[p] = run.number
       /\ run.at > 12 => unit[run.name] = run.number
       /\ run.at > 14 => agent = run.number

RunsFrom(number) == [p \in InDirectory |-> number]

\* The service is down from its stop to its start; of a first installation it never was up.
DownUntilStarted ==
    run.number # 0 =>
       /\ run.at <= 2 /\ ~run.update => process[run.name] = Stopped
       /\ run.at \in 3 .. 13 => process[run.name] = Stopped
       /\ run.at > 13 => Renamed \/ process[run.name] = RunsFrom(run.number)

Agreed == bindingRow.state = "installed" /\ run.number = 0 /\ ~unheard

AgreedIsWritten ==
    Agreed => /\ \A p \in Parts : onDisk[p] = bindingRow.token
              /\ agent = bindingRow.token
              /\ Renamed \/ \A n \in ServiceNames :
                    unit[n] # 0 => process[n] = RunsFrom(bindingRow.token)

InstallInv ==
    InstallTypeOK /\ MarkedFirst /\ WrittenByNow /\ DownUntilStarted /\ AgreedIsWritten

LEMMA ScriptSteps ==
  ASSUME InstallTypeOK
  PROVE  /\ (Under("mark") => run.at = 1)      /\ (Under("stop") => run.at = 2)
         /\ (Under("backup") => run.at = 3)    /\ (Under("fetch") => run.at = 4)
         /\ (Under("purge") => run.at = 5)     /\ (Under("jre") => run.at = 6)
         /\ (Under("jars") => run.at = 7)      /\ (Under("rcon") => run.at = 8)
         /\ (Under("env") => run.at = 9)       /\ (Under("binding") => run.at = 10)
         /\ (Under("verify") => run.at = 11)   /\ (Under("unit") => run.at = 12)
         /\ (Under("enable") => run.at = 13)   /\ (Under("restart") => run.at = 14)
         /\ (Under("active") => run.at = 15)   /\ (Under("report") => run.at = 16)
<1> SUFFICES ASSUME run.number # 0, run.at \in 1 .. 16
    PROVE  /\ (Script[run.at] = "mark" => run.at = 1)    /\ (Script[run.at] = "stop" => run.at = 2)
           /\ (Script[run.at] = "backup" => run.at = 3)  /\ (Script[run.at] = "fetch" => run.at = 4)
           /\ (Script[run.at] = "purge" => run.at = 5)   /\ (Script[run.at] = "jre" => run.at = 6)
           /\ (Script[run.at] = "jars" => run.at = 7)    /\ (Script[run.at] = "rcon" => run.at = 8)
           /\ (Script[run.at] = "env" => run.at = 9)     /\ (Script[run.at] = "binding" => run.at = 10)
           /\ (Script[run.at] = "verify" => run.at = 11) /\ (Script[run.at] = "unit" => run.at = 12)
           /\ (Script[run.at] = "enable" => run.at = 13) /\ (Script[run.at] = "restart" => run.at = 14)
           /\ (Script[run.at] = "active" => run.at = 15) /\ (Script[run.at] = "report" => run.at = 16)
  BY DEF Under, InstallTypeOK, RunRecords
<1>1. \/ run.at = 1 \/ run.at = 2 \/ run.at = 3 \/ run.at = 4 \/ run.at = 5 \/ run.at = 6
      \/ run.at = 7 \/ run.at = 8 \/ run.at = 9 \/ run.at = 10 \/ run.at = 11 \/ run.at = 12
      \/ run.at = 13 \/ run.at = 14 \/ run.at = 15 \/ run.at = 16
  OBVIOUS
<1> QED
  BY <1>1 DEF Script

LEMMA RunIs ==
  ASSUME InstallTypeOK
  PROVE  /\ run.number \in Nat /\ run.at \in 0 .. 16 /\ run.name \in ServiceNames
         /\ run.update \in BOOLEAN /\ run.found \in PartRows /\ run.backup \in BOOLEAN
         /\ run.claim \in BOOLEAN
BY DEF InstallTypeOK, RunRecords

LEMMA NoRunIs ==
  NoRun \in RunRecords /\ NoRun.number = 0 /\ Stopped \in PartRows
<1>1. (CHOOSE n \in ServiceNames : TRUE) \in ServiceNames
  BY InstallAssumption
<1>2. Stopped \in PartRows
  BY DEF Stopped, PartRows
<1> QED
  BY <1>1, <1>2 DEF NoRun, RunRecords

\* What is started is what is on the disk, and nothing is started twice.
LEMMA StartedIs ==
  ASSUME InstallTypeOK, NEW n \in ServiceNames, NEW d \in [Parts -> Nat]
  PROVE  /\ Started(n, d, unit) \in [ServiceNames -> PartRows]
         /\ \A m \in ServiceNames : Started(n, d, unit)[m] = process[m] \/ unit[m] # 0
<1> DEFINE row == [p \in InDirectory |-> d[p]]
<1>1. row \in PartRows
  BY DEF PartRows, Parts
<1>2. Started(n, d, unit) = process \/ (unit[n] # 0 /\ Started(n, d, unit) = [process EXCEPT ![n] = row])
  BY DEF Started
<1> HIDE DEF row
<1> QED
  BY <1>1, <1>2 DEF InstallTypeOK

\* What a step leaves that does not come to its end; the first one leaves nothing.
LEMMA LeavesAre ==
  ASSUME InstallTypeOK, NEW d \in Leaves
  PROVE  d \in [Parts -> Nat] /\ (run.at <= 4 => d = onDisk)
<1>1. CASE d = onDisk
  BY <1>1 DEF InstallTypeOK
<1>2. ASSUME NEW s \in Parts \cup {"purge"}, Under(s), d = [onDisk EXCEPT ![Part(s)] = Torn]
      PROVE  d \in [Parts -> Nat] /\ run.at > 4
  <2>1. s \in {"purge", "jre", "jars", "rcon", "env", "binding"}
    BY DEF Parts, InDirectory
  <2>2. run.at > 4
    BY <1>2, <2>1, ScriptSteps, RunIs
  <2>3. onDisk \in [Parts -> Nat] /\ Torn \in Nat
    BY DEF InstallTypeOK, Torn
  <2> QED
    BY <1>2, <2>2, <2>3
<1>3. run.at \in Nat
  BY RunIs
<1> QED
  BY <1>1, <1>2, <1>3 DEF Leaves

\* Once there are two units there always are.
LEMMA RenamedStays ==
  ASSUME Renamed, \A n \in ServiceNames : unit[n] # 0 => unit'[n] # 0 PROVE Renamed'
BY DEF Renamed

\* A run that goes on is the same run at its next step.
GoesOnAt(at) ==
    /\ run.number # 0 /\ run.at = at /\ run' \in RunRecords
    /\ run'.number = run.number /\ run'.at = at + 1 /\ run'.name = run.name
    /\ run'.update = run.update /\ (at # 3 => run'.backup = run.backup)

LEMMA NextStepIs ==
  ASSUME InstallTypeOK, run.number # 0, NextStep, NEW at \in 1 .. 15, run.at = at
  PROVE  GoesOnAt(at)
<1>1. run \in RunRecords /\ run.at + 1 \in 0 .. 16
  BY DEF InstallTypeOK
<1>2. run' = [run EXCEPT !.at = run.at + 1]
  BY DEF NextStep
<1> QED
  BY <1>1, <1>2 DEF GoesOnAt, RunRecords

\* Steps that write nothing: the directory is marked, or something is looked at.
LEMMA LookKeeps == ASSUME InstallInv, MarkDirectory \/ Verify PROVE InstallInv'
<1> USE DEF InstallInv
<1>1. PICK at \in {1, 4, 11, 15} : GoesOnAt(at)
  <2>1. PICK at \in {1, 4, 11, 15} : run.at = at /\ run.number # 0 /\ NextStep
    BY ScriptSteps DEF MarkDirectory, Verify, Under
  <2> QED
    BY <2>1, NextStepIs
<1>2. UNCHANGED <<onDisk, unit, process, agent, installs, bindingRow, unheard>>
      /\ (marker' = TRUE \/ (at # 1 /\ marker' = marker))
  BY <1>1, ScriptSteps DEF MarkDirectory, Verify, Under, GoesOnAt
<1>3. InstallTypeOK'
  <2>1. marker' \in BOOLEAN
    BY <1>2 DEF InstallTypeOK
  <2>2. run'.at # 0 /\ run' \in RunRecords /\ run'.number = run.number
    BY <1>1 DEF GoesOnAt
  <2> QED
    BY <1>2, <2>1, <2>2 DEF InstallTypeOK
<1>4. marker'
  BY <1>1, <1>2 DEF MarkedFirst, GoesOnAt
<1>5. MarkedFirst'
  BY <1>1, <1>2, <1>4 DEF MarkedFirst, GoesOnAt, CanBeRepeated
<1>6. WrittenByNow'
  <2>1. ASSUME NEW p \in Parts, at + 1 > WrittenAt(p) PROVE onDisk'[p] = run.number
    BY <1>1, <1>2, <2>1 DEF WrittenByNow, GoesOnAt, WrittenAt
  <2> QED
    BY <1>1, <1>2, <2>1 DEF WrittenByNow, GoesOnAt
<1>7. DownUntilStarted'
  BY <1>1, <1>2 DEF DownUntilStarted, GoesOnAt, Renamed, RunsFrom
<1>8. AgreedIsWritten'
  BY <1>1 DEF AgreedIsWritten, Agreed, GoesOnAt
<1> QED
  BY <1>3, <1>5, <1>6, <1>7, <1>8

\* An update stops its service; a first installation has none.
LEMMA StopKeeps == ASSUME InstallInv, StopService PROVE InstallInv'
<1> USE DEF InstallInv
<1>1. GoesOnAt(2)
  BY ScriptSteps, NextStepIs DEF StopService, Under
<1>2. UNCHANGED <<marker, onDisk, unit, agent, installs, bindingRow, unheard>> /\ process' = ServiceStopped
  BY DEF StopService
<1>3. /\ process' \in [ServiceNames -> PartRows] /\ process'[run.name] = Stopped
      /\ \A n \in ServiceNames : process'[n] = process[n] \/ process'[n] = Stopped
  <2>1. CASE run.update
    BY <1>2, <2>1, NoRunIs, RunIs DEF ServiceStopped, InstallTypeOK
  <2>2. CASE ~run.update
    BY <1>1, <1>2, <2>2 DEF ServiceStopped, InstallTypeOK, DownUntilStarted, GoesOnAt
  <2> QED
    BY <2>1, <2>2
<1>4. InstallTypeOK'
  BY <1>1, <1>2, <1>3 DEF InstallTypeOK, GoesOnAt
<1>5. MarkedFirst'
  BY <1>1, <1>2, <1>3 DEF MarkedFirst, GoesOnAt, CanBeRepeated
<1>6. WrittenByNow'
  BY <1>1, <1>2 DEF WrittenByNow, GoesOnAt, WrittenAt
<1>7. DownUntilStarted'
  BY <1>1, <1>3 DEF DownUntilStarted, GoesOnAt
<1>8. AgreedIsWritten'
  BY <1>1 DEF AgreedIsWritten, Agreed, GoesOnAt
<1> QED
  BY <1>4, <1>5, <1>6, <1>7, <1>8

LEMMA BackupKeeps == ASSUME InstallInv, Backup PROVE InstallInv'
<1> USE DEF InstallInv
<1>1. GoesOnAt(3) /\ run'.at = 4
  <2> DEFINE one == [run EXCEPT !.at = run.at + 1]
  <2>1. run.number # 0 /\ run.at = 3 /\ run' = [one EXCEPT !.backup = run.update]
    BY ScriptSteps DEF Backup, Under, InstallTypeOK, RunRecords
  <2>2. one \in RunRecords /\ one.number = run.number /\ one.at = 4 /\ one.name = run.name
        /\ one.update = run.update
    BY <2>1 DEF InstallTypeOK, RunRecords
  <2> HIDE DEF one
  <2>3. run.update \in BOOLEAN
    BY RunIs
  <2> QED
    BY <2>1, <2>2, <2>3 DEF GoesOnAt, RunRecords
<1>2. UNCHANGED <<marker, onDisk, unit, process, agent, installs, bindingRow, unheard>>
  BY DEF Backup
<1>4. InstallTypeOK'
  BY <1>1, <1>2 DEF InstallTypeOK, GoesOnAt
<1>5. MarkedFirst'
  BY <1>1, <1>2 DEF MarkedFirst, GoesOnAt, CanBeRepeated
<1>6. WrittenByNow'
  BY <1>1, <1>2 DEF WrittenByNow, GoesOnAt, WrittenAt
<1>7. DownUntilStarted'
  BY <1>1, <1>2 DEF DownUntilStarted, GoesOnAt
<1>8. AgreedIsWritten'
  BY <1>1 DEF AgreedIsWritten, Agreed, GoesOnAt
<1> QED
  BY <1>4, <1>5, <1>6, <1>7, <1>8

LEMMA WritePartKeeps == ASSUME InstallInv, WritePart PROVE InstallInv'
<1> USE DEF InstallInv
<1>1. PICK s \in {"purge", "jre", "jars", "rcon", "env", "binding"} :
         /\ Under(s)
         /\ onDisk' = [onDisk EXCEPT ![Part(s)] = IF s = "purge" THEN 0 ELSE run.number]
  BY DEF WritePart, Parts, InDirectory
<1>2. UNCHANGED <<marker, unit, process, agent, installs, bindingRow, unheard>> /\ NextStep
  BY DEF WritePart
<1>3. PICK at \in 5 .. 10 : GoesOnAt(at) /\ (s = "purge" => at = 5) /\ (s # "purge" => WrittenAt(s) = at)
  <2>1. PICK at \in 5 .. 10 : run.at = at /\ (s = "purge" => at = 5) /\ (s # "purge" => WrittenAt(s) = at)
    BY <1>1, ScriptSteps DEF WrittenAt
  <2>2. run.number # 0
    BY <1>1 DEF Under
  <2> QED
    BY <1>2, <2>1, <2>2, NextStepIs
<1>4. onDisk' \in [Parts -> Nat] /\ marker
  <2>1. marker
    BY <1>3 DEF MarkedFirst, GoesOnAt
  <2>2. (IF s = "purge" THEN 0 ELSE run.number) \in Nat
    BY RunIs
  <2> QED
    BY <1>1, <2>1, <2>2 DEF InstallTypeOK
<1>5. InstallTypeOK'
  BY <1>2, <1>3, <1>4 DEF InstallTypeOK, GoesOnAt
<1>6. MarkedFirst'
  BY <1>2, <1>3, <1>4 DEF MarkedFirst, GoesOnAt, CanBeRepeated
<1>7. WrittenByNow'
  <2>1. ASSUME NEW p \in Parts, at + 1 > WrittenAt(p) PROVE onDisk'[p] = run.number
    <3>1. CASE at > WrittenAt(p)
      <4>1. onDisk[p] = run.number
        BY <1>3, <2>1, <3>1 DEF WrittenByNow, GoesOnAt
      <4>2. s # "purge"
        BY <1>3, <2>1, <3>1 DEF WrittenAt
      <4> QED
        BY <1>1, <2>1, <4>1, <4>2 DEF InstallTypeOK
    <3>2. CASE at = WrittenAt(p)
      <4>1. p = s
        BY <1>3, <2>1, <3>2 DEF WrittenAt, Parts, InDirectory
      <4>2. Part(s) = s /\ s # "purge"
        BY <2>1, <4>1 DEF Part, Parts, InDirectory
      <4> QED
        BY <1>1, <2>1, <4>1, <4>2 DEF InstallTypeOK
    <3>3. WrittenAt(p) \in Nat
      BY DEF WrittenAt
    <3> QED
      BY <2>1, <3>1, <3>2, <3>3
  <2> QED
    BY <1>2, <1>3, <2>1 DEF WrittenByNow, GoesOnAt, WrittenAt
<1>8. DownUntilStarted'
  BY <1>2, <1>3 DEF DownUntilStarted, GoesOnAt
<1>9. AgreedIsWritten'
  BY <1>3 DEF AgreedIsWritten, Agreed, GoesOnAt
<1> QED
  BY <1>5, <1>6, <1>7, <1>8, <1>9

LEMMA WriteUnitKeeps == ASSUME InstallInv, WriteUnit PROVE InstallInv'
<1> USE DEF InstallInv
<1>1. GoesOnAt(12)
  BY ScriptSteps, NextStepIs DEF WriteUnit, Under
<1>2. UNCHANGED <<marker, onDisk, process, agent, installs, bindingRow, unheard>>
      /\ unit' = [unit EXCEPT ![run.name] = run.number]
  BY DEF WriteUnit
<1>3. /\ unit' \in [ServiceNames -> Nat] /\ unit'[run.name] = run.number
      /\ \A n \in ServiceNames : unit[n] # 0 => unit'[n] # 0
  BY <1>1, <1>2, RunIs DEF InstallTypeOK, GoesOnAt
<1>4. InstallTypeOK'
  BY <1>1, <1>2, <1>3 DEF InstallTypeOK, GoesOnAt
<1>5. MarkedFirst'
  BY <1>1, <1>2, <1>3 DEF MarkedFirst, GoesOnAt, CanBeRepeated
<1>6. WrittenByNow'
  BY <1>1, <1>2, <1>3 DEF WrittenByNow, GoesOnAt, WrittenAt
<1>7. DownUntilStarted'
  BY <1>1, <1>2 DEF DownUntilStarted, GoesOnAt
<1>8. AgreedIsWritten'
  BY <1>1 DEF AgreedIsWritten, Agreed, GoesOnAt
<1> QED
  BY <1>4, <1>5, <1>6, <1>7, <1>8

\* The service starts from what this run has written, unless the server runs under another name.
LEMMA EnableKeeps == ASSUME InstallInv, EnableService PROVE InstallInv'
<1> USE DEF InstallInv
<1>1. GoesOnAt(13)
  BY ScriptSteps, NextStepIs DEF EnableService, Under
<1>2. UNCHANGED <<marker, onDisk, unit, agent, installs, bindingRow, unheard>>
      /\ process' = Started(run.name, onDisk, unit)
  BY DEF EnableService
<1>3. /\ process' \in [ServiceNames -> PartRows]
      /\ \A n \in ServiceNames : process'[n] = process[n] \/ unit[n] # 0
  BY <1>2, StartedIs, RunIs DEF InstallTypeOK
<1>4. InstallTypeOK'
  BY <1>1, <1>2, <1>3 DEF InstallTypeOK, GoesOnAt
<1>5. MarkedFirst'
  BY <1>1, <1>2, <1>3 DEF MarkedFirst, GoesOnAt, CanBeRepeated
<1>6. WrittenByNow'
  BY <1>1, <1>2 DEF WrittenByNow, GoesOnAt, WrittenAt
<1>7. DownUntilStarted'
  <2>1. unit[run.name] = run.number /\ run.number # 0 /\ process[run.name] = Stopped
        /\ run.name \in ServiceNames /\ run.number \in Nat
    BY <1>1, RunIs DEF WrittenByNow, DownUntilStarted, GoesOnAt
  <2>2. \A p \in InDirectory : onDisk[p] = run.number
    BY <1>1 DEF WrittenByNow, GoesOnAt, WrittenAt, Parts, InDirectory
  <2>3. ASSUME ~Renamed PROVE process'[run.name] = RunsFrom(run.number)
    <3>1. \A m \in ServiceNames : process[m] = Stopped
      BY <2>1, <2>3 DEF Renamed, MarkedFirst
    <3>2. run.number # Torn
      BY <2>1, InstallAssumption DEF InstallTypeOK, Torn
    <3>3. process' = [process EXCEPT ![run.name] = [p \in InDirectory |-> onDisk[p]]]
      BY <1>2, <2>1, <2>2, <3>1, <3>2 DEF Started
    <3>4. [p \in InDirectory |-> onDisk[p]] = RunsFrom(run.number)
      BY <2>2 DEF RunsFrom
    <3> QED
      BY <2>1, <3>3, <3>4 DEF InstallTypeOK
  <2>4. Renamed' \/ process'[run.name] = RunsFrom(run.number)
    BY <1>2, <2>3, RenamedStays
  <2> QED
    BY <1>1, <2>4 DEF DownUntilStarted, GoesOnAt
<1>8. AgreedIsWritten'
  BY <1>1 DEF AgreedIsWritten, Agreed, GoesOnAt
<1> QED
  BY <1>4, <1>5, <1>6, <1>7, <1>8

LEMMA RestartAgentKeeps == ASSUME InstallInv, RestartAgent PROVE InstallInv'
<1> USE DEF InstallInv
<1>1. GoesOnAt(14)
  BY ScriptSteps, NextStepIs DEF RestartAgent, Under
<1>2. UNCHANGED <<marker, onDisk, unit, process, installs, bindingRow, unheard>>
      /\ agent' = onDisk["binding"]
  BY DEF RestartAgent, RestartedAgent
<1>3. agent' = run.number
  BY <1>1, <1>2 DEF WrittenByNow, GoesOnAt, WrittenAt, Parts, InDirectory
<1>4. InstallTypeOK'
  BY <1>1, <1>2, <1>3, RunIs DEF InstallTypeOK, GoesOnAt
<1>5. MarkedFirst'
  BY <1>1, <1>2 DEF MarkedFirst, GoesOnAt, CanBeRepeated
<1>6. WrittenByNow'
  BY <1>1, <1>2, <1>3 DEF WrittenByNow, GoesOnAt, WrittenAt
<1>7. DownUntilStarted'
  BY <1>1, <1>2 DEF DownUntilStarted, GoesOnAt, Renamed
<1>8. AgreedIsWritten'
  BY <1>1 DEF AgreedIsWritten, Agreed, GoesOnAt
<1> QED
  BY <1>4, <1>5, <1>6, <1>7, <1>8

LEMMA BeginKeeps == ASSUME InstallInv, BeginInstall PROVE InstallInv'
<1> USE DEF InstallInv
<1>1. PICK n \in ServiceNames :
         run' = [NoRun EXCEPT !.number = installs + 1, !.at = 1, !.name = n, !.update = marker,
                              !.found = [p \in InDirectory |-> onDisk[p]], !.claim = TRUE]
  BY DEF BeginInstall
<1>2. /\ UNCHANGED <<marker, onDisk, unit, process, agent, bindingRow, unheard>>
      /\ installs' = installs + 1 /\ installs < MaxInstalls /\ run.number = 0
  BY DEF BeginInstall
<1>3. /\ run'.number = installs + 1 /\ run'.at = 1 /\ run'.name = n /\ run'.update = marker
      /\ run'.backup = FALSE /\ run' \in RunRecords
  <2> DEFINE d == [p \in InDirectory |-> onDisk[p]]
  <2>1. /\ d \in PartRows /\ installs + 1 \in Nat /\ marker \in BOOLEAN
    BY InstallAssumption DEF InstallTypeOK, PartRows, Parts
  <2> HIDE DEF d
  <2>2. run' = [number |-> installs + 1, at |-> 1, name |-> n, update |-> marker, found |-> d,
                backup |-> FALSE, claim |-> TRUE]
    BY <1>1 DEF NoRun, d
  <2> QED
    BY <2>1, <2>2 DEF RunRecords
<1>4. InstallTypeOK'
  BY <1>2, <1>3, InstallAssumption DEF InstallTypeOK
<1>5. MarkedFirst'
  BY <1>2, <1>3 DEF MarkedFirst, CanBeRepeated
<1>6. WrittenByNow'
  BY <1>3 DEF WrittenByNow, WrittenAt
<1>7. DownUntilStarted'
  BY <1>2, <1>3 DEF DownUntilStarted, MarkedFirst
<1>8. installs \in Nat /\ run'.number # 0
  BY <1>3, InstallAssumption DEF InstallTypeOK
<1>9. AgreedIsWritten'
  BY <1>8 DEF AgreedIsWritten, Agreed
<1> QED
  BY <1>4, <1>5, <1>6, <1>7, <1>9

\* What a report of success says is what this run has written.
LEMMA ReportKeeps == ASSUME InstallInv, ReportInstalled PROVE InstallInv'
<1> USE DEF InstallInv
<1>1. run.number # 0 /\ run.at = 16 /\ run.number \in Nat /\ run.name \in ServiceNames
  BY ScriptSteps, RunIs DEF ReportInstalled, Under
<1>2. /\ UNCHANGED <<marker, onDisk, unit, process, agent, installs>>
      /\ bindingRow' = [state |-> "installed", token |-> run.number]
      /\ run' = NoRun /\ unheard' = FALSE
  BY DEF ReportInstalled
<1>3. InstallTypeOK'
  BY <1>1, <1>2, NoRunIs DEF InstallTypeOK
<1>4. MarkedFirst'
  BY <1>2, NoRunIs DEF MarkedFirst, CanBeRepeated
<1>5. WrittenByNow' /\ DownUntilStarted'
  BY <1>2, NoRunIs DEF WrittenByNow, DownUntilStarted
<1>6. AgreedIsWritten'
  <2>1. \A p \in Parts : onDisk[p] = run.number
    BY <1>1 DEF WrittenByNow, WrittenAt
  <2>2. agent = run.number /\ unit[run.name] = run.number
    BY <1>1 DEF WrittenByNow
  <2>3. Renamed \/ \A n \in ServiceNames : unit[n] # 0 => process[n] = RunsFrom(run.number)
    BY <1>1, <2>2 DEF DownUntilStarted, Renamed
  <2> QED
    BY <1>2, <2>1, <2>2, <2>3 DEF AgreedIsWritten, Renamed
<1> QED
  BY <1>3, <1>4, <1>5, <1>6

\* A run that ends otherwise: the panel hears of a failure, or the machine is unheard.
LEMMA OtherEndKeeps ==
  ASSUME InstallInv, run' = NoRun, UNCHANGED <<marker, unit, installs>>, agent' \in Nat,
         onDisk' \in [Parts -> Nat], process' \in [ServiceNames -> PartRows],
         bindingRow' \in [state : {"pending", "installed", "failed"}, token : Nat],
         unheard' \in BOOLEAN, unheard' \/ bindingRow'.state = "failed",
         \A n \in ServiceNames : process'[n] \in {process[n], Stopped} \/ unit[n] # 0,
         marker \/ onDisk' = onDisk
  PROVE  InstallInv'
<1> USE DEF InstallInv
<1>1. InstallTypeOK'
  BY NoRunIs DEF InstallTypeOK
<1>2. MarkedFirst'
  BY NoRunIs DEF MarkedFirst, CanBeRepeated
<1>3. WrittenByNow' /\ DownUntilStarted'
  BY NoRunIs DEF WrittenByNow, DownUntilStarted
<1>4. AgreedIsWritten'
  BY DEF AgreedIsWritten, Agreed
<1> QED
  BY <1>1, <1>2, <1>3, <1>4

LEMMA FailureKeeps ==
  ASSUME InstallInv, run.number # 0, NEW d \in Leaves,
         NEW row \in [state : {"pending", "installed", "failed"}, token : Nat], NEW claim \in BOOLEAN,
         ReportFailure(d, row, claim), UNCHANGED <<marker, unit, agent, installs>>
  PROVE  InstallInv'
<1> USE DEF InstallInv
<1> DEFINE back == [p \in Parts |-> IF run.backup /\ p \in BackedUp THEN run.found[p] ELSE d[p]]
<1>1. d \in [Parts -> Nat] /\ (run.at <= 4 => d = onDisk) /\ run.at \in 1 .. 16
  BY LeavesAre, RunIs DEF InstallTypeOK
<1>2. back \in [Parts -> Nat]
  BY <1>1, RunIs DEF PartRows, BackedUp, Parts, InDirectory
<1>3. marker \/ (run.at = 1 /\ ~run.backup)
  BY <1>1 DEF MarkedFirst
<1>4. marker \/ back = onDisk
  BY <1>1, <1>3 DEF InstallTypeOK
<1>5. /\ onDisk' = back /\ run' = NoRun
      /\ process' = IF run.backup THEN Started(run.name, back, unit) ELSE process
  BY DEF ReportFailure
<1> HIDE DEF back
<1>6. /\ process' \in [ServiceNames -> PartRows]
      /\ \A n \in ServiceNames : process'[n] = process[n] \/ unit[n] # 0
  <2>1. CASE run.backup
    BY <1>2, <1>5, <2>1, StartedIs, RunIs
  <2>2. CASE ~run.backup
    BY <1>5, <2>2 DEF InstallTypeOK
  <2> QED
    BY <2>1, <2>2
<1>7. /\ bindingRow' \in [state : {"pending", "installed", "failed"}, token : Nat]
      /\ unheard' \in BOOLEAN /\ (unheard' \/ bindingRow'.state = "failed")
  BY DEF ReportFailure
<1>8. agent' \in Nat
  BY DEF InstallTypeOK
<1> QED
  BY <1>2, <1>4, <1>5, <1>6, <1>7, <1>8, OtherEndKeeps

LEMMA EndsKeep == ASSUME InstallInv, StepFails \/ ReplyLost \/ Interrupted PROVE InstallInv'
<1> USE DEF InstallInv
<1>1. CASE StepFails
  BY <1>1, FailureKeeps, RunIs DEF StepFails, InstallTypeOK
<1>2. CASE ReplyLost
  <2>1. PICK t \in {run.number, bindingRow.token} :
           ReportFailure(onDisk, [state |-> "installed", token |-> t], FALSE)
    BY <1>2 DEF ReplyLost
  <2>2. t \in Nat
    BY RunIs DEF InstallTypeOK
  <2>3. [state |-> "installed", token |-> t] \in [state : {"pending", "installed", "failed"}, token : Nat]
    BY <2>2
  <2>4. onDisk \in Leaves /\ run.number # 0 /\ UNCHANGED <<marker, unit, agent, installs>>
    BY <1>2 DEF ReplyLost, Leaves, Under
  <2> QED
    BY <2>1, <2>3, <2>4, FailureKeeps
<1>3. CASE Interrupted
  <2>1. onDisk' \in [Parts -> Nat] /\ (run.at <= 4 => onDisk' = onDisk)
    BY <1>3, LeavesAre DEF Interrupted
  <2>2. marker \/ onDisk' = onDisk
    BY <1>3, <2>1, RunIs DEF Interrupted, MarkedFirst
  <2>3. /\ process' \in [ServiceNames -> PartRows] /\ agent' \in Nat
        /\ \A n \in ServiceNames : process'[n] \in {process[n], Stopped}
    BY <1>3, NoRunIs DEF Interrupted, InstallTypeOK, Parts
  <2>4. run' = NoRun /\ unheard' = TRUE /\ UNCHANGED <<marker, unit, installs, bindingRow>>
    BY <1>3 DEF Interrupted
  <2> QED
    BY <2>1, <2>2, <2>3, <2>4, OtherEndKeeps DEF InstallTypeOK
<1> QED
  BY <1>1, <1>2, <1>3

LEMMA RevokeKeeps == ASSUME InstallInv, RevokeClaim PROVE InstallInv'
<1> USE DEF InstallInv
<1>1. /\ UNCHANGED <<marker, onDisk, unit, process, agent, installs, bindingRow, unheard>>
      /\ run' = [run EXCEPT !.claim = FALSE] /\ run.number # 0
  BY DEF RevokeClaim
<1>2. /\ run'.number = run.number /\ run'.at = run.at /\ run'.name = run.name
      /\ run'.update = run.update /\ run'.backup = run.backup /\ run' \in RunRecords
  BY <1>1 DEF InstallTypeOK, RunRecords
<1>3. InstallTypeOK'
  BY <1>1, <1>2 DEF InstallTypeOK
<1>4. MarkedFirst'
  BY <1>1, <1>2 DEF MarkedFirst, CanBeRepeated
<1>5. WrittenByNow'
  BY <1>1, <1>2 DEF WrittenByNow
<1>6. DownUntilStarted'
  BY <1>1, <1>2 DEF DownUntilStarted, Renamed
<1>7. AgreedIsWritten'
  BY <1>1, <1>2 DEF AgreedIsWritten, Agreed
<1> QED
  BY <1>3, <1>4, <1>5, <1>6, <1>7

LEMMA RestartServiceKeeps ==
  ASSUME InstallInv, NEW n \in ServiceNames, RestartService(n) PROVE InstallInv'
<1> USE DEF InstallInv
<1> DEFINE row == [p \in InDirectory |-> onDisk[p]]
<1>1. /\ UNCHANGED <<marker, onDisk, unit, agent, run, installs, bindingRow, unheard>>
      /\ process' = [process EXCEPT ![n] = row] /\ run.number = 0 /\ process[n] # Stopped
  BY DEF RestartService
<1>2. row \in PartRows
  BY DEF InstallTypeOK, PartRows, Parts
<1>3. Agreed => row = RunsFrom(bindingRow.token)
  BY DEF AgreedIsWritten, RunsFrom, Parts
<1> HIDE DEF row
<1>4. /\ process' \in [ServiceNames -> PartRows] /\ process'[n] = row
      /\ \A m \in ServiceNames : m # n => process'[m] = process[m]
  BY <1>1, <1>2 DEF InstallTypeOK
<1>5. InstallTypeOK'
  BY <1>1, <1>4 DEF InstallTypeOK
<1>6. MarkedFirst'
  BY <1>1, <1>4 DEF MarkedFirst, CanBeRepeated
<1>7. WrittenByNow' /\ DownUntilStarted'
  BY <1>1 DEF WrittenByNow, DownUntilStarted
<1>8. AgreedIsWritten'
  BY <1>1, <1>3, <1>4 DEF AgreedIsWritten, Agreed, Renamed
<1> QED
  BY <1>5, <1>6, <1>7, <1>8

LEMMA InstallStarts == ASSUME InstallInit PROVE InstallInv
<1> USE DEF InstallInit
<1>1. InstallTypeOK
  <2>1. process \in [ServiceNames -> PartRows]
    BY NoRunIs
  <2>2. run \in RunRecords /\ run.number = 0
    BY NoRunIs
  <2>3. bindingRow \in [state : {"pending", "installed", "failed"}, token : Nat]
    OBVIOUS
  <2>4. /\ marker \in BOOLEAN /\ unheard \in BOOLEAN /\ agent \in Nat
        /\ onDisk \in [Parts -> Nat] /\ unit \in [ServiceNames -> Nat]
    OBVIOUS
  <2>5. installs \in 0 .. MaxInstalls /\ run.number \in {0, installs} /\ (run.number # 0 => run.at # 0)
    BY <2>2, InstallAssumption
  <2> HIDE DEF InstallInit
  <2> QED
    BY <2>1, <2>2, <2>3, <2>4, <2>5 DEF InstallTypeOK
<1>2. MarkedFirst
  BY NoRunIs DEF MarkedFirst, CanBeRepeated, Parts
<1>3. WrittenByNow /\ DownUntilStarted /\ AgreedIsWritten
  BY NoRunIs DEF WrittenByNow, DownUntilStarted, AgreedIsWritten, Agreed
<1> QED
  BY <1>1, <1>2, <1>3 DEF InstallInv

LEMMA InstallStepKeeps == ASSUME InstallInv, [InstallNext]_installVars PROVE InstallInv'
<1>1. CASE UNCHANGED installVars
  <2>1. UNCHANGED <<marker, onDisk, unit, process, agent, run, installs, bindingRow, unheard>>
    BY <1>1 DEF installVars
  <2> QED
    BY <2>1 DEF InstallInv, InstallTypeOK, MarkedFirst, CanBeRepeated, WrittenByNow,
                DownUntilStarted, Renamed, AgreedIsWritten, Agreed
<1>2. ASSUME NEW n \in ServiceNames, RestartService(n) PROVE InstallInv'
  BY <1>2, RestartServiceKeeps
<1>3. CASE \/ BeginInstall \/ MarkDirectory \/ StopService \/ Backup \/ Verify \/ WritePart
           \/ WriteUnit \/ EnableService \/ RestartAgent \/ ReportInstalled \/ StepFails
           \/ ReplyLost \/ Interrupted \/ RevokeClaim
  BY <1>3, BeginKeeps, LookKeeps, StopKeeps, BackupKeeps, WritePartKeeps, WriteUnitKeeps,
     EnableKeeps, RestartAgentKeeps, ReportKeeps, EndsKeep, RevokeKeeps
<1> QED
  BY <1>1, <1>2, <1>3 DEF InstallNext

\* What runs on the machine is what the panel was told, whom the agent belongs to, and the
\* directory is never refused to the same server (renderScript, server-bootstrap.service.ts:600).
THEOREM MachineTruly == InstallSpec => []MachineAgrees
<1>1. InstallInv => MachineAgrees
  BY DEF InstallInv, MarkedFirst, AgreedIsWritten, Agreed, MachineAgrees, InstalledIsRunning,
         AgentIsEnrolled, RunsFrom
<1>2. InstallInit => InstallInv
  BY InstallStarts
<1>3. InstallInv /\ [InstallNext]_installVars => InstallInv'
  BY InstallStepKeeps
<1> QED
  BY <1>1, <1>2, <1>3, PTL DEF InstallSpec

\* A trap after the backup: the jars and the environment are what the run found, and the server
\* is up when everything it needs is whole.
UndoneBy ==
    /\ \A p \in {"jars", "env"} : onDisk'[p] = run.found[p]
    /\ unit[run.name] # 0 /\ (\A p \in InDirectory : onDisk'[p] \notin {0, Torn}) =>
          \E n \in ServiceNames : process'[n] # Stopped

LEMMA TrapUndoes ==
  ASSUME InstallInv, NEW d, NEW row, NEW claim, ReportFailure(d, row, claim), run.backup
  PROVE  UndoneBy
<1> DEFINE back == [p \in Parts |-> IF run.backup /\ p \in BackedUp THEN run.found[p] ELSE d[p]]
<1>1. onDisk' = back /\ process' = Started(run.name, back, unit)
  BY DEF ReportFailure
<1>2. \A p \in {"jars", "env"} : back[p] = run.found[p]
  BY DEF BackedUp, Parts, InDirectory
<1> HIDE DEF back
<1>3. ASSUME unit[run.name] # 0, \A p \in InDirectory : back[p] \notin {0, Torn}
      PROVE  \E n \in ServiceNames : process'[n] # Stopped
  <2>1. run.name \in ServiceNames /\ process \in [ServiceNames -> PartRows]
    BY RunIs DEF InstallInv, InstallTypeOK
  <2>2. CASE \A m \in ServiceNames : process[m] = Stopped
    <3> DEFINE rebuilt == [p \in InDirectory |-> back[p]]
    <3>1. rebuilt["jre"] # Stopped["jre"]
      BY <1>3 DEF InDirectory, Stopped
    <3>2. process' = [process EXCEPT ![run.name] = rebuilt]
      BY <1>1, <1>3, <2>2 DEF Started
    <3> HIDE DEF rebuilt
    <3> QED
      BY <2>1, <3>1, <3>2
  <2>3. CASE ~\A m \in ServiceNames : process[m] = Stopped
    BY <1>1, <2>3 DEF Started
  <2> QED
    BY <2>2, <2>3
<1> QED
  BY <1>1, <1>2, <1>3 DEF UndoneBy

\* The backup of an update is put back by every end of the run that its trap sees ("backs up
\* patched JARs before updates", PROJECT_PLAN.md:552).
THEOREM UpdateIsUndone == InstallSpec => FailedUpdateIsUndone
<1>1. InstallInv /\ [InstallNext]_installVars =>
         [(StepFails \/ ReplyLost) /\ run.backup =>
             /\ \A p \in {"jars", "env"} : onDisk'[p] = run.found[p]
             /\ unit[run.name] # 0 /\ (\A p \in InDirectory : onDisk'[p] \notin {0, Torn}) =>
                   \E n \in ServiceNames : process'[n] # Stopped]_installVars
  <2> SUFFICES ASSUME InstallInv, StepFails \/ ReplyLost, run.backup PROVE UndoneBy
    BY DEF UndoneBy
  <2> QED
    BY TrapUndoes DEF StepFails, ReplyLost
<1>2. InstallInit => InstallInv
  BY InstallStarts
<1>3. InstallInv /\ [InstallNext]_installVars => InstallInv'
  BY InstallStepKeeps
<1> QED
  BY <1>1, <1>2, <1>3, PTL DEF InstallSpec, FailedUpdateIsUndone
=============================================================================

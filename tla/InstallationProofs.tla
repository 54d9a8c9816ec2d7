-------------------------- MODULE InstallationProofs --------------------------
(***************************************************************************)
(* The properties of Installation, for every set of areas, one job or two   *)
(* and any number of faults.  The programs enter only through the           *)
(* assumptions of InstallationInv about the tables computed from them.      *)
(*                                                                          *)
(* First what an action does to a task and to the places, in terms of the   *)
(* step the task is at; then that the entry of the step's table tells what  *)
(* the action does (StepFollows); then the parts of the invariant, one      *)
(* after the other, for a step of a job, a crash, a cancellation and a      *)
(* beginning; at the end the theorems.                                      *)
(***************************************************************************)
EXTENDS InstallationInv, TLAPS

LEMMA ValueOfNothing ==
    ASSUME NEW r, NEW base, NEW live PROVE Value(r, base, live, {}) = {}
  BY DEF Value

LEMMA ValueOfBoth ==
    ASSUME NEW r, NEW base, NEW live, NEW c, NEW d
    PROVE  Value(r, base, live, c \cup d) = Value(r, base, live, c) \cup Value(r, base, live, d)
  BY DEF Value

LEMMA ValueOfOne ==
    ASSUME NEW r, NEW base, NEW live, NEW n
    PROVE  Value(r, base, live, {n}) = Meaning(r, base, live, n)
  BY DEF Value

LEMMA Meanings ==
    ASSUME NEW r, NEW base, NEW live
    PROVE  /\ Meaning(r, base, live, Mine) = {r}
           /\ Meaning(r, base, live, HalfDone) = Broken
           /\ Meaning(r, base, live, Off) = Disabled
           /\ \A p : Meaning(r, base, live, Old(p)) = base[p]
           /\ \A p : Meaning(r, base, live, Held(p)) = live[p]
  BY DEF Meaning, Mine, HalfDone, Off, Old, Held

-----------------------------------------------------------------------------
(* The programs *)

LEMMA SlotsAreTwo ==
    /\ 1 \in Slots /\ Slots \subseteq {1, 2}
    /\ \A r \in Slots : r \in Nat /\ r # -1 /\ r # -2 /\ r # 0
  BY SlotsAssumption

StepOf(r) ==
    Skip(r) \/ Return(r) \/ Succeed(r) \/ Refuse(r) \/ Break(r) \/ Again(r) \/ RestartFails(r)

StepNow(r) == Current(r, Code(r))

LEMMA OpKnown ==
    ASSUME TypeInv, OrderInv, NEW r \in Slots, Begun(r)
    PROVE  /\ tasks[r].op \in Ops /\ area \in DOMAIN Operations
           /\ tasks[r].op \in Operations[area][r] /\ tasks[r].op \in OpsOf(area)
<1>1. area \in DOMAIN Operations
  BY AreasAssumption DEF TypeInv
<1>2. tasks[r].op \in Operations[area][r]
  BY DEF OrderInv
<1>3. tasks[r].op \in OpsOf(area)
  BY <1>2, SlotsAreTwo DEF OpsOf
<1> QED
  BY <1>1, <1>2, <1>3, OperationsAreKnown

LEMMA Sequential ==
    ASSUME NEW op \in Ops
    PROVE  /\ Len(Programs[op]) \in Nat \ {0}
           /\ DOMAIN Programs[op] = 1 .. Len(Programs[op])
           /\ \A i \in DOMAIN Programs[op] :
                 /\ Returns(op, i) => ReturnFrom(Programs[op], i) \in i + 1 .. Len(Programs[op]) + 1
                 /\ Len(Undos[op][i]) \in Nat
                 /\ DOMAIN Undos[op][i] = 1 .. Len(Undos[op][i])
                 /\ \A k \in DOMAIN Undos[op][i] :
                       /\ Outer(Undos[op][i], k) \in k + 1 .. Len(Undos[op][i]) + 1
                       /\ Undos[op][i][k].do \notin {"enough", "healthy"}
                       /\ Undos[op][i][k].tries = 1
           /\ \A s \in StepsOf(op) : StepOK(s)
  BY ProgramsAreSequences

LEMMA BodySteps ==
    ASSUME NEW op \in Ops, NEW i \in DOMAIN Programs[op] PROVE Programs[op][i] \in StepsOf(op)
  BY DEF StepsOf, Range

LEMMA UndoSteps ==
    ASSUME NEW op \in Ops, NEW i \in DOMAIN Programs[op], NEW k \in DOMAIN Undos[op][i]
    PROVE  Undos[op][i][k] \in StepsOf(op)
<1>1. Undos[op][i][k] \in Range(Undos[op][i])
  BY DEF Range
<1>2. Range(Undos[op][i]) \in {Range(Undos[op][j]) : j \in DOMAIN Programs[op]}
  OBVIOUS
<1> QED
  BY <1>1, <1>2 DEF StepsOf

LEMMA StepsChange ==
    ASSUME NEW op, NEW s \in StepsOf(op)
    PROVE  Targets(s) \subseteq Changed(op) /\ s.need \subseteq Seen(op) /\ s.lack \subseteq Seen(op)
<1>1. Targets(s) \in {Targets(x) : x \in StepsOf(op)}
  OBVIOUS
<1>2. s.need \cup s.lack \in {x.need \cup x.lack : x \in StepsOf(op)}
  OBVIOUS
<1> QED
  BY <1>1, <1>2 DEF Changed, Seen

\* Where a running job is.
LEMMA Position ==
    ASSUME TypeInv, OrderInv, NEW r \in Slots, Running(r)
    PROVE  /\ Begun(r) /\ tasks[r].op \in Ops /\ tasks[r].mode \in {"body", "undo"}
           /\ tasks[r].at \in DOMAIN Programs[tasks[r].op]
           /\ tasks[r].mode = "body" => StepNow(r) = Programs[tasks[r].op][tasks[r].at]
           /\ tasks[r].mode = "undo" =>
                 /\ tasks[r].un \in DOMAIN Undos[tasks[r].op][tasks[r].at]
                 /\ StepNow(r) = Undos[tasks[r].op][tasks[r].at][tasks[r].un]
           /\ StepNow(r) \in StepsOf(tasks[r].op) /\ StepOK(StepNow(r))
<1>1. Begun(r) /\ tasks[r].mode \in {"body", "undo"}
  BY DEF Running, Begun
<1>2. tasks[r].op \in Ops
  BY <1>1, OpKnown
<1>3. /\ tasks[r].at \in DOMAIN Programs[tasks[r].op]
      /\ tasks[r].mode = "undo" => tasks[r].un \in DOMAIN Undos[tasks[r].op][tasks[r].at]
  BY <1>1 DEF TypeInv, TaskOK
<1>4. /\ tasks[r].mode = "body" => StepNow(r) = Programs[tasks[r].op][tasks[r].at]
      /\ tasks[r].mode = "undo" => StepNow(r) = Undos[tasks[r].op][tasks[r].at][tasks[r].un]
  BY DEF StepNow, Current, Code
<1>5. StepNow(r) \in StepsOf(tasks[r].op)
  BY <1>1, <1>2, <1>3, <1>4, BodySteps, UndoSteps
<1> QED
  BY <1>1, <1>2, <1>3, <1>4, <1>5, Sequential

-----------------------------------------------------------------------------
(* Where a task goes *)

\* The task u is t at another position, or t ended.
SameTask(t, u) ==
    /\ DOMAIN u = DOMAIN t
    /\ u.op = t.op /\ u.aborted = t.aborted /\ u.alone = t.alone /\ u.hurt = t.hurt
    /\ u.mode \in {"body", "undo", "done", "failed"}
    /\ u.mode \in {"body", "undo"} =>
          u.read = t.read /\ u.had = t.had /\ u.base = t.base /\ u.live = t.live
    /\ u.mode \in {"done", "failed"} => u.read = <<>> /\ u.had = {}

CodeOf(t) == [body |-> Programs[t.op], undo |-> Undos[t.op][t.at]]

GoesTo(t, u, i) ==
    /\ SameTask(t, u)
    /\ IF i > Len(Programs[t.op]) THEN u.mode = "done" ELSE u.mode = "body" /\ u.at = i

GoesBack(t, u, k) ==
    /\ SameTask(t, u)
    /\ IF k > Len(Undos[t.op][t.at]) THEN u.mode = "failed"
       ELSE u.mode = "undo" /\ u.at = t.at /\ u.un = k

LEMMA ToStepGoes ==
    ASSUME NEW t, TaskOK(t), t.mode = "body", NEW i PROVE GoesTo(t, ToStep(CodeOf(t), t, i), i)
<1>1. CASE i > Len(Programs[t.op])
  <2>1. ToStep(CodeOf(t), t, i) = Ended(t, "done")
    BY <1>1 DEF ToStep, CodeOf
  <2>2. SameTask(t, Ended(t, "done")) /\ Ended(t, "done").mode = "done"
    BY DEF SameTask, Ended, TaskOK
  <2> QED
    BY <1>1, <2>1, <2>2 DEF GoesTo
<1>2. CASE ~(i > Len(Programs[t.op]))
  <2>1. ToStep(CodeOf(t), t, i) = [t EXCEPT !.at = i, !.tries = 1]
    BY <1>2 DEF ToStep, CodeOf
  <2>2. /\ SameTask(t, [t EXCEPT !.at = i, !.tries = 1])
        /\ [t EXCEPT !.at = i, !.tries = 1].mode = "body" /\ [t EXCEPT !.at = i, !.tries = 1].at = i
    BY DEF SameTask, TaskOK
  <2> QED
    BY <1>2, <2>1, <2>2 DEF GoesTo
<1> QED
  BY <1>1, <1>2

LEMMA ToUndoGoes ==
    ASSUME NEW t, TaskOK(t), NEW k PROVE GoesBack(t, ToUndo(CodeOf(t), t, k), k)
<1>1. CASE k > Len(Undos[t.op][t.at])
  <2>1. ToUndo(CodeOf(t), t, k) = Ended(t, "failed")
    BY <1>1 DEF ToUndo, CodeOf
  <2>2. SameTask(t, Ended(t, "failed")) /\ Ended(t, "failed").mode = "failed"
    BY DEF SameTask, Ended, TaskOK
  <2> QED
    BY <1>1, <2>1, <2>2 DEF GoesBack
<1>2. CASE ~(k > Len(Undos[t.op][t.at]))
  <2>1. ToUndo(CodeOf(t), t, k) = [t EXCEPT !.mode = "undo", !.un = k]
    BY <1>2 DEF ToUndo, CodeOf
  <2>2. /\ SameTask(t, [t EXCEPT !.mode = "undo", !.un = k])
        /\ [t EXCEPT !.mode = "undo", !.un = k].mode = "undo"
        /\ [t EXCEPT !.mode = "undo", !.un = k].un = k
        /\ [t EXCEPT !.mode = "undo", !.un = k].at = t.at
    BY DEF SameTask, TaskOK
  <2> QED
    BY <1>2, <2>1, <2>2 DEF GoesBack
<1> QED
  BY <1>1, <1>2

\* The step after the current one, and the undo step that runs when the current one throws.
GoesOn(t, u) == IF t.mode = "body" THEN GoesTo(t, u, t.at + 1) ELSE GoesBack(t, u, t.un + 1)

GoesDown(t, u) ==
    GoesBack(t, u, IF t.mode = "body" THEN 1 ELSE Outer(Undos[t.op][t.at], t.un))

LEMMA TaskGoes ==
    ASSUME NEW t, TaskOK(t), t.mode \in {"body", "undo"}
    PROVE  /\ GoesOn(t, Onward(CodeOf(t), t)) /\ GoesDown(t, Thrown(CodeOf(t), t))
           /\ \A s : /\ s.quiet => GoesOn(t, Failed(CodeOf(t), s, t))
                     /\ ~s.quiet => GoesDown(t, Failed(CodeOf(t), s, t))
<1>1. GoesOn(t, Onward(CodeOf(t), t))
  <2>1. CASE t.mode = "body"
    BY <2>1, ToStepGoes DEF Onward, GoesOn
  <2>2. CASE t.mode = "undo"
    BY <2>2, ToUndoGoes DEF Onward, GoesOn
  <2> QED
    BY <2>1, <2>2
<1>2. GoesDown(t, Thrown(CodeOf(t), t))
  <2>1. CodeOf(t).undo = Undos[t.op][t.at]
    BY DEF CodeOf
  <2> QED
    BY <2>1, ToUndoGoes DEF Thrown, GoesDown
<1> QED
  BY <1>1, <1>2 DEF Failed

-----------------------------------------------------------------------------
(* The actions of a job, in terms of the step it is at *)

\* The task t2 is t with other memories.
Similar(t, t2) ==
    /\ TaskOK(t2) /\ DOMAIN t2 = DOMAIN t /\ t2.op = t.op /\ t2.mode = t.mode /\ t2.at = t.at
    /\ t2.un = t.un /\ t2.aborted = t.aborted /\ t2.alone = t.alone
    /\ t2.base = t.base /\ t2.live = t.live

GoesOut(t, u, s) == IF s.quiet THEN GoesOn(t, u) ELSE GoesDown(t, u)

Hurt(t, h) == [t EXCEPT !.hurt = h]

OnlyTask(r) == /\ DOMAIN tasks' = Slots /\ \A q \in Slots \ {r} : tasks'[q] = tasks[q]

LEMMA Moving ==
    ASSUME TypeInv, OrderInv, NEW r \in Slots, Running(r), NEW t2, Similar(tasks[r], t2)
    PROVE  /\ Code(r) = CodeOf(t2) /\ GoesOn(t2, Onward(Code(r), t2)) /\ GoesDown(t2, Thrown(Code(r), t2))
           /\ StepOK(StepNow(r)) /\ GoesOut(t2, Failed(Code(r), StepNow(r), t2), StepNow(r))
<1>1. Code(r) = CodeOf(t2)
  BY DEF Code, CodeOf, Similar
<1>2. TaskOK(t2) /\ t2.mode \in {"body", "undo"}
  BY DEF Similar, Running
<1>3. StepOK(StepNow(r))
  BY Position
<1> QED
  BY <1>1, <1>2, <1>3, TaskGoes DEF GoesOut, StepOK

LEMMA SimilarTasks ==
    ASSUME TypeInv, OrderInv, NEW r \in Slots, Running(r)
    PROVE  /\ TaskOK(tasks[r]) /\ Similar(tasks[r], tasks[r])
           /\ Similar(tasks[r], Noted(r, StepNow(r)))
           /\ \A h \in BOOLEAN : Similar(tasks[r], Hurt(tasks[r], h))
<1> DEFINE t == tasks[r]
           s == StepNow(r)
<1>1. TaskOK(t) /\ Similar(t, t)
  BY DEF TypeInv, Similar
<1>2. ASSUME NEW h \in BOOLEAN PROVE Similar(t, Hurt(t, h))
  BY <1>1 DEF Similar, Hurt, TaskOK
<1>3. Similar(t, Noted(r, s))
  <2>1. CASE s.do = "read"
    <3>1. s.at \in Places
      BY <2>1, Position DEF StepOK
    <3>2. At(r, s.at) \in Contents
      BY <3>1 DEF At, TypeInv, Places
    <3> DEFINE f == [p \in DOMAIN t.read \cup {s.at} |-> IF p = s.at THEN At(r, p) ELSE t.read[p]]
    <3>3. Noted(r, s) = [t EXCEPT !.read = f]
      BY <2>1, <1>1 DEF Noted, TaskOK
    <3>4. \A p \in DOMAIN f : f[p] \in Contents
      BY <3>2, <1>1 DEF TaskOK
    <3> HIDE DEF f
    <3>5. Similar(t, [t EXCEPT !.read = f])
      BY <3>4, <1>1 DEF Similar, TaskOK
    <3> QED
      BY <3>3, <3>5
  <2>2. CASE s.do = "look"
    <3> DEFINE H == {p \in Shared : Present(p)}
    <3>1. Noted(r, s) = [t EXCEPT !.had = H] /\ H \subseteq Shared
      BY <2>2 DEF Noted
    <3> HIDE DEF H
    <3>2. Similar(t, [t EXCEPT !.had = H])
      BY <3>1, <1>1 DEF Similar, TaskOK
    <3> QED
      BY <3>1, <3>2
  <2>3. CASE s.do \notin {"read", "look"}
    BY <2>3, <1>1 DEF Noted
  <2> QED
    BY <2>1, <2>2, <2>3
<1> QED
  BY <1>1, <1>2, <1>3

LEMMA AdvanceOnly ==
    ASSUME TypeInv, NEW r \in Slots, NEW t, Advance(r, t)
    PROVE  OnlyTask(r) /\ tasks'[r] = t
  BY DEF Advance, OnlyTask, TypeInv

LEMMA SkipIs ==
    ASSUME TypeInv, OrderInv, NEW r \in Slots, Skip(r)
    PROVE  /\ Running(r) /\ OnlyTask(r) /\ UNCHANGED <<area, layout, vol, own, server, faults>>
           /\ Skipped(r, StepNow(r)) \/ StepNow(r).do \in {"enough", "healthy"}
           /\ GoesOn(tasks[r], tasks'[r])
<1>1. /\ Running(r) /\ UNCHANGED <<area, layout, vol, own, server, faults>>
      /\ Skipped(r, StepNow(r)) \/ StepNow(r).do \in {"enough", "healthy"}
      /\ Advance(r, Onward(Code(r), tasks[r]))
  BY DEF Skip, StepNow
<1> QED
  BY <1>1, AdvanceOnly, Moving, SimilarTasks

LEMMA ReturnIs ==
    ASSUME TypeInv, OrderInv, NEW r \in Slots, Return(r)
    PROVE  /\ Running(r) /\ OnlyTask(r) /\ UNCHANGED <<area, layout, vol, own, server, faults>>
           /\ tasks[r].mode = "body" /\ Returns(tasks[r].op, tasks[r].at)
           /\ GoesTo(tasks[r], tasks'[r], ReturnFrom(Programs[tasks[r].op], tasks[r].at))
<1>1. /\ Running(r) /\ UNCHANGED <<area, layout, vol, own, server, faults>>
      /\ StepNow(r).do \in {"enough", "healthy"}
      /\ Advance(r, ToStep(Code(r), tasks[r], ReturnFrom(Code(r).body, tasks[r].at)))
  BY DEF Return, StepNow
<1>2. tasks[r].mode = "body"
  BY <1>1, Position, Sequential
<1>3. Returns(tasks[r].op, tasks[r].at)
  BY <1>1, <1>2, Position DEF Returns
<1>4. Code(r) = CodeOf(tasks[r]) /\ Code(r).body = Programs[tasks[r].op] /\ TaskOK(tasks[r])
  BY <1>1, SimilarTasks DEF Code, CodeOf
<1> QED
  BY <1>1, <1>2, <1>3, <1>4, AdvanceOnly, ToStepGoes

LEMMA SucceedIs ==
    ASSUME TypeInv, OrderInv, NEW r \in Slots, Succeed(r)
    PROVE  LET s == StepNow(r)
               w == Writes(r, s)
           IN  /\ Running(r) /\ OnlyTask(r) /\ UNCHANGED <<area, layout, faults>>
               /\ ~Skipped(r, s) /\ s.do \notin {"enough", "healthy"} /\ Works(r, s)
               /\ Store(r, w)
               /\ server' = [up |-> server.up \/ s.do = "restart", loaded |-> Loading(s, w)]
               /\ Similar(tasks[r], Noted(r, s)) /\ GoesOn(Noted(r, s), tasks'[r])
<1> DEFINE s == StepNow(r)
           w == Writes(r, s)
<1>1. /\ Running(r) /\ UNCHANGED <<area, layout, faults>>
      /\ ~Skipped(r, s) /\ s.do \notin {"enough", "healthy"} /\ Works(r, s)
      /\ Store(r, w)
      /\ server' = [up |-> server.up \/ s.do = "restart", loaded |-> Loading(s, w)]
      /\ Advance(r, Onward(Code(r), Noted(r, s)))
  BY DEF Succeed, StepNow
<1>2. Similar(tasks[r], Noted(r, s))
  BY <1>1, SimilarTasks
<1> HIDE DEF s, w
<1> QED
  BY <1>1, <1>2, AdvanceOnly, Moving DEF s, w

LEMMA RefuseIs ==
    ASSUME TypeInv, OrderInv, NEW r \in Slots, Refuse(r)
    PROVE  LET s == StepNow(r)
               t2 == Hurt(tasks[r], tasks[r].hurt \/ tasks[r].mode = "undo")
           IN  /\ Running(r) /\ OnlyTask(r) /\ UNCHANGED <<area, layout, vol, own, server>>
               /\ ~Skipped(r, s) /\ s.tries = 1 /\ s.do \notin {"look", "enough", "healthy"}
               /\ IF tasks[r].mode = "undo" /\ Works(r, s) THEN Fault ELSE UNCHANGED faults
               /\ Similar(tasks[r], t2) /\ GoesOut(t2, tasks'[r], s)
<1> DEFINE s == StepNow(r)
           h == tasks[r].hurt \/ tasks[r].mode = "undo"
<1>1. /\ Running(r) /\ UNCHANGED <<area, layout, vol, own, server>>
      /\ ~Skipped(r, s) /\ s.tries = 1 /\ s.do \notin {"look", "enough", "healthy"}
      /\ IF tasks[r].mode = "undo" /\ Works(r, s) THEN Fault ELSE UNCHANGED faults
      /\ Advance(r, Failed(Code(r), s, Hurt(tasks[r], h)))
  BY DEF Refuse, StepNow, Hurt
<1>2. Similar(tasks[r], Hurt(tasks[r], h))
  BY <1>1, SimilarTasks DEF TaskOK
<1> HIDE DEF s, h
<1> QED
  BY <1>1, <1>2, AdvanceOnly, Moving DEF s, h

LEMMA BreakIs ==
    ASSUME TypeInv, OrderInv, NEW r \in Slots, Break(r)
    PROVE  LET s == StepNow(r)
               t2 == Hurt(tasks[r], TRUE)
           IN  /\ Running(r) /\ OnlyTask(r) /\ UNCHANGED <<area, layout>> /\ Fault
               /\ ~Skipped(r, s) /\ s.tries = 1 /\ Works(r, s)
               /\ \E w \in (Half(r, s) \cup {Writes(r, s)}) \ {Nothing} :
                     /\ Store(r, w)
                     /\ server' = IF s.do = "save" THEN [server EXCEPT !.loaded = Loading(s, w)]
                                  ELSE server
               /\ Similar(tasks[r], t2) /\ GoesOut(t2, tasks'[r], s)
<1> DEFINE s == StepNow(r)
<1>1. /\ Running(r) /\ UNCHANGED <<area, layout>> /\ Fault
      /\ ~Skipped(r, s) /\ s.tries = 1 /\ Works(r, s)
      /\ \E w \in (Half(r, s) \cup {Writes(r, s)}) \ {Nothing} :
            /\ Store(r, w)
            /\ server' = IF s.do = "save" THEN [server EXCEPT !.loaded = Loading(s, w)] ELSE server
      /\ Advance(r, Failed(Code(r), s, Hurt(tasks[r], TRUE)))
  BY DEF Break, StepNow, Hurt
<1>2. Similar(tasks[r], Hurt(tasks[r], TRUE))
  BY <1>1, SimilarTasks
<1> HIDE DEF s
<1> QED
  BY <1>1, <1>2, AdvanceOnly, Moving DEF s

LEMMA AgainIs ==
    ASSUME TypeInv, OrderInv, NEW r \in Slots, Again(r)
    PROVE  LET s == StepNow(r)
               t == tasks[r]
           IN  /\ Running(r) /\ OnlyTask(r) /\ UNCHANGED <<area, layout, server>>
               /\ ~Skipped(r, s) /\ s.tries > 1 /\ t.mode = "body"
               /\ \/ /\ server.up /\ Store(r, One(s.at, Absent)) /\ UNCHANGED faults
                     /\ tasks'[r] = [t EXCEPT !.tries = @ + 1] \/ GoesDown(t, tasks'[r])
                  \/ /\ Fault /\ \E w \in {Nothing} \cup Half(r, s) : Store(r, w)
                     /\ Similar(t, Hurt(t, TRUE)) /\ GoesDown(Hurt(t, TRUE), tasks'[r])
<1> DEFINE s == StepNow(r)
           t == tasks[r]
<1>1. /\ Running(r) /\ UNCHANGED <<area, layout, server>>
      /\ ~Skipped(r, s) /\ s.tries > 1
      /\ \/ /\ server.up
            /\ Store(r, One(s.at, Absent))
            /\ Advance(r, IF t.tries < s.tries /\ ~t.aborted THEN [t EXCEPT !.tries = @ + 1]
                          ELSE Thrown(Code(r), t))
            /\ UNCHANGED faults
         \/ /\ \E w \in {Nothing} \cup Half(r, s) : Store(r, w)
            /\ Advance(r, Thrown(Code(r), Hurt(t, TRUE)))
            /\ Fault
  BY DEF Again, StepNow, Hurt
<1>2. Similar(t, t) /\ Similar(t, Hurt(t, TRUE))
  BY <1>1, SimilarTasks
<1>3. t.mode = "body"
  BY <1>1, Position, Sequential
<1> HIDE DEF s, t
<1>4. Running(r) /\ tasks[r] = t
  BY <1>1 DEF t
<1>5. GoesDown(t, Thrown(Code(r), t)) /\ GoesDown(Hurt(t, TRUE), Thrown(Code(r), Hurt(t, TRUE)))
  BY <1>2, <1>4, Moving
<1> QED
  BY <1>1, <1>2, <1>3, <1>5, AdvanceOnly DEF s, t

LEMMA RestartFailsIs ==
    ASSUME TypeInv, OrderInv, NEW r \in Slots, RestartFails(r)
    PROVE  LET s == StepNow(r)
               t2 == Hurt(tasks[r], TRUE)
           IN  /\ Running(r) /\ OnlyTask(r) /\ UNCHANGED <<area, layout, vol, own>>
               /\ s.do = "restart" /\ (IF tasks[r].aborted THEN UNCHANGED faults ELSE Fault)
               /\ \/ server' = [server EXCEPT !.up = FALSE]
                  \/ server' = [up |-> TRUE, loaded |-> Loading(s, Nothing)]
               /\ Similar(tasks[r], t2) /\ GoesOut(t2, tasks'[r], s)
<1> DEFINE s == StepNow(r)
<1>1. /\ Running(r) /\ UNCHANGED <<area, layout, vol, own>>
      /\ s.do = "restart" /\ (IF tasks[r].aborted THEN UNCHANGED faults ELSE Fault)
      /\ \/ server' = [server EXCEPT !.up = FALSE]
         \/ server' = [up |-> TRUE, loaded |-> Loading(s, Nothing)]
      /\ Advance(r, Failed(Code(r), s, Hurt(tasks[r], TRUE)))
  BY DEF RestartFails, StepNow, Hurt
<1>2. Similar(tasks[r], Hurt(tasks[r], TRUE))
  BY <1>1, SimilarTasks
<1> HIDE DEF s
<1> QED
  BY <1>1, <1>2, AdvanceOnly, Moving DEF s

-----------------------------------------------------------------------------
(* What a step stores *)

LEMMA StorePoints ==
    ASSUME TypeInv, NEW r \in Slots, NEW w, Store(r, w)
    PROVE  /\ DOMAIN vol' = Shared /\ DOMAIN own' = Slots
           /\ \A q \in Slots : DOMAIN own'[q] = Private
           /\ \A p \in Shared : vol'[p] = IF p \in DOMAIN w THEN w[p] ELSE vol[p]
           /\ \A p \in Private : own'[r][p] = IF p \in DOMAIN w THEN w[p] ELSE own[r][p]
           /\ \A q \in Slots \ {r} : own'[q] = own[q]
           /\ \A p \in Places : At(r, p)' = IF p \in DOMAIN w THEN w[p] ELSE At(r, p)
           /\ \A q \in Slots \ {r} : \A p \in Places :
                 At(q, p)' = IF p \in DOMAIN w \ Private THEN w[p] ELSE At(q, p)
<1>1. own \in [Slots -> [Private -> Contents]] /\ vol \in [Shared -> Contents]
  BY DEF TypeInv
<1>2. /\ own' = [own EXCEPT ![r] = [p \in Private |-> IF p \in DOMAIN w THEN w[p] ELSE @[p]]]
      /\ vol' = [p \in Shared |-> IF p \in DOMAIN w THEN w[p] ELSE vol[p]]
  BY DEF Store
<1>3. /\ DOMAIN vol' = Shared /\ DOMAIN own' = Slots
      /\ \A q \in Slots : DOMAIN own'[q] = Private
      /\ \A p \in Shared : vol'[p] = IF p \in DOMAIN w THEN w[p] ELSE vol[p]
      /\ \A p \in Private : own'[r][p] = IF p \in DOMAIN w THEN w[p] ELSE own[r][p]
      /\ \A q \in Slots \ {r} : own'[q] = own[q]
  BY <1>1, <1>2
<1> QED
  BY <1>3 DEF At, Places

LEMMA StoreNothing ==
    ASSUME TypeInv, NEW r \in Slots, UNCHANGED <<vol, own>> PROVE Store(r, Nothing)
<1>1. own \in [Slots -> [Private -> Contents]] /\ vol \in [Shared -> Contents]
  BY DEF TypeInv
<1>2. DOMAIN Nothing = {}
  BY DEF Nothing
<1>3. vol = [p \in Shared |-> IF p \in DOMAIN Nothing THEN Nothing[p] ELSE vol[p]]
  BY <1>1, <1>2
<1>4. own[r] = [p \in Private |-> IF p \in DOMAIN Nothing THEN Nothing[p] ELSE own[r][p]]
  BY <1>1, <1>2
<1>5. own = [own EXCEPT ![r] = own[r]]
  BY <1>1
<1> QED
  BY <1>3, <1>4, <1>5 DEF Store

\* What the step s of job r may leave in the places.
Outcome(r, s, w) ==
    \/ w = Nothing
    \/ Works(r, s) /\ w = Writes(r, s)
    \/ Works(r, s) /\ s.tries = 1 /\ w \in Half(r, s)
    \/ s.tries > 1 /\ w \in Half(r, s) \cup {One(s.at, Absent)}

LEMMA StepStores ==
    ASSUME TypeInv, OrderInv, NEW r \in Slots, StepOf(r)
    PROVE  /\ Running(r) /\ OnlyTask(r) /\ UNCHANGED <<area, layout>>
           /\ UNCHANGED faults \/ Fault
           /\ DOMAIN server' = {"up", "loaded"} /\ server'.up \in BOOLEAN
           /\ \E w : /\ Outcome(r, StepNow(r), w) /\ Store(r, w)
                     /\ \/ server'.loaded = server.loaded
                        \/ /\ server'.loaded = Loading(StepNow(r), w)
                           /\ StepNow(r).do = "save" => w = Writes(r, StepNow(r))
<1> DEFINE s == StepNow(r)
<1> USE DEF Outcome
<1>0. DOMAIN server = {"up", "loaded"} /\ server.up \in BOOLEAN
  BY DEF TypeInv
<1>1. CASE Skip(r)
  BY <1>0, <1>1, SkipIs, StoreNothing
<1>2. CASE Return(r)
  BY <1>0, <1>2, ReturnIs, StoreNothing
<1>3. CASE Succeed(r)
  <2> HIDE DEF s
  <2>1. server' = [up |-> server.up \/ s.do = "restart", loaded |-> Loading(s, Writes(r, s))]
    BY <1>3, SucceedIs DEF s
  <2>2. DOMAIN server' = {"up", "loaded"} /\ server'.up \in BOOLEAN /\ server'.loaded = Loading(s, Writes(r, s))
    BY <2>1, <1>0
  <2> QED
    BY <2>2, <1>3, SucceedIs DEF s
<1>4. CASE Refuse(r)
  BY <1>0, <1>4, RefuseIs, StoreNothing
<1>5. CASE Break(r)
  <2> HIDE DEF s
  <2>1. PICK w \in (Half(r, s) \cup {Writes(r, s)}) \ {Nothing} :
           /\ Store(r, w)
           /\ server' = IF s.do = "save" THEN [server EXCEPT !.loaded = Loading(s, w)] ELSE server
    BY <1>5, BreakIs DEF s
  <2>2. /\ DOMAIN server' = {"up", "loaded"} /\ server'.up \in BOOLEAN
        /\ \/ server'.loaded = server.loaded
           \/ server'.loaded = Loading(s, w) /\ s.do = "save"
    BY <2>1, <1>0
  <2>4. s.do = "save" => w = Writes(r, s)
    BY <2>1 DEF Half
  <2>3. Outcome(r, s, w)
    BY <2>1, <1>5, BreakIs DEF s
  <2> QED
    BY <2>1, <2>2, <2>3, <2>4, <1>5, BreakIs DEF s
<1>6. CASE Again(r)
  <2>1. \E w : Outcome(r, s, w) /\ Store(r, w)
    BY <1>6, AgainIs
  <2> QED
    BY <2>1, <1>0, <1>6, AgainIs
<1>7. CASE RestartFails(r)
  <2> HIDE DEF s
  <2>1. /\ DOMAIN server' = {"up", "loaded"} /\ server'.up \in BOOLEAN
        /\ server'.loaded = server.loaded \/ server'.loaded = Loading(s, Nothing)
    <3>1. CASE server' = [server EXCEPT !.up = FALSE]
      BY <3>1, <1>0
    <3>2. CASE server' = [up |-> TRUE, loaded |-> Loading(s, Nothing)]
      BY <3>2
    <3> QED
      BY <3>1, <3>2, <1>7, RestartFailsIs DEF s
  <2> QED
    BY <2>1, <1>7, RestartFailsIs, StoreNothing DEF s
<1> QED
  BY <1>1, <1>2, <1>3, <1>4, <1>5, <1>6, <1>7 DEF StepOf

LEMMA ContentsAre ==
    /\ Absent \in Contents /\ Broken \in Contents /\ Disabled \in Contents
    /\ \A r \in Slots : {r} \in Contents
    /\ \A c, d \in Contents : c \cup d \in Contents
  BY DEF Absent, Broken, Disabled, Contents

LEMMA WritesAre ==
    ASSUME TypeInv, NEW r \in Slots, Running(r), NEW s, StepOK(s)
    PROVE  /\ DOMAIN Writes(r, s) \subseteq Targets(s)
           /\ \A p \in DOMAIN Writes(r, s) : Writes(r, s)[p] \in Contents
<1> DEFINE kept == IF s.at \in DOMAIN tasks[r].read THEN tasks[r].read[s.at] ELSE Absent
           held == IF s.at \in Trees THEN At(r, s.at) ELSE Absent
<1>1. kept \in Contents
  BY ContentsAre DEF TypeInv, TaskOK
<1>2. \A p \in Places : At(r, p) \in Contents
  BY DEF At, TypeInv, Places
<1>3. held \in Contents
  BY <1>2, ContentsAre DEF Trees, Places, Shared
<1>4. \A p \in Loadable : server.loaded[p] \in Contents
  BY DEF TypeInv
<1>5. /\ Targets(s) \subseteq Places /\ (s.do \in {"copy", "move"} => At(r, s.from) \in Contents)
      /\ s.do = "save" => server.loaded[s.at] \in Contents
  BY <1>2, <1>4 DEF StepOK
<1>6. server.loaded["config"] \in Contents
  BY <1>4 DEF Loadable, Started
<1> HIDE DEF kept, held
<1>7. Writes(r, s) =
        CASE s.do = "copy" -> One(s.at, At(r, s.from))
          [] s.do = "move" -> Two(s.from, Absent, s.at, held \cup At(r, s.from))
          [] s.do = "edit" -> One(s.at, kept \cup {r})
          [] s.do = "back" -> One(s.at, kept)
          [] s.do \in {"put", "unpack", "live", "keep"} -> One(s.at, {r})
          [] s.do = "make" -> Two(s.at, {r}, s.from, {r})
          [] s.do = "save" -> One(s.at, server.loaded[s.at] \cup {r})
          [] s.do = "build" -> One(s.at, server.loaded["config"])
          [] s.do = "disable" -> One(s.at, Disabled)
          [] s.do \in {"drop", "unlive", "forget"} -> One(s.at, Absent)
          [] OTHER -> Nothing
  BY DEF Writes, kept, held
<1> QED
  BY <1>1, <1>3, <1>5, <1>6, <1>7, ContentsAre DEF Targets, Passive, One, Two, Nothing

LEMMA HalvesAre ==
    ASSUME TypeInv, NEW r \in Slots, NEW s, StepOK(s), NEW w \in Half(r, s)
    PROVE  /\ DOMAIN w \subseteq Targets(s)
           /\ \A p \in DOMAIN w : w[p] \in Contents
<1>1. \A p \in Places : At(r, p) \in Contents
  BY DEF At, TypeInv, Places
<1>2. s.do = "make" => At(r, s.from) \in Contents
  BY <1>1 DEF StepOK, Targets, Passive
<1> QED
  BY <1>2, ContentsAre DEF Half, Targets, Passive, One, Two

LEMMA OutcomesAre ==
    ASSUME TypeInv, NEW r \in Slots, Running(r), NEW s, StepOK(s), NEW w, Outcome(r, s, w)
    PROVE  /\ DOMAIN w \subseteq Targets(s) /\ Targets(s) \subseteq Places
           /\ \A p \in DOMAIN w : w[p] \in Contents
<1>1. CASE w = Nothing
  BY <1>1 DEF Nothing, StepOK
<1>2. CASE w = Writes(r, s)
  BY <1>2, WritesAre DEF StepOK
<1>3. CASE w \in Half(r, s)
  BY <1>3, HalvesAre DEF StepOK
<1>4. CASE s.tries > 1 /\ w = One(s.at, Absent)
  BY <1>4, ContentsAre DEF One, StepOK
<1> QED
  BY <1>1, <1>2, <1>3, <1>4 DEF Outcome

-----------------------------------------------------------------------------
(* What becomes of the task *)

LEMMA GoesWell ==
    ASSUME NEW t, TaskOK(t), t.op \in Ops, t.mode \in {"body", "undo"}, NEW u,
           \/ GoesOn(t, u)
           \/ GoesDown(t, u)
           \/ t.mode = "body" /\ Returns(t.op, t.at) /\ GoesTo(t, u, ReturnFrom(Programs[t.op], t.at))
    PROVE  SameTask(t, u) /\ TaskOK(u)
<1> DEFINE b == Programs[t.op]
           U == Undos[t.op][t.at]
<1>1. /\ Len(b) \in Nat \ {0} /\ DOMAIN b = 1 .. Len(b) /\ t.at \in DOMAIN b
      /\ Returns(t.op, t.at) => ReturnFrom(b, t.at) \in t.at + 1 .. Len(b) + 1
      /\ Len(U) \in Nat /\ DOMAIN U = 1 .. Len(U)
      /\ t.mode = "undo" => t.un \in DOMAIN U /\ Outer(U, t.un) \in t.un + 1 .. Len(U) + 1
  BY Sequential DEF TaskOK
<1> HIDE DEF b, U
<1>2. ASSUME NEW i \in 2 .. Len(b) + 1, GoesTo(t, u, i) PROVE SameTask(t, u) /\ TaskOK(u)
  <2>1. SameTask(t, u) /\ (IF i > Len(b) THEN u.mode = "done" ELSE u.mode = "body" /\ u.at = i)
    BY <1>2 DEF GoesTo, b
  <2>2. u.mode = "body" => u.at \in DOMAIN b
    BY <2>1, <1>1, <1>2
  <2> QED
    BY <2>1, <2>2 DEF SameTask, TaskOK, b
<1>3. ASSUME NEW k \in 1 .. Len(U) + 1, GoesBack(t, u, k) PROVE SameTask(t, u) /\ TaskOK(u)
  <2>1. SameTask(t, u) /\ (IF k > Len(U) THEN u.mode = "failed"
                           ELSE u.mode = "undo" /\ u.at = t.at /\ u.un = k)
    BY <1>3 DEF GoesBack, U
  <2>2. u.mode = "undo" => u.at = t.at /\ u.un \in DOMAIN U
    BY <2>1, <1>1, <1>3
  <2>3. u.mode \in {"undo", "failed"}
    BY <2>1
  <2> QED
    BY <2>1, <2>2, <2>3, <1>1 DEF SameTask, TaskOK, b, U
<1>4. CASE GoesOn(t, u)
  <2>1. CASE t.mode = "body"
    BY <2>1, <1>4, <1>1, <1>2 DEF GoesOn
  <2>2. CASE t.mode = "undo"
    BY <2>2, <1>4, <1>1, <1>3 DEF GoesOn
  <2> QED
    BY <2>1, <2>2
<1>5. CASE GoesDown(t, u)
  BY <1>5, <1>1, <1>3 DEF GoesDown, U
<1>6. CASE t.mode = "body" /\ Returns(t.op, t.at) /\ GoesTo(t, u, ReturnFrom(Programs[t.op], t.at))
  BY <1>6, <1>1, <1>2 DEF b
<1> QED
  BY <1>4, <1>5, <1>6

LEMMA StepTask ==
    ASSUME TypeInv, OrderInv, NEW r \in Slots, StepOf(r)
    PROVE  LET t == tasks[r]
               u == tasks'[r]
           IN  /\ TaskOK(u) /\ u.op = t.op /\ u.alone = t.alone /\ u.aborted = t.aborted
               /\ u.mode \in {"body", "undo", "done", "failed"}
               /\ u.mode \in {"body", "undo"} => u.base = t.base /\ u.live = t.live
               /\ \A p \in DOMAIN u.read :
                     \/ p \in DOMAIN t.read /\ u.read[p] = t.read[p]
                     \/ p \in Places /\ At(r, p) # Absent /\ u.read[p] = At(r, p)
<1> DEFINE t == tasks[r]
           u == tasks'[r]
           s == StepNow(r)
<1>0. Running(r) /\ TaskOK(t) /\ t.op \in Ops /\ t.mode \in {"body", "undo"} /\ StepOK(s)
  BY StepStores, SimilarTasks, Position
<1>1. ASSUME NEW t2, Similar(t, t2), GoesOn(t2, u) \/ GoesDown(t2, u) \/
              (t2.mode = "body" /\ Returns(t2.op, t2.at) /\ GoesTo(t2, u, ReturnFrom(Programs[t2.op], t2.at))),
             \A p \in DOMAIN t2.read :
                \/ p \in DOMAIN t.read /\ t2.read[p] = t.read[p]
                \/ p \in Places /\ At(r, p) # Absent /\ t2.read[p] = At(r, p)
      PROVE  /\ TaskOK(u) /\ u.op = t.op /\ u.alone = t.alone /\ u.aborted = t.aborted
             /\ u.mode \in {"body", "undo", "done", "failed"}
             /\ u.mode \in {"body", "undo"} => u.base = t.base /\ u.live = t.live
             /\ \A p \in DOMAIN u.read :
                   \/ p \in DOMAIN t.read /\ u.read[p] = t.read[p]
                   \/ p \in Places /\ At(r, p) # Absent /\ u.read[p] = At(r, p)
  <2> HIDE DEF t, u
  <2>1. SameTask(t2, u) /\ TaskOK(u)
    BY <1>0, <1>1, GoesWell DEF Similar
  <2>2. u.op = t.op /\ u.alone = t.alone /\ u.aborted = t.aborted
    BY <2>1, <1>1 DEF SameTask, Similar
  <2>3. /\ u.mode \in {"body", "undo", "done", "failed"}
        /\ u.mode \in {"body", "undo"} => u.base = t.base /\ u.live = t.live /\ u.read = t2.read
        /\ u.mode \in {"done", "failed"} => u.read = <<>>
    BY <2>1, <1>1 DEF SameTask, Similar
  <2>4. DOMAIN (<<>>) = {}
    OBVIOUS
  <2> QED
    BY <2>1, <2>2, <2>3, <2>4, <1>1
<1>2. ASSUME NEW h \in BOOLEAN
      PROVE  Similar(t, Hurt(t, h)) /\ Hurt(t, h).read = t.read
  BY <1>0, SimilarTasks DEF Hurt, TaskOK
<1>3. \A p \in DOMAIN Noted(r, s).read :
         Works(r, s) => \/ p \in DOMAIN t.read /\ Noted(r, s).read[p] = t.read[p]
                        \/ p \in Places /\ At(r, p) # Absent /\ Noted(r, s).read[p] = At(r, p)
  <2>1. CASE s.do = "read"
    <3> DEFINE f == [p \in DOMAIN t.read \cup {s.at} |-> IF p = s.at THEN At(r, p) ELSE t.read[p]]
    <3>1. Noted(r, s).read = f
      BY <2>1, <1>0 DEF Noted, TaskOK
    <3>2. s.at \in Places /\ s.at = s.from
      BY <2>1, <1>0 DEF StepOK
    <3>3. Works(r, s) => At(r, s.at) # Absent
      BY <2>1, <3>2 DEF Works
    <3> QED
      BY <3>1, <3>2, <3>3
  <2>2. CASE s.do # "read"
    BY <2>2, <1>0 DEF Noted, TaskOK
  <2> QED
    BY <2>1, <2>2
<1>4. Similar(t, t)
  BY <1>0, SimilarTasks
<1> HIDE DEF t, u, s
<1>5. CASE Skip(r)
  BY <1>5, <1>1, <1>4, SkipIs DEF t, u
<1>6. CASE Return(r)
  BY <1>6, <1>1, <1>4, ReturnIs DEF t, u
<1>7. CASE Succeed(r)
  BY <1>7, <1>1, <1>3, SucceedIs DEF t, u, s
<1>8. CASE Refuse(r)
  <2> DEFINE h == t.hurt \/ t.mode = "undo"
  <2>1. h \in BOOLEAN
    BY <1>0 DEF TaskOK
  <2>2. Similar(t, Hurt(t, h)) /\ (GoesOn(Hurt(t, h), u) \/ GoesDown(Hurt(t, h), u))
    BY <1>8, RefuseIs DEF t, u, s, GoesOut
  <2> QED
    BY <2>1, <2>2, <1>1, <1>2 DEF t, u
<1>9. CASE Break(r)
  <2>1. Similar(t, Hurt(t, TRUE)) /\ (GoesOn(Hurt(t, TRUE), u) \/ GoesDown(Hurt(t, TRUE), u))
    BY <1>9, BreakIs DEF t, u, s, GoesOut
  <2> QED
    BY <2>1, <1>1, <1>2 DEF t, u
<1>10. CASE Again(r)
  <2>1. CASE u = [t EXCEPT !.tries = @ + 1]
    BY <2>1, <1>0 DEF TaskOK, t, u
  <2>2. CASE GoesDown(t, u)
    BY <2>2, <1>1, <1>4 DEF t, u
  <2>3. CASE Similar(t, Hurt(t, TRUE)) /\ GoesDown(Hurt(t, TRUE), u)
    BY <2>3, <1>1, <1>2 DEF t, u
  <2> QED
    BY <2>1, <2>2, <2>3, <1>10, AgainIs DEF t, u
<1>11. CASE RestartFails(r)
  <2>1. Similar(t, Hurt(t, TRUE)) /\ (GoesOn(Hurt(t, TRUE), u) \/ GoesDown(Hurt(t, TRUE), u))
    BY <1>11, RestartFailsIs DEF t, u, s, GoesOut
  <2> QED
    BY <2>1, <1>1, <1>2 DEF t, u
<1>12. /\ TaskOK(u) /\ u.op = t.op /\ u.alone = t.alone /\ u.aborted = t.aborted
       /\ u.mode \in {"body", "undo", "done", "failed"}
       /\ u.mode \in {"body", "undo"} => u.base = t.base /\ u.live = t.live
       /\ \A p \in DOMAIN u.read :
             \/ p \in DOMAIN t.read /\ u.read[p] = t.read[p]
             \/ p \in Places /\ At(r, p) # Absent /\ u.read[p] = At(r, p)
  BY <1>5, <1>6, <1>7, <1>8, <1>9, <1>10, <1>11 DEF StepOf, t, u
<1> QED
  BY <1>12 DEF t, u

-----------------------------------------------------------------------------
(* The type invariant *)

LEMMA LoadingAre ==
    ASSUME TypeInv, NEW r \in Slots, Running(r), NEW s, StepOK(s), NEW w,
           s.do = "save" => w = Writes(r, s)
    PROVE  /\ Loading(s, w) \in [Loadable -> Contents]
           /\ \A p \in Loadable :
                 Loading(s, w)[p] = IF s.do = "restart" \/ (s.do = "sync" /\ p \in Synced) THEN vol[p]
                                    ELSE IF s.do = "save" /\ p = s.at THEN w[p]
                                    ELSE server.loaded[p]
<1>1. vol \in [Shared -> Contents] /\ server.loaded \in [Loadable -> Contents]
  BY DEF TypeInv
<1>2. Loadable \subseteq Shared
  BY DEF Loadable, Shared
<1>3. CASE s.do = "save"
  <2>1. w[s.at] \in Contents
    <3>1. Writes(r, s) = One(s.at, server.loaded[s.at] \cup {r})
      BY <1>3 DEF Writes
    <3> QED
      BY <3>1, <1>3, WritesAre DEF One
  <2>2. s.at \in Loadable
    BY <1>3 DEF StepOK
  <2>3. Loading(s, w) = [server.loaded EXCEPT ![s.at] = w[s.at]]
    BY <1>3 DEF Loading
  <2> QED
    BY <2>1, <2>2, <2>3, <1>1, <1>3
<1>4. CASE s.do = "sync"
  BY <1>1, <1>2, <1>4 DEF Loading, Loadable
<1>5. CASE s.do = "restart"
  BY <1>1, <1>2, <1>5 DEF Loading, Loadable
<1>6. CASE s.do \notin {"save", "sync", "restart"}
  BY <1>1, <1>6 DEF Loading
<1> QED
  BY <1>3, <1>4, <1>5, <1>6

LEMMA TypeStep ==
    ASSUME TypeInv, OrderInv, NEW r \in Slots, StepOf(r) PROVE TypeInv'
<1>1. PICK w : /\ Outcome(r, StepNow(r), w) /\ Store(r, w)
               /\ \/ server'.loaded = server.loaded
                  \/ /\ server'.loaded = Loading(StepNow(r), w)
                     /\ StepNow(r).do = "save" => w = Writes(r, StepNow(r))
  BY StepStores
<1>2. /\ Running(r) /\ OnlyTask(r) /\ UNCHANGED <<area, layout>> /\ (UNCHANGED faults \/ Fault)
      /\ DOMAIN server' = {"up", "loaded"} /\ server'.up \in BOOLEAN
  BY StepStores
<1>3. StepOK(StepNow(r))
  BY <1>2, Position
<1>4. \A p \in DOMAIN w : w[p] \in Contents
  BY <1>1, <1>2, <1>3, OutcomesAre
<1>5. vol' \in [Shared -> Contents]
  BY <1>1, <1>4 DEF Store, TypeInv
<1>6. own' \in [Slots -> [Private -> Contents]]
  <2>1. own \in [Slots -> [Private -> Contents]]
    BY DEF TypeInv
  <2>2. [p \in Private |-> IF p \in DOMAIN w THEN w[p] ELSE own[r][p]] \in [Private -> Contents]
    BY <2>1, <1>4
  <2> QED
    BY <2>1, <2>2, <1>1 DEF Store
<1>7. server'.loaded \in [Loadable -> Contents]
  BY <1>1, <1>2, <1>3, LoadingAre DEF TypeInv
<1>8. DOMAIN tasks' = Slots /\ \A q \in Slots : TaskOK(tasks'[q])
  BY <1>2, StepTask DEF OnlyTask, TypeInv
<1>9. area' \in Areas /\ layout' \subseteq Shared /\ faults' \in 0 .. MaxFaults
  BY <1>2, FaultsAssumption DEF TypeInv, Fault
<1> QED
  BY <1>2, <1>5, <1>6, <1>7, <1>8, <1>9 DEF TypeInv, TaskOK

LEMMA OrderStep ==
    ASSUME TypeInv, OrderInv, NEW r \in Slots, StepOf(r) PROVE OrderInv'
<1>1. Running(r) /\ OnlyTask(r) /\ area' = area
  BY StepStores
<1>2. /\ tasks'[r].op = tasks[r].op /\ tasks'[r].alone = tasks[r].alone
      /\ tasks'[r].mode \in {"body", "undo", "done", "failed"}
  BY StepTask
<1>3. \A q \in Slots : /\ tasks'[q].op = tasks[q].op /\ tasks'[q].alone = tasks[q].alone
                       /\ Begun(q)' = Begun(q) /\ (Running(q)' => Running(q))
  BY <1>1, <1>2 DEF OnlyTask, Begun, Running
<1>4. ASSUME NEW q \in Slots
      PROVE  IF Begun(q)' THEN tasks'[q].op \in Operations[area'][q] ELSE tasks'[q] = NoTask
  <2>1. CASE q = r
    BY <2>1, <1>1, <1>2 DEF OrderInv, Begun, Running
  <2>2. CASE q # r
    BY <2>2, <1>1, <1>3 DEF OrderInv, OnlyTask
  <2> QED
    BY <2>1, <2>2
<1>5. \A n, q \in Slots : q < n =>
         /\ Begun(n)' => Begun(q)'
         /\ tasks'[n].alone => ~Running(q)'
         /\ Running(q)' /\ tasks'[q].alone => ~Begun(n)'
  BY <1>3 DEF OrderInv
<1> QED
  BY <1>4, <1>5 DEF OrderInv

-----------------------------------------------------------------------------
(* The entry that a step leads to is in the table of the place where the task goes *)

Lands(y, v, u) ==
    /\ u.mode = "body" => y \in Bodies[u.op][v][u.at]
    /\ u.mode = "undo" => y \in Undoings[u.op][v][u.at][u.un]
    /\ u.mode = "done" => y \in DoneOf(u.op, v)
    /\ u.mode = "failed" => y \in FailedOf(u.op, v)

StepAt(t) == IF t.mode = "body" THEN Programs[t.op][t.at] ELSE Undos[t.op][t.at][t.un]

InTable(t, v, x) ==
    /\ t.op \in Ops /\ v \in Views(t.op) /\ t.mode \in {"body", "undo"} /\ TaskOK(t)
    /\ x \in Table(t, v)

LEMMA FailedIn ==
    ASSUME NEW op, NEW v, NEW i \in DOMAIN Programs[op],
           NEW y \in Undoings[op][v][i][Len(Undos[op][i]) + 1]
    PROVE  y \in FailedOf(op, v)
<1>1. Undoings[op][v][i][Len(Undos[op][i]) + 1] \in
         {Undoings[op][v][j][Len(Undos[op][j]) + 1] : j \in DOMAIN Programs[op]}
  OBVIOUS
<1> QED
  BY <1>1 DEF FailedOf

LEMMA BodyGoes ==
    ASSUME NEW t, t.op \in Ops, t.at \in DOMAIN Programs[t.op], NEW v, NEW u,
           NEW i \in 1 .. Len(Programs[t.op]) + 1, GoesTo(t, u, i),
           NEW y \in Bodies[t.op][v][i]
    PROVE  Lands(y, v, u)
<1>1. SameTask(t, u) /\ u.op = t.op
  BY DEF GoesTo, SameTask
<1>2. CASE i > Len(Programs[t.op])
  <2>0. Len(Programs[t.op]) \in Nat
    BY Sequential
  <2>1. i = Len(Programs[t.op]) + 1 /\ u.mode = "done"
    BY <2>0, <1>2 DEF GoesTo
  <2> QED
    BY <2>1, <1>1 DEF Lands, DoneOf
<1>3. CASE ~(i > Len(Programs[t.op]))
  BY <1>3, <1>1 DEF Lands, GoesTo
<1> QED
  BY <1>2, <1>3

LEMMA UndoGoes ==
    ASSUME NEW t, t.op \in Ops, t.at \in DOMAIN Programs[t.op], NEW v, NEW u,
           NEW k \in 1 .. Len(Undos[t.op][t.at]) + 1, GoesBack(t, u, k),
           NEW y \in Undoings[t.op][v][t.at][k]
    PROVE  Lands(y, v, u)
<1>1. SameTask(t, u) /\ u.op = t.op
  BY DEF GoesBack, SameTask
<1>2. CASE k > Len(Undos[t.op][t.at])
  <2>0. Len(Undos[t.op][t.at]) \in Nat
    BY Sequential
  <2>1. k = Len(Undos[t.op][t.at]) + 1 /\ u.mode = "failed"
    BY <2>0, <1>2 DEF GoesBack
  <2> QED
    BY <2>1, <1>1, FailedIn DEF Lands
<1>3. CASE ~(k > Len(Undos[t.op][t.at]))
  BY <1>3, <1>1 DEF Lands, GoesBack
<1> QED
  BY <1>2, <1>3

LEMMA LandOn ==
    ASSUME NEW t, NEW v, NEW x, InTable(t, v, x), NEW t2, Similar(t, t2), NEW u, GoesOn(t2, u),
           NEW y \in Passed(x, StepAt(t), t.mode = "undo", Seen(t.op))
    PROVE  Lands(y, v, u)
<1>1. t2.op = t.op /\ t2.at = t.at /\ t2.un = t.un /\ t2.mode = t.mode /\ t.op \in Ops /\ v \in Views(t.op)
  BY DEF Similar, InTable
<1>2. /\ t.at \in DOMAIN Programs[t.op] /\ (t.mode = "undo" => t.un \in DOMAIN Undos[t.op][t.at])
      /\ t.mode \in {"body", "undo"}
  BY DEF InTable, TaskOK
<1>3. CASE t.mode = "body"
  <2>1. GoesTo(t2, u, t.at + 1) /\ x \in Bodies[t.op][v][t.at] /\ StepAt(t) = Programs[t.op][t.at]
    BY <1>1, <1>3 DEF GoesOn, InTable, Table, StepAt
  <2>2. y \in Bodies[t.op][v][t.at + 1]
    BY <2>1, <1>1, <1>2, <1>3, TablesAreClosed
  <2>3. t.at + 1 \in 1 .. Len(Programs[t.op]) + 1
    BY <1>1, <1>2, Sequential
  <2> QED
    BY <2>1, <2>2, <2>3, <1>1, <1>2, BodyGoes
<1>4. CASE t.mode = "undo"
  <2>1. /\ GoesBack(t2, u, t.un + 1) /\ x \in Undoings[t.op][v][t.at][t.un]
        /\ StepAt(t) = Undos[t.op][t.at][t.un]
    BY <1>1, <1>4 DEF GoesOn, InTable, Table, StepAt
  <2>2. y \in Undoings[t.op][v][t.at][t.un + 1]
    BY <2>1, <1>1, <1>2, <1>4, TablesAreClosed
  <2>3. t.un + 1 \in 1 .. Len(Undos[t.op][t.at]) + 1
    BY <1>1, <1>2, <1>4, Sequential
  <2> QED
    BY <2>1, <2>2, <2>3, <1>1, <1>2, UndoGoes
<1> QED
  BY <1>2, <1>3, <1>4

LEMMA LandDown ==
    ASSUME NEW t, NEW v, NEW x, InTable(t, v, x), NEW t2, Similar(t, t2), NEW u, GoesDown(t2, u),
           NEW y \in Threw(x, StepAt(t), t.mode = "undo")
    PROVE  Lands(y, v, u)
<1>1. t2.op = t.op /\ t2.at = t.at /\ t2.un = t.un /\ t2.mode = t.mode /\ t.op \in Ops /\ v \in Views(t.op)
  BY DEF Similar, InTable
<1>2. /\ t.at \in DOMAIN Programs[t.op] /\ (t.mode = "undo" => t.un \in DOMAIN Undos[t.op][t.at])
      /\ t.mode \in {"body", "undo"}
  BY DEF InTable, TaskOK
<1>3. CASE t.mode = "body"
  <2>1. GoesBack(t2, u, 1) /\ x \in Bodies[t.op][v][t.at] /\ StepAt(t) = Programs[t.op][t.at]
    BY <1>1, <1>3 DEF GoesDown, InTable, Table, StepAt
  <2>2. y \in Undoings[t.op][v][t.at][1]
    BY <2>1, <1>1, <1>2, <1>3, TablesAreClosed
  <2>3. 1 \in 1 .. Len(Undos[t.op][t.at]) + 1
    BY <1>1, <1>2, Sequential
  <2> QED
    BY <2>1, <2>2, <2>3, <1>1, <1>2, UndoGoes
<1>4. CASE t.mode = "undo"
  <2> DEFINE k == Outer(Undos[t.op][t.at], t.un)
  <2>1. /\ GoesBack(t2, u, k) /\ x \in Undoings[t.op][v][t.at][t.un]
        /\ StepAt(t) = Undos[t.op][t.at][t.un]
    BY <1>1, <1>4 DEF GoesDown, InTable, Table, StepAt
  <2>2. y \in Undoings[t.op][v][t.at][k]
    BY <2>1, <1>1, <1>2, <1>4, TablesAreClosed
  <2>3. k \in 1 .. Len(Undos[t.op][t.at]) + 1
    BY <1>1, <1>2, <1>4, Sequential
  <2> HIDE DEF k
  <2> QED
    BY <2>1, <2>2, <2>3, <1>1, <1>2, UndoGoes
<1> QED
  BY <1>2, <1>3, <1>4

LEMMA LandOut ==
    ASSUME NEW t, NEW v, NEW x, InTable(t, v, x), NEW t2, Similar(t, t2), NEW u,
           GoesOut(t2, u, StepAt(t)), NEW y \in Failing(x, StepAt(t), t.mode = "undo")
    PROVE  Lands(y, v, u)
<1>1. CASE StepAt(t).quiet
  <2>1. y \in Passed(x, StepAt(t), t.mode = "undo", Seen(t.op))
    BY <1>1 DEF Passed
  <2> QED
    BY <2>1, <1>1, LandOn DEF GoesOut
<1>2. CASE ~StepAt(t).quiet
  <2>1. y \in Threw(x, StepAt(t), t.mode = "undo")
    BY <1>2 DEF Threw
  <2> QED
    BY <2>1, <1>2, LandDown DEF GoesOut
<1> QED
  BY <1>1, <1>2

LEMMA LandReturn ==
    ASSUME NEW t, NEW v, NEW x, InTable(t, v, x), t.mode = "body", Returns(t.op, t.at), NEW u,
           GoesTo(t, u, ReturnFrom(Programs[t.op], t.at))
    PROVE  Lands(x, v, u)
<1> DEFINE i == ReturnFrom(Programs[t.op], t.at)
<1>1. t.op \in Ops /\ v \in Views(t.op) /\ t.at \in DOMAIN Programs[t.op] /\ x \in Bodies[t.op][v][t.at]
  BY DEF InTable, TaskOK, Table
<1>2. x \in Bodies[t.op][v][i]
  BY <1>1, TablesAreClosed
<1>3. i \in 1 .. Len(Programs[t.op]) + 1
  BY <1>1, Sequential
<1> HIDE DEF i
<1>4. GoesTo(t, u, i)
  BY DEF i
<1> QED
  BY <1>1, <1>2, <1>3, <1>4, BodyGoes

LEMMA LandStay ==
    ASSUME NEW t, NEW v, NEW x, InTable(t, v, x), t.mode = "body",
           NEW y \in Emptied(x, StepAt(t))
    PROVE  Lands(y, v, [t EXCEPT !.tries = @ + 1])
<1> DEFINE u == [t EXCEPT !.tries = @ + 1]
<1>1. /\ t.op \in Ops /\ v \in Views(t.op) /\ t.at \in DOMAIN Programs[t.op]
      /\ x \in Bodies[t.op][v][t.at] /\ StepAt(t) = Programs[t.op][t.at]
  BY DEF InTable, TaskOK, Table, StepAt
<1>2. y \in Bodies[t.op][v][t.at]
  BY <1>1, TablesAreClosed
<1>3. u.mode = "body" /\ u.op = t.op /\ u.at = t.at
  BY DEF InTable, TaskOK
<1> HIDE DEF u
<1>4. Lands(y, v, u)
  BY <1>2, <1>3 DEF Lands
<1> QED
  BY <1>4 DEF u

LEMMA TableIn ==
    ASSUME NEW t, NEW v, NEW x, InTable(t, v, x) PROVE x \in Entries(t.op, v)
<1>1. CASE t.mode = "body"
  <2>1. x \in Bodies[t.op][v][t.at] /\ t.at \in DOMAIN Programs[t.op]
    BY <1>1 DEF InTable, Table, TaskOK
  <2>2. Bodies[t.op][v][t.at] \in {Bodies[t.op][v][i] : i \in DOMAIN Programs[t.op]}
    BY <2>1
  <2> QED
    BY <2>1, <2>2 DEF Entries, BodyOf
<1>2. CASE t.mode = "undo"
  <2>1. /\ x \in Undoings[t.op][v][t.at][t.un] /\ t.at \in DOMAIN Programs[t.op]
        /\ t.un \in DOMAIN Undos[t.op][t.at]
    BY <1>2 DEF InTable, Table, TaskOK
  <2>2. x \in UNION {Undoings[t.op][v][t.at][k] : k \in DOMAIN Undos[t.op][t.at]}
    BY <2>1
  <2>3. UNION {Undoings[t.op][v][t.at][k] : k \in DOMAIN Undos[t.op][t.at]} \in
           {UNION {Undoings[t.op][v][i][k] : k \in DOMAIN Undos[t.op][i]} : i \in DOMAIN Programs[t.op]}
    BY <2>1
  <2> QED
    BY <2>2, <2>3 DEF Entries, UndoingOf
<1> QED
  BY <1>1, <1>2 DEF InTable

-----------------------------------------------------------------------------
(* Contents by name: what a step writes is what the entry says it writes *)

Viewed(op, v, x) ==
    /\ DOMAIN x.at = Domain(op, v) /\ DOMAIN x.read = Domain(op, v) /\ Domain(op, v) \subseteq Places
    /\ DOMAIN x.loaded = IF v = "alone" THEN Domain(op, v) \cap Loadable ELSE {}
    /\ \A s \in StepsOf(op) : Targets(s) \cap DOMAIN x.at # {} =>
          /\ s.do \in {"copy", "move", "make"} => {s.at, s.from} \subseteq DOMAIN x.at
          /\ s.do = "save" => s.at \in DOMAIN x.loaded
          /\ s.do = "build" => "config" \in DOMAIN x.loaded

LEMMA ViewFacts ==
    ASSUME NEW op \in Ops, NEW v \in Views(op), NEW x \in Entries(op, v) PROVE Viewed(op, v, x)
<1> DEFINE D == Domain(op, v)
           L == IF v = "alone" THEN D \cap Loadable ELSE {}
<1>1. /\ D \subseteq Places
      /\ DOMAIN x.at = D /\ DOMAIN x.read = D /\ DOMAIN x.loaded = L
  BY ViewsAreClosed
<1>2. \A s \in StepsOf(op) : Targets(s) \cap D # {} =>
         /\ s.do \in {"copy", "move", "make"} => {s.at, s.from} \subseteq D
         /\ s.do = "save" => s.at \in L
         /\ s.do = "build" => "config" \in L
  BY ViewsAreClosed
<1> HIDE DEF D
<1> QED
  BY <1>1, <1>2 DEF D, Viewed

LEMMA ViewSteps ==
    ASSUME NEW op \in Ops, NEW v \in Views(op), NEW x \in Entries(op, v), NEW s \in StepsOf(op),
           Targets(s) \cap DOMAIN x.at # {}
    PROVE  /\ s.do \in {"copy", "move", "make"} => {s.at, s.from} \subseteq DOMAIN x.at
           /\ s.do = "save" => s.at \in DOMAIN x.loaded
           /\ s.do = "build" => "config" \in DOMAIN x.loaded
<1>1. Viewed(op, v, x)
  BY ViewFacts
<1> QED
  BY <1>1 DEF Viewed

\* What w writes in the places of x is what n writes by name.
Agrees(x, r, base, live, w, n) ==
    \A p \in DOMAIN x.at :
       /\ p \in DOMAIN w <=> p \in DOMAIN n
       /\ p \in DOMAIN n => w[p] = Value(r, base, live, n[p])

\* The entry x of view v is true of job r, which is at step s.
Told(x, r, v, base, live) ==
    /\ InTable(tasks[r], v, x) /\ Valid(r, v) /\ Shows(x, r, v, base, live) /\ Recalls(x, r, base, live)

\* What is known of an entry that is told of a job.
Reads(x, r, v, base, live) ==
    /\ Running(r) /\ tasks[r].op \in Ops /\ v \in Views(tasks[r].op)
    /\ x \in Entries(tasks[r].op, v) /\ StepNow(r) \in StepsOf(tasks[r].op) /\ StepOK(StepNow(r))
    /\ StepNow(r) = StepAt(tasks[r]) /\ DOMAIN x.at \subseteq Places
    /\ \A p \in DOMAIN x.loaded : p \in DOMAIN x.at /\ p \in Loadable
    /\ DOMAIN x.read = DOMAIN x.at
    /\ \A p \in DOMAIN x.at : At(r, p) = Value(r, base, live, x.at[p])
    /\ \A p \in DOMAIN x.loaded : server.loaded[p] = Value(r, base, live, x.loaded[p])
    /\ \A p \in DOMAIN x.at : Known(tasks[r], p) = Value(r, base, live, x.read[p])

LEMMA ToldReads ==
    ASSUME TypeInv, OrderInv, NEW r \in Slots, NEW v, NEW x, NEW base, NEW live,
           Told(x, r, v, base, live)
    PROVE  Reads(x, r, v, base, live)
<1>1. Running(r)
  BY DEF Told, InTable, Running
<1>2. /\ tasks[r].op \in Ops /\ v \in Views(tasks[r].op)
      /\ x \in Entries(tasks[r].op, v) /\ StepNow(r) \in StepsOf(tasks[r].op) /\ StepOK(StepNow(r))
  BY <1>1, Position, TableIn DEF Told, InTable
<1>3. StepNow(r) = StepAt(tasks[r])
  BY <1>1, Position DEF StepAt
<1>4. Viewed(tasks[r].op, v, x)
  BY <1>2, ViewFacts
<1>5. /\ DOMAIN x.at \subseteq Places
      /\ \A p \in DOMAIN x.loaded : p \in DOMAIN x.at /\ p \in Loadable
      /\ DOMAIN x.read = DOMAIN x.at
  BY <1>4 DEF Viewed
<1> QED
  BY <1>1, <1>2, <1>3, <1>5 DEF Told, Shows, Recalls, Reads

LEMMA NothingAgrees ==
    ASSUME NEW x, NEW r, NEW base, NEW live PROVE Agrees(x, r, base, live, Nothing, Nothing)
  BY DEF Agrees, Nothing

LEMMA OneAgrees ==
    ASSUME NEW x, NEW r, NEW base, NEW live, NEW p, NEW c, NEW d, c = Value(r, base, live, d)
    PROVE  Agrees(x, r, base, live, One(p, c), One(p, d))
  BY DEF Agrees, One

LEMMA TwoAgrees ==
    ASSUME NEW x, NEW r, NEW base, NEW live, NEW p, NEW c, NEW d, c = Value(r, base, live, d),
           NEW q, NEW e, NEW f, e = Value(r, base, live, f)
    PROVE  Agrees(x, r, base, live, Two(p, c, q, e), Two(p, d, q, f))
  BY DEF Agrees, Two

LEMMA Values ==
    ASSUME NEW r, NEW base, NEW live
    PROVE  /\ Value(r, base, live, {}) = Absent
           /\ Value(r, base, live, {Mine}) = {r}
           /\ Value(r, base, live, {HalfDone}) = Broken
           /\ Value(r, base, live, {Off}) = Disabled
           /\ \A c, d : Value(r, base, live, c \cup d) = Value(r, base, live, c) \cup Value(r, base, live, d)
<1>1. \A c, d : Value(r, base, live, c \cup d) = Value(r, base, live, c) \cup Value(r, base, live, d)
  BY ValueOfBoth
<1>2. \A n : Value(r, base, live, {n}) = Meaning(r, base, live, n)
  BY ValueOfOne
<1>3. Value(r, base, live, {}) = Absent
  BY ValueOfNothing DEF Absent
<1> QED
  BY <1>1, <1>2, <1>3, Meanings

LEMMA WritesAgree ==
    ASSUME TypeInv, OrderInv, NEW r \in Slots, NEW v, NEW x, NEW base, NEW live,
           Told(x, r, v, base, live)
    PROVE  Agrees(x, r, base, live, Writes(r, StepNow(r)), NamedWrites(x, StepNow(r)))
<1> DEFINE s == StepNow(r)
           D == DOMAIN x.at
           Val(c) == Value(r, base, live, c)
           t == tasks[r]
<1>0. Reads(x, r, v, base, live)
  BY ToldReads
<1>1. Running(r) /\ t.op \in Ops /\ s \in StepsOf(t.op) /\ StepOK(s) /\ v \in Views(t.op) /\ x \in Entries(t.op, v)
  BY <1>0 DEF Reads
<1>2. /\ D = DOMAIN x.read /\ (\A p \in DOMAIN x.loaded : p \in D)
      /\ Targets(s) \cap D # {} =>
            /\ s.do \in {"copy", "move", "make"} => {s.at, s.from} \subseteq D
            /\ s.do = "save" => s.at \in DOMAIN x.loaded
            /\ s.do = "build" => "config" \in DOMAIN x.loaded
  BY <1>0, <1>1, ViewSteps DEF Reads
<1>3. /\ \A p \in D : At(r, p) = Val(x.at[p])
      /\ \A p \in DOMAIN x.loaded : server.loaded[p] = Val(x.loaded[p])
      /\ \A p \in D : Known(t, p) = Val(x.read[p])
  BY <1>0 DEF Reads
<1>4. CASE ~Here(x, s)
  <2>1. DOMAIN Writes(r, s) \cap D = {}
    BY <1>4, <1>1, WritesAre DEF Here
  <2>2. NamedWrites(x, s) = Nothing
    BY <1>4 DEF NamedWrites
  <2> QED
    BY <2>1, <2>2 DEF Agrees, Nothing
<1>5. CASE Here(x, s)
  <2> DEFINE kept == IF s.at \in DOMAIN t.read THEN t.read[s.at] ELSE Absent
             held == IF s.at \in Trees THEN At(r, s.at) ELSE Absent
             had == IF s.at \in Trees THEN x.at[s.at] ELSE {}
  <2>1. Writes(r, s) =
          CASE s.do = "copy" -> One(s.at, At(r, s.from))
            [] s.do = "move" -> Two(s.from, Absent, s.at, held \cup At(r, s.from))
            [] s.do = "edit" -> One(s.at, kept \cup {r})
            [] s.do = "back" -> One(s.at, kept)
            [] s.do \in {"put", "unpack", "live", "keep"} -> One(s.at, {r})
            [] s.do = "make" -> Two(s.at, {r}, s.from, {r})
            [] s.do = "save" -> One(s.at, server.loaded[s.at] \cup {r})
            [] s.do = "build" -> One(s.at, server.loaded["config"])
            [] s.do = "disable" -> One(s.at, Disabled)
            [] s.do \in {"drop", "unlive", "forget"} -> One(s.at, Absent)
            [] OTHER -> Nothing
    BY DEF Writes
  <2>2. NamedWrites(x, s) =
          CASE s.do = "copy" -> One(s.at, x.at[s.from])
            [] s.do = "move" -> Two(s.from, {}, s.at, had \cup x.at[s.from])
            [] s.do = "edit" -> One(s.at, x.read[s.at] \cup {Mine})
            [] s.do = "back" -> One(s.at, x.read[s.at])
            [] s.do \in {"put", "unpack", "live", "keep"} -> One(s.at, {Mine})
            [] s.do = "make" -> Two(s.at, {Mine}, s.from, {Mine})
            [] s.do = "save" -> One(s.at, x.loaded[s.at] \cup {Mine})
            [] s.do = "build" -> One(s.at, x.loaded["config"])
            [] s.do = "disable" -> One(s.at, {Off})
            [] s.do \in {"drop", "unlive", "forget"} -> One(s.at, {})
            [] OTHER -> Nothing
    BY <1>5 DEF NamedWrites
  <2>3. Targets(s) \cap D # {}
    BY <1>5 DEF Here
  <2>4. s.do \in {"edit", "back"} => s.at \in D /\ kept = Val(x.read[s.at])
    <3>1. s.do \in {"edit", "back"} => Targets(s) = {s.at}
      BY DEF Targets, Passive
    <3> QED
      BY <3>1, <2>3, <1>3 DEF Known
  <2>5. s.do \in {"copy", "move"} => At(r, s.from) = Val(x.at[s.from])
    BY <2>3, <1>2, <1>3
  <2>6. s.do = "move" => held = Val(had)
    BY <2>3, <1>2, <1>3, Values
  <2>7. /\ s.do = "save" => server.loaded[s.at] = Val(x.loaded[s.at])
        /\ s.do = "build" => server.loaded["config"] = Val(x.loaded["config"])
    BY <2>3, <1>2, <1>3
  <2>8. Val({}) = Absent /\ Val({Mine}) = {r} /\ Val({Off}) = Disabled
    BY Values
  <2>20. \A c, d : Val(c \cup d) = Val(c) \cup Val(d)
    BY Values
  <2> HIDE DEF kept, held, had, s, t, D
  <2>9. CASE s.do = "copy"
    BY <2>9, <2>1, <2>2, <2>5, OneAgrees DEF s
  <2>10. CASE s.do = "move"
    <3>1. held \cup At(r, s.from) = Val(had \cup x.at[s.from])
      BY <2>10, <2>5, <2>6, <2>20
    <3> QED
      BY <3>1, <2>10, <2>1, <2>2, <2>8, TwoAgrees DEF s
  <2>11. CASE s.do = "edit"
    <3>1. kept \cup {r} = Val(x.read[s.at] \cup {Mine})
      BY <2>11, <2>4, <2>8, <2>20
    <3> QED
      BY <3>1, <2>11, <2>1, <2>2, OneAgrees DEF s
  <2>12. CASE s.do = "back"
    BY <2>12, <2>1, <2>2, <2>4, OneAgrees DEF s
  <2>13. CASE s.do \in {"put", "unpack", "live", "keep"}
    BY <2>13, <2>1, <2>2, <2>8, OneAgrees DEF s
  <2>14. CASE s.do = "make"
    BY <2>14, <2>1, <2>2, <2>8, TwoAgrees DEF s
  <2>15. CASE s.do = "save"
    <3>1. server.loaded[s.at] \cup {r} = Val(x.loaded[s.at] \cup {Mine})
      BY <2>15, <2>7, <2>8, <2>20
    <3> QED
      BY <3>1, <2>15, <2>1, <2>2, OneAgrees DEF s
  <2>16. CASE s.do = "build"
    BY <2>16, <2>1, <2>2, <2>7, OneAgrees DEF s
  <2>17. CASE s.do = "disable"
    BY <2>17, <2>1, <2>2, <2>8, OneAgrees DEF s
  <2>18. CASE s.do \in {"drop", "unlive", "forget"}
    BY <2>18, <2>1, <2>2, <2>8, OneAgrees DEF s
  <2>19. CASE s.do \notin {"copy", "move", "edit", "back", "put", "unpack", "live", "keep", "make",
                           "save", "build", "disable", "drop", "unlive", "forget"}
    BY <2>19, <2>1, <2>2, NothingAgrees DEF s
  <2> QED
    BY <2>9, <2>10, <2>11, <2>12, <2>13, <2>14, <2>15, <2>16, <2>17, <2>18, <2>19
<1> QED
  BY <1>4, <1>5

LEMMA HalfAgrees ==
    ASSUME TypeInv, OrderInv, NEW r \in Slots, NEW v, NEW x, NEW base, NEW live,
           Told(x, r, v, base, live), NEW w \in Half(r, StepNow(r))
    PROVE  \/ \E n \in NamedHalf(x, StepNow(r)) : Agrees(x, r, base, live, w, n)
           \/ ~Here(x, StepNow(r)) /\ Agrees(x, r, base, live, w, Nothing)
<1> DEFINE s == StepNow(r)
           D == DOMAIN x.at
           Val(c) == Value(r, base, live, c)
<1>1. StepOK(s) /\ (\A p \in D : At(r, p) = Val(x.at[p]))
  BY ToldReads DEF Reads
<1>2. CASE ~Here(x, s)
  <2>1. DOMAIN w \cap D = {}
    BY <1>1, <1>2, HalvesAre DEF Here
  <2> QED
    BY <2>1, <1>2 DEF Agrees, Nothing
<1>3. CASE Here(x, s)
  <2>1. Val({HalfDone}) = Broken /\ Val({Mine}) = {r}
    BY Values
  <2>2. s.do = "make" => s.from \in D
    BY <1>3, ToldReads, ViewSteps DEF Here, Reads
  <2> HIDE DEF s
  <2>3. CASE s.do \in {"copy", "unpack"}
    <3>1. w = One(s.at, Broken) /\ NamedHalf(x, s) = {One(s.at, {HalfDone})}
      BY <2>3, <1>3 DEF Half, NamedHalf, s
    <3> QED
      BY <3>1, <2>1, OneAgrees DEF s
  <2>4. CASE s.do = "make"
    <3>1. PICK c \in {At(r, s.from), {r}} : w = Two(s.at, Broken, s.from, c)
      BY <2>4 DEF Half, s
    <3>2. PICK d \in {x.at[s.from], {Mine}} : c = Val(d)
      BY <2>1, <2>2, <2>4, <1>1
    <3>3. Two(s.at, {HalfDone}, s.from, d) \in NamedHalf(x, s)
      BY <2>4, <1>3 DEF NamedHalf
    <3>4. Agrees(x, r, base, live, w, Two(s.at, {HalfDone}, s.from, d))
      BY <3>1, <3>2, <2>1, TwoAgrees
    <3> QED
      BY <3>3, <3>4 DEF s
  <2>5. CASE s.do = "drop" /\ s.at \in Trees
    <3>1. w = One(s.at, Broken) /\ NamedHalf(x, s) = {One(s.at, {HalfDone})}
      BY <2>5, <1>3 DEF Half, NamedHalf, s
    <3> QED
      BY <3>1, <2>1, OneAgrees DEF s
  <2>6. CASE s.do \notin {"copy", "unpack", "make"} /\ ~(s.do = "drop" /\ s.at \in Trees)
    BY <2>6 DEF Half, s
  <2> QED
    BY <2>3, <2>4, <2>5, <2>6
<1> QED
  BY <1>2, <1>3

LEMMA StoreAgrees ==
    ASSUME TypeInv, OrderInv, NEW r \in Slots, NEW v, NEW x, NEW base, NEW live,
           Told(x, r, v, base, live), NEW w, NEW n, Agrees(x, r, base, live, w, n), Store(r, w)
    PROVE  /\ DOMAIN Over(x.at, n) = DOMAIN x.at
           /\ \A p \in DOMAIN x.at : At(r, p)' = Value(r, base, live, Over(x.at, n)[p])
<1>1. /\ DOMAIN x.at \subseteq Places
      /\ \A p \in DOMAIN x.at : At(r, p) = Value(r, base, live, x.at[p])
  BY ToldReads DEF Reads
<1>2. \A p \in Places : At(r, p)' = IF p \in DOMAIN w THEN w[p] ELSE At(r, p)
  BY StorePoints
<1>3. \A p \in DOMAIN x.at : Over(x.at, n)[p] = IF p \in DOMAIN n THEN n[p] ELSE x.at[p]
  BY DEF Over
<1> QED
  BY <1>1, <1>2, <1>3 DEF Agrees, Over

LEMMA LoadingAgrees ==
    ASSUME TypeInv, OrderInv, NEW r \in Slots, NEW v, NEW x, NEW base, NEW live,
           Told(x, r, v, base, live), NEW w, NEW n, Agrees(x, r, base, live, w, n),
           StepNow(r).do = "save" => w = Writes(r, StepNow(r)) /\ n = NamedWrites(x, StepNow(r))
    PROVE  /\ DOMAIN NamedLoading(x, StepNow(r), n) = DOMAIN x.loaded
           /\ \A p \in DOMAIN x.loaded :
                 Loading(StepNow(r), w)[p] = Value(r, base, live, NamedLoading(x, StepNow(r), n)[p])
<1> DEFINE s == StepNow(r)
           l == NamedLoading(x, s, n)
<1>1. /\ Running(r) /\ StepOK(s) /\ DOMAIN x.at \subseteq Places
      /\ \A p \in DOMAIN x.loaded : p \in Loadable /\ p \in DOMAIN x.at
      /\ \A p \in DOMAIN x.at : At(r, p) = Value(r, base, live, x.at[p])
      /\ \A p \in DOMAIN x.loaded : server.loaded[p] = Value(r, base, live, x.loaded[p])
  BY ToldReads DEF Reads
<1>2. \A p \in Loadable :
         Loading(s, w)[p] = IF s.do = "restart" \/ (s.do = "sync" /\ p \in Synced) THEN vol[p]
                            ELSE IF s.do = "save" /\ p = s.at THEN w[p]
                            ELSE server.loaded[p]
  BY <1>1, LoadingAre
<1>3. /\ DOMAIN l = DOMAIN x.loaded
      /\ \A p \in DOMAIN x.loaded :
            l[p] = IF s.do = "restart" \/ (s.do = "sync" /\ p \in Synced) THEN x.at[p]
                   ELSE IF s.do = "save" /\ p = s.at THEN n[p] ELSE x.loaded[p]
  BY DEF NamedLoading
<1>4. \A p \in Loadable : vol[p] = At(r, p)
  BY DEF Loadable, Synced, Started, Private, At
<1>5. s.do = "save" /\ s.at \in DOMAIN x.at => s.at \in DOMAIN n
  <2>1. s.do = "save" => Targets(s) = {s.at}
    BY DEF Targets, Passive
  <2>2. s.do = "save" /\ Here(x, s) => NamedWrites(x, s) = One(s.at, x.loaded[s.at] \cup {Mine})
    BY DEF NamedWrites
  <2> QED
    BY <2>1, <2>2 DEF Here, One
<1> HIDE DEF s, l
<1>6. ASSUME NEW p \in DOMAIN x.loaded
      PROVE  Loading(s, w)[p] = Value(r, base, live, l[p])
  <2>1. CASE s.do = "restart" \/ (s.do = "sync" /\ p \in Synced)
    BY <2>1, <1>1, <1>2, <1>3, <1>4
  <2>2. CASE ~(s.do = "restart" \/ (s.do = "sync" /\ p \in Synced)) /\ s.do = "save" /\ p = s.at
    <3>1. p \in DOMAIN n /\ p \in DOMAIN x.at
      BY <2>2, <1>1, <1>5
    <3>2. w[p] = Value(r, base, live, n[p])
      BY <3>1 DEF Agrees
    <3> QED
      BY <3>2, <2>2, <1>1, <1>2, <1>3
  <2>3. CASE ~(s.do = "restart" \/ (s.do = "sync" /\ p \in Synced)) /\ ~(s.do = "save" /\ p = s.at)
    BY <2>3, <1>1, <1>2, <1>3
  <2> QED
    BY <2>1, <2>2, <2>3
<1> QED
  BY <1>3, <1>6 DEF s, l

-----------------------------------------------------------------------------
(* A step of a job leads from an entry that is told of it to another one *)

LEMMA SomethingIs ==
    ASSUME NEW x, NEW r, NEW base, NEW live, NEW c, Something(x, c),
           \A n \in x.there : Meaning(r, base, live, n) # {}
    PROVE  Value(r, base, live, c) # Absent
<1>1. PICK n \in c : n \in x.there \cup {Mine, HalfDone, Off}
  BY DEF Something
<1>2. Meaning(r, base, live, n) # {}
  BY <1>1, Meanings DEF Broken, Disabled
<1>3. Meaning(r, base, live, n) \in {Meaning(r, base, live, m) : m \in c}
  OBVIOUS
<1> QED
  BY <1>2, <1>3 DEF Value, Absent

LEMMA WhatMay ==
    ASSUME TypeInv, OrderInv, NEW r \in Slots, NEW v, NEW x, NEW base, NEW live,
           Told(x, r, v, base, live)
    PROVE  /\ Skipped(r, StepNow(r)) \/ StepNow(r).do \in {"enough", "healthy"} => MaySkip(x, StepNow(r))
           /\ ~Skipped(r, StepNow(r)) /\ StepNow(r).do \notin {"enough", "healthy"} => MayTry(x, StepNow(r))
           /\ Works(r, StepNow(r)) => MayWork(x, StepNow(r))
<1> DEFINE s == StepNow(r)
<1>1. Reads(x, r, v, base, live)
  BY ToldReads
<1>2. s.need \subseteq Seen(tasks[r].op) /\ s.lack \subseteq Seen(tasks[r].op)
  BY <1>1, StepsChange DEF Reads
<1>3. x.had = tasks[r].had \cap Seen(tasks[r].op)
  BY DEF Told, Recalls
<1>4. Enters(x, s) <=> s.need \subseteq tasks[r].had /\ s.lack \cap tasks[r].had = {}
  BY <1>2, <1>3 DEF Enters
<1>5. Skipped(r, s) <=> s.do \in {"try", "commit"} \/ ~Enters(x, s)
  BY <1>4 DEF Skipped
<1>6. Works(r, s) => MayWork(x, s)
  <2>1. ASSUME Works(r, s), s.do \in {"find", "read", "copy", "move"}, s.from \in DOMAIN x.at
        PROVE  x.at[s.from] # {}
    <3>1. At(r, s.from) # Absent /\ At(r, s.from) = Value(r, base, live, x.at[s.from])
      BY <2>1, <1>1 DEF Works, Reads
    <3> QED
      BY <3>1, Values
  <2>2. ASSUME Works(r, s), s.do = "miss", s.at \in DOMAIN x.at
        PROVE  ~Something(x, x.at[s.at])
    <3>1. At(r, s.at) = Absent /\ At(r, s.at) = Value(r, base, live, x.at[s.at])
      BY <2>2, <1>1 DEF Works, Reads
    <3> QED
      BY <3>1, SomethingIs DEF Told, Shows
  <2> QED
    BY <2>1, <2>2 DEF MayWork
<1> QED
  BY <1>5, <1>6 DEF MaySkip, MayTry, Pausing

\* The entry y is told of job r after a step.
Follows(y, r, v, base, live) ==
    /\ Lands(y, v, tasks'[r])
    /\ Shows(y, r, v, base, live)'
    /\ Running(r)' => Recalls(y, r, base, live)'

\* What the task t remembers is as y says.
RecallsOf(y, t, r, base, live) ==
    /\ \A p \in DOMAIN y.read : Known(t, p) = Value(r, base, live, y.read[p])
    /\ y.had = t.had \cap Seen(t.op)

LEMMA RecallsNow ==
    ASSUME NEW r, NEW x, NEW base, NEW live, Recalls(x, r, base, live)
    PROVE  RecallsOf(x, tasks[r], r, base, live)
  BY DEF Recalls, RecallsOf

LEMMA RecallsLike ==
    ASSUME NEW r, NEW x, NEW y, NEW t, NEW t2, NEW base, NEW live, RecallsOf(x, t, r, base, live),
           t2.read = t.read, t2.had = t.had, t2.op = t.op, y.read = x.read, y.had = x.had
    PROVE  RecallsOf(y, t2, r, base, live)
<1>1. \A p : Known(t2, p) = Known(t, p)
  BY DEF Known
<1> QED
  BY <1>1 DEF RecallsOf

LEMMA Recalling ==
    ASSUME NEW r \in Slots, NEW t2, SameTask(t2, tasks'[r]), NEW y, NEW base, NEW live,
           RecallsOf(y, t2, r, base, live)
    PROVE  Running(r)' => Recalls(y, r, base, live)'
<1> SUFFICES ASSUME Running(r)' PROVE Recalls(y, r, base, live)'
  OBVIOUS
<1>1. tasks'[r].read = t2.read /\ tasks'[r].had = t2.had /\ tasks'[r].op = t2.op
  BY DEF SameTask, Running
<1>2. \A p : Known(t2, p) = Known(tasks'[r], p)
  BY <1>1 DEF Known
<1> QED
  BY <1>1, <1>2 DEF Recalls, RecallsOf

LEMMA Staying ==
    ASSUME TypeInv, OrderInv, NEW r \in Slots, NEW v, NEW x, NEW base, NEW live,
           Told(x, r, v, base, live), UNCHANGED <<vol, own, server>>, tasks'[r].hurt = tasks[r].hurt
    PROVE  Shows(x, r, v, base, live)'
<1>1. Shows(x, r, v, base, live)
  BY DEF Told
<1>2. \A p : At(r, p)' = At(r, p)
  BY DEF At
<1> QED
  BY <1>1, <1>2 DEF Shows

LEMMA SkipFollows ==
    ASSUME TypeInv, OrderInv, NEW r \in Slots, NEW v, NEW x, NEW base, NEW live,
           Told(x, r, v, base, live), Skip(r)
    PROVE  Follows(x, r, v, base, live)
<1> DEFINE t == tasks[r]
           u == tasks'[r]
<1>1. /\ Running(r) /\ UNCHANGED <<vol, own, server>> /\ GoesOn(t, u)
      /\ Skipped(r, StepNow(r)) \/ StepNow(r).do \in {"enough", "healthy"}
  BY SkipIs
<1>2. TaskOK(t) /\ Similar(t, t)
  BY <1>1, SimilarTasks
<1>3. InTable(t, v, x) /\ t.mode \in {"body", "undo"} /\ t.op \in Ops
  BY DEF Told, InTable
<1>4. SameTask(t, u)
  BY <1>1, <1>2, <1>3, GoesWell
<1>5. StepNow(r) = StepAt(t)
  BY ToldReads DEF Reads
<1>6. MaySkip(x, StepAt(t))
  BY <1>1, <1>5, WhatMay
<1>7. x \in Passed(x, StepAt(t), t.mode = "undo", Seen(t.op))
  BY <1>6 DEF Passed
<1> HIDE DEF t, u
<1>8. Lands(x, v, u)
  BY <1>1, <1>2, <1>3, <1>7, LandOn
<1>9. Shows(x, r, v, base, live)'
  BY <1>1, <1>4, Staying DEF SameTask, t, u
<1>10. RecallsOf(x, t, r, base, live)
  BY RecallsNow DEF Told, t
<1>11. Running(r)' => Recalls(x, r, base, live)'
  BY <1>4, <1>10, Recalling DEF u
<1> QED
  BY <1>8, <1>9, <1>11 DEF Follows, u

LEMMA ReturnFollows ==
    ASSUME TypeInv, OrderInv, NEW r \in Slots, NEW v, NEW x, NEW base, NEW live,
           Told(x, r, v, base, live), Return(r)
    PROVE  Follows(x, r, v, base, live)
<1> DEFINE t == tasks[r]
           u == tasks'[r]
<1>1. /\ Running(r) /\ UNCHANGED <<vol, own, server>> /\ t.mode = "body" /\ Returns(t.op, t.at)
      /\ GoesTo(t, u, ReturnFrom(Programs[t.op], t.at))
  BY ReturnIs
<1>2. InTable(t, v, x)
  BY DEF Told
<1>3. SameTask(t, u)
  BY <1>1 DEF GoesTo
<1> HIDE DEF t, u
<1>4. Lands(x, v, u)
  BY <1>1, <1>2, LandReturn
<1>5. Shows(x, r, v, base, live)'
  BY <1>1, <1>3, Staying DEF SameTask, t, u
<1>6. RecallsOf(x, t, r, base, live)
  BY RecallsNow DEF Told, t
<1>7. Running(r)' => Recalls(x, r, base, live)'
  BY <1>3, <1>6, Recalling DEF u
<1> QED
  BY <1>4, <1>5, <1>7 DEF Follows, u

LEMMA RefuseFollows ==
    ASSUME TypeInv, OrderInv, NEW r \in Slots, NEW v, NEW x, NEW base, NEW live,
           Told(x, r, v, base, live), Refuse(r)
    PROVE  \E y : Follows(y, r, v, base, live)
<1> DEFINE t == tasks[r]
           u == tasks'[r]
           s == StepNow(r)
           h == t.hurt \/ t.mode = "undo"
           t2 == Hurt(t, h)
<1>0. PICK y : y = Entry(x.at, x.read, x.loaded, x.had, x.there, x.up, x.hurt \/ t.mode = "undo")
  OBVIOUS
<1>1. /\ Running(r) /\ UNCHANGED <<vol, own, server>> /\ Similar(t, t2) /\ GoesOut(t2, u, s)
      /\ ~Skipped(r, s) /\ s.tries = 1 /\ s.do \notin {"look", "enough", "healthy"}
  BY RefuseIs
<1>2. TaskOK(t) /\ TaskOK(t2) /\ InTable(t, v, x)
  BY <1>1, SimilarTasks DEF Told, Similar
<1>3. t2.hurt = h /\ t2.read = t.read /\ t2.had = t.had /\ t2.op = t.op
      /\ t2.mode \in {"body", "undo"} /\ t2.op \in Ops
  BY <1>2 DEF Hurt, TaskOK, InTable
<1>4. SameTask(t2, u)
  BY <1>1, <1>2, <1>3, GoesWell DEF GoesOut
<1>5. s = StepAt(t)
  BY ToldReads DEF Reads
<1>6. y \in Failing(x, StepAt(t), t.mode = "undo")
  <2>1. MayTry(x, s)
    BY <1>1, WhatMay
  <2>2. y \in Refused(x, s, t.mode = "undo")
    BY <1>0, <1>1 DEF Refused
  <2> QED
    BY <2>1, <2>2, <1>5 DEF Failing
<1>7. Shows(x, r, v, base, live) /\ Recalls(x, r, base, live)
  BY DEF Told
<1>8. Shows(y, r, v, base, live)'
  <2>1. \A p : At(r, p)' = At(r, p)
    BY <1>1 DEF At
  <2>2. /\ y.at = x.at /\ y.loaded = x.loaded /\ y.there = x.there /\ y.up = x.up
        /\ y.hurt = (x.hurt \/ t.mode = "undo")
    BY <1>0 DEF Entry
  <2>3. u.hurt = h /\ x.hurt = t.hurt
    BY <1>3, <1>4, <1>7 DEF SameTask, Shows
  <2> QED
    BY <2>1, <2>2, <2>3, <1>1, <1>7 DEF Shows
<1>9. Running(r)' => Recalls(y, r, base, live)'
  <2>1. y.read = x.read /\ y.had = x.had
    BY <1>0 DEF Entry
  <2>2. RecallsOf(x, t, r, base, live)
    BY <1>7, RecallsNow
  <2> HIDE DEF t2
  <2>3. RecallsOf(y, t2, r, base, live)
    BY <2>1, <2>2, <1>3, RecallsLike
  <2> QED
    BY <2>3, <1>4, Recalling
<1> HIDE DEF t, u, t2
<1>10. Lands(y, v, u)
  BY <1>1, <1>2, <1>5, <1>6, LandOut
<1> QED
  BY <1>8, <1>9, <1>10 DEF Follows, u

\* The entry y is x after n has been written, and tells what LaunchServer has then.
Made(x, y, r, v, base, live, n) ==
    /\ DOMAIN y.at = DOMAIN x.at
    /\ \A p \in DOMAIN x.at : Value(r, base, live, y.at[p]) = Value(r, base, live, Over(x.at, n)[p])
    /\ DOMAIN y.loaded = DOMAIN x.loaded
    /\ \A p \in DOMAIN x.loaded : server'.loaded[p] = Value(r, base, live, y.loaded[p])
    /\ \A m \in y.there : Meaning(r, base, live, m) # {}
    /\ v = "alone" /\ y.up => server'.up
    /\ y.hurt = tasks'[r].hurt

LEMMA Shown ==
    ASSUME TypeInv, OrderInv, NEW r \in Slots, NEW v, NEW x, NEW base, NEW live,
           Told(x, r, v, base, live), NEW w, NEW n, Agrees(x, r, base, live, w, n), Store(r, w),
           NEW y, Made(x, y, r, v, base, live, n)
    PROVE  Shows(y, r, v, base, live)'
<1>1. \A p \in DOMAIN x.at : At(r, p)' = Value(r, base, live, Over(x.at, n)[p])
  BY StoreAgrees
<1> QED
  BY <1>1 DEF Shows, Made

LEMMA OverWrites ==
    ASSUME NEW x, NEW n PROVE DOMAIN Over(x.at, n) = DOMAIN x.at
  BY DEF Over

LEMMA OverNothing ==
    ASSUME NEW x, NEW p \in DOMAIN x.at PROVE Over(x.at, Nothing)[p] = x.at[p]
  BY DEF Over, Nothing

\* What follows for the task alone, after a step that has set hurt.
LEMMA HurtRecalls ==
    ASSUME TypeInv, OrderInv, NEW r \in Slots, NEW v, NEW x, NEW base, NEW live,
           Told(x, r, v, base, live), NEW y, y.read = x.read, y.had = x.had,
           GoesOut(Hurt(tasks[r], TRUE), tasks'[r], StepNow(r)) \/ GoesDown(Hurt(tasks[r], TRUE), tasks'[r])
    PROVE  /\ tasks'[r].hurt = TRUE
           /\ Running(r)' => Recalls(y, r, base, live)'
<1> DEFINE t == tasks[r]
           u == tasks'[r]
           t2 == Hurt(t, TRUE)
<1>1. TaskOK(t) /\ TaskOK(t2) /\ InTable(t, v, x)
  BY SimilarTasks, ToldReads DEF Told, Similar, Reads
<1>2. t2.hurt = TRUE /\ t2.read = t.read /\ t2.had = t.had /\ t2.op = t.op
      /\ t2.mode \in {"body", "undo"} /\ t2.op \in Ops
  BY <1>1 DEF Hurt, TaskOK, InTable
<1>3. SameTask(t2, u)
  BY <1>1, <1>2, GoesWell DEF GoesOut
<1>4. RecallsOf(x, t, r, base, live)
  BY RecallsNow DEF Told
<1> HIDE DEF t, t2, u
<1>5. RecallsOf(y, t2, r, base, live)
  BY <1>2, <1>4, RecallsLike
<1>6. Running(r)' => Recalls(y, r, base, live)'
  BY <1>3, <1>5, Recalling DEF u
<1> QED
  BY <1>2, <1>3, <1>6 DEF SameTask, u

LEMMA BreakFollows ==
    ASSUME TypeInv, OrderInv, NEW r \in Slots, NEW v, NEW x, NEW base, NEW live,
           Told(x, r, v, base, live), Break(r)
    PROVE  \E y : Follows(y, r, v, base, live)
<1> DEFINE t == tasks[r]
           u == tasks'[r]
           s == StepNow(r)
           t2 == Hurt(t, TRUE)
<1>1. /\ Similar(t, t2) /\ GoesOut(t2, u, s)
      /\ ~Skipped(r, s) /\ s.tries = 1 /\ Works(r, s)
  BY BreakIs
<1>2. PICK w \in (Half(r, s) \cup {Writes(r, s)}) \ {Nothing} :
         /\ Store(r, w)
         /\ server' = IF s.do = "save" THEN [server EXCEPT !.loaded = Loading(s, w)] ELSE server
  BY BreakIs
<1>3. PICK n \in NamedHalf(x, s) \cup {NamedWrites(x, s)} :
         Agrees(x, r, base, live, w, n)
  <2>1. CASE w = Writes(r, s)
    BY <2>1, WritesAgree
  <2>2. CASE w \in Half(r, s)
    <3>1. ~Here(x, s) => NamedWrites(x, s) = Nothing
      BY DEF NamedWrites
    <3> QED
      BY <2>2, <3>1, HalfAgrees
  <2> QED
    BY <2>1, <2>2
<1>4. s.do = "save" => w = Writes(r, s) /\ n = NamedWrites(x, s)
  BY DEF Half, NamedHalf
<1>5. PICK y : y = Entry(Over(x.at, n), x.read,
                         IF s.do = "save" THEN NamedLoading(x, s, n) ELSE x.loaded,
                         x.had, x.there, x.up, TRUE)
  OBVIOUS
<1>6. /\ y.at = Over(x.at, n) /\ y.read = x.read /\ y.had = x.had /\ y.there = x.there
      /\ y.up = x.up /\ y.hurt = TRUE
      /\ y.loaded = IF s.do = "save" THEN NamedLoading(x, s, n) ELSE x.loaded
  BY <1>5 DEF Entry
<1>7. s = StepAt(t) /\ InTable(t, v, x)
  BY ToldReads DEF Reads, Told
<1>8. y \in Failing(x, s, t.mode = "undo")
  <2>1. s.do \notin {"enough", "healthy"}
    <3>1. CASE s.do \in {"enough", "healthy"}
      <4>1. Half(r, s) = {} /\ Writes(r, s) = Nothing
        BY <3>1 DEF Half, Writes
      <4> QED
        BY <4>1
    <3> QED
      BY <3>1
  <2>2. MayTry(x, s) /\ MayWork(x, s)
    BY <1>1, <2>1, WhatMay
  <2>3. y \in HalfWay(x, s)
    BY <1>1, <2>2, <1>5 DEF HalfWay
  <2> QED
    BY <2>2, <2>3 DEF Failing
<1>9. u.hurt = TRUE /\ (Running(r)' => Recalls(y, r, base, live)')
  BY <1>1, <1>6, HurtRecalls
<1>10. /\ DOMAIN y.loaded = DOMAIN x.loaded
       /\ \A p \in DOMAIN x.loaded : server'.loaded[p] = Value(r, base, live, y.loaded[p])
       /\ server'.up = server.up
  <2>1. DOMAIN server = {"up", "loaded"}
    BY DEF TypeInv
  <2>2. /\ server'.loaded = (IF s.do = "save" THEN Loading(s, w) ELSE server.loaded)
        /\ server'.up = server.up
    BY <2>1, <1>2
  <2>3. CASE s.do = "save"
    BY <2>2, <2>3, <1>3, <1>4, <1>6, LoadingAgrees
  <2>4. CASE s.do # "save"
    BY <2>2, <2>4, <1>6, ToldReads DEF Reads
  <2> QED
    BY <2>2, <2>3, <2>4
<1>11. (v = "alone" /\ y.up => server'.up) /\ \A m \in y.there : Meaning(r, base, live, m) # {}
  BY <1>6, <1>10 DEF Told, Shows
<1>12. Shows(y, r, v, base, live)'
  <2>1. Made(x, y, r, v, base, live, n)
    BY <1>6, <1>9, <1>10, <1>11, OverWrites DEF Made
  <2> QED
    BY <2>1, <1>2, <1>3, Shown
<1> HIDE DEF t, u, s, t2
<1>13. Lands(y, v, u)
  BY <1>1, <1>7, <1>8, LandOut
<1> QED
  BY <1>9, <1>12, <1>13 DEF Follows, u

LEMMA RestartFailsFollows ==
    ASSUME TypeInv, OrderInv, NEW r \in Slots, NEW v, NEW x, NEW base, NEW live,
           Told(x, r, v, base, live), RestartFails(r)
    PROVE  \E y : Follows(y, r, v, base, live)
<1> DEFINE t == tasks[r]
           u == tasks'[r]
           s == StepNow(r)
           t2 == Hurt(t, TRUE)
<1>1. /\ Similar(t, t2) /\ GoesOut(t2, u, s) /\ s.do = "restart" /\ UNCHANGED <<vol, own>>
      /\ \/ server' = [server EXCEPT !.up = FALSE]
         \/ server' = [up |-> TRUE, loaded |-> Loading(s, Nothing)]
  BY RestartFailsIs
<1>2. Store(r, Nothing) /\ Agrees(x, r, base, live, Nothing, Nothing)
  BY <1>1, StoreNothing, NothingAgrees
<1>3. PICK l \in {x.loaded, NamedLoading(x, s, Nothing)} :
         /\ DOMAIN l = DOMAIN x.loaded
         /\ \A p \in DOMAIN x.loaded : server'.loaded[p] = Value(r, base, live, l[p])
  <2>1. CASE server' = [server EXCEPT !.up = FALSE]
    <3>1. server'.loaded = server.loaded
      BY <2>1 DEF TypeInv
    <3> QED
      BY <3>1, ToldReads DEF Reads
  <2>2. CASE server' = [up |-> TRUE, loaded |-> Loading(s, Nothing)]
    <3>1. server'.loaded = Loading(s, Nothing)
      BY <2>2
    <3> QED
      BY <3>1, <1>1, <1>2, LoadingAgrees
  <2> QED
    BY <1>1, <2>1, <2>2
<1>4. PICK y : y = Entry(x.at, x.read, l, x.had, x.there, FALSE, TRUE)
  OBVIOUS
<1>5. /\ y.at = x.at /\ y.read = x.read /\ y.had = x.had /\ y.there = x.there
      /\ y.up = FALSE /\ y.hurt = TRUE /\ y.loaded = l
  BY <1>4 DEF Entry
<1>6. s = StepAt(t) /\ InTable(t, v, x)
  BY ToldReads DEF Reads, Told
<1>7. y \in Failing(x, s, t.mode = "undo")
  BY <1>1, <1>3, <1>4 DEF Failing, Stopped
<1>8. u.hurt = TRUE /\ (Running(r)' => Recalls(y, r, base, live)')
  BY <1>1, <1>5, HurtRecalls
<1>9. \A m \in y.there : Meaning(r, base, live, m) # {}
  BY <1>5 DEF Told, Shows
<1>10. Shows(y, r, v, base, live)'
  <2>1. Made(x, y, r, v, base, live, Nothing)
    BY <1>3, <1>5, <1>8, <1>9, OverNothing DEF Made
  <2> QED
    BY <2>1, <1>2, Shown
<1> HIDE DEF t, u, s, t2
<1>11. Lands(y, v, u)
  BY <1>1, <1>6, <1>7, LandOut
<1> QED
  BY <1>8, <1>10, <1>11 DEF Follows, u

LEMMA AgainFollows ==
    ASSUME TypeInv, OrderInv, NEW r \in Slots, NEW v, NEW x, NEW base, NEW live,
           Told(x, r, v, base, live), Again(r)
    PROVE  \E y : Follows(y, r, v, base, live)
<1> DEFINE t == tasks[r]
           u == tasks'[r]
           s == StepNow(r)
           t2 == Hurt(t, TRUE)
<1>1. /\ UNCHANGED server /\ ~Skipped(r, s) /\ s.tries > 1 /\ t.mode = "body"
      /\ \/ /\ Store(r, One(s.at, Absent))
            /\ u = [t EXCEPT !.tries = @ + 1] \/ GoesDown(t, u)
         \/ /\ \E w \in {Nothing} \cup Half(r, s) : Store(r, w)
            /\ Similar(t, t2) /\ GoesDown(t2, u)
  BY AgainIs
<1>2. s = StepAt(t) /\ InTable(t, v, x) /\ TaskOK(t) /\ Similar(t, t) /\ StepOK(s)
  BY ToldReads, SimilarTasks DEF Reads, Told
<1>4. s.do \notin {"enough", "healthy"}
  BY <1>1, <1>2 DEF StepOK, Targets, Passive
<1>5. MayTry(x, s)
  BY <1>1, <1>4, WhatMay
<1>6. CASE /\ Store(r, One(s.at, Absent))
           /\ u = [t EXCEPT !.tries = @ + 1] \/ GoesDown(t, u)
  <2>1. PICK y : y = Entry(Over(x.at, One(s.at, {})), x.read, x.loaded, x.had, x.there, x.up, x.hurt)
    OBVIOUS
  <2>2. /\ y.at = Over(x.at, One(s.at, {})) /\ y.read = x.read /\ y.had = x.had /\ y.there = x.there
        /\ y.up = x.up /\ y.hurt = x.hurt /\ y.loaded = x.loaded
    BY <2>1 DEF Entry
  <2>3. y \in Emptied(x, s)
    BY <2>1, <1>1, <1>5 DEF Emptied
  <2>4. Agrees(x, r, base, live, One(s.at, Absent), One(s.at, {}))
    <3>1. Absent = Value(r, base, live, {})
      BY Values
    <3> HIDE DEF s
    <3> QED
      BY <3>1, OneAgrees
  <2>5. RecallsOf(y, t, r, base, live)
    BY <2>2, RecallsNow, RecallsLike DEF Told
  <2>6. x.hurt = t.hurt /\ (v = "alone" /\ x.up => server'.up)
        /\ (\A m \in x.there : Meaning(r, base, live, m) # {})
        /\ \A p \in DOMAIN x.loaded : server'.loaded[p] = Value(r, base, live, x.loaded[p])
    BY <1>1 DEF Told, Shows
  <2>7. CASE u = [t EXCEPT !.tries = @ + 1]
    <3>1. Lands(y, v, u)
      BY <2>3, <2>7, <1>1, <1>2, LandStay
    <3>2. u.hurt = t.hurt /\ u.read = t.read /\ u.had = t.had /\ u.op = t.op
      BY <2>7, <1>2 DEF TaskOK
    <3> HIDE DEF t, u, s
    <3>3. RecallsOf(y, u, r, base, live)
      BY <3>2, <2>2, <2>5, RecallsLike
    <3>4. Recalls(y, r, base, live)'
      BY <3>3 DEF RecallsOf, Recalls, u
    <3>5. Made(x, y, r, v, base, live, One(s.at, {}))
      BY <3>2, <2>2, <2>6, OverWrites DEF Made, u
    <3>6. Shows(y, r, v, base, live)'
      BY <3>5, <2>4, <1>6, Shown
    <3> QED
      BY <3>1, <3>4, <3>6 DEF Follows, u
  <2>8. CASE GoesDown(t, u)
    <3>1. SameTask(t, u)
      BY <2>8, <1>2, GoesWell DEF InTable
    <3> HIDE DEF t, u, s
    <3>2. y \in Threw(x, s, FALSE) /\ (t.mode = "undo") = FALSE
      BY <2>3, <1>1 DEF Threw
    <3>3. Lands(y, v, u)
      BY <3>2, <2>8, <1>2, LandDown
    <3>4. Running(r)' => Recalls(y, r, base, live)'
      BY <2>5, <3>1, Recalling DEF u
    <3>5. Made(x, y, r, v, base, live, One(s.at, {}))
      BY <3>1, <2>2, <2>6, OverWrites DEF Made, SameTask, u
    <3>6. Shows(y, r, v, base, live)'
      BY <3>5, <2>4, <1>6, Shown
    <3> QED
      BY <3>3, <3>4, <3>6 DEF Follows, u
  <2> QED
    BY <1>6, <2>7, <2>8
<1>7. CASE /\ \E w \in {Nothing} \cup Half(r, s) : Store(r, w)
           /\ Similar(t, t2) /\ GoesDown(t2, u)
  <2>1. PICK w \in {Nothing} \cup Half(r, s) : Store(r, w)
    BY <1>7
  <2>2. PICK n \in {Nothing} \cup NamedHalf(x, s) : Agrees(x, r, base, live, w, n)
    BY NothingAgrees, HalfAgrees
  <2>3. PICK y : y = Entry(Over(x.at, n), x.read, x.loaded, x.had, x.there, x.up, TRUE)
    OBVIOUS
  <2>4. /\ y.at = Over(x.at, n) /\ y.read = x.read /\ y.had = x.had /\ y.there = x.there
        /\ y.up = x.up /\ y.hurt = TRUE /\ y.loaded = x.loaded
    BY <2>3 DEF Entry
  <2>5. y \in Cut(x, s)
    BY <2>3, <1>1, <1>5 DEF Cut
  <2>6. u.hurt = TRUE /\ (Running(r)' => Recalls(y, r, base, live)')
    BY <2>4, <1>7, HurtRecalls
  <2>7. (v = "alone" /\ x.up => server'.up)
        /\ (\A m \in x.there : Meaning(r, base, live, m) # {})
        /\ \A p \in DOMAIN x.loaded : server'.loaded[p] = Value(r, base, live, x.loaded[p])
    BY <1>1 DEF Told, Shows
  <2>8. Shows(y, r, v, base, live)'
    <3>1. Made(x, y, r, v, base, live, n)
      BY <2>4, <2>6, <2>7, OverWrites DEF Made
    <3> QED
      BY <3>1, <2>1, <2>2, Shown
  <2> HIDE DEF t, u, s, t2
  <2>9. y \in Threw(x, s, FALSE) /\ (t.mode = "undo") = FALSE
    BY <2>5, <1>1 DEF Threw
  <2>10. Lands(y, v, u)
    BY <2>9, <1>2, <1>7, LandDown
  <2> QED
    BY <2>6, <2>8, <2>10 DEF Follows, u
<1> QED
  BY <1>1, <1>6, <1>7

LEMMA Noticed ==
    ASSUME TypeInv, OrderInv, NEW r \in Slots, NEW v, NEW x, NEW base, NEW live,
           Told(x, r, v, base, live), Works(r, StepNow(r)), NEW m \in There(x, StepNow(r))
    PROVE  Meaning(r, base, live, m) # {}
<1> DEFINE s == StepNow(r)
<1>1. CASE m \in x.there
  BY <1>1 DEF Told, Shows
<1>2. CASE m \notin x.there
  <2>1. /\ s.do \in {"find", "read", "copy", "move"} /\ s.from \in DOMAIN x.at /\ m \in x.at[s.from]
        /\ \E p \in Shared : x.at[s.from] = {Old(p)}
    BY <1>2 DEF There
  <2>2. x.at[s.from] = {m}
    BY <2>1
  <2>3. At(r, s.from) # Absent /\ At(r, s.from) = Value(r, base, live, x.at[s.from])
    <3>1. Reads(x, r, v, base, live)
      BY ToldReads
    <3>2. At(r, s.from) # Absent
      BY <2>1 DEF Works
    <3> QED
      BY <3>1, <3>2, <2>1 DEF Reads
  <2> QED
    BY <2>2, <2>3, ValueOfOne DEF Absent
<1> QED
  BY <1>1, <1>2

LEMMA Looked ==
    ASSUME TypeInv, OrderInv, NEW r \in Slots, NEW v, NEW x, NEW base, NEW live,
           Told(x, r, v, base, live), NEW seen
    PROVE  {p \in Shared : Present(p)} \cap seen \in Looks(x, seen)
<1> DEFINE H == {p \in Shared : Present(p)} \cap seen
<1>1. DOMAIN x.at \subseteq Places /\ \A p \in DOMAIN x.at : At(r, p) = Value(r, base, live, x.at[p])
  BY ToldReads DEF Reads
<1>2. \A n \in x.there : Meaning(r, base, live, n) # {}
  BY DEF Told, Shows
<1>3. ASSUME NEW p \in (seen \cap DOMAIN x.at) \ Private
      PROVE  (x.at[p] = {} => p \notin H) /\ (Something(x, x.at[p]) => p \in H)
  <2>1. p \in Shared /\ p \in seen /\ vol[p] = Value(r, base, live, x.at[p])
    BY <1>1, <1>3 DEF Places, At
  <2>2. x.at[p] = {} => ~Present(p)
    BY <2>1, Values DEF Present
  <2>3. Something(x, x.at[p]) => Present(p)
    BY <2>1, <1>2, SomethingIs DEF Present
  <2> QED
    BY <2>1, <2>2, <2>3
<1>4. H \in SUBSET seen
  OBVIOUS
<1> QED
  BY <1>3, <1>4 DEF Looks

LEMMA NotedRecalls ==
    ASSUME TypeInv, OrderInv, NEW r \in Slots, NEW v, NEW x, NEW base, NEW live,
           Told(x, r, v, base, live), NEW y, DOMAIN y.read = DOMAIN x.read,
           \A p \in DOMAIN x.read :
              y.read[p] = IF StepNow(r).do = "read" /\ p = StepNow(r).at THEN x.at[p] ELSE x.read[p],
           y.had = IF StepNow(r).do = "look" THEN {p \in Shared : Present(p)} \cap Seen(tasks[r].op) ELSE x.had
    PROVE  RecallsOf(y, Noted(r, StepNow(r)), r, base, live)
<1> DEFINE s == StepNow(r)
           t == tasks[r]
           t2 == Noted(r, s)
<1>1. Reads(x, r, v, base, live)
  BY ToldReads
<1>2. TaskOK(t) /\ x.had = t.had \cap Seen(t.op)
  BY <1>1, SimilarTasks DEF Reads, Told, Recalls
<1>3. CASE s.do = "read"
  <2> DEFINE f == [p \in DOMAIN t.read \cup {s.at} |-> IF p = s.at THEN At(r, p) ELSE t.read[p]]
  <2>1. t2 = [t EXCEPT !.read = f]
    BY <1>3 DEF Noted
  <2>2. t2.read = f /\ t2.had = t.had /\ t2.op = t.op
    BY <2>1, <1>2 DEF TaskOK
  <2>3. \A p : Known(t2, p) = IF p = s.at THEN At(r, p) ELSE Known(t, p)
    BY <2>2 DEF Known
  <2> HIDE DEF t2, f
  <2>4. \A p \in DOMAIN x.read : Known(t2, p) = Value(r, base, live, y.read[p])
    BY <2>3, <1>1, <1>3 DEF Reads
  <2> QED
    BY <2>2, <2>4, <1>2, <1>3 DEF RecallsOf, t2
<1>4. CASE s.do = "look"
  <2>1. t2 = [t EXCEPT !.had = {p \in Shared : Present(p)}]
    BY <1>4 DEF Noted
  <2>2. t2.read = t.read /\ t2.had = {p \in Shared : Present(p)} /\ t2.op = t.op
    BY <2>1, <1>2 DEF TaskOK
  <2> HIDE DEF t2
  <2>3. \A p : Known(t2, p) = Known(t, p)
    BY <2>2 DEF Known
  <2>4. \A p \in DOMAIN x.read : Known(t2, p) = Value(r, base, live, y.read[p])
    BY <2>3, <1>1, <1>4 DEF Reads
  <2> QED
    BY <2>2, <2>4, <1>4 DEF RecallsOf, t2
<1>5. CASE s.do \notin {"read", "look"}
  <2>1. t2 = t
    BY <1>5 DEF Noted
  <2> QED
    BY <2>1, <1>1, <1>2, <1>5 DEF RecallsOf, Reads
<1> QED
  BY <1>3, <1>4, <1>5

LEMMA SucceedFollows ==
    ASSUME TypeInv, OrderInv, NEW r \in Slots, NEW v, NEW x, NEW base, NEW live,
           Told(x, r, v, base, live), Succeed(r)
    PROVE  \E y : Follows(y, r, v, base, live)
<1> DEFINE t == tasks[r]
           u == tasks'[r]
           s == StepNow(r)
           w == Writes(r, s)
           t2 == Noted(r, s)
           seen == Seen(t.op)
           at == [p \in DOMAIN x.at |-> IF s.do = "miss" /\ p = s.at THEN {} ELSE x.at[p]]
           read == [p \in DOMAIN x.read |-> IF s.do = "read" /\ p = s.at THEN x.at[p] ELSE x.read[p]]
           had == IF s.do = "look" THEN {p \in Shared : Present(p)} \cap seen ELSE x.had
<1>1. /\ ~Skipped(r, s) /\ s.do \notin {"enough", "healthy"} /\ Works(r, s) /\ Store(r, w)
      /\ server' = [up |-> server.up \/ s.do = "restart", loaded |-> Loading(s, w)]
      /\ Similar(t, t2) /\ GoesOn(t2, u)
  BY SucceedIs
<1>2. PICK n : n = NamedWrites(x, s)
  OBVIOUS
<1>3. Agrees(x, r, base, live, w, n)
  BY <1>2, WritesAgree
<1>4. PICK y : y = Entry(Over(at, n), read, NamedLoading(x, s, n), had, There(x, s),
                         x.up \/ s.do \notin Outside \/ s.do = "restart", x.hurt)
  OBVIOUS
<1>5. /\ y.at = Over(at, n) /\ y.read = read /\ y.had = had /\ y.there = There(x, s)
      /\ y.up = (x.up \/ s.do \notin Outside \/ s.do = "restart") /\ y.hurt = x.hurt
      /\ y.loaded = NamedLoading(x, s, n)
  BY <1>4 DEF Entry
<1>6. s = StepAt(t) /\ InTable(t, v, x) /\ Reads(x, r, v, base, live)
  BY ToldReads DEF Reads, Told
<1>7. y \in Passed(x, s, t.mode = "undo", seen)
  <2>1. MayTry(x, s) /\ MayWork(x, s)
    BY <1>1, WhatMay
  <2>2. had \in IF s.do = "look" THEN Looks(x, seen) ELSE {x.had}
    BY Looked
  <2>3. y \in Done(x, s, seen)
    <3> HIDE DEF had, seen
    <3> QED
      BY <2>2, <1>2, <1>4 DEF Done
  <2> QED
    BY <2>1, <2>3 DEF Passed
<1>8. /\ TaskOK(t2) /\ t2.op \in Ops /\ t2.mode \in {"body", "undo"}
      /\ t2.hurt = t.hurt /\ t.hurt = x.hurt
  <2>1. t2.hurt = t.hurt
    <3>1. TaskOK(t)
      BY <1>6, SimilarTasks DEF Reads
    <3> QED
      BY <3>1 DEF Noted, TaskOK
  <2> QED
    BY <2>1, <1>1, <1>6 DEF Similar, InTable, Told, Shows
<1>9. SameTask(t2, u)
  BY <1>1, <1>8, GoesWell
<1>10. Running(r)' => Recalls(y, r, base, live)'
  <2>1. RecallsOf(y, t2, r, base, live)
    BY <1>5, NotedRecalls
  <2> HIDE DEF t2
  <2> QED
    BY <2>1, <1>9, Recalling
<1>11. DOMAIN y.at = DOMAIN x.at
       /\ \A p \in DOMAIN x.at : Value(r, base, live, y.at[p]) = Value(r, base, live, Over(x.at, n)[p])
  <2>1. DOMAIN y.at = DOMAIN x.at
    BY <1>5 DEF Over
  <2>2. ASSUME NEW p \in DOMAIN x.at
        PROVE  Value(r, base, live, y.at[p]) = Value(r, base, live, Over(x.at, n)[p])
    <3>1. CASE s.do = "miss" /\ p = s.at
      <4>1. n = Nothing
        BY <3>1, <1>2 DEF NamedWrites, Here, Targets, Passive
      <4>2. y.at[p] = {} /\ Over(x.at, n)[p] = x.at[p]
        BY <3>1, <4>1, <1>5 DEF Over, Nothing
      <4>3. At(r, p) = Absent /\ At(r, p) = Value(r, base, live, x.at[p])
        BY <3>1, <1>1, <1>6 DEF Works, Reads
      <4> QED
        BY <4>2, <4>3, Values
    <3>2. CASE ~(s.do = "miss" /\ p = s.at)
      <4>1. y.at[p] = Over(x.at, n)[p]
        BY <3>2, <1>5 DEF Over
      <4> QED
        BY <4>1
    <3> QED
      BY <3>1, <3>2
  <2> QED
    BY <2>1, <2>2
<1>12. /\ DOMAIN y.loaded = DOMAIN x.loaded
       /\ \A p \in DOMAIN x.loaded : server'.loaded[p] = Value(r, base, live, y.loaded[p])
  <2>1. server'.loaded = Loading(s, w)
    BY <1>1
  <2> QED
    BY <2>1, <1>2, <1>3, <1>5, LoadingAgrees
<1>13. v = "alone" /\ y.up => server'.up
  <2>1. server'.up = (server.up \/ s.do = "restart")
    BY <1>1
  <2>2. s.do \notin Outside => server.up
    BY <1>1 DEF Works
  <2> QED
    BY <2>1, <2>2, <1>5 DEF Told, Shows
<1>14. \A m \in y.there : Meaning(r, base, live, m) # {}
  BY <1>1, <1>5, Noticed
<1>15. y.hurt = u.hurt
  BY <1>5, <1>8, <1>9 DEF SameTask
<1> HIDE DEF t, u, s, w, t2, seen
<1>16. Shows(y, r, v, base, live)'
  <2>1. Made(x, y, r, v, base, live, n)
    BY <1>11, <1>12, <1>13, <1>14, <1>15 DEF Made, u
  <2> QED
    BY <2>1, <1>1, <1>3, Shown DEF w, s
<1>17. Lands(y, v, u)
  BY <1>1, <1>6, <1>7, LandOn DEF seen
<1> QED
  BY <1>10, <1>16, <1>17 DEF Follows, u

LEMMA StepFollows ==
    ASSUME TypeInv, OrderInv, NEW r \in Slots, NEW v, NEW x, NEW base, NEW live,
           Told(x, r, v, base, live), StepOf(r)
    PROVE  \E y : Follows(y, r, v, base, live)
  BY SkipFollows, ReturnFollows, SucceedFollows, RefuseFollows, BreakFollows, AgainFollows,
     RestartFailsFollows DEF StepOf

-----------------------------------------------------------------------------
(* What a step of job r leaves alone *)

LEMMA StepChanges ==
    ASSUME TypeInv, OrderInv, NEW r \in Slots, StepOf(r)
    PROVE  /\ \A p \in Shared \ Changed(tasks[r].op) : vol'[p] = vol[p]
           /\ \A p \in Private \ Changed(tasks[r].op) : own'[r][p] = own[r][p]
           /\ \A q \in Slots \ {r} : own'[q] = own[q]
<1>1. PICK w : Outcome(r, StepNow(r), w) /\ Store(r, w)
  BY StepStores
<1>2. Running(r)
  BY StepStores
<1>3. StepOK(StepNow(r)) /\ StepNow(r) \in StepsOf(tasks[r].op)
  BY <1>2, Position
<1>4. DOMAIN w \subseteq Changed(tasks[r].op)
  BY <1>1, <1>2, <1>3, OutcomesAre, StepsChange
<1> QED
  BY <1>1, <1>4, StorePoints

LEMMA StepOthers ==
    ASSUME TypeInv, OrderInv, NEW r \in Slots, StepOf(r)
    PROVE  /\ Running(r) /\ Begun(r) /\ tasks[r].op \in Ops
           /\ area' = area /\ layout' = layout
           /\ \A q \in Slots \ {r} :
                 /\ tasks'[q] = tasks[q]
                 /\ Running(q)' <=> Running(q)
                 /\ Begun(q)' <=> Begun(q)
           /\ Begun(r)'
<1>1. Running(r) /\ OnlyTask(r) /\ UNCHANGED <<area, layout>>
  BY StepStores
<1>2. tasks'[r].mode \in {"body", "undo", "done", "failed"}
  BY StepTask
<1> QED
  BY <1>1, <1>2, Position DEF OnlyTask, Running, Begun

\* Jobs of different slots, and the places that only one of them touches.
LEMMA Apart ==
    ASSUME TypeInv, OrderInv, NEW r \in Slots, NEW q \in Slots, q # r, Begun(r), Begun(q),
           NEW v \in Views(tasks[q].op), v # "alone"
    PROVE  Domain(tasks[q].op, v) \cap Shared \cap Changed(tasks[r].op) = {}
<1>1. /\ area \in DOMAIN Operations
      /\ tasks[r].op \in Operations[area][r] /\ tasks[q].op \in Operations[area][q]
  BY OpKnown
<1>2. CASE q = 1
  <2>1. r = 2
    BY <1>2, SlotsAreTwo
  <2> QED
    BY <1>1, <1>2, <2>1, ViewsAreApart
<1>3. CASE q = 2
  <2>1. r = 1
    BY <1>3, SlotsAreTwo
  <2> QED
    BY <1>1, <1>3, <2>1, ViewsAreApart
<1> QED
  BY <1>2, <1>3, SlotsAreTwo

\* Nobody else runs beside a job that runs alone.
LEMMA Alone ==
    ASSUME OrderInv, NEW r \in Slots, NEW q \in Slots, q # r, tasks[q].alone
    PROVE  ~(Running(q) /\ Running(r)) /\ (r < q => ~Running(r)) /\ (q < r /\ Running(q) => ~Begun(r))
<1>1. r < q \/ q < r
  BY SlotsAreTwo
<1> QED
  BY <1>1 DEF OrderInv, Begun, Running

-----------------------------------------------------------------------------
(* A job stays in its tables *)

LEMMA DoneIn ==
    ASSUME NEW y, NEW v, NEW u, Lands(y, v, u), u.mode \in {"done", "failed"}
    PROVE  /\ y \in Entries(u.op, v)
           /\ u.mode = "done" => y \in DoneOf(u.op, v)
           /\ u.mode = "failed" => y \in FailedOf(u.op, v)
  BY DEF Lands, Entries

LEMMA StepLands ==
    ASSUME TypeInv, OrderInv, TrackedInv, NEW r \in Slots, StepOf(r),
           NEW v \in Views(tasks[r].op), Valid(r, v)
    PROVE  \E y, base, live : /\ base = tasks[r].base /\ live = tasks[r].live
                              /\ Follows(y, r, v, base, live)
<1>1. Running(r) /\ tasks[r].op \in Ops
  BY StepOthers
<1>2. TaskOK(tasks[r])
  BY <1>1, SimilarTasks
<1>3. PICK base : base = tasks[r].base
  OBVIOUS
<1>4. PICK live : live = tasks[r].live
  OBVIOUS
<1>5. PICK x \in Table(tasks[r], v) : Shows(x, r, v, base, live) /\ Recalls(x, r, base, live)
  BY <1>1, <1>3, <1>4 DEF TrackedInv
<1>6. Told(x, r, v, base, live)
  BY <1>1, <1>2, <1>5 DEF Told, InTable, Running
<1>7. \E y : Follows(y, r, v, base, live)
  BY <1>6, StepFollows
<1> QED
  BY <1>3, <1>4, <1>7

LEMMA TrackedStep ==
    ASSUME TypeInv, OrderInv, TrackedInv, NEW r \in Slots, StepOf(r) PROVE TrackedInv'
<1>1. /\ Running(r) /\ Begun(r) /\ layout' = layout
      /\ \A q \in Slots \ {r} : tasks'[q] = tasks[q] /\ (Running(q)' <=> Running(q))
  BY StepOthers
<1>2. ASSUME NEW q \in Slots, Running(q)', NEW v \in Views(tasks'[q].op), Valid(q, v)'
      PROVE  \E x \in Table(tasks'[q], v) :
                /\ Shows(x, q, v, tasks[q].base, tasks[q].live)'
                /\ Recalls(x, q, tasks[q].base, tasks[q].live)'
  <2>1. CASE q = r
    <3>1. /\ tasks'[r].op = tasks[r].op /\ tasks'[r].alone = tasks[r].alone
          /\ tasks'[r].mode \in {"body", "undo"}
          /\ tasks'[r].base = tasks[r].base /\ tasks'[r].live = tasks[r].live
      BY <1>2, <2>1, StepTask DEF Running
    <3>2. v \in Views(tasks[r].op) /\ Valid(r, v)
      BY <1>1, <1>2, <2>1, <3>1 DEF Valid
    <3>3. PICK y, base, live : /\ base = tasks[r].base /\ live = tasks[r].live
                               /\ Follows(y, r, v, base, live)
      BY <3>2, StepLands
    <3>4. y \in Table(tasks'[r], v)
      BY <3>1, <3>3 DEF Follows, Lands, Table
    <3>5. Shows(y, r, v, base, live)' /\ Recalls(y, r, base, live)'
      BY <1>2, <2>1, <3>3 DEF Follows
    <3>6. base = tasks'[r].base /\ live = tasks'[r].live
      BY <3>1, <3>3
    <3> QED
      BY <2>1, <3>4, <3>5, <3>6
  <2>2. CASE q # r
    <3>1. /\ tasks'[q] = tasks[q] /\ Running(q) /\ Begun(q) /\ Begun(r)
          /\ v \in Views(tasks[q].op) /\ Valid(q, v)
      BY <1>1, <1>2, <2>2 DEF Valid, Running, Begun
    <3>2. v # "alone"
      BY <1>1, <2>2, <3>1, Alone DEF Valid
    <3>3. PICK base : base = tasks[q].base
      OBVIOUS
    <3>4. PICK live : live = tasks[q].live
      OBVIOUS
    <3>5. PICK x \in Table(tasks[q], v) : Shows(x, q, v, base, live) /\ Recalls(x, q, base, live)
      BY <3>1, <3>3, <3>4 DEF TrackedInv
    <3>6. InTable(tasks[q], v, x) /\ tasks[q].op \in Ops
      BY <3>1, <3>5, Position, SimilarTasks DEF InTable
    <3>7. Viewed(tasks[q].op, v, x)
      BY <3>1, <3>6, TableIn, ViewFacts
    <3>8. DOMAIN x.at \cap Shared \cap Changed(tasks[r].op) = {} /\ DOMAIN x.loaded = {}
          /\ DOMAIN x.at \subseteq Places
      BY <3>1, <3>2, <3>7, <2>2, Apart DEF Viewed
    <3>9. own'[q] = own[q] /\ \A p \in Shared \ Changed(tasks[r].op) : vol'[p] = vol[p]
      BY <2>2, StepChanges
    <3>10. \A p \in DOMAIN x.at : At(q, p)' = At(q, p)
      BY <3>8, <3>9 DEF At, Places
    <3>11. Shows(x, q, v, base, live)'
      BY <3>1, <3>2, <3>5, <3>8, <3>10 DEF Shows
    <3>12. Recalls(x, q, base, live)'
      BY <3>1, <3>5 DEF Recalls
    <3> QED
      BY <3>1, <3>3, <3>4, <3>5, <3>11, <3>12
  <2> QED
    BY <2>1, <2>2
<1> QED
  BY <1>2 DEF TrackedInv

-----------------------------------------------------------------------------
(* Marks of jobs that have not begun, and what a job has noted at its beginning *)

LEMMA WritesLack ==
    ASSUME TypeInv, NEW r \in Slots, NEW s, StepOK(s), NEW m, m # r, m # -1, m # -2,
           \A p \in Places : m \notin At(r, p),
           \A p \in Loadable : m \notin server.loaded[p],
           \A p \in DOMAIN tasks[r].read : m \notin tasks[r].read[p]
    PROVE  \A p \in DOMAIN Writes(r, s) : m \notin Writes(r, s)[p]
<1> DEFINE kept == IF s.at \in DOMAIN tasks[r].read THEN tasks[r].read[s.at] ELSE Absent
           held == IF s.at \in Trees THEN At(r, s.at) ELSE Absent
<1>1. m \notin kept
  BY DEF Absent
<1>2. m \notin held
  BY DEF Absent, Trees, Places, Shared
<1>3. /\ s.do \in {"copy", "move"} => m \notin At(r, s.from)
      /\ s.do = "save" => m \notin server.loaded[s.at]
      /\ m \notin server.loaded["config"]
  BY DEF StepOK, Loadable, Started
<1>4. m \notin {r} /\ m \notin Absent /\ m \notin Disabled
  BY DEF Absent, Disabled
<1> HIDE DEF kept, held
<1>5. Writes(r, s) =
        CASE s.do = "copy" -> One(s.at, At(r, s.from))
          [] s.do = "move" -> Two(s.from, Absent, s.at, held \cup At(r, s.from))
          [] s.do = "edit" -> One(s.at, kept \cup {r})
          [] s.do = "back" -> One(s.at, kept)
          [] s.do \in {"put", "unpack", "live", "keep"} -> One(s.at, {r})
          [] s.do = "make" -> Two(s.at, {r}, s.from, {r})
          [] s.do = "save" -> One(s.at, server.loaded[s.at] \cup {r})
          [] s.do = "build" -> One(s.at, server.loaded["config"])
          [] s.do = "disable" -> One(s.at, Disabled)
          [] s.do \in {"drop", "unlive", "forget"} -> One(s.at, Absent)
          [] OTHER -> Nothing
  BY DEF Writes, kept, held
<1> QED
  BY <1>1, <1>2, <1>3, <1>4, <1>5 DEF One, Two, Nothing

LEMMA OutcomesLack ==
    ASSUME TypeInv, NEW r \in Slots, NEW s, StepOK(s), NEW m, m # r, m # -1, m # -2,
           \A p \in Places : m \notin At(r, p),
           \A p \in Loadable : m \notin server.loaded[p],
           \A p \in DOMAIN tasks[r].read : m \notin tasks[r].read[p],
           NEW w, Outcome(r, s, w)
    PROVE  \A p \in DOMAIN w : m \notin w[p]
<1>1. CASE w = Nothing
  BY <1>1 DEF Nothing
<1>2. CASE w = Writes(r, s)
  BY <1>2, WritesLack
<1>3. CASE w \in Half(r, s)
  <2>1. s.do = "make" => m \notin At(r, s.from)
    BY DEF StepOK, Targets, Passive
  <2>2. m \notin {r} /\ m \notin Broken
    BY DEF Broken
  <2> QED
    BY <1>3, <2>1, <2>2 DEF Half, One, Two
<1>4. CASE w = One(s.at, Absent)
  BY <1>4 DEF One, Absent
<1> QED
  BY <1>1, <1>2, <1>3, <1>4 DEF Outcome

LEMMA FreshStep ==
    ASSUME TypeInv, OrderInv, FreshInv, NEW r \in Slots, StepOf(r) PROVE FreshInv'
<1> DEFINE s == StepNow(r)
<1>1. PICK w : /\ Outcome(r, s, w) /\ Store(r, w)
               /\ \/ server'.loaded = server.loaded
                  \/ /\ server'.loaded = Loading(s, w)
                     /\ s.do = "save" => w = Writes(r, s)
  BY StepStores
<1>2. /\ Running(r) /\ Begun(r) /\ Begun(r)' /\ tasks'[r].op = tasks[r].op
      /\ \A q \in Slots \ {r} : tasks'[q] = tasks[q] /\ (Begun(q)' <=> Begun(q))
  BY StepOthers, StepTask
<1>3. StepOK(s)
  BY <1>2, Position
<1>4. ASSUME NEW q \in Slots, ~Begun(q)'
      PROVE  /\ \A p \in Shared : q \notin vol'[p]
             /\ \A n \in Slots : \A p \in Private : q \notin own'[n][p]
             /\ \A p \in Loadable : q \notin server'.loaded[p]
             /\ \A n \in Slots : \A p \in DOMAIN tasks'[n].read : q \notin tasks'[n].read[p]
             /\ q = 1 => server'.up /\ \A p \in Loadable : server'.loaded[p] = vol'[p]
  <2>1. q # r /\ ~Begun(q) /\ q # -1 /\ q # -2
    BY <1>2, <1>4, SlotsAreTwo
  <2>2. /\ \A p \in Shared : q \notin vol[p]
        /\ \A n \in Slots : \A p \in Private : q \notin own[n][p]
        /\ \A p \in Loadable : q \notin server.loaded[p]
        /\ \A n \in Slots : \A p \in DOMAIN tasks[n].read : q \notin tasks[n].read[p]
    BY <2>1 DEF FreshInv
  <2>3. \A p \in Places : q \notin At(r, p)
    BY <2>2 DEF At, Places
  <2>4. \A p \in DOMAIN w : q \notin w[p]
    BY <1>1, <1>3, <2>1, <2>2, <2>3, OutcomesLack
  <2>5. \A p \in Shared : q \notin vol'[p]
    BY <1>1, <2>2, <2>4, StorePoints
  <2>6. \A n \in Slots : \A p \in Private : q \notin own'[n][p]
    BY <1>1, <2>2, <2>4, StorePoints
  <2>7. \A p \in Loadable : q \notin server'.loaded[p]
    <3>1. CASE server'.loaded = server.loaded
      BY <3>1, <2>2
    <3>2. CASE server'.loaded = Loading(s, w) /\ (s.do = "save" => w = Writes(r, s))
      <4>1. \A p \in Loadable :
               Loading(s, w)[p] = IF s.do = "restart" \/ (s.do = "sync" /\ p \in Synced) THEN vol[p]
                                  ELSE IF s.do = "save" /\ p = s.at THEN w[p]
                                  ELSE server.loaded[p]
        BY <1>2, <1>3, <3>2, LoadingAre
      <4>2. s.do = "save" => w = One(s.at, server.loaded[s.at] \cup {r})
        BY <3>2 DEF Writes
      <4>3. Loadable \subseteq Shared
        BY DEF Loadable, Shared
      <4>4. s.do = "save" => s.at \in DOMAIN w
        BY <4>2 DEF One
      <4> QED
        BY <3>2, <4>1, <4>3, <4>4, <2>2, <2>4
    <3> QED
      BY <1>1, <3>1, <3>2
  <2>8. ASSUME NEW n \in Slots, NEW p \in DOMAIN tasks'[n].read PROVE q \notin tasks'[n].read[p]
    <3>1. CASE n = r
      BY <3>1, <2>2, <2>3, <2>8, StepTask
    <3>2. CASE n # r
      BY <3>2, <1>2, <2>2, <2>8
    <3> QED
      BY <3>1, <3>2
  <2>9. q # 1
    BY <1>2, <2>1, SlotsAreTwo DEF OrderInv
  <2> QED
    BY <2>5, <2>6, <2>7, <2>8, <2>9
<1>5. ASSUME NEW q \in Slots, NEW p \in Private, own'[q][p] # Absent
      PROVE  Begun(q)' /\ p \in Changed(tasks'[q].op)
  <2>1. CASE q = r
    <3>1. CASE p \in Changed(tasks[r].op)
      BY <3>1, <2>1, <1>2
    <3>2. CASE p \notin Changed(tasks[r].op)
      BY <3>2, <2>1, <1>2, <1>5, StepChanges DEF FreshInv
    <3> QED
      BY <3>1, <3>2
  <2>2. CASE q # r
    BY <2>2, <1>2, <1>5, StepChanges DEF FreshInv
  <2> QED
    BY <2>1, <2>2
<1> QED
  BY <1>4, <1>5 DEF FreshInv

LEMMA BaseStep ==
    ASSUME TypeInv, OrderInv, BaseInv, NEW r \in Slots, StepOf(r) PROVE BaseInv'
<1>1. /\ Running(r) /\ layout' = layout
      /\ \A q \in Slots \ {r} : tasks'[q] = tasks[q] /\ (Running(q)' <=> Running(q))
  BY StepOthers
<1>2. Running(r)' => /\ tasks'[r].op = tasks[r].op /\ tasks'[r].base = tasks[r].base
                     /\ tasks'[r].live = tasks[r].live
  BY StepTask DEF Running
<1>3. ASSUME NEW q \in Slots, Running(q)'
      PROVE  /\ Running(q) /\ tasks'[q].op = tasks[q].op /\ tasks'[q].base = tasks[q].base
             /\ tasks'[q].live = tasks[q].live
  BY <1>1, <1>2, <1>3
<1> QED
  BY <1>1, <1>3 DEF BaseInv

-----------------------------------------------------------------------------
(* What is replaced by one job at a time is not lost *)

LEMMA HomesShared ==
    ASSUME NEW p PROVE p \in Homes(p)
  BY DEF Homes

LEMMA OwnedEntry ==
    ASSUME NEW op \in Ops, NEW p \in Views(op), p \in Owned, NEW y \in Entries(op, p),
           NEW r, NEW base, NEW live, base[p] = AsFound
    PROVE  \E h \in Homes(p) : h \in DOMAIN y.at /\ 0 \in Value(r, base, live, y.at[h])
<1>1. PICK h \in Homes(p) : h \in DOMAIN y.at /\ Old(p) \in y.at[h]
  <2>1. p \in Views(op) \cap Owned
    OBVIOUS
  <2>2. \A x \in Entries(op, p) : \E h \in Homes(p) : h \in DOMAIN x.at /\ Old(p) \in x.at[h]
    BY <2>1, OriginalsAreNamed
  <2> QED
    BY <2>2
<1>2. Meaning(r, base, live, Old(p)) = {0}
  <2>1. Meaning(r, base, live, Old(p)) = base[p]
    BY Meanings
  <2> QED
    BY <2>1 DEF AsFound
<1>3. Meaning(r, base, live, Old(p)) \in {Meaning(r, base, live, n) : n \in y.at[h]}
  BY <1>1
<1>4. 0 \in Value(r, base, live, y.at[h])
  BY <1>2, <1>3 DEF Value
<1> QED
  BY <1>1, <1>4

LEMMA OwnedViews ==
    ASSUME NEW op \in Ops, NEW p \in Owned
    PROVE  /\ p \in Changed(op) <=> p \in Views(op)
           /\ p # "alone" /\ p # "token" /\ Domain(op, p) = Homes(p) \cup Pending(p)
  BY DEF Views, Owned, Domain

LEMMA OwnedStep ==
    ASSUME TypeInv, OrderInv, BaseInv, TrackedInv, OwnedInv, NEW r \in Slots, StepOf(r) PROVE OwnedInv'
<1>1. /\ Running(r) /\ Begun(r) /\ Begun(r)' /\ tasks[r].op \in Ops /\ layout' = layout
      /\ tasks'[r].op = tasks[r].op /\ tasks'[r].mode \in {"body", "undo", "done", "failed"}
      /\ \A q \in Slots \ {r} : /\ tasks'[q] = tasks[q] /\ (Running(q)' <=> Running(q))
                                /\ (Begun(q)' <=> Begun(q))
  BY StepOthers, StepTask
<1>2. ASSUME NEW p \in layout \cap Owned, \A q \in Slots : Begun(q)' => p \notin Changed(tasks'[q].op)
      PROVE  vol'[p] = AsFound
  <2>1. \A q \in Slots : Begun(q) => p \notin Changed(tasks[q].op)
    BY <1>1, <1>2
  <2>2. p \in Shared \ Changed(tasks[r].op)
    BY <1>1, <2>1 DEF TypeInv
  <2> QED
    BY <2>1, <2>2, StepChanges DEF OwnedInv
<1>3. ASSUME NEW p \in layout \cap Owned, NEW q \in Slots, Begun(q)', ~Running(q)',
             p \in Changed(tasks'[q].op)
      PROVE  \E h \in Homes(p) : 0 \in At(q, h)'
  <2>1. CASE q = r
    <3>1. p \in Changed(tasks[r].op) /\ p \in Views(tasks[r].op) /\ p # "alone"
      BY <2>1, <1>1, <1>3, OwnedViews
    <3>2. Valid(r, p)
      BY <3>1, <1>3 DEF Valid
    <3>3. PICK y, base, live : /\ base = tasks[r].base /\ live = tasks[r].live
                               /\ Follows(y, r, p, base, live)
      BY <3>1, <3>2, StepLands
    <3>4. tasks'[r].mode \in {"done", "failed"}
      BY <2>1, <1>1, <1>3 DEF Running
    <3>5. y \in Entries(tasks[r].op, p)
      BY <3>3, <3>4, <1>1, DoneIn DEF Follows
    <3>6. base[p] = AsFound
      BY <3>1, <3>3, <1>1, <1>3 DEF BaseInv
    <3>7. PICK h \in Homes(p) : h \in DOMAIN y.at /\ 0 \in Value(r, base, live, y.at[h])
      BY <3>1, <3>5, <3>6, <1>1, <1>3, OwnedEntry
    <3>8. At(r, h)' = Value(r, base, live, y.at[h])
      BY <3>3, <3>7 DEF Follows, Shows
    <3> QED
      BY <2>1, <3>7, <3>8
  <2>2. CASE q # r
    <3>1. Begun(q) /\ ~Running(q) /\ p \in Changed(tasks[q].op) /\ tasks[q].op \in Ops
      BY <2>2, <1>1, <1>3, OpKnown
    <3>2. PICK h \in Homes(p) : 0 \in At(q, h)
      BY <3>1, <1>3 DEF OwnedInv
    <3>3. Domain(tasks[q].op, p) \cap Shared \cap Changed(tasks[r].op) = {}
      BY <3>1, <2>2, <1>1, <1>3, OwnedViews, Apart
    <3>4. h \in Shared => h \notin Changed(tasks[r].op)
      BY <3>1, <3>3, <1>3, OwnedViews
    <3>5. own'[q] = own[q] /\ (h \in Shared => vol'[h] = vol[h])
      BY <2>2, <3>4, StepChanges
    <3>6. h \in Places
      BY <1>3 DEF Homes, Owned, Places, Shared, Private, Synced, Started, Trees
    <3>7. At(q, h)' = At(q, h)
      BY <3>5, <3>6 DEF At, Places
    <3> QED
      BY <3>2, <3>7
  <2> QED
    BY <2>1, <2>2
<1> QED
  BY <1>1, <1>2, <1>3 DEF OwnedInv

-----------------------------------------------------------------------------
(* What a job has certainly read *)

LEMMA GoesAt ==
    ASSUME NEW t2, t2.mode \in {"body", "undo"}, NEW u, u.mode \in {"body", "undo"}
    PROVE  /\ GoesOn(t2, u) => /\ u.read = t2.read
                               /\ u.at = t2.at \/ (t2.mode = "body" /\ u.at = t2.at + 1)
           /\ GoesDown(t2, u) => u.at = t2.at /\ u.read = t2.read
           /\ \A i : GoesTo(t2, u, i) => u.at = i /\ u.read = t2.read
<1>1. \A i : GoesTo(t2, u, i) => u.at = i /\ u.read = t2.read
  BY DEF GoesTo, SameTask
<1>2. \A k : GoesBack(t2, u, k) => u.at = t2.at /\ u.read = t2.read
  BY DEF GoesBack, SameTask
<1> QED
  BY <1>1, <1>2 DEF GoesOn, GoesDown

Surely(s) == s.do = "read" /\ s.need = {} /\ s.lack = {} /\ ~s.quiet

LEMMA SureGoes ==
    ASSUME TypeInv, OrderInv, NEW r \in Slots, StepOf(r), Running(r)'
    PROVE  LET t == tasks[r]
               u == tasks'[r]
               s == StepNow(r)
           IN  /\ DOMAIN t.read \subseteq DOMAIN u.read
               /\ \/ u.at = t.at
                  \/ t.mode = "body" /\ u.at = t.at + 1 /\ (Surely(s) => s.at \in DOMAIN u.read)
                  \/ t.mode = "body" /\ Returns(t.op, t.at) /\ u.at = ReturnFrom(Programs[t.op], t.at)
<1> DEFINE t == tasks[r]
           u == tasks'[r]
           s == StepNow(r)
           Goal == /\ DOMAIN t.read \subseteq DOMAIN u.read
                   /\ \/ u.at = t.at
                      \/ t.mode = "body" /\ u.at = t.at + 1 /\ (Surely(s) => s.at \in DOMAIN u.read)
                      \/ /\ t.mode = "body" /\ Returns(t.op, t.at)
                         /\ u.at = ReturnFrom(Programs[t.op], t.at)
<1> SUFFICES Goal
  OBVIOUS
<1>0. t.mode \in {"body", "undo"} /\ u.mode \in {"body", "undo"} /\ TaskOK(t)
  BY StepStores, SimilarTasks DEF Running
<1>1. CASE Skip(r)
  <2>1. GoesOn(t, u) /\ (Skipped(r, s) \/ s.do \in {"enough", "healthy"})
    BY <1>1, SkipIs
  <2>2. ~Surely(s)
    BY <2>1 DEF Surely, Skipped
  <2> HIDE DEF t, u, s
  <2> QED
    BY <2>1, <2>2, <1>0, GoesAt
<1>2. CASE Return(r)
  <2>1. t.mode = "body" /\ Returns(t.op, t.at) /\ GoesTo(t, u, ReturnFrom(Programs[t.op], t.at))
    BY <1>2, ReturnIs
  <2> HIDE DEF t, u, s
  <2> QED
    BY <2>1, <1>0, GoesAt
<1>3. CASE Succeed(r)
  <2>1. Similar(t, Noted(r, s)) /\ GoesOn(Noted(r, s), u)
    BY <1>3, SucceedIs
  <2>2. CASE s.do = "read"
    <3> DEFINE f == [p \in DOMAIN t.read \cup {s.at} |-> IF p = s.at THEN At(r, p) ELSE t.read[p]]
    <3>1. Noted(r, s).read = f
      BY <2>2, <1>0 DEF Noted, TaskOK
    <3>2. DOMAIN Noted(r, s).read = DOMAIN t.read \cup {s.at}
      BY <3>1
    <3> HIDE DEF t, u, s
    <3>3. /\ Noted(r, s).mode = t.mode /\ Noted(r, s).at = t.at
      BY <2>1 DEF Similar
    <3>4. u.read = Noted(r, s).read /\ (u.at = t.at \/ (t.mode = "body" /\ u.at = t.at + 1))
      BY <3>3, <2>1, <1>0, GoesAt
    <3> QED
      BY <3>2, <3>4
  <2>3. CASE s.do # "read"
    <3>1. Noted(r, s).read = t.read
      BY <2>3, <1>0 DEF Noted, TaskOK
    <3> HIDE DEF t, u, s
    <3>3. /\ Noted(r, s).mode = t.mode /\ Noted(r, s).at = t.at
      BY <2>1 DEF Similar
    <3>4. u.read = Noted(r, s).read /\ (u.at = t.at \/ (t.mode = "body" /\ u.at = t.at + 1))
      BY <3>3, <2>1, <1>0, GoesAt
    <3> QED
      BY <3>1, <3>4, <2>3 DEF Surely
  <2> QED
    BY <2>2, <2>3
<1>4. ASSUME NEW h \in BOOLEAN, Similar(t, Hurt(t, h)),
             GoesOut(Hurt(t, h), u, s) \/ GoesDown(Hurt(t, h), u)
      PROVE  Goal
  <2>1. Hurt(t, h).mode = t.mode /\ Hurt(t, h).at = t.at /\ Hurt(t, h).read = t.read
    BY <1>0 DEF Hurt, TaskOK
  <2> HIDE DEF t, u, s
  <2>2. CASE GoesDown(Hurt(t, h), u)
    BY <2>1, <2>2, <1>0, GoesAt
  <2>3. CASE GoesOn(Hurt(t, h), u) /\ s.quiet
    <3>1. u.read = t.read /\ (u.at = t.at \/ (t.mode = "body" /\ u.at = t.at + 1))
      BY <2>1, <2>3, <1>0, GoesAt
    <3> QED
      BY <3>1, <2>3 DEF Surely
  <2> QED
    BY <2>2, <2>3, <1>4 DEF GoesOut
<1>5. CASE Refuse(r)
  BY <1>4, <1>5, <1>0, RefuseIs DEF TaskOK
<1>6. CASE Break(r)
  BY <1>4, <1>6, BreakIs
<1>7. CASE Again(r)
  <2>1. \/ u = [t EXCEPT !.tries = @ + 1]
        \/ GoesDown(t, u)
        \/ Similar(t, Hurt(t, TRUE)) /\ GoesDown(Hurt(t, TRUE), u)
    BY <1>7, AgainIs
  <2>2. CASE u = [t EXCEPT !.tries = @ + 1]
    BY <2>2, <1>0 DEF TaskOK
  <2>3. CASE GoesDown(t, u)
    <3> HIDE DEF t, u, s
    <3> QED
      BY <2>3, <1>0, GoesAt
  <2>4. CASE Similar(t, Hurt(t, TRUE)) /\ GoesDown(Hurt(t, TRUE), u)
    BY <2>4, <1>4
  <2> QED
    BY <2>1, <2>2, <2>3, <2>4
<1>8. CASE RestartFails(r)
  BY <1>4, <1>8, RestartFailsIs
<1> QED
  BY <1>1, <1>2, <1>3, <1>5, <1>6, <1>7, <1>8 DEF StepOf

LEMMA SureStep ==
    ASSUME TypeInv, OrderInv, SureInv, NEW r \in Slots, StepOf(r) PROVE SureInv'
<1>1. /\ Running(r) /\ tasks[r].op \in Ops
      /\ \A q \in Slots \ {r} : tasks'[q] = tasks[q] /\ (Running(q)' <=> Running(q))
  BY StepOthers
<1>2. ASSUME Running(r)' PROVE SureReads(tasks'[r].op, tasks'[r].at) \subseteq DOMAIN tasks'[r].read
  <2> DEFINE t == tasks[r]
             u == tasks'[r]
             s == StepNow(r)
             b == Programs[t.op]
  <2>1. /\ DOMAIN t.read \subseteq DOMAIN u.read
        /\ \/ u.at = t.at
           \/ t.mode = "body" /\ u.at = t.at + 1 /\ (Surely(s) => s.at \in DOMAIN u.read)
           \/ t.mode = "body" /\ Returns(t.op, t.at) /\ u.at = ReturnFrom(b, t.at)
    BY <1>2, SureGoes
  <2>2. SureReads(t.op, t.at) \subseteq DOMAIN t.read /\ u.op = t.op
    BY <1>1, StepTask DEF SureInv
  <2>3. t.at \in DOMAIN b /\ (t.mode = "body" => s = b[t.at])
    BY <1>1, Position
  <2>4. /\ SureReads(t.op, t.at + 1) \subseteq
              SureReads(t.op, t.at) \cup {p \in Handed :
                 /\ b[t.at].do = "read" /\ b[t.at].at = p /\ b[t.at].need = {} /\ b[t.at].lack = {}
                 /\ ~b[t.at].quiet}
        /\ Returns(t.op, t.at) => SureReads(t.op, ReturnFrom(b, t.at)) \subseteq SureReads(t.op, t.at)
    BY <1>1, <2>3, ReadsAreSure
  <2> HIDE DEF t, u, s, b
  <2>5. SureReads(u.op, u.at) \subseteq DOMAIN u.read
    <3>1. CASE u.at = t.at
      BY <3>1, <2>1, <2>2
    <3>2. CASE t.mode = "body" /\ u.at = t.at + 1 /\ (Surely(s) => s.at \in DOMAIN u.read)
      BY <3>2, <2>1, <2>2, <2>3, <2>4 DEF Surely
    <3>3. CASE t.mode = "body" /\ Returns(t.op, t.at) /\ u.at = ReturnFrom(b, t.at)
      BY <3>3, <2>1, <2>2, <2>4
    <3> QED
      BY <2>1, <3>1, <3>2, <3>3
  <2> QED
    BY <2>5 DEF u
<1> QED
  BY <1>1, <1>2 DEF SureInv

-----------------------------------------------------------------------------
(* The profile, the client and the configuration go from job to job *)

LEMMA StagesAre ==
    ASSUME NEW p \in Handed
    PROVE  /\ Stages(p) \subseteq Places /\ p \in Shared /\ p \notin Private /\ p \in Stages(p)
           /\ Stages(p) \ {p} \subseteq Private
           /\ p = "config" => Stages(p) = {"config"}
           /\ p \in Loadable \cup {"client"} /\ p \in Places
  BY DEF Handed, Stages, Places, Shared, Private, Synced, Started, Trees, Loadable

LEMMA GentleStep ==
    ASSUME TypeInv, OrderInv, area \in KeptAreas, NEW r \in Slots, Running(r), NEW p \in Handed
    PROVE  Gentle(StepNow(r), p, SureReads(tasks[r].op, tasks[r].at))
<1>1. /\ tasks[r].op \in OpsOf(area) /\ tasks[r].at \in DOMAIN Programs[tasks[r].op]
      /\ tasks[r].mode \in {"body", "undo"}
      /\ tasks[r].mode = "body" => StepNow(r) = Programs[tasks[r].op][tasks[r].at]
      /\ tasks[r].mode = "undo" =>
            /\ tasks[r].un \in DOMAIN Undos[tasks[r].op][tasks[r].at]
            /\ StepNow(r) = Undos[tasks[r].op][tasks[r].at][tasks[r].un]
  BY Position, OpKnown
<1>2. \A i \in DOMAIN Programs[tasks[r].op] :
         /\ Gentle(Programs[tasks[r].op][i], p, SureReads(tasks[r].op, i))
         /\ \A k \in DOMAIN Undos[tasks[r].op][i] :
               Gentle(Undos[tasks[r].op][i][k], p, SureReads(tasks[r].op, i))
  BY <1>1, HandsAreGentle
<1> QED
  BY <1>1, <1>2

\* What a gentle step writes at the stages of p hands the mark m on.
LEMMA GentleWrites ==
    ASSUME TypeInv, NEW r \in Slots, Running(r), NEW s, StepOK(s), NEW p \in Handed, NEW m,
           NEW known, known \subseteq DOMAIN tasks[r].read, Gentle(s, p, known), HandedOver(p, m),
           NEW w, Outcome(r, s, w)
    PROVE  /\ \A h \in Stages(p) \cap DOMAIN w : w[h] = Absent \/ m \in w[h]
           /\ Stages(p) \cap DOMAIN w # {} => \E h \in Stages(p) \cap DOMAIN w : m \in w[h]
<1>1. DOMAIN w \subseteq Targets(s)
  BY OutcomesAre
<1>2. CASE Stages(p) \cap DOMAIN w = {}
  BY <1>2
<1>3. CASE Stages(p) \cap DOMAIN w # {}
  <2>1. Targets(s) \cap Stages(p) # {} /\ w # Nothing
    BY <1>1, <1>3 DEF Nothing
  <2>2. \/ s.do = "move" /\ {s.at, s.from} \subseteq Stages(p) /\ s.at # s.from
        \/ s.do \in {"edit", "back"} /\ s.at = p /\ p \in known
        \/ s.do = "save" /\ s.at = p /\ p = "config"
    BY <2>1 DEF Gentle
  <2>3. Half(r, s) = {}
    BY <2>2 DEF Half
  <2>4. ~(s.tries > 1 /\ w = One(s.at, Absent))
    BY <1>3 DEF Gentle, One
  <2>5. Works(r, s) /\ w = Writes(r, s)
    BY <2>1, <2>3, <2>4 DEF Outcome
  <2>6. CASE s.do = "move" /\ {s.at, s.from} \subseteq Stages(p) /\ s.at # s.from
    <3> DEFINE held == IF s.at \in Trees THEN At(r, s.at) ELSE Absent
    <3>1. w = Two(s.from, Absent, s.at, held \cup At(r, s.from))
      BY <2>5, <2>6 DEF Writes
    <3>2. m \in At(r, s.from)
      BY <2>5, <2>6 DEF Works, HandedOver
    <3> HIDE DEF held
    <3>3. w[s.from] = Absent /\ m \in w[s.at] /\ DOMAIN w = {s.from, s.at}
      BY <3>1, <3>2, <2>6 DEF Two
    <3> QED
      BY <3>3, <2>6
  <2>7. CASE s.do \in {"edit", "back"} /\ s.at = p /\ p \in known
    <3>1. m \in tasks[r].read[p]
      BY <2>7 DEF HandedOver
    <3>2. w = One(p, tasks[r].read[p] \cup {r}) \/ w = One(p, tasks[r].read[p])
      BY <2>5, <2>7 DEF Writes
    <3>3. DOMAIN w = {p} /\ m \in w[p]
      BY <3>1, <3>2 DEF One
    <3> QED
      BY <3>3, StagesAre
  <2>8. CASE s.do = "save" /\ s.at = p /\ p = "config"
    <3>1. m \in server.loaded[p]
      BY <2>8 DEF HandedOver
    <3>2. w = One(p, server.loaded[p] \cup {r})
      BY <2>5, <2>8 DEF Writes
    <3>3. DOMAIN w = {p} /\ m \in w[p]
      BY <3>1, <3>2 DEF One
    <3> QED
      BY <3>3, StagesAre
  <2> QED
    BY <2>2, <2>6, <2>7, <2>8
<1> QED
  BY <1>2, <1>3

LEMMA HandedOverStep ==
    ASSUME TypeInv, OrderInv, SureInv, area \in KeptAreas, NEW r \in Slots, StepOf(r),
           NEW p \in Handed, NEW m, HandedOver(p, m)
    PROVE  HandedOver(p, m)'
<1> DEFINE s == StepNow(r)
<1>1. PICK w : /\ Outcome(r, s, w) /\ Store(r, w)
               /\ \/ server'.loaded = server.loaded
                  \/ /\ server'.loaded = Loading(s, w)
                     /\ s.do = "save" => w = Writes(r, s)
  BY StepStores
<1>2. /\ Running(r)
      /\ \A q \in Slots \ {r} : tasks'[q] = tasks[q] /\ (Running(q)' <=> Running(q))
  BY StepOthers
<1>3. StepOK(s)
  BY <1>2, Position
<1>4. /\ \A h \in Stages(p) \cap DOMAIN w : w[h] = Absent \/ m \in w[h]
      /\ Stages(p) \cap DOMAIN w # {} => \E h \in Stages(p) \cap DOMAIN w : m \in w[h]
  <2>1. Gentle(s, p, SureReads(tasks[r].op, tasks[r].at))
    BY <1>2, GentleStep
  <2>2. SureReads(tasks[r].op, tasks[r].at) \subseteq DOMAIN tasks[r].read
    BY <1>2 DEF SureInv
  <2> QED
    BY <2>1, <2>2, <1>1, <1>2, <1>3, GentleWrites
<1>5. /\ \A h \in Places : At(r, h)' = IF h \in DOMAIN w THEN w[h] ELSE At(r, h)
      /\ \A q \in Slots \ {r} : \A h \in Places :
            At(q, h)' = IF h \in DOMAIN w \ Private THEN w[h] ELSE At(q, h)
  BY <1>1, StorePoints
<1>6. Stages(p) \subseteq Places /\ p \in Places /\ p \in Stages(p)
  BY StagesAre
<1>7. \A q \in Slots : \A h \in Stages(p) : At(q, h)' = Absent \/ m \in At(q, h)'
  BY <1>4, <1>5, <1>6 DEF HandedOver
<1>8. \E q \in Slots : \E h \in Stages(p) : m \in At(q, h)'
  <2>1. CASE Stages(p) \cap DOMAIN w = {}
    <3>1. PICK q \in Slots, h \in Stages(p) : m \in At(q, h)
      BY DEF HandedOver
    <3>2. At(q, h)' = At(q, h)
      BY <2>1, <1>5, <1>6
    <3> QED
      BY <3>1, <3>2
  <2>2. CASE Stages(p) \cap DOMAIN w # {}
    <3>1. PICK h \in Stages(p) \cap DOMAIN w : m \in w[h]
      BY <2>2, <1>4
    <3>2. m \in At(r, h)'
      BY <3>1, <1>5, <1>6
    <3> QED
      BY <3>1, <3>2
  <2> QED
    BY <2>1, <2>2
<1>9. ASSUME NEW q \in Slots, Running(q)', p \in DOMAIN tasks'[q].read PROVE m \in tasks'[q].read[p]
  <2>1. CASE q = r
    <3>1. \/ p \in DOMAIN tasks[r].read /\ tasks'[r].read[p] = tasks[r].read[p]
          \/ At(r, p) # Absent /\ tasks'[r].read[p] = At(r, p)
      BY <1>9, <2>1, StepTask
    <3> QED
      BY <3>1, <2>1, <1>2, <1>6 DEF HandedOver
  <2>2. CASE q # r
    BY <1>2, <1>9, <2>2 DEF HandedOver
  <2> QED
    BY <2>1, <2>2
<1>10. ASSUME p = "config" PROVE m \in server'.loaded[p]
  <2>1. m \in server.loaded[p] /\ p \in Loadable /\ p \notin Synced
    BY <1>10 DEF HandedOver, Loadable, Started, Synced
  <2>2. m \in vol[p]
    BY <1>10, StagesAre DEF HandedOver, At
  <2>3. CASE server'.loaded = Loading(s, w) /\ (s.do = "save" => w = Writes(r, s))
    <3>1. Loading(s, w)[p] = IF s.do = "restart" \/ (s.do = "sync" /\ p \in Synced) THEN vol[p]
                             ELSE IF s.do = "save" /\ p = s.at THEN w[p]
                             ELSE server.loaded[p]
      BY <1>2, <1>3, <2>1, <2>3, LoadingAre
    <3>2. s.do = "save" => w = One(s.at, server.loaded[s.at] \cup {r})
      BY <2>3 DEF Writes
    <3> QED
      BY <3>1, <3>2, <2>1, <2>2, <2>3 DEF One
  <2> QED
    BY <1>1, <2>1, <2>3
<1> QED
  BY <1>7, <1>8, <1>9, <1>10 DEF HandedOver

LEMMA HandedStep ==
    ASSUME TypeInv, OrderInv, SureInv, HandedInv, NEW r \in Slots, StepOf(r) PROVE HandedInv'
<1>1. area' = area /\ layout' = layout
  BY StepOthers
<1> QED
  BY <1>1, HandedOverStep DEF HandedInv

-----------------------------------------------------------------------------
(* Updates of the profile are not lost *)

LEMMA AloneDomain ==
    ASSUME NEW op PROVE Places \cap (Together(op) \cup Published(op)) \subseteq Domain(op, "alone")
<1> DEFINE S == UNION {{s.at, s.from} : s \in StepsOf(op)}
<1>1. Domain(op, "alone") = Places \cap (S \cup Together(op) \cup Published(op))
  BY Zenon DEF Domain
<1> HIDE DEF S
<1> QED
  BY <1>1

LEMMA InDomain ==
    ASSUME NEW op \in Ops, NEW v \in Views(op), NEW x \in Entries(op, v), NEW p \in Domain(op, v)
    PROVE  p \in DOMAIN x.at
<1>1. Viewed(op, v, x)
  BY ViewFacts
<1> QED
  BY <1>1 DEF Viewed

LEMMA MineIn ==
    ASSUME NEW r, NEW base, NEW live, NEW c, Mine \in c PROVE r \in Value(r, base, live, c)
  BY Meanings DEF Value

LEMMA NamesIn ==
    ASSUME NEW op \in Ops, NEW v \in Views(op), NEW x \in Entries(op, v), NEW p \in DOMAIN x.at
    PROVE  x.at[p] \subseteq Names
<1>1. Viewed(op, v, x)
  BY ViewFacts
<1>2. \A z \in Entries(op, v) : \A q \in Domain(op, v) : z.at[q] \subseteq Names
  BY ViewsAreClosed
<1> QED
  BY <1>1, <1>2 DEF Viewed

\* The job r has not found its own mark when it began.
Unmarked(r, base, live) ==
    (\A p \in Shared : r \notin base[p]) /\ (\A p \in Loadable : r \notin live[p])

LEMMA OwnMark ==
    ASSUME NEW r \in Slots, NEW base, NEW live, Unmarked(r, base, live), NEW c, c \subseteq Names
    PROVE  r \in Value(r, base, live, c) <=> Mine \in c
<1>1. ASSUME NEW n \in c, r \in Meaning(r, base, live, n) PROVE n = Mine
  <2>1. n \in {Mine, HalfDone, Off} \/ (\E p \in Shared : n = Old(p)) \/ (\E p \in Loadable : n = Held(p))
    BY DEF Names
  <2>2. ~(\E p \in Shared : n = Old(p)) /\ ~(\E p \in Loadable : n = Held(p))
    BY <1>1, Meanings DEF Unmarked
  <2>3. n # HalfDone /\ n # Off
    BY <1>1, Meanings, SlotsAreTwo DEF Broken, Disabled
  <2> QED
    BY <2>1, <2>2, <2>3
<1> QED
  BY <1>1, MineIn DEF Value

LEMMA EditsFirst ==
    ASSUME TypeInv, OrderInv, Begun(1), tasks[1].op \in Edits PROVE area \in KeptAreas
<1>1. tasks[1].op \in Operations[area][1]
  BY SlotsAreTwo DEF OrderInv
<1>2. area \in DOMAIN Operations
  BY AreasAssumption DEF TypeInv
<1>3. \A a \in DOMAIN Operations \ KeptAreas : Operations[a][1] \cap Edits = {}
  BY UpdatesAreWritten
<1> QED
  BY <1>1, <1>2, <1>3

LEMMA UpdateStep ==
    ASSUME TypeInv, OrderInv, FreshInv, TrackedInv, SureInv, UpdateInv, NEW r \in Slots, StepOf(r), FreshInv'
    PROVE  UpdateInv'
<1>1. /\ Running(r) /\ Begun(r) /\ Begun(r)' /\ tasks[r].op \in Ops /\ layout' = layout
      /\ tasks'[r].op = tasks[r].op /\ tasks'[r].alone = tasks[r].alone
      /\ \A q \in Slots \ {r} : /\ tasks'[q] = tasks[q] /\ (Running(q)' <=> Running(q))
                                /\ (Begun(q)' <=> Begun(q))
  BY StepOthers, StepTask
<1>2. \A q \in Slots : Begun(q)' /\ tasks'[q].op \in Edits /\ Unmixed(q)' => tasks'[q].alone
  <2>1. \A q \in Slots : tasks'[q].op = tasks[q].op /\ tasks'[q].alone = tasks[q].alone /\ (Begun(q)' <=> Begun(q))
    BY <1>1
  <2>2. \A q \in Slots : Unmixed(q)' <=> Unmixed(q)
    BY <2>1 DEF Unmixed, Begun
  <2> QED
    BY <2>1, <2>2 DEF UpdateInv
<1>3. ASSUME NEW q \in Slots, tasks'[q].mode = "done", tasks'[q].op \in Edits, tasks'[q].alone
      PROVE  IF q = 1 THEN HandedOver("profile", 1)' ELSE q \in vol'["profile"]
  <2>1. CASE q # r
    <3>1. /\ tasks[q].mode = "done" /\ tasks[q].op \in Edits /\ tasks[q].alone
          /\ IF q = 1 THEN HandedOver("profile", 1) ELSE q \in vol["profile"]
      BY <2>1, <1>1, <1>3 DEF UpdateInv
    <3>2. q = 1
      <4>1. r < q => FALSE
        BY <3>1, <2>1, <1>1, Alone
      <4> QED
        BY <4>1, <2>1, SlotsAreTwo
    <3>3. "profile" \in Handed /\ area \in KeptAreas
      BY <3>1, <3>2, EditsFirst DEF Handed, Begun
    <3> QED
      BY <3>1, <3>2, <3>3, HandedOverStep
  <2>2. CASE q = r
    <3>1. tasks[r].alone /\ tasks[r].op \in Edits /\ tasks'[r].mode = "done"
      BY <2>2, <1>1, <1>3
    <3>2. /\ "alone" \in Views(tasks[r].op) /\ "trashProfile" \notin Changed(tasks[r].op)
          /\ \A x \in DoneOf(tasks[r].op, "alone") : Mine \in x.at["profile"]
          /\ "profile" \in Domain(tasks[r].op, "alone")
      BY <3>1, UpdatesAreWritten
    <3>3. Valid(r, "alone")
      BY <3>1 DEF Valid, Owned
    <3>4. PICK y, base, live : Follows(y, r, "alone", base, live)
      BY <3>2, <3>3, StepLands
    <3>5. y \in DoneOf(tasks[r].op, "alone") /\ y \in Entries(tasks[r].op, "alone")
      BY <3>1, <3>4, <1>1, DoneIn DEF Follows
    <3>6. "profile" \in DOMAIN y.at
      BY <3>2, <3>5, <1>1, InDomain
    <3>7. At(r, "profile")' = Value(r, base, live, y.at["profile"])
      BY <3>4, <3>6 DEF Follows, Shows
    <3>8. r \in vol'["profile"]
      BY <3>2, <3>5, <3>7, MineIn DEF At, Private
    <3>9. CASE r = 1
      <4>1. ASSUME NEW n \in Slots, n # r PROVE ~Begun(n)'
        <5>1. r < n
          BY <3>9, <4>1, SlotsAreTwo
        <5>2. ~Begun(n)
          BY <5>1, <3>1, <1>1 DEF OrderInv
        <5> QED
          BY <5>2, <4>1, <1>1
      <4>2. \A n \in Slots : own'[n]["trashProfile"] = Absent
        <5>1. "trashProfile" \in Private
          BY DEF Private
        <5> QED
          BY <4>1, <5>1, <3>2, <1>1 DEF FreshInv
      <4>3. Stages("profile") = {"profile", "trashProfile"} /\ "profile" \notin Private
            /\ "trashProfile" \in Private
        BY DEF Stages, Private
      <4>4. \A n \in Slots : At(n, "profile")' = vol'["profile"] /\ At(n, "trashProfile")' = Absent
        BY <4>2, <4>3 DEF At
      <4>5. \A n \in Slots : ~Running(n)'
        BY <4>1, <3>1 DEF Running, Begun
      <4>6. HandedOver("profile", 1)'
        BY <4>3, <4>4, <4>5, <3>8, <3>9, SlotsAreTwo DEF HandedOver
      <4> QED
        BY <4>6, <2>2, <3>9
    <3>10. CASE r # 1
      BY <3>8, <3>10, <2>2
    <3> QED
      BY <3>9, <3>10
  <2> QED
    BY <2>1, <2>2
<1> QED
  BY <1>2, <1>3 DEF UpdateInv

-----------------------------------------------------------------------------
(* What a job that ran alone has left *)

\* How a job has left the places of view v, when it has ended.
LEMMA StepEnds ==
    ASSUME TypeInv, OrderInv, BaseInv, TrackedInv, NEW r \in Slots, StepOf(r), ~Running(r)',
           NEW v \in Views(tasks[r].op), v \notin Owned, v = "alone" => tasks[r].alone
    PROVE  \E y, base, live :
              /\ base = tasks[r].base /\ live = tasks[r].live /\ Unmarked(r, base, live)
              /\ y \in Entries(tasks[r].op, v)
              /\ tasks'[r].mode = "done" => y \in DoneOf(tasks[r].op, v)
              /\ tasks'[r].mode = "failed" => y \in FailedOf(tasks[r].op, v)
              /\ tasks'[r].mode \in {"done", "failed"}
              /\ Shows(y, r, v, base, live)'
              /\ \A p \in Domain(tasks[r].op, v) :
                    /\ p \in DOMAIN y.at /\ At(r, p)' = Value(r, base, live, y.at[p])
                    /\ r \in At(r, p)' <=> Mine \in y.at[p]
<1>1. Running(r) /\ tasks[r].op \in Ops
  BY StepOthers
<1>2. tasks'[r].mode \in {"done", "failed"} /\ tasks'[r].op = tasks[r].op
  BY StepTask DEF Running
<1>3. Valid(r, v)
  BY DEF Valid
<1>4. PICK y, base, live : /\ base = tasks[r].base /\ live = tasks[r].live
                           /\ Follows(y, r, v, base, live)
  BY <1>3, StepLands
<1>5. /\ y \in Entries(tasks[r].op, v)
      /\ tasks'[r].mode = "done" => y \in DoneOf(tasks[r].op, v)
      /\ tasks'[r].mode = "failed" => y \in FailedOf(tasks[r].op, v)
  BY <1>2, <1>4, DoneIn DEF Follows
<1>6. Unmarked(r, base, live)
  BY <1>1, <1>4 DEF BaseInv, Unmarked
<1>7. Shows(y, r, v, base, live)'
  BY <1>4 DEF Follows
<1>8. ASSUME NEW p \in Domain(tasks[r].op, v)
      PROVE  /\ p \in DOMAIN y.at /\ At(r, p)' = Value(r, base, live, y.at[p])
             /\ r \in At(r, p)' <=> Mine \in y.at[p]
  <2>1. p \in DOMAIN y.at
    BY <1>1, <1>5, InDomain
  <2>2. At(r, p)' = Value(r, base, live, y.at[p])
    BY <1>7, <2>1 DEF Shows
  <2>3. y.at[p] \subseteq Names
    BY <1>1, <1>5, <2>1, NamesIn
  <2> QED
    BY <2>1, <2>2, <2>3, <1>6, OwnMark
<1> QED
  BY <1>2, <1>4, <1>5, <1>6, <1>7, <1>8

LEMMA RuntimeStep ==
    ASSUME TypeInv, OrderInv, BaseInv, TrackedInv, RuntimeInv, NEW r \in Slots, StepOf(r)
    PROVE  RuntimeInv'
<1>1. /\ Running(r) /\ tasks[r].op \in Ops /\ area' = area
      /\ tasks'[r].op = tasks[r].op /\ tasks'[r].alone = tasks[r].alone
      /\ \A q \in Slots \ {r} : tasks'[q] = tasks[q]
  BY StepOthers, StepTask
<1>2. ASSUME NEW q \in Slots, tasks'[q].op \in Installing, tasks'[q].alone, tasks'[q].mode = "done",
             q \in vol'["config"]
      PROVE  vol'["java"] = {q}
  <2>1. CASE q # r
    <3>1. Begun(q) /\ tasks[q].op \in Installing /\ tasks[q].alone
      BY <2>1, <1>1, <1>2 DEF Begun
    <3>2. q # 1
      <4>1. area \in DOMAIN Operations /\ tasks[q].op \in Operations[area][q]
        BY <3>1, OpKnown
      <4> QED
        BY <3>1, <4>1, RuntimesAreWhole
    <3>3. r < q
      BY <2>1, <3>2, SlotsAreTwo
    <3> QED
      BY <3>1, <3>3, <2>1, <1>1, Alone
  <2>2. CASE q = r
    <3>1. /\ "alone" \in Views(tasks[r].op) /\ {"config", "java"} \subseteq Domain(tasks[r].op, "alone")
          /\ \A x \in DoneOf(tasks[r].op, "alone") : Mine \in x.at["config"] => x.at["java"] = {Mine}
      BY <2>2, <1>1, <1>2, RuntimesAreWhole DEF Runtimes
    <3>2. ~Running(r)' /\ tasks[r].alone
      BY <2>2, <1>1, <1>2 DEF Running
    <3>3. "alone" \notin Owned /\ "config" \notin Private /\ "java" \notin Private
      BY DEF Owned, Private
    <3>4. PICK y, base, live :
             /\ tasks'[r].mode = "done" => y \in DoneOf(tasks[r].op, "alone")
             /\ \A p \in Domain(tasks[r].op, "alone") :
                   /\ p \in DOMAIN y.at /\ At(r, p)' = Value(r, base, live, y.at[p])
                   /\ r \in At(r, p)' <=> Mine \in y.at[p]
      BY <3>1, <3>2, <3>3, StepEnds
    <3>5. At(r, "config")' = vol'["config"] /\ At(r, "java")' = vol'["java"]
      BY <3>3 DEF At
    <3>6. y.at["java"] = {Mine}
      BY <3>1, <3>4, <3>5, <2>2, <1>2
    <3> QED
      BY <3>1, <3>4, <3>5, <3>6, <2>2, Values
  <2> QED
    BY <2>1, <2>2
<1> QED
  BY <1>2 DEF RuntimeInv

LEMMA OrphanStep ==
    ASSUME TypeInv, OrderInv, BaseInv, TrackedInv, NoOrphanToken, NEW r \in Slots, StepOf(r)
    PROVE  NoOrphanToken'
<1>1. /\ Running(r) /\ Begun(r) /\ tasks[r].op \in Ops /\ tasks'[r].op = tasks[r].op
      /\ \A q \in Slots \ {r} : tasks'[q] = tasks[q] /\ (Running(q)' <=> Running(q))
  BY StepOthers, StepTask
<1>2. "rcConfig" \in Shared \ Private /\ "credential" \in Shared \ Private
  BY DEF Shared, Private
<1>3. ASSUME NEW q \in Slots, ~Running(q)', tasks'[q].op = "ProvisionRemote", ~tasks'[q].hurt,
             tasks'[q].mode # "dead"
      PROVE  q \in vol'["rcConfig"] <=> q \in vol'["credential"]
  <2>0. /\ "token" \in Views("ProvisionRemote") /\ "token" # "alone" /\ "token" \notin Owned
        /\ {"rcConfig", "credential"} \subseteq Domain("ProvisionRemote", "token")
    BY TokensAgree DEF Domain, Owned
  <2>1. CASE q = r
    <3>1. tasks[r].op = "ProvisionRemote"
      BY <2>1, <1>1, <1>3
    <3>2. PICK y, base, live :
              /\ tasks'[r].mode = "done" => y \in DoneOf("ProvisionRemote", "token")
              /\ tasks'[r].mode = "failed" => y \in FailedOf("ProvisionRemote", "token")
              /\ tasks'[r].mode \in {"done", "failed"}
              /\ Shows(y, r, "token", base, live)'
              /\ \A p \in Domain("ProvisionRemote", "token") : r \in At(r, p)' <=> Mine \in y.at[p]
      BY <2>0, <2>1, <3>1, <1>3, StepEnds
    <3>3. ~y.hurt
      BY <3>2, <2>1, <1>3 DEF Shows
    <3>4. Mine \in y.at["rcConfig"] <=> Mine \in y.at["credential"]
      BY <3>2, <3>3, TokensAgree
    <3>5. At(r, "rcConfig")' = vol'["rcConfig"] /\ At(r, "credential")' = vol'["credential"]
      BY <1>2 DEF At
    <3> QED
      BY <2>0, <2>1, <3>2, <3>4, <3>5
  <2>2. CASE q # r
    <3>1. tasks[q].op = "ProvisionRemote" /\ ~Running(q) /\ ~tasks[q].hurt /\ tasks[q].mode # "dead"
      BY <2>2, <1>1, <1>3
    <3>2. Begun(q)
      BY <3>1 DEF OrderInv, NoTask
    <3>3. Domain("ProvisionRemote", "token") \cap Shared \cap Changed(tasks[r].op) = {}
      BY <3>1, <3>2, <2>0, <2>2, <1>1, Apart
    <3>4. vol'["rcConfig"] = vol["rcConfig"] /\ vol'["credential"] = vol["credential"]
      BY <3>3, <2>0, <1>2, StepChanges
    <3> QED
      BY <3>1, <3>4 DEF NoOrphanToken
  <2> QED
    BY <2>1, <2>2
<1> QED
  BY <1>3 DEF NoOrphanToken

-----------------------------------------------------------------------------
(* The marker of the module follows its jar *)

\* Only a job in the first slot writes the marker, and it writes its own number or nothing.
LEMMA MarkerWrites ==
    ASSUME TypeInv, OrderInv, NEW r \in Slots, StepOf(r)
    PROVE  /\ "moduleVersion" \in Changed(tasks[r].op) => r = 1
           /\ vol'["moduleVersion"] \in {vol["moduleVersion"], {r}, Absent}
           /\ "moduleVersion" \notin Changed(tasks[r].op) => vol'["moduleVersion"] = vol["moduleVersion"]
<1>1. Running(r) /\ Begun(r)
  BY StepOthers
<1>2. area \in DOMAIN Operations /\ tasks[r].op \in Operations[area][r]
  BY <1>1, OpKnown
<1>3. "moduleVersion" \in Shared /\ "moduleVersion" \notin Trees
  BY DEF Shared, Trees
<1>4. "moduleVersion" \notin Changed(tasks[r].op) => vol'["moduleVersion"] = vol["moduleVersion"]
  BY <1>3, StepChanges
<1>5. ASSUME "moduleVersion" \in Changed(tasks[r].op)
      PROVE  r = 1 /\ \A s \in StepsOf(tasks[r].op) : "moduleVersion" \in Targets(s) => s.do \in {"put", "drop"}
  <2>1. r = 1
    <3>1. r # 2
      BY <1>2, <1>5, MarkersFollow
    <3> QED
      BY <3>1, SlotsAreTwo
  <2> QED
    BY <2>1, <1>2, <1>5, MarkersFollow
<1>6. ASSUME "moduleVersion" \in Changed(tasks[r].op)
      PROVE  vol'["moduleVersion"] \in {vol["moduleVersion"], {r}, Absent}
  <2> DEFINE s == StepNow(r)
  <2>1. PICK w : Outcome(r, s, w) /\ Store(r, w)
    BY StepStores
  <2>2. s \in StepsOf(tasks[r].op) /\ StepOK(s)
    BY <1>1, Position
  <2>3. DOMAIN w \subseteq Targets(s)
    BY <2>1, <2>2, <1>1, OutcomesAre
  <2>4. vol'["moduleVersion"] = IF "moduleVersion" \in DOMAIN w THEN w["moduleVersion"] ELSE vol["moduleVersion"]
    BY <2>1, <1>3, StorePoints
  <2>5. ASSUME "moduleVersion" \in DOMAIN w PROVE w["moduleVersion"] \in {{r}, Absent}
    <3>1. "moduleVersion" \in Targets(s)
      BY <2>3, <2>5
    <3>2. s.do \in {"put", "drop"}
      BY <3>1, <2>2, <1>5, <1>6
    <3> HIDE DEF s
    <3>3. s.at = "moduleVersion"
      BY <3>1, <3>2 DEF Targets, Passive
    <3>4. Half(r, s) = {}
      BY <3>2, <3>3, <1>3 DEF Half
    <3>5. w = Writes(r, s) \/ w = One(s.at, Absent)
      BY <3>4, <2>1, <2>5 DEF Outcome, Nothing
    <3>6. Writes(r, s) \in {One(s.at, {r}), One(s.at, Absent)}
      BY <3>2 DEF Writes
    <3> QED
      BY <3>3, <3>5, <3>6 DEF One
  <2> QED
    BY <2>4, <2>5
<1> QED
  BY <1>3, <1>4, <1>5, <1>6

\* A removal moves the jar aside, takes it back or drops it.
LEMMA MarkerKept ==
    ASSUME TypeInv, OrderInv, NEW r \in Slots, StepOf(r), NEW q \in Slots, q # r, Begun(q), q = 1,
           "moduleVersion" \in Changed(tasks[q].op),
           NEW good, Absent \in good,
           vol["moduleJar"] \in good, \A n \in Slots : own[n]["moduleStaged"] \in good
    PROVE  vol'["moduleJar"] \in good /\ \A n \in Slots : own'[n]["moduleStaged"] \in good
<1> DEFINE s == StepNow(r)
<1>1. Running(r) /\ Begun(r)
  BY StepOthers
<1>2. PICK w : Outcome(r, s, w) /\ Store(r, w)
  BY StepStores
<1>3. s \in StepsOf(tasks[r].op) /\ StepOK(s)
  BY <1>1, Position
<1>4. DOMAIN w \subseteq Targets(s)
  BY <1>1, <1>2, <1>3, OutcomesAre
<1>5. /\ "moduleJar" \in Shared /\ "moduleJar" \notin Trees /\ "moduleJar" \notin Private
      /\ "moduleStaged" \in Private /\ "moduleStaged" \notin Trees /\ "moduleJar" \in Places
      /\ "moduleStaged" \in Places
  BY DEF Shared, Trees, Private, Places, Started
<1>6. Targets(s) \cap {"moduleJar", "moduleStaged"} # {} =>
         \/ s.do = "move" /\ {s.at, s.from} = {"moduleJar", "moduleStaged"}
         \/ s.do = "drop"
  <2>1. r = 2
    BY SlotsAreTwo
  <2>2. /\ area \in DOMAIN Operations /\ tasks[r].op \in Operations[area][2]
        /\ tasks[q].op \in Operations[area][1]
    BY <2>1, <1>1, OpKnown
  <2> HIDE DEF s
  <2>3. \A other \in Operations[area][2] : \A x \in StepsOf(other) :
           Targets(x) \cap {"moduleJar", "moduleStaged"} # {} =>
              \/ x.do = "move" /\ {x.at, x.from} = {"moduleJar", "moduleStaged"}
              \/ x.do = "drop"
    BY <2>2, MarkersFollow
  <2> QED
    BY <2>2, <2>3, <1>3
<1>7. ASSUME NEW p \in {"moduleJar", "moduleStaged"}, p \in DOMAIN w PROVE w[p] \in good
  <2> HIDE DEF s
  <2>1. p \in Targets(s)
    BY <1>4, <1>7
  <2>2. CASE s.do = "move" /\ {s.at, s.from} = {"moduleJar", "moduleStaged"}
    <3>1. At(r, s.from) \in good /\ s.at \notin Trees /\ s.at # s.from
      BY <2>2, <1>5 DEF At
    <3>2. Half(r, s) = {}
      BY <2>2 DEF Half
    <3>3. Writes(r, s) = Two(s.from, Absent, s.at, At(r, s.from))
      BY <2>2, <3>1 DEF Writes, Absent
    <3>4. w = Writes(r, s) \/ w = One(s.at, Absent)
      BY <3>2, <1>2, <1>7 DEF Outcome, Nothing
    <3>5. \A h \in DOMAIN Writes(r, s) : Writes(r, s)[h] \in good
      BY <3>1, <3>3 DEF Two
    <3>6. \A h \in DOMAIN One(s.at, Absent) : One(s.at, Absent)[h] \in good
      BY DEF One
    <3> QED
      BY <3>4, <3>5, <3>6, <1>7
  <2>3. CASE s.do = "drop"
    <3>1. s.at = p
      BY <2>1, <2>3 DEF Targets, Passive
    <3>2. Half(r, s) = {}
      BY <2>3, <3>1, <1>5 DEF Half
    <3>3. Writes(r, s) = One(s.at, Absent)
      BY <2>3 DEF Writes
    <3>4. w = One(s.at, Absent)
      BY <3>2, <3>3, <1>2, <1>7 DEF Outcome, Nothing
    <3> QED
      BY <3>1, <3>4 DEF One
  <2> QED
    BY <2>1, <2>2, <2>3, <1>6
<1>8. /\ vol'["moduleJar"] = IF "moduleJar" \in DOMAIN w THEN w["moduleJar"] ELSE vol["moduleJar"]
      /\ own'[r]["moduleStaged"] = IF "moduleStaged" \in DOMAIN w THEN w["moduleStaged"]
                                   ELSE own[r]["moduleStaged"]
      /\ \A n \in Slots \ {r} : own'[n] = own[n]
  BY <1>2, <1>5, StorePoints
<1> QED
  BY <1>7, <1>8

LEMMA MarkerStep ==
    ASSUME TypeInv, OrderInv, BaseInv, TrackedInv, MarkerInv, NEW r \in Slots, StepOf(r), FreshInv'
    PROVE  MarkerInv'
<1>1. /\ Running(r) /\ Begun(r) /\ Begun(r)' /\ tasks[r].op \in Ops /\ area' = area
      /\ tasks'[r].op = tasks[r].op /\ tasks'[r].alone = tasks[r].alone
      /\ \A q \in Slots \ {r} : /\ tasks'[q] = tasks[q] /\ (Running(q)' <=> Running(q))
                                /\ (Begun(q)' <=> Begun(q))
  BY StepOthers, StepTask
<1>2. ASSUME NEW q \in Slots, q \in vol'["moduleVersion"]
      PROVE  q = 1 /\ "moduleVersion" \in Changed(tasks'[q].op)
  <2>1. tasks'[q].op = tasks[q].op
    BY <1>1
  <2>2. CASE q \in vol["moduleVersion"]
    BY <2>1, <2>2 DEF MarkerInv
  <2>3. CASE q \notin vol["moduleVersion"]
    <3>1. "moduleVersion" \in Changed(tasks[r].op) /\ r = 1
      BY <2>3, <1>2, MarkerWrites
    <3>2. q = r
      BY <2>3, <1>2, MarkerWrites DEF Absent
    <3> QED
      BY <2>1, <3>1, <3>2
  <2> QED
    BY <2>2, <2>3
<1>3. ASSUME NEW q \in Slots, Begun(q)', ~Running(q)', tasks'[q].alone, q \in vol'["moduleVersion"]
      PROVE  /\ vol'["moduleJar"] \in {Absent, {q}}
             /\ \A n \in Slots : own'[n]["moduleStaged"] \in {Absent, {q}}
  <2>1. q = 1 /\ "moduleVersion" \in Changed(tasks[q].op) /\ tasks[q].alone /\ Begun(q)
    BY <1>1, <1>2, <1>3
  <2>2. CASE q = r
    <3>0. area \in DOMAIN Operations /\ tasks[r].op \in Operations[area][1]
      BY <2>1, <2>2, OpKnown
    <3>1. /\ "moduleStaged" \notin Changed(tasks[r].op) /\ "alone" \in Views(tasks[r].op)
          /\ {"moduleVersion", "moduleJar"} \subseteq Domain(tasks[r].op, "alone")
          /\ \A x \in Entries(tasks[r].op, "alone") :
                Mine \in x.at["moduleVersion"] => x.at["moduleJar"] \in {{}, {Mine}}
      BY <2>1, <2>2, <3>0, MarkersFollow
    <3>2. /\ "alone" \notin Owned /\ "moduleVersion" \notin Private /\ "moduleJar" \notin Private
          /\ "moduleStaged" \in Private
      BY DEF Owned, Private
    <3>3. PICK y, base, live :
             /\ y \in Entries(tasks[r].op, "alone")
             /\ \A p \in Domain(tasks[r].op, "alone") :
                   /\ p \in DOMAIN y.at /\ At(r, p)' = Value(r, base, live, y.at[p])
                   /\ r \in At(r, p)' <=> Mine \in y.at[p]
      BY <2>1, <2>2, <1>3, <3>1, <3>2, StepEnds
    <3>4. /\ At(r, "moduleVersion")' = vol'["moduleVersion"]
          /\ At(r, "moduleJar")' = vol'["moduleJar"]
      BY <3>2 DEF At
    <3>5. y.at["moduleJar"] \in {{}, {Mine}}
      BY <3>1, <3>3, <3>4, <2>2, <1>3
    <3>6. vol'["moduleJar"] \in {Absent, {r}}
      <4>1. vol'["moduleJar"] = Value(r, base, live, y.at["moduleJar"])
        BY <3>1, <3>3, <3>4
      <4>2. Value(r, base, live, {}) = Absent /\ Value(r, base, live, {Mine}) = {r}
        BY Values
      <4> QED
        BY <4>1, <4>2, <3>5
    <3>7. \A n \in Slots \ {r} : ~Begun(n)'
      BY <2>1, <2>2, <1>1, Alone, SlotsAreTwo
    <3>8. \A n \in Slots : own'[n]["moduleStaged"] = Absent
      BY <3>1, <3>2, <3>7, <1>1 DEF FreshInv
    <3> QED
      BY <3>6, <3>8, <2>2
  <2>3. CASE q # r
    <3>1. "moduleVersion" \notin Changed(tasks[r].op)
      BY <2>1, <2>3, MarkerWrites
    <3>2. q \in vol["moduleVersion"] /\ ~Running(q)
      BY <3>1, <2>3, <1>1, <1>3, MarkerWrites
    <3>3. /\ vol["moduleJar"] \in {Absent, {q}}
          /\ \A n \in Slots : own[n]["moduleStaged"] \in {Absent, {q}}
      BY <3>2, <2>1 DEF MarkerInv
    <3> QED
      BY <3>3, <2>1, <2>3, MarkerKept
  <2> QED
    BY <2>2, <2>3
<1> QED
  BY <1>2, <1>3 DEF MarkerInv

-----------------------------------------------------------------------------
(* The cache of the installer, while nothing has failed half-way *)

LEMMA HurtIs ==
    ASSUME TypeInv, OrderInv, NEW r \in Slots, Running(r)
    PROVE  /\ Noted(r, StepNow(r)).hurt = tasks[r].hurt
           /\ \A h \in BOOLEAN : Hurt(tasks[r], h).hurt = h
<1>1. "hurt" \in DOMAIN tasks[r]
  BY DEF TypeInv, TaskOK
<1> QED
  BY <1>1 DEF Noted, Hurt

\* In the areas with a cache only a fault leaves a task hurt or LaunchServer down.
LEMMA QuietStep ==
    ASSUME TypeInv, OrderInv, area \in {"builds", "modpacks"}, NEW r \in Slots, StepOf(r),
           faults' = 0, server.up, ~tasks[r].hurt
    PROVE  faults = 0 /\ server'.up /\ ~tasks'[r].hurt
<1> DEFINE s == StepNow(r)
<1>1. Running(r) /\ tasks[r].op \in Ops
  BY StepOthers
<1>2. faults \in Nat /\ ~Fault
  <2>1. faults \in Nat
    BY FaultsAssumption DEF TypeInv
  <2> QED
    BY <2>1 DEF Fault
<1>3. faults = 0
  BY <1>2, StepStores
<1>4. s.do # "restart" /\ (tasks[r].mode = "undo" => s.do \notin {"find", "read", "copy", "move", "miss", "check"})
  <2>1. tasks[r].op \in OpsOf(area) /\ s \in StepsOf(tasks[r].op)
    BY <1>1, OpKnown, Position
  <2>2. \A x \in StepsOf(tasks[r].op) : x.do # "restart"
    BY <2>1, CachesAreQuiet
  <2>3. ASSUME tasks[r].mode = "undo" PROVE s.do \notin {"find", "read", "copy", "move", "miss", "check"}
    <3>1. /\ tasks[r].at \in DOMAIN Programs[tasks[r].op]
          /\ tasks[r].un \in DOMAIN Undos[tasks[r].op][tasks[r].at]
          /\ s = Undos[tasks[r].op][tasks[r].at][tasks[r].un]
      BY <2>3, <1>1, Position
    <3> QED
      BY <3>1, <2>1, CachesAreQuiet
  <2> QED
    BY <2>1, <2>2, <2>3
<1>5. tasks[r].mode = "undo" => Works(r, s)
  BY <1>4 DEF Works
<1>6. /\ Noted(r, s).hurt = FALSE
      /\ \A h \in BOOLEAN : Hurt(tasks[r], h).hurt = h
  BY <1>1, HurtIs
<1> HIDE DEF s
<1>7. CASE Skip(r) \/ Return(r)
  <2>1. UNCHANGED server
    BY <1>7, SkipIs, ReturnIs
  <2>2. SameTask(tasks[r], tasks'[r])
    BY <1>7, SkipIs, ReturnIs DEF GoesOn, GoesTo, GoesBack
  <2> QED
    BY <2>1, <2>2, <1>3 DEF SameTask
<1>8. CASE Succeed(r)
  <2>1. /\ server' = [up |-> server.up \/ s.do = "restart", loaded |-> Loading(s, Writes(r, s))]
        /\ GoesOn(Noted(r, s), tasks'[r])
    BY <1>8, SucceedIs DEF s
  <2>2. SameTask(Noted(r, s), tasks'[r])
    BY <2>1 DEF GoesOn, GoesTo, GoesBack
  <2> QED
    BY <2>1, <2>2, <1>3, <1>6 DEF SameTask
<1>9. CASE Refuse(r)
  <2>1. /\ UNCHANGED server
        /\ IF tasks[r].mode = "undo" /\ Works(r, s) THEN Fault ELSE UNCHANGED faults
        /\ GoesOut(Hurt(tasks[r], tasks[r].hurt \/ tasks[r].mode = "undo"), tasks'[r], s)
    BY <1>9, RefuseIs DEF s
  <2>2. tasks[r].mode # "undo"
    BY <2>1, <1>2, <1>5
  <2>3. SameTask(Hurt(tasks[r], FALSE), tasks'[r])
    <3>1. GoesOut(Hurt(tasks[r], FALSE), tasks'[r], s)
      BY <2>1, <2>2
    <3> QED
      BY <3>1 DEF GoesOut, GoesOn, GoesDown, GoesTo, GoesBack
  <2> QED
    BY <2>1, <2>3, <1>3, <1>6 DEF SameTask
<1>10. CASE Break(r)
  BY <1>10, <1>2, BreakIs
<1>11. CASE Again(r)
  <2>1. /\ UNCHANGED server
        /\ tasks'[r] = [tasks[r] EXCEPT !.tries = @ + 1] \/ GoesDown(tasks[r], tasks'[r])
    BY <1>11, <1>2, AgainIs
  <2>2. CASE tasks'[r] = [tasks[r] EXCEPT !.tries = @ + 1]
    <3>1. tasks'[r].hurt = tasks[r].hurt
      BY <2>2
    <3> QED
      BY <3>1, <2>1, <1>3
  <2>3. CASE GoesDown(tasks[r], tasks'[r])
    BY <2>1, <2>3, <1>3 DEF GoesDown, GoesBack, SameTask
  <2> QED
    BY <2>1, <2>2, <2>3
<1>12. CASE RestartFails(r)
  BY <1>12, <1>4, RestartFailsIs DEF s
<1> QED
  BY <1>7, <1>8, <1>9, <1>10, <1>11, <1>12 DEF StepOf

\* A job that ends alone leaves the marker of the installer true.
LEMMA CachedEnds ==
    ASSUME TypeInv, OrderInv, BaseInv, TrackedInv, NEW r \in Slots, StepOf(r), ~Running(r)',
           tasks[r].alone, ~tasks'[r].hurt, Marked(tasks[r].base), Cached \cap Changed(tasks[r].op) # {}
    PROVE  Marked(vol)'
<1>1. Running(r) /\ tasks[r].op \in Ops /\ area \in DOMAIN Operations /\ tasks[r].op \in OpsOf(area)
  BY StepOthers, OpKnown
<1>2. /\ "alone" \in Views(tasks[r].op) /\ Cached \subseteq Domain(tasks[r].op, "alone")
      /\ \A x \in DoneOf(tasks[r].op, "alone") \cup FailedOf(tasks[r].op, "alone") : ~x.hurt =>
            \/ x.at["installer"] = {} \/ x.at["installerVersion"] = x.at["installer"]
            \/ \A p \in Cached : Unchanged(x, p)
  BY <1>1, InstallersAreMarked
<1>3. "alone" \notin Owned /\ "installer" \notin Private /\ "installerVersion" \notin Private
  BY DEF Owned, Private
<1>4. PICK y, base, live :
         /\ base = tasks[r].base
         /\ tasks'[r].mode = "done" => y \in DoneOf(tasks[r].op, "alone")
         /\ tasks'[r].mode = "failed" => y \in FailedOf(tasks[r].op, "alone")
         /\ tasks'[r].mode \in {"done", "failed"}
         /\ Shows(y, r, "alone", base, live)'
         /\ \A p \in Domain(tasks[r].op, "alone") : At(r, p)' = Value(r, base, live, y.at[p])
  BY <1>2, <1>3, StepEnds
<1>5. ~y.hurt
  BY <1>4 DEF Shows
<1>6. \A p \in Cached : vol'[p] = Value(r, base, live, y.at[p])
  BY <1>2, <1>3, <1>4 DEF At, Cached
<1>7. ASSUME NEW p PROVE Value(r, base, live, {Old(p)}) = base[p]
  <2>1. Value(r, base, live, {Old(p)}) = Meaning(r, base, live, Old(p))
    BY ValueOfOne
  <2>2. Meaning(r, base, live, Old(p)) = base[p]
    BY DEF Meaning, Old, Mine, HalfDone, Off
  <2> QED
    BY <2>1, <2>2
<1>8. Value(r, base, live, {}) = Absent
  BY Values
<1>9. Marked(base)
  BY <1>4
<1>10. \/ y.at["installer"] = {} \/ y.at["installerVersion"] = y.at["installer"]
       \/ \A p \in Cached : Unchanged(y, p)
  BY <1>2, <1>4, <1>5
<1> QED
  BY <1>6, <1>7, <1>8, <1>9, <1>10 DEF Cached, Marked, Unchanged

LEMMA CacheStep ==
    ASSUME TypeInv, OrderInv, BaseInv, TrackedInv, CacheInv, NEW r \in Slots, StepOf(r)
    PROVE  CacheInv'
<1>1. /\ Running(r) /\ Begun(r) /\ tasks[r].op \in Ops /\ area' = area /\ DOMAIN tasks' = Slots
      /\ tasks'[r].op = tasks[r].op /\ tasks'[r].alone = tasks[r].alone
      /\ \A q \in Slots \ {r} : tasks'[q] = tasks[q] /\ (Running(q)' <=> Running(q))
  BY StepOthers, StepTask, StepStores DEF OnlyTask
<1>2. area \in DOMAIN Operations /\ tasks[r].op \in OpsOf(area)
  BY <1>1, OpKnown
<1>3. Cached \cap Changed(tasks[r].op) = {} => (Marked(vol)' <=> Marked(vol))
  <2>1. Cached \subseteq Shared
    BY DEF Cached, Shared
  <2>2. Cached \cap Changed(tasks[r].op) = {} => \A p \in Cached : vol'[p] = vol[p]
    BY <2>1, StepChanges
  <2> QED
    BY <2>2 DEF Cached, Marked
<1>4. area \notin {"builds", "modpacks"} => Cached \cap Changed(tasks[r].op) = {}
  BY <1>2, InstallersAreMarked
<1>5. ASSUME area \in {"builds", "modpacks"}, faults' = 0
      PROVE  faults = 0 /\ server'.up /\ \A q \in Slots : ~tasks'[q].hurt
  <2>1. faults = 0
    <3>1. faults \in Nat
      BY FaultsAssumption DEF TypeInv
    <3> QED
      BY <3>1, <1>5, StepStores DEF Fault
  <2>2. server.up /\ \A q \in Slots : ~tasks[q].hurt
    BY <2>1, <1>5 DEF CacheInv
  <2>3. server'.up /\ ~tasks'[r].hurt
    BY <2>2, <1>5, QuietStep
  <2> QED
    BY <2>1, <2>2, <2>3, <1>1
<1>6. ASSUME faults' = 0, \A q \in Slots : tasks'[q] = NoTask \/ tasks'[q].alone
      PROVE  /\ Idle' => Marked(vol)'
             /\ \A q \in Slots : Running(q)' =>
                   /\ Marked(tasks'[q].base)
                   /\ Cached \cap Changed(tasks'[q].op) = {} => Marked(vol)'
  <2>1. faults = 0
    <3>1. faults \in Nat
      BY FaultsAssumption DEF TypeInv
    <3> QED
      BY <3>1, <1>6, StepStores DEF Fault
  <2>2. tasks[r].alone
    <3>1. tasks'[r] # NoTask
      <4>1. Begun(r)'
        BY StepOthers
      <4> QED
        BY <4>1 DEF Begun, NoTask
    <3> QED
      BY <3>1, <1>1, <1>6
  <2>3. \A q \in Slots : tasks[q] = NoTask \/ tasks[q].alone
    BY <2>2, <1>1, <1>6
  <2>4. Marked(tasks[r].base) /\ (Cached \cap Changed(tasks[r].op) = {} => Marked(vol))
    BY <2>1, <2>3, <1>1 DEF CacheInv
  <2>5. \A q \in Slots \ {r} : ~Running(q)'
    BY <2>2, <1>1, Alone
  <2>6. ASSUME Idle' PROVE Marked(vol)'
    <3>1. ~Running(r)'
      BY <2>6 DEF Idle
    <3>2. CASE Cached \cap Changed(tasks[r].op) = {}
      BY <3>2, <2>4, <1>3
    <3>3. CASE Cached \cap Changed(tasks[r].op) # {}
      <4>1. ~tasks'[r].hurt
        BY <3>3, <1>4, <1>5, <1>6
      <4> QED
        BY <3>1, <3>3, <4>1, <2>2, <2>4, CachedEnds
    <3> QED
      BY <3>2, <3>3
  <2>7. ASSUME NEW q \in Slots, Running(q)'
        PROVE  /\ Marked(tasks'[q].base)
               /\ Cached \cap Changed(tasks'[q].op) = {} => Marked(vol)'
    <3>1. q = r
      BY <2>5, <2>7
    <3>2. tasks'[r].base = tasks[r].base
      BY <2>7, <3>1, StepTask DEF Running
    <3> QED
      BY <3>1, <3>2, <2>4, <1>1, <1>3
  <2> QED
    BY <2>6, <2>7
<1>7. area \notin {"builds", "modpacks"} => Marked(vol)'
  BY <1>3, <1>4 DEF CacheInv
<1> QED
  BY <1>1, <1>5, <1>6, <1>7 DEF CacheInv

-----------------------------------------------------------------------------
(* Where a running job is, in the words of its entry *)

LEMMA Stands ==
    ASSUME TypeInv, OrderInv, BaseInv, TrackedInv, NEW r \in Slots, Running(r),
           NEW v \in Views(tasks[r].op), Valid(r, v)
    PROVE  \E x, base, live :
              /\ base = tasks[r].base /\ live = tasks[r].live /\ Unmarked(r, base, live)
              /\ InTable(tasks[r], v, x) /\ x \in Entries(tasks[r].op, v)
              /\ Shows(x, r, v, base, live)
              /\ \A p \in Domain(tasks[r].op, v) :
                    /\ p \in DOMAIN x.at /\ At(r, p) = Value(r, base, live, x.at[p])
                    /\ r \in At(r, p) <=> Mine \in x.at[p]
<1>1. tasks[r].op \in Ops /\ TaskOK(tasks[r]) /\ tasks[r].mode \in {"body", "undo"}
  BY Position, SimilarTasks
<1>2. PICK base : base = tasks[r].base
  OBVIOUS
<1>3. PICK live : live = tasks[r].live
  OBVIOUS
<1>4. PICK x \in Table(tasks[r], v) : Shows(x, r, v, base, live)
  BY <1>2, <1>3 DEF TrackedInv
<1>5. InTable(tasks[r], v, x)
  BY <1>1, <1>4 DEF InTable
<1>6. x \in Entries(tasks[r].op, v)
  BY <1>5, TableIn
<1>7. Unmarked(r, base, live)
  BY <1>2, <1>3 DEF BaseInv, Unmarked
<1>8. ASSUME NEW p \in Domain(tasks[r].op, v)
      PROVE  /\ p \in DOMAIN x.at /\ At(r, p) = Value(r, base, live, x.at[p])
             /\ r \in At(r, p) <=> Mine \in x.at[p]
  <2>1. p \in DOMAIN x.at
    BY <1>1, <1>6, InDomain
  <2>2. At(r, p) = Value(r, base, live, x.at[p])
    BY <1>4, <2>1 DEF Shows
  <2>3. x.at[p] \subseteq Names
    BY <1>1, <1>6, <2>1, NamesIn
  <2> QED
    BY <2>1, <2>2, <2>3, <1>7, OwnMark
<1> QED
  BY <1>2, <1>3, <1>4, <1>5, <1>6, <1>7, <1>8

-----------------------------------------------------------------------------
(* A crash *)

LEMMA CrashIs ==
    ASSUME TypeInv, Crash
    PROVE  /\ UNCHANGED <<area, layout, vol, own, server>> /\ Fault /\ DOMAIN tasks' = Slots
           /\ \A r \in Slots :
                 /\ TaskOK(tasks'[r]) /\ ~Running(r)' /\ (Begun(r)' <=> Begun(r))
                 /\ tasks'[r].op = tasks[r].op /\ tasks'[r].alone = tasks[r].alone
                 /\ tasks'[r].aborted = tasks[r].aborted
                 /\ IF Running(r) THEN tasks'[r].mode = "dead" /\ tasks'[r].read = <<>>
                    ELSE tasks'[r] = tasks[r]
<1>1. UNCHANGED <<area, layout, vol, own, server>> /\ Fault /\ DOMAIN tasks' = Slots
  BY DEF Crash
<1>2. ASSUME NEW r \in Slots
      PROVE  /\ TaskOK(tasks'[r]) /\ ~Running(r)' /\ (Begun(r)' <=> Begun(r))
             /\ tasks'[r].op = tasks[r].op /\ tasks'[r].alone = tasks[r].alone
             /\ tasks'[r].aborted = tasks[r].aborted
             /\ IF Running(r) THEN tasks'[r].mode = "dead" /\ tasks'[r].read = <<>>
                ELSE tasks'[r] = tasks[r]
  <2>1. TaskOK(tasks[r])
    BY DEF TypeInv
  <2>2. tasks'[r] = IF Running(r) THEN Ended(tasks[r], "dead") ELSE tasks[r]
    BY DEF Crash
  <2>3. CASE Running(r)
    <3>1. tasks'[r] = Ended(tasks[r], "dead")
      BY <2>2, <2>3
    <3>2. /\ DOMAIN tasks'[r] = DOMAIN tasks[r] /\ tasks'[r].mode = "dead" /\ tasks'[r].read = <<>>
          /\ tasks'[r].op = tasks[r].op /\ tasks'[r].alone = tasks[r].alone /\ tasks'[r].had = {}
          /\ tasks'[r].aborted = tasks[r].aborted /\ tasks'[r].hurt = tasks[r].hurt
      BY <3>1, <2>1 DEF Ended, TaskOK
    <3>3. TaskOK(tasks'[r])
      BY <3>2, <2>1 DEF TaskOK
    <3> QED
      BY <3>2, <3>3, <2>3 DEF Running, Begun
  <2>4. CASE ~Running(r)
    BY <2>1, <2>2, <2>4 DEF Running, Begun
  <2> QED
    BY <2>3, <2>4
<1> QED
  BY <1>1, <1>2

LEMMA CrashFaults ==
    ASSUME TypeInv, Crash PROVE faults' \in 1 .. MaxFaults
  BY CrashIs, FaultsAssumption DEF TypeInv, Fault

\* What a job replaces has its first content, at its place or beside it, wherever the job is.
LEMMA OwnedFound ==
    ASSUME TypeInv, OrderInv, BaseInv, TrackedInv, OwnedInv, NEW p \in layout \cap Owned, NEW r \in Slots,
           Begun(r), p \in Changed(tasks[r].op)
    PROVE  \E h \in Homes(p) : 0 \in At(r, h)
<1>1. CASE ~Running(r)
  BY <1>1 DEF OwnedInv
<1>2. CASE Running(r)
  <2>1. tasks[r].op \in Ops
    BY OpKnown
  <2>2. p \in Views(tasks[r].op) /\ Valid(r, p)
    BY <2>1, OwnedViews DEF Valid
  <2>3. PICK x, base, live : /\ base = tasks[r].base /\ live = tasks[r].live
                             /\ x \in Entries(tasks[r].op, p)
                             /\ Shows(x, r, p, base, live)
    BY <1>2, <2>2, Stands
  <2>4. base[p] = AsFound
    BY <2>3, <1>2 DEF BaseInv
  <2>5. PICK h \in Homes(p) : h \in DOMAIN x.at /\ 0 \in Value(r, base, live, x.at[h])
    BY <2>1, <2>2, <2>3, <2>4, OwnedEntry
  <2> QED
    BY <2>3, <2>5 DEF Shows
<1> QED
  BY <1>1, <1>2

LEMMA CrashOwned ==
    ASSUME TypeInv, OrderInv, BaseInv, TrackedInv, OwnedInv, Crash PROVE OwnedInv'
<1>1. /\ vol' = vol /\ own' = own /\ layout' = layout
      /\ \A r \in Slots : /\ Begun(r)' <=> Begun(r)
                          /\ tasks'[r].op = tasks[r].op
  BY CrashIs
<1>2. \A r \in Slots : \A h : At(r, h)' = At(r, h)
  BY <1>1 DEF At
<1>3. \A p \in layout \cap Owned :
         (\A r \in Slots : Begun(r) => p \notin Changed(tasks[r].op)) => vol[p] = AsFound
  BY DEF OwnedInv
<1> QED
  BY <1>1, <1>2, <1>3, OwnedFound DEF OwnedInv

\* While a job that runs alone has its mark on the marker, the jar is its own or away.
LEMMA MarkedWhile ==
    ASSUME TypeInv, OrderInv, FreshInv, BaseInv, TrackedInv, MarkerInv, NEW r \in Slots, Running(r),
           tasks[r].alone, r \in vol["moduleVersion"]
    PROVE  /\ vol["moduleJar"] \in {Absent, {r}}
           /\ \A q \in Slots : own[q]["moduleStaged"] \in {Absent, {r}}
<1>1. r = 1 /\ "moduleVersion" \in Changed(tasks[r].op)
  BY DEF MarkerInv
<1>2. Begun(r) /\ area \in DOMAIN Operations /\ tasks[r].op \in Operations[area][1] /\ tasks[r].op \in Ops
  BY <1>1, Position, OpKnown
<1>3. /\ "moduleStaged" \notin Changed(tasks[r].op) /\ "alone" \in Views(tasks[r].op)
      /\ {"moduleVersion", "moduleJar"} \subseteq Domain(tasks[r].op, "alone")
      /\ \A x \in Entries(tasks[r].op, "alone") :
            Mine \in x.at["moduleVersion"] => x.at["moduleJar"] \in {{}, {Mine}}
  BY <1>1, <1>2, MarkersFollow
<1>4. /\ Valid(r, "alone") /\ "moduleVersion" \notin Private /\ "moduleJar" \notin Private
      /\ "moduleStaged" \in Private
  BY DEF Valid, Owned, Private
<1>5. PICK x, base, live :
         /\ x \in Entries(tasks[r].op, "alone")
         /\ \A p \in Domain(tasks[r].op, "alone") :
               /\ p \in DOMAIN x.at /\ At(r, p) = Value(r, base, live, x.at[p])
               /\ r \in At(r, p) <=> Mine \in x.at[p]
  BY <1>3, <1>4, Stands
<1>6. At(r, "moduleVersion") = vol["moduleVersion"] /\ At(r, "moduleJar") = vol["moduleJar"]
  BY <1>4 DEF At
<1>7. x.at["moduleJar"] \in {{}, {Mine}}
  BY <1>3, <1>5, <1>6
<1>8. vol["moduleJar"] \in {Absent, {r}}
  <2>1. vol["moduleJar"] = Value(r, base, live, x.at["moduleJar"])
    BY <1>3, <1>5, <1>6
  <2>2. Value(r, base, live, {}) = Absent /\ Value(r, base, live, {Mine}) = {r}
    BY Values
  <2> QED
    BY <2>1, <2>2, <1>7
<1>9. \A q \in Slots \ {r} : ~Begun(q)
  BY <1>1, Alone, SlotsAreTwo
<1>10. \A q \in Slots : own[q]["moduleStaged"] = Absent
  BY <1>3, <1>4, <1>9 DEF FreshInv
<1> QED
  BY <1>8, <1>10

LEMMA CrashMarker ==
    ASSUME TypeInv, OrderInv, FreshInv, BaseInv, TrackedInv, MarkerInv, Crash PROVE MarkerInv'
<1>1. /\ vol' = vol /\ own' = own
      /\ \A r \in Slots : /\ Begun(r)' <=> Begun(r)
                          /\ tasks'[r].op = tasks[r].op /\ tasks'[r].alone = tasks[r].alone
  BY CrashIs
<1>2. ASSUME NEW r \in Slots, Begun(r), tasks[r].alone, r \in vol["moduleVersion"]
      PROVE  /\ vol["moduleJar"] \in {Absent, {r}}
             /\ \A q \in Slots : own[q]["moduleStaged"] \in {Absent, {r}}
  <2>1. CASE ~Running(r)
    BY <1>2, <2>1 DEF MarkerInv
  <2>2. CASE Running(r)
    BY <1>2, <2>2, MarkedWhile
  <2> QED
    BY <2>1, <2>2
<1> QED
  BY <1>1, <1>2 DEF MarkerInv

LEMMA CrashStep == ASSUME IInv, Crash PROVE IInv'
<1> USE DEF IInv
<1>1. /\ UNCHANGED <<area, layout, vol, own, server>> /\ Fault /\ DOMAIN tasks' = Slots
      /\ \A r \in Slots :
            /\ TaskOK(tasks'[r]) /\ ~Running(r)' /\ (Begun(r)' <=> Begun(r))
            /\ tasks'[r].op = tasks[r].op /\ tasks'[r].alone = tasks[r].alone
            /\ tasks'[r].aborted = tasks[r].aborted
            /\ IF Running(r) THEN tasks'[r].mode = "dead" /\ tasks'[r].read = <<>>
               ELSE tasks'[r] = tasks[r]
  BY CrashIs
<1>2. faults' \in 1 .. MaxFaults /\ faults' \in Nat /\ faults' # 0
  BY CrashFaults, FaultsAssumption
<1>3. \A r \in Slots : \A h : At(r, h)' = At(r, h)
  BY <1>1 DEF At
<1>4. TypeInv'
  BY <1>1, <1>2 DEF TypeInv
<1>5. OrderInv'
  <2>1. \A r \in Slots : IF Begun(r)' THEN tasks'[r].op \in Operations[area'][r] ELSE tasks'[r] = NoTask
    BY <1>1 DEF OrderInv, Begun, Running
  <2>2. \A r, q \in Slots : q < r =>
           /\ Begun(r)' => Begun(q)'
           /\ tasks'[r].alone => ~Running(q)'
           /\ Running(q)' /\ tasks'[q].alone => ~Begun(r)'
    BY <1>1 DEF OrderInv
  <2> QED
    BY <2>1, <2>2 DEF OrderInv
<1>6. FreshInv'
  <2>1. \A q \in Slots : \A p \in DOMAIN tasks'[q].read : p \in DOMAIN tasks[q].read /\ tasks'[q].read[p] = tasks[q].read[p]
    <3>1. DOMAIN <<>> = {}
      OBVIOUS
    <3> QED
      BY <1>1, <3>1
  <2>2. ASSUME NEW r \in Slots, ~Begun(r)'
        PROVE  /\ \A p \in Shared : r \notin vol'[p]
               /\ \A q \in Slots : \A p \in Private : r \notin own'[q][p]
               /\ \A p \in Loadable : r \notin server'.loaded[p]
               /\ \A q \in Slots : \A p \in DOMAIN tasks'[q].read : r \notin tasks'[q].read[p]
               /\ r = 1 => server'.up /\ \A p \in Loadable : server'.loaded[p] = vol'[p]
    BY <1>1, <2>1, <2>2 DEF FreshInv
  <2>3. ASSUME NEW r \in Slots, NEW p \in Private, own'[r][p] # Absent
        PROVE  Begun(r)' /\ p \in Changed(tasks'[r].op)
    BY <1>1, <2>3 DEF FreshInv
  <2> QED
    BY <2>2, <2>3 DEF FreshInv
<1>7. BaseInv' /\ TrackedInv' /\ SureInv'
  BY <1>1 DEF BaseInv, TrackedInv, SureInv
<1>8. OwnedInv'
  BY CrashOwned
<1>9. ASSUME NEW p, NEW m, HandedOver(p, m) PROVE HandedOver(p, m)'
  <2>1. \A r \in Slots : \A h \in Stages(p) : At(r, h)' = Absent \/ m \in At(r, h)'
    BY <1>3, <1>9 DEF HandedOver
  <2>2. \E r \in Slots : \E h \in Stages(p) : m \in At(r, h)'
    BY <1>3, <1>9 DEF HandedOver
  <2> QED
    BY <2>1, <2>2, <1>1, <1>9 DEF HandedOver
<1>10. HandedInv'
  BY <1>1, <1>9 DEF HandedInv
<1>11. UpdateInv'
  <2>1. \A r \in Slots : tasks'[r].mode = "done" => tasks[r].mode = "done"
    BY <1>1
  <2>2. HandedOver("profile", 1) => HandedOver("profile", 1)'
    BY <1>9
  <2>3. \A r \in Slots : Unmixed(r)' <=> Unmixed(r)
    BY <1>1 DEF Unmixed, Begun
  <2> QED
    BY <2>1, <2>2, <2>3, <1>1 DEF UpdateInv
<1>12. RuntimeInv'
  BY <1>1 DEF RuntimeInv
<1>13. MarkerInv'
  BY CrashMarker
<1>14. NoOrphanToken'
  BY <1>1 DEF NoOrphanToken
<1>15. CacheInv'
  BY <1>1, <1>2 DEF CacheInv
<1> QED
  BY <1>4, <1>5, <1>6, <1>7, <1>8, <1>10, <1>11, <1>12, <1>13, <1>14, <1>15

-----------------------------------------------------------------------------
(* A cancellation *)

LEMMA CancelIs ==
    ASSUME TypeInv, NEW r \in Slots, Cancel(r)
    PROVE  /\ UNCHANGED <<area, layout, vol, own, server, faults>> /\ DOMAIN tasks' = Slots /\ Running(r)
           /\ \A q \in Slots :
                 /\ TaskOK(tasks'[q]) /\ (Running(q)' <=> Running(q)) /\ (Begun(q)' <=> Begun(q))
                 /\ tasks'[q].op = tasks[q].op /\ tasks'[q].alone = tasks[q].alone
                 /\ tasks'[q].mode = tasks[q].mode /\ tasks'[q].at = tasks[q].at /\ tasks'[q].un = tasks[q].un
                 /\ tasks'[q].read = tasks[q].read /\ tasks'[q].had = tasks[q].had
                 /\ tasks'[q].base = tasks[q].base /\ tasks'[q].live = tasks[q].live
                 /\ tasks'[q].hurt = tasks[q].hurt /\ (tasks[q].aborted => tasks'[q].aborted)
                 /\ ~Running(q) => tasks'[q] = tasks[q]
<1>1. /\ UNCHANGED <<area, layout, vol, own, server, faults>> /\ DOMAIN tasks' = Slots /\ Running(r)
      /\ tasks' = [tasks EXCEPT ![r] = [tasks[r] EXCEPT !.aborted = TRUE]]
  BY DEF Cancel, Advance, TypeInv
<1>2. ASSUME NEW q \in Slots
      PROVE  /\ TaskOK(tasks'[q]) /\ (Running(q)' <=> Running(q)) /\ (Begun(q)' <=> Begun(q))
             /\ tasks'[q].op = tasks[q].op /\ tasks'[q].alone = tasks[q].alone
             /\ tasks'[q].mode = tasks[q].mode /\ tasks'[q].at = tasks[q].at /\ tasks'[q].un = tasks[q].un
             /\ tasks'[q].read = tasks[q].read /\ tasks'[q].had = tasks[q].had
             /\ tasks'[q].base = tasks[q].base /\ tasks'[q].live = tasks[q].live
             /\ tasks'[q].hurt = tasks[q].hurt /\ (tasks[q].aborted => tasks'[q].aborted)
             /\ ~Running(q) => tasks'[q] = tasks[q]
  <2>1. TaskOK(tasks[q])
    BY DEF TypeInv
  <2>2. CASE q = r
    <3>1. tasks'[q] = [tasks[q] EXCEPT !.aborted = TRUE]
      BY <1>1, <2>2 DEF TypeInv
    <3>2. /\ DOMAIN tasks'[q] = DOMAIN tasks[q] /\ tasks'[q].aborted = TRUE
          /\ tasks'[q].op = tasks[q].op /\ tasks'[q].alone = tasks[q].alone
          /\ tasks'[q].mode = tasks[q].mode /\ tasks'[q].at = tasks[q].at /\ tasks'[q].un = tasks[q].un
          /\ tasks'[q].read = tasks[q].read /\ tasks'[q].had = tasks[q].had
          /\ tasks'[q].base = tasks[q].base /\ tasks'[q].live = tasks[q].live
          /\ tasks'[q].hurt = tasks[q].hurt
      BY <3>1, <2>1 DEF TaskOK
    <3>3. TaskOK(tasks'[q])
      BY <3>2, <2>1 DEF TaskOK
    <3> QED
      BY <3>2, <3>3, <2>2, <1>1 DEF Running, Begun
  <2>3. CASE q # r
    <3>1. tasks'[q] = tasks[q]
      BY <1>1, <2>3 DEF TypeInv
    <3> QED
      BY <3>1, <2>1 DEF Running, Begun
  <2> QED
    BY <2>2, <2>3
<1> QED
  BY <1>1, <1>2

\* A job whose place and memory stay the same is where it was in its tables.
LEMMA KeptEntry ==
    ASSUME TrackedInv, UNCHANGED <<vol, own, server>>, NEW q \in Slots, Running(q),
           tasks'[q].op = tasks[q].op, tasks'[q].mode = tasks[q].mode, tasks'[q].at = tasks[q].at,
           tasks'[q].un = tasks[q].un, tasks'[q].read = tasks[q].read, tasks'[q].had = tasks[q].had,
           tasks'[q].base = tasks[q].base, tasks'[q].live = tasks[q].live, tasks'[q].hurt = tasks[q].hurt,
           NEW v \in Views(tasks[q].op), Valid(q, v)
    PROVE  \E x \in Table(tasks'[q], v) :
              /\ Shows(x, q, v, tasks[q].base, tasks[q].live)'
              /\ Recalls(x, q, tasks[q].base, tasks[q].live)'
<1>1. PICK base : base = tasks[q].base
  OBVIOUS
<1>2. PICK live : live = tasks[q].live
  OBVIOUS
<1>3. PICK x \in Table(tasks[q], v) : Shows(x, q, v, base, live) /\ Recalls(x, q, base, live)
  BY <1>1, <1>2 DEF TrackedInv
<1>4. x \in Table(tasks'[q], v)
  BY <1>3 DEF Table
<1>5. \A p : At(q, p)' = At(q, p)
  BY DEF At
<1>6. Shows(x, q, v, base, live)'
  BY <1>3, <1>5 DEF Shows
<1>7. Recalls(x, q, base, live)'
  BY <1>3 DEF Recalls, Known
<1>8. base = tasks'[q].base /\ live = tasks'[q].live
  BY <1>1, <1>2
<1> QED
  BY <1>4, <1>6, <1>7, <1>8

LEMMA CancelStep == ASSUME IInv, NEW r \in Slots, Cancel(r) PROVE IInv'
<1> USE DEF IInv
<1>1. /\ UNCHANGED <<area, layout, vol, own, server, faults>> /\ DOMAIN tasks' = Slots
      /\ \A q \in Slots :
            /\ TaskOK(tasks'[q]) /\ (Running(q)' <=> Running(q)) /\ (Begun(q)' <=> Begun(q))
            /\ tasks'[q].op = tasks[q].op /\ tasks'[q].alone = tasks[q].alone
            /\ tasks'[q].mode = tasks[q].mode /\ tasks'[q].at = tasks[q].at /\ tasks'[q].un = tasks[q].un
            /\ tasks'[q].read = tasks[q].read /\ tasks'[q].had = tasks[q].had
            /\ tasks'[q].base = tasks[q].base /\ tasks'[q].live = tasks[q].live
            /\ tasks'[q].hurt = tasks[q].hurt /\ (tasks[q].aborted => tasks'[q].aborted)
            /\ ~Running(q) => tasks'[q] = tasks[q]
  BY CancelIs
<1>2. \A q \in Slots : \A h : At(q, h)' = At(q, h)
  BY <1>1 DEF At
<1>3. \A q \in Slots : tasks'[q] = NoTask <=> tasks[q] = NoTask
  <2>1. NoTask.mode = "none"
    BY DEF NoTask
  <2> QED
    BY <1>1, <2>1 DEF Running
<1>4. TypeInv'
  BY <1>1 DEF TypeInv
<1>5. OrderInv'
  <2>1. \A q \in Slots : IF Begun(q)' THEN tasks'[q].op \in Operations[area'][q] ELSE tasks'[q] = NoTask
    BY <1>1, <1>3 DEF OrderInv
  <2>2. \A n, q \in Slots : q < n =>
           /\ Begun(n)' => Begun(q)'
           /\ tasks'[n].alone => ~Running(q)'
           /\ Running(q)' /\ tasks'[q].alone => ~Begun(n)'
    BY <1>1 DEF OrderInv
  <2> QED
    BY <2>1, <2>2 DEF OrderInv
<1>6. FreshInv'
  BY <1>1 DEF FreshInv
<1>7. BaseInv'
  BY <1>1 DEF BaseInv
<1>8. TrackedInv'
  <2>2. ASSUME NEW q \in Slots, Running(q)', NEW v \in Views(tasks'[q].op), Valid(q, v)'
        PROVE  \E x \in Table(tasks'[q], v) :
                  /\ Shows(x, q, v, tasks[q].base, tasks[q].live)'
                  /\ Recalls(x, q, tasks[q].base, tasks[q].live)'
    <3>1. Valid(q, v) /\ v \in Views(tasks[q].op) /\ Running(q)
      BY <2>2, <1>1 DEF Valid
    <3> QED
      BY <3>1, <1>1, KeptEntry
  <2> QED
    BY <2>2 DEF TrackedInv
<1>9. OwnedInv'
  BY <1>1, <1>2 DEF OwnedInv
<1>10. SureInv'
  BY <1>1 DEF SureInv
<1>11. ASSUME NEW p, NEW m, HandedOver(p, m) PROVE HandedOver(p, m)'
  <2>1. \A q \in Slots : \A h \in Stages(p) : At(q, h)' = Absent \/ m \in At(q, h)'
    BY <1>2, <1>11 DEF HandedOver
  <2>2. \E q \in Slots : \E h \in Stages(p) : m \in At(q, h)'
    BY <1>2, <1>11 DEF HandedOver
  <2> QED
    BY <2>1, <2>2, <1>1, <1>11 DEF HandedOver
<1>12. HandedInv'
  BY <1>1, <1>11 DEF HandedInv
<1>13. UpdateInv'
  <2>1. HandedOver("profile", 1) => HandedOver("profile", 1)'
    BY <1>11
  <2>2. \A q \in Slots : Unmixed(q)' <=> Unmixed(q)
    BY <1>1 DEF Unmixed
  <2> QED
    BY <2>1, <2>2, <1>1 DEF UpdateInv
<1>14. RuntimeInv' /\ MarkerInv' /\ NoOrphanToken'
  BY <1>1 DEF RuntimeInv, MarkerInv, NoOrphanToken
<1>15. CacheInv'
  BY <1>1, <1>3 DEF CacheInv, Idle
<1> QED
  BY <1>4, <1>5, <1>6, <1>7, <1>8, <1>9, <1>10, <1>12, <1>13, <1>14, <1>15

-----------------------------------------------------------------------------
(* A job begins *)

\* The job r begins with operation op; what runs beside it is not alone any more.
Begins(r, op) ==
    LET u == tasks'[r]
    IN  /\ UNCHANGED <<area, layout, vol, own, server, faults>> /\ DOMAIN tasks' = Slots
        /\ op \in Ops /\ op \in Operations[area][r] /\ op \in OpsOf(area) /\ area \in DOMAIN Operations
        /\ MayBegin(op) /\ tasks[r] = NoTask /\ ~Begun(r)
        /\ TaskOK(u) /\ u.op = op /\ u.mode = "body" /\ u.at = 1 /\ u.read = <<>> /\ u.had = {}
        /\ u.base = vol /\ u.live = server.loaded /\ ~u.hurt /\ Running(r)' /\ Begun(r)'
        /\ u.alone <=> Idle
        /\ \A q \in Slots : (q < r => Begun(q)) /\ (r < q => ~Begun(q))
        /\ \A q \in Slots \ {r} :
              /\ TaskOK(tasks'[q]) /\ (Running(q)' <=> Running(q)) /\ (Begun(q)' <=> Begun(q))
              /\ tasks'[q].op = tasks[q].op /\ tasks'[q].aborted = tasks[q].aborted
              /\ tasks'[q].mode = tasks[q].mode /\ tasks'[q].at = tasks[q].at /\ tasks'[q].un = tasks[q].un
              /\ tasks'[q].read = tasks[q].read /\ tasks'[q].had = tasks[q].had
              /\ tasks'[q].base = tasks[q].base /\ tasks'[q].live = tasks[q].live
              /\ tasks'[q].hurt = tasks[q].hurt
              /\ IF Running(q) THEN ~tasks'[q].alone ELSE tasks'[q] = tasks[q]

LEMMA BeginIs ==
    ASSUME TypeInv, OrderInv, NEW r \in Slots, NEW op \in Operations[area][r], Begin(r, op)
    PROVE  Begins(r, op)
<1> DEFINE new == [NoTask EXCEPT !.op = op, !.mode = "body", !.at = 1, !.base = vol, !.live = server.loaded,
                                 !.alone = {q \in Slots : Running(q)} = {}]
<1>1. /\ UNCHANGED <<area, layout, vol, own, server, faults>> /\ DOMAIN tasks' = Slots
      /\ tasks[r].mode = "none" /\ (\A q \in Slots : q < r => Begun(q)) /\ MayBegin(op)
      /\ tasks'[r] = new
      /\ \A q \in Slots \ {r} : tasks'[q] = IF Running(q) THEN [tasks[q] EXCEPT !.alone = FALSE] ELSE tasks[q]
  BY DEF Begin, Begun
<1>2. area \in DOMAIN Operations /\ op \in OpsOf(area) /\ op \in Ops
  <2>1. area \in DOMAIN Operations
    BY AreasAssumption DEF TypeInv
  <2>2. op \in OpsOf(area)
    BY SlotsAreTwo DEF OpsOf
  <2> QED
    BY <2>1, <2>2, OperationsAreKnown
<1>3. ~Begun(r) /\ tasks[r] = NoTask
  BY <1>1 DEF OrderInv, Begun
<1>4. \A q \in Slots : r < q => ~Begun(q)
  BY <1>3 DEF OrderInv
<1>5. /\ new.op = op /\ new.mode = "body" /\ new.at = 1 /\ new.un = 0 /\ new.read = <<>> /\ new.had = {}
      /\ new.base = vol /\ new.live = server.loaded /\ new.hurt = FALSE /\ new.aborted = FALSE
      /\ new.alone = ({q \in Slots : Running(q)} = {})
      /\ DOMAIN new = {"op", "mode", "at", "un", "read", "had", "base", "live", "tries", "aborted",
                       "alone", "hurt"}
  BY DEF NoTask
<1> HIDE DEF new
<1>6. TaskOK(new)
  <2>1. DOMAIN <<>> = {} /\ new.alone \in BOOLEAN
    BY <1>5
  <2>2. 1 \in DOMAIN Programs[op]
    <3>1. Len(Programs[op]) \in Nat \ {0} /\ DOMAIN Programs[op] = 1 .. Len(Programs[op])
      BY <1>2, Sequential
    <3> QED
      BY <3>1
  <2> QED
    BY <2>1, <2>2, <1>5 DEF TaskOK
<1>7. new.alone <=> Idle
  BY <1>5 DEF Idle
<1>8. ASSUME NEW q \in Slots \ {r}
      PROVE  /\ TaskOK(tasks'[q]) /\ (Running(q)' <=> Running(q)) /\ (Begun(q)' <=> Begun(q))
             /\ tasks'[q].op = tasks[q].op /\ tasks'[q].aborted = tasks[q].aborted
             /\ tasks'[q].mode = tasks[q].mode /\ tasks'[q].at = tasks[q].at /\ tasks'[q].un = tasks[q].un
             /\ tasks'[q].read = tasks[q].read /\ tasks'[q].had = tasks[q].had
             /\ tasks'[q].base = tasks[q].base /\ tasks'[q].live = tasks[q].live
             /\ tasks'[q].hurt = tasks[q].hurt
             /\ IF Running(q) THEN ~tasks'[q].alone ELSE tasks'[q] = tasks[q]
  <2>1. TaskOK(tasks[q])
    BY DEF TypeInv
  <2>2. CASE Running(q)
    <3>1. tasks'[q] = [tasks[q] EXCEPT !.alone = FALSE]
      BY <1>1, <2>2
    <3>2. /\ DOMAIN tasks'[q] = DOMAIN tasks[q] /\ tasks'[q].alone = FALSE
          /\ tasks'[q].op = tasks[q].op /\ tasks'[q].aborted = tasks[q].aborted
          /\ tasks'[q].mode = tasks[q].mode /\ tasks'[q].at = tasks[q].at /\ tasks'[q].un = tasks[q].un
          /\ tasks'[q].read = tasks[q].read /\ tasks'[q].had = tasks[q].had
          /\ tasks'[q].base = tasks[q].base /\ tasks'[q].live = tasks[q].live
          /\ tasks'[q].hurt = tasks[q].hurt
      BY <3>1, <2>1 DEF TaskOK
    <3>3. TaskOK(tasks'[q])
      BY <3>2, <2>1 DEF TaskOK
    <3> QED
      BY <3>2, <3>3, <2>2 DEF Running, Begun
  <2>3. CASE ~Running(q)
    BY <1>1, <2>1, <2>3 DEF Running, Begun
  <2> QED
    BY <2>2, <2>3
<1>9. Running(r)' /\ Begun(r)'
  BY <1>1, <1>5 DEF Running, Begun
<1> QED
  BY <1>1, <1>2, <1>3, <1>4, <1>5, <1>6, <1>7, <1>8, <1>9 DEF Begins

\* No other job has touched what only the operations of this slot replace.
LEMMA BeginFound ==
    ASSUME TypeInv, OrderInv, OwnedInv, NEW r \in Slots, NEW op, Begins(r, op),
           NEW p \in layout \cap Owned, p \in Changed(op)
    PROVE  vol[p] = AsFound
<1>1. /\ area \in DOMAIN Operations /\ op \in Operations[area][r] /\ op \in Ops /\ ~Begun(r)
  BY DEF Begins
<1>2. /\ p \in Views(op) /\ p # "alone" /\ p \in Domain(op, p) /\ p \in Shared
  BY <1>1, OwnedViews, HomesShared DEF TypeInv
<1>3. ASSUME NEW q \in Slots, Begun(q) PROVE p \notin Changed(tasks[q].op)
  <2>1. q # r /\ tasks[q].op \in Operations[area][q]
    BY <1>1, <1>3, OpKnown
  <2>2. CASE r = 1
    <3>1. q = 2
      BY <2>1, <2>2, SlotsAreTwo
    <3> QED
      BY <3>1, <2>1, <2>2, <1>1, <1>2, ViewsAreApart
  <2>3. CASE r = 2
    <3>1. q = 1
      BY <2>1, <2>3, SlotsAreTwo
    <3> QED
      BY <3>1, <2>1, <2>3, <1>1, <1>2, ViewsAreApart
  <2> QED
    BY <2>2, <2>3, SlotsAreTwo
<1> QED
  BY <1>3 DEF OwnedInv

\* The job that begins is where the tables of its operation start.
LEMMA BeginStarts ==
    ASSUME TypeInv, OrderInv, FreshInv, OwnedInv, NEW r \in Slots, NEW op, Begins(r, op),
           NEW v \in Views(op), Valid(r, v)'
    PROVE  \E x \in Table(tasks'[r], v) :
              /\ Shows(x, r, v, tasks[r].base, tasks[r].live)'
              /\ Recalls(x, r, tasks[r].base, tasks[r].live)'
<1>1. /\ vol' = vol /\ own' = own /\ server' = server /\ layout' = layout
      /\ op \in Ops /\ op \in Operations[area][r] /\ area \in DOMAIN Operations /\ ~Begun(r)
      /\ tasks'[r].op = op /\ tasks'[r].mode = "body" /\ tasks'[r].at = 1 /\ tasks'[r].read = <<>>
      /\ tasks'[r].had = {} /\ tasks'[r].base = vol /\ tasks'[r].live = server.loaded /\ ~tasks'[r].hurt
      /\ tasks'[r].hurt \in BOOLEAN
  BY DEF Begins, TaskOK
<1>2. PICK base : base = vol
  OBVIOUS
<1>3. PICK live : live = server.loaded
  OBVIOUS
<1>4. PICK x : x = Start(op, v)
  OBVIOUS
<1>5. x \in Bodies[op][v][1]
  BY <1>1, <1>4, TablesAreClosed
<1>6. x \in Table(tasks'[r], v)
  BY <1>1, <1>5 DEF Table
<1>7. Domain(op, v) \subseteq Places
  BY <1>1, ViewsAreClosed
<1>8. /\ DOMAIN x.at = Domain(op, v) /\ DOMAIN x.read = Domain(op, v)
      /\ \A p \in DOMAIN x.at : x.at[p] = IF p \in Private THEN {} ELSE {Old(p)}
      /\ \A p \in DOMAIN x.read : x.read[p] = {}
      /\ DOMAIN x.loaded = (IF v = "alone" THEN Domain(op, v) \cap Loadable ELSE {})
      /\ \A p \in DOMAIN x.loaded : x.loaded[p] = {IF First(op) THEN Old(p) ELSE Held(p)}
      /\ x.had = {} /\ x.there = (IF v \in Owned THEN {Old(v)} ELSE {})
      /\ x.up = (v = "alone" /\ First(op)) /\ x.hurt = FALSE
  BY <1>4 DEF Start, Entry
<1>9. ASSUME NEW p PROVE Value(r, base, live, {Old(p)}) = base[p] /\ Value(r, base, live, {Held(p)}) = live[p]
  <2>1. /\ Value(r, base, live, {Old(p)}) = Meaning(r, base, live, Old(p))
        /\ Value(r, base, live, {Held(p)}) = Meaning(r, base, live, Held(p))
    BY ValueOfOne
  <2>2. Meaning(r, base, live, Old(p)) = base[p] /\ Meaning(r, base, live, Held(p)) = live[p]
    BY DEF Meaning, Old, Held, Mine, HalfDone, Off
  <2> QED
    BY <2>1, <2>2
<1>10. Value(r, base, live, {}) = Absent
  BY Values
<1>11. \A p \in DOMAIN x.at : At(r, p)' = Value(r, base, live, x.at[p])
  <2>1. \A p \in Private : own[r][p] = Absent
    BY <1>1 DEF FreshInv
  <2> QED
    BY <2>1, <1>1, <1>2, <1>8, <1>9, <1>10 DEF At
<1>12. First(op) => r = 1
  <2>1. r # 1 => r = 2
    BY SlotsAreTwo
  <2> QED
    BY <2>1, <1>1 DEF First
<1>13. r = 1 => server.up /\ \A p \in Loadable : server.loaded[p] = vol[p]
  BY <1>1 DEF FreshInv
<1>14. \A p \in DOMAIN x.loaded : server'.loaded[p] = Value(r, base, live, x.loaded[p])
  <2>1. ASSUME NEW p \in DOMAIN x.loaded PROVE server.loaded[p] = Value(r, base, live, x.loaded[p])
    <3>1. p \in Loadable
      BY <1>8
    <3>2. CASE First(op)
      <4>1. Value(r, base, live, x.loaded[p]) = base[p]
        BY <3>2, <1>8, <1>9
      <4> QED
        BY <3>1, <3>2, <4>1, <1>2, <1>12, <1>13
    <3>3. CASE ~First(op)
      <4>1. Value(r, base, live, x.loaded[p]) = live[p]
        BY <3>3, <1>8, <1>9
      <4> QED
        BY <4>1, <1>3
    <3> QED
      BY <3>2, <3>3
  <2> QED
    BY <2>1, <1>1
<1>15. \A n \in x.there : Meaning(r, base, live, n) # {}
  <2>1. ASSUME v \in Owned PROVE Meaning(r, base, live, Old(v)) # {}
    <3>1. v \in layout \cap Owned /\ v \in Changed(op)
      BY <2>1, <1>1, OwnedViews DEF Valid
    <3>2. vol[v] = AsFound
      BY <3>1, BeginFound
    <3>3. Meaning(r, base, live, Old(v)) = base[v]
      BY DEF Meaning, Old, Mine, HalfDone, Off
    <3>4. base[v] = AsFound
      BY <3>2, <1>2
    <3>5. base[v] # {}
      BY <3>4 DEF AsFound
    <3> QED
      BY <3>3, <3>5
  <2> QED
    BY <2>1, <1>8
<1>16. Shows(x, r, v, base, live)'
  BY <1>1, <1>8, <1>11, <1>12, <1>13, <1>14, <1>15 DEF Shows
<1>17. Recalls(x, r, base, live)'
  <2>1. \A p : Known(tasks'[r], p) = Absent
    BY <1>1 DEF Known
  <2> QED
    BY <2>1, <1>1, <1>8, <1>10 DEF Recalls
<1>18. base = tasks'[r].base /\ live = tasks'[r].live
  BY <1>1, <1>2, <1>3
<1> QED
  BY <1>6, <1>16, <1>17, <1>18

LEMMA BeginTracked ==
    ASSUME TypeInv, OrderInv, FreshInv, OwnedInv, TrackedInv, NEW r \in Slots, NEW op, Begins(r, op)
    PROVE  TrackedInv'
<1>1. /\ UNCHANGED <<vol, own, server>> /\ layout' = layout /\ tasks'[r].op = op
      /\ \A q \in Slots \ {r} :
            /\ Running(q)' <=> Running(q)
            /\ tasks'[q].op = tasks[q].op
            /\ tasks'[q].mode = tasks[q].mode /\ tasks'[q].at = tasks[q].at /\ tasks'[q].un = tasks[q].un
            /\ tasks'[q].read = tasks[q].read /\ tasks'[q].had = tasks[q].had
            /\ tasks'[q].base = tasks[q].base /\ tasks'[q].live = tasks[q].live
            /\ tasks'[q].hurt = tasks[q].hurt
            /\ Running(q) => ~tasks'[q].alone
  BY DEF Begins
<1>2. ASSUME NEW q \in Slots, Running(q)', NEW v \in Views(tasks'[q].op), Valid(q, v)'
      PROVE  \E x \in Table(tasks'[q], v) :
                /\ Shows(x, q, v, tasks[q].base, tasks[q].live)'
                /\ Recalls(x, q, tasks[q].base, tasks[q].live)'
  <2>1. CASE q = r
    BY <1>1, <1>2, <2>1, BeginStarts
  <2>2. CASE q # r
    <3>1. Valid(q, v) /\ v \in Views(tasks[q].op) /\ Running(q)
      BY <1>1, <1>2, <2>2 DEF Valid
    <3> QED
      BY <3>1, <2>2, <1>1, KeptEntry
  <2> QED
    BY <2>1, <2>2
<1> QED
  BY <1>2 DEF TrackedInv

LEMMA BeginHanded ==
    ASSUME NEW r \in Slots, NEW op, Begins(r, op), NEW p, NEW m, HandedOver(p, m) PROVE HandedOver(p, m)'
<1>1. /\ vol' = vol /\ own' = own /\ server' = server /\ tasks'[r].read = <<>>
      /\ \A q \in Slots \ {r} : (Running(q)' <=> Running(q)) /\ tasks'[q].read = tasks[q].read
  BY DEF Begins
<1>2. \A q \in Slots : \A h : At(q, h)' = At(q, h)
  BY <1>1 DEF At
<1>3. \A q \in Slots : \A h \in Stages(p) : At(q, h)' = Absent \/ m \in At(q, h)'
  BY <1>2 DEF HandedOver
<1>4. \E q \in Slots : \E h \in Stages(p) : m \in At(q, h)'
  BY <1>2 DEF HandedOver
<1>5. DOMAIN <<>> = {}
  OBVIOUS
<1>6. \A q \in Slots : Running(q)' /\ p \in DOMAIN tasks'[q].read => m \in tasks'[q].read[p]
  BY <1>1, <1>5 DEF HandedOver
<1> QED
  BY <1>1, <1>3, <1>4, <1>6 DEF HandedOver

LEMMA BeginUpdate ==
    ASSUME TypeInv, OrderInv, UpdateInv, NEW r \in Slots, NEW op, Begins(r, op) PROVE UpdateInv'
<1>1. /\ vol' = vol /\ op \in OpsOf(area) /\ area \in DOMAIN Operations /\ MayBegin(op) /\ ~Begun(r)
      /\ tasks'[r].op = op /\ tasks'[r].mode = "body" /\ (tasks'[r].alone <=> Idle) /\ Begun(r)'
      /\ \A q \in Slots \ {r} :
            /\ tasks'[q].op = tasks[q].op /\ tasks'[q].mode = tasks[q].mode /\ (Begun(q)' <=> Begun(q))
            /\ IF Running(q) THEN ~tasks'[q].alone ELSE tasks'[q] = tasks[q]
  BY DEF Begins
\* Beside a job that runs, none of the same kind begins where the profile is edited.
<1>2. ASSUME NEW q \in Slots, Running(q), OpsOf(area) \cap Edits # {}
      PROVE  ~(tasks[q].op \in Queued <=> op \in Queued)
  <2>1. OpsOf(area) \cap (Uploads \cup Unlisted) = {}
    BY <1>1, <1>2, UpdatesAreWritten
  <2>2. tasks[q].op \in OpsOf(area)
    BY <1>2, OpKnown DEF Running, Begun
  <2>3. op \notin Uploads /\ op \notin Unlisted /\ tasks[q].op \notin Unlisted
    BY <2>1, <2>2, <1>1
  <2>4. CASE op \in Queued
    BY <2>4, <1>1, <1>2 DEF MayBegin, QueueFree
  <2>5. CASE op \notin Queued
    <3>1. ActiveJob
      BY <2>3, <1>2 DEF ActiveJob
    <3> QED
      BY <3>1, <2>3, <2>5, <1>1 DEF MayBegin
  <2> QED
    BY <2>4, <2>5
<1>3. ASSUME NEW x \in Slots, Begun(x)', tasks'[x].op \in Edits, Unmixed(x)' PROVE tasks'[x].alone
  <2> SUFFICES ASSUME ~tasks'[x].alone PROVE FALSE
    OBVIOUS
  <2>1. \A q \in Slots : Begun(q)' => (tasks'[q].op \in Queued <=> tasks'[x].op \in Queued)
    BY <1>3 DEF Unmixed, Begun
  <2>2. CASE Idle
    <3>1. x # r /\ tasks'[x] = tasks[x] /\ Begun(x)
      BY <2>2, <1>1, <1>3 DEF Idle
    <3>2. \A q \in Slots : Begun(q) => (tasks[q].op \in Queued <=> tasks[x].op \in Queued)
      BY <2>1, <3>1, <1>1
    <3>3. Unmixed(x)
      BY <3>2 DEF Unmixed, Begun
    <3> QED
      BY <3>1, <3>3, <1>3 DEF UpdateInv
  <2>3. CASE ~Idle
    <3>1. PICK q \in Slots : Running(q)
      BY <2>3 DEF Idle
    <3>2. q # r /\ Begun(q)
      BY <3>1, <1>1 DEF Running, Begun
    <3>3. tasks'[x].op \in OpsOf(area)
      <4>1. CASE x = r
        BY <4>1, <1>1
      <4>2. CASE x # r
        BY <4>2, <1>1, <1>3, OpKnown
      <4> QED
        BY <4>1, <4>2
    <3>4. tasks[q].op \in Queued <=> op \in Queued
      BY <2>1, <3>2, <1>1
    <3> QED
      BY <3>1, <3>3, <3>4, <1>2, <1>3
  <2> QED
    BY <2>2, <2>3
<1>4. HandedOver("profile", 1) => HandedOver("profile", 1)'
  BY BeginHanded
<1>5. ASSUME NEW q \in Slots, tasks'[q].mode = "done", tasks'[q].op \in Edits, tasks'[q].alone
      PROVE  IF q = 1 THEN HandedOver("profile", 1)' ELSE q \in vol'["profile"]
  <2>1. q # r
    BY <1>1, <1>5
  <2>2. tasks[q].mode = "done" /\ tasks[q].op \in Edits /\ tasks[q].alone
    BY <2>1, <1>1, <1>5
  <2>3. IF q = 1 THEN HandedOver("profile", 1) ELSE q \in vol["profile"]
    BY <2>2, <1>1 DEF UpdateInv
  <2> QED
    BY <2>3, <1>1, <1>4
<1> QED
  BY <1>3, <1>5 DEF UpdateInv

LEMMA BeginStep ==
    ASSUME IInv, NEW r \in Slots, NEW op \in Operations[area][r], Begin(r, op) PROVE IInv'
<1> USE DEF IInv
<1>0. Begins(r, op)
  BY BeginIs
<1>1. /\ UNCHANGED <<area, layout, vol, own, server, faults>> /\ DOMAIN tasks' = Slots
      /\ op \in Ops /\ op \in Operations[area][r] /\ tasks[r] = NoTask /\ ~Begun(r)
      /\ TaskOK(tasks'[r]) /\ tasks'[r].op = op /\ tasks'[r].mode = "body" /\ tasks'[r].at = 1
      /\ tasks'[r].read = <<>> /\ tasks'[r].base = vol /\ tasks'[r].live = server.loaded
      /\ ~tasks'[r].hurt /\ Running(r)' /\ Begun(r)' /\ (tasks'[r].alone <=> Idle)
      /\ \A q \in Slots : (q < r => Begun(q)) /\ (r < q => ~Begun(q))
  BY <1>0 DEF Begins
<1>2. \A q \in Slots \ {r} :
         /\ TaskOK(tasks'[q]) /\ (Running(q)' <=> Running(q)) /\ (Begun(q)' <=> Begun(q))
         /\ tasks'[q].op = tasks[q].op /\ tasks'[q].mode = tasks[q].mode /\ tasks'[q].at = tasks[q].at
         /\ tasks'[q].read = tasks[q].read /\ tasks'[q].base = tasks[q].base
         /\ tasks'[q].live = tasks[q].live /\ tasks'[q].hurt = tasks[q].hurt
         /\ IF Running(q) THEN ~tasks'[q].alone ELSE tasks'[q] = tasks[q]
  BY <1>0 DEF Begins
<1>3. \A q \in Slots : \A h : At(q, h)' = At(q, h)
  BY <1>1 DEF At
<1>4. DOMAIN <<>> = {} /\ NoTask.mode = "none" /\ NoTask.op = "none" /\ ~NoTask.alone
  BY DEF NoTask
<1>5. TypeInv'
  BY <1>1, <1>2 DEF TypeInv
<1>6. OrderInv'
  <2>1. \A q \in Slots : IF Begun(q)' THEN tasks'[q].op \in Operations[area'][q] ELSE tasks'[q] = NoTask
    <3>1. \A q \in Slots : ~Begun(q) => ~Running(q)
      BY DEF Begun, Running
    <3> QED
      BY <3>1, <1>1, <1>2 DEF OrderInv
  <2>2. ASSUME NEW n \in Slots, NEW q \in Slots, q < n
        PROVE  /\ Begun(n)' => Begun(q)'
               /\ tasks'[n].alone => ~Running(q)'
               /\ Running(q)' /\ tasks'[q].alone => ~Begun(n)'
    <3>1. n # q
      BY <2>2, SlotsAreTwo
    <3>2. CASE n = r
      BY <3>1, <3>2, <2>2, <1>1, <1>2 DEF Idle
    <3>3. CASE q = r
      <4>1. ~Begun(n) /\ n # r
        BY <3>1, <3>3, <2>2, <1>1
      <4>2. ~Begun(n)' /\ tasks[n] = NoTask /\ ~Running(n)
        BY <4>1, <1>2 DEF OrderInv, Begun, Running
      <4> QED
        BY <4>1, <4>2, <1>2, <1>4
    <3>4. CASE n # r /\ q # r
      BY <3>4, <2>2, <1>2 DEF OrderInv
    <3> QED
      BY <3>2, <3>3, <3>4
  <2> QED
    BY <2>1, <2>2 DEF OrderInv
<1>7. FreshInv'
  <2>1. ASSUME NEW n \in Slots, ~Begun(n)'
        PROVE  /\ \A p \in Shared : n \notin vol'[p]
               /\ \A q \in Slots : \A p \in Private : n \notin own'[q][p]
               /\ \A p \in Loadable : n \notin server'.loaded[p]
               /\ \A q \in Slots : \A p \in DOMAIN tasks'[q].read : n \notin tasks'[q].read[p]
               /\ n = 1 => server'.up /\ \A p \in Loadable : server'.loaded[p] = vol'[p]
    <3>1. n # r /\ ~Begun(n)
      BY <2>1, <1>1, <1>2
    <3> QED
      BY <3>1, <1>1, <1>2, <1>4 DEF FreshInv
  <2>2. ASSUME NEW n \in Slots, NEW p \in Private, own'[n][p] # Absent
        PROVE  Begun(n)' /\ p \in Changed(tasks'[n].op)
    <3>1. Begun(n) /\ p \in Changed(tasks[n].op)
      BY <2>2, <1>1 DEF FreshInv
    <3> QED
      BY <3>1, <1>1, <1>2
  <2> QED
    BY <2>1, <2>2 DEF FreshInv
<1>8. BaseInv'
  <2>1. ASSUME NEW q \in Slots, Running(q)'
        PROVE  /\ tasks'[q].base \in [Shared -> Contents] /\ tasks'[q].live \in [Loadable -> Contents]
               /\ \A p \in Shared : q \notin tasks'[q].base[p]
               /\ \A p \in Loadable : q \notin tasks'[q].live[p]
               /\ \A p \in layout' \cap Owned \cap Changed(tasks'[q].op) : tasks'[q].base[p] = AsFound
    <3>1. CASE q = r
      <4>1. vol \in [Shared -> Contents] /\ server.loaded \in [Loadable -> Contents]
        BY DEF TypeInv
      <4>2. (\A p \in Shared : r \notin vol[p]) /\ (\A p \in Loadable : r \notin server.loaded[p])
        BY <1>1 DEF FreshInv
      <4>3. \A p \in layout \cap Owned \cap Changed(op) : vol[p] = AsFound
        BY <1>0, BeginFound
      <4> QED
        BY <3>1, <4>1, <4>2, <4>3, <1>1
    <3>2. CASE q # r
      BY <3>2, <2>1, <1>1, <1>2 DEF BaseInv
    <3> QED
      BY <3>1, <3>2
  <2> QED
    BY <2>1 DEF BaseInv
<1>9. TrackedInv'
  BY <1>0, BeginTracked
<1>10. OwnedInv'
  <2>1. ASSUME NEW p \in layout \cap Owned, \A q \in Slots : Begun(q)' => p \notin Changed(tasks'[q].op)
        PROVE  vol'[p] = AsFound
    <3>1. \A q \in Slots : Begun(q) => p \notin Changed(tasks[q].op)
      BY <2>1, <1>1, <1>2
    <3> QED
      BY <3>1, <1>1 DEF OwnedInv
  <2>2. ASSUME NEW p \in layout \cap Owned, NEW q \in Slots, Begun(q)', ~Running(q)', p \in Changed(tasks'[q].op)
        PROVE  \E h \in Homes(p) : 0 \in At(q, h)'
    <3>1. q # r /\ Begun(q) /\ ~Running(q) /\ p \in Changed(tasks[q].op)
      BY <2>2, <1>1, <1>2
    <3>2. \E h \in Homes(p) : 0 \in At(q, h)
      BY <3>1 DEF OwnedInv
    <3> QED
      BY <3>2, <1>3
  <2> QED
    BY <2>1, <2>2, <1>1 DEF OwnedInv
<1>11. SureInv'
  <2>1. SureReads(op, 1) = {}
    BY <1>1, ReadsAreSure
  <2> QED
    BY <2>1, <1>1, <1>2 DEF SureInv
<1>12. HandedInv'
  BY <1>0, <1>1, BeginHanded DEF HandedInv
<1>13. UpdateInv'
  BY <1>0, BeginUpdate
<1>14. RuntimeInv'
  BY <1>1, <1>2 DEF RuntimeInv, Running
<1>15. MarkerInv'
  <2>1. "moduleVersion" \in Shared
    BY DEF Shared
  <2>2. r \notin vol["moduleVersion"]
    BY <2>1, <1>1 DEF FreshInv
  <2> QED
    BY <2>2, <1>1, <1>2 DEF MarkerInv
<1>16. NoOrphanToken'
  BY <1>1, <1>2 DEF NoOrphanToken
<1>17. CacheInv'
  <2>1. ASSUME faults = 0, \A q \in Slots : tasks'[q] = NoTask \/ tasks'[q].alone
        PROVE  Idle /\ Marked(vol)
    <3>1. tasks'[r].alone
      BY <2>1, <1>1, <1>4
    <3>2. Idle
      BY <3>1, <1>1
    <3>3. \A q \in Slots : tasks[q] = NoTask \/ tasks[q].alone
      BY <2>1, <3>2, <1>1, <1>2 DEF Idle
    <3> QED
      BY <2>1, <3>2, <3>3 DEF CacheInv
  <2>2. ~Idle'
    BY <1>1 DEF Idle
  <2>3. ASSUME faults = 0, \A q \in Slots : tasks'[q] = NoTask \/ tasks'[q].alone, NEW q \in Slots, Running(q)'
        PROVE  Marked(tasks'[q].base) /\ Marked(vol)'
    <3>1. q = r
      BY <2>1, <2>3, <1>2 DEF Idle
    <3> QED
      BY <3>1, <2>1, <2>3, <1>1 DEF Marked
  <2>4. area \notin {"builds", "modpacks"} => Marked(vol)'
    BY <1>1 DEF CacheInv, Marked
  <2>5. area \in {"builds", "modpacks"} /\ faults = 0 => server.up /\ \A q \in Slots : ~tasks'[q].hurt
    BY <1>1, <1>2 DEF CacheInv
  <2> QED
    BY <2>2, <2>3, <2>4, <2>5, <1>1 DEF CacheInv
<1> QED
  BY <1>5, <1>6, <1>7, <1>8, <1>9, <1>10, <1>11, <1>12, <1>13, <1>14, <1>15, <1>16, <1>17

-----------------------------------------------------------------------------
(* The beginning *)

LEMMA LayoutsAre ==
    ASSUME NEW l \in Layouts
    PROVE  l \subseteq Shared /\ ("installer" \in l <=> "installerVersion" \in l)
<1> DEFINE apart == {"modOff", "mod2Off", "modNext", "mod2Next", "credential",
                     "resourcesArchive", "fileNext", "directory"}
           used == Shared \ apart
           added == {"client", "manifest", "workspace", "prestarter", "runtime", "resources",
                     "custom", "asset", "installer", "installerVersion", "moduleJar",
                     "moduleVersion", "rcConfig", "optionalMod", "key", "java", "file",
                     "fileAuthConfig"}
<1>1. l \in {used, used \ added} \cup (IF area = "builds" THEN {used \ {"profile", "client"}} ELSE {})
  BY DEF Layouts
<1>2. "installer" \in used /\ "installerVersion" \in used /\ "installer" \in added /\ "installerVersion" \in added
  BY DEF Shared
<1>3. used \subseteq Shared
  OBVIOUS
<1> HIDE DEF used, added
<1> QED
  BY <1>1, <1>2, <1>3

LEMMA InitInv == ASSUME Init PROVE IInv
<1>1. /\ area \in Areas /\ layout \in Layouts /\ faults = 0
      /\ DOMAIN vol = Shared /\ \A p \in Shared : vol[p] = IF p \in layout THEN AsFound ELSE Absent
      /\ \A r \in Slots : \A p \in Private : own[r][p] = Absent
      /\ server.up = TRUE /\ DOMAIN server = {"up", "loaded"} /\ DOMAIN server.loaded = Loadable
      /\ \A p \in Loadable : server.loaded[p] = vol[p]
      /\ DOMAIN tasks = Slots /\ \A r \in Slots : tasks[r] = NoTask
  BY DEF Init, Loadable
<1>2. layout \subseteq Shared /\ ("installer" \in layout <=> "installerVersion" \in layout)
  BY <1>1, LayoutsAre
<1>3. AsFound = {0} /\ Absent = {} /\ AsFound \in Contents /\ Absent \in Contents
  BY DEF AsFound, Absent, Contents
<1>4. Loadable \subseteq Shared
  BY DEF Loadable, Shared
<1>5. /\ NoTask.mode = "none" /\ NoTask.op = "none" /\ NoTask.alone = FALSE /\ NoTask.hurt = FALSE
      /\ NoTask.read = <<>> /\ DOMAIN <<>> = {} /\ NoTask.aborted = FALSE /\ NoTask.had = {}
      /\ DOMAIN NoTask = {"op", "mode", "at", "un", "read", "had", "base", "live", "tries", "aborted",
                          "alone", "hurt"}
  BY DEF NoTask
<1>6. \A r \in Slots : ~Begun(r) /\ ~Running(r)
  BY <1>1, <1>5 DEF Begun, Running
<1>7. TypeInv
  <2>1. TaskOK(NoTask)
    BY <1>5 DEF TaskOK
  <2>2. vol \in [Shared -> Contents] /\ own \in [Slots -> [Private -> Contents]]
    BY <1>3 DEF Init
  <2>3. server.loaded \in [Loadable -> Contents]
    <3>1. \A p \in Loadable : server.loaded[p] \in Contents
      BY <1>1, <1>3, <1>4
    <3>2. server.loaded = [p \in Loadable |-> vol[p]]
      BY DEF Init, Loadable
    <3>3. \A p \in Loadable : vol[p] \in Contents
      BY <1>1, <3>1
    <3> QED
      BY <3>2, <3>3
  <2>4. faults \in 0 .. MaxFaults
    BY <1>1, FaultsAssumption
  <2> QED
    BY <2>1, <2>2, <2>3, <2>4, <1>1, <1>2 DEF TypeInv
<1>8. OrderInv
  BY <1>1, <1>5, <1>6 DEF OrderInv
<1>9. FreshInv
  <2>1. \A r \in Slots : r \notin AsFound /\ r \notin Absent
    BY <1>3, SlotsAreTwo
  <2>2. \A r \in Slots : \A p \in Shared : r \notin vol[p]
    BY <2>1, <1>1
  <2>3. \A r \in Slots : \A p \in Loadable : r \notin server.loaded[p]
    BY <2>2, <1>1, <1>4
  <2>4. \A r \in Slots : \A q \in Slots : \A p \in Private : r \notin own[q][p]
    BY <2>1, <1>1
  <2>5. \A r \in Slots : \A q \in Slots : \A p \in DOMAIN tasks[q].read : r \notin tasks[q].read[p]
    BY <1>1, <1>5
  <2> QED
    BY <2>2, <2>3, <2>4, <2>5, <1>1 DEF FreshInv
<1>10. BaseInv /\ TrackedInv /\ SureInv
  BY <1>6 DEF BaseInv, TrackedInv, SureInv
<1>11. OwnedInv
  <2>1. \A p \in layout : vol[p] = AsFound
    BY <1>1, <1>2
  <2> QED
    BY <2>1, <1>6 DEF OwnedInv
<1>12. HandedInv
  <2>1. ASSUME NEW p \in layout \cap Handed PROVE HandedOver(p, 0)
    <3>1. /\ Stages(p) \subseteq Places /\ p \notin Private /\ p \in Stages(p) /\ p \in Shared
          /\ Stages(p) \ {p} \subseteq Private
      BY <2>1, StagesAre
    <3>2. vol[p] = AsFound
      BY <2>1, <3>1, <1>1
    <3>3. \A r \in Slots : \A h \in Stages(p) : At(r, h) = IF h = p THEN AsFound ELSE Absent
      BY <3>1, <3>2, <1>1 DEF At
    <3>4. p = "config" => 0 \in server.loaded[p]
      <4>1. "config" \in Loadable
        BY DEF Loadable, Started
      <4> QED
        BY <4>1, <3>2, <1>1, <1>3
    <3>5. 1 \in Slots
      BY SlotsAreTwo
    <3> QED
      BY <3>1, <3>3, <3>4, <3>5, <1>3, <1>6 DEF HandedOver
  <2> QED
    BY <2>1 DEF HandedInv
<1>13. UpdateInv
  BY <1>1, <1>5, <1>6 DEF UpdateInv
<1>14. RuntimeInv
  BY <1>1, <1>5 DEF RuntimeInv
<1>15. MarkerInv
  <2>1. "moduleVersion" \in Shared
    BY DEF Shared
  <2> QED
    BY <2>1, <1>6, <1>9 DEF MarkerInv, FreshInv
<1>16. NoOrphanToken
  BY <1>1, <1>5 DEF NoOrphanToken
<1>17. CacheInv
  <2>1. Marked(vol)
    <3>1. "installer" \in Shared /\ "installerVersion" \in Shared
      BY DEF Shared
    <3> QED
      BY <3>1, <1>1, <1>2 DEF Marked
  <2> QED
    BY <2>1, <1>1, <1>5, <1>6 DEF CacheInv
<1> QED
  BY <1>7, <1>8, <1>9, <1>10, <1>11, <1>12, <1>13, <1>14, <1>15, <1>16, <1>17 DEF IInv

-----------------------------------------------------------------------------
(* The invariant *)

LEMMA JobStep == ASSUME IInv, NEW r \in Slots, StepOf(r) PROVE IInv'
<1> USE DEF IInv
<1>1. TypeInv'
  BY TypeStep
<1>2. OrderInv'
  BY OrderStep
<1>3. FreshInv'
  BY FreshStep
<1>4. BaseInv'
  BY BaseStep
<1>5. TrackedInv'
  BY TrackedStep
<1>6. OwnedInv'
  BY OwnedStep
<1>7. SureInv'
  BY SureStep
<1>8. HandedInv'
  BY HandedStep
<1>9. UpdateInv'
  BY <1>3, UpdateStep
<1>10. RuntimeInv'
  BY RuntimeStep
<1>11. MarkerInv'
  BY <1>3, MarkerStep
<1>12. NoOrphanToken'
  BY OrphanStep
<1>13. CacheInv'
  BY CacheStep
<1> QED
  BY <1>1, <1>2, <1>3, <1>4, <1>5, <1>6, <1>7, <1>8, <1>9, <1>10, <1>11, <1>12, <1>13

LEMMA StutterStep == ASSUME IInv, UNCHANGED vars PROVE IInv'
<1> USE DEF IInv
<1>1. /\ area' = area /\ layout' = layout /\ vol' = vol /\ own' = own /\ server' = server
      /\ tasks' = tasks /\ faults' = faults
  BY DEF vars
<1>2. \A r \in Slots : (Running(r)' <=> Running(r)) /\ (Begun(r)' <=> Begun(r)) /\ \A h : At(r, h)' = At(r, h)
  BY <1>1 DEF Running, Begun, At
<1>3. TypeInv' /\ OrderInv' /\ FreshInv'
  BY <1>1, <1>2 DEF TypeInv, OrderInv, FreshInv
<1>4. BaseInv' /\ SureInv' /\ OwnedInv'
  BY <1>1, <1>2 DEF BaseInv, SureInv, OwnedInv
<1>5. TrackedInv'
  <2>1. ASSUME NEW q \in Slots, Running(q)', NEW v \in Views(tasks'[q].op), Valid(q, v)'
        PROVE  \E x \in Table(tasks'[q], v) :
                  /\ Shows(x, q, v, tasks[q].base, tasks[q].live)'
                  /\ Recalls(x, q, tasks[q].base, tasks[q].live)'
    <3>1. Valid(q, v) /\ v \in Views(tasks[q].op) /\ Running(q)
      BY <2>1, <1>1, <1>2 DEF Valid
    <3> QED
      BY <3>1, <1>1, KeptEntry
  <2> QED
    BY <2>1 DEF TrackedInv
<1>6. ASSUME NEW p, NEW m, HandedOver(p, m) PROVE HandedOver(p, m)'
  <2>1. \A r \in Slots : \A h \in Stages(p) : At(r, h)' = Absent \/ m \in At(r, h)'
    BY <1>2, <1>6 DEF HandedOver
  <2>2. \E r \in Slots : \E h \in Stages(p) : m \in At(r, h)'
    BY <1>2, <1>6 DEF HandedOver
  <2> QED
    BY <2>1, <2>2, <1>1, <1>2, <1>6 DEF HandedOver
<1>7. HandedInv'
  BY <1>1, <1>6 DEF HandedInv
<1>8. UpdateInv'
  <2>1. HandedOver("profile", 1) => HandedOver("profile", 1)'
    BY <1>6
  <2>2. \A r \in Slots : Unmixed(r)' <=> Unmixed(r)
    BY <1>1 DEF Unmixed
  <2> QED
    BY <2>1, <2>2, <1>1, <1>2 DEF UpdateInv
<1>9. RuntimeInv' /\ MarkerInv' /\ NoOrphanToken'
  BY <1>1, <1>2 DEF RuntimeInv, MarkerInv, NoOrphanToken
<1>10. CacheInv'
  BY <1>1, <1>2 DEF CacheInv, Idle, Marked
<1> QED
  BY <1>3, <1>4, <1>5, <1>7, <1>8, <1>9, <1>10

\* Whatever the numbers of jobs, areas and faults: the volume, LaunchServer and the tasks of the
\* services' jobs (client-build.service.ts and the services beside it) stay in the tables.
THEOREM InvariantHolds == Spec => []IInv
<1>1. Init => IInv
  BY InitInv
<1>2. IInv /\ [Next]_vars => IInv'
  <2> SUFFICES ASSUME IInv, [Next]_vars PROVE IInv'
    OBVIOUS
  <2>1. ASSUME NEW r \in Slots, NEW op \in Operations[area][r], Begin(r, op) PROVE IInv'
    BY <2>1, BeginStep
  <2>2. ASSUME NEW r \in Slots, StepOf(r) PROVE IInv'
    BY <2>2, JobStep
  <2>3. ASSUME NEW r \in Slots, Cancel(r) PROVE IInv'
    BY <2>3, CancelStep
  <2>4. CASE Crash
    BY <2>4, CrashStep
  <2>5. CASE UNCHANGED vars
    BY <2>5, StutterStep
  <2> QED
    BY <2>1, <2>2, <2>3, <2>4, <2>5 DEF Next, StepOf
<1> QED
  BY <1>1, <1>2, PTL DEF Spec

\* The invariant gives the properties of states.
LEMMA Kept == ASSUME IInv PROVE OriginalKept
<1> USE DEF IInv
<1> SUFFICES ASSUME area \notin {"builds", "modpacks"},
                    NEW p \in layout \cap {"profile", "client", "manifest", "workspace", "prestarter", "runtime",
                                           "resources", "custom", "asset", "config", "java", "rcConfig"}
             PROVE  \E h \in Homes(p) : \E r \in Slots : 0 \in At(r, h)
  BY DEF OriginalKept
<1>1. CASE p \in Owned
  <2>1. CASE \E r \in Slots : Begun(r) /\ p \in Changed(tasks[r].op)
    BY <2>1, <1>1, OwnedFound
  <2>2. CASE ~\E r \in Slots : Begun(r) /\ p \in Changed(tasks[r].op)
    <3>1. vol[p] = AsFound
      BY <2>2, <1>1 DEF OwnedInv
    <3>2. p \notin Private
      BY <1>1 DEF Owned, Private
    <3>3. 1 \in Slots /\ 0 \in At(1, p)
      BY <3>1, <3>2, SlotsAreTwo DEF At, AsFound
    <3> QED
      BY <3>3, HomesShared
  <2> QED
    BY <2>1, <2>2
<1>2. CASE p \notin Owned
  <2>1. p \in Handed
    BY <1>2 DEF Owned, Handed
  <2>2. area \in KeptAreas
    BY AreasAssumption DEF TypeInv, KeptAreas
  <2>3. PICK r \in Slots, h \in Stages(p) : 0 \in At(r, h)
    BY <2>1, <2>2 DEF HandedInv, HandedOver
  <2>4. h \in Homes(p)
    BY <2>1, <2>3 DEF Stages, Homes, Handed
  <2> QED
    BY <2>3, <2>4
<1> QED
  BY <1>1, <1>2

LEMMA Typed == ASSUME IInv PROVE VolumeTypeOK
<1> USE DEF IInv
<1>1. DOMAIN vol = Shared /\ \A p \in Shared : vol[p] \in Contents
  BY DEF TypeInv
<1>2. \A r \in Slots : \A p \in Private : own[r][p] \in Contents
  BY DEF TypeInv
<1>3. server.up \in BOOLEAN /\ \A p \in Synced \cup Started : server.loaded[p] \in Contents
  BY DEF TypeInv, Loadable
<1>4. ASSUME NEW r \in Slots
      PROVE  /\ tasks[r].mode \in {"none", "body", "undo", "done", "failed", "dead"}
             /\ Running(r) =>
                   \E c \in {Code(r)} :
                      /\ tasks[r].at \in DOMAIN c.body
                      /\ tasks[r].mode = "undo" => tasks[r].un \in DOMAIN c.undo
  <2>1. TaskOK(tasks[r])
    BY DEF TypeInv
  <2> QED
    BY <2>1 DEF TaskOK, Running, Code
<1> QED
  BY <1>1, <1>2, <1>3, <1>4 DEF VolumeTypeOK, TypeInv

LEMMA Catalogued == ASSUME IInv PROVE CatalogIsWhole
<1> USE DEF IInv
<1> SUFFICES ASSUME NEW r \in Slots, tasks[r].op \in Installing, tasks[r].alone,
                    tasks[r].mode \in {"body", "done"}, r \in vol["config"]
             PROVE  vol["java"] = {r}
  BY DEF CatalogIsWhole, Installing
<1>1. CASE tasks[r].mode = "done"
  BY <1>1 DEF RuntimeInv
<1>2. CASE tasks[r].mode = "body"
  <2>1. /\ "alone" \in Views(tasks[r].op) /\ {"config", "java"} \subseteq Domain(tasks[r].op, "alone")
        /\ \A x \in BodyOf(tasks[r].op, "alone") : Mine \in x.at["config"] => x.at["java"] = {Mine}
    <3>1. Running(r) /\ tasks[r].op \in Ops
      BY <1>2, Position DEF Running
    <3> QED
      BY <3>1, RuntimesAreWhole DEF Runtimes
  <2>2. Running(r) /\ Valid(r, "alone") /\ "config" \notin Private /\ "java" \notin Private
    BY <1>2 DEF Running, Valid, Owned, Private
  <2>3. PICK x, base, live :
           /\ InTable(tasks[r], "alone", x)
           /\ \A p \in Domain(tasks[r].op, "alone") :
                 /\ p \in DOMAIN x.at /\ At(r, p) = Value(r, base, live, x.at[p])
                 /\ r \in At(r, p) <=> Mine \in x.at[p]
    BY <2>1, <2>2, Stands
  <2>4. x \in BodyOf(tasks[r].op, "alone")
    <3>1. x \in Bodies[tasks[r].op]["alone"][tasks[r].at] /\ tasks[r].at \in DOMAIN Programs[tasks[r].op]
      BY <2>3, <1>2 DEF InTable, Table, TaskOK
    <3>2. Bodies[tasks[r].op]["alone"][tasks[r].at] \in
             {Bodies[tasks[r].op]["alone"][i] : i \in DOMAIN Programs[tasks[r].op]}
      BY <3>1
    <3> QED
      BY <3>1, <3>2 DEF BodyOf
  <2>5. At(r, "config") = vol["config"] /\ At(r, "java") = vol["java"]
    BY <2>2 DEF At
  <2>6. x.at["java"] = {Mine}
    BY <2>1, <2>3, <2>4, <2>5
  <2>7. vol["java"] = Value(r, base, live, {Mine})
    BY <2>1, <2>3, <2>5, <2>6
  <2> QED
    BY <2>7, Values
<1> QED
  BY <1>1, <1>2

LEMMA MarkersTell == ASSUME IInv PROVE MarkersTellTruth
<1> USE DEF IInv
<1>1. ASSUME NEW r \in Slots, tasks[r].alone, r \in vol["moduleVersion"]
      PROVE  vol["moduleJar"] \in {Absent, {r}}
  <2>1. Begun(r)
    BY <1>1 DEF OrderInv, NoTask
  <2>2. CASE Running(r)
    BY <2>2, <1>1, MarkedWhile
  <2>3. CASE ~Running(r)
    BY <2>1, <2>3, <1>1 DEF MarkerInv
  <2> QED
    BY <2>2, <2>3
<1>2. Idle /\ faults = 0 /\ (\A r \in Slots : tasks[r] = NoTask \/ tasks[r].alone) => Marked(vol)
  BY DEF CacheInv
<1> QED
  BY <1>1, <1>2 DEF MarkersTellTruth, Marked

LEMMA NotLost == ASSUME IInv PROVE NoLostUpdate
<1> USE DEF IInv
<1> SUFFICES ASSUME NEW r \in Slots, tasks[r].mode = "done", tasks[r].op \in Edits, Unmixed(r)
             PROVE  \E h \in Homes("profile") : \E q \in Slots : r \in At(q, h)
  BY DEF NoLostUpdate
<1>1. tasks[r].alone
  BY DEF UpdateInv, Begun
<1>2. IF r = 1 THEN HandedOver("profile", 1) ELSE r \in vol["profile"]
  BY <1>1 DEF UpdateInv
<1>3. CASE r = 1
  <2>1. PICK q \in Slots, h \in Stages("profile") : 1 \in At(q, h)
    BY <1>2, <1>3 DEF HandedOver
  <2>2. h \in Homes("profile")
    BY <2>1 DEF Stages, Homes
  <2> QED
    BY <2>1, <2>2, <1>3
<1>4. CASE r # 1
  <2>1. r \in At(r, "profile")
    BY <1>2, <1>4 DEF At, Private
  <2> QED
    BY <2>1, HomesShared
<1> QED
  BY <1>3, <1>4

\* The first content of each of the twelve places that the services back up (profile, client,
\* workspace, runtimes, configurations) is at the place or under a backup, through every failure,
\* crash and cancellation; of what they replace without a backup it says nothing.
THEOREM OriginalIsKept == Spec => []OriginalKept
<1>1. IInv => OriginalKept
  BY Kept
<1> QED
  BY <1>1, InvariantHolds, PTL

\* The catalog, the markers and the token of the volume tell the truth, and a task is where its
\* program has a step.
THEOREM RecordsAreTrue == Spec => []RecordsTellTruth
<1>1. IInv => RecordsTellTruth
  BY Typed, Catalogued, MarkersTell DEF RecordsTellTruth, IInv
<1> QED
  BY <1>1, InvariantHolds, PTL

\* A change of the profile that is reported as done stays in it, if the jobs beside it were of its
\* kind: mod jobs, which wait in their queue, or the others, which are refused while one is active.
THEOREM NoUpdateIsLost == Spec => []NoLostUpdate
<1>1. IInv => NoLostUpdate
  BY NotLost
<1> QED
  BY <1>1, InvariantHolds, PTL

-----------------------------------------------------------------------------
(* The properties of steps *)

\* Only a step of its own ends a job, in success or failure.
LEMMA EndsIn ==
    ASSUME IInv, [Next]_vars, NEW r \in Slots, NEW mode \in {"done", "failed"}, Ends(r, mode)
    PROVE  StepOf(r) /\ ~Running(r)'
<1> USE DEF IInv
<1>1. Running(r) /\ tasks'[r].mode = mode /\ tasks[r].mode \in {"body", "undo"} /\ ~Running(r)'
  BY DEF Ends, Running
<1>2. ASSUME NEW q \in Slots, NEW op \in Operations[area][q], Begin(q, op) PROVE FALSE
  <2>1. Begins(q, op)
    BY <1>2, BeginIs
  <2>2. q # r
    BY <2>1, <1>1 DEF Begins, Begun
  <2> QED
    BY <2>1, <2>2, <1>1 DEF Begins
<1>3. ASSUME NEW q \in Slots, StepOf(q) PROVE q = r
  <2>1. q # r => tasks'[r] = tasks[r]
    BY <1>3, StepOthers
  <2> QED
    BY <2>1, <1>1
<1>4. ASSUME NEW q \in Slots, Cancel(q) PROVE FALSE
  <2>1. tasks'[r].mode = tasks[r].mode
    BY <1>4, CancelIs
  <2> QED
    BY <2>1, <1>1
<1>5. ASSUME Crash PROVE FALSE
  <2>1. tasks'[r].mode = "dead"
    BY <1>1, <1>5, CrashIs
  <2> QED
    BY <2>1, <1>1
<1>6. ~UNCHANGED vars
  BY <1>1 DEF vars
<1>7. \E q \in Slots : StepOf(q)
  BY <1>2, <1>4, <1>5, <1>6 DEF Next, StepOf
<1> QED
  BY <1>1, <1>3, <1>7

\* The places that an operation changes together or publishes are shared, and in its view.
LEMMA TogetherAre ==
    ASSUME NEW op, NEW p
    PROVE  /\ p \in Together(op) => p \in Shared /\ p \notin Private
           /\ p \in Published(op) => p \in Shared /\ p \notin Private /\ p \in Loadable
<1>1. p \in Together(op) =>
         p \in {"profile", "client", "java", "config", "modulesConfig", "moduleJar", "workspace", "prestarter"}
  BY DEF Together
<1>2. \A q \in {"profile", "client", "java", "config", "modulesConfig", "moduleJar", "workspace", "prestarter"} :
         q \in Shared /\ q \notin Private
  BY DEF Shared, Synced, Started, Trees, Private
<1>3. p \in Published(op) => p \in Synced \cup {"config", "modulesConfig"}
  BY DEF Published
<1>4. \A q \in Synced \cup {"config", "modulesConfig"} : q \in Shared /\ q \notin Private /\ q \in Loadable
  BY DEF Shared, Synced, Started, Private, Loadable
<1> QED
  BY <1>1, <1>2, <1>3, <1>4

LEMMA TogetherIn ==
    ASSUME NEW op
    PROVE  Together(op) \subseteq Domain(op, "alone") /\ Published(op) \subseteq Domain(op, "alone")
<1>1. Together(op) \cup Published(op) \subseteq Places
  BY TogetherAre DEF Places
<1> QED
  BY <1>1, AloneDomain

LEMMA FailsWhole ==
    ASSUME IInv, [Next]_vars, NEW r \in Slots, Ends(r, "failed"), tasks[r].alone, ~tasks'[r].hurt
    PROVE  {p \in Together(tasks[r].op) : vol'[p] # tasks[r].base[p]} \in {{}, Together(tasks[r].op)}
<1> USE DEF IInv
<1> DEFINE op == tasks[r].op
           changed == {p \in Together(op) : vol'[p] # tasks[r].base[p]}
<1> SUFFICES changed \in {{}, Together(op)}
  OBVIOUS
<1>0. \A p : p \in changed <=> p \in Together(op) /\ vol'[p] # tasks[r].base[p]
  OBVIOUS
<1> HIDE DEF changed
<1>1. StepOf(r) /\ ~Running(r)' /\ tasks'[r].mode = "failed"
  BY EndsIn DEF Ends
<1>2. op \in Ops
  BY <1>1, StepOthers
<1>3. CASE \A p, q \in Together(op) : p = q
  BY <1>0, <1>3
<1>4. CASE ~(\A p, q \in Together(op) : p = q)
  <2>1. /\ "alone" \in Views(op)
        /\ \A x \in FailedOf(op, "alone") : ~x.hurt =>
              (\A p \in Together(op) : Unchanged(x, p)) \/ (\A p \in Together(op) : ChangedIn(x, p))
    BY <1>2, <1>4, FailuresAreWhole
  <2>2. PICK y, base, live :
           /\ base = tasks[r].base /\ Unmarked(r, base, live) /\ y \in FailedOf(op, "alone")
           /\ Shows(y, r, "alone", base, live)'
           /\ \A p \in Domain(op, "alone") :
                 /\ At(r, p)' = Value(r, base, live, y.at[p])
                 /\ r \in At(r, p)' <=> Mine \in y.at[p]
    BY <2>1, <1>1, StepEnds DEF Owned
  <2>3. ~y.hurt
    BY <2>2 DEF Shows
  <2>4. ASSUME NEW p \in Together(op)
        PROVE  /\ vol'[p] = Value(r, base, live, y.at[p]) /\ (r \in vol'[p] <=> Mine \in y.at[p])
               /\ r \notin base[p]
    <3>1. p \in Domain(op, "alone") /\ p \in Shared /\ p \notin Private
      BY TogetherIn, TogetherAre
    <3> QED
      BY <3>1, <2>2 DEF At, Unmarked
  <2>5. ASSUME NEW p PROVE Meaning(r, base, live, Old(p)) = base[p]
    BY DEF Meaning, Old, Mine, HalfDone, Off
  <2>6. CASE \A p \in Together(op) : Unchanged(y, p)
    <3>1. ASSUME NEW p \in Together(op) PROVE vol'[p] = base[p]
      <4>1. y.at[p] = {Old(p)}
        BY <2>6 DEF Unchanged
      <4>2. vol'[p] = Value(r, base, live, {Old(p)})
        BY <4>1, <2>4
      <4>3. Value(r, base, live, {Old(p)}) = Meaning(r, base, live, Old(p))
        BY ValueOfOne
      <4> QED
        BY <4>2, <4>3, <2>5
    <3> QED
      BY <3>1, <2>2, <1>0
  <2>7. CASE \A p \in Together(op) : ChangedIn(y, p)
    <3>1. ASSUME NEW p \in Together(op) PROVE vol'[p] # base[p]
      <4>1. CASE Mine \in y.at[p]
        BY <4>1, <2>4
      <4>2. CASE y.at[p] = {} /\ Old(p) \in y.there
        <5>1. Meaning(r, base, live, Old(p)) # {}
          BY <4>2, <2>2 DEF Shows
        <5>2. base[p] # {}
          BY <5>1, <2>5
        <5>3. vol'[p] = Value(r, base, live, {})
          BY <4>2, <2>4
        <5> QED
          BY <5>2, <5>3, ValueOfNothing
      <4> QED
        BY <4>1, <4>2, <2>7 DEF ChangedIn
    <3> QED
      BY <3>1, <2>2, <1>0
  <2> QED
    BY <2>1, <2>2, <2>3, <2>6, <2>7
<1> QED
  BY <1>3, <1>4

LEMMA DoneLive ==
    ASSUME IInv, [Next]_vars, NEW r \in Slots, Ends(r, "done"), tasks[r].alone,
           NEW p \in Published(tasks[r].op)
    PROVE  server'.up /\ server'.loaded[p] = vol'[p]
<1> USE DEF IInv
<1> DEFINE op == tasks[r].op
<1>1. StepOf(r) /\ ~Running(r)' /\ tasks'[r].mode = "done"
  BY EndsIn DEF Ends
<1>2. op \in Ops
  BY <1>1, StepOthers
<1>3. /\ "alone" \in Views(op)
      /\ \A x \in DoneOf(op, "alone") : \A q \in Published(op) : x.up /\ x.loaded[q] = x.at[q]
  BY <1>2, PublishedIsLoaded
<1>4. PICK y, base, live :
         /\ y \in DoneOf(op, "alone") /\ y \in Entries(op, "alone")
         /\ Shows(y, r, "alone", base, live)'
         /\ \A q \in Domain(op, "alone") : At(r, q)' = Value(r, base, live, y.at[q])
  BY <1>1, <1>3, StepEnds DEF Owned
<1>5. p \in Domain(op, "alone") /\ p \notin Private /\ p \in Loadable
  BY TogetherIn, TogetherAre
<1>6. p \in DOMAIN y.loaded
  <2>1. Viewed(op, "alone", y)
    BY <1>2, <1>3, <1>4, ViewFacts
  <2> QED
    BY <2>1, <1>5 DEF Viewed
<1>7. y.up /\ y.loaded[p] = y.at[p]
  BY <1>3, <1>4
<1>8. server'.up
  BY <1>4, <1>7 DEF Shows
<1>9. server'.loaded[p] = Value(r, base, live, y.loaded[p])
  BY <1>4, <1>6 DEF Shows
<1>10. vol'[p] = Value(r, base, live, y.at[p])
  BY <1>4, <1>5 DEF At
<1> QED
  BY <1>7, <1>8, <1>9, <1>10

LEMMA LauncherFollows ==
    ASSUME IInv, [Next]_vars, NEW r \in Slots, Ends(r, "done"), tasks[r].alone, tasks[r].op \in Runtimes
    PROVE  vol'["launcher"] = vol'["config"]
<1> USE DEF IInv
<1> DEFINE op == tasks[r].op
<1>1. StepOf(r) /\ ~Running(r)' /\ tasks'[r].mode = "done"
  BY EndsIn DEF Ends
<1>2. /\ "alone" \in Views(op) /\ {"config", "launcher"} \subseteq Domain(op, "alone")
      /\ \A x \in DoneOf(op, "alone") : x.at["launcher"] = x.at["config"]
  BY RuntimesAreWhole
<1>3. PICK y, base, live :
         /\ y \in DoneOf(op, "alone")
         /\ \A q \in Domain(op, "alone") : At(r, q)' = Value(r, base, live, y.at[q])
  BY <1>1, <1>2, StepEnds DEF Owned
<1>4. "launcher" \notin Private /\ "config" \notin Private
  BY DEF Private
<1>5. At(r, "launcher")' = vol'["launcher"] /\ At(r, "config")' = vol'["config"]
  BY <1>4 DEF At
<1> QED
  BY <1>2, <1>3, <1>5

\* An operation that fails, alone and with no step half done, has changed all of the files that
\* belong together or none: the catch statements put back what the steps before them have done.
THEOREM FailuresAreAllOrNothing == Spec => AllOrNothing
<1>1. IInv /\ [Next]_vars =>
         [\A r \in Slots :
             LET t == tasks[r]
                 changed == {p \in Together(t.op) : vol'[p] # t.base[p]}
             IN  Ends(r, "failed") /\ t.alone /\ ~tasks'[r].hurt =>
                    changed \in {{}, Together(t.op)}]_vars
  BY FailsWhole
<1> QED
  BY <1>1, InvariantHolds, PTL DEF Spec, AllOrNothing

\* What is reported as done is what players get: LaunchServer has loaded what the operation wrote,
\* and a launcher that a Java operation built is of the configuration that is on the volume.
THEOREM SuccessesArePublished == Spec => SuccessIsPublished
<1>1. IInv /\ [Next]_vars =>
         [\A r \in Slots :
             Ends(r, "done") /\ tasks[r].alone =>
                \A p \in Published(tasks[r].op) : server'.up /\ server'.loaded[p] = vol'[p]]_vars
  BY DoneLive
<1>2. IInv /\ [Next]_vars =>
         [\A r \in Slots :
             Ends(r, "done") /\ tasks[r].alone
                /\ tasks[r].op \in {"InstallJava", "InstallTemurin", "RemoveJava", "UpdateJavaSettings"} =>
                   vol'["launcher"] = vol'["config"]]_vars
  BY LauncherFollows DEF Runtimes, Installing
<1>3. Spec => SuccessIsLive
  BY <1>1, InvariantHolds, PTL DEF Spec, SuccessIsLive
<1>4. Spec => LauncherFollowsConfig
  BY <1>2, InvariantHolds, PTL DEF Spec, LauncherFollowsConfig
<1> QED
  BY <1>3, <1>4, PTL DEF SuccessIsPublished
=============================================================================

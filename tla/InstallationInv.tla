---------------------------- MODULE InstallationInv ----------------------------
(***************************************************************************)
(* Why the properties of Installation hold, for any number of faults.       *)
(*                                                                          *)
(* The programs are data: what one of them can make of the places, wherever *)
(* it throws and whatever its undo steps do, is computed here from its      *)
(* steps, on contents that are sets of names (what was at a place when the  *)
(* job began, what the job wrote, half a tree).  The assumptions say that   *)
(* the tables so obtained are complete and that what they hold is good.     *)
(* They are about the programs alone, so that TLC evaluates them; the       *)
(* invariant says that a job is where its table says, and what of it        *)
(* remains when the job has ended.                                          *)
(***************************************************************************)
EXTENDS Installation

Ops == DOMAIN Programs

OpsOf(a) == Operations[a][1] \cup Operations[a][2]

StepsOf(op) == Range(Programs[op]) \cup UNION {Range(Undos[op][i]) : i \in DOMAIN Programs[op]}

-----------------------------------------------------------------------------
(* Names of contents: what was at p when the job began, what LaunchServer had  *)
(* loaded of p, what the job writes, half a tree, a configuration switched off. *)

Old(p)   == <<"old", p>>
Held(p)  == <<"held", p>>
Mine     == <<"mine", "">>
HalfDone == <<"half", "">>
Off      == <<"off", "">>

Loadable == Synced \cup Started

Names == {Mine, HalfDone, Off} \cup {Old(p) : p \in Shared} \cup {Held(p) : p \in Loadable}

-----------------------------------------------------------------------------
(* Views: all places of an operation while its job runs alone, or some that no *)
(* operation of the other slot touches.                                       *)

\* What is replaced by one job at a time, from a copy beside it.
Owned == {"manifest", "workspace", "prestarter", "runtime", "resources", "custom", "asset",
          "java", "rcConfig"}

Pending(v) == CASE v = "java" -> {"javaPending"}
                [] v = "resources" -> {"resourcesPending"}
                [] OTHER -> {}

Domain(op, v) ==
    CASE v = "alone" -> Places \cap ((UNION {{s.at, s.from} : s \in StepsOf(op)})
                                     \cup Together(op) \cup Published(op))
      [] v = "token" -> {"rcConfig", "rcBackup", "credential"}
      [] OTHER -> Homes(v) \cup Pending(v)

Passive == {"find", "miss", "look", "read", "ask", "sync", "fetch", "restart", "touch", "check",
            "enough", "healthy", "commit", "try"}

Targets(s) == CASE s.do \in Passive -> {}
                [] s.do \in {"move", "make"} -> {s.at, s.from}
                [] OTHER -> {s.at}

Changed(op) == UNION {Targets(s) : s \in StepsOf(op)}

Views(op) ==
    (Owned \cap Changed(op))
    \cup (IF Together(op) # {} \/ Published(op) # {} \/ "moduleVersion" \in Changed(op) THEN {"alone"} ELSE {})
    \cup (IF op = "ProvisionRemote" THEN {"token"} ELSE {})

Seen(op) == UNION {s.need \cup s.lack : s \in StepsOf(op)}

\* The operations that only the first job of a behaviour is.
First(op) == \A a \in DOMAIN Operations : op \notin Operations[a][2]

-----------------------------------------------------------------------------
(* An entry of a table: at, read and loaded are contents by name, had the places *)
(* that were seen, there the names that are known to be something, up that      *)
(* LaunchServer is known to run, hurt as in the task.                           *)

Entry(at, read, loaded, had, there, up, hurt) ==
    [at |-> at, read |-> read, loaded |-> loaded, had |-> had, there |-> there, up |-> up, hurt |-> hurt]

Start(op, v) ==
    LET D == Domain(op, v)
    IN  Entry([p \in D |-> IF p \in Private THEN {} ELSE {Old(p)}],
              [p \in D |-> {}],
              [p \in (IF v = "alone" THEN D \cap Loadable ELSE {}) |->
                  {IF First(op) THEN Old(p) ELSE Held(p)}],
              {}, IF v \in Owned THEN {Old(v)} ELSE {}, v = "alone" /\ First(op), FALSE)

Something(x, c) == c \cap (x.there \cup {Mine, HalfDone, Off}) # {}

Here(x, s) == Targets(s) \cap DOMAIN x.at # {}

NamedWrites(x, s) ==
    IF ~Here(x, s) THEN Nothing
    ELSE CASE s.do = "copy" -> One(s.at, x.at[s.from])
           [] s.do = "move" -> Two(s.from, {}, s.at,
                                   (IF s.at \in Trees THEN x.at[s.at] ELSE {}) \cup x.at[s.from])
           [] s.do = "edit" -> One(s.at, x.read[s.at] \cup {Mine})
           [] s.do = "back" -> One(s.at, x.read[s.at])
           [] s.do \in {"put", "unpack", "live", "keep"} -> One(s.at, {Mine})
           [] s.do = "make" -> Two(s.at, {Mine}, s.from, {Mine})
           [] s.do = "save" -> One(s.at, x.loaded[s.at] \cup {Mine})
           [] s.do = "build" -> One(s.at, x.loaded["config"])
           [] s.do = "disable" -> One(s.at, {Off})
           [] s.do \in {"drop", "unlive", "forget"} -> One(s.at, {})
           [] OTHER -> Nothing

NamedHalf(x, s) ==
    IF ~Here(x, s) THEN {}
    ELSE CASE s.do \in {"copy", "unpack"} -> {One(s.at, {HalfDone})}
           [] s.do = "make" -> {Two(s.at, {HalfDone}, s.from, c) : c \in {x.at[s.from], {Mine}}}
           [] s.do = "drop" /\ s.at \in Trees -> {One(s.at, {HalfDone})}
           [] OTHER -> {}

Over(f, w) == [p \in DOMAIN f |-> IF p \in DOMAIN w THEN w[p] ELSE f[p]]

NamedLoading(x, s, w) ==
    [p \in DOMAIN x.loaded |->
        IF s.do = "restart" \/ (s.do = "sync" /\ p \in Synced) THEN x.at[p]
        ELSE IF s.do = "save" /\ p = s.at THEN w[p] ELSE x.loaded[p]]

-----------------------------------------------------------------------------
(* What becomes of an entry at step s. *)

Enters(x, s) == s.need \subseteq x.had /\ s.lack \cap x.had = {}

Pausing == {"try", "commit", "enough", "healthy"}

MaySkip(x, s) == s.do \in Pausing \/ ~Enters(x, s)

MayTry(x, s) == s.do \notin Pausing /\ Enters(x, s)

MayWork(x, s) ==
    /\ s.do \in {"find", "read", "copy", "move"} /\ s.from \in DOMAIN x.at => x.at[s.from] # {}
    /\ s.do = "miss" /\ s.at \in DOMAIN x.at => ~Something(x, x.at[s.at])

\* A step that finds its source tells that it is something.
There(x, s) ==
    x.there \cup (IF /\ s.do \in {"find", "read", "copy", "move"} /\ s.from \in DOMAIN x.at
                     /\ \E p \in Shared : x.at[s.from] = {Old(p)}
                  THEN x.at[s.from] ELSE {})

\* The sets of places that may have been seen by a look.
Looks(x, seen) ==
    {H \in SUBSET seen :
        \A p \in (seen \cap DOMAIN x.at) \ Private :
           (x.at[p] = {} => p \notin H) /\ (Something(x, x.at[p]) => p \in H)}

Done(x, s, seen) ==
    LET w == NamedWrites(x, s)
        at == [p \in DOMAIN x.at |-> IF s.do = "miss" /\ p = s.at THEN {} ELSE x.at[p]]
        read == [p \in DOMAIN x.read |-> IF s.do = "read" /\ p = s.at THEN x.at[p] ELSE x.read[p]]
    IN  {Entry(Over(at, w), read, NamedLoading(x, s, w), H, There(x, s),
               x.up \/ s.do \notin Outside \/ s.do = "restart", x.hurt) :
            H \in IF s.do = "look" THEN Looks(x, seen) ELSE {x.had}}

Refused(x, s, undoing) ==
    IF s.do # "look" /\ s.tries = 1
    THEN {Entry(x.at, x.read, x.loaded, x.had, x.there, x.up, x.hurt \/ undoing)} ELSE {}

HalfWay(x, s) ==
    IF s.tries = 1 /\ MayWork(x, s)
    THEN {Entry(Over(x.at, w), x.read, IF s.do = "save" THEN NamedLoading(x, s, w) ELSE x.loaded,
                x.had, x.there, x.up, TRUE) :
             w \in NamedHalf(x, s) \cup {NamedWrites(x, s)}}
    ELSE {}

Stopped(x, s) ==
    IF s.do = "restart"
    THEN {Entry(x.at, x.read, l, x.had, x.there, FALSE, TRUE) :
             l \in {x.loaded, NamedLoading(x, s, Nothing)}}
    ELSE {}

Emptied(x, s) ==
    IF MayTry(x, s) /\ s.tries > 1
    THEN {Entry(Over(x.at, One(s.at, {})), x.read, x.loaded, x.had, x.there, x.up, x.hurt)} ELSE {}

Cut(x, s) ==
    IF MayTry(x, s) /\ s.tries > 1
    THEN {Entry(Over(x.at, w), x.read, x.loaded, x.had, x.there, x.up, TRUE) :
             w \in {Nothing} \cup NamedHalf(x, s)}
    ELSE {}

Failing(x, s, undoing) ==
    (IF MayTry(x, s) THEN Refused(x, s, undoing) \cup HalfWay(x, s) ELSE {}) \cup Stopped(x, s)

Passed(x, s, undoing, seen) ==
    (IF MaySkip(x, s) THEN {x} ELSE {})
    \cup (IF MayTry(x, s) /\ MayWork(x, s) THEN Done(x, s, seen) ELSE {})
    \cup (IF s.quiet THEN Failing(x, s, undoing) ELSE {})

Threw(x, s, undoing) ==
    (IF s.quiet THEN {} ELSE Failing(x, s, undoing)) \cup Emptied(x, s) \cup Cut(x, s)

-----------------------------------------------------------------------------
(* The tables: the entries with which a job may be at a step of its program, *)
(* and at an undo step for the one that threw.                              *)

Returns(op, i) == Programs[op][i].do \in {"enough", "healthy"}

BodyTrail(op, v) ==
    LET b == Programs[op]
        seen == Seen(op)
        after(f, i) ==
            (UNION {Passed(x, b[i - 1], FALSE, seen) : x \in f[i - 1]})
            \cup UNION {f[j] : j \in {k \in 1 .. i - 1 : Returns(op, k) /\ ReturnFrom(b, k) = i}}
        again(S, i) == IF i > Len(b) THEN S ELSE S \cup UNION {Emptied(x, b[i]) : x \in S}
        trail[i \in 1 .. Len(b) + 1] ==
            IF i = 1 THEN <<again({Start(op, v)}, 1)>>
            ELSE LET f == trail[i - 1] IN Append(f, again(after(f, i), i))
    IN  trail[Len(b) + 1]

UndoTrail(op, i, start) ==
    LET u == Undos[op][i]
        seen == Seen(op)
        after(f, k) ==
            (UNION {Passed(x, u[k - 1], TRUE, seen) : x \in f[k - 1]})
            \cup UNION {UNION {Threw(x, u[l], TRUE) : x \in f[l]} :
                              l \in {l \in 1 .. k - 1 : Outer(u, l) = k}}
        trail[k \in 1 .. Len(u) + 1] ==
            IF k = 1 THEN <<start>> ELSE LET f == trail[k - 1] IN Append(f, after(f, k))
    IN  trail[Len(u) + 1]

Bodies == [op \in Ops |-> [v \in Views(op) |-> BodyTrail(op, v)]]

Undoings ==
    [op \in Ops |-> [v \in Views(op) |-> [i \in DOMAIN Programs[op] |->
        UndoTrail(op, i, UNION {Threw(x, Programs[op][i], FALSE) : x \in Bodies[op][v][i]})]]]

DoneOf(op, v) == Bodies[op][v][Len(Programs[op]) + 1]

FailedOf(op, v) ==
    UNION {Undoings[op][v][i][Len(Undos[op][i]) + 1] : i \in DOMAIN Programs[op]}

BodyOf(op, v) == UNION {Bodies[op][v][i] : i \in DOMAIN Programs[op]}

UndoingOf(op, v) ==
    UNION {UNION {Undoings[op][v][i][k] : k \in DOMAIN Undos[op][i]} : i \in DOMAIN Programs[op]}

Entries(op, v) == BodyOf(op, v) \cup UndoingOf(op, v) \cup DoneOf(op, v) \cup FailedOf(op, v)

-----------------------------------------------------------------------------
(* The programs are programs, and the tables are complete: whatever becomes of an *)
(* entry is in the table of the step that follows.                              *)

StepOK(s) ==
    /\ {s.at, s.from} \subseteq Places \cup {"none"} /\ Targets(s) \subseteq Places
    /\ s.do \in {"find", "read", "copy", "move"} => s.from \in Places
    /\ s.do = "miss" => s.at \in Places
    /\ s.do = "read" => s.at = s.from
    /\ s.do = "save" => s.at \in Loadable
    /\ s.tries \in Nat \ {0} /\ (s.tries > 1 => Targets(s) = {s.at})
    /\ s.quiet \in BOOLEAN

ASSUME OperationsAreKnown ==
    \A a \in DOMAIN Operations : OpsOf(a) \subseteq Ops \ {"none"}

ASSUME ProgramsAreSequences ==
    \A op \in Ops :
       LET b == Programs[op]
       IN  /\ Len(b) \in Nat \ {0} /\ DOMAIN b = 1 .. Len(b)
           /\ \A i \in DOMAIN b :
                 LET u == Undos[op][i]
                 IN  /\ Returns(op, i) => ReturnFrom(b, i) \in i + 1 .. Len(b) + 1
                     /\ Len(u) \in Nat /\ DOMAIN u = 1 .. Len(u)
                     /\ \A k \in DOMAIN u : /\ Outer(u, k) \in k + 1 .. Len(u) + 1
                                            /\ u[k].do \notin {"enough", "healthy"} /\ u[k].tries = 1
           /\ \A s \in StepsOf(op) : StepOK(s)

\* What a step of a view takes from elsewhere is in the view too.
ASSUME ViewsAreClosed ==
    \A op \in Ops : \A v \in Views(op) :
       LET D == Domain(op, v)
           L == IF v = "alone" THEN D \cap Loadable ELSE {}
       IN  /\ D \subseteq Places
           /\ \A x \in Entries(op, v) : DOMAIN x.at = D /\ DOMAIN x.read = D /\ DOMAIN x.loaded = L
           /\ \A x \in Entries(op, v) : \A p \in D : x.at[p] \subseteq Names
           /\ \A s \in StepsOf(op) : Targets(s) \cap D # {} =>
                 /\ s.do \in {"copy", "move", "make"} => {s.at, s.from} \subseteq D
                 /\ s.do = "save" => s.at \in L
                 /\ s.do = "build" => "config" \in L

ASSUME TablesAreClosed ==
    \A op \in Ops : \A v \in Views(op) :
       /\ Start(op, v) \in Bodies[op][v][1]
       /\ \A i \in DOMAIN Programs[op] : \A x \in Bodies[op][v][i] :
             LET s == Programs[op][i]
             IN  /\ Passed(x, s, FALSE, Seen(op)) \subseteq Bodies[op][v][i + 1]
                 /\ Emptied(x, s) \subseteq Bodies[op][v][i]
                 /\ Threw(x, s, FALSE) \subseteq Undoings[op][v][i][1]
                 /\ Returns(op, i) => x \in Bodies[op][v][ReturnFrom(Programs[op], i)]
       /\ \A i \in DOMAIN Programs[op] : \A k \in DOMAIN Undos[op][i] : \A x \in Undoings[op][v][i][k] :
             LET s == Undos[op][i][k]
             IN  /\ Passed(x, s, TRUE, Seen(op)) \subseteq Undoings[op][v][i][k + 1]
                 /\ Threw(x, s, TRUE) \subseteq Undoings[op][v][i][Outer(Undos[op][i], k)]

\* The places of a view are touched by the operations of one slot only.
ASSUME ViewsAreApart ==
    \A a \in DOMAIN Operations : \A op \in Operations[a][1], other \in Operations[a][2] :
       /\ \A v \in Views(op) \ {"alone"} : Domain(op, v) \cap Shared \cap Changed(other) = {}
       /\ \A v \in Views(other) \ {"alone"} : Domain(other, v) \cap Shared \cap Changed(op) = {}

-----------------------------------------------------------------------------
(* What the tables hold is good. *)

\* Wherever an operation is, and wherever it ends, it has the first content of v.
ASSUME OriginalsAreNamed ==
    \A op \in Ops : \A v \in Views(op) \cap Owned : \A x \in Entries(op, v) :
       \E h \in Homes(v) : h \in DOMAIN x.at /\ Old(v) \in x.at[h]

Unchanged(x, p) == x.at[p] = {Old(p)}

ChangedIn(x, p) == Mine \in x.at[p] \/ (x.at[p] = {} /\ Old(p) \in x.there)

ASSUME FailuresAreWhole ==
    \A op \in Ops : (\A p, q \in Together(op) : p = q) \/
       ("alone" \in Views(op) /\ \A x \in FailedOf(op, "alone") : ~x.hurt =>
           \/ \A p \in Together(op) : Unchanged(x, p)
           \/ \A p \in Together(op) : ChangedIn(x, p))

ASSUME PublishedIsLoaded ==
    \A op \in Ops : Published(op) # {} =>
       "alone" \in Views(op) /\ \A x \in DoneOf(op, "alone") : \A p \in Published(op) :
          x.up /\ x.loaded[p] = x.at[p]

Installing == {"InstallJava", "InstallTemurin"}

Runtimes == Installing \cup {"RemoveJava", "UpdateJavaSettings"}

ASSUME RuntimesAreWhole ==
    /\ Runtimes \subseteq Ops
    /\ \A op \in Runtimes : "alone" \in Views(op) /\ {"config", "java", "launcher"} \subseteq Domain(op, "alone")
    /\ \A op \in Installing : \A x \in BodyOf(op, "alone") \cup DoneOf(op, "alone") :
          Mine \in x.at["config"] => x.at["java"] = {Mine}
    /\ \A op \in Runtimes : \A x \in DoneOf(op, "alone") : x.at["launcher"] = x.at["config"]
    /\ \A a \in DOMAIN Operations : Operations[a][1] \cap Installing = {}

\* Only the operations of a first job write the marker of the module, by a Put after the jar's.
ASSUME MarkersFollow ==
    \A a \in DOMAIN Operations :
       /\ \A op \in Operations[a][1] : "moduleVersion" \in Changed(op) =>
             /\ "moduleStaged" \notin Changed(op) /\ "alone" \in Views(op)
             /\ {"moduleVersion", "moduleJar"} \subseteq Domain(op, "alone")
             /\ \A s \in StepsOf(op) : "moduleVersion" \in Targets(s) => s.do \in {"put", "drop"}
             /\ \A x \in Entries(op, "alone") :
                   Mine \in x.at["moduleVersion"] => x.at["moduleJar"] \in {{}, {Mine}}
             /\ \A other \in Operations[a][2] : \A s \in StepsOf(other) :
                   Targets(s) \cap {"moduleJar", "moduleStaged"} # {} =>
                      \/ s.do = "move" /\ {s.at, s.from} = {"moduleJar", "moduleStaged"}
                      \/ s.do = "drop"
       /\ \A op \in Operations[a][2] : "moduleVersion" \notin Changed(op)

ASSUME TokensAgree ==
    /\ "token" \in Views("ProvisionRemote")
    /\ \A x \in DoneOf("ProvisionRemote", "token") \cup FailedOf("ProvisionRemote", "token") :
          ~x.hurt => (Mine \in x.at["rcConfig"] <=> Mine \in x.at["credential"])

Cached == {"installer", "installerVersion"}

\* The areas with a cache have no step that could be skipped silently.
ASSUME InstallersAreMarked ==
    \A a \in DOMAIN Operations : \A op \in OpsOf(a) : Cached \cap Changed(op) # {} =>
       /\ a \in {"builds", "modpacks"} /\ "alone" \in Views(op) /\ Cached \subseteq Domain(op, "alone")
       /\ \A x \in DoneOf(op, "alone") \cup FailedOf(op, "alone") : ~x.hurt =>
             \/ x.at["installer"] = {} \/ x.at["installerVersion"] = x.at["installer"]
             \/ \A p \in Cached : Unchanged(x, p)

ASSUME CachesAreQuiet ==
    \A a \in {"builds", "modpacks"} : \A op \in OpsOf(a) :
       /\ \A s \in StepsOf(op) : s.do # "restart"
       /\ \A i \in DOMAIN Programs[op] : \A k \in DOMAIN Undos[op][i] :
             Undos[op][i][k].do \notin {"find", "read", "copy", "move", "miss", "check"}

-----------------------------------------------------------------------------
(* The profile, the client and the configuration go from job to job: no step of an *)
(* operation loses what they hold.                                                *)

KeptAreas == DOMAIN Operations \ {"builds", "modpacks"}

Handed == {"profile", "client", "config"}

Stages(p) == {p} \cup (CASE p = "profile" -> {"trashProfile"}
                         [] p = "client" -> {"trashClient"}
                         [] OTHER -> {})

\* The places that a job which is at step i has certainly read.
SureReads(op, i) ==
    LET b == Programs[op]
    IN  {p \in Handed : \E j \in 1 .. i - 1 :
            /\ b[j].do = "read" /\ b[j].at = p /\ b[j].need = {} /\ b[j].lack = {} /\ ~b[j].quiet
            /\ \A k \in 1 .. j - 1 : Returns(op, k) => ReturnFrom(b, k) \in k .. j \/ ReturnFrom(b, k) > i}

Gentle(s, p, known) ==
    /\ \/ Targets(s) \cap Stages(p) = {}
       \/ s.do = "move" /\ {s.at, s.from} \subseteq Stages(p) /\ s.at # s.from
       \/ s.do \in {"edit", "back"} /\ s.at = p /\ p \in known
       \/ s.do = "save" /\ s.at = p /\ p = "config"
    /\ s.tries > 1 => s.at \notin Stages(p)

ASSUME ReadsAreSure ==
    \A op \in Ops :
       LET b == Programs[op]
       IN  /\ SureReads(op, 1) = {}
           /\ \A i \in DOMAIN b :
                 /\ SureReads(op, i + 1) \subseteq
                       SureReads(op, i) \cup {p \in Handed :
                          /\ b[i].do = "read" /\ b[i].at = p /\ b[i].need = {} /\ b[i].lack = {}
                          /\ ~b[i].quiet}
                 /\ Returns(op, i) => SureReads(op, ReturnFrom(b, i)) \subseteq SureReads(op, i)

ASSUME HandsAreGentle ==
    \A a \in KeptAreas : \A op \in OpsOf(a) : \A p \in Handed : \A i \in DOMAIN Programs[op] :
       /\ Gentle(Programs[op][i], p, SureReads(op, i))
       /\ \A k \in DOMAIN Undos[op][i] : Gentle(Undos[op][i][k], p, SureReads(op, i))

\* The first job of an area where the profile is written over does not edit it, and no operation
\* that begins unseen or unasked goes with one that does.
ASSUME UpdatesAreWritten ==
    /\ \A op \in Edits : /\ op \in Ops /\ "alone" \in Views(op) /\ "trashProfile" \notin Changed(op)
                         /\ "profile" \in Domain(op, "alone")
                         /\ \A x \in DoneOf(op, "alone") : Mine \in x.at["profile"]
    /\ \A a \in DOMAIN Operations \ KeptAreas : Operations[a][1] \cap Edits = {}
    /\ \A a \in DOMAIN Operations :
          OpsOf(a) \cap Edits # {} => OpsOf(a) \cap (Uploads \cup Unlisted) = {}
-----------------------------------------------------------------------------
(* What the names mean for job r, and when an entry tells the truth. *)

Meaning(r, base, live, n) ==
    CASE n = Mine -> {r}
      [] n = HalfDone -> Broken
      [] n = Off -> Disabled
      [] n[1] = "old" -> base[n[2]]
      [] n[1] = "held" -> live[n[2]]
      [] OTHER -> {}

Value(r, base, live, c) == UNION {Meaning(r, base, live, n) : n \in c}

Known(t, p) == IF p \in DOMAIN t.read THEN t.read[p] ELSE Absent

\* The places and LaunchServer are as the entry x says.
Shows(x, r, v, base, live) ==
    /\ \A p \in DOMAIN x.at : At(r, p) = Value(r, base, live, x.at[p])
    /\ \A p \in DOMAIN x.loaded : server.loaded[p] = Value(r, base, live, x.loaded[p])
    /\ \A n \in x.there : Meaning(r, base, live, n) # {}
    /\ v = "alone" /\ x.up => server.up
    /\ x.hurt = tasks[r].hurt

\* What the task r remembers is as x says.
Recalls(x, r, base, live) ==
    /\ \A p \in DOMAIN x.read : Known(tasks[r], p) = Value(r, base, live, x.read[p])
    /\ x.had = tasks[r].had \cap Seen(tasks[r].op)

Table(t, v) ==
    IF t.mode = "body" THEN Bodies[t.op][v][t.at] ELSE Undoings[t.op][v][t.at][t.un]

Valid(r, v) == (v = "alone" => tasks[r].alone) /\ (v \in Owned => v \in layout)

-----------------------------------------------------------------------------
(* The invariant *)

TaskOK(t) ==
    /\ DOMAIN t = {"op", "mode", "at", "un", "read", "had", "base", "live", "tries", "aborted",
                   "alone", "hurt"}
    /\ t.mode \in {"none", "body", "undo", "done", "failed", "dead"}
    /\ t.aborted \in BOOLEAN /\ t.alone \in BOOLEAN /\ t.hurt \in BOOLEAN
    /\ \A p \in DOMAIN t.read : t.read[p] \in Contents
    /\ t.had \subseteq Shared
    /\ t.mode \in {"body", "undo"} =>
          /\ t.at \in DOMAIN Programs[t.op]
          /\ t.mode = "undo" => t.un \in DOMAIN Undos[t.op][t.at]

TypeInv ==
    /\ area \in Areas /\ layout \subseteq Shared /\ faults \in 0 .. MaxFaults
    /\ vol \in [Shared -> Contents]
    /\ own \in [Slots -> [Private -> Contents]]
    /\ DOMAIN server = {"up", "loaded"} /\ server.up \in BOOLEAN
    /\ server.loaded \in [Loadable -> Contents]
    /\ DOMAIN tasks = Slots /\ \A r \in Slots : TaskOK(tasks[r])

Begun(r) == tasks[r].mode # "none"

\* Job 2 begins after job 1; what runs alone is not overlapped.
OrderInv ==
    /\ \A r \in Slots : IF Begun(r) THEN tasks[r].op \in Operations[area][r] ELSE tasks[r] = NoTask
    /\ \A r, q \in Slots : q < r =>
          /\ Begun(r) => Begun(q)
          /\ tasks[r].alone => ~Running(q)
          /\ Running(q) /\ tasks[q].alone => ~Begun(r)

\* A job that has not begun has left no mark; one that has changed only what its steps name.
FreshInv ==
    \A r \in Slots :
       /\ ~Begun(r) =>
             /\ \A p \in Shared : r \notin vol[p]
             /\ \A q \in Slots : \A p \in Private : r \notin own[q][p]
             /\ \A p \in Loadable : r \notin server.loaded[p]
             /\ \A q \in Slots : \A p \in DOMAIN tasks[q].read : r \notin tasks[q].read[p]
             /\ r = 1 => server.up /\ \A p \in Loadable : server.loaded[p] = vol[p]
       /\ \A p \in Private :
             own[r][p] # Absent => Begun(r) /\ p \in Changed(tasks[r].op)

\* What a job has noted of the volume at its beginning.
BaseInv ==
    \A r \in Slots : Running(r) =>
       /\ tasks[r].base \in [Shared -> Contents] /\ tasks[r].live \in [Loadable -> Contents]
       /\ \A p \in Shared : r \notin tasks[r].base[p]
       /\ \A p \in Loadable : r \notin tasks[r].live[p]
       /\ \A p \in layout \cap Owned \cap Changed(tasks[r].op) : tasks[r].base[p] = AsFound

\* A job that runs is where the table of its operation says, in every view.
TrackedInv ==
    \A r \in Slots : Running(r) =>
       \A v \in Views(tasks[r].op) : Valid(r, v) =>
          \E x \in Table(tasks[r], v) :
             /\ Shows(x, r, v, tasks[r].base, tasks[r].live)
             /\ Recalls(x, r, tasks[r].base, tasks[r].live)

\* What a job has replaced is kept when it has ended, and what none has touched is as it was.
OwnedInv ==
    \A p \in layout \cap Owned :
       /\ (\A r \in Slots : Begun(r) => p \notin Changed(tasks[r].op)) => vol[p] = AsFound
       /\ \A r \in Slots : Begun(r) /\ ~Running(r) /\ p \in Changed(tasks[r].op) =>
             \E h \in Homes(p) : 0 \in At(r, h)

\* The content of p with the mark m is handed on: nobody has, reads or has loaded another one.
HandedOver(p, m) ==
    /\ \A r \in Slots : \A h \in Stages(p) : At(r, h) = Absent \/ m \in At(r, h)
    /\ \E r \in Slots : \E h \in Stages(p) : m \in At(r, h)
    /\ \A r \in Slots : Running(r) /\ p \in DOMAIN tasks[r].read => m \in tasks[r].read[p]
    /\ p = "config" => m \in server.loaded[p]

SureInv ==
    \A r \in Slots : Running(r) => SureReads(tasks[r].op, tasks[r].at) \subseteq DOMAIN tasks[r].read

HandedInv == area \in KeptAreas => \A p \in layout \cap Handed : HandedOver(p, 0)

UpdateInv ==
    /\ \A r \in Slots : Begun(r) /\ tasks[r].op \in Edits /\ Unmixed(r) => tasks[r].alone
    /\ \A r \in Slots : tasks[r].mode = "done" /\ tasks[r].op \in Edits /\ tasks[r].alone =>
          IF r = 1 THEN HandedOver("profile", 1) ELSE r \in vol["profile"]

RuntimeInv ==
    \A r \in Slots :
       tasks[r].op \in Installing /\ tasks[r].alone /\ tasks[r].mode = "done" /\ r \in vol["config"] =>
          vol["java"] = {r}

MarkerInv ==
    \A r \in Slots :
       /\ r \in vol["moduleVersion"] => r = 1 /\ "moduleVersion" \in Changed(tasks[r].op)
       /\ Begun(r) /\ ~Running(r) /\ tasks[r].alone /\ r \in vol["moduleVersion"] =>
             /\ vol["moduleJar"] \in {Absent, {r}}
             /\ \A q \in Slots : own[q]["moduleStaged"] \in {Absent, {r}}

Marked(f) == f["installer"] = Absent \/ f["installerVersion"] = f["installer"]

CacheInv ==
    /\ area \notin {"builds", "modpacks"} => Marked(vol)
    /\ area \in {"builds", "modpacks"} /\ faults = 0 => server.up /\ \A r \in Slots : ~tasks[r].hurt
    /\ faults = 0 /\ (\A r \in Slots : tasks[r] = NoTask \/ tasks[r].alone) =>
          /\ Idle => Marked(vol)
          /\ \A r \in Slots : Running(r) =>
                /\ Marked(tasks[r].base)
                /\ Cached \cap Changed(tasks[r].op) = {} => Marked(vol)

\* The inductive invariant of Spec: a job stands where the table of its operation says, with the
\* volume, its records and its undo steps as they are there (docker exec, Compose and file calls of
\* the services, their try statements and rollbacks), and a job that has ended left what was there
\* before it, true records and its update.
IInv ==
    /\ TypeInv /\ OrderInv /\ FreshInv /\ BaseInv /\ TrackedInv /\ OwnedInv /\ SureInv /\ HandedInv
    /\ UpdateInv /\ RuntimeInv /\ MarkerInv /\ NoOrphanToken /\ CacheInv
=============================================================================

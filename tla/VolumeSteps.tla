----------------------------- MODULE VolumeSteps -----------------------------
(***************************************************************************)
(* The vocabulary in which the operations on an installation are written:   *)
(* a program is a sequence of steps, each one call that the API awaits (a   *)
(* command in the LaunchServer container, a command to LaunchServer, a      *)
(* Compose command, a download).  A step names the place it works at, and   *)
(* carries what the enclosing try statements do when a later step throws.   *)
(*                                                                          *)
(* The content of a place is the set of operations whose change it holds:   *)
(* Absent is none, AsFound what was there before, and Broken a half-written *)
(* tree.  A disabled configuration grants nothing to anybody.               *)
(***************************************************************************)
EXTENDS Integers, Sequences, SequencesExt

Absent  == {}
AsFound == {0}
Broken  == {-1}
Disabled == {-2}

-----------------------------------------------------------------------------
(* Steps *)

Step(do, at, from) ==
    [do |-> do, at |-> at, from |-> from, need |-> {}, lack |-> {}, quiet |-> FALSE,
     undo |-> <<>>, block |-> <<>>, tries |-> 1]

Other(do) == Step(do, "none", "none")

Read(p)    == Step("read", p, p)     \* keeps the content in memory
Find(p)    == Step("find", p, p)     \* throws unless it exists
Miss(p)    == Step("miss", p, p)     \* throws if it exists
Look       == Other("look")          \* notes what exists
Copy(p, q) == Step("copy", q, p)
Move(p, q) == Step("move", q, p)
Edit(p)    == Step("edit", p, p)     \* writes what was read, changed
Put(p)     == Step("put", p, p)      \* writes new bytes
Back(p)    == Step("back", p, p)     \* writes what was read
Drop(p)    == Step("drop", p, p)
Unpack(p)  == Step("unpack", p, p)   \* extracts an archive into a directory of its own
Make(p)    == Step("make", p, p)     \* a LaunchServer command that writes the place
Save(p)    == Step("save", p, p)     \* a LaunchServer command that changes and saves its configuration
Disable(p) == Step("disable", p, p)  \* writes a configuration that is switched off
Keep(p)    == Step("keep", p, p)     \* writes to the panel's own database
Forget(p)  == Step("forget", p, p)   \* deletes from the panel's own database
Live(p)    == Step("live", p, p)     \* the agent of a game server writes the file
Unlive(p)  == Step("unlive", p, p)   \* the agent of a game server deletes the file
Build(p)   == Step("build", p, p)    \* a LaunchServer command that builds from its config
Ask        == Other("ask")           \* a LaunchServer command that only answers
Sync       == Other("sync")          \* LaunchServer reads profiles and updates again
Fetch      == Other("fetch")         \* a download
Restart    == Other("restart")       \* LaunchServer is stopped and started by Compose
Touch      == Other("touch")         \* a command in the container that changes no content
Check      == Other("check")         \* throws when the job is cancelled
Enough     == Other("enough")        \* the method may find nothing to do and return
Healthy    == Other("healthy")       \* the method returns if LaunchServer is up
CommitUnnamed(b) == Other("commit")

Commit(b)  == [Other("commit") EXCEPT !.block = b]  \* the try statement b has ended

(* A step that is taken only if the places existed, or did not, when the operation looked. *)
If(ps, s)    == [s EXCEPT !.need = ps]
IfNot(ps, s) == [s EXCEPT !.lack = ps]

(* .catch(() => {}) *)
Quiet(s)     == [s EXCEPT !.quiet = TRUE]

(* Once s is done, a later failure runs u. *)
Undo(s, u)   == [s EXCEPT !.undo = u]

(* A try statement opens; a failure inside it runs u. *)
Try(u)       == Undo(Other("try"), u)

(* s is tried n times; between two tries its place is removed. *)
Retry(n, s)  == [s EXCEPT !.tries = n]

(* The undo step s belongs to the try statement b. *)
In(b, s)     == [s EXCEPT !.block = b]

(* A call of the method ps: its try statements, and its returns, end with it. *)
Call(b, ps) ==
    LET inside(s) == [s EXCEPT !.block = b \o @]
    IN  [i \in DOMAIN ps |->
            IF ps[i].do \in {"commit", "enough", "healthy"} THEN inside(ps[i])
            ELSE [ps[i] EXCEPT !.undo = [k \in DOMAIN @ |-> inside(@[k])]]]
        \o <<Commit(b)>>

-----------------------------------------------------------------------------
(* What is run when step i of program p throws: the innermost statement first. *)

(* Where a return at step i of program p leads. *)
ReturnFrom(p, i) ==
    IF p[i].block = <<>> THEN Len(p) + 1
    ELSE SelectInSubSeq(p, i, Len(p), LAMBDA s : s.do = "commit" /\ s.block = p[i].block)

Armed(s) == [k \in DOMAIN s.undo |-> [s.undo[k] EXCEPT !.need = @ \cup s.need,
                                                      !.lack = @ \cup s.lack]]

UndoOf(p, i) ==
    LET open(u, j) == \A k \in j + 1 .. i - 1 :
                         p[k].do = "commit" => ~IsPrefix(p[k].block, u.block)
    IN  FlattenSeq(Reverse([j \in 1 .. i - 1 |->
            SelectSeq(Armed(p[j]), LAMBDA u : open(u, j))]))
=============================================================================

-------------------------------- MODULE WorkProofs --------------------------------
(***************************************************************************)
(* Proofs about the work around the volume: the assets that a build          *)
(* downloads, what a mod requires, the import of a modpack, the selection of *)
(* mods, the console of a server and commands over RCON.  Each has an        *)
(* inductive invariant of its own.                                           *)
(***************************************************************************)
EXTENDS MCWork, FiniteSetTheorems, SequenceTheorems, TLAPS

-----------------------------------------------------------------------------
(* The assets (AssetDownload) *)

\* A worker has one object at a time, none when it takes the next one or has ended well.
HoldsAreSingle ==
    \A s \in Syncs, w \in Fetchers :
       /\ \A o, q \in holds[s][w] : o = q
       /\ doing[s][w] \in {"off", "take", "done"} => holds[s][w] = {}
       /\ doing[s][w] # "writeWrong"

\* Workers start after the index of the version has come.
WorkersWait ==
    \A s \in Syncs, w \in Fetchers :
       main[s] \in {"none", "manifest", "version", "assetIndex"} => doing[s][w] = "off"

AssetInv == AssetsAreComplete /\ HoldsAreSingle /\ WorkersWait

LEMMA AssetsStart == AssetInit => AssetInv
<1> SUFFICES ASSUME AssetInit PROVE AssetInv
  OBVIOUS
<1> USE DEF AssetInit, NoIndex
<1>1. AssetTypeOK
  BY DEF AssetTypeOK
<1>2. IndexIsComplete /\ CompletedIsInPlace /\ WorkersEndTogether
  BY DEF IndexIsComplete, CompletedIsInPlace, Completed, WorkersEndTogether
<1>3. HoldsAreSingle /\ WorkersWait
  BY DEF HoldsAreSingle, WorkersWait
<1> QED
  BY <1>1, <1>2, <1>3 DEF AssetInv, AssetsAreComplete

LEMMA StageNames ==
  /\ DOMAIN Stages = 1..3
  /\ Stages[1] = "manifest" /\ Stages[2] = "version" /\ Stages[3] = "assetIndex"
  BY DEF Stages

-----------------------------------------------------------------------------
(* The call *)

\* A step of one call that leaves its workers alone.
LEMMA CallKeeps ==
  ASSUME AssetInv, NEW s \in Syncs, NEW next, main' = [main EXCEPT ![s] = next],
         next \in {"manifest", "version", "assetIndex", "ready", "failed"},
         next \in {"ready", "failed"} \/ main[s] \in {"none", "manifest", "version"},
         UNCHANGED <<disk, index, doing, holds, wants, left>>,
         lookup' \in [Syncs -> Nat], attempt' = attempt, aborted' = aborted, mishaps' \in Nat
  PROVE  AssetInv'
<1> USE DEF AssetInv, AssetsAreComplete, AssetTypeOK
<1>1. AssetTypeOK'
  OBVIOUS
<1>2. \A t \in Syncs : main'[t] = IF t = s THEN next ELSE main[t]
  OBVIOUS
<1>3. IndexIsComplete'
  BY DEF IndexIsComplete
<1>4. CompletedIsInPlace'
  BY DEF CompletedIsInPlace, Completed
<1>5. WorkersEndTogether'
  BY <1>2 DEF WorkersEndTogether
<1>6. HoldsAreSingle' /\ WorkersWait'
  BY <1>2 DEF HoldsAreSingle, WorkersWait
<1> QED
  BY <1>1, <1>3, <1>4, <1>5, <1>6

LEMMA BeginningKeeps ==
  ASSUME AssetInv, NEW s \in Syncs, StartAssets(s) \/ LookUpFails(s) PROVE AssetInv'
<1>0. AssetTypeOK
  BY DEF AssetInv, AssetsAreComplete
<1>1. CASE StartAssets(s)
  BY <1>0, <1>1, CallKeeps DEF StartAssets, AssetTypeOK
<1>2. CASE LookUpFails(s)
  <2>1. UNCHANGED <<disk, index, doing, holds, attempt, wants, left, aborted>>
    BY <1>2 DEF LookUpFails
  <2>6. lookup' = [lookup EXCEPT ![s] = @ + 1] \/ lookup' = [lookup EXCEPT ![s] = 1]
    BY <1>2, Zenon DEF LookUpFails
  <2>7. lookup' \in [Syncs -> Nat]
    <3>1. lookup \in [Syncs -> Nat] /\ lookup[s] + 1 \in Nat
      BY <1>0 DEF AssetTypeOK
    <3> QED
      BY <2>6, <3>1
  <2>5. mishaps' \in Nat
    BY <1>0, <1>2 DEF LookUpFails, Mishap, AssetTypeOK
  <2>2. main' = main \/ Fails(s)
    BY <1>2 DEF LookUpFails
  <2>3. CASE Fails(s)
    BY <2>1, <2>3, <2>5, <2>7, CallKeeps DEF Fails
  <2>4. CASE main' = main
    BY <1>0, <2>1, <2>4, <2>5, <2>7 DEF AssetInv, AssetsAreComplete, AssetTypeOK, IndexIsComplete,
                     CompletedIsInPlace, Completed, WorkersEndTogether, HoldsAreSingle, WorkersWait
  <2> QED
    BY <2>2, <2>3, <2>4
<1> QED
  BY <1>1, <1>2

LEMMA AbortKeeps ==
  ASSUME AssetInv, NEW s \in Syncs, AbortAssets(s) PROVE AssetInv'
BY DEF AbortAssets, AssetInv, AssetsAreComplete, AssetTypeOK, IndexIsComplete, CompletedIsInPlace, Completed,
       WorkersEndTogether, HoldsAreSingle, WorkersWait

\* The workers begin with all of the objects before them.
LEMMA LookUpKeeps ==
  ASSUME AssetInv, NEW s \in Syncs, LookUp(s) PROVE AssetInv'
<1> USE DEF AssetInv, AssetsAreComplete
<1>1. PICK i \in DOMAIN Stages :
         /\ main[s] = Stages[i]
         /\ lookup' = [lookup EXCEPT ![s] = 1]
         /\ \/ i < 3 /\ main' = [main EXCEPT ![s] = Stages[i + 1]]
               /\ UNCHANGED <<doing, wants, left>>
            \/ i = 3 /\ ~aborted[s] /\ main' = [main EXCEPT ![s] = "workers"]
               /\ doing' = [doing EXCEPT ![s] = [w \in Fetchers |-> "take"]]
               /\ \E names \in SUBSET Objects :
                     wants' = [wants EXCEPT ![s] = names] /\ left' = [left EXCEPT ![s] = names]
  BY DEF LookUp
<1>2. UNCHANGED <<disk, index, holds, attempt, aborted, mishaps>> /\ lookup' \in [Syncs -> Nat]
  BY <1>1 DEF LookUp, AssetTypeOK
<1>3. CASE i < 3 /\ main' = [main EXCEPT ![s] = Stages[i + 1]] /\ UNCHANGED <<doing, wants, left>>
  <2>1. Stages[i + 1] \in {"version", "assetIndex"} /\ main[s] \in {"manifest", "version"}
    BY <1>1, <1>3, StageNames
  <2> QED
    BY <1>2, <1>3, <2>1, CallKeeps DEF AssetTypeOK
<1>4. ASSUME main' = [main EXCEPT ![s] = "workers"],
             doing' = [doing EXCEPT ![s] = [w \in Fetchers |-> "take"]],
             NEW names \in SUBSET Objects,
             wants' = [wants EXCEPT ![s] = names], left' = [left EXCEPT ![s] = names]
      PROVE  AssetInv'
  <2>1. AssetTypeOK'
    BY <1>2, <1>4 DEF AssetTypeOK
  <2>2. IndexIsComplete'
    BY <1>2 DEF IndexIsComplete
  <2>3. main[s] \in {"manifest", "version", "assetIndex"}
    BY <1>1, StageNames
  <2>4. \A w \in Fetchers : holds[s][w] = {}
    BY <2>3 DEF HoldsAreSingle, WorkersWait
  <2>5. \A t \in Syncs : t # s =>
           main'[t] = main[t] /\ doing'[t] = doing[t] /\ wants'[t] = wants[t] /\ left'[t] = left[t]
    BY <1>4 DEF AssetTypeOK
  <2>6. main'[s] = "workers" /\ wants'[s] = left'[s] /\ \A w \in Fetchers : doing'[s][w] = "take"
    BY <1>4 DEF AssetTypeOK
  <2>7. CompletedIsInPlace'
    BY <1>2, <2>5, <2>6 DEF CompletedIsInPlace, Completed
  <2>8. WorkersEndTogether'
    BY <1>2, <2>4, <2>5, <2>6 DEF WorkersEndTogether
  <2>9. HoldsAreSingle' /\ WorkersWait'
    BY <1>2, <2>4, <2>5, <2>6 DEF HoldsAreSingle, WorkersWait
  <2> QED
    BY <2>1, <2>2, <2>7, <2>8, <2>9
<1> QED
  BY <1>1, <1>3, <1>4

\* The index is written when every object that it lists has been completed.
LEMMA PublishKeeps ==
  ASSUME AssetInv, NEW s \in Syncs, PublishIndex(s) PROVE AssetInv'
<1> USE DEF AssetInv, AssetsAreComplete
<1>1. Completed(s) = wants[s]
  <2>1. \A w \in Fetchers : holds[s][w] = {} /\ left[s] = {}
    BY DEF PublishIndex, AllDone, WorkersEndTogether
  <2>2. left[s] = {}
    BY <2>1, AssetAssumption
  <2> QED
    BY <2>1, <2>2 DEF Completed
<1>2. /\ UNCHANGED <<disk, doing, holds, attempt, lookup, wants, left, aborted>>
      /\ mishaps' \in Nat
  BY DEF PublishIndex, Mishap, AssetTypeOK
<1>3. CASE Fails(s) /\ UNCHANGED index
  BY <1>2, <1>3, CallKeeps DEF Fails, AssetTypeOK
<1>4. ASSUME index' = [there |-> TRUE, lists |-> wants[s]],
             main' = [main EXCEPT ![s] = IF aborted[s] THEN "failed" ELSE "ready"]
      PROVE  AssetInv'
  <2>1. AssetTypeOK'
    BY <1>2, <1>4 DEF AssetTypeOK
  <2>2. IndexIsComplete'
    BY <1>1, <1>2, <1>4 DEF IndexIsComplete, CompletedIsInPlace
  <2>3. CompletedIsInPlace'
    BY <1>2 DEF CompletedIsInPlace, Completed
  <2>4. \A t \in Syncs : main'[t] = main[t] \/ main'[t] \in {"failed", "ready"}
    BY <1>4 DEF AssetTypeOK
  <2>5. WorkersEndTogether' /\ HoldsAreSingle' /\ WorkersWait'
    BY <1>2, <2>4 DEF WorkersEndTogether, HoldsAreSingle, WorkersWait
  <2> QED
    BY <2>1, <2>2, <2>3, <2>5
<1> QED
  BY <1>3, <1>4 DEF PublishIndex

-----------------------------------------------------------------------------
(* A worker *)

\* A step of a worker changes its own state; if it gives up, its call has failed.
OfWorker(s, w) ==
    /\ \A t \in Syncs, v \in Fetchers :
          t # s \/ v # w => doing'[t][v] = doing[t][v] /\ holds'[t][v] = holds[t][v]
    /\ \A t \in Syncs : t # s => main'[t] = main[t] /\ left'[t] = left[t]
    /\ main'[s] \in {main[s], "failed"} /\ left'[s] \subseteq left[s]
    /\ doing'[s][w] = "failed" => main'[s] # "workers"

LEMMA WorkerKeeps ==
  ASSUME AssetInv, NEW s \in Syncs, NEW w \in Fetchers, OfWorker(s, w), AssetTypeOK',
         UNCHANGED <<index, wants>>,
         \A o \in Objects : disk[o] = "good" => disk'[o] = "good",
         \A o \in Completed(s)' : disk'[o] = "good",
         doing[s][w] \in {"take", "check", "fetch", "write"},
         doing'[s][w] \in {"take", "check", "fetch", "write", "done", "failed"},
         \A o, q \in holds'[s][w] : o = q,
         doing'[s][w] \in {"take", "done"} => holds'[s][w] = {},
         doing'[s][w] = "done" => left'[s] = {}
  PROVE  AssetInv'
<1> USE DEF AssetInv, AssetsAreComplete, OfWorker
<1>1. IndexIsComplete'
  BY DEF IndexIsComplete, AssetTypeOK
<1>2. CompletedIsInPlace'
  <2> SUFFICES ASSUME NEW t \in Syncs, t # s, NEW o \in Completed(t)' PROVE disk'[o] = "good"
    BY DEF CompletedIsInPlace
  <2>1. \A v \in Fetchers : holds'[t][v] = holds[t][v]
    OBVIOUS
  <2>2. o \in Completed(t)
    BY <2>1 DEF Completed
  <2> QED
    BY <2>2 DEF CompletedIsInPlace, Completed, AssetTypeOK
<1>3. WorkersEndTogether'
  <2> SUFFICES ASSUME NEW t \in Syncs, main'[t] = "workers", NEW v \in Fetchers
               PROVE  /\ doing'[t][v] \in {"take", "check", "fetch", "write", "done"}
                      /\ doing'[t][v] \in {"take", "done"} => holds'[t][v] = {}
                      /\ doing'[t][v] = "done" => left'[t] = {}
    BY DEF WorkersEndTogether
  <2>1. main[t] = "workers"
    OBVIOUS
  <2>2. CASE t = s /\ v = w
    BY <2>2
  <2>3. CASE t # s \/ v # w
    BY <2>1, <2>3 DEF WorkersEndTogether
  <2> QED
    BY <2>2, <2>3
<1>4. HoldsAreSingle'
  BY DEF HoldsAreSingle
<1>5. WorkersWait'
  BY DEF WorkersWait
<1> QED
  BY <1>1, <1>2, <1>3, <1>4, <1>5

\* What one worker does, by name.
LEMMA GivingUp ==
  ASSUME AssetTypeOK, NEW s \in Syncs, NEW w \in Fetchers, GivesUp(s, w)
  PROVE  /\ \A t \in Syncs, v \in Fetchers : t # s \/ v # w => doing'[t][v] = doing[t][v]
         /\ \A t \in Syncs : t # s => main'[t] = main[t]
         /\ main'[s] \in {main[s], "failed"} /\ main'[s] # "workers" /\ doing'[s][w] = "failed"
         /\ main' \in [Syncs -> {"none", "manifest", "version", "assetIndex", "workers", "ready", "failed"}]
         /\ doing' \in [Syncs -> [Fetchers -> {"off", "take", "check", "fetch", "write", "writeWrong", "done",
                                                "failed"}]]
BY DEF AssetTypeOK, GivesUp

LEMMA MovingOn ==
  ASSUME AssetTypeOK, NEW s \in Syncs, NEW w \in Fetchers,
         NEW step \in {"take", "check", "fetch", "write", "done"},
         doing' = [doing EXCEPT ![s][w] = step]
  PROVE  /\ \A t \in Syncs, v \in Fetchers : t # s \/ v # w => doing'[t][v] = doing[t][v]
         /\ doing'[s][w] = step
         /\ doing' \in [Syncs -> [Fetchers -> {"off", "take", "check", "fetch", "write", "writeWrong", "done",
                                                "failed"}]]
BY DEF AssetTypeOK

LEMMA Completing ==
  ASSUME AssetTypeOK, NEW s \in Syncs, NEW w \in Fetchers, Completes(s, w), UNCHANGED <<wants, left>>
  PROVE  /\ OfWorker(s, w) /\ holds'[s][w] = {} /\ doing'[s][w] \in {"take", "failed"}
         /\ holds' \in [Syncs -> [Fetchers -> SUBSET Objects]]
         /\ main' \in [Syncs -> {"none", "manifest", "version", "assetIndex", "workers", "ready", "failed"}]
         /\ doing' \in [Syncs -> [Fetchers -> {"off", "take", "check", "fetch", "write", "writeWrong", "done",
                                                "failed"}]]
         /\ \A o \in Completed(s)' : o \in Completed(s) \cup holds[s][w]
<1>1. /\ \A t \in Syncs, v \in Fetchers : t # s \/ v # w => holds'[t][v] = holds[t][v]
      /\ holds'[s][w] = {} /\ holds' \in [Syncs -> [Fetchers -> SUBSET Objects]]
  BY DEF Completes, AssetTypeOK
<1>2. GivesUp(s, w) \/ (doing' = [doing EXCEPT ![s][w] = "take"] /\ UNCHANGED main)
  BY DEF Completes
<1>3. \A o \in Completed(s)' : o \in Completed(s) \cup holds[s][w]
  <2> SUFFICES ASSUME NEW o \in Completed(s)', o \notin holds[s][w] PROVE o \in Completed(s)
    OBVIOUS
  <2>1. \A v \in Fetchers : o \notin holds[s][v]
    BY <1>1 DEF Completed
  <2> QED
    BY <2>1 DEF Completed
<1>4. CASE GivesUp(s, w)
  BY <1>1, <1>3, <1>4, GivingUp DEF OfWorker
<1>5. CASE doing' = [doing EXCEPT ![s][w] = "take"] /\ UNCHANGED main
  <2>1. /\ \A t \in Syncs, v \in Fetchers : t # s \/ v # w => doing'[t][v] = doing[t][v]
        /\ doing'[s][w] = "take"
        /\ doing' \in [Syncs -> [Fetchers -> {"off", "take", "check", "fetch", "write", "writeWrong", "done",
                                                "failed"}]]
    BY <1>5, MovingOn
  <2> QED
    BY <1>1, <1>3, <1>5, <2>1 DEF OfWorker, AssetTypeOK
<1> QED
  BY <1>2, <1>4, <1>5

\* An object leaves the list when a worker has it.
LEMMA TakeKeeps ==
  ASSUME AssetInv, NEW s \in Syncs, NEW w \in Fetchers, TakeObject(s, w) PROVE AssetInv'
<1>0. AssetTypeOK /\ doing[s][w] = "take" /\ holds[s][w] = {}
  BY DEF AssetInv, AssetsAreComplete, HoldsAreSingle, TakeObject
<1>1. UNCHANGED <<disk, index, attempt, lookup, wants, aborted, mishaps>>
  BY DEF TakeObject
<1>2. CASE GivesUp(s, w) /\ UNCHANGED <<holds, left>>
  <2>1. OfWorker(s, w) /\ doing'[s][w] = "failed" /\ AssetTypeOK'
    BY <1>0, <1>1, <1>2, GivingUp DEF OfWorker, AssetTypeOK
  <2>2. \A o \in Completed(s)' : disk'[o] = "good"
    BY <1>1, <1>2 DEF Completed, AssetInv, AssetsAreComplete, CompletedIsInPlace
  <2> QED
    BY <1>0, <1>1, <1>2, <2>1, <2>2, WorkerKeeps
<1>3. CASE left[s] = {} /\ doing' = [doing EXCEPT ![s][w] = "done"] /\ UNCHANGED <<main, holds, left>>
  <2>1. OfWorker(s, w) /\ doing'[s][w] = "done" /\ AssetTypeOK'
    BY <1>0, <1>1, <1>3, MovingOn DEF OfWorker, AssetTypeOK
  <2>2. \A o \in Completed(s)' : disk'[o] = "good"
    BY <1>1, <1>3 DEF Completed, AssetInv, AssetsAreComplete, CompletedIsInPlace
  <2> QED
    BY <1>0, <1>1, <1>3, <2>1, <2>2, WorkerKeeps
<1>4. ASSUME NEW o \in left[s], holds' = [holds EXCEPT ![s][w] = {o}], left' = [left EXCEPT ![s] = @ \ {o}],
             doing' = [doing EXCEPT ![s][w] = "check"], UNCHANGED main
      PROVE  AssetInv'
  <2>1. /\ \A t \in Syncs, v \in Fetchers : t # s \/ v # w => holds'[t][v] = holds[t][v]
        /\ holds'[s][w] = {o} /\ holds' \in [Syncs -> [Fetchers -> SUBSET Objects]]
    BY <1>0, <1>4 DEF AssetTypeOK
  <2>2. /\ left' \in [Syncs -> SUBSET Objects] /\ left'[s] = left[s] \ {o}
        /\ \A t \in Syncs : t # s => left'[t] = left[t]
    BY <1>0, <1>4 DEF AssetTypeOK
  <2>3. OfWorker(s, w) /\ doing'[s][w] = "check" /\ AssetTypeOK'
    BY <1>0, <1>1, <1>4, <2>1, <2>2, MovingOn DEF OfWorker, AssetTypeOK
  <2>4. \A q \in Completed(s)' : disk'[q] = "good"
    <3> SUFFICES ASSUME NEW q \in Completed(s)' PROVE q \in Completed(s)
      BY <1>1 DEF AssetInv, AssetsAreComplete, CompletedIsInPlace
    <3>1. q # o
      BY <2>1 DEF Completed
    <3>2. \A v \in Fetchers : q \notin holds[s][v]
      BY <1>0, <2>1 DEF Completed
    <3> QED
      BY <1>1, <2>2, <3>1, <3>2 DEF Completed
  <2> QED
    BY <1>0, <1>1, <2>1, <2>3, <2>4, WorkerKeeps
<1> QED
  BY <1>2, <1>3, <1>4 DEF TakeObject

\* A step of a worker that keeps what it holds.
LEMMA HoldingKeeps ==
  ASSUME AssetInv, NEW s \in Syncs, NEW w \in Fetchers, doing[s][w] \in {"check", "fetch", "write"},
         \/ GivesUp(s, w)
         \/ \E step \in {"fetch", "write"} : doing' = [doing EXCEPT ![s][w] = step] /\ UNCHANGED main,
         UNCHANGED <<disk, index, holds, lookup, wants, left, aborted>>,
         attempt' \in [Syncs -> [Fetchers -> Nat]], mishaps' \in Nat
  PROVE  AssetInv'
<1>0. AssetTypeOK
  BY DEF AssetInv, AssetsAreComplete
<1>1. \A o \in Completed(s)' : disk'[o] = "good"
  BY DEF Completed, AssetInv, AssetsAreComplete, CompletedIsInPlace
<1>2. /\ OfWorker(s, w) /\ AssetTypeOK' /\ doing'[s][w] \in {"fetch", "write", "failed"}
  <2>1. CASE GivesUp(s, w)
    BY <1>0, <2>1, GivingUp DEF OfWorker, AssetTypeOK
  <2>2. ASSUME NEW step \in {"fetch", "write"}, doing' = [doing EXCEPT ![s][w] = step], UNCHANGED main
        PROVE  OfWorker(s, w) /\ AssetTypeOK' /\ doing'[s][w] = step
    <3>1. /\ \A t \in Syncs, v \in Fetchers : t # s \/ v # w => doing'[t][v] = doing[t][v]
          /\ doing'[s][w] = step
          /\ doing' \in [Syncs -> [Fetchers -> {"off", "take", "check", "fetch", "write", "writeWrong",
                                                  "done", "failed"}]]
      BY <1>0, <2>2, MovingOn
    <3> QED
      BY <1>0, <2>2, <3>1 DEF OfWorker, AssetTypeOK
  <2> QED
    BY <2>1, <2>2
<1>3. \A o, q \in holds'[s][w] : o = q
  BY DEF AssetInv, HoldsAreSingle
<1> QED
  BY <1>1, <1>2, <1>3, WorkerKeeps

\* A step in which a worker has completed its object.
LEMMA CompletionKeeps ==
  ASSUME AssetInv, NEW s \in Syncs, NEW w \in Fetchers, doing[s][w] \in {"check", "write"}, Completes(s, w),
         UNCHANGED <<index, attempt, lookup, wants, left, aborted, mishaps>>,
         disk' \in [Objects -> {"missing", "wrong", "good"}],
         \A o \in Objects : disk[o] = "good" \/ o \in holds[s][w] => disk'[o] = "good"
  PROVE  AssetInv'
<1>0. AssetTypeOK
  BY DEF AssetInv, AssetsAreComplete
<1>1. AssetTypeOK'
  BY <1>0, Completing DEF AssetTypeOK
<1>2. \A o \in Completed(s)' : disk'[o] = "good"
  <2> SUFFICES ASSUME NEW o \in Completed(s)' PROVE disk'[o] = "good"
    OBVIOUS
  <2>1. o \in Objects
    BY <1>0 DEF Completed, AssetTypeOK
  <2>2. o \in Completed(s) \/ o \in holds[s][w]
    BY <1>0, Completing
  <2> QED
    BY <2>1, <2>2 DEF AssetInv, AssetsAreComplete, CompletedIsInPlace
<1> QED
  BY <1>0, <1>1, <1>2, Completing, WorkerKeeps

LEMMA WorkerStepKeeps ==
  ASSUME AssetInv, NEW s \in Syncs, NEW w \in Fetchers,
         \/ CheckObject(s, w) \/ ObjectArrives(s, w) \/ FetchFails(s, w)
         \/ WriteObject(s, w) \/ WriteObjectFails(s, w)
  PROVE  AssetInv'
<1>0. AssetTypeOK /\ doing[s][w] # "writeWrong" /\ \A o, q \in holds[s][w] : o = q
  BY DEF AssetInv, AssetsAreComplete, HoldsAreSingle
<1>1. CASE CheckObject(s, w)
  <2>0. /\ doing[s][w] = "check" /\ UNCHANGED <<disk, index, attempt, lookup, wants, left, aborted>>
        /\ mishaps' \in Nat
    BY <1>0, <1>1 DEF CheckObject, Mishap, AssetTypeOK
  <2>1. PICK o \in holds[s][w] :
          \/ Matches(o) /\ Completes(s, w) /\ UNCHANGED mishaps
          \/ ~Matches(o) /\ doing' = [doing EXCEPT ![s][w] = "fetch"] /\ UNCHANGED <<main, holds, mishaps>>
          \/ Mishap /\ GivesUp(s, w) /\ UNCHANGED holds
    BY <1>1 DEF CheckObject
  <2>2. CASE Matches(o) /\ Completes(s, w) /\ UNCHANGED mishaps
    BY <1>0, <2>0, <2>1, <2>2, CompletionKeeps DEF Matches, AssetTypeOK
  <2>3. CASE doing' = [doing EXCEPT ![s][w] = "fetch"] /\ UNCHANGED <<main, holds, mishaps>>
    BY <1>0, <2>0, <2>3, HoldingKeeps DEF AssetTypeOK
  <2>4. CASE GivesUp(s, w) /\ UNCHANGED holds
    BY <1>0, <2>0, <2>4, HoldingKeeps DEF AssetTypeOK
  <2> QED
    BY <2>1, <2>2, <2>3, <2>4
<1>2. CASE ObjectArrives(s, w)
  <2>1. /\ doing[s][w] = "fetch" /\ UNCHANGED <<disk, index, holds, lookup, wants, left, aborted>>
        /\ attempt' \in [Syncs -> [Fetchers -> Nat]] /\ mishaps' \in Nat
    BY <1>0, <1>2 DEF ObjectArrives, Mishap, AssetTypeOK
  <2>2. GivesUp(s, w) \/ (doing' = [doing EXCEPT ![s][w] = "write"] /\ UNCHANGED main)
    BY <1>2 DEF ObjectArrives, Verified
  <2> QED
    BY <2>1, <2>2, HoldingKeeps
<1>3. CASE FetchFails(s, w)
  <2>1. doing[s][w] = "fetch" /\ UNCHANGED <<disk, index, holds, lookup, wants, left, aborted>>
    BY <1>3 DEF FetchFails
  <2>2. mishaps' \in Nat
    BY <1>0, <1>3 DEF FetchFails, Mishap, AssetTypeOK
  <2>3. attempt' = [attempt EXCEPT ![s][w] = @ + 1] \/ attempt' = [attempt EXCEPT ![s][w] = 1]
    BY <1>3 DEF FetchFails
  <2>4. attempt' \in [Syncs -> [Fetchers -> Nat]]
    <3>1. attempt \in [Syncs -> [Fetchers -> Nat]] /\ attempt[s][w] + 1 \in Nat
      BY <1>0 DEF AssetTypeOK
    <3> QED
      BY <2>3, <3>1
  <2>5. GivesUp(s, w) \/ UNCHANGED <<main, doing>>
    BY <1>3 DEF FetchFails
  <2>6. CASE UNCHANGED <<main, doing>>
    BY <1>0, <2>1, <2>2, <2>4, <2>6
       DEF AssetInv, AssetsAreComplete, AssetTypeOK, IndexIsComplete, CompletedIsInPlace, Completed,
           WorkersEndTogether, HoldsAreSingle, WorkersWait
  <2> QED
    BY <2>1, <2>2, <2>4, <2>5, <2>6, HoldingKeeps
<1>4. CASE WriteObject(s, w)
  <2>1. /\ doing[s][w] = "write" /\ Completes(s, w)
        /\ UNCHANGED <<index, attempt, lookup, wants, left, aborted, mishaps>>
        /\ disk' = [o \in Objects |-> IF o \notin holds[s][w] THEN disk[o] ELSE "good"]
    BY <1>0, <1>4 DEF WriteObject
  <2> QED
    BY <1>0, <2>1, CompletionKeeps DEF AssetTypeOK
<1>5. CASE WriteObjectFails(s, w)
  <2>1. /\ doing[s][w] = "write" /\ GivesUp(s, w) /\ mishaps' \in Nat
        /\ UNCHANGED <<disk, index, holds, attempt, lookup, wants, left, aborted>>
    BY <1>0, <1>5 DEF WriteObjectFails, Mishap, AssetTypeOK
  <2> QED
    BY <1>0, <2>1, HoldingKeeps DEF AssetTypeOK
<1> QED
  BY <1>1, <1>2, <1>3, <1>4, <1>5

-----------------------------------------------------------------------------
(* The theorem *)

\* After a crash there are the files and the index.
LEMMA CrashKeepsAssets ==
  ASSUME AssetInv, CrashAssets PROVE AssetInv'
<1> USE DEF AssetInv, AssetsAreComplete, CrashAssets
<1>1. AssetTypeOK'
  BY DEF AssetTypeOK, Mishap
<1>2. IndexIsComplete' /\ CompletedIsInPlace'
  BY DEF IndexIsComplete, CompletedIsInPlace, Completed
<1>3. WorkersEndTogether' /\ HoldsAreSingle' /\ WorkersWait'
  BY DEF WorkersEndTogether, HoldsAreSingle, WorkersWait
<1> QED
  BY <1>1, <1>2, <1>3

LEMMA AssetSteps == AssetInv /\ [AssetNext]_assetVars => AssetInv'
<1>1. ASSUME AssetInv, UNCHANGED assetVars PROVE AssetInv'
  BY <1>1 DEF assetVars, AssetInv, AssetsAreComplete, AssetTypeOK, IndexIsComplete, CompletedIsInPlace, Completed,
              WorkersEndTogether, HoldsAreSingle, WorkersWait
<1> QED
  BY <1>1, BeginningKeeps, AbortKeeps, LookUpKeeps, PublishKeeps, TakeKeeps, WorkerStepKeeps, CrashKeepsAssets
     DEF AssetNext

\* The index of the assets is never there without the objects that it lists, whole and with the
\* right bytes, whatever fails, is cancelled or crashes and whatever the workers of a failed job
\* go on to do (minecraft-assets.service.ts, ensureAssets).
THEOREM AssetsHold == AssetSpec => []AssetsAreComplete
<1>1. AssetInv => AssetsAreComplete
  BY DEF AssetInv
<1> QED
  BY <1>1, AssetsStart, AssetSteps, PTL DEF AssetSpec

-----------------------------------------------------------------------------
(* The import of a modpack (PackImport) *)

AtMostOne(S) == \A x, y \in S : x = y

\* The profiles are there, and the page and the job are about one of them.
PackTypeOK ==
    /\ catalog = [q \in PackProfiles |-> catalog[q]]
    /\ page.profile \in PackProfiles
    /\ \A input \in import : input.profile \in PackProfiles

\* There is one file, one inspection that is shown and one import; an answer is one pack.
OneAtATime ==
    /\ AtMostOne(file) /\ AtMostOne(shown) /\ AtMostOne(import) /\ AtMostOne(unpacked)
    /\ AtMostOne(profiled)
    /\ \A a \in asks : AtMostOne(a.local) /\ AtMostOne(a.pack)

\* What is sent by the name of the local project is sent as a file.
ImportIsAsSent == \A input \in import : input.project = LocalProject => input.local

\* The pack that the job has resolved is the one that was shown, but for its files.
ResolvedAsSeen ==
    stage \in {"resolved", "read", "rebuilt", "installing", "done"} =>
       \A input \in import, pack \in unpacked :
          SameFile(input, pack) /\ SameLoader(input, pack) /\ Fits(pack, input.platform)

\* Its files are compared before the job installs anything.
FilesAsSeen ==
    stage \in {"installing", "done"} =>
       \A input \in import, pack \in unpacked : SameFiles(input, pack)

\* What the import has read of the profile is so, and what it has found or made fit does, unless
\* another job has written the profile since.
ProfileFits ==
    ~overrun =>
       /\ stage = "read" => \A input \in import, old \in profiled : catalog[input.profile] = old
       /\ WritesToTheProfile

PackInv ==
    /\ PackTypeOK /\ OneAtATime /\ SourceIsShown /\ ImportIsAsSent
    /\ ResolvedAsSeen /\ FilesAsSeen /\ ProfileFits

LEMMA PackStarts == PackInit => PackInv
<1> SUFFICES ASSUME PackInit PROVE PackInv
  OBVIOUS
<1>1. PackTypeOK
  <2>1. \E q \in PackProfiles : TRUE
    BY DEF PackInit
  <2>2. (CHOOSE q \in PackProfiles : TRUE) \in PackProfiles
    BY <2>1
  <2> QED
    BY <2>2 DEF PackInit, PackTypeOK
<1>2. OneAtATime /\ SourceIsShown /\ ImportIsAsSent
  BY DEF PackInit, OneAtATime, AtMostOne, SourceIsShown, ImportIsAsSent
<1>3. ResolvedAsSeen /\ FilesAsSeen /\ ProfileFits
  BY DEF PackInit, ResolvedAsSeen, FilesAsSeen, ProfileFits, WritesToTheProfile
<1> QED
  BY <1>1, <1>2, <1>3 DEF PackInv

-----------------------------------------------------------------------------
(* The page *)

\* Before the import nothing is resolved, and what the page does leaves the catalog alone.
LEMMA PageKeeps ==
  ASSUME PackInv, stage = "none", UNCHANGED <<catalog, jobVars>>, page'.profile \in PackProfiles,
         AtMostOne(file'), AtMostOne(shown'), SourceIsShown',
         \A a \in asks' : AtMostOne(a.local) /\ AtMostOne(a.pack)
  PROVE  PackInv'
<1> USE DEF PackInv, jobVars
<1>1. PackTypeOK'
  BY DEF PackTypeOK
<1>2. OneAtATime'
  BY DEF OneAtATime, AtMostOne
<1>3. ImportIsAsSent'
  BY DEF ImportIsAsSent
<1>4. ResolvedAsSeen' /\ FilesAsSeen' /\ ProfileFits'
  BY DEF ResolvedAsSeen, FilesAsSeen, ProfileFits, WritesToTheProfile
<1> QED
  BY <1>1, <1>2, <1>3, <1>4

\* An archive is the local file or the newest pack of the project, or refused.
LEMMA OnePackIsRead ==
  ASSUME NEW project, NEW local, NEW platform, AtMostOne(local),
         NEW found \in ReadArchive(Resolves(project, local, platform))
  PROVE  AtMostOne(found) /\ \A pack \in found : Fits(pack, platform)
BY DEF AtMostOne, ReadArchive, Resolves

LEMMA SelectKeeps ==
  ASSUME PackInv, stage = "none", SelectProfile \/ ListServers \/ SelectFile PROVE PackInv'
<1> USE DEF PackInv, PackTypeOK, OneAtATime, AtMostOne, SourceIsShown
<1>1. CASE SelectProfile
  BY <1>1, PageKeeps DEF SelectProfile
<1>2. CASE ListServers
  BY <1>2, PageKeeps DEF ListServers
<1>3. CASE SelectFile
  BY <1>3, PageKeeps DEF SelectFile
<1> QED
  BY <1>1, <1>2, <1>3

LEMMA AskKeeps ==
  ASSUME PackInv, stage = "none", NEW project, AskFor(project) PROVE PackInv'
<1>1. \A a \in asks' : AtMostOne(a.local) /\ AtMostOne(a.pack)
  BY DEF AskFor, PackInv, OneAtATime, AtMostOne
<1>2. /\ UNCHANGED <<catalog, jobVars, page, file, shown, source>>
  BY DEF AskFor
<1> QED
  BY <1>1, <1>2, PageKeeps DEF PackInv, PackTypeOK, OneAtATime, AtMostOne, SourceIsShown

LEMMA AnswerKeepsPage ==
  ASSUME PackInv, stage = "none", NEW a \in asks, AnswerInspection(a) PROVE PackInv'
<1>1. PICK found \in ReadArchive(Resolves(a.project, a.local, a.platform)) :
         asks' = (asks \ {a}) \cup {[number |-> a.number, project |-> a.project, local |-> a.local,
                                      platform |-> a.platform, answered |-> TRUE, pack |-> found]}
  BY DEF AnswerInspection
<1>2. AtMostOne(a.local)
  BY DEF PackInv, OneAtATime
<1>3. AtMostOne(found)
  BY <1>2, OnePackIsRead
<1>4. \A b \in asks' : AtMostOne(b.local) /\ AtMostOne(b.pack)
  BY <1>1, <1>2, <1>3 DEF PackInv, OneAtATime
<1>5. UNCHANGED <<catalog, jobVars, page, file, shown, source>>
  BY DEF AnswerInspection
<1> QED
  BY <1>4, <1>5, PageKeeps DEF PackInv, PackTypeOK, OneAtATime, AtMostOne, SourceIsShown

\* Whatever answer comes last, the source goes with it.
LEMMA ArrivalKeeps ==
  ASSUME PackInv, stage = "none", NEW a \in asks, InspectionArrives(a) PROVE PackInv'
<1>1. AtMostOne(a.pack) /\ AtMostOne(file) /\ AtMostOne(shown) /\ SourceIsShown
  BY DEF PackInv, OneAtATime
<1>2. AtMostOne(shown') /\ SourceIsShown'
  BY <1>1 DEF InspectionArrives, AtMostOne, SourceIsShown, SourceOf, LocalProject
<1>3. \A b \in asks' : AtMostOne(b.local) /\ AtMostOne(b.pack)
  BY DEF InspectionArrives, PackInv, OneAtATime
<1>4. UNCHANGED <<catalog, jobVars, page, file>>
  BY DEF InspectionArrives
<1> QED
  BY <1>1, <1>2, <1>3, <1>4, PageKeeps DEF PackInv, PackTypeOK, AtMostOne

LEMMA ToggleServerKeeps ==
  ASSUME PackInv, stage = "none", NEW b, ToggleServer(b) PROVE PackInv'
<1>1. UNCHANGED <<catalog, jobVars, page, file, shown, source, asks>>
  BY DEF ToggleServer
<1> QED
  BY <1>1, PageKeeps DEF PackInv, PackTypeOK, OneAtATime, AtMostOne, SourceIsShown

\* What is sent is what is shown.
LEMMA ImportKeeps ==
  ASSUME PackInv, ImportPack PROVE PackInv'
<1> USE DEF PackInv, ImportPack, pageVars
<1>1. PackTypeOK'
  BY DEF PackTypeOK
<1>2. OneAtATime'
  BY DEF OneAtATime, AtMostOne
<1>3. SourceIsShown'
  BY DEF SourceIsShown
<1>5. ImportIsAsSent'
  <2> SUFFICES ASSUME NEW input \in import', input.project = LocalProject PROVE input.local
    BY DEF ImportIsAsSent
  <2>1. PICK s \in shown :
           input = [local |-> source = "local", project |-> s.project, seen |-> s.pack, file |-> file,
                    profile |-> page.profile, platform |-> page.platform, servers |-> chosen]
    OBVIOUS
  <2>2. input.local = (source = "local")
    BY <2>1, Zenon
  <2>3. input.project = s.project
    BY <2>1, Zenon
  <2>4. source = "local"
    BY <2>3 DEF SourceIsShown
  <2> QED
    BY <2>2, <2>4, Zenon
<1>4. ResolvedAsSeen' /\ FilesAsSeen' /\ ProfileFits'
  BY DEF ResolvedAsSeen, FilesAsSeen, ProfileFits, WritesToTheProfile
<1> QED
  BY <1>1, <1>2, <1>3, <1>4, <1>5

LEMMA PageStepKeeps ==
  ASSUME PackInv, PageStep PROVE PackInv'
<1>1. stage = "none"
  BY DEF PageStep
<1>2. CASE SelectProfile \/ ListServers \/ SelectFile
  BY <1>1, <1>2, SelectKeeps
<1>3. CASE InspectLocal \/ \E p \in Modpacks : Inspect(p)
  BY <1>1, <1>3, AskKeeps DEF InspectLocal, Inspect
<1>4. CASE ImportPack
  BY <1>4, ImportKeeps
<1>5. ASSUME NEW a \in asks, AnswerInspection(a) \/ InspectionArrives(a) PROVE PackInv'
  BY <1>1, <1>5, AnswerKeepsPage, ArrivalKeeps
<1>6. ASSUME NEW b \in Servers, ToggleServer(b) PROVE PackInv'
  BY <1>1, <1>6, ToggleServerKeeps
<1> QED
  BY <1>2, <1>3, <1>4, <1>5, <1>6 DEF PageStep

-----------------------------------------------------------------------------
(* The job *)

\* A write of another job on the profile of the import is noted.
LEMMA ElsewhereKeeps ==
  ASSUME PackInv, Elsewhere PROVE PackInv'
<1>1. UNCHANGED <<pageVars, import, stage, downloads, unpacked, profiled>>
  BY DEF Elsewhere
<1>2. PackTypeOK'
  BY <1>1 DEF PackInv, Elsewhere, PackTypeOK, pageVars
<1>3. OneAtATime' /\ SourceIsShown' /\ ImportIsAsSent'
  BY <1>1 DEF PackInv, OneAtATime, AtMostOne, SourceIsShown, ImportIsAsSent, pageVars
<1>4. ResolvedAsSeen' /\ FilesAsSeen'
  BY <1>1 DEF PackInv, ResolvedAsSeen, FilesAsSeen, SameFile, SameLoader, SameFiles
<1>5. ProfileFits'
  <2> SUFFICES ASSUME ~overrun' PROVE ProfileFits'
    BY DEF ProfileFits
  <2>1. ~overrun /\ \A input \in import : catalog'[input.profile] = catalog[input.profile]
    <3>1. CASE UNCHANGED <<catalog, overrun>>
      BY <3>1
    <3>2. CASE \E q \in PackProfiles : \E now \in [platform : Platforms, loader : Loaders] \cup {Missing} :
                  /\ catalog' = [catalog EXCEPT ![q] = now]
                  /\ overrun' = (overrun \/ \E input \in import : input.profile = q)
      <4>1. PICK q \in PackProfiles, now \in [platform : Platforms, loader : Loaders] \cup {Missing} :
                  /\ catalog' = [catalog EXCEPT ![q] = now]
                  /\ overrun' = (overrun \/ \E input \in import : input.profile = q)
        BY <3>2
      <4>2. ~overrun /\ \A input \in import : input.profile # q
        BY <4>1, Zenon
      <4>3. catalog = [p \in PackProfiles |-> catalog[p]] /\ \A input \in import : input.profile \in PackProfiles
        BY DEF PackInv, PackTypeOK
      <4> QED
        BY <4>1, <4>2, <4>3
    <3> QED
      BY <3>1, <3>2 DEF Elsewhere
  <2>2. stage' = "read" => \A input \in import', old \in profiled' : catalog'[input.profile] = old
    BY <2>1, <1>1 DEF PackInv, ProfileFits
  <2>3. WritesToTheProfile'
    <3> SUFFICES ASSUME stage' \in {"rebuilt", "installing", "done"}, NEW input \in import', NEW pack \in unpacked'
                 PROVE  catalog'[input.profile] = Built(pack)
      BY DEF WritesToTheProfile
    <3>1. WritesToTheProfile /\ import' = import /\ unpacked' = unpacked /\ stage' = stage
      BY <2>1, <1>1 DEF PackInv, ProfileFits
    <3>2. catalog[input.profile] = Built(pack)
      BY <2>1, <3>1 DEF WritesToTheProfile
    <3> QED
      BY <2>1, <3>1, <3>2
  <2> QED
    BY <2>2, <2>3 DEF ProfileFits
<1> QED
  BY <1>2, <1>3, <1>4, <1>5 DEF PackInv

\* A step of the job changes its stage, what it has resolved and perhaps the profile.
LEMMA JobKeeps ==
  ASSUME PackInv, UNCHANGED <<pageVars, import>>,
         catalog' = [q \in PackProfiles |-> catalog'[q]],
         AtMostOne(unpacked'), AtMostOne(profiled'), ResolvedAsSeen', FilesAsSeen', ProfileFits'
  PROVE  PackInv'
BY DEF PackInv, pageVars, PackTypeOK, OneAtATime, AtMostOne, SourceIsShown, ImportIsAsSent

LEMMA ResolveKeeps ==
  ASSUME PackInv, ResolvePack PROVE PackInv'
<1>1. UNCHANGED <<pageVars, import, catalog, profiled>>
  BY DEF ResolvePack, Refused, OfJob
<1>2. FilesAsSeen' /\ ProfileFits'
  BY DEF ResolvePack, Refused, FilesAsSeen, ProfileFits, WritesToTheProfile
<1>3. PICK input \in import :
         \E now \in ReadArchive(IF input.local THEN Resolves(LocalProject, input.file, input.platform)
                                ELSE Resolves(input.project, {}, input.platform)) :
            \/ now = {} /\ Refused
            \/ \E pack \in now :
                  IF SameFile(input, pack) /\ SameLoader(input, pack)
                  THEN /\ unpacked' = {pack} /\ stage' = "resolved"
                       /\ UNCHANGED <<downloads, profiled, overrun, catalog>>
                  ELSE Refused
  BY DEF ResolvePack
<1>4. stage' = "resolved" =>
         \E pack : /\ unpacked' = {pack} /\ SameFile(input, pack) /\ SameLoader(input, pack)
                   /\ Fits(pack, input.platform)
  BY <1>3 DEF Refused, OfJob, ReadArchive, Resolves
<1>5. ResolvedAsSeen'
  BY <1>1, <1>3, <1>4 DEF ResolvedAsSeen, PackInv, OneAtATime, AtMostOne, ResolvePack, Refused,
                          SameFile, SameLoader, Fits
<1>6. AtMostOne(unpacked')
  BY <1>3 DEF PackInv, OneAtATime, AtMostOne, Refused, OfJob
<1> QED
  BY <1>1, <1>2, <1>5, <1>6, JobKeeps DEF PackInv, PackTypeOK, OneAtATime

\* A step that only ends the job, or only changes its stage.
LEMMA StageKeeps ==
  ASSUME PackInv, UNCHANGED <<pageVars, import, OfJob>>, ResolvedAsSeen', FilesAsSeen', ProfileFits'
  PROVE  PackInv'
<1>1. UNCHANGED <<unpacked, profiled, catalog>>
  BY DEF OfJob
<1> QED
  BY <1>1, JobKeeps DEF PackInv, PackTypeOK, OneAtATime

LEMMA RefusedKeeps ==
  ASSUME PackInv, UNCHANGED <<pageVars, import>>, Refused PROVE PackInv'
BY StageKeeps DEF Refused, ResolvedAsSeen, FilesAsSeen, ProfileFits, WritesToTheProfile

LEMMA ProfileReadKeeps ==
  ASSUME PackInv, ReadProfile PROVE PackInv'
<1>1. UNCHANGED <<pageVars, import>> /\ stage = "resolved"
  BY DEF ReadProfile
<1>2. CASE Refused
  BY <1>1, <1>2, RefusedKeeps
<1>3. CASE ~Refused
  <2>1. /\ stage' = "read" /\ UNCHANGED <<downloads, unpacked, catalog>>
        /\ \E input \in import : profiled' = {catalog[input.profile]}
    BY <1>3 DEF ReadProfile
  <2>2. ResolvedAsSeen' /\ FilesAsSeen'
    BY <1>1, <2>1 DEF PackInv, ResolvedAsSeen, FilesAsSeen, SameFile, SameLoader
  <2>3. ProfileFits' /\ AtMostOne(profiled')
    BY <1>1, <2>1 DEF PackInv, OneAtATime, AtMostOne, ProfileFits, WritesToTheProfile
  <2> QED
    BY <1>1, <2>1, <2>2, <2>3, JobKeeps DEF PackInv, PackTypeOK, OneAtATime
<1> QED
  BY <1>2, <1>3

\* The files that were shown and those of the archive are compared before the job writes.
LEMMA SelectedKeeps ==
  ASSUME PackInv, UNCHANGED <<pageVars, import, OfJob>>, stage' = "installing", stage \in {"read", "rebuilt"},
         NEW input \in import, NEW pack \in unpacked, Selected(input, pack),
         ~overrun => catalog[input.profile] = Built(pack)
  PROVE  PackInv'
<1>1. UNCHANGED <<unpacked, overrun, catalog>>
  BY DEF OfJob
<1>2. ResolvedAsSeen'
  BY <1>1 DEF PackInv, ResolvedAsSeen, SameFile, SameLoader
<1>3. FilesAsSeen'
  BY <1>1 DEF PackInv, OneAtATime, AtMostOne, FilesAsSeen, Selected, SameFiles
<1>4. ProfileFits'
  BY <1>1 DEF PackInv, OneAtATime, AtMostOne, ProfileFits, WritesToTheProfile
<1> QED
  BY <1>2, <1>3, <1>4, StageKeeps

LEMMA FitKeeps ==
  ASSUME PackInv, FitProfile PROVE PackInv'
<1>1. UNCHANGED <<pageVars, import>> /\ stage = "read"
  BY DEF FitProfile
<1>2. PICK input \in import, pack \in unpacked, old \in profiled :
         IF AsWanted(old, pack) /\ Selected(input, pack)
         THEN stage' = "installing" /\ UNCHANGED OfJob
         ELSE (AsWanted(old, pack) \/ old = Missing \/ input.platform \notin Rebuilt) /\ Refused
  BY DEF FitProfile
<1>3. CASE Refused
  BY <1>1, <1>3, RefusedKeeps
<1>4. CASE ~Refused
  <2>1. ~overrun => catalog[input.profile] = Built(pack)
    BY <1>1, <1>2, <1>4 DEF PackInv, ProfileFits, AsWanted
  <2> QED
    BY <1>1, <1>2, <1>4, <2>1, SelectedKeeps
<1> QED
  BY <1>3, <1>4

LEMMA RebuildKeeps ==
  ASSUME PackInv, RebuildProfile PROVE PackInv'
<1>1. UNCHANGED <<pageVars, import>> /\ stage = "read"
  BY DEF RebuildProfile
<1>2. CASE Refused
  BY <1>1, <1>2, RefusedKeeps
<1>3. CASE ~Refused
  <2>1. PICK input \in import, pack \in unpacked :
           /\ catalog' = [catalog EXCEPT ![input.profile] =
                            [platform |-> input.platform, loader |-> input.seen.loader]]
           /\ stage' = "rebuilt" /\ UNCHANGED <<downloads, unpacked, profiled>>
    BY <1>3 DEF RebuildProfile
  <2>2. ResolvedAsSeen' /\ FilesAsSeen'
    BY <1>1, <2>1 DEF PackInv, ResolvedAsSeen, FilesAsSeen, SameFile, SameLoader
  <2>3. catalog' = [q \in PackProfiles |-> catalog'[q]] /\ input.profile \in PackProfiles
    BY <2>1 DEF PackInv, PackTypeOK
  <2>4. catalog'[input.profile] = Built(pack)
    <3>1. catalog'[input.profile] = [platform |-> input.platform, loader |-> input.seen.loader]
      BY <2>1, <2>3 DEF PackInv, PackTypeOK
    <3>2. pack.platform = input.platform /\ pack.loader = input.seen.loader
      BY <1>1 DEF PackInv, ResolvedAsSeen, SameLoader, Fits
    <3> QED
      BY <3>1, <3>2 DEF Built
  <2>5. \A other \in import', more \in unpacked' : other = input /\ more = pack
    BY <1>1, <2>1 DEF PackInv, OneAtATime, AtMostOne
  <2>6. ProfileFits'
    BY <2>1, <2>4, <2>5 DEF ProfileFits, WritesToTheProfile
  <2> QED
    BY <1>1, <2>1, <2>2, <2>3, <2>6, JobKeeps DEF PackInv, OneAtATime
<1> QED
  BY <1>2, <1>3

LEMMA CheckKeeps ==
  ASSUME PackInv, CheckSelections PROVE PackInv'
<1>1. UNCHANGED <<pageVars, import>> /\ stage = "rebuilt"
  BY DEF CheckSelections
<1>2. PICK input \in import, pack \in unpacked :
         IF Selected(input, pack) THEN stage' = "installing" /\ UNCHANGED OfJob ELSE Refused
  BY DEF CheckSelections
<1>3. CASE Refused
  BY <1>1, <1>3, RefusedKeeps
<1>4. CASE ~Refused
  <2>1. ~overrun => catalog[input.profile] = Built(pack)
    BY <1>1 DEF PackInv, ProfileFits, WritesToTheProfile
  <2> QED
    BY <1>1, <1>2, <1>4, <2>1, SelectedKeeps
<1> QED
  BY <1>3, <1>4

LEMMA JobStepKeeps ==
  ASSUME PackInv, ImportJob PROVE PackInv'
<1>1. CASE StartImport
  <2>1. UNCHANGED <<pageVars, import, OfJob>> /\ stage' = "resolving"
    BY <1>1 DEF StartImport
  <2>2. ResolvedAsSeen' /\ FilesAsSeen' /\ ProfileFits'
    BY <2>1 DEF ResolvedAsSeen, FilesAsSeen, ProfileFits, WritesToTheProfile
  <2> QED
    BY <2>1, <2>2, StageKeeps
<1>2. CASE DownloadFails
  <2>1. UNCHANGED <<pageVars, import>> /\ stage = "resolving"
    BY <1>2 DEF DownloadFails
  <2>2. CASE Refused
    BY <2>1, <2>2, RefusedKeeps
  <2>3. CASE ~Refused
    <3>1. UNCHANGED <<unpacked, profiled, overrun, catalog>> /\ stage' = "resolving"
      BY <1>2, <2>1, <2>3 DEF DownloadFails
    <3>2. ResolvedAsSeen' /\ FilesAsSeen' /\ ProfileFits'
      BY <3>1 DEF ResolvedAsSeen, FilesAsSeen, ProfileFits, WritesToTheProfile
    <3> QED
      BY <2>1, <3>1, <3>2, JobKeeps DEF PackInv, PackTypeOK, OneAtATime
  <2> QED
    BY <2>2, <2>3
<1>3. CASE EndImport
  <2>1. /\ UNCHANGED <<pageVars, import, OfJob, unpacked, overrun, catalog>>
        /\ stage' \in {"done", "refused"} /\ stage = "installing"
    BY <1>3 DEF EndImport, OfJob
  <2>2. ResolvedAsSeen' /\ FilesAsSeen' /\ ProfileFits'
    BY <2>1 DEF PackInv, ResolvedAsSeen, FilesAsSeen, ProfileFits, WritesToTheProfile,
                SameFile, SameLoader, SameFiles
  <2> QED
    BY <2>1, <2>2, StageKeeps
<1> QED
  BY <1>1, <1>2, <1>3, ResolveKeeps, ProfileReadKeeps, FitKeeps, RebuildKeeps, CheckKeeps DEF ImportJob

LEMMA PackSteps == PackInv /\ [PackNext]_packVars => PackInv'
<1>1. ASSUME PackInv, UNCHANGED packVars PROVE PackInv'
  BY <1>1 DEF packVars, pageVars, jobVars, PackInv, PackTypeOK, OneAtATime, AtMostOne, SourceIsShown,
              ImportIsAsSent, ResolvedAsSeen, FilesAsSeen, ProfileFits, WritesToTheProfile,
              SameFile, SameLoader, SameFiles
<1> QED
  BY <1>1, ElsewhereKeeps, PageStepKeeps, JobStepKeeps DEF PackNext

LEMMA PackInvHolds == PackSpec => []PackInv
  BY PackStarts, PackSteps, PTL DEF PackSpec

\* What a job installs has the files, the loader and for a local file the bytes that the operator
\* was shown (importModpack and importLocalModpack of mod-manager.service.ts), in whatever order
\* inspections, files and new versions come.
THEOREM ImportsAreAsShown == PackSpec => []PackIsAsShown
<1>1. PackInv => PackIsAsShown
  <2> SUFFICES ASSUME PackInv, stage \in {"installing", "done"},
                      NEW input \in import, NEW pack \in unpacked
               PROVE  /\ pack.paths = input.seen.paths /\ pack.loader = input.seen.loader
                      /\ input.project = LocalProject => pack = input.seen
                      /\ pack.platform = input.platform
    BY DEF PackInv, PackIsAsShown, InstallsAsShown
  <2> QED
    BY DEF PackInv, ResolvedAsSeen, FilesAsSeen, ImportIsAsSent, SameFile, SameLoader, SameFiles, Fits
<1> QED
  BY <1>1, PackInvHolds, PTL

\* From its rebuild to its end an import is about a profile that is as its pack wants it, whatever
\* other jobs did to the profile before the import read it (applyResolvedModpack); of an import
\* whose profile another job writes after that, it says nothing.
THEOREM ImportsFitTheProfile == PackSpec => []WritesToTheProfile
<1>1. PackInv => WritesToTheProfile
  BY DEF PackInv, ProfileFits, WritesToTheProfile
<1> QED
  BY <1>1, PackInvHolds, PTL

-----------------------------------------------------------------------------
(* The selection of mods (ModSelection) *)

Modes == {"none", "required", "optional"}
Targets == [of : ModProfiles, client : Modes, servers : SUBSET UNION {ServersOf(q) : q \in ModProfiles}]

\* A selection as the page makes it.
IsSelection(now) == DOMAIN now \subseteq Picked /\ now \in [DOMAIN now -> Targets]

SelectionTypeOK ==
    /\ viewed \in ModProfiles /\ instances \in Nat
    /\ IsSelection(picks)
    /\ stored = [q \in ModProfiles |-> stored[q]]
    /\ \A q \in ModProfiles : IsSelection(stored[q])

\* A page knows servers of the profile that is selected; a page that was left has nothing.
PageIsOfTheProfile ==
    /\ known \subseteq ServersOf(viewed)
    /\ instance = 0 => known = {} /\ picks = NoPicks

SelectionInv == SelectionTypeOK /\ PageIsOfTheProfile /\ SelectionIsSound

LEMMA NoPicksFit ==
    /\ IsSelection(NoPicks) /\ DOMAIN NoPicks = {}
    /\ \A q : Fit(NoPicks, q)
  BY DEF IsSelection, NoPicks, Fit

\* Whatever is picked is picked for the profile that is selected.
LEMMA PickedFits ==
  ASSUME SelectionInv, NEW now, Picks(now), IsSelection(now), Fit(now, viewed)
  PROVE  SelectionInv'
<1> USE DEF SelectionInv, SelectionIsSound, Picks
<1>1. SelectionTypeOK'
  BY DEF SelectionTypeOK, Saves, IsSelection
<1>2. PageIsOfTheProfile'
  BY DEF PageIsOfTheProfile
<1>3. SelectionsAreApart'
  BY DEF SelectionsAreApart, SelectionTypeOK, Saves, Fit
<1>4. ReloadIsCurrent'
  BY DEF ReloadIsCurrent, SelectionTypeOK, Saves
<1> QED
  BY <1>1, <1>2, <1>3, <1>4

LEMMA Cleared ==
  ASSUME SelectionInv, NEW p, Clears(p), UNCHANGED <<viewed, instance, instances, known>>,
         \A r \in installs' : \E o \in installs : r.mods = o.mods /\ r.profile = o.profile
  PROVE  SelectionInv'
<1> USE DEF SelectionInv, SelectionIsSound, Clears
<1>1. SelectionTypeOK'
  BY NoPicksFit DEF SelectionTypeOK
<1>2. PageIsOfTheProfile'
  BY DEF PageIsOfTheProfile
<1>3. SelectionsAreApart'
  BY NoPicksFit DEF SelectionsAreApart, SelectionTypeOK
<1>4. ReloadIsCurrent'
  BY DEF ReloadIsCurrent, SelectionTypeOK
<1> QED
  BY <1>1, <1>2, <1>3, <1>4

LEMMA SelectionStarts == SelectionInit => SelectionInv
<1> SUFFICES ASSUME SelectionInit PROVE SelectionInv
  OBVIOUS
<1> USE NoPicksFit DEF SelectionInit
<1>1. SelectionTypeOK
  BY DEF SelectionTypeOK
<1>2. PageIsOfTheProfile
  BY DEF PageIsOfTheProfile
<1>3. SelectionIsSound
  BY DEF SelectionIsSound, SelectionsAreApart, ReloadIsCurrent
<1> QED
  BY <1>1, <1>2, <1>3 DEF SelectionInv

LEMMA ToggleKeeps ==
  ASSUME SelectionInv, NEW m \in Picked, ToggleSelected(m) PROVE SelectionInv'
<1>1. ASSUME m \in DOMAIN picks, Picks([n \in DOMAIN picks \ {m} |-> picks[n]]) PROVE SelectionInv'
  <2> DEFINE now == [n \in DOMAIN picks \ {m} |-> picks[n]]
  <2>1. IsSelection(now) /\ Fit(now, viewed)
    BY DEF SelectionInv, SelectionTypeOK, IsSelection, SelectionIsSound, SelectionsAreApart, Fit
  <2> QED
    BY <1>1, <2>1, PickedFits
<1>2. ASSUME m \notin DOMAIN picks,
             Picks([n \in DOMAIN picks \cup {m} |-> IF n = m THEN DefaultTarget(m) ELSE picks[n]])
      PROVE  SelectionInv'
  <2> DEFINE now == [n \in DOMAIN picks \cup {m} |-> IF n = m THEN DefaultTarget(m) ELSE picks[n]]
  <2>1. known \subseteq ServersOf(viewed) /\ viewed \in ModProfiles
    BY DEF SelectionInv, SelectionTypeOK, PageIsOfTheProfile
  <2>2. DefaultTarget(m).of = viewed /\ DefaultTarget(m).servers \subseteq ServersOf(viewed)
    BY <2>1 DEF DefaultTarget
  <2>3. Sides[m].client \in {"required", "optional", "unsupported"}
    BY SelectionAssumption
  <2>4. DefaultTarget(m) \in Targets
    BY <2>1, <2>3 DEF DefaultTarget, Targets, Modes
  <2>5. IsSelection(now) /\ Fit(now, viewed)
    BY <2>2, <2>4 DEF SelectionInv, SelectionTypeOK, IsSelection, SelectionIsSound, SelectionsAreApart, Fit
  <2> QED
    BY <1>2, <2>5, PickedFits
<1> QED
  BY <1>1, <1>2 DEF ToggleSelected

\* A target that changes goes on to be one of the profile.
LEMMA TargetKeeps ==
  ASSUME SelectionInv, NEW m \in DOMAIN picks, NEW target \in Targets, Retargets(m, target),
         target.of = picks[m].of, target.servers \subseteq ServersOf(viewed)
  PROVE  SelectionInv'
<1> DEFINE now == [picks EXCEPT ![m] = target]
<1>1. IsSelection(picks) /\ Fit(picks, viewed)
  BY DEF SelectionInv, SelectionTypeOK, SelectionIsSound, SelectionsAreApart
<1>2. IsSelection(now)
  BY <1>1 DEF IsSelection
<1>3. Fit(now, viewed)
  BY <1>1 DEF IsSelection, Fit
<1> QED
  BY <1>2, <1>3, PickedFits DEF Retargets

LEMMA ModeKeeps ==
  ASSUME SelectionInv, NEW m \in Picked, NEW mode \in Modes, SetClientMode(m, mode)
  PROVE  SelectionInv'
<1>1. m \in DOMAIN picks /\ IsSelection(picks) /\ Fit(picks, viewed)
  BY DEF SelectionInv, SelectionTypeOK, SelectionIsSound, SelectionsAreApart, SetClientMode
<1>2. picks[m] \in Targets
  BY <1>1 DEF IsSelection
<1> DEFINE target == [picks[m] EXCEPT !.client = mode]
<1>3. target \in Targets /\ target.of = picks[m].of /\ target.servers = picks[m].servers
  BY <1>2 DEF Targets
<1> QED
  BY <1>1, <1>3, TargetKeeps DEF SetClientMode, Fit

LEMMA ServerKeeps ==
  ASSUME SelectionInv, NEW m \in Picked, NEW b \in known, ToggleServerTarget(m, b)
  PROVE  SelectionInv'
<1>1. /\ m \in DOMAIN picks /\ IsSelection(picks) /\ Fit(picks, viewed)
      /\ viewed \in ModProfiles /\ b \in ServersOf(viewed)
  BY DEF SelectionInv, SelectionTypeOK, SelectionIsSound, SelectionsAreApart, ToggleServerTarget,
         PageIsOfTheProfile
<1>2. picks[m] \in Targets
  BY <1>1 DEF IsSelection
<1> DEFINE target == [picks[m] EXCEPT !.servers = IF b \in @ THEN @ \ {b} ELSE @ \cup {b}]
<1>3. target.of = picks[m].of /\ target.servers \subseteq picks[m].servers \cup {b}
  BY <1>2 DEF Targets
<1>4. target \in Targets
  BY <1>1, <1>2, <1>3 DEF Targets
<1>5. target.servers \subseteq ServersOf(viewed)
  BY <1>1, <1>3 DEF Fit
<1> QED
  BY <1>1, <1>3, <1>4, <1>5, TargetKeeps DEF ToggleServerTarget

-----------------------------------------------------------------------------
(* The steps of the page *)

LEMMA PageComesAndGoes ==
  ASSUME SelectionInv,
         \/ OpenPage \/ LeavePage \/ ServersArrive \/ UpdateSucceeds
         \/ \E q \in ModProfiles : ViewProfile(q)
  PROVE  SelectionInv'
<1> USE DEF SelectionInv, SelectionTypeOK, PageIsOfTheProfile, SelectionIsSound, SelectionsAreApart,
            ReloadIsCurrent, Lists
<1>1. CASE OpenPage
  BY <1>1 DEF OpenPage
<1>2. CASE LeavePage
  BY <1>2, NoPicksFit DEF LeavePage
<1>3. CASE ServersArrive
  BY <1>3 DEF ServersArrive
<1>4. CASE UpdateSucceeds
  BY <1>4 DEF UpdateSucceeds
<1>5. ASSUME NEW q \in ModProfiles, ViewProfile(q) PROVE SelectionInv'
  <2>1. CASE instance = 0
    BY <1>5, <2>1, NoPicksFit DEF ViewProfile
  <2>2. CASE instance # 0
    BY <1>5, <2>2 DEF ViewProfile, Restored
  <2> QED
    BY <2>1, <2>2
<1> QED
  BY <1>1, <1>2, <1>3, <1>4, <1>5

\* A request has what is selected, for the profile that is.
LEMMA PostKeeps ==
  ASSUME SelectionInv, PostInstall PROVE SelectionInv'
<1> USE DEF SelectionInv, SelectionTypeOK, PageIsOfTheProfile, SelectionIsSound, SelectionsAreApart,
            ReloadIsCurrent, PostInstall
<1>1. \A r \in installs' : r \in installs \/ (r.mods = picks /\ r.profile = viewed)
  OBVIOUS
<1> QED
  BY <1>1

\* An answer changes the state of a request only.
LEMMA AnswerKeeps ==
  ASSUME SelectionInv, NEW r \in installs, InstallAnswered(r) \/ InstallSucceeds(r)
  PROVE  SelectionInv'
<1>1. \E state : InState(r, state)
  BY DEF InstallAnswered, InstallSucceeds
<1>2. \A s \in installs' : \E o \in installs : s.mods = o.mods /\ s.profile = o.profile
  BY <1>1 DEF InState
<1>3. CASE UNCHANGED <<viewed, instance, instances, picks, stored, known>>
  BY <1>2, <1>3 DEF SelectionInv, SelectionTypeOK, PageIsOfTheProfile, SelectionIsSound, SelectionsAreApart,
            ReloadIsCurrent
<1>4. CASE Clears(r.by) /\ UNCHANGED <<viewed, instance, instances, known>>
  BY <1>2, <1>4, Cleared
<1> QED
  BY <1>3, <1>4 DEF InstallAnswered, InstallSucceeds

LEMMA SelectionSteps == SelectionInv /\ [SelectionNext]_selectionVars => SelectionInv'
<1> SUFFICES ASSUME SelectionInv, [SelectionNext]_selectionVars PROVE SelectionInv'
  OBVIOUS
<1>1. CASE \/ OpenPage \/ LeavePage \/ ServersArrive \/ UpdateSucceeds
           \/ \E q \in ModProfiles : ViewProfile(q)
  BY <1>1, PageComesAndGoes
<1>2. CASE ClearSelection
  BY <1>2, PickedFits, NoPicksFit DEF ClearSelection
<1>3. CASE PostInstall
  BY <1>3, PostKeeps
<1>4. ASSUME NEW m \in Picked, ToggleSelected(m) PROVE SelectionInv'
  BY <1>4, ToggleKeeps
<1>5. ASSUME NEW m \in Picked, NEW mode \in {"none", "required", "optional"}, SetClientMode(m, mode)
      PROVE  SelectionInv'
  BY <1>5, ModeKeeps DEF Modes
<1>6. ASSUME NEW m \in Picked, NEW b \in known, ToggleServerTarget(m, b) PROVE SelectionInv'
  BY <1>6, ServerKeeps
<1>7. ASSUME NEW r \in installs, InstallAnswered(r) \/ InstallSucceeds(r) PROVE SelectionInv'
  BY <1>7, AnswerKeeps
<1>8. ASSUME NEW p \in finishing, JobFinished(p) PROVE SelectionInv'
  <2>1. \A r \in installs' : \E o \in installs : r.mods = o.mods /\ r.profile = o.profile
    BY <1>8 DEF JobFinished
  <2> QED
    BY <1>8, <2>1, Cleared DEF JobFinished
<1>9. CASE UNCHANGED selectionVars
  BY <1>9 DEF SelectionInv, SelectionTypeOK, PageIsOfTheProfile, SelectionIsSound, SelectionsAreApart,
            ReloadIsCurrent, selectionVars
<1> QED
  BY <1>1, <1>2, <1>3, <1>4, <1>5, <1>6, <1>7, <1>8, <1>9 DEF SelectionNext

\* A selection is never shown, stored or installed for another profile than the one it was made
\* for (ModsView.vue, restoreInstallSelection and saveInstallSelection), whatever the page does
\* while answers are on their way.
THEOREM SelectionHolds == SelectionSpec => []SelectionIsSound
<1>1. SelectionInv => SelectionIsSound
  BY DEF SelectionInv
<1> QED
  BY <1>1, SelectionStarts, SelectionSteps, PTL DEF SelectionSpec

-----------------------------------------------------------------------------
(* What a mod requires (ModResolve) *)

\* References, items and frames as the code has them.
References == [by : {"slug", "id"}, project : Projects]
Items == [project : Projects, as : {"root", "dependency"}]
Frames == [item : Items, at : {"project", "dependencies"}, todo : SUBSET Projects]

RefOf(item) == IF item.as = "root" THEN Slug(item.project) ELSE Id(item.project)

ResolveTypeOK ==
    /\ selected \in Projects /\ needs \in [Projects -> SUBSET Projects] /\ compatible \subseteq Projects
    /\ visited \subseteq References /\ IsFiniteSet(visited) /\ Cardinality(visited) <= MaxVisits
    /\ visits \in Seq(Frames) /\ resolved \in Seq(Items)

\* The calls follow the dependencies, from the selected project on.
CallsFollow ==
    /\ visits # <<>> => visits[1].item = AsRoot(selected)
    /\ \A i \in 2 .. Len(visits) :
          /\ visits[i].item.as = "dependency"
          /\ visits[i].item.project \in needs[visits[i - 1].item.project]
    /\ \A i \in 1 .. Len(visits) :
          /\ i < Len(visits) => visits[i].at = "dependencies"
          /\ visits[i].at = "dependencies" =>
                visits[i].item.project \in compatible /\ visits[i].todo \subseteq needs[visits[i].item.project]

\* The selected project is the last one to be resolved, of those that are named by a slug the only one.
RootIsLast ==
    /\ visits = <<>> => resolved # <<>> /\ resolved[Len(resolved)] = AsRoot(selected)
    /\ \A i \in DOMAIN resolved :
          resolved[i].as = "root" => resolved[i].project = selected /\ visits = <<>>

\* What is resolved, or being visited, was marked, and is there once.
MarkedOnce ==
    /\ \A i \in DOMAIN resolved : RefOf(resolved[i]) \in visited
    /\ \A i \in DOMAIN visits : RefOf(visits[i].item) \in visited
    /\ \A i, j \in DOMAIN resolved : resolved[i] = resolved[j] => i = j
    /\ \A i, j \in DOMAIN visits : visits[i].item = visits[j].item => i = j
    /\ \A i \in DOMAIN resolved, j \in DOMAIN visits : resolved[i] # visits[j].item

\* What was marked is resolved, or being visited, or has no version for the profile.
MarkedIsThere ==
    \A p \in compatible : Id(p) \in visited =>
       \/ \E i \in DOMAIN resolved : resolved[i] = AsDependency(p)
       \/ \E i \in DOMAIN visits : visits[i].item = AsDependency(p)

\* What a project requires was marked, or is still to be done by its call.
Followed ==
    /\ \A i \in DOMAIN visits : visits[i].at = "dependencies" =>
          \A q \in needs[visits[i].item.project] : q \in visits[i].todo \/ Id(q) \in visited
    /\ \A i \in DOMAIN resolved : \A q \in needs[resolved[i].project] : Id(q) \in visited

\* Calls are made for what the outer ones require, directly or not.
CallsAreRequired ==
    /\ \A i, j \in DOMAIN visits :
          i <= j /\ visits[j].at = "dependencies" =>
             visits[j].item.project \in RequiredBy(visits[i].item.project)
    /\ \A i \in DOMAIN resolved :
          resolved[i].project \in RequiredBy(selected) \cap compatible

\* What a resolved project requires was resolved before, except on a cycle.
OrderedSoFar ==
    \A i \in DOMAIN resolved : \A q \in needs[resolved[i].project] \cap compatible :
       \/ \E j \in 1 .. i - 1 : resolved[j].project = q
       \/ resolved[i].project \in RequiredBy(q)

ResolveInv ==
    /\ resolution = "none" => visited = {} /\ visits = <<>> /\ resolved = <<>>
    /\ resolution = "done" => visits = <<>>
    /\ resolution # "none" =>
          /\ ResolveTypeOK /\ CallsFollow /\ RootIsLast /\ MarkedOnce /\ MarkedIsThere /\ Followed
          /\ CallsAreRequired /\ OrderedSoFar

-----------------------------------------------------------------------------
(* What is required *)

LEMMA RequiresItself ==
  ASSUME NEW p \in Projects PROVE p \in RequiredBy(p)
BY DEF RequiredBy

LEMMA RequiresOn ==
  ASSUME NEW p, NEW q \in RequiredBy(p), NEW r \in needs[q] \cap compatible, r \in Projects
  PROVE  r \in RequiredBy(p)
BY DEF RequiredBy, Needless

LEMMA ClosedHasAll ==
  ASSUME NEW set \in SUBSET Projects, NEW p \in set, Needless(set)
  PROVE  RequiredBy(p) \subseteq set
BY DEF RequiredBy

LEMMA RequiredStays ==
  ASSUME UNCHANGED <<needs, compatible>> PROVE \A p : RequiredBy(p)' = RequiredBy(p)
BY DEF RequiredBy, Needless

-----------------------------------------------------------------------------
(* The stack of calls *)

LEMMA Popping ==
  ASSUME visits \in Seq(Frames), visits # <<>>, Returned
  PROVE  /\ visits' \in Seq(Frames) /\ Len(visits') = Len(visits) - 1 /\ Len(visits) \in Nat \ {0}
         /\ DOMAIN visits' = 1 .. Len(visits) - 1
         /\ \A i \in 1 .. Len(visits) - 1 : visits'[i] = visits[i]
<1> DEFINE n == Len(visits)
<1>1. n \in Nat \ {0} /\ \A i \in 1 .. n - 1 : visits[i] \in Frames
  OBVIOUS
<1>2. /\ SubSeq(visits, 1, n - 1) \in Seq(Frames)
      /\ Len(SubSeq(visits, 1, n - 1)) = IF 1 <= n - 1 THEN n - 1 - 1 + 1 ELSE 0
      /\ \A i \in 1 .. n - 1 - 1 + 1 : SubSeq(visits, 1, n - 1)[i] = visits[1 + i - 1]
  BY <1>1, SubSeqProperties
<1>3. visits' = SubSeq(visits, 1, n - 1)
  BY DEF Returned
<1> HIDE DEF n
<1>4. Len(visits') = n - 1
  BY <1>1, <1>2, <1>3
<1>5. ASSUME NEW i \in 1 .. n - 1 PROVE visits'[i] = visits[i]
  <2>1. i \in 1 .. n - 1 - 1 + 1 /\ 1 + i - 1 = i
    BY <1>1
  <2> QED
    BY <1>2, <1>3, <2>1
<1> QED
  BY <1>1, <1>2, <1>3, <1>4, <1>5, LenProperties DEF n

LEMMA Requiring ==
  ASSUME visits \in Seq(Frames), visits # <<>>, NEW set \in SUBSET Projects
  PROVE  LET n == Len(visits)
             now == Requires(set)
         IN  /\ now \in Seq(Frames) /\ Len(now) = n /\ n \in Nat \ {0} /\ DOMAIN now = 1 .. n
             /\ \A i \in 1 .. n - 1 : now[i] = visits[i]
             /\ now[n] = [item |-> visits[n].item, at |-> "dependencies", todo |-> set]
<1> DEFINE n == Len(visits)
           visit == [item |-> visits[n].item, at |-> "dependencies", todo |-> set]
<1>1. n \in Nat \ {0} /\ n \in 1 .. Len(visits) /\ visits[n] \in Frames
  OBVIOUS
<1>2. visit \in Frames
  BY <1>1 DEF Frames
<1>3. Requires(set) = [visits EXCEPT ![n] = visit]
  BY DEF Requires, Innermost
<1> HIDE DEF n, visit
<1>4. /\ Requires(set) \in Seq(Frames) /\ Len(Requires(set)) = Len(visits)
      /\ \A j \in 1 .. Len(visits) : Requires(set)[j] = IF j = n THEN visit ELSE visits[j]
  BY <1>1, <1>2, <1>3, ExceptSeq
<1> QED
  BY <1>1, <1>4, LenProperties DEF n, visit

LEMMA ResolveStarts == ResolveInit => ResolveInv
BY DEF ResolveInit, ResolveInv

LEMMA BeginKeeps ==
  ASSUME ResolveInv, BeginResolve PROVE ResolveInv'
<1>1. /\ visited' = {Slug(selected')} /\ resolved' = <<>> /\ resolution' = "busy"
      /\ selected' \in Projects /\ needs' \in [Projects -> SUBSET Projects] /\ compatible' \subseteq Projects
      /\ visits' = <<[item |-> AsRoot(selected'), at |-> "project", todo |-> {}]>>
  BY DEF ResolveInv, BeginResolve, Mark
<1>2. Len(visits') = 1 /\ DOMAIN visits' = {1}
      /\ visits'[1] = [item |-> AsRoot(selected'), at |-> "project", todo |-> {}]
  BY <1>1
<1>3. AsRoot(selected') \in Items /\ Slug(selected') \in References
  BY <1>1 DEF AsRoot, Items, Slug, References
<1>4. IsFiniteSet(visited') /\ Cardinality(visited') = 1
  BY <1>1, FS_Singleton
<1>5. ResolveTypeOK'
  BY <1>1, <1>3, <1>4, ResolveAssumption DEF ResolveTypeOK, Frames
<1>6. CallsFollow' /\ RootIsLast'
  BY <1>1, <1>2 DEF CallsFollow, RootIsLast
<1>7. MarkedOnce'
  BY <1>1, <1>2 DEF MarkedOnce, RefOf, AsRoot
<1>8. MarkedIsThere' /\ Followed' /\ CallsAreRequired' /\ OrderedSoFar'
  BY <1>1, <1>2 DEF MarkedIsThere, Followed, CallsAreRequired, OrderedSoFar, Slug, Id
<1> QED
  BY <1>1, <1>5, <1>6, <1>7, <1>8 DEF ResolveInv

-----------------------------------------------------------------------------
(* The steps *)

\* Only what the stack, the marks and the list of what is resolved are, matters.
LEMMA RestKeeps ==
  ASSUME ResolveInv, resolution # "none", resolution' # "none", resolution' = "done" => visits' = <<>>,
         UNCHANGED <<selected, needs, compatible, visited, visits, resolved>>
  PROVE  ResolveInv'
<1>1. \A p : RequiredBy(p)' = RequiredBy(p)
  BY RequiredStays
<1> QED
  BY <1>1 DEF ResolveInv, ResolveTypeOK, CallsFollow, RootIsLast, MarkedOnce, MarkedIsThere, Followed,
              CallsAreRequired, OrderedSoFar

\* A dependency without a version is left out.
LEMMA LeftOutKeeps ==
  ASSUME ResolveInv, resolution = "busy", visits # <<>>, Innermost.at = "project",
         Innermost.item.as = "dependency", Innermost.item.project \notin compatible,
         Returned, UNCHANGED <<selected, needs, compatible, visited, resolved, resolution>>
  PROVE  ResolveInv'
<1> USE DEF ResolveInv
<1> DEFINE n == Len(visits)
<1>1. ResolveTypeOK /\ visits \in Seq(Frames)
  BY DEF ResolveTypeOK
<1>2. /\ visits' \in Seq(Frames) /\ Len(visits') = n - 1 /\ n \in Nat \ {0} /\ DOMAIN visits' = 1 .. n - 1
      /\ \A i \in 1 .. n - 1 : visits'[i] = visits[i]
  BY <1>1, Popping
<1>3. DOMAIN visits = 1 .. n
  BY <1>1
<1>4. n > 1 /\ visits' # <<>>
  <2>1. visits[1].item.as = "root"
    BY DEF CallsFollow, AsRoot
  <2> QED
    BY <1>2, <2>1 DEF Innermost
<1>5. \A p : RequiredBy(p)' = RequiredBy(p)
  BY RequiredStays
<1> HIDE DEF n
<1>6. ResolveTypeOK'
  BY <1>1, <1>2 DEF ResolveTypeOK
<1>7. CallsFollow'
  BY <1>2, <1>4 DEF CallsFollow, n
<1>8. RootIsLast'
  BY <1>4 DEF RootIsLast
<1>9. MarkedOnce'
  BY <1>2, <1>3 DEF MarkedOnce
<1>10. MarkedIsThere'
  <2> SUFFICES ASSUME NEW p \in compatible, Id(p) \in visited
               PROVE  \/ \E i \in DOMAIN resolved : resolved[i] = AsDependency(p)
                      \/ \E i \in DOMAIN visits' : visits'[i].item = AsDependency(p)
    BY DEF MarkedIsThere
  <2>1. CASE \E i \in DOMAIN resolved : resolved[i] = AsDependency(p)
    BY <2>1
  <2>2. ASSUME NEW i \in DOMAIN visits, visits[i].item = AsDependency(p)
        PROVE  \E k \in DOMAIN visits' : visits'[k].item = AsDependency(p)
    <3>1. i # n
      BY <2>2 DEF Innermost, AsDependency, n
    <3> QED
      BY <1>2, <1>3, <2>2, <3>1
  <2> QED
    BY <2>1, <2>2 DEF MarkedIsThere
<1>11. Followed'
  BY <1>2, <1>3 DEF Followed
<1>12. CallsAreRequired'
  BY <1>2, <1>3, <1>5 DEF CallsAreRequired
<1>13. OrderedSoFar'
  BY <1>5 DEF OrderedSoFar
<1> QED
  BY <1>6, <1>7, <1>8, <1>9, <1>10, <1>11, <1>12, <1>13

\* A project with a version goes on to what this version requires.
LEMMA VersionKeeps ==
  ASSUME ResolveInv, resolution = "busy", visits # <<>>, Innermost.at = "project",
         Innermost.item.project \in compatible, visits' = Requires(needs[Innermost.item.project]),
         UNCHANGED <<selected, needs, compatible, visited, resolved, resolution>>
  PROVE  ResolveInv'
<1> USE DEF ResolveInv
<1> DEFINE n == Len(visits)
           p == visits[n].item.project
<1>1. ResolveTypeOK /\ visits \in Seq(Frames)
  BY DEF ResolveTypeOK
<1>2. n \in Nat \ {0} /\ DOMAIN visits = 1 .. n /\ visits[n] \in Frames
  BY <1>1
<1>3. p \in Projects /\ p \in compatible /\ needs[p] \in SUBSET Projects
  BY <1>1, <1>2 DEF Frames, Items, ResolveTypeOK, Innermost
<1>4. /\ visits' \in Seq(Frames) /\ Len(visits') = n /\ DOMAIN visits' = 1 .. n
      /\ \A i \in 1 .. n - 1 : visits'[i] = visits[i]
      /\ visits'[n] = [item |-> visits[n].item, at |-> "dependencies", todo |-> needs[p]]
  BY <1>1, <1>3, Requiring DEF Innermost
<1>5. \A q : RequiredBy(q)' = RequiredBy(q)
  BY RequiredStays
<1> HIDE DEF n, p
<1>6. \A i \in 1 .. n : visits'[i].item = visits[i].item
  BY <1>2, <1>4
<1>7. visits' # <<>>
  BY <1>2, <1>4
<1>8. ResolveTypeOK'
  BY <1>1, <1>4 DEF ResolveTypeOK
<1>9. CallsFollow'
  <2>1. visits'[1].item = AsRoot(selected)
    BY <1>2, <1>6 DEF CallsFollow
  <2>2. \A i \in 2 .. n :
          /\ visits'[i].item.as = "dependency"
          /\ visits'[i].item.project \in needs[visits'[i - 1].item.project]
    <3> SUFFICES ASSUME NEW i \in 2 .. n
                 PROVE  /\ visits'[i].item.as = "dependency"
                        /\ visits'[i].item.project \in needs[visits'[i - 1].item.project]
      OBVIOUS
    <3>1. i \in 1 .. n /\ i - 1 \in 1 .. n
      BY <1>2
    <3>2. visits'[i].item = visits[i].item /\ visits'[i - 1].item = visits[i - 1].item
      BY <1>6, <3>1
    <3> QED
      BY <3>2 DEF CallsFollow, n
  <2>3. \A i \in 1 .. n :
          /\ i < n => visits'[i].at = "dependencies"
          /\ visits'[i].at = "dependencies" =>
                /\ visits'[i].item.project \in compatible
                /\ visits'[i].todo \subseteq needs[visits'[i].item.project]
    <3> SUFFICES ASSUME NEW i \in 1 .. n
                 PROVE  /\ i < n => visits'[i].at = "dependencies"
                        /\ visits'[i].at = "dependencies" =>
                              /\ visits'[i].item.project \in compatible
                              /\ visits'[i].todo \subseteq needs[visits'[i].item.project]
      OBVIOUS
    <3>1. CASE i = n
      BY <1>3, <1>4, <3>1 DEF p
    <3>2. CASE i # n
      <4>1. i \in 1 .. n - 1 /\ visits'[i] = visits[i]
        BY <1>2, <1>4, <3>2
      <4> QED
        BY <1>2, <4>1 DEF CallsFollow, n
    <3> QED
      BY <3>1, <3>2
  <2> QED
    BY <1>4, <2>1, <2>2, <2>3 DEF CallsFollow
<1>10. RootIsLast'
  BY <1>7 DEF RootIsLast
<1>11. MarkedOnce' /\ MarkedIsThere'
  BY <1>2, <1>4, <1>6 DEF MarkedOnce, MarkedIsThere
<1>12. Followed'
  <2> SUFFICES ASSUME NEW i \in 1 .. n, visits'[i].at = "dependencies", NEW q \in needs[visits'[i].item.project]
               PROVE  q \in visits'[i].todo \/ Id(q) \in visited
    BY <1>4 DEF Followed
  <2>1. CASE i = n
    BY <1>4, <2>1 DEF p
  <2>2. CASE i # n
    BY <1>2, <1>4, <2>2 DEF Followed
  <2> QED
    BY <2>1, <2>2
<1>13. CallsAreRequired'
  <2>1. ASSUME NEW i \in 1 .. n, NEW j \in 1 .. n, i <= j, visits'[j].at = "dependencies"
        PROVE  visits'[j].item.project \in RequiredBy(visits'[i].item.project)
    <3>1. CASE j # n
      BY <1>2, <1>4, <1>6, <2>1, <3>1 DEF CallsAreRequired
    <3>2. CASE i = n /\ j = n
      BY <1>3, <1>6, <3>2, RequiresItself DEF p
    <3>3. CASE i # n /\ j = n
      <4>1. n - 1 \in 1 .. n /\ n \in 2 .. n /\ i <= n - 1 /\ n - 1 < n
        BY <1>2, <2>1, <3>3
      <4>2. visits[n - 1].item.project \in RequiredBy(visits[i].item.project)
        BY <1>2, <4>1 DEF CallsAreRequired, CallsFollow, n
      <4>3. p \in needs[visits[n - 1].item.project]
        BY <4>1 DEF CallsFollow, n, p
      <4>4. p \in RequiredBy(visits[i].item.project)
        BY <1>3, <4>2, <4>3, RequiresOn
      <4> QED
        BY <1>6, <2>1, <3>3, <4>4 DEF p
    <3> QED
      BY <3>1, <3>2, <3>3
  <2> QED
    BY <1>4, <1>5, <2>1 DEF CallsAreRequired
<1>14. OrderedSoFar'
  BY <1>5 DEF OrderedSoFar
<1> QED
  BY <1>8, <1>9, <1>10, <1>11, <1>12, <1>13, <1>14

\* A dependency that was marked before is passed over.
LEMMA PassedOverKeeps ==
  ASSUME ResolveInv, resolution = "busy", visits # <<>>, Innermost.at = "dependencies",
         NEW d \in Innermost.todo, Id(d) \in visited, visits' = Requires(Innermost.todo \ {d}),
         UNCHANGED <<selected, needs, compatible, visited, resolved, resolution>>
  PROVE  ResolveInv'
<1> USE DEF ResolveInv
<1> DEFINE n == Len(visits)
           todo == visits[n].todo
<1> HIDE DEF n, todo
<1>0. /\ CallsFollow /\ MarkedOnce /\ MarkedIsThere /\ Followed /\ CallsAreRequired
      /\ UNCHANGED <<selected, needs, compatible, visited, resolved, resolution>>
  OBVIOUS
<1>1. ResolveTypeOK /\ visits \in Seq(Frames)
  BY DEF ResolveTypeOK
<1>2. n \in Nat \ {0} /\ DOMAIN visits = 1 .. n /\ visits[n] \in Frames
  BY <1>1 DEF n
<1>3. todo \in SUBSET Projects
  BY <1>2 DEF Frames, todo
<1>4. /\ visits' \in Seq(Frames) /\ Len(visits') = n /\ DOMAIN visits' = 1 .. n
      /\ \A i \in 1 .. n - 1 : visits'[i] = visits[i]
      /\ visits'[n] = [item |-> visits[n].item, at |-> "dependencies", todo |-> todo \ {d}]
  <2>1. visits' = Requires(todo \ {d}) /\ todo \ {d} \in SUBSET Projects
    BY <1>3 DEF Innermost, n, todo
  <2> QED
    <3> DEFINE others == todo \ {d}
    <3> HIDE DEF others
    <3>1. others \in SUBSET Projects /\ visits' = Requires(others)
      BY <2>1 DEF others
    <3>2. /\ Requires(others) \in Seq(Frames) /\ Len(Requires(others)) = n /\ DOMAIN Requires(others) = 1 .. n
          /\ \A i \in 1 .. n - 1 : Requires(others)[i] = visits[i]
          /\ Requires(others)[n] = [item |-> visits[n].item, at |-> "dependencies", todo |-> others]
      <4>1. others \in SUBSET Projects /\ visits # <<>>
        BY <3>1
      <4> QED
        BY ONLY <1>1, <4>1, Requiring DEF n
    <3> QED
      BY <3>1, <3>2 DEF others
<1>5. \A q : RequiredBy(q)' = RequiredBy(q)
  BY RequiredStays
<1>6. visits[n].at = "dependencies"
  BY DEF Innermost, n
<1>7. \A i \in 1 .. n : /\ visits'[i].item = visits[i].item /\ visits'[i].at = visits[i].at
                        /\ visits'[i].todo \subseteq visits[i].todo
  <2> SUFFICES ASSUME NEW i \in 1 .. n
               PROVE  /\ visits'[i].item = visits[i].item /\ visits'[i].at = visits[i].at
                      /\ visits'[i].todo \subseteq visits[i].todo
    OBVIOUS
  <2>1. CASE i = n
    BY ONLY <1>4, <1>6, <2>1 DEF todo
  <2>2. CASE i # n
    BY ONLY <1>2, <1>4, <2>2
  <2> QED
    BY <2>1, <2>2
<1>8. visits' # <<>>
  BY <1>2, <1>4
<1>9. ResolveTypeOK'
  BY <1>1, <1>4 DEF ResolveTypeOK
<1>10. CallsFollow'
  <2>1. visits'[1].item = AsRoot(selected)
    <3>1. 1 \in 1 .. n
      BY <1>2
    <3> QED
      BY <1>7, <3>1 DEF CallsFollow
  <2>2. ASSUME NEW i \in 2 .. n
        PROVE  /\ visits'[i].item.as = "dependency"
               /\ visits'[i].item.project \in needs[visits'[i - 1].item.project]
    <3>1. i \in 1 .. n /\ i - 1 \in 1 .. n
      BY <1>2
    <3>2. visits'[i].item = visits[i].item /\ visits'[i - 1].item = visits[i - 1].item
      BY <1>7, <3>1
    <3> QED
      BY <3>2 DEF CallsFollow, n
  <2>3. ASSUME NEW i \in 1 .. n
        PROVE  /\ i < n => visits'[i].at = "dependencies"
               /\ visits'[i].at = "dependencies" =>
                     /\ visits'[i].item.project \in compatible
                     /\ visits'[i].todo \subseteq needs[visits'[i].item.project]
    BY <1>7 DEF CallsFollow, n
  <2> QED
    BY <1>4, <2>1, <2>2, <2>3 DEF CallsFollow
<1>11. RootIsLast'
  BY <1>8 DEF RootIsLast
<1>12. MarkedOnce' /\ MarkedIsThere'
  BY ONLY <1>0, <1>2, <1>4, <1>7 DEF MarkedOnce, MarkedIsThere
<1>13. Followed'
  <2> SUFFICES ASSUME NEW i \in 1 .. n, visits'[i].at = "dependencies", NEW q \in needs[visits'[i].item.project]
               PROVE  q \in visits'[i].todo \/ Id(q) \in visited
    BY <1>4 DEF Followed
  <2>1. q \in visits[i].todo \/ Id(q) \in visited
    BY <1>2, <1>7 DEF Followed
  <2>2. CASE i = n
    BY <1>4, <2>1, <2>2 DEF todo
  <2>3. CASE i # n
    BY ONLY <1>2, <1>4, <2>1, <2>3
  <2> QED
    BY <2>2, <2>3
<1>14. CallsAreRequired'
  BY <1>2, <1>4, <1>5, <1>7 DEF CallsAreRequired
<1>15. OrderedSoFar'
  BY <1>5 DEF OrderedSoFar
<1> QED
  BY <1>9, <1>10, <1>11, <1>12, <1>13, <1>14, <1>15

\* A dependency that was not is marked and visited.
LEMMA FollowKeeps ==
  ASSUME ResolveInv, resolution = "busy", visits # <<>>, Innermost.at = "dependencies",
         NEW d \in Innermost.todo, Id(d) \notin visited, ~(Cardinality(visited) >= MaxVisits), Mark(Id(d)),
         visits' = Append(Requires(Innermost.todo \ {d}),
                          [item |-> AsDependency(d), at |-> "project", todo |-> {}]),
         UNCHANGED <<selected, needs, compatible, resolved, resolution>>
  PROVE  ResolveInv'
<1> USE DEF ResolveInv
<1> DEFINE n == Len(visits)
           todo == visits[n].todo
           new == [item |-> AsDependency(d), at |-> "project", todo |-> {}]
<1> HIDE DEF n, todo, new
<1>0. /\ CallsFollow /\ MarkedOnce /\ MarkedIsThere /\ Followed /\ CallsAreRequired
      /\ UNCHANGED <<selected, needs, compatible, resolved, resolution>>
  OBVIOUS
<1>1. ResolveTypeOK /\ visits \in Seq(Frames)
  BY DEF ResolveTypeOK
<1>2. n \in Nat \ {0} /\ DOMAIN visits = 1 .. n /\ visits[n] \in Frames
  BY <1>1 DEF n
<1>3. todo \in SUBSET Projects /\ d \in todo /\ d \in Projects
  BY <1>2 DEF Frames, Innermost, todo, n
<1>4. AsDependency(d) \in Items /\ new \in Frames /\ Id(d) \in References
  BY <1>3 DEF AsDependency, Items, Frames, Id, References, new
<1>5. /\ visits' \in Seq(Frames) /\ Len(visits') = n + 1 /\ DOMAIN visits' = 1 .. n + 1
      /\ \A i \in 1 .. n - 1 : visits'[i] = visits[i]
      /\ visits'[n] = [item |-> visits[n].item, at |-> "dependencies", todo |-> todo \ {d}]
      /\ visits'[n + 1] = new
  <2> DEFINE rest == Requires(todo \ {d})
  <2>1. visits' = Append(rest, new) /\ todo \ {d} \in SUBSET Projects
    BY <1>3 DEF Innermost, todo, n, new
  <2>2. /\ rest \in Seq(Frames) /\ Len(rest) = n
        /\ \A i \in 1 .. n - 1 : rest[i] = visits[i]
        /\ rest[n] = [item |-> visits[n].item, at |-> "dependencies", todo |-> todo \ {d}]
    <3> DEFINE others == todo \ {d}
    <3> HIDE DEF others, rest
    <3>1. others \in SUBSET Projects /\ rest = Requires(others)
      BY <2>1 DEF others, rest
    <3>2. /\ Requires(others) \in Seq(Frames) /\ Len(Requires(others)) = n
          /\ \A i \in 1 .. n - 1 : Requires(others)[i] = visits[i]
          /\ Requires(others)[n] = [item |-> visits[n].item, at |-> "dependencies", todo |-> others]
      <4>1. others \in SUBSET Projects /\ visits # <<>>
        BY <3>1
      <4> QED
        BY ONLY <1>1, <4>1, Requiring DEF n
    <3> QED
      BY <3>1, <3>2 DEF others
  <2> HIDE DEF rest
  <2>3. /\ Append(rest, new) \in Seq(Frames) /\ Len(Append(rest, new)) = n + 1
        /\ \A i \in 1 .. n : Append(rest, new)[i] = rest[i]
        /\ Append(rest, new)[n + 1] = new
    BY <1>4, <2>2, AppendProperties
  <2> QED
    BY ONLY <1>2, <2>1, <2>2, <2>3, LenProperties
<1>6. \A q : RequiredBy(q)' = RequiredBy(q)
  BY RequiredStays
<1>7. visits[n].at = "dependencies" /\ visited' = visited \cup {Id(d)}
  BY DEF Innermost, Mark, n
<1>8. d \in needs[visits[n].item.project]
  BY <1>2, <1>3, <1>7 DEF CallsFollow, n, todo
<1>9. \A i \in 1 .. n : /\ visits'[i].item = visits[i].item /\ visits'[i].at = visits[i].at
                        /\ visits'[i].todo \subseteq visits[i].todo
  <2> SUFFICES ASSUME NEW i \in 1 .. n
               PROVE  /\ visits'[i].item = visits[i].item /\ visits'[i].at = visits[i].at
                      /\ visits'[i].todo \subseteq visits[i].todo
    OBVIOUS
  <2>1. CASE i = n
    BY ONLY <1>5, <1>7, <2>1 DEF todo
  <2>2. CASE i # n
    BY ONLY <1>2, <1>5, <2>2
  <2> QED
    BY <2>1, <2>2
<1>10. visits' # <<>>
  BY <1>2, <1>5
<1>11. ResolveTypeOK'
  <2>1. IsFiniteSet(visited') /\ Cardinality(visited') = Cardinality(visited) + 1 /\ Cardinality(visited) \in Nat
    BY <1>1, <1>7, FS_AddElement, FS_CardinalityType DEF ResolveTypeOK
  <2>2. Cardinality(visited') <= MaxVisits
    BY <2>1, ResolveAssumption
  <2> QED
    BY <1>1, <1>4, <1>5, <1>7, <2>1, <2>2 DEF ResolveTypeOK
<1>12. CallsFollow'
  <2>1. visits'[1].item = AsRoot(selected)
    <3>1. 1 \in 1 .. n
      BY <1>2
    <3> QED
      BY <1>9, <3>1 DEF CallsFollow
  <2>2. ASSUME NEW i \in 2 .. n + 1
        PROVE  /\ visits'[i].item.as = "dependency"
               /\ visits'[i].item.project \in needs[visits'[i - 1].item.project]
    <3>1. CASE i = n + 1
      <4>1. i - 1 = n /\ visits'[n].item = visits[n].item
        BY ONLY <1>2, <1>9, <3>1
      <4> QED
        BY ONLY <1>0, <1>5, <1>8, <3>1, <4>1 DEF AsDependency, new
    <3>2. CASE i # n + 1
      <4>1. i \in 1 .. n /\ i - 1 \in 1 .. n /\ i \in 2 .. n
        BY <1>2, <3>2
      <4>2. visits'[i].item = visits[i].item /\ visits'[i - 1].item = visits[i - 1].item
        BY <1>9, <4>1
      <4> QED
        BY <4>1, <4>2 DEF CallsFollow, n
    <3> QED
      BY <3>1, <3>2
  <2>3. ASSUME NEW i \in 1 .. n + 1
        PROVE  /\ i < n + 1 => visits'[i].at = "dependencies"
               /\ visits'[i].at = "dependencies" =>
                     /\ visits'[i].item.project \in compatible
                     /\ visits'[i].todo \subseteq needs[visits'[i].item.project]
    <3>1. CASE i = n + 1
      BY <1>2, <1>5, <3>1 DEF new
    <3>2. CASE i # n + 1
      <4>1. i \in 1 .. n /\ (i = n \/ i < n)
        BY <1>2, <3>2
      <4> QED
        BY <1>7, <1>9, <4>1 DEF CallsFollow, n
    <3> QED
      BY <3>1, <3>2
  <2> QED
    BY <1>5, <2>1, <2>2, <2>3 DEF CallsFollow
<1>13. RootIsLast'
  BY <1>10 DEF RootIsLast
<1>14. MarkedOnce'
  <2>0. Id(d) \notin visited
    OBVIOUS
  <2>1. \A item : RefOf(item) \in visited => item # AsDependency(d)
    BY DEF RefOf, AsDependency
  <2>2. RefOf(AsDependency(d)) = Id(d)
    BY DEF RefOf, AsDependency
  <2>3. \A i \in DOMAIN visits' : i \in 1 .. n \/ i = n + 1
    BY <1>2, <1>5
  <2>4. /\ \A i \in DOMAIN resolved : RefOf(resolved[i]) \in visited'
        /\ \A i \in DOMAIN visits' : RefOf(visits'[i].item) \in visited'
    BY ONLY <1>0, <1>2, <1>5, <1>7, <1>9, <2>2, <2>3 DEF MarkedOnce, new
  <2>5. \A i, j \in DOMAIN visits' : visits'[i].item = visits'[j].item => i = j
    BY ONLY <1>0, <1>2, <1>5, <1>9, <2>0, <2>1, <2>3 DEF MarkedOnce, new
  <2>6. \A i \in DOMAIN resolved, j \in DOMAIN visits' : resolved[i] # visits'[j].item
    BY ONLY <1>0, <1>2, <1>5, <1>9, <2>0, <2>1, <2>3 DEF MarkedOnce, new
  <2> QED
    BY <2>4, <2>5, <2>6 DEF MarkedOnce
<1>15. MarkedIsThere'
  <2> SUFFICES ASSUME NEW p \in compatible, Id(p) \in visited'
               PROVE  \/ \E i \in DOMAIN resolved : resolved[i] = AsDependency(p)
                      \/ \E i \in DOMAIN visits' : visits'[i].item = AsDependency(p)
    BY DEF MarkedIsThere
  <2>1. CASE Id(p) \in visited
    BY ONLY <1>0, <1>2, <1>5, <1>9, <2>1 DEF MarkedIsThere
  <2>2. CASE Id(p) = Id(d)
    <3>1. p = d /\ n + 1 \in DOMAIN visits'
      BY ONLY <1>2, <1>5, <2>2 DEF Id
    <3> QED
      BY <1>5, <3>1 DEF new
  <2> QED
    BY <1>7, <2>1, <2>2
<1>16. Followed'
  <2>1. ASSUME NEW i \in DOMAIN visits', visits'[i].at = "dependencies",
               NEW q \in needs[visits'[i].item.project]
        PROVE  q \in visits'[i].todo \/ Id(q) \in visited'
    <3>1. i \in 1 .. n
      BY ONLY <1>2, <1>5, <2>1 DEF new
    <3>2. q \in visits[i].todo \/ Id(q) \in visited
      BY <1>2, <1>9, <2>1, <3>1 DEF Followed
    <3>3. CASE i = n
      BY ONLY <1>5, <1>7, <3>2, <3>3 DEF todo
    <3>4. CASE i # n
      BY ONLY <1>2, <1>5, <1>7, <3>1, <3>2, <3>4
    <3> QED
      BY <3>3, <3>4
  <2>2. \A i \in DOMAIN resolved : \A q \in needs[resolved[i].project] : Id(q) \in visited'
    BY <1>7 DEF Followed
  <2> QED
    BY <2>1, <2>2 DEF Followed
<1>17. CallsAreRequired'
  <2>1. ASSUME NEW i \in DOMAIN visits', NEW j \in DOMAIN visits', i <= j, visits'[j].at = "dependencies"
        PROVE  visits'[j].item.project \in RequiredBy(visits'[i].item.project)
    <3>1. j \in 1 .. n /\ i \in 1 .. n
      BY ONLY <1>2, <1>5, <2>1 DEF new
    <3> QED
      BY <1>2, <1>9, <2>1, <3>1 DEF CallsAreRequired
  <2> QED
    BY <1>6, <2>1 DEF CallsAreRequired
<1>18. OrderedSoFar'
  BY <1>6 DEF OrderedSoFar
<1> QED
  BY <1>11, <1>12, <1>13, <1>14, <1>15, <1>16, <1>17, <1>18

\* A project is resolved after all that its version requires.
LEMMA ResolvedKeeps ==
  ASSUME ResolveInv, visits # <<>>, ProjectResolved PROVE ResolveInv'
<1> USE DEF ResolveInv
<1> DEFINE n == Len(visits)
           m == Len(resolved)
           item == visits[n].item
<1>1. /\ ResolveTypeOK /\ visits \in Seq(Frames) /\ resolved \in Seq(Items) /\ resolution = "busy"
      /\ UNCHANGED <<selected, needs, compatible, visited, resolution>>
      /\ visits[n].at = "dependencies" /\ visits[n].todo = {}
  BY DEF ResolveTypeOK, ProjectResolved, Innermost
<1>2. /\ visits' \in Seq(Frames) /\ Len(visits') = n - 1 /\ n \in Nat \ {0} /\ DOMAIN visits' = 1 .. n - 1
      /\ \A i \in 1 .. n - 1 : visits'[i] = visits[i]
  BY <1>1, Popping DEF ProjectResolved
<1>3. DOMAIN visits = 1 .. n /\ visits[n] \in Frames /\ item \in Items
  <2>1. DOMAIN visits = 1 .. n /\ n \in 1 .. n
    BY <1>1, <1>2
  <2>2. visits[n] \in Frames
    BY <1>1, <2>1
  <2> QED
    BY <2>1, <2>2 DEF Frames
<1>4. resolved' = Append(resolved, item)
  BY DEF ProjectResolved, PutLast, Innermost
<1>5. m \in Nat /\ DOMAIN resolved = 1 .. m
  BY <1>1
<1> HIDE DEF n, m, item
<1>6. /\ resolved' \in Seq(Items) /\ resolved' # <<>> /\ Len(resolved') = m + 1
      /\ \A i \in 1 .. m : resolved'[i] = resolved[i]
      /\ resolved'[m + 1] = item
  BY <1>1, <1>3, <1>4, AppendProperties DEF m
<1>7. DOMAIN resolved' = 1 .. m + 1
  BY <1>6, LenProperties
<1>8. \A q : RequiredBy(q)' = RequiredBy(q)
  BY <1>1, RequiredStays
<1>9. item.project \in compatible
  BY <1>1, <1>2 DEF CallsFollow, n, item
<1>10. ResolveTypeOK'
  BY <1>1, <1>2, <1>6 DEF ResolveTypeOK
<1>11. CallsFollow'
  <2>1. visits' # <<>> => visits'[1].item = AsRoot(selected)
    <3>1. visits' # <<>> => 1 \in 1 .. n - 1
      BY <1>2
    <3> QED
      BY <1>2, <3>1 DEF CallsFollow
  <2>2. ASSUME NEW i \in 2 .. n - 1
        PROVE  /\ visits'[i].item.as = "dependency"
               /\ visits'[i].item.project \in needs[visits'[i - 1].item.project]
    <3>1. i \in 1 .. n - 1 /\ i - 1 \in 1 .. n - 1 /\ i \in 2 .. n
      BY <1>2
    <3>2. visits'[i] = visits[i] /\ visits'[i - 1] = visits[i - 1]
      BY <1>2, <3>1
    <3> QED
      BY <1>1, <3>1, <3>2 DEF CallsFollow, n
  <2>3. ASSUME NEW i \in 1 .. n - 1
        PROVE  /\ i < n - 1 => visits'[i].at = "dependencies"
               /\ visits'[i].at = "dependencies" =>
                     /\ visits'[i].item.project \in compatible
                     /\ visits'[i].todo \subseteq needs[visits'[i].item.project]
    <3>1. i \in 1 .. n /\ i < n /\ visits'[i] = visits[i]
      BY <1>2
    <3> QED
      BY <1>1, <3>1 DEF CallsFollow, n
  <2> QED
    BY <1>1, <1>2, <2>1, <2>2, <2>3 DEF CallsFollow
<1>12. RootIsLast'
  <2>1. visits' = <<>> <=> n = 1
    BY <1>2
  <2>2. n = 1 => item = AsRoot(selected)
    BY <1>1 DEF CallsFollow, item
  <2>3. n # 1 => item.as = "dependency"
    BY <1>2 DEF CallsFollow, n, item
  <2>4. visits' = <<>> => resolved' # <<>> /\ resolved'[Len(resolved')] = AsRoot(selected)
    BY <1>6, <2>1, <2>2
  <2>5. ASSUME NEW i \in DOMAIN resolved', resolved'[i].as = "root"
        PROVE  resolved'[i].project = selected /\ visits' = <<>>
    <3>1. i = m + 1
      BY <1>5, <1>6, <1>7, <2>5 DEF RootIsLast
    <3> QED
      BY <1>6, <2>1, <2>2, <2>3, <2>5, <3>1 DEF AsRoot
  <2> QED
    BY <1>1, <2>4, <2>5 DEF RootIsLast
<1>13. MarkedOnce'
  <2>1. \A i \in DOMAIN resolved' : i = m + 1 \/ i \in 1 .. m
    BY <1>5, <1>7
  <2>2. n \in DOMAIN visits /\ \A i \in 1 .. n - 1 : i \in DOMAIN visits /\ i # n
    BY <1>2, <1>3
  <2>3. \A i \in DOMAIN resolved' : RefOf(resolved'[i]) \in visited
    BY <1>5, <1>6, <2>1, <2>2 DEF MarkedOnce, item
  <2>4. \A i \in DOMAIN visits' : RefOf(visits'[i].item) \in visited
    BY <1>2, <2>2 DEF MarkedOnce
  <2>5. \A i, j \in DOMAIN resolved' : resolved'[i] = resolved'[j] => i = j
    BY <1>5, <1>6, <2>1, <2>2 DEF MarkedOnce, item
  <2>6. \A i, j \in DOMAIN visits' : visits'[i].item = visits'[j].item => i = j
    BY <1>2, <2>2 DEF MarkedOnce
  <2>7. \A i \in DOMAIN resolved', j \in DOMAIN visits' : resolved'[i] # visits'[j].item
    BY <1>2, <1>5, <1>6, <2>1, <2>2 DEF MarkedOnce, item
  <2> QED
    BY <1>1, <2>3, <2>4, <2>5, <2>6, <2>7 DEF MarkedOnce
<1>14. MarkedIsThere'
  <2> SUFFICES ASSUME NEW p \in compatible, Id(p) \in visited
               PROVE  \/ \E i \in DOMAIN resolved' : resolved'[i] = AsDependency(p)
                      \/ \E i \in DOMAIN visits' : visits'[i].item = AsDependency(p)
    BY <1>1 DEF MarkedIsThere
  <2>1. ASSUME NEW i \in DOMAIN resolved, resolved[i] = AsDependency(p)
        PROVE  i \in DOMAIN resolved' /\ resolved'[i] = AsDependency(p)
    BY <1>5, <1>6, <1>7, <2>1
  <2>2. ASSUME NEW i \in DOMAIN visits, visits[i].item = AsDependency(p)
        PROVE  \/ \E k \in DOMAIN resolved' : resolved'[k] = AsDependency(p)
               \/ \E k \in DOMAIN visits' : visits'[k].item = AsDependency(p)
    <3>1. CASE i = n
      BY <1>5, <1>6, <1>7, <2>2, <3>1 DEF item
    <3>2. CASE i # n
      BY <1>2, <1>3, <2>2, <3>2
    <3> QED
      BY <3>1, <3>2
  <2> QED
    BY <1>1, <2>1, <2>2 DEF MarkedIsThere
<1>15. Followed'
  <2>1. \A q \in needs[item.project] : Id(q) \in visited
    BY <1>1, <1>2, <1>3 DEF Followed, item
  <2>2. \A i \in DOMAIN resolved' : \A q \in needs[resolved'[i].project] : Id(q) \in visited
    BY <1>1, <1>5, <1>6, <1>7, <2>1 DEF Followed
  <2> QED
    BY <1>1, <1>2, <1>3, <2>2 DEF Followed
<1>16. CallsAreRequired'
  <2>1. item.project \in RequiredBy(selected)
    <3>1. 1 \in DOMAIN visits /\ n \in DOMAIN visits /\ 1 <= n
      BY <1>2, <1>3
    <3>2. item.project \in RequiredBy(visits[1].item.project)
      BY <1>1, <3>1 DEF CallsAreRequired, item
    <3> QED
      BY <1>1, <3>2 DEF CallsFollow, AsRoot
  <2>2. \A i \in DOMAIN resolved' : resolved'[i].project \in RequiredBy(selected) \cap compatible
    BY <1>1, <1>5, <1>6, <1>7, <1>9, <2>1 DEF CallsAreRequired
  <2>3. \A i, j \in DOMAIN visits' :
          i <= j /\ visits'[j].at = "dependencies" =>
             visits'[j].item.project \in RequiredBy(visits'[i].item.project)
    BY <1>1, <1>2, <1>3 DEF CallsAreRequired
  <2> QED
    BY <1>1, <1>8, <2>2, <2>3 DEF CallsAreRequired
<1>17. OrderedSoFar'
  <2> SUFFICES ASSUME NEW i \in DOMAIN resolved', NEW q \in needs[resolved'[i].project] \cap compatible
               PROVE  \/ \E j \in 1 .. i - 1 : resolved'[j].project = q
                      \/ resolved'[i].project \in RequiredBy(q)
    BY <1>1, <1>8 DEF OrderedSoFar
  <2>1. CASE i \in 1 .. m
    <3>1. resolved'[i] = resolved[i] /\ \A j \in 1 .. i - 1 : resolved'[j] = resolved[j]
      BY <1>5, <1>6, <2>1
    <3> QED
      BY <1>1, <1>5, <2>1, <3>1 DEF OrderedSoFar
  <2>2. CASE i = m + 1
    <3>1. resolved'[i] = item
      BY <1>6, <2>2
    <3>2. Id(q) \in visited
      BY <1>1, <1>2, <1>3, <3>1 DEF Followed, item
    <3>3. ASSUME NEW j \in DOMAIN resolved, resolved[j] = AsDependency(q)
          PROVE  j \in 1 .. i - 1 /\ resolved'[j].project = q
      BY <1>5, <1>6, <2>2, <3>3 DEF AsDependency
    <3>4. ASSUME NEW j \in DOMAIN visits, visits[j].item = AsDependency(q)
          PROVE  item.project \in RequiredBy(q)
      <4>1. j <= n /\ n \in DOMAIN visits /\ visits[j].item.project = q
        BY <1>2, <1>3, <3>4 DEF AsDependency
      <4> QED
        BY <1>1, <4>1 DEF CallsAreRequired, item
    <3> QED
      BY <1>1, <3>1, <3>2, <3>3, <3>4 DEF MarkedIsThere
  <2> QED
    BY <1>5, <1>7, <2>1, <2>2
<1> QED
  BY <1>1, <1>10, <1>11, <1>12, <1>13, <1>14, <1>15, <1>16, <1>17

LEMMA ResolveSteps == ResolveInv /\ [ResolveNext]_resolveVars => ResolveInv'
<1> SUFFICES ASSUME ResolveInv, [ResolveNext]_resolveVars PROVE ResolveInv'
  OBVIOUS
<1>1. CASE BeginResolve
  BY <1>1, BeginKeeps
<1>2. CASE ResolveReturns \/ (visits # <<>> /\ ResolveFails)
  BY <1>2, RestKeeps DEF ResolveReturns, ResolveFails
<1>3. CASE visits # <<>> /\ ProjectArrives
  <2>1. /\ resolution = "busy" /\ visits # <<>> /\ Innermost.at = "project"
        /\ UNCHANGED <<selected, needs, compatible, visited, resolved>>
    BY <1>3 DEF ProjectArrives
  <2>2. CASE resolution' = "failed" /\ UNCHANGED visits
    BY <2>1, <2>2, RestKeeps
  <2>3. CASE /\ Innermost.item.as = "dependency" /\ Innermost.item.project \notin compatible
             /\ Returned /\ UNCHANGED resolution
    BY <2>1, <2>3, LeftOutKeeps
  <2>4. CASE /\ Innermost.item.project \in compatible
             /\ visits' = Requires(needs[Innermost.item.project]) /\ UNCHANGED resolution
    BY <2>1, <2>4, VersionKeeps
  <2> QED
    BY <1>3, <2>2, <2>3, <2>4 DEF ProjectArrives
<1>4. CASE visits # <<>> /\ NextDependency
  <2>1. /\ resolution = "busy" /\ visits # <<>> /\ Innermost.at = "dependencies"
        /\ UNCHANGED <<selected, needs, compatible, resolved>>
    BY <1>4 DEF NextDependency
  <2>2. PICK d \in Innermost.todo :
           \/ /\ Id(d) \in visited /\ visits' = Requires(Innermost.todo \ {d})
              /\ UNCHANGED <<visited, resolution>>
           \/ /\ Id(d) \notin visited
              /\ IF Cardinality(visited) >= MaxVisits
                 THEN resolution' = "failed" /\ UNCHANGED <<visited, visits>>
                 ELSE /\ Mark(Id(d))
                      /\ visits' = Append(Requires(Innermost.todo \ {d}),
                                          [item |-> AsDependency(d), at |-> "project", todo |-> {}])
                      /\ UNCHANGED resolution
    BY <1>4 DEF NextDependency
  <2>3. CASE Id(d) \in visited
    BY <2>1, <2>2, <2>3, PassedOverKeeps
  <2>4. CASE Id(d) \notin visited /\ Cardinality(visited) >= MaxVisits
    BY <2>1, <2>2, <2>4, RestKeeps
  <2>5. CASE Id(d) \notin visited /\ ~(Cardinality(visited) >= MaxVisits)
    BY <2>1, <2>2, <2>5, FollowKeeps
  <2> QED
    BY <2>3, <2>4, <2>5
<1>5. CASE visits # <<>> /\ ProjectResolved
  BY <1>5, ResolvedKeeps
<1>6. CASE UNCHANGED resolveVars
  <2>1. CASE resolution = "none"
    BY <1>6, <2>1 DEF resolveVars, ResolveInv
  <2>2. CASE resolution # "none"
    BY <1>6, <2>2, RestKeeps DEF resolveVars, ResolveInv
  <2> QED
    BY <2>1, <2>2
<1> QED
  BY <1>1, <1>2, <1>3, <1>4, <1>5, <1>6 DEF ResolveNext

\* What is resolved for a mod is all that it requires, directly or not, and no more, in an order
\* in which it can be installed (modrinth.service.ts, resolveInstall), whatever the dependencies.
THEOREM ResolvedAsRequired == ResolveSpec => []ResolvedIsClosed
<1>1. ASSUME ResolveInv, resolution = "done" PROVE ResolvesWhatIsRequired
  <2> DEFINE set == {item.project : item \in ItemsOf(resolved)}
  <2>1. /\ visits = <<>> /\ ResolveTypeOK /\ RootIsLast /\ MarkedIsThere /\ Followed /\ CallsAreRequired
        /\ CallsFollow
    BY <1>1 DEF ResolveInv
  <2>2. resolved \in Seq(Items) /\ Len(resolved) \in DOMAIN resolved
    BY <2>1 DEF ResolveTypeOK, RootIsLast
  <2>3. selected \in set
    BY <2>1, <2>2 DEF RootIsLast, AsRoot, ItemsOf
  <2>4. set \in SUBSET Projects
    <3> SUFFICES ASSUME NEW i \in DOMAIN resolved PROVE resolved[i].project \in Projects
      BY DEF ItemsOf
    <3>1. resolved[i] \in Items
      BY <2>2
    <3> QED
      BY <3>1 DEF Items
  <2>5. Needless(set)
    <3> SUFFICES ASSUME NEW i \in DOMAIN resolved, NEW q \in needs[resolved[i].project] \cap compatible
                 PROVE  q \in set
      BY DEF Needless, ItemsOf
    <3>1. Id(q) \in visited
      BY <2>1 DEF Followed
    <3>2. PICK k \in DOMAIN resolved : resolved[k] = AsDependency(q)
      BY <2>1, <3>1 DEF MarkedIsThere
    <3> QED
      BY <3>2 DEF AsDependency, ItemsOf
  <2>6. set \subseteq RequiredBy(selected)
    BY <2>1 DEF CallsAreRequired, ItemsOf
  <2>7. RequiredBy(selected) \subseteq set
    BY <2>3, <2>4, <2>5, ClosedHasAll
  <2> QED
    BY <2>1, <2>6, <2>7 DEF ResolvesWhatIsRequired, ResolveTypeOK
<1>2. ASSUME ResolveInv, resolution = "done" PROVE ResolvesInOrder
  BY <1>2 DEF ResolveInv, ResolvesInOrder, RootIsLast, MarkedOnce, OrderedSoFar
<1>3. ResolveInv => ResolvedIsClosed
  BY <1>1, <1>2 DEF ResolvedIsClosed, ResolvesWhatIsRequired, ResolvesInOrder
<1> QED
  BY <1>3, ResolveStarts, ResolveSteps, PTL DEF ResolveSpec

-----------------------------------------------------------------------------
(* The console of a server (ServerConsole) *)

Events == Seq(Nat)
WireFrames == [type : {"history", "event"}, events : Events]
Links == [state : {"closed", "asked", "opening", "open", "broken"}, subscribed : BOOLEAN, wire : Seq(WireFrames)]

ConsoleTypeOK ==
    /\ reports \in Nat /\ active \in BOOLEAN /\ gen \in 0 .. MaxLinks
    /\ links \in [1 .. MaxLinks -> Links]
    /\ frame \in BOOLEAN /\ beat \in 0 .. MaxLinks /\ timer \in BOOLEAN
    /\ streamState \in {"closed", "connecting", "live", "reconnecting"}

\* A connection has its turn; one that is not subscribed has nothing on its way, and the page
\* that is hidden has no connection.
LinksFollow ==
    /\ \A g \in 1 .. MaxLinks : g > gen => links[g] = NoLink
    /\ \A g \in 1 .. MaxLinks :
          IF links[g].subscribed THEN links[g].state \in {"opening", "open"}
          ELSE links[g].state # "opening" /\ links[g].wire = <<>>
    /\ active => gen # 0
    /\ ~active /\ gen # 0 => links[gen] = NoLink
    /\ timer => active

\* Nothing is shown before the panel answers, and afterwards all that was seen.
ShownFollows ==
    active => /\ links[gen].state = "asked" => drawn = <<>> /\ undrawn = <<>>
              /\ links[gen].subscribed =>
                    /\ drawn \in Events /\ undrawn \in Events
                    /\ HistoryAwaited(links[gen].wire) \/ seen = EventsOf(drawn \o undrawn)

ConsoleInv == ConsoleTypeOK /\ LinksFollow /\ ShownFollows /\ NothingIsMissed /\ ConsoleGoesOn

\* The last events of an end of the journal are one.
LEMMA LastOnesAreAnEnd ==
  ASSUME NEW last \in Nat, NEW seq \in Events, IsEndOfJournal(seq, last)
  PROVE  LastOnes(seq) \in Events /\ IsEndOfJournal(LastOnes(seq), last)
<1> DEFINE n == Len(seq)
           m == IF n > MaxShown THEN n - MaxShown + 1 ELSE 1
           end == LastOnes(seq)
<1>1. n \in Nat /\ DOMAIN seq = 1 .. n /\ MaxShown \in Nat /\ MaxShown # 0
  BY ConsoleAssumption DEF Events
<1>2. n <= last /\ (n >= MaxShown \/ n = last) /\ \A i \in 1 .. n : seq[i] = last - n + i
  BY <1>1 DEF IsEndOfJournal
<1>3. end = SubSeq(seq, m, n)
  BY DEF LastOnes
<1> HIDE DEF n
<1>4. m \in Nat \ {0} /\ m <= n + 1
  BY <1>1
<1>5. \A i \in m .. n : i \in 1 .. n /\ seq[i] \in Nat
  BY <1>1, <1>4 DEF Events
<1> HIDE DEF m, end
<1>6. /\ end \in Seq(Nat) /\ Len(end) = (IF m <= n THEN n - m + 1 ELSE 0)
      /\ \A i \in 1 .. n - m + 1 : end[i] = seq[m + i - 1]
  <2>1. m \in Int /\ n \in Int /\ \A i \in m .. n : seq[i] \in Nat
    BY <1>1, <1>4, <1>5
  <2> QED
    BY ONLY <1>3, <2>1, SubSeqProperties
<1>7. Len(end) = n - m + 1
  BY <1>1, <1>4, <1>6
<1>8. ASSUME NEW i \in DOMAIN end PROVE end[i] = last - Len(end) + i
  <2>1. i \in 1 .. n - m + 1
    BY <1>6, <1>7
  <2>2. m + i - 1 \in 1 .. n
    BY <1>1, <1>4, <2>1
  <2> QED
    BY <1>1, <1>2, <1>4, <1>6, <1>7, <2>1, <2>2
<1>9. Len(end) <= last /\ (Len(end) >= MaxShown \/ Len(end) = last)
  BY <1>1, <1>2, <1>7 DEF m
<1> QED
  BY <1>6, <1>8, <1>9 DEF IsEndOfJournal, end, Events

\* The whole journal is an end of it, and so are its last events, which is the history.
LEMMA HistoryIsAnEnd ==
  ASSUME reports \in Nat
  PROVE  LastOnes(Journal) \in Events /\ IsEndOfJournal(LastOnes(Journal), reports)
<1>1. Journal \in Events /\ Len(Journal) = reports /\ \A i \in 1 .. reports : Journal[i] = i
  BY DEF Journal, Events
<1>2. IsEndOfJournal(Journal, reports)
  BY <1>1 DEF IsEndOfJournal, Events
<1> QED
  BY <1>1, <1>2, LastOnesAreAnEnd

\* An end of the journal goes on with the next event, which is not in it.
LEMMA NextOneFollows ==
  ASSUME NEW last \in Nat, NEW seq \in Events, IsEndOfJournal(seq, last)
  PROVE  /\ last + 1 \notin EventsOf(seq)
         /\ Append(seq, last + 1) \in Events /\ IsEndOfJournal(Append(seq, last + 1), last + 1)
         /\ EventsOf(Append(seq, last + 1)) = EventsOf(seq) \cup {last + 1}
<1> DEFINE n == Len(seq)
           longer == Append(seq, last + 1)
<1>1. n \in Nat /\ DOMAIN seq = 1 .. n /\ MaxShown \in Nat
  BY ConsoleAssumption DEF Events
<1>2. n <= last /\ (n >= MaxShown \/ n = last) /\ \A i \in 1 .. n : seq[i] = last - n + i
  BY <1>1 DEF IsEndOfJournal
<1>3. seq \in Seq(Nat) /\ last + 1 \in Nat
  BY DEF Events
<1>4. /\ longer \in Seq(Nat) /\ Len(longer) = n + 1 /\ longer[n + 1] = last + 1
      /\ \A i \in 1 .. n : longer[i] = seq[i]
  BY ONLY <1>3, AppendProperties
<1>5. DOMAIN longer = 1 .. n + 1
  BY <1>4
<1> HIDE DEF n, longer
<1>6. ASSUME NEW i \in DOMAIN longer PROVE longer[i] = last + 1 - (n + 1) + i
  BY <1>1, <1>2, <1>4, <1>5
<1>7. IsEndOfJournal(longer, last + 1)
  BY <1>1, <1>2, <1>4, <1>6 DEF IsEndOfJournal
<1>8. last + 1 \notin EventsOf(seq)
  <2>1. \A i \in 1 .. n : seq[i] # last + 1
    BY <1>1, <1>2
  <2> QED
    BY <1>1, <2>1 DEF EventsOf
<1>9. EventsOf(longer) = EventsOf(seq) \cup {last + 1}
  <2>1. \A i \in 1 .. n + 1 : i \in 1 .. n \/ i = n + 1
    BY <1>1
  <2>2. n + 1 \in 1 .. n + 1 /\ \A i \in 1 .. n : i \in 1 .. n + 1
    BY <1>1
  <2> QED
    BY ONLY <1>1, <1>4, <1>5, <2>1, <2>2 DEF EventsOf
<1> QED
  BY <1>4, <1>7, <1>8, <1>9 DEF longer, Events

\* Events that are an end of the journal are in order already.
LEMMA AnEndIsSorted ==
  ASSUME NEW last \in Nat, NEW seq \in Events, IsEndOfJournal(seq, last)
  PROVE  Sorted(seq) = seq
<1> DEFINE n == Len(seq)
           first == last - n
           Below(e) == {f \in EventsOf(seq) : f < e}
<1>1. n \in Nat /\ DOMAIN seq = 1 .. n
  BY DEF Events
<1>0. n <= last /\ \A i \in 1 .. n : seq[i] = last - n + i
  BY <1>1 DEF IsEndOfJournal
<1>2. first \in Nat /\ \A i \in 1 .. n : seq[i] = first + i
  BY <1>0, <1>1
<1> HIDE DEF n, first
<1>3. EventsOf(seq) = first + 1 .. first + n
  <2>1. \A e \in first + 1 .. first + n : e - first \in 1 .. n /\ seq[e - first] = e
    BY <1>1, <1>2
  <2>2. \A i \in 1 .. n : seq[i] \in first + 1 .. first + n
    BY <1>1, <1>2
  <2> QED
    BY ONLY <1>1, <2>1, <2>2 DEF EventsOf
<1>4. ASSUME NEW i \in 1 .. n PROVE Cardinality(Below(first + i)) = i - 1
  <2>1. Below(first + i) = first + 1 .. first + i - 1
    BY <1>1, <1>2, <1>3
  <2>2. first + 1 \in Int /\ first + i - 1 \in Int
    BY <1>1, <1>2
  <2>3. Cardinality(first + 1 .. first + i - 1) =
           IF first + 1 > first + i - 1 THEN 0 ELSE (first + i - 1) - (first + 1) + 1
    BY ONLY <2>2, FS_Interval
  <2>4. Cardinality(first + 1 .. first + i - 1) = i - 1
    BY ONLY <1>1, <1>2, <2>3
  <2> HIDE DEF Below
  <2> QED
    BY ONLY <2>1, <2>4
<1>5. ASSUME NEW i \in 1 .. n
      PROVE  (CHOOSE e \in EventsOf(seq) : Cardinality(Below(e)) = i - 1) = seq[i]
  <2>1. seq[i] \in EventsOf(seq) /\ seq[i] = first + i
    BY <1>1, <1>2 DEF EventsOf
  <2>2. Cardinality(Below(seq[i])) = i - 1
    BY <1>4, <2>1
  <2>3. ASSUME NEW e \in EventsOf(seq), Cardinality(Below(e)) = i - 1 PROVE e = seq[i]
    <3>1. e - first \in 1 .. n /\ e = first + (e - first)
      BY <1>1, <1>2, <1>3
    <3>2. Cardinality(Below(e)) = e - first - 1
      BY <1>4, <3>1
    <3> QED
      BY <1>1, <1>2, <2>1, <2>3, <3>1, <3>2
  <2> HIDE DEF Below
  <2> QED
    BY ONLY <2>1, <2>2, <2>3
<1>6. \A i \in DOMAIN seq : Sorted(seq)[i] = seq[i]
  BY <1>1, <1>5 DEF Sorted
<1>7. Sorted(seq) = [i \in DOMAIN seq |-> seq[i]]
  BY <1>1, <1>5 DEF Sorted
<1> QED
  BY <1>7 DEF Events

LEMMA ConsoleStarts == ConsoleInit => ConsoleInv
<1> SUFFICES ASSUME ConsoleInit PROVE ConsoleInv
  OBVIOUS
<1> USE DEF ConsoleInit
<1>1. NoLink \in Links
  <2>1. <<>> \in Seq(WireFrames)
    BY EmptySeq
  <2> QED
    BY <2>1 DEF NoLink, Links
<1>2. ConsoleTypeOK
  <2>1. 0 \in 0 .. MaxLinks
    BY ConsoleAssumption
  <2>2. links \in [1 .. MaxLinks -> Links]
    BY <1>1
  <2> QED
    BY <2>1, <2>2 DEF ConsoleTypeOK
<1>3. LinksFollow
  BY DEF LinksFollow, NoLink
<1>4. ShownFollows /\ NothingIsMissed /\ ConsoleGoesOn
  BY DEF ShownFollows, NothingIsMissed, ConsoleGoesOn
<1> QED
  BY <1>2, <1>3, <1>4 DEF ConsoleInv

\* What is shown stays the end of the journal as long as it and its connection do not change.
LEMMA SameConnectionKeeps ==
  ASSUME ConsoleInv, UNCHANGED <<reports, active, gen, drawn, undrawn, seen>>,
         links' \in [1 .. MaxLinks -> Links], gen # 0 => links'[gen] = links[gen]
  PROVE  ShownFollows' /\ NothingIsMissed'
<1>1. links \in [1 .. MaxLinks -> Links] /\ (active => gen # 0)
  BY DEF ConsoleInv, ConsoleTypeOK, LinksFollow
<1>2. active => links'[gen] = links[gen]
  BY <1>1
<1>3. ShownFollows'
  BY <1>2 DEF ConsoleInv, ShownFollows
<1>4. NothingIsMissed'
  BY <1>1, <1>2 DEF ConsoleInv, NothingIsMissed
<1> QED
  BY <1>3, <1>4

\* A connection that has nothing to show yet.
LEMMA NothingYetKeeps ==
  ASSUME ~links'[gen'].subscribed, links'[gen'].state = "asked" => drawn' = <<>> /\ undrawn' = <<>>
  PROVE  ShownFollows' /\ NothingIsMissed'
BY DEF ShownFollows, NothingIsMissed

LEMMA ReportKeeps == ASSUME ConsoleInv, Report PROVE ConsoleInv'
<1> DEFINE reported == [type |-> "event", events |-> <<reports'>>]
<1>1. /\ reports' = reports + 1 /\ reports \in Nat /\ links \in [1 .. MaxLinks -> Links] /\ gen \in 0 .. MaxLinks
      /\ UNCHANGED <<active, gen, drawn, undrawn, seen, frame, beat, timer, streamState>>
  BY DEF ConsoleInv, ConsoleTypeOK, Report
<1>2. \A g \in 1 .. MaxLinks :
         links'[g] = IF links[g].subscribed THEN [links[g] EXCEPT !.wire = Append(@, reported)] ELSE links[g]
  BY <1>1 DEF Report
<1>3. reported \in WireFrames /\ reported.type = "event" /\ reported.events = <<reports'>>
  BY <1>1 DEF WireFrames, Events
<1> HIDE DEF reported
<1>4. \A g \in 1 .. MaxLinks : /\ links'[g] \in Links /\ links'[g].subscribed = links[g].subscribed
                               /\ links'[g].state = links[g].state
                               /\ ~links[g].subscribed => links'[g] = links[g]
  <2> SUFFICES ASSUME NEW g \in 1 .. MaxLinks
               PROVE  /\ links'[g] \in Links /\ links'[g].subscribed = links[g].subscribed
                      /\ links'[g].state = links[g].state /\ (~links[g].subscribed => links'[g] = links[g])
    OBVIOUS
  <2>1. links[g] \in Links /\ links[g].wire \in Seq(WireFrames)
    BY <1>1 DEF Links
  <2>2. Append(links[g].wire, reported) \in Seq(WireFrames)
    BY <1>3, <2>1, AppendProperties
  <2> QED
    BY <1>2, <2>1, <2>2 DEF Links
<1>5. ConsoleTypeOK'
  <2>1. links' \in [1 .. MaxLinks -> Links]
    BY <1>1, <1>4 DEF Report
  <2> QED
    BY <1>1, <2>1 DEF ConsoleInv, ConsoleTypeOK
<1>6. LinksFollow'
  <2>1. ASSUME NEW h \in 1 .. MaxLinks, h > gen' PROVE links'[h] = NoLink
    <3>1. links[h] = NoLink /\ ~NoLink.subscribed
      BY <1>1, <2>1 DEF ConsoleInv, LinksFollow, NoLink
    <3> QED
      BY <1>4, <3>1
  <2>2. \A h \in 1 .. MaxLinks :
           IF links'[h].subscribed THEN links'[h].state \in {"opening", "open"}
           ELSE links'[h].state # "opening" /\ links'[h].wire = <<>>
    BY <1>4 DEF ConsoleInv, LinksFollow
  <2>3. ~active /\ gen # 0 => links'[gen] = NoLink
    BY <1>1, <1>4 DEF ConsoleInv, LinksFollow, NoLink
  <2> QED
    BY <1>1, <2>1, <2>2, <2>3 DEF ConsoleInv, LinksFollow
<1>7. ASSUME ~(active /\ gen \in 1 .. MaxLinks /\ links[gen].subscribed)
      PROVE  ShownFollows' /\ NothingIsMissed'
  <2>1. active => gen \in 1 .. MaxLinks /\ ~links[gen].subscribed /\ links'[gen] = links[gen]
    BY <1>1, <1>4, <1>7 DEF ConsoleInv, LinksFollow
  <2>2. ShownFollows'
    BY <1>1, <2>1 DEF ConsoleInv, ShownFollows
  <2>3. NothingIsMissed'
    BY <1>1, <2>1 DEF NothingIsMissed
  <2> QED
    BY <2>2, <2>3
<1>8. ASSUME active /\ gen \in 1 .. MaxLinks /\ links[gen].subscribed
      PROVE  ShownFollows' /\ NothingIsMissed'
  <2> DEFINE wire == links[gen].wire
             n == Len(wire)
             longer == links'[gen].wire
  <2>1. wire \in Seq(WireFrames) /\ n \in Nat /\ DOMAIN wire = 1 .. n /\ gen' = gen
    BY <1>1, <1>8 DEF Links
  <2>2. longer = Append(wire, reported)
    BY <1>1, <1>2, <1>8 DEF Links
  <2>3. /\ \A i \in 1 .. n : IF wire[i].type = "history" THEN i = 1 /\ IsEndOfJournal(wire[i].events, reports - n + 1)
                             ELSE wire[i].events = <<reports - n + i>>
        /\ IF HistoryAwaited(wire) THEN drawn = <<>> /\ undrawn = <<>>
           ELSE IsEndOfJournal(drawn \o undrawn, reports - n)
    BY <1>1, <1>8, <2>1 DEF ConsoleInv, NothingIsMissed
  <2> HIDE DEF n, wire, longer
  <2>4. longer \in Seq(WireFrames) /\ Len(longer) = n + 1 /\ longer[n + 1] = reported /\ \A i \in 1 .. n : longer[i] = wire[i]
    BY <1>3, <2>1, <2>2, AppendProperties DEF n
  <2>5. HistoryAwaited(longer) <=> HistoryAwaited(wire)
    <3>1. CASE n = 0
      <4>1. wire = <<>>
        BY <2>1, <3>1, EmptySeq DEF n
      <4> QED
        BY <1>3, <2>4, <3>1, <4>1 DEF HistoryAwaited
    <3>2. CASE n # 0
      <4>1. 1 \in 1 .. n /\ longer[1] = wire[1] /\ wire # <<>> /\ longer # <<>>
        BY <2>1, <2>4, <3>2 DEF n
      <4> QED
        BY <4>1 DEF HistoryAwaited
    <3> QED
      BY <3>1, <3>2
  <2>6. reports' - Len(longer) = reports - n /\ reports' - Len(longer) + 1 = reports - n + 1
    BY <1>1, <2>1, <2>4
  <2>7. ASSUME NEW i \in DOMAIN longer
        PROVE  IF longer[i].type = "history"
               THEN i = 1 /\ IsEndOfJournal(longer[i].events, reports' - Len(longer) + 1)
               ELSE longer[i].events = <<reports' - Len(longer) + i>>
    <3>1. CASE i \in 1 .. n
      <4>1. longer[i] = wire[i]
        BY <2>4, <3>1
      <4> QED
        BY <2>3, <2>6, <3>1, <4>1
    <3>2. CASE i = n + 1
      <4>1. reports' = reports' - Len(longer) + i
        BY <1>1, <2>1, <2>4, <3>2
      <4> QED
        BY <1>3, <2>4, <3>2, <4>1
    <3>3. i \in 1 .. n + 1
      BY <2>4
    <3> QED
      BY <2>1, <3>1, <3>2, <3>3
  <2>8. IF HistoryAwaited(longer) THEN drawn' = <<>> /\ undrawn' = <<>>
        ELSE IsEndOfJournal(drawn' \o undrawn', reports' - Len(longer))
    BY <1>1, <2>3, <2>5, <2>6
  <2>9. NothingIsMissed'
    BY <2>1, <2>7, <2>8 DEF NothingIsMissed, longer
  <2>10. ShownFollows'
    BY <1>1, <1>4, <1>8, <2>1, <2>5 DEF ConsoleInv, ShownFollows, longer, wire
  <2> QED
    BY <2>9, <2>10
<1>9. ConsoleGoesOn'
  <2>1. gen # 0 => links'[gen].state = links[gen].state
    BY <1>1, <1>4
  <2> QED
    BY <1>1, <2>1 DEF ConsoleInv, ConsoleGoesOn, LinksFollow
<1> QED
  BY <1>5, <1>6, <1>7, <1>8, <1>9 DEF ConsoleInv

LEMMA OpenKeeps == ASSUME ConsoleInv, NEW g \in 1 .. MaxLinks, OpenConsole(g) PROVE ConsoleInv'
<1> DEFINE history == [type |-> "history", events |-> LastOnes(Journal)]
           opening == [state |-> "opening", subscribed |-> TRUE, wire |-> <<history>>]
<1>1. /\ reports \in Nat /\ links \in [1 .. MaxLinks -> Links] /\ gen \in 0 .. MaxLinks
      /\ UNCHANGED <<reports, active, gen, drawn, undrawn, seen, frame, beat, timer, streamState>>
      /\ links[g].state = "asked" /\ links' = [links EXCEPT ![g] = opening]
  BY DEF ConsoleInv, ConsoleTypeOK, OpenConsole
<1>2. LastOnes(Journal) \in Events /\ IsEndOfJournal(LastOnes(Journal), reports)
  BY <1>1, HistoryIsAnEnd
<1>3. history \in WireFrames /\ history.type = "history" /\ history.events = LastOnes(Journal)
  BY <1>2 DEF WireFrames
<1> HIDE DEF history
<1>4. opening \in Links /\ opening.state = "opening" /\ opening.subscribed /\ opening.wire = <<history>>
  BY <1>3 DEF Links
<1> HIDE DEF opening
<1>5. /\ links' \in [1 .. MaxLinks -> Links] /\ links'[g] = opening
      /\ \A h \in 1 .. MaxLinks : h # g => links'[h] = links[h]
  BY <1>1, <1>4
<1>6. ~(g > gen)
  BY <1>1 DEF ConsoleInv, LinksFollow, NoLink
<1>7. LinksFollow'
  <2>1. \A h \in 1 .. MaxLinks : h > gen' => links'[h] = NoLink
    BY <1>1, <1>5, <1>6 DEF ConsoleInv, LinksFollow
  <2>2. \A h \in 1 .. MaxLinks :
           IF links'[h].subscribed THEN links'[h].state \in {"opening", "open"}
           ELSE links'[h].state # "opening" /\ links'[h].wire = <<>>
    BY <1>4, <1>5 DEF ConsoleInv, LinksFollow
  <2>3. ~active /\ gen # 0 => links'[gen] = NoLink
    BY <1>1, <1>5 DEF ConsoleInv, LinksFollow, NoLink
  <2> QED
    BY <1>1, <2>1, <2>2, <2>3 DEF ConsoleInv, LinksFollow
<1>8. ConsoleTypeOK'
  BY <1>1, <1>5 DEF ConsoleInv, ConsoleTypeOK
<1>9. ConsoleGoesOn'
  BY <1>1, <1>4, <1>5 DEF ConsoleInv, ConsoleGoesOn, LinksFollow
<1>10. ShownFollows' /\ NothingIsMissed'
  <2>1. CASE g # gen
    <3>1. gen # 0 => links'[gen] = links[gen]
      BY <1>1, <1>5, <2>1
    <3> QED
      BY <1>1, <1>5, <3>1, SameConnectionKeeps
  <2>2. CASE g = gen
    <3>1. links'[gen'].wire = <<history>> /\ links'[gen'].state = "opening" /\ HistoryAwaited(<<history>>)
      BY <1>1, <1>3, <1>4, <1>5, <2>2 DEF HistoryAwaited
    <3>2. active => drawn = <<>> /\ undrawn = <<>>
      BY <1>1, <2>2 DEF ConsoleInv, ShownFollows
    <3>3. ShownFollows'
      <4>1. <<>> \in Events
        BY EmptySeq DEF Events
      <4> QED
        BY <1>1, <3>1, <3>2, <4>1 DEF ShownFollows
    <3>4. Len(<<history>>) = 1 /\ DOMAIN <<history>> = {1} /\ <<history>>[1] = history
      OBVIOUS
    <3>5. reports' - 1 + 1 = reports
      BY <1>1
    <3>6. NothingIsMissed'
      BY <1>1, <1>2, <1>3, <3>1, <3>2, <3>4, <3>5 DEF NothingIsMissed
    <3> QED
      BY <3>3, <3>6
  <2> QED
    BY <2>1, <2>2
<1> QED
  BY <1>7, <1>8, <1>9, <1>10 DEF ConsoleInv

LEMMA BreakKeeps == ASSUME ConsoleInv, NEW g \in 1 .. MaxLinks, LinkBreaks(g) PROVE ConsoleInv'
<1> DEFINE broken == [state |-> "broken", subscribed |-> FALSE, wire |-> <<>>]
<1>1. /\ links \in [1 .. MaxLinks -> Links] /\ gen \in 0 .. MaxLinks
      /\ UNCHANGED <<reports, active, gen, drawn, undrawn, seen, frame, beat, timer, streamState>>
      /\ links[g].state \in {"asked", "opening", "open"} /\ links' = [links EXCEPT ![g] = broken]
  BY DEF ConsoleInv, ConsoleTypeOK, LinkBreaks
<1>2. broken \in Links /\ broken.state = "broken" /\ ~broken.subscribed /\ broken.wire = <<>>
  <2>1. <<>> \in Seq(WireFrames)
    BY EmptySeq
  <2> QED
    BY <2>1 DEF Links
<1> HIDE DEF broken
<1>3. /\ links' \in [1 .. MaxLinks -> Links] /\ links'[g] = broken
      /\ \A h \in 1 .. MaxLinks : h # g => links'[h] = links[h]
  BY <1>1, <1>2
<1>4. ~(g > gen) /\ (g = gen => active)
  BY <1>1 DEF ConsoleInv, LinksFollow, NoLink
<1>5. LinksFollow'
  <2>1. \A h \in 1 .. MaxLinks : h > gen' => links'[h] = NoLink
    BY <1>1, <1>3, <1>4 DEF ConsoleInv, LinksFollow
  <2>2. \A h \in 1 .. MaxLinks :
           IF links'[h].subscribed THEN links'[h].state \in {"opening", "open"}
           ELSE links'[h].state # "opening" /\ links'[h].wire = <<>>
    BY <1>2, <1>3 DEF ConsoleInv, LinksFollow
  <2>3. ~active /\ gen # 0 => links'[gen] = NoLink
    BY <1>1, <1>3, <1>4 DEF ConsoleInv, LinksFollow
  <2> QED
    BY <1>1, <2>1, <2>2, <2>3 DEF ConsoleInv, LinksFollow
<1>6. ConsoleTypeOK'
  BY <1>1, <1>3 DEF ConsoleInv, ConsoleTypeOK
<1>7. ConsoleGoesOn'
  BY <1>1, <1>2, <1>3 DEF ConsoleInv, ConsoleGoesOn, LinksFollow
<1>8. ShownFollows' /\ NothingIsMissed'
  <2>1. CASE g # gen
    <3>1. gen # 0 => links'[gen] = links[gen]
      BY <1>1, <1>3, <2>1
    <3> QED
      BY <1>1, <1>3, <3>1, SameConnectionKeeps
  <2>2. CASE g = gen
    BY <1>1, <1>2, <1>3, <2>2, NothingYetKeeps
  <2> QED
    BY <2>1, <2>2
<1> QED
  BY <1>5, <1>6, <1>7, <1>8 DEF ConsoleInv

LEMMA ConnectKeeps ==
  ASSUME ConsoleInv, Connects, active' = TRUE
  PROVE  ConsoleInv'
<1> DEFINE begun == [NoLink EXCEPT !.state = "asked"]
<1>1. /\ links \in [1 .. MaxLinks -> Links] /\ gen \in 0 .. MaxLinks /\ gen < MaxLinks /\ gen' = gen + 1
      /\ reports \in Nat /\ frame \in BOOLEAN
      /\ UNCHANGED <<reports, frame>> /\ links' = [links EXCEPT ![gen'] = begun]
      /\ drawn' = <<>> /\ undrawn' = <<>> /\ beat' = 0 /\ timer' = FALSE /\ streamState' = "connecting"
  BY DEF ConsoleInv, ConsoleTypeOK, Connects
<1>2. MaxLinks \in Nat /\ gen' \in 1 .. MaxLinks /\ gen' # 0
  BY <1>1, ConsoleAssumption
<1>3. begun \in Links /\ begun.state = "asked" /\ ~begun.subscribed /\ begun.wire = <<>>
  <2>1. <<>> \in Seq(WireFrames)
    BY EmptySeq
  <2> QED
    BY <2>1 DEF Links, NoLink
<1> HIDE DEF begun
<1>4. /\ links' \in [1 .. MaxLinks -> Links] /\ links'[gen'] = begun
      /\ \A h \in 1 .. MaxLinks : h # gen' => links'[h] = links[h]
  BY <1>1, <1>2, <1>3
<1>5. ConsoleTypeOK'
  <2>1. gen' \in 0 .. MaxLinks /\ beat' \in 0 .. MaxLinks
    BY <1>1, <1>2
  <2> QED
    BY <1>1, <1>4, <2>1 DEF ConsoleTypeOK
<1>6. LinksFollow'
  <2>1. ASSUME NEW h \in 1 .. MaxLinks, h > gen' PROVE links'[h] = NoLink
    <3>1. h > gen /\ h # gen'
      BY <1>1, <1>2, <2>1
    <3> QED
      BY <1>4, <3>1 DEF ConsoleInv, LinksFollow
  <2>2. \A h \in 1 .. MaxLinks :
           IF links'[h].subscribed THEN links'[h].state \in {"opening", "open"}
           ELSE links'[h].state # "opening" /\ links'[h].wire = <<>>
    BY <1>3, <1>4 DEF ConsoleInv, LinksFollow
  <2> QED
    BY <1>1, <1>2, <2>1, <2>2 DEF LinksFollow
<1>7. ShownFollows' /\ NothingIsMissed'
  BY <1>1, <1>3, <1>4, NothingYetKeeps
<1>8. ConsoleGoesOn'
  BY <1>1, <1>3, <1>4 DEF ConsoleGoesOn
<1> QED
  BY <1>5, <1>6, <1>7, <1>8 DEF ConsoleInv

LEMMA HideKeeps == ASSUME ConsoleInv, HideConsole PROVE ConsoleInv'
<1>1. /\ links \in [1 .. MaxLinks -> Links] /\ gen \in 0 .. MaxLinks /\ gen < MaxLinks /\ gen' = gen + 1
      /\ reports \in Nat /\ active' = FALSE
      /\ UNCHANGED <<reports, links, drawn, seen>>
      /\ frame' = FALSE /\ undrawn' = <<>> /\ beat' = 0 /\ timer' = FALSE /\ streamState' = "closed"
  BY DEF ConsoleInv, ConsoleTypeOK, HideConsole
<1>2. MaxLinks \in Nat /\ gen' \in 1 .. MaxLinks /\ gen' # 0 /\ gen' > gen
  BY <1>1, ConsoleAssumption
<1>3. ConsoleTypeOK'
  <2>1. gen' \in 0 .. MaxLinks /\ beat' \in 0 .. MaxLinks
    BY <1>1, <1>2
  <2> QED
    BY <1>1, <2>1 DEF ConsoleTypeOK
<1>4. LinksFollow'
  <2>1. ASSUME NEW h \in 1 .. MaxLinks, h > gen' PROVE links'[h] = NoLink
    <3>1. h > gen
      BY <1>1, <2>1
    <3> QED
      BY <1>1, <3>1 DEF ConsoleInv, LinksFollow
  <2>2. links'[gen'] = NoLink
    BY <1>1, <1>2 DEF ConsoleInv, LinksFollow
  <2>3. \A h \in 1 .. MaxLinks :
           IF links'[h].subscribed THEN links'[h].state \in {"opening", "open"}
           ELSE links'[h].state # "opening" /\ links'[h].wire = <<>>
    BY <1>1 DEF ConsoleInv, LinksFollow
  <2> QED
    BY <1>1, <2>1, <2>2, <2>3 DEF LinksFollow
<1>5. ShownFollows' /\ NothingIsMissed' /\ ConsoleGoesOn'
  BY <1>1 DEF ShownFollows, NothingIsMissed, ConsoleGoesOn
<1> QED
  BY <1>3, <1>4, <1>5 DEF ConsoleInv

LEMMA SocketOpensKeeps == ASSUME ConsoleInv, NEW g \in 1 .. MaxLinks, SocketOpens(g) PROVE ConsoleInv'
<1> DEFINE opened == [links[g] EXCEPT !.state = "open"]
<1>1. /\ links \in [1 .. MaxLinks -> Links] /\ gen \in 0 .. MaxLinks
      /\ UNCHANGED <<reports, active, gen, drawn, undrawn, seen, frame, timer>>
      /\ links[g].state = "opening" /\ links' = [links EXCEPT ![g] = opened]
      /\ IF g = gen THEN streamState' = "live" /\ beat' = g ELSE UNCHANGED <<streamState, beat>>
  BY DEF ConsoleInv, ConsoleTypeOK, SocketOpens, IsCurrent
<1>2. /\ opened \in Links /\ opened.state = "open" /\ opened.subscribed = links[g].subscribed
      /\ opened.wire = links[g].wire /\ links[g].subscribed
  BY <1>1 DEF Links, ConsoleInv, LinksFollow
<1> HIDE DEF opened
<1>3. /\ links' \in [1 .. MaxLinks -> Links] /\ links'[g] = opened
      /\ \A h \in 1 .. MaxLinks : h # g => links'[h] = links[h]
  BY <1>1, <1>2
<1>4. ~(g > gen) /\ (g = gen => active)
  BY <1>1 DEF ConsoleInv, LinksFollow, NoLink
<1>5. LinksFollow'
  <2>1. \A h \in 1 .. MaxLinks : h > gen' => links'[h] = NoLink
    BY <1>1, <1>3, <1>4 DEF ConsoleInv, LinksFollow
  <2>2. \A h \in 1 .. MaxLinks :
           IF links'[h].subscribed THEN links'[h].state \in {"opening", "open"}
           ELSE links'[h].state # "opening" /\ links'[h].wire = <<>>
    BY <1>2, <1>3 DEF ConsoleInv, LinksFollow
  <2>3. ~active /\ gen # 0 => links'[gen] = NoLink
    BY <1>1, <1>3, <1>4 DEF ConsoleInv, LinksFollow
  <2> QED
    BY <1>1, <2>1, <2>2, <2>3 DEF ConsoleInv, LinksFollow
<1>6. ConsoleTypeOK'
  BY <1>1, <1>3 DEF ConsoleInv, ConsoleTypeOK
<1>7. ConsoleGoesOn'
  BY <1>1, <1>2, <1>3, <1>4 DEF ConsoleInv, ConsoleGoesOn, LinksFollow
<1>8. ShownFollows' /\ NothingIsMissed'
  <2>1. CASE g # gen
    <3>1. gen # 0 => links'[gen] = links[gen]
      BY <1>1, <1>3, <2>1
    <3> QED
      BY <1>1, <1>3, <3>1, SameConnectionKeeps
  <2>2. CASE g = gen
    <3>1. /\ links'[gen].wire = links[gen].wire /\ links'[gen].subscribed = links[gen].subscribed
          /\ links'[gen].state # "asked"
      BY <1>1, <1>2, <1>3, <2>2
    <3>2. ShownFollows'
      BY <1>1, <3>1 DEF ConsoleInv, ShownFollows
    <3>3. NothingIsMissed'
      BY <1>1, <1>3, <3>1 DEF ConsoleInv, NothingIsMissed
    <3> QED
      BY <3>2, <3>3
  <2> QED
    BY <2>1, <2>2
<1> QED
  BY <1>5, <1>6, <1>7, <1>8 DEF ConsoleInv

LEMMA SocketClosesKeeps == ASSUME ConsoleInv, NEW g \in 1 .. MaxLinks, SocketCloses(g) PROVE ConsoleInv'
<1>1. /\ links \in [1 .. MaxLinks -> Links] /\ gen \in 0 .. MaxLinks
      /\ UNCHANGED <<reports, active, gen, drawn, undrawn, seen, frame>>
      /\ links[g].state # "closed" /\ links' = [links EXCEPT ![g] = NoLink]
      /\ IF g = gen /\ active THEN beat' = 0 /\ streamState' = "reconnecting" /\ timer' = TRUE
         ELSE UNCHANGED <<beat, streamState, timer>>
  BY DEF ConsoleInv, ConsoleTypeOK, SocketCloses, IsCurrent
<1>2. NoLink \in Links /\ NoLink.state = "closed" /\ ~NoLink.subscribed /\ NoLink.wire = <<>>
  <2>1. <<>> \in Seq(WireFrames)
    BY EmptySeq
  <2> QED
    BY <2>1 DEF NoLink, Links
<1>3. /\ links' \in [1 .. MaxLinks -> Links] /\ links'[g] = NoLink
      /\ \A h \in 1 .. MaxLinks : h # g => links'[h] = links[h]
  BY <1>1, <1>2
<1>4. g = gen => active
  BY <1>1, <1>2 DEF ConsoleInv, LinksFollow
<1>5. LinksFollow'
  <2>1. \A h \in 1 .. MaxLinks : h > gen' => links'[h] = NoLink
    BY <1>1, <1>3 DEF ConsoleInv, LinksFollow
  <2>2. \A h \in 1 .. MaxLinks :
           IF links'[h].subscribed THEN links'[h].state \in {"opening", "open"}
           ELSE links'[h].state # "opening" /\ links'[h].wire = <<>>
    BY <1>2, <1>3 DEF ConsoleInv, LinksFollow
  <2>3. ~active /\ gen # 0 => links'[gen] = NoLink
    BY <1>1, <1>3, <1>4 DEF ConsoleInv, LinksFollow
  <2> QED
    BY <1>1, <2>1, <2>2, <2>3 DEF ConsoleInv, LinksFollow
<1>6. ConsoleTypeOK'
  <2>1. 0 \in 0 .. MaxLinks
    BY ConsoleAssumption
  <2> QED
    BY <1>1, <1>3, <2>1 DEF ConsoleInv, ConsoleTypeOK
<1>7. ConsoleGoesOn'
  BY <1>1, <1>3, <1>4 DEF ConsoleInv, ConsoleGoesOn, LinksFollow
<1>8. ShownFollows' /\ NothingIsMissed'
  <2>1. CASE g # gen
    <3>1. gen # 0 => links'[gen] = links[gen]
      BY <1>1, <1>3, <2>1
    <3> QED
      BY <1>1, <1>3, <3>1, SameConnectionKeeps
  <2>2. CASE g = gen
    BY <1>1, <1>2, <1>3, <2>2, NothingYetKeeps
  <2> QED
    BY <2>1, <2>2
<1> QED
  BY <1>5, <1>6, <1>7, <1>8 DEF ConsoleInv

\* Drawing what is pending changes the division of what is shown only.
LEMMA FlushKeeps == ASSUME ConsoleInv, FlushPending PROVE ConsoleInv'
<1>1. /\ UNCHANGED <<reports, active, gen, links, beat, timer, streamState>>
      /\ frame' = FALSE /\ undrawn' = <<>>
      /\ IF undrawn = <<>> THEN UNCHANGED <<drawn, undrawn, seen>> ELSE drawn' = Merged /\ seen' = EventsOf(Merged)
  BY DEF FlushPending
<1>2. ConsoleTypeOK'
  BY <1>1 DEF ConsoleInv, ConsoleTypeOK
<1>3. LinksFollow'
  BY <1>1 DEF ConsoleInv, LinksFollow
<1>4. ConsoleGoesOn'
  BY <1>1 DEF ConsoleInv, ConsoleGoesOn
<1>5. CASE undrawn = <<>>
  <2>1. ShownFollows' /\ NothingIsMissed'
    BY <1>1, <1>5 DEF ConsoleInv, ShownFollows, NothingIsMissed
  <2> QED
    BY <1>2, <1>3, <1>4, <2>1 DEF ConsoleInv
<1>6. CASE undrawn # <<>> /\ ~(active /\ links[gen].subscribed)
  <2>1. ShownFollows'
    BY <1>1, <1>6 DEF ConsoleInv, ShownFollows
  <2>2. NothingIsMissed'
    BY <1>1, <1>6 DEF NothingIsMissed
  <2> QED
    BY <1>2, <1>3, <1>4, <2>1, <2>2 DEF ConsoleInv
<1>7. CASE undrawn # <<>> /\ active /\ links[gen].subscribed
  <2> DEFINE wire == links[gen].wire
             last == reports - Len(wire)
             all == drawn \o undrawn
  <2>1. gen \in DOMAIN links /\ wire \in Seq(WireFrames) /\ reports \in Nat /\ Len(wire) \in Nat
    BY <1>7 DEF ConsoleInv, ConsoleTypeOK, LinksFollow, Links
  <2>2. ~HistoryAwaited(wire) /\ IsEndOfJournal(all, last)
    BY <1>7, <2>1 DEF ConsoleInv, NothingIsMissed
  <2>3. drawn \in Events /\ undrawn \in Events
    BY <1>7 DEF ConsoleInv, ShownFollows
  <2>4. all \in Events
    BY ONLY <2>3, ConcatProperties DEF Events
  <2>5. last \in Nat
    <3>1. last \in Int
      BY <2>1
    <3> HIDE DEF last, all
    <3>2. Len(all) \in Nat /\ Len(all) <= last
      BY <2>2, <2>4 DEF IsEndOfJournal, Events
    <3> QED
      BY <3>1, <3>2
  <2>6. Merged = LastOnes(all)
    <3> HIDE DEF last, all
    <3>1. Sorted(all) = all
      BY <2>2, <2>4, <2>5, AnEndIsSorted
    <3> QED
      BY <3>1 DEF Merged, all
  <2>7. Merged \in Events /\ IsEndOfJournal(Merged, last)
    <3> HIDE DEF last, all
    <3> QED
      BY <2>2, <2>4, <2>5, <2>6, LastOnesAreAnEnd
  <2>8. drawn' = Merged /\ seen' = EventsOf(Merged) /\ drawn' \o undrawn' = Merged /\ undrawn' \in Events
    <3>1. Merged \o <<>> = Merged /\ <<>> \in Seq(Nat)
      BY <2>7, ConcatEmptySeq, EmptySeq DEF Events
    <3> QED
      BY <1>1, <1>7, <3>1 DEF Events
  <2>9. ShownFollows'
    <3>1. links[gen].state # "asked"
      BY <1>7, <2>1 DEF ConsoleInv, ConsoleTypeOK, LinksFollow
    <3> QED
      BY <1>1, <2>7, <2>8, <3>1 DEF ShownFollows
  <2>10. NothingIsMissed'
    <3>1. IsEndOfJournal(drawn' \o undrawn', reports - Len(wire))
      BY <2>7, <2>8
    <3> QED
      BY <1>1, <1>7, <2>1, <2>2, <3>1 DEF ConsoleInv, NothingIsMissed
  <2> QED
    BY <1>2, <1>3, <1>4, <2>9, <2>10 DEF ConsoleInv
<1> QED
  BY <1>5, <1>6, <1>7

\* What a frame of the console's own connection adds is the next of what the page has to show.
LEMMA OwnFrameKeeps ==
  ASSUME ConsoleInv, FrameArrives(gen), gen # 0,
         links' \in [1 .. MaxLinks -> Links], links'[gen].wire = Tail(links[gen].wire),
         links'[gen].subscribed = links[gen].subscribed, links'[gen].state = links[gen].state
  PROVE  ShownFollows' /\ NothingIsMissed'
<1> DEFINE wire == links[gen].wire
           n == Len(wire)
           rest == Tail(wire)
           message == Head(wire)
           last == reports - n
<1>1. /\ gen \in 1 .. MaxLinks /\ reports \in Nat /\ links[gen] \in Links /\ links[gen].state = "open" /\ wire # <<>>
      /\ UNCHANGED <<reports, active, gen>>
      /\ message.type = "history" => ApplyHistory(message.events)
      /\ message.type # "history" => EnqueueEvent(message.events[1])
  BY DEF ConsoleInv, ConsoleTypeOK, FrameArrives, IsCurrent
<1>2. active /\ links[gen].subscribed
  BY <1>1 DEF ConsoleInv, LinksFollow, NoLink
<1>3. wire \in Seq(WireFrames) /\ n \in Nat \ {0} /\ message = wire[1] /\ 1 \in 1 .. n /\ DOMAIN wire = 1 .. n
  BY <1>1 DEF Links
<1>4. message \in WireFrames /\ message.events \in Events
  <2>1. wire[1] \in WireFrames
    BY <1>3
  <2> QED
    BY <1>3, <2>1 DEF WireFrames
<1>5. /\ \A i \in 1 .. n : IF wire[i].type = "history" THEN i = 1 /\ IsEndOfJournal(wire[i].events, reports - n + 1)
                           ELSE wire[i].events = <<reports - n + i>>
      /\ IF HistoryAwaited(wire) THEN drawn = <<>> /\ undrawn = <<>>
         ELSE IsEndOfJournal(drawn \o undrawn, reports - n)
  BY <1>1, <1>2, <1>3 DEF ConsoleInv, NothingIsMissed, ConsoleTypeOK
<1>6. /\ drawn \in Events /\ undrawn \in Events
      /\ HistoryAwaited(wire) \/ seen = EventsOf(drawn \o undrawn)
  BY <1>2 DEF ConsoleInv, ShownFollows
<1>7. HistoryAwaited(wire) <=> message.type = "history"
  BY <1>1, <1>3 DEF HistoryAwaited
<1>8. last \in Int /\ last + 1 = reports - n + 1 /\ links'[gen].wire = rest
  BY <1>1, <1>3
<1> HIDE DEF wire, n, message, last
<1>9. rest \in Seq(WireFrames) /\ Len(rest) = n - 1 /\ \A i \in 1 .. n - 1 : rest[i] = wire[i + 1]
  BY <1>1, <1>3, HeadTailProperties DEF n
<1> HIDE DEF rest
<1>10. /\ drawn' \in Events /\ undrawn' \in Events /\ seen' = EventsOf(drawn' \o undrawn')
       /\ IsEndOfJournal(drawn' \o undrawn', last + 1)
  <2>1. CASE message.type = "history"
    <3>1. drawn' = LastOnes(message.events) /\ seen' = EventsOf(LastOnes(message.events)) /\ undrawn' = <<>>
      BY <1>1, <1>5, <1>7, <2>1 DEF ApplyHistory
    <3>2. IsEndOfJournal(message.events, last + 1)
      BY <1>3, <1>5, <1>8, <2>1
    <3>3. last + 1 \in Nat
      <4>1. Len(message.events) \in Nat /\ Len(message.events) <= last + 1
        BY <1>4, <3>2 DEF IsEndOfJournal, Events
      <4> QED
        BY <1>8, <4>1
    <3>4. LastOnes(message.events) \in Events /\ IsEndOfJournal(LastOnes(message.events), last + 1)
      BY <1>4, <3>2, <3>3, LastOnesAreAnEnd
    <3>5. drawn' \o undrawn' = drawn' /\ undrawn' \in Events
      BY <3>1, <3>4, ConcatEmptySeq, EmptySeq DEF Events
    <3> QED
      BY <3>1, <3>4, <3>5
  <2>2. CASE message.type # "history"
    <3>1. message.events[1] = last + 1
      <4>1. message.events = <<reports - n + 1>>
        BY <1>3, <1>5, <2>2
      <4> QED
        BY <1>8, <4>1
    <3>2. IsEndOfJournal(drawn \o undrawn, last) /\ seen = EventsOf(drawn \o undrawn) /\ drawn \o undrawn \in Events
      <4>1. drawn \o undrawn \in Events
        BY ONLY <1>6, ConcatProperties DEF Events
      <4> QED
        BY <1>5, <1>6, <1>7, <2>2, <4>1 DEF last
    <3>3. last \in Nat
      <4>1. Len(drawn \o undrawn) \in Nat /\ Len(drawn \o undrawn) <= last
        BY <3>2 DEF IsEndOfJournal, Events
      <4> QED
        BY <1>8, <4>1
    <3> DEFINE all == drawn \o undrawn
    <3>4. /\ last + 1 \notin seen /\ Append(all, last + 1) \in Events
          /\ IsEndOfJournal(Append(all, last + 1), last + 1)
          /\ EventsOf(Append(all, last + 1)) = seen \cup {last + 1}
      <4>1. all \in Events /\ IsEndOfJournal(all, last) /\ seen = EventsOf(all)
        BY <3>2
      <4> HIDE DEF all
      <4> QED
        BY <3>3, <4>1, NextOneFollows
    <3>5. undrawn' = Append(undrawn, last + 1) /\ seen' = seen \cup {last + 1} /\ drawn' = drawn
      BY <1>1, <2>2, <3>1, <3>4 DEF EnqueueEvent
    <3>6. Append(undrawn, last + 1) \in Events /\ drawn \o Append(undrawn, last + 1) = Append(all, last + 1)
      <4>1. drawn \in Seq(Nat) /\ undrawn \in Seq(Nat) /\ last + 1 \in Nat /\ all \in Seq(Nat)
        BY <1>6, <3>2, <3>3 DEF Events
      <4>2. <<last + 1>> \in Seq(Nat)
        BY <4>1
      <4>3. Append(undrawn, last + 1) = undrawn \o <<last + 1>> /\ Append(undrawn, last + 1) \in Seq(Nat)
        BY ONLY <4>1, AppendIsConcat, AppendProperties
      <4>4. Append(all, last + 1) = all \o <<last + 1>>
        <5> HIDE DEF all
        <5> QED
          BY ONLY <4>1, AppendIsConcat
      <4>5. (drawn \o undrawn) \o <<last + 1>> = drawn \o (undrawn \o <<last + 1>>)
        BY ONLY <4>1, <4>2, ConcatAssociative
      <4> QED
        BY <4>3, <4>4, <4>5 DEF Events
    <3> QED
      BY <1>6, <3>4, <3>5, <3>6
  <2> QED
    BY <2>1, <2>2
<1>11. ASSUME NEW i \in 1 .. n - 1 PROVE rest[i].type # "history" /\ rest[i].events = <<reports - (n - 1) + i>>
  <2>1. i + 1 \in 1 .. n /\ i + 1 # 1 /\ rest[i] = wire[i + 1]
    BY <1>3, <1>9
  <2>2. reports - n + (i + 1) = reports - (n - 1) + i
    BY <1>1, <1>3
  <2> QED
    BY <1>5, <2>1, <2>2
<1>12. ~HistoryAwaited(rest)
  <2>1. rest # <<>> => 1 \in 1 .. n - 1
    BY <1>3, <1>9
  <2> QED
    BY <1>11, <2>1 DEF HistoryAwaited
<1>13. reports - Len(rest) = last + 1 /\ DOMAIN rest = 1 .. n - 1 /\ Len(rest) = n - 1
  BY <1>1, <1>3, <1>9 DEF last
<1>14. ShownFollows'
  BY <1>1, <1>10 DEF ShownFollows
<1>15. NothingIsMissed'
  BY <1>1, <1>8, <1>10, <1>11, <1>12, <1>13 DEF NothingIsMissed
<1> QED
  BY <1>14, <1>15

LEMMA FrameKeeps == ASSUME ConsoleInv, NEW g \in 1 .. MaxLinks, FrameArrives(g) PROVE ConsoleInv'
<1> DEFINE read == [links[g] EXCEPT !.wire = Tail(@)]
<1>1. /\ links \in [1 .. MaxLinks -> Links] /\ gen \in 0 .. MaxLinks
      /\ UNCHANGED <<reports, active, gen, beat, timer, streamState>>
      /\ links[g].state = "open" /\ links[g].wire # <<>> /\ links' = [links EXCEPT ![g] = read]
      /\ g # gen => UNCHANGED <<drawn, undrawn, seen, frame>>
  BY DEF ConsoleInv, ConsoleTypeOK, FrameArrives, IsCurrent
<1>2. /\ read \in Links /\ read.state = "open" /\ read.subscribed = links[g].subscribed
      /\ read.wire = Tail(links[g].wire) /\ links[g].subscribed
  <2>1. links[g] \in Links /\ links[g].wire \in Seq(WireFrames) /\ links[g].wire # <<>>
    BY <1>1 DEF Links
  <2>2. Tail(links[g].wire) \in Seq(WireFrames)
    BY <2>1, HeadTailProperties
  <2> QED
    BY <1>1, <2>1, <2>2 DEF Links, ConsoleInv, LinksFollow
<1> HIDE DEF read
<1>3. /\ links' \in [1 .. MaxLinks -> Links] /\ links'[g] = read
      /\ \A h \in 1 .. MaxLinks : h # g => links'[h] = links[h]
  BY <1>1, <1>2
<1>4. ~(g > gen) /\ (g = gen => active)
  BY <1>1 DEF ConsoleInv, LinksFollow, NoLink
<1>5. LinksFollow'
  <2>1. \A h \in 1 .. MaxLinks : h > gen' => links'[h] = NoLink
    BY <1>1, <1>3, <1>4 DEF ConsoleInv, LinksFollow
  <2>2. \A h \in 1 .. MaxLinks :
           IF links'[h].subscribed THEN links'[h].state \in {"opening", "open"}
           ELSE links'[h].state # "opening" /\ links'[h].wire = <<>>
    BY <1>2, <1>3 DEF ConsoleInv, LinksFollow
  <2>3. ~active /\ gen # 0 => links'[gen] = NoLink
    BY <1>1, <1>3, <1>4 DEF ConsoleInv, LinksFollow
  <2> QED
    BY <1>1, <2>1, <2>2, <2>3 DEF ConsoleInv, LinksFollow
<1>6. (undrawn' # <<>> => frame') /\ frame' \in BOOLEAN
  BY DEF FrameArrives, ApplyHistory, EnqueueEvent, ConsoleInv, ConsoleGoesOn, ConsoleTypeOK
<1>7. ConsoleTypeOK'
  BY <1>1, <1>3, <1>6 DEF ConsoleInv, ConsoleTypeOK
<1>8. ConsoleGoesOn'
  BY <1>1, <1>2, <1>3, <1>4, <1>6 DEF ConsoleInv, ConsoleGoesOn, LinksFollow
<1>9. ShownFollows' /\ NothingIsMissed'
  <2>1. CASE g # gen
    <3>1. gen # 0 => links'[gen] = links[gen]
      BY <1>1, <1>3, <2>1
    <3> QED
      BY <1>1, <1>3, <2>1, <3>1, SameConnectionKeeps
  <2>2. CASE g = gen
    <3>1. FrameArrives(gen) /\ gen # 0
      BY <2>2
    <3> QED
      BY <1>1, <1>2, <1>3, <2>2, <3>1, OwnFrameKeeps
  <2> QED
    BY <2>1, <2>2
<1> QED
  BY <1>5, <1>7, <1>8, <1>9 DEF ConsoleInv

LEMMA ConsoleSteps == ConsoleInv /\ [ConsoleNext]_consoleVars => ConsoleInv'
<1> SUFFICES ASSUME ConsoleInv, [ConsoleNext]_consoleVars PROVE ConsoleInv'
  OBVIOUS
<1>1. CASE UNCHANGED consoleVars
  BY <1>1 DEF consoleVars, ConsoleInv, ConsoleTypeOK, LinksFollow, ShownFollows, NothingIsMissed, ConsoleGoesOn
<1>2. CASE ShowConsole
  BY <1>2, ConnectKeeps DEF ShowConsole
<1>3. CASE Reconnect
  <2>1. active' = TRUE /\ Connects
    BY <1>3 DEF Reconnect, ConsoleInv, ConsoleTypeOK, LinksFollow
  <2> QED
    BY <2>1, ConnectKeeps
<1>4. CASE \E g \in 1 .. MaxLinks :
              OpenConsole(g) \/ LinkBreaks(g) \/ SocketOpens(g) \/ FrameArrives(g) \/ SocketCloses(g)
  BY <1>4, OpenKeeps, BreakKeeps, SocketOpensKeeps, FrameKeeps, SocketClosesKeeps
<1> QED
  BY <1>1, <1>2, <1>3, <1>4, ReportKeeps, HideKeeps, FlushKeeps DEF ConsoleNext

\* An open console shows the end of the server's journal, without a gap and in order, and goes on
\* to show what comes (ServerRuntimeConsole.vue), however connections break and callbacks come late.
THEOREM ConsoleShowsTheEnd == ConsoleSpec => []ConsoleIsComplete
<1>1. ConsoleInv => ConsoleIsComplete
  BY DEF ConsoleInv, ConsoleIsComplete
<1> QED
  BY <1>1, ConsoleStarts, ConsoleSteps, PTL DEF ConsoleSpec

-----------------------------------------------------------------------------
(* A command over RCON (RconClient) *)

PacketSet == [kind : {"value1", "value2", "auth", "denied", "other"}, at : Nat, size : Nat]

RconTypeOK ==
    /\ call \in {"none", "dialed", "auth", "ready", "reading", "done", "error"}
    /\ game \in {"none", "asked", "open", "denied", "command", "answering"}
    /\ handshake \in Nat /\ password \in BOOLEAN /\ executed \in Nat
    /\ stream \in Seq(PacketSet) /\ packets \in Nat /\ answered \in Nat
    /\ received \in BOOLEAN /\ taken \in Nat /\ output \in Seq(Nat) /\ truncated \in BOOLEAN

\* The packets on the way go on from what was read, each from the one before.
StreamGoesOn ==
    /\ stream = <<>> => taken = answered
    /\ stream # <<>> => /\ stream[1].at = taken
                        /\ stream[Len(stream)].at + stream[Len(stream)].size = answered
    /\ \A i \in 1 .. Len(stream) - 1 : stream[i + 1].at = stream[i].at + stream[i].size
    /\ \A i \in DOMAIN stream :
          /\ stream[i].at + stream[i].size <= answered
          /\ stream[i].kind # "value2" => stream[i].size = 0

\* Call and server go through the same phases; an answer is of a command that was executed, and a
\* command is sent after the password was accepted.
PhasesAgree ==
    /\ call \in {"none", "dialed"} => game = "none"
    /\ call \in {"auth", "ready"} => game \in {"none", "asked", "open", "denied"}
    /\ game \in {"none", "asked", "open", "denied", "command"} => answered = 0 /\ executed = 0
    /\ game = "answering" => executed = 1
    /\ received \/ (\E i \in DOMAIN stream : stream[i].kind = "value2") => game = "answering"
    /\ call = "ready" \/ game \in {"command", "answering"} => password
    /\ (\E i \in DOMAIN stream : stream[i].kind = "auth") => password
    /\ call = "done" => received

RconInv == RconTypeOK /\ StreamGoesOn /\ PhasesAgree /\ OutputIsTrue

LEMMA RconStarts == RconInit => RconInv
<1> SUFFICES ASSUME RconInit PROVE RconInv
  OBVIOUS
<1> USE DEF RconInit
<1>1. RconTypeOK
  <2>1. stream \in Seq(PacketSet) /\ output \in Seq(Nat)
    BY EmptySeq
  <2> QED
    BY <2>1 DEF RconTypeOK
<1>2. StreamGoesOn /\ PhasesAgree
  BY DEF StreamGoesOn, PhasesAgree
<1>3. OutputIsTrue
  BY RconAssumption DEF OutputIsTrue
<1> QED
  BY <1>1, <1>2, <1>3 DEF RconInv

\* A packet that the server sends is the last one on the way.
LEMMA SendKeeps ==
  ASSUME RconInv, NEW packet \in PacketSet, stream' = Append(stream, packet),
         packet.at = answered, answered' = answered + packet.size, packet.kind # "value2" => packet.size = 0,
         UNCHANGED <<taken>>
  PROVE  StreamGoesOn'
<1> DEFINE n == Len(stream)
<1>1. stream \in Seq(PacketSet) /\ answered \in Nat /\ taken \in Nat /\ packet.size \in Nat
  BY DEF RconInv, RconTypeOK, PacketSet
<1>2. n \in Nat /\ DOMAIN stream = 1 .. n
  BY <1>1
<1>3. \A i \in DOMAIN stream : stream[i] \in PacketSet
  BY <1>1
<1> HIDE DEF n
<1>4. /\ Len(stream') = n + 1 /\ stream' # <<>> /\ DOMAIN stream' = 1 .. n + 1
      /\ \A i \in 1 .. n : stream'[i] = stream[i]
      /\ stream'[n + 1] = packet
  BY <1>1, <1>2, AppendProperties DEF n
<1>5. stream'[1].at = taken
  <2>1. CASE n = 0
    BY <1>1, <1>4, <2>1 DEF RconInv, StreamGoesOn, n
  <2>2. CASE n # 0
    BY <1>1, <1>2, <1>4, <2>2 DEF RconInv, StreamGoesOn, n
  <2> QED
    BY <2>1, <2>2
<1>6. ASSUME NEW i \in 1 .. n + 1 - 1 PROVE stream'[i + 1].at = stream'[i].at + stream'[i].size
  <2>1. i \in 1 .. n /\ stream'[i] = stream[i]
    BY <1>2, <1>4
  <2>2. CASE i = n
    BY <1>4, <2>1, <2>2 DEF RconInv, StreamGoesOn, n
  <2>3. CASE i # n
    <3>1. i \in 1 .. n - 1 /\ i + 1 \in 1 .. n
      BY <1>2, <2>1, <2>3
    <3> QED
      BY <1>4, <2>1, <3>1 DEF RconInv, StreamGoesOn, n
  <2> QED
    BY <2>2, <2>3
<1>7. ASSUME NEW i \in DOMAIN stream'
      PROVE  /\ stream'[i].at + stream'[i].size <= answered'
             /\ stream'[i].kind # "value2" => stream'[i].size = 0
  <2>1. CASE i = n + 1
    BY <1>1, <1>4, <2>1
  <2>2. CASE i # n + 1
    <3>1. i \in DOMAIN stream /\ stream'[i] = stream[i] /\ stream[i].at \in Nat /\ stream[i].size \in Nat
      BY <1>2, <1>3, <1>4, <2>2 DEF PacketSet
    <3> QED
      BY <1>1, <3>1 DEF RconInv, StreamGoesOn
  <2> QED
    BY <2>1, <2>2
<1> QED
  BY <1>1, <1>2, <1>4, <1>5, <1>6, <1>7 DEF StreamGoesOn

\* What remains on the way when a packet is read.
LEMMA ReadKeeps ==
  ASSUME RconInv, stream # <<>>, stream' = Tail(stream), taken' = taken + Head(stream).size,
         UNCHANGED answered
  PROVE  /\ StreamGoesOn' /\ stream' \in Seq(PacketSet) /\ Head(stream) \in PacketSet
         /\ Head(stream) = stream[1] /\ 1 \in DOMAIN stream
         /\ \A i \in DOMAIN stream' : i + 1 \in DOMAIN stream /\ stream'[i] = stream[i + 1]
<1> DEFINE n == Len(stream)
<1>1. stream \in Seq(PacketSet) /\ answered \in Nat /\ taken \in Nat /\ stream # <<>>
  BY DEF RconInv, RconTypeOK
<1>2. n \in Nat \ {0} /\ DOMAIN stream = 1 .. n /\ Head(stream) = stream[1] /\ stream[1] \in PacketSet
  BY <1>1
<1> HIDE DEF n
<1>3. /\ stream' \in Seq(PacketSet) /\ Len(stream') = n - 1 /\ DOMAIN stream' = 1 .. n - 1
      /\ \A i \in 1 .. n - 1 : stream'[i] = stream[i + 1]
  BY ONLY <1>1, <1>2, stream' = Tail(stream), HeadTailProperties DEF n
<1>4. taken' = stream[1].at + stream[1].size
  BY <1>1, <1>2 DEF RconInv, StreamGoesOn
<1>5. stream' = <<>> <=> n = 1
  <2>1. stream' = <<>> <=> Len(stream') = 0
    BY <1>3, EmptySeq
  <2> QED
    BY <1>2, <1>3, <2>1
<1>6. CASE n = 1
  <2>1. taken' = answered'
    BY <1>1, <1>4, <1>6 DEF RconInv, StreamGoesOn, n
  <2>2. StreamGoesOn'
    BY <1>3, <1>5, <1>6, <2>1 DEF StreamGoesOn
  <2> QED
    BY <1>2, <1>3, <1>6, <2>2
<1>7. CASE n # 1
  <2>1. stream' # <<>> /\ n - 1 \in 1 .. n - 1 /\ 1 \in 1 .. n - 1 /\ n - 1 + 1 = n /\ 1 + 1 = 2
    BY <1>2, <1>3, <1>5, <1>7
  <2>2. stream'[1].at = taken'
    <3>1. stream'[1] = stream[2]
      BY <1>3, <2>1
    <3>2. stream[2].at = stream[1].at + stream[1].size
      BY <2>1 DEF RconInv, StreamGoesOn, n
    <3> QED
      BY <1>4, <3>1, <3>2
  <2>3. stream'[Len(stream')].at + stream'[Len(stream')].size = answered'
    <3>1. stream'[n - 1] = stream[n]
      BY <1>3, <2>1
    <3> QED
      BY <1>1, <1>3, <3>1 DEF RconInv, StreamGoesOn, n
  <2>4. ASSUME NEW i \in 1 .. n - 1 - 1 PROVE stream'[i + 1].at = stream'[i].at + stream'[i].size
    <3>1. i \in 1 .. n - 1 /\ i + 1 \in 1 .. n - 1
      BY <1>2
    <3> QED
      BY <1>3, <3>1 DEF RconInv, StreamGoesOn, n
  <2>5. ASSUME NEW i \in DOMAIN stream'
        PROVE  /\ stream'[i].at + stream'[i].size <= answered'
               /\ stream'[i].kind # "value2" => stream'[i].size = 0
    <3>1. i + 1 \in DOMAIN stream /\ stream'[i] = stream[i + 1]
      BY <1>2, <1>3
    <3> QED
      BY <3>1 DEF RconInv, StreamGoesOn
  <2>6. StreamGoesOn'
    BY <1>3, <2>1, <2>2, <2>3, <2>4, <2>5 DEF StreamGoesOn
  <2> QED
    BY <1>2, <1>3, <2>6
<1> QED
  BY <1>6, <1>7

LEMMA GameKeeps == ASSUME RconInv, Game PROVE RconInv'
<1>1. RconTypeOK /\ answered \in Nat /\ taken \in Nat
  BY DEF RconInv, RconTypeOK
<1>2. UNCHANGED <<call, handshake, password, received, taken, output, truncated>>
  BY DEF Game, keptVars
<1>3. CASE game = "command" /\ executed' = executed + 1 /\ game' = "answering" /\ UNCHANGED <<stream, sentVars>>
  BY <1>2, <1>3 DEF RconInv, RconTypeOK, StreamGoesOn, PhasesAgree, OutputIsTrue, sentVars
<1>4. ASSUME NEW packet \in PacketSet, stream' = Append(stream, packet), UNCHANGED executed,
             packet.at = answered, packets' \in Nat, answered' = answered + packet.size,
             \/ /\ game = "asked" /\ packet.size = 0
                /\ \/ packet.kind = "value1" /\ game' = game
                   \/ packet.kind = "auth" /\ password /\ game' = "open"
                   \/ packet.kind = "denied" /\ game' = "denied"
             \/ /\ game = "answering" /\ game' = game
                /\ packet.kind = "value2" \/ (packet.kind = "other" /\ packet.size = 0)
      PROVE  RconInv'
  <2>1. packet.size \in Nat /\ packet.at \in Nat
    BY DEF PacketSet
  <2>2. StreamGoesOn'
    BY <1>2, <1>4, SendKeeps
  <2>3. RconTypeOK'
    <3>1. stream' \in Seq(PacketSet)
      BY <1>1, <1>4, AppendProperties DEF RconTypeOK
    <3>2. answered' \in Nat /\ game' \in {"asked", "open", "denied", "answering"}
      BY <1>1, <1>4, <2>1
    <3> QED
      BY <1>1, <1>2, <1>4, <3>1, <3>2 DEF RconTypeOK
  <2>4. \A i \in DOMAIN stream' : (i \in DOMAIN stream /\ stream'[i] = stream[i]) \/ stream'[i] = packet
    BY <1>1, <1>4, AppendProperties DEF RconTypeOK
  <2>5. PhasesAgree'
    <3>1. (\E i \in DOMAIN stream' : stream'[i].kind = "value2") => game' = "answering"
      BY <1>4, <2>4 DEF RconInv, PhasesAgree
    <3>2. (\E i \in DOMAIN stream' : stream'[i].kind = "auth") => password
      BY <1>4, <2>4 DEF RconInv, PhasesAgree
    <3>3. game' # "answering" => answered' = 0
      BY <1>1, <1>4, <2>1 DEF RconInv, PhasesAgree
    <3> QED
      BY <1>2, <1>4, <3>1, <3>2, <3>3 DEF RconInv, PhasesAgree
  <2>6. OutputIsTrue'
    BY <1>1, <1>2, <1>4, <2>1 DEF RconInv, OutputIsTrue
  <2> QED
    BY <2>2, <2>3, <2>5, <2>6 DEF RconInv
<1>5. \A kind \in {"value1", "auth", "denied", "other"} :
         /\ Packet(kind, 0) \in PacketSet /\ Packet(kind, 0).at = answered
         /\ Packet(kind, 0).size = 0 /\ Packet(kind, 0).kind = kind
  BY <1>1 DEF Packet, PacketSet
<1>6. answered + 0 = answered /\ packets \in Nat
  BY <1>1 DEF RconTypeOK
<1>7. CASE game = "asked" /\ stream' = Append(stream, Packet("value1", 0)) /\ UNCHANGED <<game, executed, sentVars>>
  BY <1>4, <1>5, <1>6, <1>7 DEF sentVars
<1>8. CASE /\ game = "asked" /\ stream' = Append(stream, Packet(IF password THEN "auth" ELSE "denied", 0))
           /\ game' = (IF password THEN "open" ELSE "denied") /\ UNCHANGED <<executed, sentVars>>
  <2>1. CASE password
    BY <1>4, <1>5, <1>6, <1>8, <2>1 DEF sentVars
  <2>2. CASE ~password
    BY <1>4, <1>5, <1>6, <1>8, <2>2 DEF sentVars
  <2> QED
    BY <2>1, <2>2
<1>9. CASE game = "answering" /\ stream' = Append(stream, Packet("other", 0)) /\ UNCHANGED <<game, executed, sentVars>>
  BY <1>4, <1>5, <1>6, <1>9 DEF sentVars
<1>10. ASSUME game = "answering", NEW size \in Sizes, stream' = Append(stream, Packet("value2", size)),
              packets' = packets + 1, answered' = answered + size, UNCHANGED <<game, executed>>
       PROVE  RconInv'
  <2>1. /\ Packet("value2", size) \in PacketSet /\ Packet("value2", size).at = answered
        /\ Packet("value2", size).size = size /\ Packet("value2", size).kind = "value2"
    BY <1>1, RconAssumption DEF Packet, PacketSet
  <2> QED
    BY <1>4, <1>6, <1>10, <2>1
<1> QED
  BY <1>3, <1>7, <1>8, <1>9, <1>10 DEF Game, sentVars

\* What the call reads is counted and kept as far as there is room.
LEMMA KeepsOutput ==
  ASSUME RconInv, stream # <<>>, NEW packet, packet = stream[1], packet.size \in Nat, packet.at = taken,
         UNCHANGED answered, taken' = taken + packet.size, taken' <= answered,
         output' = output \o PlacesFrom(packet.at, IF packet.size > Room THEN Room ELSE packet.size),
         truncated' = (truncated \/ Cuts(packet.size))
  PROVE  output' \in Seq(Nat) /\ OutputIsTrue'
<1> DEFINE n == Len(output)
           k == IF packet.size > Room THEN Room ELSE packet.size
           more == PlacesFrom(packet.at, k)
<1>1. /\ output \in Seq(Nat) /\ n \in Nat /\ taken \in Nat /\ OutputLimit \in Nat /\ DOMAIN output = 1 .. n
      /\ truncated \in BOOLEAN
  BY RconAssumption DEF RconInv, RconTypeOK
<1>2. n = (IF taken <= OutputLimit THEN taken ELSE OutputLimit) /\ n <= OutputLimit
  BY <1>1 DEF RconInv, OutputIsTrue
<1>3. Room = OutputLimit - n /\ k \in Nat /\ k = (IF packet.size > OutputLimit - n THEN OutputLimit - n ELSE packet.size)
  BY <1>1, <1>2 DEF Room
<1> HIDE DEF n, k
<1>4. more \in Seq(Nat) /\ Len(more) = k /\ \A i \in 1 .. k : more[i] = taken + i
  <2>1. more = [i \in 1 .. k |-> taken + i]
    BY DEF PlacesFrom
  <2>2. \A i \in 1 .. k : taken + i \in Nat
    BY <1>1, <1>3
  <2> QED
    BY ONLY <1>3, <2>1, <2>2
<1> HIDE DEF more
<1>5. output' = output \o more
  BY DEF more, k
<1>6. /\ output' \in Seq(Nat) /\ Len(output') = n + k /\ DOMAIN output' = 1 .. n + k
      /\ \A i \in 1 .. n : output'[i] = output[i]
      /\ \A i \in n + 1 .. n + k : output'[i] = more[i - n]
  <2>1. Len(output) = n
    BY DEF n
  <2>2. output' \in Seq(Nat) /\ Len(output') = Len(output) + Len(more)
    BY ONLY <1>1, <1>4, <1>5, ConcatProperties
  <2>3. Len(output') = n + k /\ DOMAIN output' = 1 .. n + k
    BY ONLY <1>4, <2>1, <2>2, LenProperties
  <2>4. \A i \in 1 .. Len(output) + Len(more) :
           (output \o more)[i] = IF i <= Len(output) THEN output[i] ELSE more[i - Len(output)]
    BY ONLY <1>1, <1>4, ConcatProperties
  <2>5. \A i \in 1 .. n + k : output'[i] = IF i <= n THEN output[i] ELSE more[i - n]
    BY ONLY <1>4, <1>5, <2>1, <2>4
  <2>6. ASSUME NEW i \in 1 .. n PROVE output'[i] = output[i]
    <3>1. i \in 1 .. n + k /\ i <= n
      BY ONLY <1>1, <1>3, <2>6
    <3> QED
      BY ONLY <2>5, <3>1
  <2>7. ASSUME NEW i \in n + 1 .. n + k PROVE output'[i] = more[i - n]
    <3>1. i \in 1 .. n + k /\ ~(i <= n)
      BY ONLY <1>1, <1>3, <2>7
    <3> QED
      BY ONLY <2>5, <3>1
  <2> QED
    BY <2>2, <2>3, <2>6, <2>7
<1>0. taken' = taken + packet.size /\ packet.size \in Nat
  OBVIOUS
<1>7. Len(output') = IF taken' <= OutputLimit THEN taken' ELSE OutputLimit
  BY ONLY <1>0, <1>1, <1>2, <1>3, <1>6
<1>8. ASSUME NEW i \in DOMAIN output' PROVE output'[i] = i
  <2>1. CASE i \in 1 .. n
    BY <1>1, <1>6, <2>1 DEF RconInv, OutputIsTrue
  <2>2. CASE i \in n + 1 .. n + k
    <3>1. i - n \in 1 .. k /\ output'[i] = taken + (i - n)
      BY ONLY <1>1, <1>3, <1>4, <1>6, <2>2
    <3>2. taken = n
      BY <1>1, <1>2, <1>3, <3>1
    <3> QED
      BY <1>1, <3>1, <3>2
  <2> QED
    BY <1>1, <1>3, <1>6, <2>1, <2>2
<1>9. taken' > OutputLimit => truncated'
  <2>1. truncated' = (truncated \/ OutputLimit - n <= 0 \/ packet.size > OutputLimit - n)
    BY <1>3 DEF Cuts
  <2>2. taken > OutputLimit => truncated
    BY DEF RconInv, OutputIsTrue
  <2>3. CASE taken > OutputLimit
    BY <2>1, <2>2, <2>3
  <2>4. CASE ~(taken > OutputLimit)
    <3>1. n = taken
      BY ONLY <1>1, <1>2, <2>4
    <3>2. taken' > OutputLimit => packet.size > OutputLimit - n
      BY ONLY <1>0, <1>1, <3>1
    <3> QED
      BY <2>1, <3>2
  <2> QED
    BY <2>3, <2>4
<1>10. truncated' => Len(output') = OutputLimit
  <2>1. CASE truncated
    BY <1>1, <1>2, <1>3, <1>6, <2>1 DEF RconInv, OutputIsTrue, n
  <2>2. CASE Cuts(packet.size)
    BY <1>1, <1>2, <1>3, <1>6, <2>2 DEF Cuts
  <2> QED
    BY <2>1, <2>2
<1> QED
  BY <1>6, <1>7, <1>8, <1>9, <1>10 DEF OutputIsTrue

LEMMA PacketKeeps == ASSUME RconInv, ReadPacket PROVE RconInv'
<1>1. /\ stream # <<>> /\ stream' = Tail(stream) /\ call = "reading"
      /\ UNCHANGED <<call, handshake, password, game, executed, packets, answered>>
  BY DEF ReadPacket, sentVars
<1>2. RconTypeOK /\ answered \in Nat /\ taken \in Nat /\ stream \in Seq(PacketSet)
  BY DEF RconInv, RconTypeOK
<1>3. 1 \in DOMAIN stream /\ Head(stream) = stream[1] /\ stream[1] \in PacketSet
  BY <1>1, <1>2
<1>4. stream[1].at = taken /\ stream[1].size \in Nat /\ taken + stream[1].size <= answered
  BY <1>1, <1>3 DEF RconInv, StreamGoesOn, PacketSet
<1>5. taken' = taken + Head(stream).size /\ received' \in BOOLEAN /\ truncated' \in BOOLEAN
  <2>1. CASE stream[1].kind # "value2"
    <3>1. stream[1].size = 0 /\ UNCHANGED <<received, taken, truncated>>
      BY <1>3, <2>1 DEF ReadPacket, keptVars, RconInv, StreamGoesOn
    <3> QED
      BY <1>2, <1>3, <3>1 DEF RconTypeOK
  <2>2. CASE stream[1].kind = "value2"
    <3>1. taken' = taken + stream[1].size /\ received' = TRUE /\ truncated' = (truncated \/ Cuts(stream[1].size))
      BY <1>3, <2>2 DEF ReadPacket
    <3> QED
      BY <1>2, <1>3, <3>1 DEF RconTypeOK, Cuts
  <2> QED
    BY <2>1, <2>2
<1>6. /\ StreamGoesOn' /\ stream' \in Seq(PacketSet)
      /\ \A i \in DOMAIN stream' : i + 1 \in DOMAIN stream /\ stream'[i] = stream[i + 1]
  BY <1>1, <1>5, ReadKeeps
<1>7. output' \in Seq(Nat) /\ OutputIsTrue'
  <2>1. CASE stream[1].kind # "value2"
    <3>1. UNCHANGED <<taken, output, truncated>>
      BY <1>3, <2>1 DEF ReadPacket, keptVars
    <3> QED
      BY <1>1, <3>1 DEF RconInv, RconTypeOK, OutputIsTrue
  <2>2. CASE stream[1].kind = "value2"
    <3>1. /\ taken' = taken + stream[1].size
          /\ output' = output \o PlacesFrom(stream[1].at, IF stream[1].size > Room THEN Room ELSE stream[1].size)
          /\ truncated' = (truncated \/ Cuts(stream[1].size))
      BY <1>3, <2>2 DEF ReadPacket
    <3> QED
      BY <1>1, <1>4, <3>1, KeepsOutput
  <2> QED
    BY <2>1, <2>2
<1>8. RconTypeOK'
  BY <1>1, <1>2, <1>4, <1>5, <1>6, <1>7, <1>3 DEF RconTypeOK
<1>9. PhasesAgree'
  <2>1. received' => received \/ \E i \in DOMAIN stream : stream[i].kind = "value2"
    BY <1>3 DEF ReadPacket, keptVars
  <2> QED
    BY <1>1, <1>6, <2>1 DEF RconInv, PhasesAgree
<1> QED
  BY <1>6, <1>7, <1>8, <1>9 DEF RconInv

LEMMA AuthKeeps == ASSUME RconInv, ReadAuth PROVE RconInv'
<1>1. /\ stream # <<>> /\ stream' = Tail(stream) /\ call = "auth" /\ handshake' = handshake + 1
      /\ UNCHANGED <<password, game, executed, packets, answered, received, taken, output, truncated>>
  BY DEF ReadAuth, sentVars, keptVars
<1>2. /\ RconTypeOK /\ answered \in Nat /\ taken \in Nat /\ stream \in Seq(PacketSet) /\ handshake \in Nat
      /\ answered = 0
  BY <1>1 DEF RconInv, RconTypeOK, PhasesAgree
<1>3. 1 \in DOMAIN stream /\ Head(stream) = stream[1] /\ stream[1] \in PacketSet
  BY <1>1, <1>2
<1>4. stream[1].size = 0
  BY <1>2, <1>3 DEF RconInv, StreamGoesOn, PacketSet
<1>5. /\ StreamGoesOn' /\ stream' \in Seq(PacketSet)
      /\ \A i \in DOMAIN stream' : i + 1 \in DOMAIN stream /\ stream'[i] = stream[i + 1]
  BY <1>1, <1>2, <1>3, <1>4, ReadKeeps
<1>6. call' \in {"error", "ready", "auth"} /\ (call' = "ready" => stream[1].kind = "auth")
  BY <1>3 DEF ReadAuth
<1>7. RconTypeOK'
  BY <1>1, <1>2, <1>5, <1>6 DEF RconTypeOK
<1>8. PhasesAgree'
  BY <1>1, <1>3, <1>5, <1>6 DEF RconInv, PhasesAgree
<1>9. OutputIsTrue'
  BY <1>1 DEF RconInv, OutputIsTrue
<1> QED
  BY <1>5, <1>7, <1>8, <1>9 DEF RconInv

LEMMA RconSteps == RconInv /\ [RconNext]_rconVars => RconInv'
<1> SUFFICES ASSUME RconInv, [RconNext]_rconVars PROVE RconInv'
  OBVIOUS
<1> USE DEF sentVars, keptVars
<1>1. ASSUME UNCHANGED <<handshake, password, executed, stream, sentVars, keptVars>>,
             \/ game' = game /\ call' \in {"dialed", "error"} /\ (call' = "dialed" => game = "none")
             \/ game' = "asked" /\ game = "none" /\ call' = "auth"
             \/ game' = "command" /\ call = "ready" /\ call' = "reading"
             \/ game' = game /\ call' = "done" /\ received
             \/ game' = game /\ call' = call
      PROVE  RconInv'
  BY <1>1 DEF RconInv, RconTypeOK, StreamGoesOn, PhasesAgree, OutputIsTrue
<1>2. CASE Dial
  BY <1>1, <1>2 DEF Dial, Reaches, RconInv, PhasesAgree
<1>3. CASE SendAuth
  BY <1>1, <1>3 DEF SendAuth, Reaches, RconInv, PhasesAgree
<1>4. CASE SendCommand
  BY <1>1, <1>4 DEF SendCommand, Reaches, RconInv, PhasesAgree
<1>5. CASE ReadEnds
  BY <1>1, <1>5 DEF ReadEnds, Answered
<1>6. CASE ReadFails
  BY <1>1, <1>6 DEF ReadFails, Reaches
<1>7. CASE UNCHANGED rconVars
  BY <1>1, <1>7 DEF rconVars
<1> QED
  BY <1>2, <1>3, <1>4, <1>5, <1>6, <1>7, GameKeeps, AuthKeeps, PacketKeeps DEF RconNext

\* A command over RCON is executed once at most, a call that succeeds has had it executed, and what
\* it returns is the beginning of the answer, marked when something that was read is left out
\* (executeRCON of rcon.go).  What was not read is not marked: an answer that the quiet gap, the
\* deadline or the end of the connection cuts (rcon.go:115, rcon.go:135) is reported as done.
THEOREM RconAnswersTruly == RconSpec => []RconIsSound
<1>1. RconInv => RconIsSound
  BY DEF RconInv, RconTypeOK, PhasesAgree, RconIsSound, CommandIsExecutedOnce
<1> QED
  BY <1>1, RconStarts, RconSteps, PTL DEF RconSpec

-----------------------------------------------------------------------------
(* All of the work *)

\* What a mod requires, the selection of mods, the console of a server and the answer of a command
\* are sound in every behaviour of the work around the volume, whichever of its parts it is about.
THEOREM WorkHolds == WorkSpec => []WorkIsSound
<1>1. WorkInit => ResolveInit /\ SelectionInit /\ ConsoleInit /\ RconInit
  BY DEF WorkInit
<1>2. ASSUME [WorkNext]_workVars
      PROVE  /\ [ResolveNext]_resolveVars /\ [SelectionNext]_selectionVars
             /\ [ConsoleNext]_consoleVars /\ [RconNext]_rconVars
  <2>1. CASE UNCHANGED workVars \/ VolumePart \/ AssetPart \/ PackPart
    BY <2>1 DEF workVars, VolumePart, AssetPart, PackPart
  <2>2. CASE ResolvePart \/ SelectionPart
    BY <2>2 DEF ResolvePart, SelectionPart
  <2>3. CASE ConsolePart \/ RconPart
    BY <2>3 DEF ConsolePart, RconPart
  <2> QED
    BY <1>2, <2>1, <2>2, <2>3 DEF WorkNext
<1>3. WorkSpec => ResolveSpec /\ SelectionSpec /\ ConsoleSpec /\ RconSpec
  BY <1>1, <1>2, PTL DEF WorkSpec, ResolveSpec, SelectionSpec, ConsoleSpec, RconSpec
<1> QED
  BY <1>3, ResolvedAsRequired, SelectionHolds, ConsoleShowsTheEnd, RconAnswersTruly, PTL DEF WorkIsSound
=============================================================================

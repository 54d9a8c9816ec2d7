------------------------------ MODULE AssetDownload ------------------------------
(***************************************************************************)
(* The Minecraft assets of an installation (minecraft-assets.service.ts): a  *)
(* build of a client downloads the objects that an index lists and then      *)
(* writes the index.  The next build finds the index and downloads nothing,  *)
(* so the index must not be there without its objects.  Several workers      *)
(* share the list; when one of them throws, the job fails at once and the    *)
(* others work on.                                                            *)
(***************************************************************************)
EXTENDS Naturals, FiniteSets

CONSTANTS Objects,        \* asset objects, by hash
          Syncs,          \* calls of ensureAssets
          Fetchers,       \* the workers of a call
          Attempts,       \* how often a download is tried
          MaxAssetFaults  \* bound: failed calls, wrong bytes and crashes

ASSUME AssetAssumption == Fetchers # {} /\ Attempts \in Nat \ {0} /\ MaxAssetFaults \in Nat

VARIABLES disk,    \* disk[o]: the file of object o
          index,   \* the index file: the objects that it lists, or NoIndex
          main,    \* main[s]: where ensureAssets is
          doing,   \* doing[s][w]: where a worker is
          holds,   \* holds[s][w]: the object that it has taken
          attempt, \* attempt[s][w]: the attempt of its download
          lookup,  \* lookup[s]: the attempt of the download of the metadata
          wants,   \* wants[s]: the objects of the index that was downloaded
          left,    \* left[s]: those that no worker has taken yet
          aborted, \* aborted[s]: its job was cancelled
          mishaps  \* how many faults there have been

assetVars == <<disk, index, main, doing, holds, attempt, lookup, wants, left, aborted, mishaps>>

NoIndex == [there |-> FALSE, lists |-> {}]
Stages == <<"manifest", "version", "assetIndex">>

\* What an operator or a broken copy has left may have the name of an object and other bytes.
AssetInit ==
    /\ disk \in [Objects -> {"missing", "wrong", "good"}] /\ index = NoIndex
    /\ main = [s \in Syncs |-> "none"] /\ doing = [s \in Syncs |-> [w \in Fetchers |-> "off"]]
    /\ holds = [s \in Syncs |-> [w \in Fetchers |-> {}]]
    /\ attempt = [s \in Syncs |-> [w \in Fetchers |-> 1]]
    /\ lookup = [s \in Syncs |-> 1]
    /\ wants = [s \in Syncs |-> {}] /\ left = [s \in Syncs |-> {}]
    /\ aborted = [s \in Syncs |-> FALSE] /\ mishaps = 0

Mishap == mishaps < MaxAssetFaults /\ mishaps' = mishaps + 1

(* The job ends in this moment; what its workers do then nobody awaits. *)
Fails(s) == main' = [main EXCEPT ![s] = "failed"]

-----------------------------------------------------------------------------
(* ensureAssets *)

(* buildClient: no index.  The rebuild for a modpack, a mod job, may run beside a build. *)
StartAssets(s) ==
    /\ main[s] = "none" /\ ~index.there
    /\ main' = [main EXCEPT ![s] = "manifest"]
    /\ UNCHANGED <<disk, index, doing, holds, attempt, lookup, wants, left, aborted, mishaps>>

AbortAssets(s) ==
    /\ main[s] \notin {"none", "ready", "failed"} /\ ~aborted[s]
    /\ aborted' = [aborted EXCEPT ![s] = TRUE]
    /\ UNCHANGED <<disk, index, main, doing, holds, attempt, lookup, wants, left, mishaps>>

(* The manifest of the versions, the version, its index; then the workers start. *)
LookUp(s) ==
    \E i \in DOMAIN Stages :
       /\ main[s] = Stages[i]
       /\ lookup' = [lookup EXCEPT ![s] = 1]
       /\ \/ i < 3 /\ main' = [main EXCEPT ![s] = Stages[i + 1]]
             /\ UNCHANGED <<doing, wants, left>>
          \/ i = 3 /\ ~aborted[s] /\ main' = [main EXCEPT ![s] = "workers"]
             /\ doing' = [doing EXCEPT ![s] = [w \in Fetchers |-> "take"]]
             /\ \E names \in SUBSET Objects :
                   wants' = [wants EXCEPT ![s] = names] /\ left' = [left EXCEPT ![s] = names]
    /\ UNCHANGED <<disk, index, holds, attempt, aborted, mishaps>>

(* No answer: again, but not after the last attempt and not when the job is cancelled. *)
LookUpFails(s) ==
    /\ \E i \in DOMAIN Stages : main[s] = Stages[i]
    /\ IF aborted[s] THEN UNCHANGED mishaps ELSE Mishap
    /\ IF lookup[s] < Attempts /\ ~aborted[s]
       THEN lookup' = [lookup EXCEPT ![s] = @ + 1] /\ UNCHANGED main
       ELSE Fails(s) /\ lookup' = [lookup EXCEPT ![s] = 1]
    /\ UNCHANGED <<disk, index, doing, holds, attempt, wants, left, aborted>>

\* Mutant: the workers are not awaited.
NothingLeft(s) == main[s] = "workers" /\ left[s] = {}
AllDone(s) == main[s] = "workers" /\ \A w \in Fetchers : doing[s][w] = "done"

(* The last step: the index; the line of the log that follows throws when the job is cancelled. *)
PublishIndex(s) ==
    /\ AllDone(s)
    /\ \/ /\ index' = [there |-> TRUE, lists |-> wants[s]]
          /\ main' = [main EXCEPT ![s] = IF aborted[s] THEN "failed" ELSE "ready"]
          /\ UNCHANGED mishaps
       \/ Fails(s) /\ Mishap /\ UNCHANGED index
    /\ UNCHANGED <<disk, doing, holds, attempt, lookup, wants, left, aborted>>

-----------------------------------------------------------------------------
(* A worker *)

GivesUp(s, w) ==
    /\ doing' = [doing EXCEPT ![s][w] = "failed"]
    /\ main' = [main EXCEPT ![s] = IF @ = "workers" THEN "failed" ELSE @]

TakeObject(s, w) ==
    /\ doing[s][w] = "take"
    /\ \/ aborted[s] /\ GivesUp(s, w) /\ UNCHANGED <<holds, left>>
       \/ /\ ~aborted[s] /\ left[s] = {}
          /\ doing' = [doing EXCEPT ![s][w] = "done"] /\ UNCHANGED <<main, holds, left>>
       \/ ~aborted[s] /\ \E o \in left[s] :
             /\ holds' = [holds EXCEPT ![s][w] = {o}]
             /\ left' = [left EXCEPT ![s] = @ \ {o}]
             /\ doing' = [doing EXCEPT ![s][w] = "check"] /\ UNCHANGED main
    /\ UNCHANGED <<disk, index, attempt, lookup, wants, aborted, mishaps>>

(* The objects that a worker has completed; one that it gave up is none of them. *)
Completed(s) == (wants[s] \ left[s]) \ UNION {holds[s][w] : w \in Fetchers}

(* The progress that is reported after the last object, and after every 25th, throws when the *)
(* job is cancelled. *)
Completes(s, w) ==
    /\ holds' = [holds EXCEPT ![s][w] = {}]
    /\ \/ aborted[s] /\ GivesUp(s, w)
       \/ /\ ~aborted[s] \/ Completed(s) \cup holds[s][w] # wants[s]
          /\ doing' = [doing EXCEPT ![s][w] = "take"] /\ UNCHANGED main

\* Mutant: a file of that name is enough.
Exists(o) == disk[o] # "missing"

(* existingFileMatches *)
Matches(o) == disk[o] = "good"

CheckObject(s, w) ==
    /\ doing[s][w] = "check"
    /\ \E o \in holds[s][w] :
          \/ Matches(o) /\ Completes(s, w) /\ UNCHANGED mishaps
          \/ ~Matches(o) /\ doing' = [doing EXCEPT ![s][w] = "fetch"] /\ UNCHANGED <<main, holds, mishaps>>
          \/ Mishap /\ GivesUp(s, w) /\ UNCHANGED holds
    /\ UNCHANGED <<disk, index, attempt, lookup, wants, left, aborted>>

\* Mutant: the bytes are written without a look at their hash.
Unverified(bytes) == bytes \in {"good", "wrong"}
Verified(bytes) == bytes = "good"

(* Wrong bytes are not fetched again. *)
ObjectArrives(s, w) ==
    /\ doing[s][w] = "fetch"
    /\ \E bytes \in {"good", "wrong"} :
          /\ IF bytes = "wrong" THEN Mishap ELSE UNCHANGED mishaps
          /\ IF Verified(bytes)
             THEN doing' = [doing EXCEPT ![s][w] = IF bytes = "good" THEN "write" ELSE "writeWrong"] /\ UNCHANGED main
             ELSE GivesUp(s, w)
    /\ attempt' = [attempt EXCEPT ![s][w] = 1]
    /\ UNCHANGED <<disk, index, holds, lookup, wants, left, aborted>>

FetchFails(s, w) ==
    /\ doing[s][w] = "fetch"
    /\ IF aborted[s] THEN UNCHANGED mishaps ELSE Mishap
    /\ IF attempt[s][w] < Attempts /\ ~aborted[s]
       THEN attempt' = [attempt EXCEPT ![s][w] = @ + 1] /\ UNCHANGED <<main, doing>>
       ELSE GivesUp(s, w) /\ attempt' = [attempt EXCEPT ![s][w] = 1]
    /\ UNCHANGED <<disk, index, holds, lookup, wants, left, aborted>>

(* writeAtomic: the file is there as a whole or not at all. *)
WriteObject(s, w) ==
    /\ doing[s][w] \in {"write", "writeWrong"}
    /\ disk' = [o \in Objects |-> IF o \notin holds[s][w] THEN disk[o]
                                  ELSE IF doing[s][w] = "write" THEN "good" ELSE "wrong"]
    /\ Completes(s, w)
    /\ UNCHANGED <<index, attempt, lookup, wants, left, aborted, mishaps>>

WriteObjectFails(s, w) ==
    /\ doing[s][w] \in {"write", "writeWrong"}
    /\ GivesUp(s, w) /\ Mishap
    /\ UNCHANGED <<disk, index, holds, attempt, lookup, wants, left, aborted>>

(* The API stops. *)
CrashAssets ==
    /\ Mishap
    /\ main' = [s \in Syncs |-> IF main[s] \in {"none", "ready"} THEN main[s] ELSE "failed"]
    /\ doing' = [s \in Syncs |-> [w \in Fetchers |-> "off"]]
    /\ holds' = [s \in Syncs |-> [w \in Fetchers |-> {}]]
    /\ attempt' = [s \in Syncs |-> [w \in Fetchers |-> 1]]
    /\ lookup' = [s \in Syncs |-> 1]
    /\ wants' = [s \in Syncs |-> {}] /\ left' = [s \in Syncs |-> {}]
    /\ UNCHANGED <<disk, index, aborted>>

AssetNext ==
    \/ CrashAssets
    \/ \E s \in Syncs :
          \/ StartAssets(s) \/ AbortAssets(s) \/ LookUp(s) \/ LookUpFails(s) \/ PublishIndex(s)
          \/ \E w \in Fetchers :
                \/ TakeObject(s, w) \/ CheckObject(s, w) \/ ObjectArrives(s, w) \/ FetchFails(s, w)
                \/ WriteObject(s, w) \/ WriteObjectFails(s, w)

AssetSpec == AssetInit /\ [][AssetNext]_assetVars

-----------------------------------------------------------------------------
(* Properties *)

AssetTypeOK ==
    /\ disk \in [Objects -> {"missing", "wrong", "good"}]
    /\ index \in [there : BOOLEAN, lists : SUBSET Objects]
    /\ main \in [Syncs -> {"none", "manifest", "version", "assetIndex", "workers", "ready", "failed"}]
    /\ doing \in [Syncs -> [Fetchers -> {"off", "take", "check", "fetch", "write", "writeWrong", "done", "failed"}]]
    /\ holds \in [Syncs -> [Fetchers -> SUBSET Objects]]
    /\ attempt \in [Syncs -> [Fetchers -> Nat]] /\ lookup \in [Syncs -> Nat]
    /\ wants \in [Syncs -> SUBSET Objects] /\ left \in [Syncs -> SUBSET Objects]
    /\ aborted \in [Syncs -> BOOLEAN] /\ mishaps \in Nat

\* An index that is there has all of its objects, whole and with the right bytes, whatever has
\* failed, was cancelled or crashed, and whatever the workers of a failed job still do: the next
\* build takes the index for the proof that the assets are complete (client-build.service.ts,
\* the check before ensureAssets).
IndexIsComplete == index.there => \A o \in index.lists : disk[o] = "good"

\* What a call has counted as completed is in place, so that no object of its index is
\* forgotten: it waits, a worker has it, or it is there.
CompletedIsInPlace == \A s \in Syncs : \A o \in Completed(s) : disk[o] = "good"

\* A worker that has ended has nothing left to do, unless its call has failed.
WorkersEndTogether ==
    \A s \in Syncs : main[s] = "workers" =>
       \A w \in Fetchers : /\ doing[s][w] \in {"take", "check", "fetch", "write", "done"}
                           /\ doing[s][w] \in {"take", "done"} => holds[s][w] = {}
                           /\ doing[s][w] = "done" => left[s] = {}

AssetsAreComplete == AssetTypeOK /\ IndexIsComplete /\ CompletedIsInPlace /\ WorkersEndTogether
=============================================================================

------------------------------- MODULE ModSelection -------------------------------
(***************************************************************************)
(* The mods that an operator picks for a profile (ModsView.vue): a selection *)
(* with a destination for each mod, kept in the browser for each profile,    *)
(* until a job has installed it.  The profile is changed while answers of    *)
(* the panel are on their way, and a page that was left still has the        *)
(* callbacks of its jobs.                                                     *)
(***************************************************************************)
EXTENDS Naturals, FiniteSets

CONSTANTS ModProfiles, \* an installation and a profile of it
          Picked,      \* mods, by their slugs
          Sides,       \* Sides[m]: what its client and its server side are
          SelectionLimit,   \* how many may be selected, 200 in the code
          MaxMounts,   \* bound: how often the page is opened
          MaxInstalls  \* bound: requests to install

ASSUME SelectionAssumption ==
    /\ Sides \in [Picked -> [client : {"required", "optional", "unsupported"},
                             server : {"required", "optional", "unsupported"}]]
    /\ SelectionLimit \in Nat \ {0} /\ MaxMounts \in Nat /\ MaxInstalls \in Nat

VARIABLES viewed,    \* the profile that is selected, on whatever page
          instance,  \* the page of mods that is open, by number, or 0
          instances, \* how many have been
          picks,     \* what is selected on it: slugs and their targets
          stored,    \* stored[q]: the selection in the browser's storage
          known,     \* the servers that the page knows
          installs,  \* the requests to install
          finishing  \* the pages that have been told of a success and refetch the active job

selectionVars == <<viewed, instance, instances, picks, stored, known, installs, finishing>>

NoPicks == [m \in {} |-> {}]
ServersOf(q) == {[profile |-> q]} \* one managed server of each

SelectionInit ==
    /\ viewed \in ModProfiles /\ instance = 0 /\ instances = 0 /\ picks = NoPicks
    /\ stored = [q \in ModProfiles |-> NoPicks] /\ known = {} /\ installs = {} /\ finishing = {}

\* Mutant: the list of the profile before it is shown until the next one comes.
KeepsPrevious(q) == {known}
(* The list of the servers of a profile is cached, or not fetched yet. *)
Lists(q) == {{}, ServersOf(q)}

-----------------------------------------------------------------------------
(* The page *)

(* restoreInstallSelection, now and whenever the profile changes. *)
OpenPage ==
    /\ instance = 0 /\ instances < MaxMounts
    /\ instances' = instances + 1 /\ instance' = instances'
    /\ picks' = stored[viewed] /\ known' \in Lists(viewed)
    /\ UNCHANGED <<viewed, stored, installs, finishing>>

LeavePage ==
    /\ instance # 0 /\ instance' = 0 /\ picks' = NoPicks /\ known' = {}
    /\ UNCHANGED <<viewed, instances, stored, installs, finishing>>

\* Mutant: what is selected stays selected.
Stays(q) == picks
Restored(q) == stored[q]

(* What was restored is saved, under the new key. *)
ViewProfile(q) ==
    /\ q # viewed /\ viewed' = q
    /\ IF instance = 0 THEN UNCHANGED <<picks, stored, known>>
       ELSE /\ picks' = Restored(q) /\ stored' = [stored EXCEPT ![q] = picks']
            /\ known' \in Lists(q)
    /\ UNCHANGED <<instance, instances, installs, finishing>>

ServersArrive ==
    /\ instance # 0 /\ known' = ServersOf(viewed)
    /\ UNCHANGED <<viewed, instance, instances, picks, stored, installs, finishing>>

\* Mutant: the watcher sees slugs that come and go, not their targets.
SavesSlugs == IF DOMAIN picks' = DOMAIN picks THEN stored ELSE [stored EXCEPT ![viewed] = picks']
Saves == [stored EXCEPT ![viewed] = picks']

Picks(now) ==
    /\ instance # 0 /\ picks' = now /\ stored' = Saves
    /\ UNCHANGED <<viewed, instance, instances, known, installs, finishing>>

(* defaultTargets; `of` is not in the code: the profile that was selected. *)
DefaultTarget(m) ==
    [of |-> viewed, client |-> IF Sides[m].client = "unsupported" THEN "none" ELSE Sides[m].client,
     servers |-> IF Sides[m].server = "required" THEN known ELSE {}]

HasAvailableDestination(m) ==
    Sides[m].client # "unsupported" \/ (Sides[m].server # "unsupported" /\ known # {})

(* toggleSelected *)
ToggleSelected(m) ==
    \/ /\ m \in DOMAIN picks
       /\ Picks([n \in DOMAIN picks \ {m} |-> picks[n]])
    \/ /\ m \notin DOMAIN picks /\ Cardinality(DOMAIN picks) < SelectionLimit
       /\ HasAvailableDestination(m)
       /\ Picks([n \in DOMAIN picks \cup {m} |-> IF n = m THEN DefaultTarget(m) ELSE picks[n]])

Retargets(m, target) == Picks([picks EXCEPT ![m] = target])

SetClientMode(m, mode) ==
    /\ m \in DOMAIN picks /\ Sides[m].client # "unsupported"
    /\ Retargets(m, [picks[m] EXCEPT !.client = mode])

ToggleServerTarget(m, b) ==
    /\ m \in DOMAIN picks /\ Sides[m].server # "unsupported" /\ b \in known
    /\ Retargets(m, [picks[m] EXCEPT !.servers = IF b \in @ THEN @ \ {b} ELSE @ \cup {b}])

ClearSelection == picks # NoPicks /\ Picks(NoPicks)

-----------------------------------------------------------------------------
(* The job *)

HasDestination(target) == target.client # "none" \/ target.servers # {}

(* selectedTargetsReady *)
TargetsReady(now) ==
    /\ DOMAIN now # {} /\ Cardinality(DOMAIN now) <= SelectionLimit
    /\ \A m \in DOMAIN now : HasDestination(now[m])

PostInstall ==
    /\ instance # 0 /\ TargetsReady(picks) /\ Cardinality(installs) < MaxInstalls
    /\ installs' = installs \cup {[number |-> Cardinality(installs) + 1, by |-> instance,
                                   profile |-> viewed, mods |-> picks, state |-> "sent"]}
    /\ UNCHANGED <<viewed, instance, instances, picks, stored, known, finishing>>

InState(r, state) ==
    installs' = (installs \ {r}) \cup {[number |-> r.number, by |-> r.by, profile |-> r.profile,
                                         mods |-> r.mods, state |-> state]}

(* The job is there, or the request is refused.  A page that is left, or that has posted         *)
(* something else, does not hear of it.                                                           *)
InstallAnswered(r) ==
    /\ r.state = "sent"
    /\ \/ InState(r, "refused")
       \/ InState(r, "unheard")
       \/ instance = r.by /\ InState(r, "heard")
    /\ UNCHANGED <<viewed, instance, instances, picks, stored, known, finishing>>

(* clearInstallSelection of page p: the selection that is stored for what is selected now. *)
Clears(p) ==
    /\ stored' = [stored EXCEPT ![viewed] = NoPicks]
    /\ picks' = IF p = instance THEN NoPicks ELSE picks

(* The notification has the handler of the page that posted; the page that is open has a         *)
(* notifier, if it follows this job.                                                              *)
InstallSucceeds(r) ==
    /\ r.state \in {"heard", "unheard"} /\ InState(r, "done")
    /\ IF r.state = "heard" THEN Clears(r.by) ELSE UNCHANGED <<stored, picks>>
    /\ \E told \in {{}, {instance} \ {0}} : finishing' = finishing \cup told
    /\ UNCHANGED <<viewed, instance, instances, known>>

(* jobFinished is called for every job of the page; an update of mods clears the selection, too. *)
UpdateSucceeds ==
    /\ instance # 0 /\ finishing = {} /\ finishing' = {instance} \* bound: one at a time
    /\ UNCHANGED <<viewed, instance, instances, picks, stored, known, installs>>

(* jobFinished, after finishJob. *)
JobFinished(p) ==
    /\ p \in finishing /\ finishing' = finishing \ {p} /\ Clears(p)
    /\ UNCHANGED <<viewed, instance, instances, known, installs>>

SelectionNext ==
    \/ OpenPage \/ LeavePage \/ ServersArrive \/ ClearSelection \/ PostInstall \/ UpdateSucceeds
    \/ \E q \in ModProfiles : ViewProfile(q)
    \/ \E m \in Picked :
          \/ ToggleSelected(m)
          \/ \E mode \in {"none", "required", "optional"} : SetClientMode(m, mode)
          \/ \E b \in known : ToggleServerTarget(m, b)
    \/ \E r \in installs : InstallAnswered(r) \/ InstallSucceeds(r)
    \/ \E p \in finishing : JobFinished(p)

SelectionSpec == SelectionInit /\ [][SelectionNext]_selectionVars

-----------------------------------------------------------------------------
(* Properties *)

Fit(now, q) == \A m \in DOMAIN now : now[m].of = q /\ now[m].servers \subseteq ServersOf(q)

\* What is selected, stored or sent for a profile was picked for this profile, with its own
\* servers, whatever profile is selected between an action and its answer.
SelectionsAreApart ==
    /\ \A q \in ModProfiles : Fit(stored[q], q)
    /\ Fit(picks, viewed)
    /\ \A r \in installs : Fit(r.mods, r.profile)

\* A page that is opened again shows what was selected, or nothing after a success; not an older
\* selection.
ReloadIsCurrent == instance # 0 => stored[viewed] \in {picks, NoPicks}

SelectionIsSound == SelectionsAreApart /\ ReloadIsCurrent
=============================================================================

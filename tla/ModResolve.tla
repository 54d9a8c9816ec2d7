-------------------------------- MODULE ModResolve --------------------------------
(***************************************************************************)
(* What has to be installed for a mod of Modrinth (resolveInstall of         *)
(* modrinth.service.ts): the project that was selected and, depth first, the *)
(* projects that its compatible version requires.  The selected project is   *)
(* named by its slug, the others by their ids.                                *)
(***************************************************************************)
EXTENDS Naturals, Sequences, FiniteSets

CONSTANTS Projects,   \* ids of the projects
          MaxVisits   \* how many references are followed, 64 in the code

ASSUME ResolveAssumption == IsFiniteSet(Projects) /\ MaxVisits \in Nat \ {0}

VARIABLES selected,   \* the project that the slug names
          needs,      \* needs[p]: what the compatible version of p requires
          compatible, \* the projects with a version for the profile
          supported,  \* the selected project supports the side
          visited,    \* the references that were followed
          visits,     \* the calls of visit that have not returned, innermost last
          resolved,   \* what will be installed, in this order
          resolution  \* "busy", "done" or "failed"

resolveVars == <<selected, needs, compatible, supported, visited, visits, resolved, resolution>>

\* A reference is the slug or an id; the same project has both.
Slug(p) == [by |-> "slug", project |-> p]
Id(p) == [by |-> "id", project |-> p]
AsRoot(p) == [project |-> p, as |-> "root"]
AsDependency(p) == [project |-> p, as |-> "dependency"]

ResolveInit ==
    /\ selected = (CHOOSE p \in Projects : TRUE) /\ needs = [q \in Projects |-> {}]
    /\ compatible = {} /\ supported = FALSE
    /\ visited = {} /\ visits = <<>> /\ resolved = <<>> /\ resolution = "none"

Innermost == visits[Len(visits)]
Requires(set) ==
    [visits EXCEPT ![Len(visits)] = [item |-> Innermost.item, at |-> "dependencies", todo |-> set]]
Returned == visits' = SubSeq(visits, 1, Len(visits) - 1)

\* Mutant: a project is marked when it has been resolved.
Follow(ref) == visited' = visited
Mark(ref) == visited' = visited \cup {ref}

(* resolveInstall: the slug is visited first.  Any dependencies, but of no project on itself. *)
BeginResolve ==
    /\ resolution = "none" /\ resolution' = "busy"
    /\ selected' \in Projects /\ needs' \in [Projects -> SUBSET Projects]
    /\ \A p \in Projects : p \notin needs'[p]
    /\ compatible' \in SUBSET Projects /\ supported' \in BOOLEAN
    /\ Mark(Slug(selected'))
    /\ visits' = <<[item |-> AsRoot(selected'), at |-> "project", todo |-> {}]>>
    /\ UNCHANGED resolved

(* The project and its versions: only for the selected one the side matters, and a dependency *)
(* without a version for the profile is left out. *)
ProjectArrives ==
    /\ resolution = "busy" /\ Innermost.at = "project"
    /\ LET item == Innermost.item
       IN  \/ /\ item.as = "root" /\ (~supported \/ item.project \notin compatible)
              /\ resolution' = "failed" /\ UNCHANGED visits
           \/ /\ item.as = "dependency" /\ item.project \notin compatible
              /\ Returned /\ UNCHANGED resolution
           \/ /\ item.project \in compatible /\ (item.as = "root" => supported)
              /\ visits' = Requires(needs[item.project])
              /\ UNCHANGED resolution
    /\ UNCHANGED <<selected, needs, compatible, supported, visited, resolved>>

(* A required dependency, by its id or by one of its versions, whose project is asked for. *)
NextDependency ==
    /\ resolution = "busy" /\ Innermost.at = "dependencies"
    /\ \E d \in Innermost.todo :
          LET rest == Requires(Innermost.todo \ {d})
          IN  \/ /\ Id(d) \in visited /\ visits' = rest /\ UNCHANGED <<visited, resolution>>
              \/ /\ Id(d) \notin visited
                 /\ IF Cardinality(visited) >= MaxVisits
                    THEN resolution' = "failed" /\ UNCHANGED <<visited, visits>>
                    ELSE /\ Mark(Id(d))
                         /\ visits' = Append(rest, [item |-> AsDependency(d), at |-> "project", todo |-> {}])
                         /\ UNCHANGED resolution
    /\ UNCHANGED <<selected, needs, compatible, supported, resolved>>

\* Mutant: a project is put before what it requires.
PutFirst(item) == <<item>> \o resolved
PutLast(item) == Append(resolved, item)

ProjectResolved ==
    /\ resolution = "busy" /\ Innermost.at = "dependencies" /\ Innermost.todo = {}
    /\ resolved' = PutLast(Innermost.item)
    /\ Returned
    /\ UNCHANGED <<selected, needs, compatible, supported, visited, resolution>>

ResolveReturns ==
    /\ resolution = "busy" /\ visits = <<>> /\ resolution' = "done"
    /\ UNCHANGED <<selected, needs, compatible, supported, visited, visits, resolved>>

(* A request is refused, or the version has no file. *)
ResolveFails ==
    /\ resolution = "busy" /\ visits # <<>> /\ resolution' = "failed"
    /\ UNCHANGED <<selected, needs, compatible, supported, visited, visits, resolved>>

ResolveNext ==
    \/ BeginResolve \/ ResolveReturns
    \/ visits # <<>> /\ (ProjectArrives \/ NextDependency \/ ProjectResolved \/ ResolveFails)

ResolveSpec == ResolveInit /\ [][ResolveNext]_resolveVars

-----------------------------------------------------------------------------
(* Properties *)

Needless(set) == \A p \in set : needs[p] \cap compatible \subseteq set

(* What is required directly or not, by the definition. *)
RequiredBy(p) ==
    {q \in Projects : \A set \in SUBSET Projects : p \in set /\ Needless(set) => q \in set}

ItemsOf(seq) == {seq[i] : i \in DOMAIN seq}

\* When all is resolved it is what the selected project requires, directly or not, and for which
\* there is a version: no more and no less, whatever the shape of the dependencies, cycles
\* included, and within the limit of references.
ResolvesWhatIsRequired ==
    resolution = "done" =>
       /\ {item.project : item \in ItemsOf(resolved)} = RequiredBy(selected)
       /\ Cardinality(visited) <= MaxVisits

\* What a project requires comes before it, except on a cycle; the selected project is the last,
\* and no other is there twice. (The selected one is, when a dependency requires it: it was
\* visited by its slug before.)
ResolvesInOrder ==
    resolution = "done" =>
       /\ resolved[Len(resolved)] = AsRoot(selected)
       /\ \A i, j \in DOMAIN resolved :
             resolved[i] = resolved[j] => i = j
       /\ \A i \in DOMAIN resolved :
             /\ resolved[i].as = "root" => resolved[i].project = selected
             /\ \A q \in needs[resolved[i].project] \cap compatible :
                   \/ \E j \in 1 .. i - 1 : resolved[j].project = q
                   \/ resolved[i].project \in RequiredBy(q)

ResolvedIsClosed == ResolvesWhatIsRequired /\ ResolvesInOrder
=============================================================================

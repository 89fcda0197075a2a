------------------------------ MODULE Publish ------------------------------
(***************************************************************************)
(* scripts/publish.js, as the release workflow runs it on the commits of   *)
(* master: jobs may overlap, and be run again on an older commit.  The npm *)
(* registry takes a version once; any call to it may fail, and a publish   *)
(* may fail after the registry has taken it.                               *)
(***************************************************************************)
EXTENDS Integers, Sequences, FiniteSets

CONSTANTS
  Job,          \* jobs that may run at a time
  Package,
  Commit,
  VersionAt,    \* the version of each package at each commit
  Directories,  \* the packages of libs that are not private, as readdirSync lists them
  Broken,       \* at each commit, the packages whose package.json cannot be parsed
  Order,        \* the packages whose order is fixed: the core, and its dependents
  Dependents,   \* the packages that depend on the core
  All,          \* no package filter
  PackageArgs   \* the filters the workflow is dispatched with: its input is a free string

ASSUME DependentsAssumption == Dependents \subseteq Package /\ All \notin Package
ASSUME DirectoriesAssumption ==
  Directories \in Seq(Package) /\ \A p \in Package : \E n \in DOMAIN Directories : Directories[n] = p
ASSUME BrokenAssumption ==
  IsFiniteSet(Package) /\ Broken \in [Commit -> SUBSET Package]
ASSUME OrderAssumption == Order \in Seq(Package) /\ Order # <<>> /\ Order[1] \notin Dependents

VARIABLES
  registry,   \* the versions npm has
  job         \* the jobs; failed is auxiliary

publishVars == <<registry, job>>

Core == Order[1]

\* failed holds the packages whose publication failed; exit is -1 before the end.
NoJob == [commit |-> 0, dryRun |-> FALSE, packageArg |-> All, packages |-> <<>>, missing |-> FALSE,
          hasError |-> FALSE, exit |-> -1, failed |-> {}]

PublishInit ==
  /\ registry = {}
  /\ job = [j \in Job |-> NoJob]

\* map and filter: a package.json that cannot be parsed is logged, and its package is
\* left out without an error.
Publishable(commit) == Package \ Broken[commit]

\* The packages as they come in the listing.
Listed(listing, packages) ==
  LET Before(p, q) == \E n \in DOMAIN listing : listing[n] = p /\ \A m \in 1..n : listing[m] # q
  IN  {s \in [1..Cardinality(packages) -> packages] :
         /\ \A p \in packages : \E n \in DOMAIN s : s[n] = p
         /\ \A m, n \in DOMAIN s : m < n => Before(s[m], s[n])}

\* Mutant: the packages as they are listed.
SortedAsListed(packages) == Listed(Directories, packages)

\* Array.sort is stable: the packages with a place come as in the order, then the
\* others as they are listed.
Sorted(packages) == Listed(Order \o Directories, packages)

Release(j) == <<Head(job[j].packages), VersionAt[job[j].commit][Head(job[j].packages)]>>

Running(j) == job[j].exit = -1 /\ job[j].packages # <<>>

Done(j) == job[j].exit # -1 \/ job[j] = NoJob

RunJob(j, commit, dryRun, packageArg) ==
  /\ Done(j)
  /\ \E packages \in Sorted(Publishable(commit)) :
       job' = [job EXCEPT ![j] = [NoJob EXCEPT !.commit = commit, !.dryRun = dryRun,
                                               !.packageArg = packageArg, !.packages = packages]]
  /\ UNCHANGED registry

NextPackage(j) == [job[j] EXCEPT !.packages = Tail(@), !.missing = FALSE]

\* A package the filter leaves out.
SkipPackage(j) ==
  /\ Running(j) /\ job[j].packageArg \notin {All, Head(job[j].packages)}
  /\ job' = [job EXCEPT ![j] = NextPackage(j)]
  /\ UNCHANGED registry

\* npm view: what it cannot find, and any failure, is not published.
IsPublished(j) ==
  /\ Running(j) /\ job[j].packageArg \in {All, Head(job[j].packages)} /\ ~job[j].missing
  /\ \/ Release(j) \in registry /\ job' = [job EXCEPT ![j] = NextPackage(j)]
     \/ job' = [job EXCEPT ![j].missing = TRUE]
  /\ UNCHANGED registry

DryRun(j) ==
  /\ Running(j) /\ job[j].missing /\ job[j].dryRun
  /\ job' = [job EXCEPT ![j] = NextPackage(j)]
  /\ UNCHANGED registry

Published(j) ==
  /\ Running(j) /\ job[j].missing /\ ~job[j].dryRun
  /\ Release(j) \notin registry
  /\ registry' = registry \cup {Release(j)}
  /\ job' = [job EXCEPT ![j] = NextPackage(j)]

\* Mutant: only the last package decides.
PublishFailedLast(j) ==
  /\ Running(j) /\ job[j].missing /\ ~job[j].dryRun
  /\ registry' \in {registry, registry \cup {Release(j)}}
  /\ job' = [job EXCEPT ![j] = [NextPackage(j) EXCEPT !.hasError = Len(job[j].packages) = 1,
                                                      !.failed = @ \cup {Head(job[j].packages)}]]

\* The registry refuses, or cannot be reached, or its answer is lost.
PublishFailed(j) ==
  /\ Running(j) /\ job[j].missing /\ ~job[j].dryRun
  /\ registry' \in {registry, registry \cup {Release(j)}}
  /\ job' = [job EXCEPT ![j] = [NextPackage(j) EXCEPT !.hasError = TRUE,
                                                      !.failed = @ \cup {Head(job[j].packages)}]]

\* Without a package the job ends well at once.
EndJob(j) ==
  /\ ~Done(j) /\ job[j].packages = <<>>
  /\ job' = [job EXCEPT ![j].exit = IF job[j].hasError THEN 1 ELSE 0]
  /\ UNCHANGED registry

PublishNext ==
  \E j \in Job :
    \/ \E commit \in Commit, dryRun \in BOOLEAN, packageArg \in PackageArgs :
         RunJob(j, commit, dryRun, packageArg)
    \/ SkipPackage(j) \/ IsPublished(j) \/ DryRun(j) \/ Published(j) \/ PublishFailed(j) \/ EndJob(j)

PublishSpec == PublishInit /\ [][PublishNext]_publishVars

-----------------------------------------------------------------------------
\* A job that exits with 0 leaves every package it was to publish and could read at the
\* version of its commit in the registry, whatever other jobs did meanwhile and whichever
\* calls of npm failed.  It says nothing of a package whose package.json it could not
\* parse, or of one a mistyped filter named; and a job may fail to publish what is there
\* (publish.js, isPublished and the loop).
ExitZeroMeansAll ==
  \A j \in Job :
    job[j].exit = 0 /\ ~job[j].dryRun =>
      \A p \in Publishable(job[j].commit) :
        job[j].packageArg \in {All, p} => <<p, VersionAt[job[j].commit][p]>> \in registry

\* A dependent is published before the core of its commit only by a job that failed to
\* publish the core, could not read its package.json, or was told to publish that package
\* alone: hasError does not stop the loop (publish.js, order and sort).
DependentsAfterCore ==
  [][\A p \in Dependents, j \in Job :
       LET commit == job[j].commit
       IN  /\ Running(j) /\ Head(job[j].packages) = p /\ job'[j] # job[j]
           /\ Release(j) \in registry' \ registry
           => \/ <<Core, VersionAt[commit][Core]>> \in registry
              \/ Core \in job[j].failed
              \/ Core \in Broken[commit]
              \/ job[j].packageArg = p]_publishVars
=============================================================================

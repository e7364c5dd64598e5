--------------------------------- MODULE Apps ---------------------------------
(***************************************************************************)
(* The registry of applications and of their releases (handlers_v1.go,      *)
(* repositories_actions.go) and the seed of a start (app_registry_seed.go). *)
(* A row replaces an earlier one of its id: of two the one with the greater *)
(* Version stays, of equal ones the later.                                  *)
(***************************************************************************)
EXTENDS Integers, Sequences, FiniteSets

CONSTANTS
    AppIds, ReleaseIds, \* ids, given by a client or fresh
    Slugs,
    Clients,    \* requests at once
    Seed,       \* SOBS_APP_REGISTRY_SEED_JSON: [id, slug, release], "" for an id left out
    MaxAppMs,   \* bound on the clock of Version
    MaxAppCalls,\* bound on the requests and starts
    MaxAppFaults

\* What the seed leaves out is ""; ids are not.
AppAssumption ==
    /\ Seed.id \in AppIds \cup {""} /\ Seed.release \in ReleaseIds \cup {""}

VARIABLES
    appMs,      \* the clock of Version, in milliseconds
    apps,       \* sobs_apps FINAL
    releases,   \* sobs_app_releases FINAL
    artifacts,  \* the releases of the rows of sobs_release_artifacts
    client,     \* the requests
    boot,       \* the seed of this start: what it has looked up
    appCalls, appFaults,
    gone        \* history: apps whose deletion was answered and met no other request
tables == <<apps, releases, artifacts>>
vars == <<appMs, tables, client, boot, appCalls, appFaults, gone>>

NoApp == [live |-> FALSE, ver |-> 0, slug |-> ""]
NoRelease == [live |-> FALSE, ver |-> 0, app |-> ""]
IdleClient == [at |-> "idle", op |-> "", id |-> "", row |-> NoApp, found |-> {}, met |-> FALSE]
Up == [at |-> "up", app |-> "", release |-> ""]

Init ==
    /\ appMs = 1
    /\ apps = [a \in AppIds |-> NoApp]
    /\ releases = [r \in ReleaseIds |-> NoRelease]
    /\ artifacts = <<>>
    /\ client = [c \in Clients |-> IdleClient]
    /\ boot = [Up EXCEPT !.at = "apps"]
    /\ appCalls = 0 /\ appFaults = 0
    /\ gone = {}

Put(table, id, row) == IF row.ver < table[id].ver THEN table ELSE [table EXCEPT ![id] = row]
LiveApps == {a \in AppIds : apps[a].live}
LiveReleases == {r \in ReleaseIds : releases[r].live}
SlugTaken(slug, but) == \E a \in LiveApps \ but : apps[a].slug = slug
NewId(table) == {i \in DOMAIN table : table[i].ver = 0}

\* A request begins; those that run at the same time know of each other.
Begin(c, request) ==
    /\ boot.at = "up" /\ client[c].at = "idle" /\ appCalls < MaxAppCalls
    /\ appCalls' = appCalls + 1
    /\ LET others == {d \in Clients \ {c} : client[d].at # "idle"}
       IN client' = [d \in Clients |->
            IF d = c THEN [request EXCEPT !.met = others # {}]
            ELSE [client[d] EXCEPT !.met = d \in others]]
    /\ UNCHANGED <<appMs, tables, boot, appFaults, gone>>
Step(c, request) == client' = [client EXCEPT ![c] = request]
Answer(c) == Step(c, IdleClient)
Fails == appFaults < MaxAppFaults /\ appFaults' = appFaults + 1

-----------------------------------------------------------------------------
(* Applications.                                                           *)

\* POST /v1/apps with an id, or with a fresh one: 409 if the slug is taken.
handleV1Apps(c) == \E a \in AppIds, slug \in Slugs :
    /\ ~SlugTaken(slug, {})
    /\ Begin(c, [IdleClient EXCEPT !.at = "app", !.op = "create", !.id = a,
                 !.row = [live |-> TRUE, ver |-> appMs, slug |-> slug]])
\* The form of a new repository: always a fresh id.
createSettingsRepository(c) == \E a \in NewId(apps), slug \in Slugs :
    /\ ~SlugTaken(slug, {})
    /\ Begin(c, [IdleClient EXCEPT !.at = "app", !.op = "create", !.id = a,
                 !.row = [live |-> TRUE, ver |-> appMs, slug |-> slug]])

\* PATCH /v1/apps/<id>: the whole row is written, but for the fields given as it was read.
handleV1AppPatch(c) == \E a \in LiveApps, slug \in Slugs :
    /\ ~SlugTaken(slug, {a})
    /\ Begin(c, [IdleClient EXCEPT !.at = "app", !.op = "patch", !.id = a,
                 !.row = [live |-> TRUE, ver |-> appMs, slug |-> slug]])
\* The form of a repository keeps the slug and does not ask who else has it.
repoUpdate(c) == \E a \in LiveApps :
    Begin(c, [IdleClient EXCEPT !.at = "app", !.op = "patch", !.id = a,
              !.row = [apps[a] EXCEPT !.ver = appMs]])

\* Deleting it; the Version is also that of the rows that end its releases.
repoDelete(c) == \E a \in LiveApps :
    Begin(c, [IdleClient EXCEPT !.at = "app", !.op = "delete", !.id = a,
              !.row = [apps[a] EXCEPT !.live = FALSE, !.ver = appMs]])

\* The row of the request goes in, or the answer is 500.
insertApp(c) ==
    /\ client[c].at = "app"
    /\ \/ /\ apps' = Put(apps, client[c].id, client[c].row)
          /\ IF client[c].op = "delete" THEN Step(c, [client[c] EXCEPT !.at = "releases"]) ELSE Answer(c)
          /\ gone' = IF client[c].op = "create" THEN gone \ {client[c].id} ELSE gone
          /\ UNCHANGED appFaults
       \/ Fails /\ Answer(c) /\ UNCHANGED <<apps, gone>>
    /\ UNCHANGED <<appMs, releases, artifacts, boot, appCalls>>

\* The releases of a deleted application are looked up; when that fails they stay
\* and the answer is still a success.
findReleases(c) ==
    /\ client[c].at = "releases"
    /\ \/ /\ Step(c, [client[c] EXCEPT !.at = "cascade",
                   !.found = {r \in LiveReleases : releases[r].app = client[c].id}])
          /\ UNCHANGED appFaults
       \/ Fails /\ Answer(c)
    /\ UNCHANGED <<appMs, tables, boot, appCalls, gone>>
Deleted(c) == IF client[c].met THEN gone ELSE gone \cup {client[c].id}
\* Faulty form: the rows go in without a Version, and the releases stay.
endReleasesUnversioned(c) ==
    /\ client[c].at = "cascade"
    /\ Answer(c) /\ gone' = Deleted(c)
    /\ UNCHANGED <<appMs, tables, boot, appCalls, appFaults>>
endReleases(c) ==
    /\ client[c].at = "cascade"
    /\ \/ /\ releases' = [r \in ReleaseIds |->
                IF r \in client[c].found /\ releases[r].ver <= client[c].row.ver
                THEN [releases[r] EXCEPT !.live = FALSE, !.ver = client[c].row.ver]
                ELSE releases[r]]
          /\ gone' = Deleted(c)
          /\ UNCHANGED appFaults
       \/ Fails /\ client[c].found # {} /\ UNCHANGED <<releases, gone>>
    /\ Answer(c)
    /\ UNCHANGED <<appMs, apps, artifacts, boot, appCalls>>

-----------------------------------------------------------------------------
(* Releases.                                                               *)

\* The form of a repository adds a release with a fresh id.
repoAddRelease(c) == \E a \in LiveApps, r \in NewId(releases) :
    Begin(c, [IdleClient EXCEPT !.at = "release", !.id = r,
              !.row = [live |-> TRUE, ver |-> appMs, app |-> a]])
\* POST /v1/apps/<id>/releases, with an id or not: 404 unless the application lives.
addRelease(c) == \E a \in LiveApps, r \in ReleaseIds :
    Begin(c, [IdleClient EXCEPT !.at = "release", !.id = r,
              !.row = [live |-> TRUE, ver |-> appMs, app |-> a]])
insertRelease(c) ==
    /\ client[c].at = "release"
    /\ \/ releases' = Put(releases, client[c].id, client[c].row) /\ UNCHANGED appFaults
       \/ Fails /\ UNCHANGED releases
    /\ Answer(c)
    /\ UNCHANGED <<appMs, apps, artifacts, boot, appCalls, gone>>

\* POST /v1/releases/<id>/artifacts/meta without an id: 404 unless the release lives.
addArtifact(c) == \E r \in LiveReleases :
    Begin(c, [IdleClient EXCEPT !.at = "artifact", !.id = r])
insertArtifact(c) ==
    /\ client[c].at = "artifact"
    /\ \/ artifacts' = Append(artifacts, client[c].id) /\ UNCHANGED appFaults
       \/ Fails /\ UNCHANGED artifacts
    /\ Answer(c)
    /\ UNCHANGED <<appMs, apps, releases, boot, appCalls, gone>>

-----------------------------------------------------------------------------
(* Starts.                                                                 *)

\* The process ends, whatever the requests had done, and starts.
Restart ==
    /\ boot.at = "up" /\ appCalls < MaxAppCalls
    /\ appCalls' = appCalls + 1
    /\ boot' = [Up EXCEPT !.at = "apps"]
    /\ client' = [c \in Clients |-> IdleClient]
    /\ UNCHANGED <<appMs, tables, appFaults, gone>>

\* The seed names its application by id, or takes the living one of its slug, or
\* a fresh id; a lookup that fails found nothing.
lookupAppIDBySlug ==
    /\ boot.at = "apps"
    /\ LET living == {a \in LiveApps : apps[a].slug = Seed.slug}
           take(ids) == \E a \in ids : boot' = [boot EXCEPT !.at = "releases", !.app = a]
       IN IF Seed.id # "" THEN take({Seed.id}) /\ UNCHANGED appFaults
          ELSE \/ take(IF living # {} THEN living ELSE NewId(apps)) /\ UNCHANGED appFaults
               \/ Fails /\ take(NewId(apps))
    /\ UNCHANGED <<appMs, tables, client, appCalls, gone>>
\* Its release likewise, among the living ones of that application.
lookupReleaseID ==
    /\ boot.at = "releases"
    /\ LET living == {r \in LiveReleases : releases[r].app = boot.app}
           take(ids) == \E r \in ids : boot' = [boot EXCEPT !.at = "rows", !.release = r]
       IN IF Seed.release # "" THEN take({Seed.release}) /\ UNCHANGED appFaults
          ELSE \/ take(IF living # {} THEN living ELSE NewId(releases)) /\ UNCHANGED appFaults
               \/ Fails /\ take(NewId(releases))
    /\ UNCHANGED <<appMs, tables, client, appCalls, gone>>
\* The three inserts, each of which may fail unnoticed; the artifact has a fresh id.
seedAppRegistry ==
    /\ boot.at = "rows"
    /\ boot' = Up
    /\ \E lost \in SUBSET {"apps", "releases", "artifacts"} :
        /\ appFaults + Cardinality(lost) <= MaxAppFaults
        /\ appFaults' = appFaults + Cardinality(lost)
        /\ apps' = IF "apps" \in lost THEN apps
                   ELSE Put(apps, boot.app, [live |-> TRUE, ver |-> appMs, slug |-> Seed.slug])
        /\ releases' = IF "releases" \in lost THEN releases
                       ELSE Put(releases, boot.release, [live |-> TRUE, ver |-> appMs, app |-> boot.app])
        /\ artifacts' = IF "artifacts" \in lost THEN artifacts ELSE Append(artifacts, boot.release)
    /\ gone' = gone \ {boot.app}
    /\ UNCHANGED <<appMs, client, appCalls>>

Tick ==
    /\ appMs < MaxAppMs /\ appMs' = appMs + 1
    /\ UNCHANGED <<tables, client, boot, appCalls, appFaults, gone>>

Next ==
    \/ \E c \in Clients :
        \/ handleV1Apps(c) \/ createSettingsRepository(c) \/ handleV1AppPatch(c)
        \/ repoUpdate(c) \/ repoDelete(c) \/ insertApp(c)
        \/ findReleases(c) \/ endReleases(c)
        \/ repoAddRelease(c) \/ addRelease(c) \/ insertRelease(c) \/ addArtifact(c) \/ insertArtifact(c)
    \/ Restart \/ lookupAppIDBySlug \/ lookupReleaseID \/ seedAppRegistry
    \/ Tick
Spec == Init /\ [][Next]_vars

-----------------------------------------------------------------------------
\* An application whose deletion was answered, with no other request at work, is
\* gone with all its releases until one is created under its id: no request that
\* comes later, and no start but one whose seed takes its id, brings them back.
DeletionHolds ==
    /\ gone \cap LiveApps = {}
    /\ \A r \in LiveReleases : releases[r].app \notin gone

=============================================================================

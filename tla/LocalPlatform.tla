--------------------------- MODULE LocalPlatform ---------------------------
(***************************************************************************)
(* The local Kubernetes/GitOps platform (scripts/s9-local.mjs).  Each      *)
(* command of the tool is a sequence of calls to Docker, kind, kubectl and *)
(* Git; any call may fail, or the process may be killed, after any of      *)
(* them, and the operator then runs the same or another command over what  *)
(* is left.  What is left is spread over the Docker host, the cluster, the *)
(* registry, the local Git repository and the files of .cache/s9.          *)
(*                                                                         *)
(* A step's guard is the code's condition; where it does not hold the code *)
(* throws, and the only step left is Fail.                                 *)
(***************************************************************************)
EXTENDS Naturals, Sequences

CONSTANTS
  Groups,       \* the groups of credentials, in the order they are applied
  Names,        \* the images, in the order they are pushed
  Runtime,      \* the images of the workloads Argo CD keeps running
  Versions,     \* the builds of the images
  MaxClusters,  \* bound: clusters created
  MaxSecrets,   \* bound: sets of credentials generated
  Theirs,       \* what carries one of the tool's names and is not the tool's
  None

ASSUME GroupsAssumption == Groups \in Seq(STRING) /\ Len(Groups) > 0
ASSUME NamesAssumption == Names \in Seq(STRING) /\ Runtime \subseteq STRING

\* The migration is pushed, and after the images of the workloads.
ASSUME OrderAssumption ==
  /\ \E m \in DOMAIN Names : Names[m] = "migration"
  /\ \A m \in DOMAIN Names, r \in Runtime :
       Names[m] = "migration" => \E k \in 1..m - 1 : Names[k] = r
ASSUME BoundsAssumption == MaxClusters \in Nat /\ MaxSecrets \in Nat
ASSUME VersionsAssumption == None \notin Versions
ASSUME MarksAssumption ==
  None \notin Nat /\ Theirs \notin Nat /\ None # Theirs /\ "ours" \notin {None, Theirs}

VARIABLES
  docker,    \* the cluster, and whose the registry and Git containers are
  registry,  \* the digests the registry holds
  kube,      \* what is in the cluster, gone when it is deleted
  files,     \* what .cache/s9 says
  repo,      \* the images and chart the Git repository's main asks for
  built,     \* the build on the Docker host, and whether admission takes it
  chart,     \* whether the chart in the checkout keeps the runtime policy
  made,      \* the clusters and sets of credentials made so far
  cmd        \* the command running, its step, and what it has in memory

vars == <<docker, registry, kube, files, repo, built, chart, made, cmd>>

NoSecrets == [k \in DOMAIN Groups |-> None]
Fresh == [nodes |-> FALSE, namespace |-> FALSE, argo |-> FALSE,
          secrets |-> NoSecrets, data |-> None, schema |-> FALSE,
          roles |-> None, app |-> FALSE]
Idle == [name |-> "idle", at |-> "idle", n |-> 0, held |-> None]

Init ==
  /\ docker = [cluster |-> None, registry |-> None, git |-> None]
  /\ registry = {}
  /\ kube = Fresh
  /\ files = [marker |-> None, images |-> None, promotion |-> None,
              secrets |-> None, bootstrap |-> None, source |-> None]
  /\ repo = [images |-> None, safe |-> TRUE]
  /\ chart = TRUE
  /\ built = [version |-> None, fit |-> FALSE]
  /\ made = [clusters |-> 0, secrets |-> 0]
  /\ cmd = Idle

----------------------------------------------------------------------------
(* Ownership: every command that touches the cluster begins with it. *)

requireOwner == files.marker # None /\ docker.cluster = files.marker

requireNamespace == requireOwner /\ kube.namespace

\* FALSE for a container that is absent, no value (a throw) for a stranger's.
ownedContainer(c) == c # Theirs

At(name, step) == cmd.name = name /\ cmd.at = step
Go(step) == cmd' = [cmd EXCEPT !.at = step]

\* The command is accepted: its preconditions hold, it takes its first step.
Start(name, first) ==
  /\ cmd = Idle
  /\ cmd' = [Idle EXCEPT !.name = name, !.at = first]
  /\ UNCHANGED <<docker, registry, kube, files, repo, built, chart, made>>

\* A step throws, a call fails or times out, or the process is killed:
\* nothing is undone.
Fail ==
  /\ cmd # Idle
  /\ cmd' = Idle
  /\ UNCHANGED <<docker, registry, kube, files, repo, built, chart, made>>

----------------------------------------------------------------------------
(* cluster *)

startRegistry ==
  /\ ownedContainer(docker.registry)
  /\ docker' = [docker EXCEPT !.registry = "ours"]

\* A cluster that is there must be the one the marker names.
FindCluster ==
  /\ At("cluster", "find")
  /\ IF docker.cluster # None
       THEN requireOwner /\ Go("join") /\ UNCHANGED docker
       ELSE startRegistry /\ Go("create")
  /\ UNCHANGED <<registry, kube, files, repo, built, chart, made>>

CreateKind ==
  /\ At("cluster", "create")
  /\ docker.cluster = None /\ made.clusters < MaxClusters
  /\ made' = [made EXCEPT !.clusters = @ + 1]
  /\ docker' = [docker EXCEPT !.cluster = made.clusters + 1]
  /\ kube' = Fresh
  /\ Go("mark")
  /\ UNCHANGED <<registry, files, repo, built, chart>>

SaveMarker ==
  /\ At("cluster", "mark")
  /\ files' = [files EXCEPT !.marker = docker.cluster]
  /\ Go("join")
  /\ UNCHANGED <<docker, registry, kube, repo, built, chart, made>>

\* The registry joins the cluster's network; each node gets its mirror, the
\* runtimes' specifications and containerd's configuration.
JoinNodes ==
  /\ At("cluster", "join")
  /\ startRegistry
  /\ kube' = [kube EXCEPT !.nodes = TRUE]
  /\ Go("platform")
  /\ UNCHANGED <<registry, files, repo, built, chart, made>>

\* Network, PID ceilings, then the namespace every other command asks for.
ApplyPlatform ==
  /\ At("cluster", "platform")
  /\ kube' = [kube EXCEPT !.namespace = TRUE]
  /\ Go("argo")
  /\ UNCHANGED <<docker, registry, files, repo, built, chart, made>>

InstallArgo ==
  /\ At("cluster", "argo")
  /\ kube' = [kube EXCEPT !.argo = TRUE]
  /\ cmd' = Idle
  /\ UNCHANGED <<docker, registry, files, repo, built, chart, made>>

----------------------------------------------------------------------------
(* promote *)

\* Build, scan, revision and context must be of this checkout and recent.
assertAdmission == built.version # None /\ built.fit

Admit ==
  /\ At("promote", "admit")
  /\ assertAdmission
  /\ cmd' = [cmd EXCEPT !.at = "push", !.n = 1, !.held = built.version]
  /\ UNCHANGED <<docker, registry, kube, files, repo, built, chart, made>>

\* A slip: the operators' images first.
pushOrderReversed == Len(Names) + 1 - cmd.n

pushed == cmd.n

\* The chart renders with the images promoted (images.json is its values
\* file) to workloads, services and network policies of the expected kind.
assertRuntimePolicy == files.images # None /\ chart

\* One image: push, pull back by digest, compare with the scanned config.  It
\* goes to the port of the registry, whoever has it; that promote has found the
\* namespace makes it ours.
Push ==
  /\ At("promote", "push")
  /\ docker.registry # None
  /\ registry' = registry \cup {<<Names[pushed], cmd.held>>}
  /\ cmd' = IF cmd.n < Len(Names) THEN [cmd EXCEPT !.n = @ + 1]
            ELSE [cmd EXCEPT !.at = "values"]
  /\ UNCHANGED <<docker, kube, files, repo, built, chart, made>>

\* images.json is written before the rendered chart is checked against it.
SaveImages ==
  /\ At("promote", "values")
  /\ files' = [files EXCEPT !.images = cmd.held]
  /\ Go("policy")
  /\ UNCHANGED <<docker, registry, kube, repo, built, chart, made>>

SavePromotion ==
  /\ At("promote", "policy")
  /\ assertRuntimePolicy
  /\ files' = [files EXCEPT !.promotion = cmd.held]
  /\ cmd' = Idle
  /\ UNCHANGED <<docker, registry, kube, repo, built, chart, made>>

----------------------------------------------------------------------------
(* bootstrap *)

\* Retained data or credentials: secrets.json must not be made anew.
Retained == kube.data # None \/ kube.secrets # NoSecrets

\* A new, random value for every name of every group.
generateSecrets == made.secrets + 1

ReadSecrets ==
  /\ At("bootstrap", "secrets")
  /\ IF files.secrets # None
       THEN UNCHANGED <<files, made>>
       ELSE /\ ~Retained /\ made.secrets < MaxSecrets
            /\ made' = [made EXCEPT !.secrets = @ + 1]
            /\ files' = [files EXCEPT !.secrets = generateSecrets]
  /\ cmd' = [cmd EXCEPT !.at = "apply", !.n = 1, !.held = files'.secrets]
  /\ UNCHANGED <<docker, registry, kube, repo, built, chart>>

\* A slip: what is there is overwritten.
overwrites(prior) == TRUE

\* A credential that is there must be the one in the file.
matches(prior) == prior \in {None, cmd.held}

ApplySecret ==
  /\ At("bootstrap", "apply")
  /\ IF cmd.n > Len(Groups)
       THEN Go("unowned") /\ UNCHANGED kube
       ELSE /\ matches(kube.secrets[cmd.n])
            /\ kube' = [kube EXCEPT !.secrets = [@ EXCEPT ![cmd.n] = cmd.held]]
            /\ cmd' = [cmd EXCEPT !.n = @ + 1]
  /\ UNCHANGED <<docker, registry, files, repo, built, chart, made>>

\* Only the first bootstrap applies imperatively: Argo CD must not own the
\* runtime yet (and its resource kinds must exist to be asked about).
CheckUnowned ==
  /\ At("bootstrap", "unowned")
  /\ assertRuntimePolicy
  /\ kube.argo /\ ~kube.app
  /\ Go("data")
  /\ UNCHANGED <<docker, registry, kube, files, repo, built, chart, made>>

\* A new PostgreSQL volume is initialised with the password of the Secret.
StartData ==
  /\ At("bootstrap", "data")
  /\ kube' = [kube EXCEPT !.data = IF @ = None THEN kube.secrets[1] ELSE @]
  /\ Go("migrate")
  /\ UNCHANGED <<docker, registry, files, repo, built, chart, made>>

\* The Job completes only if the nodes can pull its image.
operator(name) ==
  /\ docker.registry = "ours"
  /\ <<name, files.images>> \in registry

Migrate ==
  /\ At("bootstrap", "migrate")
  /\ operator("migration")
  /\ kube' = [kube EXCEPT !.schema = TRUE]
  /\ Go("roles")
  /\ UNCHANGED <<docker, registry, files, repo, built, chart, made>>

\* A later, compatible migration is a command of its own.
MigrateAgain ==
  /\ At("migration", "migrate")
  /\ kube.data # None /\ operator("migration")
  /\ kube' = [kube EXCEPT !.schema = TRUE]
  /\ cmd' = Idle
  /\ UNCHANGED <<docker, registry, files, repo, built, chart, made>>

\* CREATE ROLE with the password in memory, unless the role exists.
roleSql == IF kube.roles = None THEN cmd.held ELSE kube.roles

CreateRoles ==
  /\ At("bootstrap", "roles")
  /\ kube' = [kube EXCEPT !.roles = roleSql]
  /\ Go("record")
  /\ UNCHANGED <<docker, registry, files, repo, built, chart, made>>

SaveBootstrap ==
  /\ At("bootstrap", "record")
  /\ files' = [files EXCEPT !.bootstrap = files.marker]
  /\ cmd' = Idle
  /\ UNCHANGED <<docker, registry, kube, repo, built, chart, made>>

----------------------------------------------------------------------------
(* sync *)

bootstrapped == files.bootstrap # None /\ files.bootstrap = files.marker

\* The snapshot (chart and images.json) is committed and pushed.
PushSnapshot ==
  /\ At("sync", "push")
  /\ bootstrapped
  /\ assertRuntimePolicy
  /\ repo' = [images |-> files.images, safe |-> chart]
  /\ Go("serve")
  /\ UNCHANGED <<docker, registry, kube, files, built, chart, made>>

ServeGit ==
  /\ At("sync", "serve")
  /\ ownedContainer(docker.git)
  /\ docker' = [docker EXCEPT !.git = "ours"]
  /\ Go("application")
  /\ UNCHANGED <<registry, kube, files, repo, built, chart, made>>

ApplyApplication ==
  /\ At("sync", "application")
  /\ kube.argo
  /\ kube' = [kube EXCEPT !.app = TRUE]
  /\ Go("source")
  /\ UNCHANGED <<docker, registry, files, repo, built, chart, made>>

SaveSource ==
  /\ At("sync", "source")
  /\ files' = [files EXCEPT !.source = files.images]
  /\ cmd' = Idle
  /\ UNCHANGED <<docker, registry, kube, repo, built, chart, made>>

----------------------------------------------------------------------------
(* destroy --delete-data *)

DeleteCluster ==
  /\ At("destroy", "delete")
  /\ requireOwner
  /\ ownedContainer(docker.registry) /\ ownedContainer(docker.git)
  /\ docker' = [docker EXCEPT !.cluster = None]
  /\ kube' = Fresh
  /\ Go("registry")
  /\ UNCHANGED <<registry, files, repo, built, chart, made>>

RemoveRegistry ==
  /\ At("destroy", "registry")
  /\ ownedContainer(docker.registry)
  /\ docker' = [docker EXCEPT !.registry = None]
  /\ registry' = {}
  /\ Go("git")
  /\ UNCHANGED <<kube, files, repo, built, chart, made>>

RemoveGit ==
  /\ At("destroy", "git")
  /\ ownedContainer(docker.git)
  /\ docker' = [docker EXCEPT !.git = None]
  /\ cmd' = Idle
  /\ UNCHANGED <<registry, kube, files, repo, built, chart, made>>

----------------------------------------------------------------------------
(* Around the tool: images are rebuilt, the chart is edited, secrets.json  *)
(* is lost or an older one is put back, each between commands (a command   *)
(* reads them once, or its operator is not editing them meanwhile); others *)
(* take and leave the tool's names at any time.                            *)

Rebuild(v, fit) ==
  /\ cmd = Idle
  /\ built' = [version |-> v, fit |-> fit]
  /\ built' # built
  /\ UNCHANGED <<docker, registry, kube, files, repo, chart, made, cmd>>

EditChart ==
  /\ cmd = Idle
  /\ chart' = ~chart
  /\ UNCHANGED <<docker, registry, kube, files, repo, built, made, cmd>>

PutSecrets(g) ==
  /\ cmd = Idle
  /\ g # files.secrets
  /\ files' = [files EXCEPT !.secrets = g]
  /\ UNCHANGED <<docker, registry, kube, repo, built, chart, made, cmd>>

Stranger(what) ==
  /\ docker[what] \in {None, Theirs}
  /\ docker' = [docker EXCEPT ![what] = IF @ = None THEN Theirs ELSE None]
  /\ UNCHANGED <<registry, kube, files, repo, built, chart, made, cmd>>

----------------------------------------------------------------------------
\* What the process does; Fail is what becomes of it at any step.
Command ==
  \/ Start("cluster", "find") \/ Start("destroy", "delete")
  \/ requireNamespace /\ Start("promote", "admit")
  \/ requireNamespace /\ Start("bootstrap", "secrets")
  \/ requireNamespace /\ Start("migration", "migrate")
  \/ requireNamespace /\ Start("sync", "push")

Step ==
  \/ FindCluster \/ CreateKind \/ SaveMarker \/ JoinNodes \/ ApplyPlatform
  \/ InstallArgo \/ Admit \/ Push \/ SaveImages \/ SavePromotion
  \/ ReadSecrets \/ ApplySecret \/ CheckUnowned \/ StartData \/ Migrate
  \/ MigrateAgain \/ CreateRoles \/ SaveBootstrap \/ PushSnapshot
  \/ ServeGit \/ ApplyApplication \/ SaveSource
  \/ DeleteCluster \/ RemoveRegistry \/ RemoveGit

Around ==
  \/ \E v \in Versions, fit \in BOOLEAN : Rebuild(v, fit)
  \/ \E g \in ({None} \cup 1..made.secrets) : PutSecrets(g)
  \/ \E what \in DOMAIN docker : Stranger(what)
  \/ EditChart

Next == Command \/ Step \/ Fail \/ Around

Spec == Init /\ [][Next]_vars

----------------------------------------------------------------------------
(* Properties *)

\* What the cluster and its data were set up with.
Generations ==
  {kube.secrets[k] : k \in DOMAIN Groups} \cup {kube.data, kube.roles}

\* The credentials in the cluster, the password PostgreSQL was initialised
\* with and the passwords of its roles all come from one secrets.json,
\* wherever bootstrap was interrupted and whatever became of the file since
\* (prepareSecrets refuses to make or to apply another one).
OneGeneration ==
  \A g, h \in Generations : g # None /\ h # None => g = h

\* Argo CD is given the runtime only on a cluster that was bootstrapped, and
\* asks only for images its registry has, in a chart that passed the policy:
\* over interrupted promotions, teardowns and rebuilt clusters, with the
\* records of earlier ones around.
ArgoCanRun ==
  kube.app =>
    /\ kube.nodes /\ kube.schema
    /\ kube.roles # None /\ kube.data = kube.roles
    /\ \A k \in DOMAIN Groups : kube.secrets[k] = kube.roles
    /\ repo.safe
    /\ docker.registry = "ours"
    /\ \A r \in Runtime : <<r, repo.images>> \in registry
=============================================================================

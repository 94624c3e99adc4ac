------------------------ MODULE LocalPlatformProofs ------------------------
(***************************************************************************)
(* Over any sequence of commands, each cut off anywhere, any number of     *)
(* clusters, groups of credentials, images and builds: the credentials in  *)
(* a cluster stay those of its data, and Argo CD is given only what it can *)
(* run.                                                                    *)
(*                                                                         *)
(* Neither is inductive.  Credentials are applied one by one, so what is   *)
(* applied is a prefix of one set (OneSet), which bootstrap completes      *)
(* before data and roles come to be (BootstrapSound).  The records in      *)
(* .cache/s9 outlive the cluster they speak of, so they count only for the *)
(* cluster of their number (Recorded), and numbers are never used again    *)
(* (Numbered).  The migration's image is pushed after the workloads'       *)
(* images, so a cluster that could be migrated finds them in the registry  *)
(* (Complete).                                                             *)
(***************************************************************************)
EXTENDS LocalPlatform, TLAPS

(***************************************************************************)
(* Types                                                                   *)
(***************************************************************************)
Owners == {None, Theirs, "ours"}
Builds == Versions \cup {None}
Numbers == Nat \cup {None}
Secrets == [DOMAIN Groups -> Numbers]

Dockers == [cluster : Numbers \cup {Theirs}, registry : Owners, git : Owners]
Kubes == [nodes : BOOLEAN, namespace : BOOLEAN, argo : BOOLEAN, secrets : Secrets,
          data : Numbers, schema : BOOLEAN, roles : Numbers, app : BOOLEAN]
Records == [marker : Numbers, images : Builds, promotion : Builds, secrets : Numbers,
            bootstrap : Numbers, source : Builds]
Repos == [images : Builds, safe : BOOLEAN]
Steps == {"idle", "find", "create", "mark", "join", "platform", "argo", "admit", "push",
          "values", "policy", "secrets", "apply", "unowned", "data", "migrate", "roles",
          "record", "serve", "application", "source", "delete", "registry", "git"}
Commands == [name : {"idle", "cluster", "promote", "bootstrap", "migration", "sync", "destroy"},
             at : Steps, n : Nat, held : Numbers \cup Builds]

TypeOK ==
  /\ docker \in Dockers /\ kube \in Kubes /\ files \in Records /\ repo \in Repos
  /\ built \in [version : Builds, fit : BOOLEAN] /\ chart \in BOOLEAN
  /\ made \in [clusters : Nat, secrets : Nat] /\ cmd \in Commands

(***************************************************************************)
(* The inductive invariant                                                 *)
(***************************************************************************)
\* Credentials are applied in order, all of one set.
OneSet ==
  \A k \in DOMAIN Groups : kube.secrets[k] # None =>
    \A j \in 1..k : kube.secrets[j] = kube.secrets[k]

Applied(n, g) == \A k \in DOMAIN Groups : k < n => kube.secrets[k] = g

\* Data and roles come to be after every credential, with the same ones.
Credentialed ==
  /\ kube.data # None => Applied(Len(Groups) + 1, kube.data)
  /\ kube.roles # None => kube.data = kube.roles

\* A cluster that bootstrap has finished.
Bootstrapped == kube.schema /\ kube.roles # None

\* Every number of a cluster is one that was given.
Numbered ==
  /\ docker.cluster \in Nat => docker.cluster <= made.clusters
  /\ files.marker \in Nat => files.marker <= made.clusters
  /\ files.bootstrap \in Nat => files.bootstrap <= made.clusters

Namespaced == kube.namespace => kube.nodes /\ docker.registry = "ours"

\* The registry has the images of the workloads whenever it has the migration's.
Pullable(v) == \A r \in Runtime : <<r, v>> \in registry
Complete == \A v \in Builds : <<"migration", v>> \in registry => Pullable(v)

\* bootstrap.json speaks of the cluster there is.
Recorded ==
  files.bootstrap # None /\ files.bootstrap = docker.cluster =>
    Bootstrapped /\ <<"migration", files.images>> \in registry

AppSound == kube.app => kube.namespace /\ Bootstrapped /\ repo.safe /\ Pullable(repo.images)

(***************************************************************************)
(* What a command may rely on, step by step                                *)
(***************************************************************************)
Owned == files.marker # None /\ docker.cluster = files.marker /\ kube.namespace

ClusterSound ==
  cmd.name = "cluster" =>
    /\ cmd.at = "mark" => docker.cluster \in Nat
    /\ cmd.at = "platform" => kube.nodes /\ docker.registry = "ours"

PushedUpTo(n) == \A k \in DOMAIN Names : k < n => <<Names[k], cmd.held>> \in registry

PromoteSound ==
  cmd.name = "promote" =>
    /\ cmd.at \in {"push", "values", "policy"} => cmd.held \in Versions
    /\ cmd.at = "push" => cmd.n \in DOMAIN Names /\ PushedUpTo(cmd.n)
    /\ cmd.at = "values" => PushedUpTo(Len(Names) + 1)

BootstrapSound ==
  cmd.name = "bootstrap" =>
    /\ Owned
    /\ cmd.at # "secrets" => cmd.held \in Nat
    /\ cmd.at = "apply" => cmd.n \in 1..Len(Groups) + 1 /\ Applied(cmd.n, cmd.held)
    /\ cmd.at \in {"unowned", "data", "migrate", "roles", "record"} =>
         Applied(Len(Groups) + 1, cmd.held)
    /\ cmd.at \in {"migrate", "roles", "record"} => kube.data = cmd.held
    /\ cmd.at \in {"roles", "record"} => kube.schema /\ <<"migration", files.images>> \in registry
    /\ cmd.at = "record" => kube.roles # None

SyncSound ==
  cmd.name = "sync" =>
    /\ Owned
    /\ cmd.at \in {"serve", "application"} =>
         Bootstrapped /\ repo.safe /\ Pullable(repo.images)

DestroySound ==
  cmd.name = "destroy" /\ cmd.at \in {"registry", "git"} =>
    docker.cluster \notin Nat /\ kube = Fresh

CommandSound == ClusterSound /\ PromoteSound /\ BootstrapSound /\ SyncSound /\ DestroySound

IInv ==
  /\ TypeOK /\ OneSet /\ Credentialed /\ Numbered /\ Namespaced /\ Complete /\ Recorded
  /\ AppSound /\ CommandSound

LEMMA Constants ==
  /\ None \notin Nat /\ Theirs \notin Nat /\ None # Theirs /\ "ours" # None /\ "ours" # Theirs
  /\ Len(Groups) \in Nat /\ Len(Groups) > 0 /\ DOMAIN Groups = 1..Len(Groups)
  /\ Len(Names) \in Nat /\ DOMAIN Names = 1..Len(Names)
  /\ None \notin Versions
BY GroupsAssumption, NamesAssumption, MarksAssumption, VersionsAssumption

LEMMA FreshFacts ==
  /\ Fresh \in Kubes /\ Fresh.secrets = NoSecrets /\ Fresh.data = None /\ Fresh.roles = None
  /\ ~Fresh.namespace /\ ~Fresh.app
<1>1. NoSecrets \in Secrets /\ None \in Numbers
  BY DEF NoSecrets, Secrets, Numbers
<1>2. Fresh \in Kubes
  BY <1>1 DEF Fresh, Kubes
<1>3. /\ Fresh.secrets = NoSecrets /\ Fresh.data = None /\ Fresh.roles = None
      /\ Fresh.namespace = FALSE /\ Fresh.app = FALSE
  BY DEF Fresh
<1> QED
  BY <1>2, <1>3

LEMMA IdleFacts == Idle \in Commands /\ Idle.name = "idle" /\ Idle.at = "idle" /\ Idle.n = 0
<1>1. None \in Numbers \cup Builds
  BY DEF Numbers
<1>2. Idle \in Commands
  BY <1>1 DEF Idle, Commands, Steps
<1>3. Idle.name = "idle" /\ Idle.at = "idle" /\ Idle.n = 0
  BY DEF Idle
<1> QED
  BY <1>2, <1>3

\* The command goes on to its next step.
LEMMA GoFacts ==
  ASSUME cmd \in Commands, NEW step \in Steps, Go(step)
  PROVE  /\ cmd' \in Commands /\ cmd'.name = cmd.name /\ cmd'.at = step
         /\ cmd'.n = cmd.n /\ cmd'.held = cmd.held
<1>1. cmd' = [cmd EXCEPT !.at = step]
  BY DEF Go
<1>2. cmd' \in Commands
  BY <1>1 DEF Commands
<1>3. cmd'.name = cmd.name /\ cmd'.at = step /\ cmd'.n = cmd.n /\ cmd'.held = cmd.held
  BY <1>1 DEF Commands
<1> QED
  BY <1>2, <1>3

\* Only the command moves on.
LEMMA CommandMoves ==
  ASSUME IInv, UNCHANGED <<docker, registry, kube, files, repo, built, chart, made>>,
         cmd' \in Commands, CommandSound'
  PROVE  IInv'
BY DEF IInv, TypeOK, OneSet, Credentialed, Applied, Numbered, Namespaced, Complete, Pullable,
       Recorded, Bootstrapped, AppSound

\* A command that is not under way relies on nothing.
LEMMA IdleSound ==
  ASSUME cmd'.name = "idle"
  PROVE  CommandSound'
BY DEF CommandSound, ClusterSound, PromoteSound, BootstrapSound, SyncSound, DestroySound

LEMMA InitIInv == Init => IInv
<1> SUFFICES ASSUME Init PROVE IInv
  OBVIOUS
<1>1. /\ docker = [cluster |-> None, registry |-> None, git |-> None] /\ registry = {}
      /\ kube = Fresh /\ cmd = Idle
      /\ files = [marker |-> None, images |-> None, promotion |-> None,
                  secrets |-> None, bootstrap |-> None, source |-> None]
  BY DEF Init
<1>2. TypeOK
  <2>1. docker \in Dockers
    BY <1>1 DEF Dockers, Owners, Numbers
  <2>2. files \in Records
    BY <1>1 DEF Records, Numbers, Builds
  <2>3. repo \in Repos /\ built \in [version : Builds, fit : BOOLEAN] /\ chart \in BOOLEAN
        /\ made \in [clusters : Nat, secrets : Nat]
    BY DEF Init, Repos, Builds
  <2> QED
    BY <1>1, <2>1, <2>2, <2>3, FreshFacts, IdleFacts DEF TypeOK
<1>3. OneSet /\ Credentialed /\ Namespaced /\ AppSound
  BY <1>1, FreshFacts DEF OneSet, Credentialed, Namespaced, AppSound, NoSecrets
<1>4. Numbered /\ Complete /\ Recorded
  BY <1>1, Constants DEF Numbered, Complete, Recorded
<1>5. CommandSound
  BY <1>1, IdleFacts DEF CommandSound, ClusterSound, PromoteSound, BootstrapSound, SyncSound,
    DestroySound
<1> QED
  BY <1>2, <1>3, <1>4, <1>5 DEF IInv

\* Each command relies on its own part.
LEMMA Only ==
  /\ cmd'.name = "cluster" /\ ClusterSound' => CommandSound'
  /\ cmd'.name = "promote" /\ PromoteSound' => CommandSound'
  /\ cmd'.name = "bootstrap" /\ BootstrapSound' => CommandSound'
  /\ cmd'.name = "sync" /\ SyncSound' => CommandSound'
  /\ cmd'.name = "destroy" /\ DestroySound' => CommandSound'
  /\ cmd'.name \in {"idle", "migration"} => CommandSound'
BY DEF CommandSound, ClusterSound, PromoteSound, BootstrapSound, SyncSound, DestroySound

\* A command takes its first step.
LEMMA StartIInv ==
  ASSUME IInv, NEW name \in {"cluster", "destroy", "promote", "bootstrap", "migration", "sync"},
         NEW first \in {"find", "delete", "admit", "secrets", "migrate", "push"},
         Start(name, first),
         name = "promote" => first = "admit",
         name = "destroy" => first = "delete",
         name = "cluster" => first = "find",
         name = "bootstrap" => first = "secrets" /\ requireNamespace,
         name = "sync" => first = "push" /\ requireNamespace
  PROVE  IInv'
<1>1. UNCHANGED <<docker, registry, kube, files, repo, built, chart, made>>
  BY DEF Start
<1>2. cmd' = [Idle EXCEPT !.name = name, !.at = first]
  BY DEF Start
<1>3. cmd' \in Commands
  BY <1>2, IdleFacts DEF Commands, Steps
<1>4. cmd'.name = name /\ cmd'.at = first
  BY <1>2, IdleFacts DEF Commands
<1>5. name \in {"bootstrap", "sync"} => Owned'
  BY <1>1 DEF requireNamespace, requireOwner, Owned
<1>6. CommandSound'
  BY <1>4, <1>5 DEF CommandSound, ClusterSound, PromoteSound, BootstrapSound, SyncSound,
    DestroySound
<1> QED
  BY <1>1, <1>3, <1>6, CommandMoves

LEMMA FailIInv == ASSUME IInv, Fail PROVE IInv'
<1>1. cmd' \in Commands /\ CommandSound'
  BY IdleFacts, IdleSound DEF Fail
<1> QED
  BY <1>1, CommandMoves DEF Fail

(***************************************************************************)
(* cluster                                                                 *)
(***************************************************************************)
\* The registry is started, or is found running.
LEMMA StartRegistryFacts ==
  ASSUME docker \in Dockers, startRegistry
  PROVE  /\ docker' \in Dockers /\ docker'.registry = "ours"
         /\ docker'.cluster = docker.cluster /\ docker'.git = docker.git
<1>1. docker' = [docker EXCEPT !.registry = "ours"]
  BY DEF startRegistry
<1>2. docker' \in Dockers
  BY <1>1 DEF Dockers, Owners
<1>3. docker'.registry = "ours" /\ docker'.cluster = docker.cluster /\ docker'.git = docker.git
  BY <1>1 DEF Dockers
<1> QED
  BY <1>2, <1>3

LEMMA FindClusterIInv == ASSUME IInv, FindCluster PROVE IInv'
<1>0. /\ UNCHANGED <<registry, kube, files, repo, built, chart, made>>
      /\ cmd.name = "cluster" /\ cmd \in Commands /\ docker \in Dockers
  BY DEF FindCluster, At, IInv, TypeOK
<1>1. CASE docker.cluster # None
  <2>1. Go("join") /\ UNCHANGED docker
    BY <1>1 DEF FindCluster
  <2>2. cmd' \in Commands /\ cmd'.name = "cluster" /\ cmd'.at = "join"
    BY <1>0, <2>1, GoFacts DEF Steps
  <2>3. CommandSound'
    BY <2>2, Only DEF ClusterSound
  <2> QED
    BY <1>0, <2>1, <2>2, <2>3, CommandMoves
<1>2. CASE docker.cluster = None
  <2>1. Go("create") /\ startRegistry
    BY <1>2 DEF FindCluster
  <2>2. cmd' \in Commands /\ cmd'.name = "cluster" /\ cmd'.at = "create"
    BY <1>0, <2>1, GoFacts DEF Steps
  <2>3. docker' \in Dockers /\ docker'.registry = "ours" /\ docker'.cluster = docker.cluster
    BY <1>0, <2>1, StartRegistryFacts
  <2>4. CommandSound'
    BY <2>2, Only DEF ClusterSound
  <2>5. TypeOK'
    BY <1>0, <2>2, <2>3 DEF IInv, TypeOK
  <2>6. OneSet' /\ Credentialed' /\ Complete' /\ AppSound'
    BY <1>0 DEF IInv, OneSet, Credentialed, Applied, Complete, AppSound, Bootstrapped, Pullable
  <2>7. Numbered' /\ Namespaced' /\ Recorded'
    BY <1>0, <2>3 DEF IInv, Numbered, Namespaced, Recorded, Bootstrapped
  <2> QED
    BY <2>4, <2>5, <2>6, <2>7 DEF IInv
<1> QED
  BY <1>1, <1>2

LEMMA CreateKindIInv == ASSUME IInv, CreateKind PROVE IInv'
<1>0. /\ UNCHANGED <<registry, files, repo, built, chart>>
      /\ cmd.name = "cluster" /\ cmd \in Commands /\ docker \in Dockers /\ files \in Records
      /\ made \in [clusters : Nat, secrets : Nat]
      /\ made' = [made EXCEPT !.clusters = @ + 1]
      /\ docker' = [docker EXCEPT !.cluster = made.clusters + 1]
      /\ kube' = Fresh /\ Go("mark")
  BY DEF CreateKind, At, IInv, TypeOK
<1>1. cmd' \in Commands /\ cmd'.name = "cluster" /\ cmd'.at = "mark"
  BY <1>0, GoFacts DEF Steps
<1>2. made' \in [clusters : Nat, secrets : Nat] /\ made'.clusters = made.clusters + 1
      /\ made.clusters \in Nat
  BY <1>0
<1>3. docker' \in Dockers
  BY <1>0, <1>2 DEF Dockers, Numbers
<1>4. docker'.cluster = made.clusters + 1 /\ docker'.registry = docker.registry
  BY <1>0 DEF Dockers
<1>5. files.marker \in Numbers /\ files.bootstrap \in Numbers
  BY <1>0 DEF Records
<1>6. TypeOK'
  BY <1>0, <1>1, <1>2, <1>3, FreshFacts DEF IInv, TypeOK
<1>7. OneSet' /\ Credentialed' /\ Namespaced' /\ AppSound'
  BY <1>0, FreshFacts DEF OneSet, Credentialed, Namespaced, AppSound, NoSecrets
<1>8. Complete'
  BY <1>0 DEF IInv, Complete, Pullable
<1>9. Numbered'
  BY <1>0, <1>2, <1>4 DEF IInv, Numbered
<1>10. files.bootstrap # docker'.cluster \/ files.bootstrap = None
  BY <1>2, <1>4, <1>5 DEF IInv, Numbered, Numbers
<1>11. Recorded'
  BY <1>0, <1>10 DEF Recorded
<1>12. CommandSound'
  BY <1>1, <1>2, <1>4, Only DEF ClusterSound
<1> QED
  BY <1>6, <1>7, <1>8, <1>9, <1>11, <1>12 DEF IInv

LEMMA SaveMarkerIInv == ASSUME IInv, SaveMarker PROVE IInv'
<1>0. /\ UNCHANGED <<docker, registry, kube, repo, built, chart, made>>
      /\ cmd.name = "cluster" /\ cmd.at = "mark" /\ cmd \in Commands /\ files \in Records
      /\ files' = [files EXCEPT !.marker = docker.cluster] /\ Go("join")
  BY DEF SaveMarker, At, IInv, TypeOK
<1>1. cmd' \in Commands /\ cmd'.name = "cluster" /\ cmd'.at = "join"
  BY <1>0, GoFacts DEF Steps
<1>2. docker.cluster \in Nat
  BY <1>0 DEF IInv, CommandSound, ClusterSound
<1>3. files' \in Records
  BY <1>0, <1>2 DEF Records, Numbers
<1>4. /\ files'.marker = docker.cluster /\ files'.bootstrap = files.bootstrap
      /\ files'.images = files.images
  BY <1>0 DEF Records
<1>5. TypeOK'
  BY <1>0, <1>1, <1>3 DEF IInv, TypeOK
<1>6. OneSet' /\ Credentialed' /\ Complete' /\ AppSound' /\ Namespaced'
  BY <1>0 DEF IInv, OneSet, Credentialed, Applied, Complete, AppSound, Bootstrapped, Pullable,
    Namespaced
<1>7. Numbered' /\ Recorded'
  BY <1>0, <1>4 DEF IInv, Numbered, Recorded, Bootstrapped
<1>8. CommandSound'
  BY <1>1, Only DEF ClusterSound
<1> QED
  BY <1>5, <1>6, <1>7, <1>8 DEF IInv

LEMMA JoinNodesIInv == ASSUME IInv, JoinNodes PROVE IInv'
<1>0. /\ UNCHANGED <<registry, files, repo, built, chart, made>>
      /\ cmd.name = "cluster" /\ cmd \in Commands /\ docker \in Dockers /\ kube \in Kubes
      /\ startRegistry /\ kube' = [kube EXCEPT !.nodes = TRUE] /\ Go("platform")
  BY DEF JoinNodes, At, IInv, TypeOK
<1>1. cmd' \in Commands /\ cmd'.name = "cluster" /\ cmd'.at = "platform"
  BY <1>0, GoFacts DEF Steps
<1>2. docker' \in Dockers /\ docker'.registry = "ours" /\ docker'.cluster = docker.cluster
  BY <1>0, StartRegistryFacts
<1>3. kube' \in Kubes
  BY <1>0 DEF Kubes
<1>4. /\ kube'.nodes /\ kube'.secrets = kube.secrets /\ kube'.data = kube.data
      /\ kube'.roles = kube.roles /\ kube'.schema = kube.schema /\ kube'.app = kube.app
      /\ kube'.namespace = kube.namespace
  BY <1>0 DEF Kubes
<1>5. TypeOK'
  BY <1>0, <1>1, <1>2, <1>3 DEF IInv, TypeOK
<1>6. OneSet' /\ Credentialed' /\ Complete' /\ AppSound'
  BY <1>0, <1>4 DEF IInv, OneSet, Credentialed, Applied, Complete, AppSound, Bootstrapped, Pullable
<1>7. Numbered' /\ Recorded' /\ Namespaced'
  BY <1>0, <1>2, <1>4 DEF IInv, Numbered, Recorded, Bootstrapped, Namespaced
<1>8. CommandSound'
  BY <1>1, <1>2, <1>4, Only DEF ClusterSound
<1> QED
  BY <1>5, <1>6, <1>7, <1>8 DEF IInv

LEMMA ApplyPlatformIInv == ASSUME IInv, ApplyPlatform PROVE IInv'
<1>0. /\ UNCHANGED <<docker, registry, files, repo, built, chart, made>>
      /\ cmd.name = "cluster" /\ cmd.at = "platform" /\ cmd \in Commands /\ kube \in Kubes
      /\ kube' = [kube EXCEPT !.namespace = TRUE] /\ Go("argo")
  BY DEF ApplyPlatform, At, IInv, TypeOK
<1>1. cmd' \in Commands /\ cmd'.name = "cluster" /\ cmd'.at = "argo"
  BY <1>0, GoFacts DEF Steps
<1>2. kube.nodes /\ docker.registry = "ours"
  BY <1>0 DEF IInv, CommandSound, ClusterSound
<1>3. kube' \in Kubes
  BY <1>0 DEF Kubes
<1>4. /\ kube'.nodes = kube.nodes /\ kube'.secrets = kube.secrets /\ kube'.data = kube.data
      /\ kube'.roles = kube.roles /\ kube'.schema = kube.schema /\ kube'.app = kube.app
      /\ kube'.namespace
  BY <1>0 DEF Kubes
<1>5. TypeOK'
  BY <1>0, <1>1, <1>3 DEF IInv, TypeOK
<1>6. OneSet' /\ Credentialed' /\ Complete' /\ AppSound'
  BY <1>0, <1>4 DEF IInv, OneSet, Credentialed, Applied, Complete, AppSound, Bootstrapped, Pullable
<1>7. Numbered' /\ Recorded' /\ Namespaced'
  BY <1>0, <1>2, <1>4 DEF IInv, Numbered, Recorded, Bootstrapped, Namespaced
<1>8. CommandSound'
  BY <1>1, Only DEF ClusterSound
<1> QED
  BY <1>5, <1>6, <1>7, <1>8 DEF IInv

LEMMA InstallArgoIInv == ASSUME IInv, InstallArgo PROVE IInv'
<1>0. /\ UNCHANGED <<docker, registry, files, repo, built, chart, made>>
      /\ kube \in Kubes /\ kube' = [kube EXCEPT !.argo = TRUE] /\ cmd' = Idle
  BY DEF InstallArgo, At, IInv, TypeOK
<1>3. kube' \in Kubes
  BY <1>0 DEF Kubes
<1>4. /\ kube'.nodes = kube.nodes /\ kube'.secrets = kube.secrets /\ kube'.data = kube.data
      /\ kube'.roles = kube.roles /\ kube'.schema = kube.schema /\ kube'.app = kube.app
      /\ kube'.namespace = kube.namespace
  BY <1>0 DEF Kubes
<1>5. TypeOK'
  BY <1>0, <1>3, IdleFacts DEF IInv, TypeOK
<1>6. OneSet' /\ Credentialed' /\ Complete' /\ AppSound'
  BY <1>0, <1>4 DEF IInv, OneSet, Credentialed, Applied, Complete, AppSound, Bootstrapped, Pullable
<1>7. Numbered' /\ Recorded' /\ Namespaced'
  BY <1>0, <1>4 DEF IInv, Numbered, Recorded, Bootstrapped, Namespaced
<1>8. CommandSound'
  BY <1>0, IdleFacts, IdleSound
<1> QED
  BY <1>5, <1>6, <1>7, <1>8 DEF IInv

(***************************************************************************)
(* promote                                                                 *)
(***************************************************************************)
LEMMA AdmitIInv == ASSUME IInv, Admit PROVE IInv'
<1>0. /\ UNCHANGED <<docker, registry, kube, files, repo, built, chart, made>>
      /\ cmd.name = "promote" /\ cmd \in Commands /\ built.version # None
      /\ built \in [version : Builds, fit : BOOLEAN]
      /\ cmd' = [cmd EXCEPT !.at = "push", !.n = 1, !.held = built.version]
  BY DEF Admit, At, assertAdmission, IInv, TypeOK
<1>1. built.version \in Versions
  BY <1>0 DEF Builds
<1>2. cmd' \in Commands
  BY <1>0 DEF Commands, Steps
<1>3. cmd'.name = "promote" /\ cmd'.at = "push" /\ cmd'.n = 1 /\ cmd'.held \in Versions
  BY <1>0, <1>1 DEF Commands
<1>4. 1 \in DOMAIN Names
  BY Constants, OrderAssumption
<1>5. PushedUpTo(1)'
  BY Constants DEF PushedUpTo
<1>6. CommandSound'
  BY <1>3, <1>4, <1>5, Only DEF PromoteSound, PushedUpTo
<1> QED
  BY <1>0, <1>2, <1>6, CommandMoves

\* The migration's image is pushed after those of the workloads.
LEMMA PushIInv == ASSUME IInv, Push PROVE IInv'
<1>0. /\ UNCHANGED <<docker, kube, files, repo, built, chart, made>>
      /\ cmd.name = "promote" /\ cmd.at = "push" /\ cmd \in Commands
      /\ registry' = registry \cup {<<Names[cmd.n], cmd.held>>}
      /\ cmd' = IF cmd.n < Len(Names) THEN [cmd EXCEPT !.n = @ + 1]
                ELSE [cmd EXCEPT !.at = "values"]
  BY DEF Push, At, pushed, IInv, TypeOK
<1>1. cmd.held \in Versions /\ cmd.n \in DOMAIN Names /\ cmd.n \in Nat /\ PushedUpTo(cmd.n)
  BY <1>0, Constants DEF IInv, CommandSound, PromoteSound
<1>2. cmd' \in Commands
  <2>1. CASE cmd.n < Len(Names)
    BY <1>0, <1>1, <2>1 DEF Commands
  <2>2. CASE ~(cmd.n < Len(Names))
    BY <1>0, <2>2 DEF Commands, Steps
  <2> QED
    BY <2>1, <2>2
<1>3. /\ cmd'.name = "promote" /\ cmd'.held = cmd.held
      /\ \/ cmd.n < Len(Names) /\ cmd'.at = "push" /\ cmd'.n = cmd.n + 1
         \/ cmd.n = Len(Names) /\ cmd'.at = "values" /\ cmd'.n = cmd.n
  BY <1>0, <1>1, Constants DEF Commands
<1>4. PushedUpTo(cmd.n + 1)' <=> \A k \in DOMAIN Names : k < cmd'.n + 1 => <<Names[k], cmd'.held>> \in registry'
  BY DEF PushedUpTo
<1>5. \A k \in DOMAIN Names : k < cmd.n + 1 => <<Names[k], cmd.held>> \in registry'
  <2> SUFFICES ASSUME NEW k \in DOMAIN Names, k < cmd.n + 1
               PROVE  <<Names[k], cmd.held>> \in registry'
    OBVIOUS
  <2>1. k < cmd.n \/ k = cmd.n
    BY <1>1, Constants
  <2> QED
    BY <1>0, <1>1, <2>1 DEF PushedUpTo
<1>6. PromoteSound'
  <2>1. CASE cmd.n < Len(Names)
    BY <1>1, <1>3, <1>5, <2>1, Constants DEF PromoteSound, PushedUpTo
  <2>2. CASE cmd.n = Len(Names)
    BY <1>1, <1>3, <1>5, <2>2, Constants DEF PromoteSound, PushedUpTo
  <2> QED
    BY <1>3, <2>1, <2>2
<1>7. TypeOK'
  BY <1>0, <1>2 DEF IInv, TypeOK
<1>8. \A v : Pullable(v) => Pullable(v)'
  BY <1>0 DEF Pullable
<1>9. Complete'
  <2> SUFFICES ASSUME NEW v \in Builds, <<"migration", v>> \in registry'
               PROVE  Pullable(v)'
    BY DEF Complete
  <2>1. CASE <<"migration", v>> \in registry
    BY <2>1, <1>8 DEF IInv, Complete
  <2>2. CASE <<"migration", v>> = <<Names[cmd.n], cmd.held>>
    <3>1. Names[cmd.n] = "migration" /\ v = cmd.held
      BY <2>2
    <3>2. ASSUME NEW r \in Runtime
          PROVE  <<r, v>> \in registry'
      <4>1. \E k \in 1..cmd.n - 1 : Names[k] = r
        BY <1>1, <3>1, OrderAssumption
      <4>2. PICK k \in 1..cmd.n - 1 : Names[k] = r
        BY <4>1
      <4>3. k \in DOMAIN Names /\ k < cmd.n
        BY <1>1, <4>2, Constants
      <4> QED
        BY <1>0, <1>1, <3>1, <4>2, <4>3 DEF PushedUpTo
    <3> QED
      BY <3>2 DEF Pullable
  <2> QED
    BY <1>0, <2>1, <2>2
<1>10. OneSet' /\ Credentialed' /\ Numbered' /\ Namespaced'
  BY <1>0 DEF IInv, OneSet, Credentialed, Applied, Numbered, Namespaced
<1>11. Recorded'
  BY <1>0 DEF IInv, Recorded, Bootstrapped
<1>12. AppSound'
  BY <1>0, <1>8 DEF IInv, AppSound, Bootstrapped, Pullable
<1> QED
  BY <1>3, <1>6, <1>7, <1>9, <1>10, <1>11, <1>12, Only DEF IInv

LEMMA SaveImagesIInv == ASSUME IInv, SaveImages PROVE IInv'
<1>0. /\ UNCHANGED <<docker, registry, kube, repo, built, chart, made>>
      /\ cmd.name = "promote" /\ cmd.at = "values" /\ cmd \in Commands /\ files \in Records
      /\ files' = [files EXCEPT !.images = cmd.held] /\ Go("policy")
  BY DEF SaveImages, At, IInv, TypeOK
<1>1. cmd.held \in Versions /\ PushedUpTo(Len(Names) + 1)
  BY <1>0 DEF IInv, CommandSound, PromoteSound
<1>2. /\ cmd' \in Commands /\ cmd'.name = "promote" /\ cmd'.at = "policy"
      /\ cmd'.held = cmd.held
  BY <1>0, GoFacts DEF Steps
<1>3. <<"migration", cmd.held>> \in registry
  <2>1. PICK m \in DOMAIN Names : Names[m] = "migration"
    BY OrderAssumption
  <2> QED
    BY <1>1, <2>1, Constants DEF PushedUpTo
<1>4. files' \in Records
  BY <1>0, <1>1 DEF Records, Builds
<1>5. /\ files'.marker = files.marker /\ files'.bootstrap = files.bootstrap
      /\ files'.images = cmd.held
  BY <1>0 DEF Records
<1>6. TypeOK'
  BY <1>0, <1>2, <1>4 DEF IInv, TypeOK
<1>7. OneSet' /\ Credentialed' /\ Complete' /\ AppSound' /\ Namespaced'
  BY <1>0 DEF IInv, OneSet, Credentialed, Applied, Complete, AppSound, Bootstrapped, Pullable,
    Namespaced
<1>8. Numbered' /\ Recorded'
  BY <1>0, <1>3, <1>5 DEF IInv, Numbered, Recorded, Bootstrapped
<1>9. CommandSound'
  BY <1>1, <1>2, Only DEF PromoteSound
<1> QED
  BY <1>6, <1>7, <1>8, <1>9 DEF IInv

LEMMA SavePromotionIInv == ASSUME IInv, SavePromotion PROVE IInv'
<1>0. /\ UNCHANGED <<docker, registry, kube, repo, built, chart, made>>
      /\ cmd.name = "promote" /\ cmd.at = "policy" /\ files \in Records
      /\ files' = [files EXCEPT !.promotion = cmd.held] /\ cmd' = Idle
  BY DEF SavePromotion, At, IInv, TypeOK
<1>1. cmd.held \in Builds
  BY <1>0 DEF IInv, CommandSound, PromoteSound, Builds
<1>2. files' \in Records
  BY <1>0, <1>1 DEF Records
<1>3. /\ files'.marker = files.marker /\ files'.bootstrap = files.bootstrap
      /\ files'.images = files.images
  BY <1>0 DEF Records
<1>4. TypeOK'
  BY <1>0, <1>2, IdleFacts DEF IInv, TypeOK
<1>5. OneSet' /\ Credentialed' /\ Complete' /\ AppSound' /\ Namespaced'
  BY <1>0 DEF IInv, OneSet, Credentialed, Applied, Complete, AppSound, Bootstrapped, Pullable,
    Namespaced
<1>6. Numbered' /\ Recorded'
  BY <1>0, <1>3 DEF IInv, Numbered, Recorded, Bootstrapped
<1>7. CommandSound'
  BY <1>0, IdleFacts, IdleSound
<1> QED
  BY <1>4, <1>5, <1>6, <1>7 DEF IInv

(***************************************************************************)
(* bootstrap and migration                                                 *)
(***************************************************************************)
LEMMA ReadSecretsIInv == ASSUME IInv, ReadSecrets PROVE IInv'
<1>0. /\ UNCHANGED <<docker, registry, kube, repo, built, chart>>
      /\ cmd.name = "bootstrap" /\ cmd \in Commands /\ files \in Records
      /\ made \in [clusters : Nat, secrets : Nat]
      /\ cmd' = [cmd EXCEPT !.at = "apply", !.n = 1, !.held = files'.secrets]
  BY DEF ReadSecrets, At, IInv, TypeOK
<1>1. /\ files' \in Records /\ made' \in [clusters : Nat, secrets : Nat]
      /\ files'.marker = files.marker /\ files'.bootstrap = files.bootstrap
      /\ files'.images = files.images /\ made'.clusters = made.clusters
      /\ files'.secrets \in Nat
  <2>1. CASE files.secrets # None
    <3>1. UNCHANGED <<files, made>>
      BY <2>1 DEF ReadSecrets
    <3>2. files.secrets \in Nat
      BY <1>0, <2>1 DEF Records, Numbers
    <3> QED
      BY <1>0, <3>1, <3>2
  <2>2. CASE files.secrets = None
    <3>1. /\ made' = [made EXCEPT !.secrets = @ + 1]
          /\ files' = [files EXCEPT !.secrets = made.secrets + 1]
      BY <2>2 DEF ReadSecrets, generateSecrets
    <3>2. made.secrets + 1 \in Nat /\ made' \in [clusters : Nat, secrets : Nat]
          /\ made'.clusters = made.clusters
      BY <1>0, <3>1
    <3>3. files' \in Records
      BY <1>0, <3>1, <3>2 DEF Records, Numbers
    <3>4. /\ files'.marker = files.marker /\ files'.bootstrap = files.bootstrap
          /\ files'.images = files.images /\ files'.secrets = made.secrets + 1
      BY <1>0, <3>1 DEF Records
    <3> QED
      BY <3>2, <3>3, <3>4
  <2> QED
    BY <2>1, <2>2
<1>2. cmd' \in Commands
  BY <1>0, <1>1 DEF Commands, Steps, Numbers
<1>3. cmd'.name = "bootstrap" /\ cmd'.at = "apply" /\ cmd'.n = 1 /\ cmd'.held \in Nat
  BY <1>0, <1>1 DEF Commands
<1>4. TypeOK'
  BY <1>0, <1>1, <1>2 DEF IInv, TypeOK
<1>5. OneSet' /\ Credentialed' /\ Complete' /\ AppSound' /\ Namespaced'
  BY <1>0 DEF IInv, OneSet, Credentialed, Applied, Complete, AppSound, Bootstrapped, Pullable,
    Namespaced
<1>6. Numbered' /\ Recorded'
  BY <1>0, <1>1 DEF IInv, Numbered, Recorded, Bootstrapped
<1>7. Owned'
  BY <1>0, <1>1 DEF IInv, CommandSound, BootstrapSound, Owned
<1>8. 1 \in 1..Len(Groups) + 1 /\ \A k \in DOMAIN Groups : ~(k < 1)
  BY Constants
<1>9. BootstrapSound'
  BY <1>3, <1>7, <1>8 DEF BootstrapSound, Applied
<1> QED
  BY <1>3, <1>4, <1>5, <1>6, <1>9, Only DEF IInv

\* What bootstrap relies on while it applies, sets up and records.
LEMMA BootstrapFacts ==
  ASSUME IInv, cmd.name = "bootstrap"
  PROVE  /\ Owned /\ BootstrapSound
         /\ cmd.at # "secrets" => cmd.held \in Nat
BY DEF IInv, CommandSound, BootstrapSound

\* Credentials already there are those of the file, in a prefix of the groups.
LEMMA ApplySecretIInv == ASSUME IInv, ApplySecret PROVE IInv'
<1>0. /\ UNCHANGED <<docker, registry, files, repo, built, chart, made>>
      /\ cmd.name = "bootstrap" /\ cmd.at = "apply" /\ cmd \in Commands /\ kube \in Kubes
  BY DEF ApplySecret, At, IInv, TypeOK
<1>1. Owned /\ cmd.held \in Nat /\ cmd.n \in 1..Len(Groups) + 1 /\ Applied(cmd.n, cmd.held)
  BY <1>0, BootstrapFacts DEF BootstrapSound
<1>2. CASE cmd.n > Len(Groups)
  <2>1. Go("unowned") /\ UNCHANGED kube
    BY <1>2 DEF ApplySecret
  <2>2. /\ cmd' \in Commands /\ cmd'.name = "bootstrap" /\ cmd'.at = "unowned"
        /\ cmd'.held = cmd.held
    BY <1>0, <2>1, GoFacts DEF Steps
  <2>3. cmd.n = Len(Groups) + 1
    BY <1>1, <1>2, Constants
  <2>4. BootstrapSound'
    BY <1>0, <1>1, <2>1, <2>2, <2>3 DEF BootstrapSound, Owned, Applied
  <2> QED
    BY <1>0, <2>1, <2>2, <2>4, CommandMoves, Only
<1>3. CASE ~(cmd.n > Len(Groups))
  <2>1. /\ kube.secrets[cmd.n] \in {None, cmd.held}
        /\ kube' = [kube EXCEPT !.secrets = [@ EXCEPT ![cmd.n] = cmd.held]]
        /\ cmd' = [cmd EXCEPT !.n = @ + 1]
    BY <1>3 DEF ApplySecret, matches
  <2>2. cmd.n \in DOMAIN Groups /\ cmd.n \in Nat
    BY <1>1, <1>3, Constants
  <2> DEFINE S == kube.secrets
             T == [S EXCEPT ![cmd.n] = cmd.held]
  <2>3. kube' = [kube EXCEPT !.secrets = T] /\ S \in Secrets
    BY <1>0, <2>1 DEF Kubes
  <2>4. T \in Secrets
    BY <1>1, <2>3 DEF Secrets, Numbers
  <2>5. T[cmd.n] = cmd.held /\ \A k \in DOMAIN Groups : k # cmd.n => T[k] = S[k]
    BY <2>2, <2>3 DEF Secrets
  <2>6. kube' \in Kubes /\ kube'.secrets = T
    BY <1>0, <2>3, <2>4 DEF Kubes
  <2>7. /\ kube'.nodes = kube.nodes /\ kube'.namespace = kube.namespace /\ kube'.data = kube.data
        /\ kube'.roles = kube.roles /\ kube'.schema = kube.schema /\ kube'.app = kube.app
    BY <1>0, <2>3 DEF Kubes
  <2>8. cmd' \in Commands
    BY <1>0, <2>1, <2>2 DEF Commands
  <2>9. /\ cmd'.name = "bootstrap" /\ cmd'.at = "apply" /\ cmd'.n = cmd.n + 1
        /\ cmd'.held = cmd.held
    BY <1>0, <2>1, <2>2 DEF Commands
  <2>10. TypeOK'
    BY <1>0, <2>6, <2>8 DEF IInv, TypeOK
  <2>11. S[cmd.n] \in {None, cmd.held} /\ cmd.held # None
    BY <1>1, <2>1, Constants
  <2>12. \A k \in DOMAIN Groups : k < cmd.n => S[k] = cmd.held
    BY <1>1 DEF Applied
  <2>13. ASSUME NEW k \in DOMAIN Groups, T[k] # None
         PROVE  T[k] = cmd.held /\ \A j \in 1..k : T[j] = cmd.held
    <3>1. k \in Nat /\ \A j \in 1..k : j \in DOMAIN Groups
      BY Constants
    <3>2. CASE k < cmd.n
      BY <2>2, <2>5, <2>12, <3>1, <3>2
    <3>3. CASE k = cmd.n
      BY <2>2, <2>5, <2>12, <3>1, <3>3
    <3>4. CASE k > cmd.n
      <4>1. S[k] # None /\ T[k] = S[k]
        BY <2>2, <2>5, <2>13, <3>1, <3>4
      <4>2. \A j \in 1..k : S[j] = S[k]
        BY <4>1 DEF IInv, OneSet
      <4>3. S[cmd.n] = S[k]
        BY <1>1, <2>2, <3>1, <3>4, <4>2
      <4>4. S[k] = cmd.held
        BY <2>11, <4>1, <4>3
      <4> QED
        BY <2>5, <3>1, <4>1, <4>2, <4>4
    <3> QED
      BY <2>2, <3>1, <3>2, <3>3, <3>4
  <2>14. OneSet'
    BY <2>6, <2>13 DEF OneSet
  <2>15. Credentialed'
    <3>1. CASE kube.data # None
      <4>1. \A k \in DOMAIN Groups : S[k] = kube.data
        BY <3>1, Constants DEF IInv, Credentialed, Applied
      <4>2. kube.data = cmd.held
        BY <2>2, <2>11, <3>1, <4>1
      <4>3. \A k \in DOMAIN Groups : T[k] = kube.data
        BY <2>5, <4>1, <4>2
      <4> QED
        BY <2>6, <2>7, <4>3 DEF IInv, Credentialed, Applied
    <3>2. CASE kube.data = None
      BY <2>7, <3>2 DEF IInv, Credentialed
    <3> QED
      BY <3>1, <3>2
  <2>16. Numbered' /\ Namespaced' /\ Complete' /\ Recorded' /\ AppSound'
    BY <1>0, <2>7 DEF IInv, Numbered, Namespaced, Complete, Recorded, AppSound, Bootstrapped, Pullable
  <2>17. cmd'.n \in 1..Len(Groups) + 1
    BY <2>2, <2>9, Constants
  <2>18. \A k \in DOMAIN Groups : k < cmd.n + 1 => T[k] = cmd.held
    <3> SUFFICES ASSUME NEW k \in DOMAIN Groups, k < cmd.n + 1 PROVE T[k] = cmd.held
      OBVIOUS
    <3>1. k < cmd.n \/ k = cmd.n
      BY <2>2, Constants
    <3> QED
      BY <2>2, <2>5, <2>12, <3>1
  <2>19. Owned'
    BY <1>0, <1>1, <2>7 DEF Owned
  <2>20. Applied(cmd.n, cmd.held)'
    BY <2>6, <2>9, <2>18 DEF Applied
  <2>21. BootstrapSound'
    BY <1>1, <2>9, <2>17, <2>19, <2>20 DEF BootstrapSound
  <2> QED
    BY <2>9, <2>10, <2>14, <2>15, <2>16, <2>21, Only DEF IInv
<1> QED
  BY <1>2, <1>3

LEMMA CheckUnownedIInv == ASSUME IInv, CheckUnowned PROVE IInv'
<1>0. /\ UNCHANGED <<docker, registry, kube, files, repo, built, chart, made>>
      /\ cmd.name = "bootstrap" /\ cmd.at = "unowned" /\ cmd \in Commands /\ Go("data")
  BY DEF CheckUnowned, At, IInv, TypeOK
<1>1. /\ cmd' \in Commands /\ cmd'.name = "bootstrap" /\ cmd'.at = "data"
      /\ cmd'.held = cmd.held
  BY <1>0, GoFacts DEF Steps
<1>2. Owned /\ cmd.held \in Nat /\ Applied(Len(Groups) + 1, cmd.held)
  BY <1>0, BootstrapFacts DEF BootstrapSound
<1>3. BootstrapSound'
  BY <1>0, <1>1, <1>2 DEF BootstrapSound, Owned, Applied
<1> QED
  BY <1>0, <1>1, <1>3, CommandMoves, Only

\* The data is initialised with the credentials, all of which are applied.
LEMMA StartDataIInv == ASSUME IInv, StartData PROVE IInv'
<1>0. /\ UNCHANGED <<docker, registry, files, repo, built, chart, made>>
      /\ cmd.name = "bootstrap" /\ cmd.at = "data" /\ cmd \in Commands /\ kube \in Kubes
      /\ kube' = [kube EXCEPT !.data = IF @ = None THEN kube.secrets[1] ELSE @]
      /\ Go("migrate")
  BY DEF StartData, At, IInv, TypeOK
<1>1. /\ cmd' \in Commands /\ cmd'.name = "bootstrap" /\ cmd'.at = "migrate"
      /\ cmd'.held = cmd.held
  BY <1>0, GoFacts DEF Steps
<1>2. Owned /\ cmd.held \in Nat /\ Applied(Len(Groups) + 1, cmd.held)
  BY <1>0, BootstrapFacts DEF BootstrapSound
<1>3. 1 \in DOMAIN Groups /\ 1 < Len(Groups) + 1 /\ cmd.held # None
  BY <1>2, Constants
<1>4. kube.secrets[1] = cmd.held
  BY <1>2, <1>3 DEF Applied
<1>5. kube.data # None => kube.data = cmd.held
  BY <1>3, <1>4 DEF IInv, Credentialed, Applied
<1>6. kube' = [kube EXCEPT !.data = cmd.held]
  BY <1>0, <1>4, <1>5
<1>7. kube' \in Kubes
  BY <1>0, <1>2, <1>6 DEF Kubes, Numbers
<1>8. /\ kube'.nodes = kube.nodes /\ kube'.namespace = kube.namespace
      /\ kube'.secrets = kube.secrets /\ kube'.data = cmd.held
      /\ kube'.roles = kube.roles /\ kube'.schema = kube.schema /\ kube'.app = kube.app
  BY <1>0, <1>6 DEF Kubes
<1>9. TypeOK'
  BY <1>0, <1>1, <1>7 DEF IInv, TypeOK
<1>10. kube.roles # None => kube.roles = cmd.held
  BY <1>5 DEF IInv, Credentialed
<1>11. Credentialed'
  BY <1>2, <1>8, <1>10 DEF Credentialed, Applied
<1>12. OneSet' /\ Numbered' /\ Namespaced' /\ Complete' /\ Recorded' /\ AppSound'
  BY <1>0, <1>8 DEF IInv, OneSet, Numbered, Namespaced, Complete, Recorded, AppSound,
    Bootstrapped, Pullable
<1>13. BootstrapSound'
  BY <1>0, <1>1, <1>2, <1>8 DEF BootstrapSound, Owned, Applied
<1> QED
  BY <1>1, <1>9, <1>11, <1>12, <1>13, Only DEF IInv

LEMMA MigrateIInv == ASSUME IInv, Migrate PROVE IInv'
<1>0. /\ UNCHANGED <<docker, registry, files, repo, built, chart, made>>
      /\ cmd.name = "bootstrap" /\ cmd.at = "migrate" /\ cmd \in Commands /\ kube \in Kubes
      /\ kube' = [kube EXCEPT !.schema = TRUE] /\ Go("roles")
      /\ <<"migration", files.images>> \in registry
  BY DEF Migrate, operator, At, IInv, TypeOK
<1>1. /\ cmd' \in Commands /\ cmd'.name = "bootstrap" /\ cmd'.at = "roles"
      /\ cmd'.held = cmd.held
  BY <1>0, GoFacts DEF Steps
<1>2. /\ Owned /\ cmd.held \in Nat /\ Applied(Len(Groups) + 1, cmd.held)
      /\ kube.data = cmd.held
  BY <1>0, BootstrapFacts DEF BootstrapSound
<1>3. kube' \in Kubes
  BY <1>0 DEF Kubes
<1>4. /\ kube'.nodes = kube.nodes /\ kube'.namespace = kube.namespace
      /\ kube'.secrets = kube.secrets /\ kube'.data = kube.data
      /\ kube'.roles = kube.roles /\ kube'.schema /\ kube'.app = kube.app
  BY <1>0 DEF Kubes
<1>5. TypeOK'
  BY <1>0, <1>1, <1>3 DEF IInv, TypeOK
<1>6. OneSet' /\ Credentialed' /\ Numbered' /\ Namespaced' /\ Complete' /\ Recorded' /\ AppSound'
  BY <1>0, <1>4 DEF IInv, OneSet, Credentialed, Applied, Numbered, Namespaced, Complete,
    Recorded, AppSound, Bootstrapped, Pullable
<1>7. BootstrapSound'
  BY <1>0, <1>1, <1>2, <1>4 DEF BootstrapSound, Owned, Applied
<1> QED
  BY <1>1, <1>5, <1>6, <1>7, Only DEF IInv

LEMMA MigrateAgainIInv == ASSUME IInv, MigrateAgain PROVE IInv'
<1>0. /\ UNCHANGED <<docker, registry, files, repo, built, chart, made>>
      /\ kube \in Kubes /\ kube' = [kube EXCEPT !.schema = TRUE] /\ cmd' = Idle
  BY DEF MigrateAgain, IInv, TypeOK
<1>1. kube' \in Kubes
  BY <1>0 DEF Kubes
<1>2. /\ kube'.nodes = kube.nodes /\ kube'.namespace = kube.namespace
      /\ kube'.secrets = kube.secrets /\ kube'.data = kube.data
      /\ kube'.roles = kube.roles /\ kube'.schema /\ kube'.app = kube.app
  BY <1>0 DEF Kubes
<1>3. TypeOK'
  BY <1>0, <1>1, IdleFacts DEF IInv, TypeOK
<1>4. OneSet' /\ Credentialed' /\ Numbered' /\ Namespaced' /\ Complete' /\ Recorded' /\ AppSound'
  BY <1>0, <1>2 DEF IInv, OneSet, Credentialed, Applied, Numbered, Namespaced, Complete,
    Recorded, AppSound, Bootstrapped, Pullable
<1>5. CommandSound'
  BY <1>0, IdleFacts, IdleSound
<1> QED
  BY <1>3, <1>4, <1>5 DEF IInv

LEMMA CreateRolesIInv == ASSUME IInv, CreateRoles PROVE IInv'
<1>0. /\ UNCHANGED <<docker, registry, files, repo, built, chart, made>>
      /\ cmd.name = "bootstrap" /\ cmd.at = "roles" /\ cmd \in Commands /\ kube \in Kubes
      /\ kube' = [kube EXCEPT !.roles = roleSql] /\ Go("record")
  BY DEF CreateRoles, At, IInv, TypeOK
<1>1. /\ cmd' \in Commands /\ cmd'.name = "bootstrap" /\ cmd'.at = "record"
      /\ cmd'.held = cmd.held
  BY <1>0, GoFacts DEF Steps
<1>2. /\ Owned /\ cmd.held \in Nat /\ Applied(Len(Groups) + 1, cmd.held)
      /\ kube.data = cmd.held /\ kube.schema /\ <<"migration", files.images>> \in registry
  BY <1>0, BootstrapFacts DEF BootstrapSound
<1>3. roleSql = cmd.held /\ cmd.held # None
  BY <1>2, Constants DEF roleSql, IInv, Credentialed
<1>4. kube' \in Kubes
  BY <1>0, <1>2, <1>3 DEF Kubes, Numbers
<1>5. /\ kube'.nodes = kube.nodes /\ kube'.namespace = kube.namespace
      /\ kube'.secrets = kube.secrets /\ kube'.data = kube.data
      /\ kube'.roles = cmd.held /\ kube'.schema = kube.schema /\ kube'.app = kube.app
  BY <1>0, <1>3 DEF Kubes
<1>6. TypeOK'
  BY <1>0, <1>1, <1>4 DEF IInv, TypeOK
<1>7. Credentialed'
  BY <1>2, <1>5 DEF Credentialed, Applied
<1>8. OneSet' /\ Numbered' /\ Namespaced' /\ Complete'
  BY <1>0, <1>5 DEF IInv, OneSet, Numbered, Namespaced, Complete, Pullable
<1>9. Recorded' /\ AppSound'
  BY <1>0, <1>3, <1>5 DEF IInv, Recorded, AppSound, Bootstrapped, Pullable
<1>10. BootstrapSound'
  BY <1>0, <1>1, <1>2, <1>3, <1>5 DEF BootstrapSound, Owned, Applied
<1> QED
  BY <1>1, <1>6, <1>7, <1>8, <1>9, <1>10, Only DEF IInv

LEMMA SaveBootstrapIInv == ASSUME IInv, SaveBootstrap PROVE IInv'
<1>0. /\ UNCHANGED <<docker, registry, kube, repo, built, chart, made>>
      /\ cmd.name = "bootstrap" /\ cmd.at = "record" /\ files \in Records
      /\ files' = [files EXCEPT !.bootstrap = files.marker] /\ cmd' = Idle
  BY DEF SaveBootstrap, At, IInv, TypeOK
<1>1. /\ kube.schema /\ kube.roles # None /\ <<"migration", files.images>> \in registry
  BY <1>0, BootstrapFacts DEF BootstrapSound
<1>2. files' \in Records
  BY <1>0 DEF Records
<1>3. /\ files'.marker = files.marker /\ files'.bootstrap = files.marker
      /\ files'.images = files.images
  BY <1>0 DEF Records
<1>4. TypeOK'
  BY <1>0, <1>2, IdleFacts DEF IInv, TypeOK
<1>5. OneSet' /\ Credentialed' /\ Complete' /\ AppSound' /\ Namespaced'
  BY <1>0 DEF IInv, OneSet, Credentialed, Applied, Complete, AppSound, Bootstrapped, Pullable,
    Namespaced
<1>6. Numbered' /\ Recorded'
  BY <1>0, <1>1, <1>3 DEF IInv, Numbered, Recorded, Bootstrapped
<1>7. CommandSound'
  BY <1>0, IdleFacts, IdleSound
<1> QED
  BY <1>4, <1>5, <1>6, <1>7 DEF IInv

(***************************************************************************)
(* sync                                                                    *)
(***************************************************************************)
\* The record names the cluster there is, and so does the marker: the record
\* is of this cluster's bootstrap.
LEMMA PushSnapshotIInv == ASSUME IInv, PushSnapshot PROVE IInv'
<1>0. /\ UNCHANGED <<docker, registry, kube, files, built, chart, made>>
      /\ cmd.name = "sync" /\ cmd \in Commands /\ files \in Records /\ chart
      /\ files.bootstrap # None /\ files.bootstrap = files.marker
      /\ repo' = [images |-> files.images, safe |-> chart] /\ Go("serve")
  BY DEF PushSnapshot, bootstrapped, assertRuntimePolicy, At, IInv, TypeOK
<1>1. /\ cmd' \in Commands /\ cmd'.name = "sync" /\ cmd'.at = "serve"
  BY <1>0, GoFacts DEF Steps
<1>2. Owned
  BY <1>0 DEF IInv, CommandSound, SyncSound
<1>3. Bootstrapped /\ <<"migration", files.images>> \in registry
  BY <1>0, <1>2 DEF Owned, IInv, Recorded
<1>4. files.images \in Builds
  BY <1>0 DEF Records
<1>5. Pullable(files.images)
  BY <1>3, <1>4 DEF IInv, Complete
<1>6. repo' \in Repos /\ repo'.images = files.images /\ repo'.safe = TRUE
  BY <1>0, <1>4 DEF Repos
<1>7. TypeOK'
  BY <1>0, <1>1, <1>6 DEF IInv, TypeOK
<1>8. OneSet' /\ Credentialed' /\ Complete' /\ Namespaced' /\ Numbered' /\ Recorded'
  BY <1>0 DEF IInv, OneSet, Credentialed, Applied, Complete, Bootstrapped, Pullable,
    Namespaced, Numbered, Recorded
<1>9. AppSound'
  BY <1>0, <1>5, <1>6 DEF IInv, AppSound, Bootstrapped, Pullable
<1>10. SyncSound'
  BY <1>0, <1>1, <1>2, <1>3, <1>5, <1>6 DEF SyncSound, Owned, Bootstrapped, Pullable
<1> QED
  BY <1>1, <1>7, <1>8, <1>9, <1>10, Only DEF IInv

LEMMA ServeGitIInv == ASSUME IInv, ServeGit PROVE IInv'
<1>0. /\ UNCHANGED <<registry, kube, files, repo, built, chart, made>>
      /\ cmd.name = "sync" /\ cmd.at = "serve" /\ cmd \in Commands /\ docker \in Dockers
      /\ docker' = [docker EXCEPT !.git = "ours"] /\ Go("application")
  BY DEF ServeGit, At, IInv, TypeOK
<1>1. /\ cmd' \in Commands /\ cmd'.name = "sync" /\ cmd'.at = "application"
  BY <1>0, GoFacts DEF Steps
<1>2. docker' \in Dockers
  BY <1>0 DEF Dockers, Owners
<1>3. docker'.cluster = docker.cluster /\ docker'.registry = docker.registry
  BY <1>0 DEF Dockers
<1>4. SyncSound
  BY DEF IInv, CommandSound
<1>5. TypeOK'
  BY <1>0, <1>1, <1>2 DEF IInv, TypeOK
<1>6. OneSet' /\ Credentialed' /\ Complete' /\ AppSound'
  BY <1>0 DEF IInv, OneSet, Credentialed, Applied, Complete, AppSound, Bootstrapped, Pullable
<1>7. Numbered' /\ Namespaced' /\ Recorded'
  BY <1>0, <1>3 DEF IInv, Numbered, Namespaced, Recorded, Bootstrapped
<1>8. SyncSound'
  BY <1>0, <1>1, <1>3, <1>4 DEF SyncSound, Owned, Bootstrapped, Pullable
<1> QED
  BY <1>1, <1>5, <1>6, <1>7, <1>8, Only DEF IInv

LEMMA ApplyApplicationIInv == ASSUME IInv, ApplyApplication PROVE IInv'
<1>0. /\ UNCHANGED <<docker, registry, files, repo, built, chart, made>>
      /\ cmd.name = "sync" /\ cmd.at = "application" /\ cmd \in Commands /\ kube \in Kubes
      /\ kube' = [kube EXCEPT !.app = TRUE] /\ Go("source")
  BY DEF ApplyApplication, At, IInv, TypeOK
<1>1. SyncSound /\ Owned /\ Bootstrapped /\ repo.safe /\ Pullable(repo.images)
  BY <1>0 DEF IInv, CommandSound, SyncSound
<1>2. kube' \in Kubes
  BY <1>0 DEF Kubes
<1>3. /\ kube'.nodes = kube.nodes /\ kube'.namespace = kube.namespace
      /\ kube'.secrets = kube.secrets /\ kube'.data = kube.data
      /\ kube'.roles = kube.roles /\ kube'.schema = kube.schema
  BY <1>0 DEF Kubes
<1>4. cmd' \in Commands /\ cmd'.name = "sync" /\ cmd'.at = "source"
  BY <1>0, GoFacts DEF Steps
<1>5. TypeOK'
  BY <1>0, <1>2, <1>4 DEF IInv, TypeOK
<1>6. OneSet' /\ Credentialed' /\ Complete' /\ Namespaced' /\ Numbered' /\ Recorded'
  BY <1>0, <1>3 DEF IInv, OneSet, Credentialed, Applied, Complete, Bootstrapped, Pullable,
    Namespaced, Numbered, Recorded
<1>7. AppSound'
  BY <1>0, <1>1, <1>3 DEF AppSound, Owned, Bootstrapped, Pullable
<1>8. SyncSound'
  BY <1>0, <1>1, <1>3, <1>4 DEF SyncSound, Owned
<1> QED
  BY <1>4, <1>5, <1>6, <1>7, <1>8, Only DEF IInv

LEMMA SaveSourceIInv == ASSUME IInv, SaveSource PROVE IInv'
<1>0. /\ UNCHANGED <<docker, registry, kube, repo, built, chart, made>>
      /\ cmd.name = "sync" /\ cmd.at = "source" /\ files \in Records
      /\ files' = [files EXCEPT !.source = files.images] /\ cmd' = Idle
  BY DEF SaveSource, At, IInv, TypeOK
<1>1. files' \in Records
  BY <1>0 DEF Records
<1>2. /\ files'.marker = files.marker /\ files'.bootstrap = files.bootstrap
      /\ files'.images = files.images
  BY <1>0 DEF Records
<1>3. TypeOK'
  BY <1>0, <1>1, IdleFacts DEF IInv, TypeOK
<1>4. OneSet' /\ Credentialed' /\ Complete' /\ AppSound' /\ Namespaced'
  BY <1>0 DEF IInv, OneSet, Credentialed, Applied, Complete, AppSound, Bootstrapped, Pullable,
    Namespaced
<1>5. Numbered' /\ Recorded'
  BY <1>0, <1>2 DEF IInv, Numbered, Recorded, Bootstrapped
<1>6. CommandSound'
  BY <1>0, IdleFacts, IdleSound
<1> QED
  BY <1>3, <1>4, <1>5, <1>6 DEF IInv

(***************************************************************************)
(* destroy                                                                 *)
(***************************************************************************)
LEMMA DeleteClusterIInv == ASSUME IInv, DeleteCluster PROVE IInv'
<1>0. /\ UNCHANGED <<registry, files, repo, built, chart, made>>
      /\ cmd.name = "destroy" /\ cmd \in Commands /\ docker \in Dockers
      /\ docker' = [docker EXCEPT !.cluster = None] /\ kube' = Fresh /\ Go("registry")
  BY DEF DeleteCluster, At, IInv, TypeOK
<1>1. /\ cmd' \in Commands /\ cmd'.name = "destroy" /\ cmd'.at = "registry"
  BY <1>0, GoFacts DEF Steps
<1>2. docker' \in Dockers
  BY <1>0 DEF Dockers, Numbers
<1>3. docker'.cluster = None /\ docker'.registry = docker.registry
  BY <1>0 DEF Dockers
<1>4. TypeOK'
  BY <1>0, <1>1, <1>2, FreshFacts DEF IInv, TypeOK
<1>5. OneSet' /\ Credentialed' /\ Namespaced' /\ AppSound'
  BY <1>0, FreshFacts DEF OneSet, Credentialed, Namespaced, AppSound, NoSecrets
<1>6. Complete'
  BY <1>0 DEF IInv, Complete, Pullable
<1>7. Numbered' /\ Recorded'
  BY <1>0, <1>3, Constants DEF IInv, Numbered, Recorded
<1>8. DestroySound'
  BY <1>0, <1>1, <1>3, Constants DEF DestroySound, Fresh, NoSecrets
<1> QED
  BY <1>1, <1>4, <1>5, <1>6, <1>7, <1>8, Only DEF IInv

\* The cluster is gone, so neither its namespace nor its record counts.
LEMMA RemoveRegistryIInv == ASSUME IInv, RemoveRegistry PROVE IInv'
<1>0. /\ UNCHANGED <<kube, files, repo, built, chart, made>>
      /\ cmd.name = "destroy" /\ cmd.at = "registry" /\ cmd \in Commands /\ docker \in Dockers
      /\ files \in Records /\ registry' = {}
      /\ docker' = [docker EXCEPT !.registry = None] /\ Go("git")
  BY DEF RemoveRegistry, At, IInv, TypeOK
<1>1. /\ cmd' \in Commands /\ cmd'.name = "destroy" /\ cmd'.at = "git"
  BY <1>0, GoFacts DEF Steps
<1>2. docker.cluster \notin Nat /\ kube = Fresh
  BY <1>0 DEF IInv, CommandSound, DestroySound
<1>3. docker' \in Dockers
  BY <1>0 DEF Dockers, Owners
<1>4. docker'.cluster = docker.cluster
  BY <1>0 DEF Dockers
<1>5. files.bootstrap # None => files.bootstrap \in Nat
  BY <1>0 DEF Records, Numbers
<1>6. TypeOK'
  BY <1>0, <1>1, <1>3 DEF IInv, TypeOK
<1>7. OneSet' /\ Credentialed'
  BY <1>0 DEF IInv, OneSet, Credentialed, Applied
<1>8. Namespaced' /\ AppSound' /\ Complete'
  BY <1>0, <1>2, FreshFacts DEF Namespaced, AppSound, Complete
<1>9. Numbered' /\ Recorded'
  BY <1>0, <1>2, <1>4, <1>5 DEF IInv, Numbered, Recorded
<1>10. DestroySound'
  BY <1>0, <1>1, <1>2, <1>4 DEF DestroySound, Fresh, NoSecrets
<1> QED
  BY <1>1, <1>6, <1>7, <1>8, <1>9, <1>10, Only DEF IInv

LEMMA RemoveGitIInv == ASSUME IInv, RemoveGit PROVE IInv'
<1>0. /\ UNCHANGED <<registry, kube, files, repo, built, chart, made>> /\ cmd' = Idle
      /\ docker \in Dockers /\ docker' = [docker EXCEPT !.git = None]
  BY DEF RemoveGit, IInv, TypeOK
<1>1. docker' \in Dockers
  BY <1>0 DEF Dockers, Owners
<1>2. docker'.cluster = docker.cluster /\ docker'.registry = docker.registry
  BY <1>0 DEF Dockers
<1>3. TypeOK'
  BY <1>0, <1>1, IdleFacts DEF IInv, TypeOK
<1>4. OneSet' /\ Credentialed' /\ Complete' /\ AppSound'
  BY <1>0 DEF IInv, OneSet, Credentialed, Applied, Complete, AppSound, Bootstrapped, Pullable
<1>5. Numbered' /\ Namespaced' /\ Recorded'
  BY <1>0, <1>2 DEF IInv, Numbered, Namespaced, Recorded, Bootstrapped
<1>6. CommandSound'
  BY <1>0, IdleFacts, IdleSound
<1> QED
  BY <1>3, <1>4, <1>5, <1>6 DEF IInv

(***************************************************************************)
(* Around the tool                                                         *)
(***************************************************************************)
\* No command is under way: nothing is relied on.
LEMMA IdleCommand ==
  ASSUME cmd = Idle, UNCHANGED cmd
  PROVE  CommandSound'
BY IdleFacts, IdleSound

LEMMA RebuildIInv ==
  ASSUME IInv, NEW v \in Versions, NEW fit \in BOOLEAN, Rebuild(v, fit) PROVE IInv'
<1>0. /\ UNCHANGED <<docker, registry, kube, files, repo, chart, made, cmd>> /\ cmd = Idle
      /\ built' = [version |-> v, fit |-> fit]
  BY DEF Rebuild
<1>1. built' \in [version : Builds, fit : BOOLEAN]
  BY <1>0 DEF Builds
<1>2. TypeOK'
  BY <1>0, <1>1 DEF IInv, TypeOK
<1>3. OneSet' /\ Credentialed' /\ Numbered' /\ Namespaced' /\ Complete' /\ Recorded' /\ AppSound'
  BY <1>0 DEF IInv, OneSet, Credentialed, Applied, Numbered, Namespaced, Complete,
    Recorded, AppSound, Bootstrapped, Pullable
<1> QED
  BY <1>0, <1>2, <1>3, IdleCommand DEF IInv

LEMMA EditChartIInv == ASSUME IInv, EditChart PROVE IInv'
<1>0. /\ UNCHANGED <<docker, registry, kube, files, repo, built, made, cmd>> /\ cmd = Idle
      /\ chart' = ~chart
  BY DEF EditChart
<1>1. TypeOK'
  BY <1>0 DEF IInv, TypeOK
<1>2. OneSet' /\ Credentialed' /\ Numbered' /\ Namespaced' /\ Complete' /\ Recorded' /\ AppSound'
  BY <1>0 DEF IInv, OneSet, Credentialed, Applied, Numbered, Namespaced, Complete,
    Recorded, AppSound, Bootstrapped, Pullable
<1> QED
  BY <1>0, <1>1, <1>2, IdleCommand DEF IInv

LEMMA PutSecretsIInv ==
  ASSUME IInv, NEW g \in {None} \cup 1..made.secrets, PutSecrets(g) PROVE IInv'
<1>0. /\ UNCHANGED <<docker, registry, kube, repo, built, chart, made, cmd>> /\ cmd = Idle
      /\ files' = [files EXCEPT !.secrets = g] /\ files \in Records
      /\ made \in [clusters : Nat, secrets : Nat]
  BY DEF PutSecrets, IInv, TypeOK
<1>1. g \in Numbers
  BY <1>0 DEF Numbers
<1>2. files' \in Records
  BY <1>0, <1>1 DEF Records
<1>3. /\ files'.marker = files.marker /\ files'.bootstrap = files.bootstrap
      /\ files'.images = files.images
  BY <1>0 DEF Records
<1>4. TypeOK'
  BY <1>0, <1>2 DEF IInv, TypeOK
<1>5. OneSet' /\ Credentialed' /\ Complete' /\ AppSound' /\ Namespaced'
  BY <1>0 DEF IInv, OneSet, Credentialed, Applied, Complete, AppSound, Bootstrapped, Pullable,
    Namespaced
<1>6. Numbered' /\ Recorded'
  BY <1>0, <1>3 DEF IInv, Numbered, Recorded, Bootstrapped
<1> QED
  BY <1>0, <1>4, <1>5, <1>6, IdleCommand DEF IInv

\* A stranger takes or leaves only a name the tool does not hold.
LEMMA StrangerFacts ==
  ASSUME docker \in Dockers, NEW what \in DOMAIN docker, Stranger(what)
  PROVE  /\ docker' \in Dockers
         /\ docker'.cluster = docker.cluster \/ {docker.cluster, docker'.cluster} \subseteq {None, Theirs}
         /\ docker'.registry = docker.registry \/ docker.registry \in {None, Theirs}
<1>0. /\ docker[what] \in {None, Theirs}
      /\ docker' = [docker EXCEPT ![what] = IF @ = None THEN Theirs ELSE None]
  BY DEF Stranger
<1>1. what \in {"cluster", "registry", "git"}
  BY DEF Dockers
<1>2. CASE what = "cluster"
  <2>1. \E v \in {None, Theirs} : docker' = [docker EXCEPT !.cluster = v]
    BY <1>0, <1>2
  <2>2. PICK v \in {None, Theirs} : docker' = [docker EXCEPT !.cluster = v]
    BY <2>1
  <2>3. docker' \in Dockers
    BY <2>2 DEF Dockers, Numbers
  <2>4. docker'.cluster = v /\ docker'.registry = docker.registry
    BY <2>2 DEF Dockers
  <2> QED
    BY <1>0, <1>2, <2>2, <2>3, <2>4
<1>3. CASE what = "registry"
  <2>1. \E v \in {None, Theirs} : docker' = [docker EXCEPT !.registry = v]
    BY <1>0, <1>3
  <2>2. PICK v \in {None, Theirs} : docker' = [docker EXCEPT !.registry = v]
    BY <2>1
  <2>3. docker' \in Dockers
    BY <2>2 DEF Dockers, Owners
  <2>4. docker'.cluster = docker.cluster
    BY <2>2 DEF Dockers
  <2> QED
    BY <1>0, <1>3, <2>3, <2>4
<1>4. CASE what = "git"
  <2>1. \E v \in {None, Theirs} : docker' = [docker EXCEPT !.git = v]
    BY <1>0, <1>4
  <2>2. PICK v \in {None, Theirs} : docker' = [docker EXCEPT !.git = v]
    BY <2>1
  <2>3. docker' \in Dockers
    BY <2>2 DEF Dockers, Owners
  <2>4. docker'.cluster = docker.cluster /\ docker'.registry = docker.registry
    BY <2>2 DEF Dockers
  <2> QED
    BY <2>3, <2>4
<1> QED
  BY <1>1, <1>2, <1>3, <1>4

LEMMA StrangerIInv ==
  ASSUME IInv, NEW what \in DOMAIN docker, Stranger(what) PROVE IInv'
<1>0. /\ UNCHANGED <<registry, kube, files, repo, built, chart, made, cmd>>
      /\ docker \in Dockers /\ files \in Records
  BY DEF Stranger, IInv, TypeOK
<1>1. /\ docker' \in Dockers
      /\ docker'.cluster = docker.cluster \/ {docker.cluster, docker'.cluster} \subseteq {None, Theirs}
      /\ docker'.registry = docker.registry \/ docker.registry \in {None, Theirs}
  BY <1>0, StrangerFacts
<1>2. docker.registry = "ours" => docker'.registry = "ours"
  BY <1>1, Constants
<1>3. docker.cluster \in Nat \/ docker'.cluster \in Nat => docker'.cluster = docker.cluster
  BY <1>1, Constants
<1>4. /\ files.marker # None => files.marker \in Nat
      /\ files.bootstrap # None => files.bootstrap \in Nat
  BY <1>0 DEF Records, Numbers
<1>5. TypeOK'
  BY <1>0, <1>1 DEF IInv, TypeOK
<1>6. OneSet' /\ Credentialed' /\ Complete' /\ AppSound'
  BY <1>0 DEF IInv, OneSet, Credentialed, Applied, Complete, AppSound, Bootstrapped, Pullable
<1>7. Numbered' /\ Namespaced'
  BY <1>0, <1>2, <1>3 DEF IInv, Numbered, Namespaced
<1>8. Recorded'
  BY <1>0, <1>3, <1>4 DEF IInv, Recorded, Bootstrapped
<1>9. Owned => Owned'
  BY <1>0, <1>3, <1>4 DEF Owned
<1>10. ClusterSound' /\ DestroySound'
  BY <1>0, <1>2, <1>3 DEF IInv, CommandSound, ClusterSound, DestroySound, Fresh, NoSecrets
<1>11. PromoteSound'
  BY <1>0 DEF IInv, CommandSound, PromoteSound, PushedUpTo
<1>12. BootstrapSound'
  BY <1>0, <1>9 DEF IInv, CommandSound, BootstrapSound, Applied
<1>13. SyncSound'
  BY <1>0, <1>9 DEF IInv, CommandSound, SyncSound, Bootstrapped, Pullable
<1> QED
  BY <1>5, <1>6, <1>7, <1>8, <1>10, <1>11, <1>12, <1>13 DEF IInv, CommandSound

(***************************************************************************)
(* The theorems                                                            *)
(***************************************************************************)
LEMMA NextIInv == ASSUME IInv, [Next]_vars PROVE IInv'
<1>1. CASE Command
  BY <1>1, StartIInv DEF Command
<1>2. CASE Step
  BY <1>2, FindClusterIInv, CreateKindIInv, SaveMarkerIInv, JoinNodesIInv, ApplyPlatformIInv,
    InstallArgoIInv, AdmitIInv, PushIInv, SaveImagesIInv, SavePromotionIInv, ReadSecretsIInv,
    ApplySecretIInv, CheckUnownedIInv, StartDataIInv, MigrateIInv, MigrateAgainIInv,
    CreateRolesIInv, SaveBootstrapIInv, PushSnapshotIInv, ServeGitIInv, ApplyApplicationIInv, SaveSourceIInv,
    DeleteClusterIInv, RemoveRegistryIInv, RemoveGitIInv DEF Step
<1>3. CASE Fail
  BY <1>3, FailIInv
<1>4. CASE Around
  BY <1>4, RebuildIInv, PutSecretsIInv, StrangerIInv, EditChartIInv DEF Around
<1>5. CASE UNCHANGED vars
  <2>1. UNCHANGED <<docker, registry, kube, files, repo, built, chart, made>> /\ UNCHANGED cmd
    BY <1>5 DEF vars
  <2>2. cmd' \in Commands
    BY <2>1 DEF IInv, TypeOK
  <2>3. CommandSound'
    BY <2>1 DEF IInv, CommandSound, ClusterSound, PromoteSound, PushedUpTo, BootstrapSound, Owned,
      Applied, SyncSound, Bootstrapped, Pullable, DestroySound, Fresh, NoSecrets
  <2> QED
    BY <2>1, <2>2, <2>3, CommandMoves
<1> QED
  BY <1>1, <1>2, <1>3, <1>4, <1>5 DEF Next

\* The inductive invariant holds of every behaviour.
THEOREM PlatformInvariant == Spec => []IInv
<1>1. IInv /\ [Next]_vars => IInv'
  BY NextIInv
<1> QED
  BY InitIInv, <1>1, PTL DEF Spec

\* The parts of the platform's state stay of their types.
THEOREM PlatformTypeOK == Spec => []TypeOK
<1>1. IInv => TypeOK
  BY DEF IInv
<1> QED
  BY <1>1, PlatformInvariant, PTL

\* The credentials applied, the password the data was initialised with and
\* the passwords of its roles come from one secrets.json.
THEOREM PlatformOneGeneration == Spec => []OneGeneration
<1>1. IInv => OneGeneration
  <2> SUFFICES ASSUME IInv, NEW g \in Generations, NEW h \in Generations, g # None, h # None
               PROVE  g = h
    BY DEF OneGeneration
  <2>1. kube.roles # None => kube.data = kube.roles
    BY DEF IInv, Credentialed
  <2>2. CASE kube.data # None
    <3>1. \A k \in DOMAIN Groups : kube.secrets[k] = kube.data
      BY <2>2, Constants DEF IInv, Credentialed, Applied
    <3> QED
      BY <2>1, <3>1 DEF Generations
  <2>3. CASE kube.data = None
    <3>1. kube.roles = None
      BY <2>1, <2>3
    <3>2. PICK k \in DOMAIN Groups : g = kube.secrets[k]
      BY <2>3, <3>1 DEF Generations
    <3>3. PICK j \in DOMAIN Groups : h = kube.secrets[j]
      BY <2>3, <3>1 DEF Generations
    <3>4. k \in 1..j \/ j \in 1..k
      BY Constants
    <3> QED
      BY <3>2, <3>3, <3>4 DEF IInv, OneSet
  <2> QED
    BY <2>2, <2>3
<1> QED
  BY <1>1, PlatformInvariant, PTL

\* Argo CD is given the runtime only on a cluster that was bootstrapped, and
\* with images its registry has and a chart that passed the policy.
THEOREM PlatformArgoCanRun == Spec => []ArgoCanRun
<1>1. IInv => ArgoCanRun
  <2> SUFFICES ASSUME IInv, kube.app PROVE ArgoCanRun
    BY DEF ArgoCanRun
  <2>1. /\ kube.namespace /\ kube.schema /\ kube.roles # None /\ repo.safe
        /\ \A r \in Runtime : <<r, repo.images>> \in registry
    BY DEF IInv, AppSound, Bootstrapped, Pullable
  <2>2. kube.nodes /\ docker.registry = "ours"
    BY <2>1 DEF IInv, Namespaced
  <2>3. kube.data = kube.roles
    BY <2>1 DEF IInv, Credentialed
  <2>4. \A k \in DOMAIN Groups : kube.secrets[k] = kube.roles
    BY <2>1, <2>3, Constants DEF IInv, Credentialed, Applied
  <2> QED
    BY <2>1, <2>2, <2>3, <2>4 DEF ArgoCanRun
<1> QED
  BY <1>1, PlatformInvariant, PTL
=============================================================================

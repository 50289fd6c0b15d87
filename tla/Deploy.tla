------------------------------- MODULE Deploy -------------------------------
(***************************************************************************)
(* Releases: the workflow .github/workflows/deploy.yml, the script         *)
(* deploy/deploy_on_vm.sh that it runs on the VM, the container with       *)
(* entrypoint.sh, and the migrations of alembic/versions on a database     *)
(* that outlives every container.                                          *)
(*                                                                         *)
(* The workflow, the script on the VM and the container are three          *)
(* processes: the health check may give up while a migration still runs,   *)
(* the connection to the VM may drop in the middle of the script, docker   *)
(* restarts a container that exits.                                        *)
(***************************************************************************)
EXTENDS Naturals

CONSTANTS
    Images,      \* images CI pushed, one per commit on main
    Rev,         \* the last migration an image contains
    Shells,      \* processes on the VM that can run the script (bound)
    Manual,      \* images that people deploy by hand (bound)
    Sound,       \* images whose application starts once the database is ready
    None

Head == 5        \* revision of alembic/versions in the repository

ASSUME ImagesAssumption ==
    Rev \in [Images -> 1 .. Head] /\ Sound \subseteq Images
    /\ Manual \subseteq Images /\ None \notin Images /\ None \notin Shells

VARIABLES
    tag,         \* the image that carries the tag "deployed", or None
    running,     \* the userdata container
    db,          \* alembic_version, the schema, and whether two accounts
                 \* differ only in the case of their address
    job,         \* the workflow run (concurrency group: one at a time), and
                 \* the shell whose script it waits for
    script,      \* deploy_on_vm.sh on the VM: the script of each shell;
                 \* overlapped (history, in job too): another ran beside it
    healthy,     \* history: images that passed a health check
    disturbed,   \* history: something but the workflow's own steps decided
                 \* what runs or what is tagged
    mixed        \* history: the release of the tag was overlapped

vars == <<tag, running, db, job, script, healthy, disturbed, mixed>>
history == <<healthy, disturbed, mixed>>

-----------------------------------------------------------------------------
(* The migrations, on the set of tables and added columns. *)
upgrade_0001(s) == s \cup {"users", "records"}
upgrade_0002(s) == s \cup {"screen_snapshots", "screen_snapshot_items"}
upgrade_0003_no_version(s) ==
    s \cup {"users.email_verified_at", "users.password_changed_at", "email_tokens"}
upgrade_0003(s) ==
    s \cup {"users.email_verified_at", "users.password_changed_at",
            "users.token_version", "email_tokens"}
upgrade_0004(s) == s \cup {"daily_prices"}
upgrade_0005(s) == s \cup {"branch_trades"}

(* The schema at each revision of the chain of down_revisions. *)
SchemaAt ==
    LET s1 == upgrade_0001({})
        s2 == upgrade_0002(s1)
        s3 == upgrade_0003(s2)
        s4 == upgrade_0004(s3)
        s5 == upgrade_0005(s4)
    IN  [r \in 0 .. Head |-> CASE r = 0 -> {} [] r = 1 -> s1 [] r = 2 -> s2
                               [] r = 3 -> s3 [] r = 4 -> s4 [] r = 5 -> s5]

(* What the table classes of app/models.py read and write. *)
Tables == {"users", "users.email_verified_at", "users.password_changed_at",
           "users.token_version", "email_tokens", "records", "screen_snapshots",
           "screen_snapshot_items", "daily_prices"}

NoContainer == [image |-> None, state |-> "none"]
NoScript == [pc |-> "idle", image |-> None, prev |-> None, overlapped |-> FALSE]
NoJob == [pc |-> "idle", target |-> None, shell |-> None, overlapped |-> FALSE]

Init ==
    /\ tag = None
    /\ running = NoContainer
    /\ db = [rev |-> 0, schema |-> {}, clash |-> FALSE]
    /\ job = NoJob /\ script = [sh \in Shells |-> NoScript]
    /\ healthy = {} /\ disturbed = FALSE /\ mixed = FALSE

-----------------------------------------------------------------------------
(* The container: entrypoint.sh under "restart: unless-stopped". *)

(* alembic upgrade head: all pending migrations in one transaction.  It    *)
(* fails on a revision the image does not know, and in 0003 on two         *)
(* addresses that lower() makes equal; set -e then ends the container.     *)
Unknown(c) == db.rev > Rev[c]
Collides(c) == db.clash /\ db.rev < 3 /\ Rev[c] >= 3
Migrated(c) == [db EXCEPT !.rev = Rev[c],
                  !.schema = IF Rev[c] = db.rev THEN db.schema ELSE SchemaAt[Rev[c]]]
MigrateNoIndex ==
    /\ running.state = "starting"
    /\ \/ /\ Unknown(running.image)
          /\ running' = [running EXCEPT !.state = "crashed"]
          /\ UNCHANGED db
       \/ /\ ~Unknown(running.image)
          /\ running' = [running EXCEPT !.state = "migrated"]
          /\ db' = Migrated(running.image)
    /\ UNCHANGED <<tag, job, script, history>>
Migrate ==
    LET fails == Unknown(running.image) \/ Collides(running.image) IN
    /\ running.state = "starting"
    /\ \/ /\ fails
          /\ running' = [running EXCEPT !.state = "crashed"]
          /\ UNCHANGED db
       \/ /\ ~fails
          /\ running' = [running EXCEPT !.state = "migrated"]
          /\ db' = Migrated(running.image)
    /\ UNCHANGED <<tag, job, script, history>>

(* exec uvicorn app.main:app *)
StartUvicorn ==
    /\ running.state = "migrated"
    /\ running' = [running EXCEPT !.state =
                      IF running.image \in Sound THEN "serving" ELSE "crashed"]
    /\ UNCHANGED <<tag, db, job, script, history>>

RestartNever == running.state = "none" /\ UNCHANGED vars
Restart ==
    /\ running.state = "crashed"
    /\ running' = [running EXCEPT !.state = "starting"]
    /\ UNCHANGED <<tag, db, job, script, history>>

Die ==
    /\ running.state = "serving"
    /\ running' = [running EXCEPT !.state = "crashed"]
    /\ UNCHANGED <<tag, db, job, script, history>>

-----------------------------------------------------------------------------
(* The workflow. *)

StartScript(sh, c) ==
    /\ script[sh] = NoScript
    /\ LET others == {o \in Shells : script[o] # NoScript}
       IN  script' = [o \in Shells |->
             IF o = sh THEN [pc |-> "up", image |-> c, prev |-> running.image,
                             overlapped |-> others # {}]
             ELSE IF o \in others THEN [script[o] EXCEPT !.overlapped = TRUE]
             ELSE NoScript]

(* "Check for update" on the commit it is started for, the newest or an    *)
(* old one that is run again: with the tag already there and no force it   *)
(* stops.  Else scp and ssh; PREV_IMAGE is what the container has.  The    *)
(* concurrency group holds back a run while another one goes on, but knows *)
(* nothing of scripts on the VM.                                           *)
DeployWorkflow(sh, c, force) ==
    /\ job = NoJob
    /\ c # tag \/ force
    /\ StartScript(sh, c)
    /\ job' = [pc |-> "ssh", target |-> c, shell |-> sh, overlapped |-> FALSE]
    /\ UNCHANGED <<tag, running, db, history>>

MarkAsDeployed ==
    /\ job.pc = "tag"
    /\ tag' = job.target
    /\ mixed' = job.overlapped
    /\ job' = NoJob
    /\ UNCHANGED <<running, db, script, healthy, disturbed>>

(* The connection drops and the script on the VM lives on, or the tag      *)
(* cannot be written.  What fails before that changes nothing.             *)
JobFails ==
    /\ job # NoJob
    /\ job' = NoJob
    /\ disturbed' = TRUE
    /\ UNCHANGED <<tag, running, db, script, healthy, mixed>>

-----------------------------------------------------------------------------
(* deploy_on_vm.sh.  Exit hands the result to the workflow if it waits.    *)
At(sh, pc) == script[sh].pc = pc
Awaited(sh) == job.pc = "ssh" /\ job.shell = sh
Goto(sh, pc) == script' = [script EXCEPT ![sh].pc = pc] /\ UNCHANGED job
Exit(sh, code) ==
    /\ script' = [script EXCEPT ![sh] = NoScript]
    /\ job' = IF ~Awaited(sh) THEN job
              ELSE IF code = 0 THEN [job EXCEPT !.pc = "tag",
                                      !.overlapped = script[sh].overlapped]
              ELSE NoJob

(* docker login and pull, of the image by its tag. *)
PullFails(sh) ==
    /\ At(sh, "up")
    /\ Exit(sh, 1)
    /\ UNCHANGED <<tag, running, db, history>>

(* bring_up: compose leaves a container alone that runs the image already  *)
(* and starts one that was only created.  When it fails, the script        *)
(* removes the container and tries once more; a second failure ends the    *)
(* script (set -e) with no container, with one that was created and not    *)
(* started, or with the old one when docker does not answer at all.        *)
Starting(c) == [image |-> c, state |-> "starting"]
NotStarted(c) == [image |-> c, state |-> "created"]
bring_up(sh, c, next) ==
    /\ \/ /\ \/ /\ running.image = c /\ running.state # "created"
                /\ UNCHANGED running
             \/ running' = Starting(c)
          /\ Goto(sh, next)
          /\ UNCHANGED disturbed
       \/ /\ running' \in {running, NoContainer, NotStarted(c)}
          /\ disturbed' = TRUE
          /\ Exit(sh, 1)
    /\ UNCHANGED <<tag, db, healthy, mixed>>

Up(sh) == At(sh, "up") /\ bring_up(sh, script[sh].image, "health")

RollbackToTarget(sh) == At(sh, "rollback") /\ bring_up(sh, script[sh].image, "recheck")
Rollback(sh) == At(sh, "rollback") /\ bring_up(sh, script[sh].prev, "recheck")

(* health_check: one of the polls answers, or all of them fail.  Only the  *)
(* first check can end the script with 0.                                  *)
Checking(sh) == At(sh, "health") \/ At(sh, "recheck")
HealthPassedExitsZero(sh) ==
    /\ Checking(sh) /\ running.state = "serving"
    /\ healthy' = healthy \cup {running.image}
    /\ Exit(sh, 0)
    /\ UNCHANGED <<tag, running, db, disturbed, mixed>>
HealthPassed(sh) ==
    /\ Checking(sh) /\ running.state = "serving"
    /\ healthy' = healthy \cup {running.image}
    /\ Exit(sh, IF At(sh, "health") THEN 0 ELSE 1)
    /\ UNCHANGED <<tag, running, db, disturbed, mixed>>
HealthNeverGivesUp(sh) ==
    /\ Checking(sh) /\ script[sh].prev = None
    /\ Exit(sh, 1)
    /\ UNCHANGED <<tag, running, db, history>>
HealthFailed(sh) ==
    /\ Checking(sh)
    /\ IF At(sh, "health") /\ script[sh].prev # None
       THEN Goto(sh, "rollback") ELSE Exit(sh, 1)
    /\ UNCHANGED <<tag, running, db, history>>

(* A script whose connection is gone dies on the next line it prints;      *)
(* until then it goes on.                                                  *)
ScriptDies(sh) ==
    /\ script[sh] # NoScript /\ ~Awaited(sh)
    /\ script' = [script EXCEPT ![sh] = NoScript]
    /\ UNCHANGED <<tag, running, db, job, history>>

-----------------------------------------------------------------------------
(* People: a manual run on the VM (CICD.md, section 4), accounts that      *)
(* differ in case -- before 0003 nothing kept them apart -- and a          *)
(* decision which of them stays.                                           *)
ManualDeploy(sh, c) ==
    /\ StartScript(sh, c)
    /\ disturbed' = TRUE
    /\ UNCHANGED <<tag, running, db, job, healthy, mixed>>
RegisterBothCases ==
    /\ running.state = "serving" /\ Rev[running.image] < 3 /\ ~db.clash
    /\ db' = [db EXCEPT !.clash = TRUE]
    /\ UNCHANGED <<tag, running, job, script, history>>
ResolveClash ==
    /\ db.clash
    /\ db' = [db EXCEPT !.clash = FALSE]
    /\ UNCHANGED <<tag, running, job, script, history>>

-----------------------------------------------------------------------------
Container == Migrate \/ StartUvicorn \/ Restart
Script(sh) == PullFails(sh) \/ Up(sh) \/ Rollback(sh) \/ HealthPassed(sh) \/ HealthFailed(sh)

Next ==
    \/ Container \/ Die
    \/ MarkAsDeployed \/ JobFails
    \/ \E sh \in Shells : Script(sh) \/ ScriptDies(sh)
    \/ \E sh \in Shells, c \in Images, force \in BOOLEAN : DeployWorkflow(sh, c, force)
    \/ \E sh \in Shells, c \in Manual : ManualDeploy(sh, c)
    \/ RegisterBothCases \/ ResolveClash

Spec == Init /\ [][Next]_vars

(* Docker runs and restarts the container, the runner and the script go on *)
(* (every step of theirs has a timeout).                                   *)
FairSpec == Spec /\ WF_vars(Container) /\ WF_vars(MarkAsDeployed)
                 /\ \A sh \in Shells : WF_vars(Script(sh))

-----------------------------------------------------------------------------
(* Properties. *)

ContainerStates == {"created", "starting", "migrated", "serving", "crashed"}
TypeOK ==
    /\ tag \in Images \cup {None}
    /\ running \in [image : Images, state : ContainerStates] \cup {NoContainer}
    /\ db \in [rev : 0 .. Head, schema : SUBSET SchemaAt[Head], clash : BOOLEAN]
    /\ job \in [pc : {"ssh", "tag"}, target : Images, shell : Shells,
               overlapped : BOOLEAN] \cup {NoJob}
    /\ script \in [Shells -> [pc : {"up", "health", "rollback", "recheck"},
                             image : Images, prev : Images \cup {None},
                             overlapped : BOOLEAN] \cup {NoScript}]
    /\ healthy \subseteq Images
    /\ disturbed \in BOOLEAN /\ mixed \in BOOLEAN

(* Whatever release, rollback or interruption came before, an application  *)
(* that answers runs on exactly the schema of its own revision, and the    *)
(* code of this repository finds every table and column of its models.     *)
ServedSchema ==
    running.state = "serving" =>
        /\ db.rev = Rev[running.image] /\ db.schema = SchemaAt[db.rev]
        /\ Rev[running.image] = Head => Tables \subseteq db.schema

(* "failing loudly is correct" (0003): once addresses are lower case,      *)
(* there are no two accounts for one of them.                              *)
NoClashPast0003 == db.rev >= 3 => ~db.clash

(* The tag names an image that answered a health check, not one whose      *)
(* rollback answered it, unless the very release that wrote it ran beside  *)
(* another script, whose image the check of /health cannot tell from its   *)
(* own.  Scripts that people start or an interrupted run leaves behind may *)
(* spoil the tag of a release they overlap, and of no later one.           *)
TagWasHealthy == ~mixed /\ tag # None => tag \in healthy

(* "deployed" is "the truth of what is online": after every workflow run,  *)
(* successful, failed or rolled back, the container is the tagged image -- *)
(* unless a person, a lost connection or a failing docker interfered.      *)
TagIsOnline ==
    ~disturbed /\ job = NoJob /\ tag # None => running.image = tag

(* A started container whose image is sound, knows the revision of the     *)
(* database and meets no clash gets to serve (also after crashes over a    *)
(* clash that somebody resolved), unless a script runs that may replace it.*)
CanServe(c) == /\ running.image = c /\ running.state # "created" /\ c \in Sound
               /\ ~Unknown(c) /\ ~Collides(c)
SoundImageServes ==
    \A c \in Images : CanServe(c) ~>
        \/ running.state = "serving" \/ ~CanServe(c)
        \/ \E sh \in Shells : script[sh] # NoScript

(* Every workflow run ends, also when nothing ever becomes healthy. *)
DeploymentsEnd == job # NoJob ~> job = NoJob

(* "Health check + automatic rollback: when /health of the new version     *)
(* fails, back to the previous image", "in general safe" (CICD.md): the    *)
(* image a release is rolled back to, which served before, is not left     *)
(* crashing over a database that the new version has migrated.             *)
RollbackServes ==
    \A sh \in Shells :
        At(sh, "recheck") /\ script[sh].prev \in healthy
        /\ running = [image |-> script[sh].prev, state |-> "crashed"]
            => ~Unknown(script[sh].prev)

=============================================================================

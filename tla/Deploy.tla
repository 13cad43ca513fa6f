------------------------------- MODULE Deploy -------------------------------
(***************************************************************************)
(* How a database gets its schema and the API its database: the services   *)
(* of docker-compose.yml, scripts/wait-for-postgres.sh, golang-migrate     *)
(* (external) over the files of backend/migrations, the targets of the     *)
(* Makefile, and what can fall over meanwhile.  One operator, who gives a  *)
(* command when the last one has ended.                                    *)
(***************************************************************************)
EXTENDS Naturals

CONSTANT MaxTries  \* 60 in the script

ASSUME TriesAssumption == MaxTries \in Nat

SeedRow == {"user", "project", "tasks"}  \* "tasks" stands for all three
Latest  == 3

VARIABLES
    made, seed,     \* the volume: what the files have made of the schema,
                    \* the seeded rows,
    address,        \* test@example.com, which some other user may have taken,
    version, mark,  \* and schema_migrations
    postgres,  \* the container: "down", "booting", "healthy"
    command,   \* what the operator waits for
    migrate,   \* the container: where its process is, or how it ended
    tries,     \* i of the script
    api,       \* the container: "stopped", "starting", "serving"
    wanted     \* what the operator last asked for: "latest" or "less"

schema == <<made, seed, address>>
db == <<schema, version, mark>>

vars == <<db, postgres, command, migrate, tries, api, wanted>>

Init ==
    /\ made = {} /\ seed = {} /\ address = "free"
    /\ version = 0 /\ mark = "clean"
    /\ postgres = "down"
    /\ command = "none"
    /\ migrate = "absent"
    /\ tries = 0
    /\ api = "stopped"
    /\ wanted = "latest"

Active == {"waiting", "planning", "marking", "running", "clearing"}

-----------------------------------------------------------------------------
(* The migration files; PostgreSQL runs each as one transaction.           *)

(* 1 creates what must not exist, 2 inserts fixed ids and an address that  *)
(* is unique among users, 3 adds a column.                                 *)
UpApplies(n) ==
    CASE n = 1 -> "tables" \notin made
      [] n = 2 -> "tables" \in made /\ seed = {} /\ address = "free"
      [] n = 3 -> "tables" \in made /\ "created_by" \notin made

UpFile(n) ==
    /\ made' = made \union (CASE n = 1 -> {"tables"} [] n = 2 -> {} [] n = 3 -> {"created_by"})
    /\ seed' = IF n = 2 THEN SeedRow ELSE seed
    /\ UNCHANGED address

(* IF EXISTS throughout, and DELETEs by id, so that these always apply;    *)
(* that of the seeded user cascades.  Variant: the down file of 3 drops    *)
(* the index and forgets the column.                                       *)
DownFileForgets(n) ==
    /\ made' = IF n = 1 THEN {} ELSE made
    /\ seed' = IF n \in {1, 2} THEN {} ELSE seed
    /\ address' = IF n = 1 THEN "free" ELSE address

DownFile(n) ==
    /\ made' = CASE n = 1 -> {} [] n = 2 -> made [] n = 3 -> made \ {"created_by"}
    /\ seed' = IF n \in {1, 2} THEN {} ELSE seed
    /\ address' = IF n = 1 THEN "free" ELSE address

-----------------------------------------------------------------------------
(* The migrate container: the script's loop, then golang-migrate.          *)

Up == command # "migrate-down"

(* One more try.  A server that its own check finds healthy can still not  *)
(* be reached from this container: the race the script is there for.       *)
Retry(n) ==
    /\ migrate' = IF tries >= n THEN "failed" ELSE "waiting"
    /\ tries' = IF tries >= n THEN tries ELSE tries + 1

(* Any answer to "migrate version" but a failure to connect ends the loop. *)
(* Variants: one try too many (-le for -lt), and a loop that does not      *)
(* count.                                                                  *)
ProbeOnceMore ==
    /\ migrate = "waiting"
    /\ \/ Retry(MaxTries + 1)
       \/ /\ postgres = "healthy" /\ tries <= MaxTries
          /\ migrate' = "planning" /\ UNCHANGED tries
    /\ UNCHANGED <<db, postgres, command, api, wanted>>

ProbeForever ==
    /\ migrate = "waiting"
    /\ migrate' = IF postgres = "healthy" THEN "planning" ELSE "waiting"
    /\ UNCHANGED <<db, postgres, command, tries, api, wanted>>

Probe ==
    /\ migrate = "waiting"
    /\ \/ Retry(MaxTries)
       \/ /\ postgres = "healthy" /\ tries < MaxTries
          /\ migrate' = "planning" /\ UNCHANGED tries
    /\ UNCHANGED <<db, postgres, command, api, wanted>>

(* A dirty version is an error, and so is "down 1" with nothing to undo;   *)
(* "up" with nothing to do is not.                                         *)
Plan ==
    /\ migrate = "planning"
    /\ postgres = "healthy"
    /\ migrate' = CASE mark = "dirty" \/ (~Up /\ version = 0) -> "failed"
                    [] mark = "clean" /\ Up /\ version = Latest -> "ok"
                    [] OTHER -> "marking"
    /\ UNCHANGED <<db, postgres, command, tries, api, wanted>>

MarkDirty ==
    /\ migrate = "marking"
    /\ postgres = "healthy"
    /\ version' = IF Up THEN version + 1 ELSE version - 1
    /\ mark' = "dirty"
    /\ migrate' = "running"
    /\ UNCHANGED <<schema, postgres, command, tries, api, wanted>>

RunFile ==
    /\ migrate = "running"
    /\ postgres = "healthy"
    /\ IF Up /\ ~UpApplies(version)
       THEN migrate' = "failed" /\ UNCHANGED schema
       ELSE /\ migrate' = "clearing"
            /\ IF Up THEN UpFile(version) ELSE DownFile(version + 1)
    /\ UNCHANGED <<version, mark, postgres, command, tries, api, wanted>>

(* "up" goes on to the next file, "down 1" is done.                        *)
ClearDirty ==
    /\ migrate = "clearing"
    /\ postgres = "healthy"
    /\ mark' = "clean"
    /\ migrate' = IF Up /\ version < Latest THEN "marking" ELSE "ok"
    /\ UNCHANGED <<schema, version, postgres, command, tries, api, wanted>>

(* Killed, or the connection is lost; restart: "no".  What the server has  *)
(* committed stays.                                                        *)
MigrateDies ==
    /\ migrate \in Active
    /\ migrate' = "failed"
    /\ UNCHANGED <<db, postgres, command, tries, api, wanted>>

MigrateLosesServer == postgres = "down" /\ migrate # "waiting" /\ MigrateDies

MigrateStep == Probe \/ Plan \/ MarkDirty \/ RunFile \/ ClearDirty \/ MigrateLosesServer

-----------------------------------------------------------------------------
(* docker compose.                                                         *)

(* up, run --rm migrate up, run --rm migrate down 1.                       *)
Give(c) ==
    /\ command = "none"
    /\ command' = c
    /\ migrate' = "absent"
    /\ tries' = 0
    /\ postgres' = IF postgres = "down" THEN "booting" ELSE postgres
    /\ wanted' = IF c = "migrate-down" THEN "less" ELSE wanted
    /\ UNCHANGED <<db, api>>

(* depends_on: postgres: condition: service_healthy.                       *)
StartMigrate ==
    /\ command # "none" /\ migrate = "absent"
    /\ postgres = "healthy"
    /\ migrate' = "waiting"
    /\ UNCHANGED <<db, postgres, command, tries, api, wanted>>

(* The health check has failed as often as it may.                         *)
Unhealthy ==
    /\ command # "none" /\ migrate = "absent"
    /\ postgres # "healthy"
    /\ command' = "none"
    /\ UNCHANGED <<db, postgres, migrate, tries, api, wanted>>

(* depends_on: migrate: condition: service_completed_successfully.         *)
(* Variant: service_started.                                               *)
StartApiBeside ==
    /\ command = "up" /\ migrate # "absent"
    /\ command' = "none"
    /\ api' = IF api = "stopped" THEN "starting" ELSE api
    /\ wanted' = "latest"
    /\ UNCHANGED <<db, postgres, migrate, tries>>

StartApi ==
    /\ command = "up" /\ migrate = "ok"
    /\ command' = "none"
    /\ api' = IF api = "stopped" THEN "starting" ELSE api
    /\ wanted' = "latest"
    /\ UNCHANGED <<db, postgres, migrate, tries>>

CommandEnds ==
    /\ command # "none"
    /\ migrate = "failed" \/ (migrate = "ok" /\ command # "up")
    /\ command' = "none"
    /\ UNCHANGED <<db, postgres, migrate, tries, api, wanted>>

ComposeStep == StartMigrate \/ Unhealthy \/ StartApi \/ CommandEnds

(* down keeps the volume, down -v removes it.                              *)
Down(keep) ==
    /\ command = "none"
    /\ IF keep THEN UNCHANGED db
       ELSE made' = {} /\ seed' = {} /\ address' = "free" /\ version' = 0 /\ mark' = "clean"
    /\ postgres' = "down"
    /\ migrate' = "absent"
    /\ api' = "stopped"
    /\ UNCHANGED <<command, tries, wanted>>

(* make seed: psql reads 000002 statement by statement and goes on after   *)
(* an error.  An INSERT fails on its fixed ids or its missing parents, and *)
(* that of the user, without whom there are no others, on the address.     *)
Seed ==
    /\ command = "none"
    /\ postgres = "healthy"
    /\ seed' = IF "tables" \in made /\ address = "free" THEN SeedRow ELSE seed
    /\ UNCHANGED <<made, address, version, mark, postgres, command, migrate, tries, api, wanted>>

-----------------------------------------------------------------------------
(* The containers of the server and of the API.                            *)

Boot ==
    /\ postgres = "booting"
    /\ postgres' \in {"healthy", "down"}
    /\ UNCHANGED <<db, command, migrate, tries, api, wanted>>

(* No restart policy: it takes the next command to bring it back.          *)
PostgresDies ==
    /\ postgres = "healthy"
    /\ postgres' = "down"
    /\ UNCHANGED <<db, command, migrate, tries, api, wanted>>

(* main pings the server; when that fails it exits, and is restarted.  It  *)
(* does not look at the schema.                                            *)
Ping ==
    /\ api = "starting"
    /\ postgres = "healthy"
    /\ api' = "serving"
    /\ UNCHANGED <<db, postgres, command, migrate, tries, wanted>>

ApiDies ==
    /\ api = "serving"
    /\ api' = "starting"
    /\ UNCHANGED <<db, postgres, command, migrate, tries, wanted>>

(* The daemon restarts: of what ran, only the API has restart:             *)
(* unless-stopped, and depends_on is not looked at.                        *)
Reboot ==
    /\ postgres' = "down"
    /\ migrate' = IF migrate \in Active THEN "failed" ELSE migrate
    /\ command' = "none"
    /\ api' = IF api = "stopped" THEN api ELSE "starting"
    /\ UNCHANGED <<db, tries, wanted>>

(* Users delete seeded tasks (which reads created_by) or the seeded        *)
(* project; there is no way to delete a user.                              *)
DeleteSeeded ==
    /\ api = "serving" /\ postgres = "healthy" /\ "tables" \in made
    /\ \/ "created_by" \in made /\ seed' = seed \ {"tasks"}
       \/ seed' = seed \ {"project", "tasks"}
    /\ UNCHANGED <<made, address, version, mark, postgres, command, migrate, tries, api, wanted>>

(* POST /auth/register with the address of the seed.                       *)
TakeAddress ==
    /\ api = "serving" /\ postgres = "healthy" /\ "tables" \in made
    /\ "user" \notin seed
    /\ address' = "taken"
    /\ UNCHANGED <<made, seed, version, mark, postgres, command, migrate, tries, api, wanted>>

Next ==
    \/ \E c \in {"up", "migrate-up", "migrate-down"} : Give(c)
    \/ \E keep \in BOOLEAN : Down(keep)
    \/ Seed
    \/ StartMigrate \/ Unhealthy \/ StartApi \/ CommandEnds
    \/ Probe \/ Plan \/ MarkDirty \/ RunFile \/ ClearDirty
    \/ MigrateDies
    \/ Boot \/ PostgresDies \/ Ping \/ ApiDies \/ Reboot
    \/ DeleteSeeded \/ TakeAddress

Spec == Init /\ [][Next]_vars

(* Compose, the migrate process and the server's start are running         *)
(* programs with timers of their own; nothing makes the operator give a    *)
(* command or a container die.                                             *)
FairSpec == Spec /\ WF_vars(ComposeStep) /\ WF_vars(MigrateStep) /\ WF_vars(Boot)

-----------------------------------------------------------------------------
(* Properties.                                                             *)

(* The files and the version table hold together.                          *)
TypeOK ==
    /\ made \in {{}, {"tables"}, {"tables", "created_by"}}
    /\ seed \subseteq SeedRow
    /\ "tables" \notin made => seed = {} /\ address = "free"
    /\ "user" \notin seed => seed = {}
    /\ address \in {"free", "taken"} /\ (address = "taken" => seed = {})
    /\ version \in 0..Latest /\ mark \in {"clean", "dirty"}
    /\ postgres \in {"down", "booting", "healthy"}
    /\ command \in {"none", "up", "migrate-up", "migrate-down"}
    /\ migrate \in Active \union {"absent", "ok", "failed"}
    /\ tries \in 0..MaxTries
    /\ api \in {"stopped", "starting", "serving"}
    /\ wanted \in {"latest", "less"}

Holds(v) ==
    made = CASE v = 0 -> {} [] v \in {1, 2} -> {"tables"} [] v = 3 -> {"tables", "created_by"}

(* A version that is not marked dirty says which files have run, whatever  *)
(* died between running a file and recording it.                           *)
CleanVersionIsTrue == mark = "clean" => Holds(version)

(* README.md:34: the API only runs on a database whose migrations have all *)
(* run to completion - through crashes and restarts, and however often     *)
(* "up" is given - unless a roll-back was asked for since.                 *)
ApiHasItsSchema ==
    api # "stopped" /\ wanted = "latest" =>
        mark = "clean" /\ version = Latest /\ {"tables", "created_by"} \subseteq made

(* README.md:45, matching up and down files: every file applies to what    *)
(* the others, up or down, leave behind.  Only rows are in the way of the  *)
(* second: those make seed has put there, and, once a roll-back was asked  *)
(* for and until "up" got through again, a user with the seeded address.   *)
(* Nothing users do before a roll-back stops a migration.                  *)
EveryFileApplies ==
    migrate = "running" /\ Up =>
        \/ UpApplies(version)
        \/ version = 2 /\ (seed # {} \/ (address = "taken" /\ wanted = "less"))

(* The inductive invariant: what the database holds at each step of the    *)
(* migrate process, which only runs while the operator waits for it.       *)
Migrating ==
    /\ migrate \in Active => command # "none"
    /\ command = "migrate-down" => wanted = "less"
    /\ migrate = "marking" =>
           mark = "clean" /\ (IF Up THEN version < Latest ELSE version > 0)
    /\ migrate = "running" =>
           /\ mark = "dirty"
           /\ IF Up THEN version >= 1 /\ Holds(version - 1)
                    ELSE version < Latest /\ Holds(version + 1)
    /\ migrate = "clearing" => mark = "dirty" /\ Holds(version)
    /\ migrate = "ok" /\ command = "up" => mark = "clean" /\ version = Latest

(* And what it holds of the seed: nobody deletes the seeded user but the   *)
(* down file, so that the address is free only where the file has not run. *)
Seeded ==
    /\ "user" \notin seed /\ version >= 2 =>
           /\ version = 2 /\ mark = "dirty"
           /\ migrate # "clearing" /\ (migrate = "running" => Up)
    /\ address = "taken" => wanted = "less"

IInv == TypeOK /\ CleanVersionIsTrue /\ ApiHasItsSchema /\ Migrating /\ Seeded

(* A command ends: the stack is up, or the operator is told it is not.     *)
CommandsEnd == command # "none" ~> command = "none"

(* Makefile:43: make seed "fails if data already exists", so it adds       *)
(* nothing to what is left of the seed (a migration, which may, does so    *)
(* with its process running).  Not so: psql goes on after the failing      *)
(* INSERT (README, section 4).                                             *)
SeedFailsIfPresent ==
    [][migrate # "running" /\ seed # {} => seed' \subseteq seed]_vars
=============================================================================

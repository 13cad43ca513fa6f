---------------------------- MODULE DeployProofs ----------------------------
(***************************************************************************)
(* The proofs about Deploy, for a script that tries any number of times.   *)
(***************************************************************************)
EXTENDS Deploy, TLAPS

USE TriesAssumption
USE DEF SeedRow, Latest, Active, db, schema, IInv, TypeOK, CleanVersionIsTrue,
        ApiHasItsSchema, Migrating, Seeded, Holds, Up

(* An empty volume, nothing running.                                       *)
LEMMA Started == Init => IInv
BY DEF Init

(* The migrate process keeps the version and the schema in step.           *)
LEMMA MigrateKeeps ==
    ASSUME IInv, Probe \/ Plan \/ MarkDirty \/ RunFile \/ ClearDirty \/ MigrateDies
    PROVE  IInv'
<1>1. CASE Probe
    BY <1>1 DEF Probe, Retry
<1>2. CASE Plan
    BY <1>2 DEF Plan
<1>3. CASE MarkDirty
    BY <1>3 DEF MarkDirty
<1>4. CASE RunFile
    <2>1. CASE Up
        <3>0. version \in {1, 2, 3}
            BY <1>4, <2>1 DEF RunFile
        <3>1. CASE ~UpApplies(version)
            BY <1>4, <2>1, <3>1 DEF RunFile
        <3>2. CASE UpApplies(version) /\ version = 1
            BY <1>4, <2>1, <3>2 DEF RunFile, UpFile
        <3>3. CASE UpApplies(version) /\ version = 2
            <4>1. /\ migrate' = "clearing" /\ made' = made /\ seed' = SeedRow
                  /\ UNCHANGED <<address, version, mark, postgres, command, tries, api, wanted>>
                BY <1>4, <2>1, <3>3 DEF RunFile, UpFile
            <4>2. address = "free" /\ made = {"tables"} /\ mark = "dirty"
                BY <1>4, <2>1, <3>3 DEF RunFile, UpApplies
            <4>3. TypeOK' /\ Seeded'
                BY <4>1, <4>2
            <4>4. CleanVersionIsTrue' /\ ApiHasItsSchema' /\ Migrating'
                BY <1>4, <2>1, <3>3, <4>1, <4>2 DEF RunFile
            <4> QED BY <4>3, <4>4
        <3>4. CASE UpApplies(version) /\ version = 3
            BY <1>4, <2>1, <3>4 DEF RunFile, UpFile
        <3> QED BY <3>0, <3>1, <3>2, <3>3, <3>4
    <2>2. CASE ~Up
        BY <1>4, <2>2 DEF RunFile, DownFile
    <2> QED BY <2>1, <2>2
<1>5. CASE ClearDirty
    <2>1. /\ mark = "dirty" /\ mark' = "clean" /\ Holds(version) /\ command # "none"
          /\ migrate' = IF Up /\ version < Latest THEN "marking" ELSE "ok"
          /\ UNCHANGED <<made, seed, address, version, postgres, command, tries, api, wanted>>
        BY <1>5 DEF ClearDirty
    <2>2. Seeded'
        BY <1>5, <2>1 DEF ClearDirty
    <2>3. TypeOK' /\ CleanVersionIsTrue' /\ Migrating'
        BY <2>1
    <2>4. ApiHasItsSchema'
        BY <2>1
    <2> QED BY <2>2, <2>3, <2>4
<1>6. CASE MigrateDies
    BY <1>6 DEF MigrateDies
<1> QED BY <1>1, <1>2, <1>3, <1>4, <1>5, <1>6

(* Compose starts the API only behind a migrate that ended well.           *)
LEMMA ComposeKeeps ==
    ASSUME IInv, StartMigrate \/ Unhealthy \/ StartApi \/ CommandEnds
    PROVE  IInv'
BY DEF StartMigrate, Unhealthy, StartApi, CommandEnds

(* The operator's commands, and whatever dies or comes up by itself.       *)
LEMMA OthersKeep ==
    ASSUME IInv,
           \/ \E c \in {"up", "migrate-up", "migrate-down"} : Give(c)
           \/ \E keep \in BOOLEAN : Down(keep)
           \/ Seed \/ DeleteSeeded \/ TakeAddress
           \/ Boot \/ PostgresDies \/ Ping \/ ApiDies \/ Reboot
    PROVE  IInv'
<1>1. ASSUME NEW c \in {"up", "migrate-up", "migrate-down"}, Give(c)
      PROVE  IInv'
    BY <1>1 DEF Give
<1>2. ASSUME NEW keep \in BOOLEAN, Down(keep)
      PROVE  IInv'
    BY <1>2 DEF Down
<1>3. CASE Seed \/ DeleteSeeded
    BY <1>3 DEF Seed, DeleteSeeded
<1>4. CASE TakeAddress
    <2>1. wanted = "less"
        BY <1>4 DEF TakeAddress
    <2> QED BY <1>4, <2>1 DEF TakeAddress
<1>5. CASE Boot \/ PostgresDies \/ Ping \/ ApiDies \/ Reboot
    BY <1>5 DEF Boot, PostgresDies, Ping, ApiDies, Reboot
<1> QED BY <1>1, <1>2, <1>3, <1>4, <1>5

LEMMA InvStep == IInv /\ [Next]_vars => IInv'
<1>1. IInv /\ UNCHANGED vars => IInv'
    BY DEF vars
<1> HIDE DEF IInv
<1> QED BY <1>1, MigrateKeeps, ComposeKeeps, OthersKeep DEF Next

HIDE DEF IInv, CleanVersionIsTrue, ApiHasItsSchema

(* The schema, the version and the process agree in every reachable state. *)
THEOREM Agreement == Spec => []IInv
BY Started, InvStep, PTL DEF Spec

(* After any sequence of commands and crashes, a version that is not dirty *)
(* says which files have run.                                              *)
THEOREM VersionIsTrue == Spec => []CleanVersionIsTrue
<1>1. IInv => CleanVersionIsTrue
    BY DEF IInv
<1> QED BY <1>1, Agreement, PTL

(* Compose and a restarting daemon never run the API on half a schema.     *)
THEOREM SchemaServed == Spec => []ApiHasItsSchema
<1>1. IInv => ApiHasItsSchema
    BY DEF IInv
<1> QED BY <1>1, Agreement, PTL

(* No file meets what it cannot be applied to, rows by hand excepted and,  *)
(* after a roll-back, a user with the seeded address.                      *)
THEOREM FilesApply == Spec => []EveryFileApplies
<1>1. IInv => EveryFileApplies
    <2> SUFFICES ASSUME IInv, migrate = "running", Up
                 PROVE  \/ UpApplies(version)
                        \/ version = 2 /\ (seed # {} \/ (address = "taken" /\ wanted = "less"))
        BY DEF EveryFileApplies
    <2>1. /\ version \in {1, 2, 3} /\ Holds(version - 1)
          /\ address = "free" \/ wanted = "less"
          /\ address \in {"free", "taken"}
        BY DEF IInv
    <2>2. CASE version = 1
        BY <2>1, <2>2 DEF UpApplies
    <2>3. CASE version = 2
        BY <2>1, <2>3 DEF UpApplies
    <2>4. CASE version = 3
        BY <2>1, <2>4 DEF UpApplies
    <2> QED BY <2>1, <2>2, <2>3, <2>4
<1> QED BY <1>1, Agreement, PTL
=============================================================================

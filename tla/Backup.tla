------------------------------- MODULE Backup -------------------------------
(***************************************************************************)
(* texo backup create, verify and restore (src/backup), beside processes   *)
(* that append to the journal and an operator who edits the configuration. *)
(* A backup is a directory with a snapshot of the journal's files, a copy  *)
(* of config.toml, and a manifest, written last.  Each reading and writing *)
(* of a file is a step of its own.  A file's digest is its content.        *)
(***************************************************************************)
EXTENDS Host

CONSTANTS Dirs,             \* backup directories
          Backups,          \* those with a backup of an earlier day
          Roots,            \* workspace roots to restore to
          MaxCommands,      \* backup commands
          MaxTroubles       \* crashes, failures, and changes of a backup

ASSUME BackupAssumption ==
    /\ Backups \subseteq Dirs
    /\ MaxCommands \in Nat /\ MaxTroubles \in Nat

VARIABLES dir,              \* the backup directories
          root,             \* the restored workspaces
          op,               \* the backup command of a process
          reported,         \* manifests whose creation succeeded
          commands, troubles,
          altered           \* a backup was changed from outside

vars == <<hostVars, dir, root, op, reported, commands, troubles, altered>>

(***************************************************************************)
(* Snapshots, manifests and what verification compares                     *)
(***************************************************************************)
Files == {"first", "last"}          \* the segments of a journal

SnapshotOf(path, v) == [f \in Files |-> IF f = "first" THEN <<path, 0>> ELSE <<path, v>>]
Empty == [f \in {} |-> <<<< >>, 0>>]
Damaged == <<<<"damaged">>, 0>>

(* The files open read-only and their hash chain is intact.                *)
Intact(store) == \E path \in Paths, v \in 0..MaxVersion : store = SnapshotOf(path, v)

(* BackupManifest: its identity, the directory that it is bound to, the    *)
(* store path that the workspace had, and the digests.                     *)
ManifestOf(id, at, path, files, cfg) ==
    [id |-> id, at |-> at, path |-> path, files |-> files, config |-> cfg]
NoManifest == ManifestOf(0, None, << >>, Empty, None)

DirOf(store, cfg, manifest, extra) ==
    [there |-> TRUE, store |-> store, config |-> cfg, manifest |-> manifest, extra |-> extra]
NoDir == [DirOf(Empty, None, NoManifest, FALSE) EXCEPT !.there = FALSE]

DefaultPath == JournalOf(DefaultConfig, None).path

(* Mutation: the pin is not compared.                                      *)
IgnoresPin(pin, manifest) == TRUE

IsPinned(pin, manifest) == pin \in {0, manifest.id}

(* The parts of verification: the manifest and what is beside it,          *)
(* check_store_files, check_config and check_config_binding                *)
ManifestFits(d, manifest, pin) ==
    IsPinned(pin, manifest) /\ ~ dir[d].extra /\ manifest.at = d

StoreFits(d, manifest) == dir[d].store = manifest.files

ConfigMatches(d, manifest) == dir[d].config = manifest.config

(* Mutation: the binding of the configuration is not checked.              *)
ConfigUnbound(d, manifest) == ConfigMatches(d, manifest)

ConfigFits(d, manifest) ==
    /\ ConfigMatches(d, manifest)
    /\ Loads(dir[d].config, None)
    /\ JournalOf(dir[d].config, None).path = manifest.path

(***************************************************************************)
(* Commands                                                                *)
(***************************************************************************)
(* step: what comes next.  made: the directory is this command's.          *)
(* disturbed: changes of the configuration (create) or changes of the backup *)
(* (restore) since the command began.                                      *)
Idle == [kind |-> None, step |-> None, id |-> 0, dest |-> None, root |-> None,
         pin |-> 0, path |-> << >>, from |-> << >>, files |-> Empty, manifest |-> NoManifest,
         config |-> None, copied |-> Empty, fits |-> TRUE, made |-> FALSE,
         disturbed |-> 0]

NoRoot == [there |-> FALSE, store |-> Empty, space |-> Configs[DefaultConfig],
           config |-> None, pin |-> 0, disturbed |-> 0]

Making(p, d) == op[p].kind = "create" /\ op[p].made /\ op[p].dest = d

Ended(p) == [op EXCEPT ![p] = Idle]
At(p, step) == op[p].step = step
GoTo(p, step) == op' = [op EXCEPT ![p].step = step]

(* Mutation: a failing create removes whatever is at its destination.      *)
DroppedAny(p) ==
    IF op[p].kind = "create" THEN [dir EXCEPT ![op[p].dest] = NoDir] ELSE dir

(* BackupDestination::drop removes the directory that this create made.    *)
Dropped(p) ==
    IF op[p].kind = "create" /\ op[p].made THEN [dir EXCEPT ![op[p].dest] = NoDir] ELSE dir

Fail(p) ==
    /\ op' = Ended(p)
    /\ lock' = Unlocked(p)
    /\ dir' = Dropped(p)
    /\ UNCHANGED <<config, version, host, edits, root, reported, commands, troubles, altered>>

Begin(p, record) ==
    /\ op[p] = Idle /\ host[p] = Closed
    /\ commands < MaxCommands
    /\ commands' = commands + 1
    /\ op' = [op EXCEPT ![p] = record]

(* dispatch::backup resolves the workspace, open_workspace_store resolves  *)
(* it again from the file, and copy_config copies the file of a third time.*)
BeginCreate(p, d) ==
    /\ Loads(config, None)
    /\ Begin(p, [Idle EXCEPT !.kind = "create", !.step = "open", !.dest = d,
                             !.id = commands + 2,
                             !.path = JournalOf(config, None).path])
    /\ UNCHANGED <<hostVars, dir, root, reported, troubles, altered>>

OpenForBackup(p) ==
    LET from == JournalOf(config, None) IN
    /\ At(p, "open")
    /\ Loads(config, None) /\ CanOpen(from)
    /\ lock' = [lock EXCEPT ![from.path] = p]
    /\ op' = [op EXCEPT ![p].step = "make", ![p].from = from.path]
    /\ UNCHANGED <<config, version, host, edits, dir, root, reported, commands, troubles, altered>>

MakeDirectory(p) ==
    LET d == op[p].dest IN
    /\ At(p, "make")
    /\ ~ dir[d].there
    /\ dir' = [dir EXCEPT ![d] = [NoDir EXCEPT !.there = TRUE]]
    /\ op' = [op EXCEPT ![p].step = "snapshot", ![p].made = TRUE]
    /\ UNCHANGED <<hostVars, root, reported, commands, troubles, altered>>

(* snapshot_with_evidence, and the digests of what it wrote                *)
TakeSnapshot(p) ==
    LET store == SnapshotOf(op[p].from, version[op[p].from]) IN
    /\ At(p, "snapshot")
    /\ dir' = [dir EXCEPT ![op[p].dest].store = store]
    /\ op' = [op EXCEPT ![p].step = "config", ![p].files = store]
    /\ UNCHANGED <<hostVars, root, reported, commands, troubles, altered>>

CopyConfig(p) ==
    /\ At(p, "config")
    /\ dir' = [dir EXCEPT ![op[p].dest].config = config]
    /\ op' = [op EXCEPT ![p].step = "manifest", ![p].config = config]
    /\ UNCHANGED <<hostVars, root, reported, commands, troubles, altered>>

WriteManifest(p) ==
    LET d == op[p].dest IN
    /\ At(p, "manifest")
    /\ dir' = [dir EXCEPT ![d].manifest =
                 ManifestOf(op[p].id, d, op[p].path, op[p].files, op[p].config)]
    /\ GoTo(p, "verify")
    /\ UNCHANGED <<hostVars, root, reported, commands, troubles, altered>>

BeginVerify(p, d, pin) ==
    /\ Begin(p, [Idle EXCEPT !.kind = "verify", !.step = "verify", !.dest = d, !.pin = pin])
    /\ UNCHANGED <<hostVars, dir, root, reported, troubles, altered>>

BeginRestore(p, d, r, pin) ==
    /\ Begin(p, [Idle EXCEPT !.kind = "restore", !.step = "verify", !.dest = d,
                             !.root = r, !.pin = pin])
    /\ UNCHANGED <<hostVars, dir, root, reported, troubles, altered>>

(***************************************************************************)
(* verify: the findings are collected, and any refuses the backup.         *)
(***************************************************************************)
ReadManifest(p) ==
    LET d == op[p].dest  manifest == dir[d].manifest IN
    /\ At(p, "verify")
    /\ manifest # NoManifest
    /\ op' = [op EXCEPT ![p].step = "files", ![p].manifest = manifest,
                        ![p].fits = ManifestFits(d, manifest, op[p].pin)]
    /\ UNCHANGED <<hostVars, dir, root, reported, commands, troubles, altered>>

(* check_store_files, check_config, and check_store_read_only, which opens *)
(* a copy of the files                                                     *)
CheckContents(p) ==
    LET d == op[p].dest  manifest == op[p].manifest IN
    /\ At(p, "files")
    /\ op' = [op EXCEPT ![p].step = "verified",
                 ![p].fits = /\ @
                             /\ StoreFits(d, manifest)
                             /\ ConfigFits(d, manifest)
                             /\ Intact(dir[d].store)]
    /\ UNCHANGED <<hostVars, dir, root, reported, commands, troubles, altered>>

CreateCompletes(p) ==
    LET d == op[p].dest IN
    /\ At(p, "verified") /\ op[p].kind = "create" /\ op[p].fits
    /\ reported' = reported \union {[manifest |-> dir[d].manifest, from |-> op[p].from,
                                     disturbed |-> op[p].disturbed]}
    /\ op' = Ended(p)
    /\ lock' = Unlocked(p)
    /\ UNCHANGED <<config, version, host, edits, dir, root, commands, troubles, altered>>

VerifyReports(p) ==
    /\ At(p, "verified") /\ op[p].kind = "verify"
    /\ op' = Ended(p)
    /\ UNCHANGED <<hostVars, dir, root, reported, commands, troubles, altered>>

(***************************************************************************)
(* restore                                                                 *)
(***************************************************************************)
(* Mutation: every canonical journal moves to the default path.            *)
RehomedAll(space) ==
    [space EXCEPT !.journals = [j \in DOMAIN space.journals |->
        IF space.journals[j].role = "canonical"
        THEN [space.journals[j] EXCEPT !.path = DefaultPath] ELSE space.journals[j]]]

(* set_primary_store_path                                                  *)
Rehomed(space) == [space EXCEPT !.journals[space.primary].path = DefaultPath]

(* The manifest and the configuration are read again, and the pin and the  *)
(* digest of the configuration are not compared with them again.           *)
Reread(p) ==
    LET d == op[p].dest IN
    /\ At(p, "verified") /\ op[p].kind = "restore" /\ op[p].fits
    /\ dir[d].manifest # NoManifest
    /\ Loads(dir[d].config, None)
    /\ ~ root[op[p].root].there
    /\ op' = [op EXCEPT ![p].step = "copy", ![p].manifest = dir[d].manifest,
                        ![p].config = dir[d].config]
    /\ UNCHANGED <<hostVars, dir, root, reported, commands, troubles, altered>>

(* copy_verified_store, one file: the copy has the digest of the manifest. *)
Uncopied(p) == DOMAIN op[p].manifest.files \ DOMAIN op[p].copied
NextFile(p) == IF "first" \in Uncopied(p) THEN "first" ELSE "last"
Copies(p, f) ==
    LET store == dir[op[p].dest].store IN
    f \in DOMAIN store /\ store[f] = op[p].manifest.files[f]

CopyFile(p) ==
    LET f == NextFile(p) IN
    /\ At(p, "copy")
    /\ Uncopied(p) # {}
    /\ Copies(p, f)
    /\ op' = [op EXCEPT ![p].copied = [g \in DOMAIN op[p].copied \union {f} |->
                                          op[p].manifest.files[g]]]
    /\ UNCHANGED <<hostVars, dir, root, reported, commands, troubles, altered>>

(* The staged store opens, and the stage is renamed to the root.           *)
Publish(p) ==
    LET r == op[p].root IN
    /\ At(p, "copy")
    /\ Uncopied(p) = {}
    /\ Intact(op[p].copied)
    /\ ~ root[r].there
    /\ root' = [root EXCEPT ![r] =
         [there |-> TRUE, store |-> op[p].copied,
          space |-> Rehomed(Configs[op[p].config]), config |-> op[p].config,
          pin |-> op[p].pin, disturbed |-> op[p].disturbed]]
    /\ op' = Ended(p)
    /\ UNCHANGED <<hostVars, dir, reported, commands, troubles, altered>>

(* What refuses the next step                                              *)
Refused(p) ==
    LET d == op[p].dest IN
    \/ At(p, "open") /\ ~ (Loads(config, None) /\ CanOpen(JournalOf(config, None)))
    \/ At(p, "make") /\ dir[d].there
    \/ At(p, "verify") /\ dir[d].manifest = NoManifest
    \/ At(p, "verified") /\ op[p].kind # "verify" /\ ~ op[p].fits
    \/ /\ At(p, "verified") /\ op[p].kind = "restore"
       /\ \/ dir[d].manifest = NoManifest
          \/ ~ Loads(dir[d].config, None)
          \/ root[op[p].root].there
    \/ /\ At(p, "copy") /\ Uncopied(p) # {}
       /\ ~ Copies(p, NextFile(p))
    \/ /\ At(p, "copy") /\ Uncopied(p) = {}
       /\ ~ Intact(op[p].copied) \/ root[op[p].root].there

Refuse(p) == op[p] # Idle /\ Refused(p) /\ Fail(p)

(***************************************************************************)
(* Troubles                                                                *)
(***************************************************************************)
Trouble == troubles < MaxTroubles /\ troubles' = troubles + 1

(* A read or a write fails.                                                *)
Fault(p) ==
    /\ op[p] # Idle /\ Trouble
    /\ op' = Ended(p)
    /\ lock' = Unlocked(p)
    /\ dir' = Dropped(p)
    /\ UNCHANGED <<config, version, host, edits, root, reported, commands, altered>>

(* The process stops: the directory stays, the lock goes.                  *)
Crash(p) ==
    /\ op[p] # Idle \/ host[p] # Closed
    /\ Trouble
    /\ op' = Ended(p)
    /\ host' = [host EXCEPT ![p] = Closed]
    /\ lock' = Unlocked(p)
    /\ UNCHANGED <<config, version, edits, dir, root, reported, commands, altered>>

(* Something outside Texo changes a backup that is not in the making.      *)
Damage(d) ==
    /\ "last" \in DOMAIN dir[d].store
    /\ dir' = [dir EXCEPT ![d].store["last"] = Damaged]

Lose(d) ==
    \/ dir' = [dir EXCEPT ![d].manifest = NoManifest]
    \/ dir' = [dir EXCEPT ![d].store = [f \in DOMAIN @ \ {"first"} |-> @[f]]]

Add(d) == dir' = [dir EXCEPT ![d].extra = TRUE]

ChangeConfig(d) == \E c \in DOMAIN Configs \ {dir[d].config} :
    dir' = [dir EXCEPT ![d].config = c]

(* Another consistent backup takes the place of this one: an older copy of *)
(* the directory is synchronised back, say.                                *)
Replace(d) ==
    LET path == dir[d].manifest.path  store == SnapshotOf(path, 0) IN
    /\ dir[d].manifest # NoManifest
    /\ dir' = [dir EXCEPT ![d].store = store, ![d].manifest.id = MaxCommands + 2,
                          ![d].manifest.files = store]

Move(d) == \E e \in Dirs \ {d} :
    /\ ~ dir[e].there
    /\ dir' = [dir EXCEPT ![e] = dir[d], ![d] = NoDir]

Alter(d) ==
    /\ dir[d].there
    /\ \A p \in Processes : ~ Making(p, d)
    /\ Trouble
    /\ Damage(d) \/ Lose(d) \/ Add(d) \/ ChangeConfig(d) \/ Replace(d) \/ Move(d)
    /\ altered' = TRUE
    /\ op' = [p \in Processes |->
                IF op[p].kind = "restore" THEN [op[p] EXCEPT !.disturbed = 1] ELSE op[p]]
    /\ UNCHANGED <<hostVars, root, reported, commands>>

(* A create that runs beside a change of the configuration                 *)
Noticed ==
    op' = [p \in Processes |->
             IF op[p].kind = "create" /\ config' # config
             THEN [op[p] EXCEPT !.disturbed = @ + 1] ELSE op[p]]

Edit ==
    /\ EditConfig
    /\ Noticed
    /\ UNCHANGED <<dir, root, reported, commands, troubles, altered>>

(***************************************************************************)
(* The specification                                                       *)
(***************************************************************************)
FirstBackup(d) ==
    LET store == SnapshotOf(DefaultPath, 0) IN
    DirOf(store, DefaultConfig, ManifestOf(1, d, DefaultPath, store, DefaultConfig), FALSE)

Init ==
    /\ HostInit
    /\ dir = [d \in Dirs |-> IF d \in Backups THEN FirstBackup(d) ELSE NoDir]
    /\ root = [r \in Roots |-> NoRoot]
    /\ op = [p \in Processes |-> Idle]
    /\ reported = {[manifest |-> FirstBackup(d).manifest, from |-> DefaultPath,
                     disturbed |-> 0] : d \in Backups}
    /\ commands = 0 /\ troubles = 0 /\ altered = FALSE

HostStep(p) ==
    /\ op[p] = Idle
    /\ \/ \E selected \in Selections : OpenHost(p, selected, "serving")
       \/ OpenHost(p, None, "init")
       \/ Invoke(p) \/ CloseHost(p)
       \/ TruncateMissing(p) \/ InitWorkspace(p) \/ InitFails(p)
    /\ Noticed
    /\ UNCHANGED <<dir, root, reported, commands, troubles, altered>>

Pins == {0} \union {m.manifest.id : m \in reported}

BackupStep(p) ==
    \/ \E d \in Dirs :
         \/ BeginCreate(p, d)
         \/ \E pin \in Pins : \/ BeginVerify(p, d, pin)
                              \/ \E r \in Roots : BeginRestore(p, d, r, pin)
    \/ OpenForBackup(p) \/ MakeDirectory(p) \/ TakeSnapshot(p) \/ CopyConfig(p)
    \/ WriteManifest(p)
    \/ ReadManifest(p) \/ CheckContents(p)
    \/ CreateCompletes(p) \/ VerifyReports(p)
    \/ Reread(p) \/ CopyFile(p) \/ Publish(p)
    \/ Refuse(p)

Next ==
    \/ \E p \in Processes : HostStep(p) \/ BackupStep(p) \/ Fault(p) \/ Crash(p)
    \/ \E d \in Dirs : Alter(d)
    \/ Edit

Spec == Init /\ [][Next]_vars

(***************************************************************************)
(* Properties                                                              *)
(***************************************************************************)
TypeOK ==
    /\ HostTypeOK
    /\ \A d \in Dirs : DOMAIN dir[d].store \subseteq Files
    /\ \A p \in Processes : op[p] # Idle => host[p] = Closed
    /\ commands \in 0..MaxCommands /\ troubles \in 0..MaxTroubles

(* A backup that create reported holds the journal of the store path that  *)
(* its manifest names, although the configuration is read three times:     *)
(* only two changes during one create can pair a journal with another path   *)
(* (backup/create.rs, dispatch/durability.rs).                             *)
ReportedIsAsTaken ==
    \A b \in reported :
        b.disturbed < 2 =>
            /\ b.manifest.path = b.from
            /\ \E v \in 0..MaxVersion : b.manifest.files = SnapshotOf(b.from, v)

(* A reported backup passes verification for as long as nothing outside    *)
(* Texo changes it: no other create, restore or failure makes it unfit.    *)
ReportedVerifies ==
    ~ altered => \A b \in reported :
        LET d == b.manifest.at IN
        /\ dir[d].there /\ dir[d].manifest = b.manifest
        /\ ManifestFits(d, b.manifest, b.manifest.id)
        /\ StoreFits(d, b.manifest) /\ ConfigFits(d, b.manifest)
        /\ Intact(dir[d].store)

BackupInv == TypeOK /\ ReportedIsAsTaken /\ ReportedVerifies

(* A restored journal is one unbroken history, and what a pinned restore   *)
(* publishes is the backup that was reported under this pin, unless the    *)
(* backup was changed while the restore ran (backup/restore.rs).           *)
RestoredIsTaken ==
    \A r \in Roots : root[r].there =>
        /\ Intact(root[r].store)
        /\ root[r].pin # 0 /\ root[r].disturbed = 0 =>
             \E b \in reported :
                /\ b.manifest.id = root[r].pin
                /\ b.manifest.files = root[r].store
                /\ b.manifest.config = root[r].config

(* A restored workspace opens, on the restored journal, unless another of  *)
(* its journals already had the default path (set_primary_store_path).     *)
RestoredOpens ==
    \A r \in Roots : root[r].there =>
        LET original == Configs[root[r].config]  space == root[r].space IN
        \/ Resolves(space, None) /\ space.journals[space.primary].path = DefaultPath
        \/ \E j \in DOMAIN original.journals \ {original.primary} :
             original.journals[j].path = DefaultPath

(* What a restore publishes is what was taken, and can be used.            *)
RestoresAreSound == RestoredIsTaken /\ RestoredOpens

(* Texo never changes a backup that no create is making, and never a       *)
(* workspace that is there, whoever else has chosen the same destination   *)
(* (BackupDestination::drop, RestoreDestination::complete).                *)
ExistingIsKept ==
    [][ /\ \A d \in Dirs :
             dir[d].there /\ dir'[d] # dir[d] =>
                (\E p \in Processes : Making(p, d)) \/ (\E e \in Dirs : Alter(e))
        /\ \A r \in Roots : root[r].there => root'[r] = root[r] ]_vars
=============================================================================

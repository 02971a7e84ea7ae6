------------------------------ MODULE Install -------------------------------
(***************************************************************************)
(* texo install and texo uninstall (src/install.rs): the entries Texo adds *)
(* to files of the user, one per agent client and one in AGENTS.md, and    *)
(* its own manifests under .texo/.  Each write of a file is a step of its  *)
(* own, and so is the reading of a user's file before it is written; the   *)
(* command may stop before any of them, and the user may edit any file at  *)
(* any time.  A file is what the user has in it, apart from Texo, and the  *)
(* entry (client) or marker block (codex, AGENTS.md) of Texo.              *)
(***************************************************************************)
EXTENDS Topology, FiniteSets, Sequences

CONSTANTS Workspaces,       \* workspace ids
          Clients,          \* agent clients, see Order
          HandWritten,      \* workspace entries a user may write in config.toml
          Requests,         \* what --client may name
          FirstFiles,       \* what a file of the user may be at first
          MaxCommands, MaxTroubles      \* edits, crashes and failures

Order == <<"codex", "claude", "cursor">>        \* the order of ClientTarget

ASSUME InstallAssumption ==
    /\ Clients \subseteq {"codex", "claude", "cursor"} /\ None \notin Workspaces
    /\ MaxCommands \in Nat /\ MaxTroubles \in Nat

VARIABLES config,           \* .texo/config.toml
          file,             \* the clients' files and AGENTS.md
          dirs,             \* clients whose project directory is there
          manifest, hooks,  \* .texo/mcp.json, .texo/hooks.json
          cmd,              \* the running command
          last,             \* the last command and how it ended
          maker,            \* who made a file: user, texo, or late (see EditFile)
          spoilt,           \* the user has edited config.toml, or the manifests
          troubles, commands

vars == <<config, file, dirs, manifest, hooks, cmd, last, maker, spoilt,
          troubles, commands>>

Guide == "guide"
Files == Clients \union {Guide}

(***************************************************************************)
(* Files                                                                   *)
(***************************************************************************)
Server(ws, journal) == [ws |-> ws, journal |-> journal]
NoServer == Server(None, None)

(* own: what is the user's.  "foreign" is an entry named texo that is not  *)
(* Texo's (in a JSON file it stands in the place of Texo's), "broken" is a *)
(* malformed file, a cut marker block or a symbolic link.                  *)
Absent == [there |-> FALSE, own |-> None, texo |-> NoServer]
FileOf(own, texo) == [there |-> TRUE, own |-> own, texo |-> texo]
Unread == [there |-> FALSE, own |-> "unread", texo |-> NoServer]
ASSUME FirstFilesAssumption ==
    FirstFiles \subseteq {Absent} \union
        {FileOf(own, NoServer) : own \in {None, "content", "foreign", "broken"}}
IsJson(f) == f \in {"claude", "cursor"}

(* merge_json_adapter, merge_codex_adapter, upsert_agent_guide             *)
MergeRefused(f, wanted, previous) ==
    \/ file[f].own = "broken"
    \/ f # Guide /\ file[f].own = "foreign"
    \/ IsJson(f) /\ file[f].texo \notin {NoServer, wanted, previous}

Merged(text, wanted) == FileOf(text.own, wanted)

(* remove_json_adapter, remove_marked_block: a file that Texo made goes    *)
(* when nothing else is left in it                                         *)
RemoveRefused(f) ==
    /\ file[f].there
    /\ file[f].own \in IF IsJson(f) THEN {"broken", "foreign"} ELSE {"broken"}

(* Mutation: what the user added to a file Texo made is not looked at.     *)
RemovedBlindly(f, text, created) ==
    IF f \in created THEN Absent ELSE [text EXCEPT !.texo = NoServer]

Removed(f, text, created) ==
    IF f \in created /\ text.own = None THEN Absent
    ELSE [text EXCEPT !.texo = NoServer]

(* .texo/mcp.json and .texo/hooks.json *)
NoManifest == [state |-> "absent", server |-> NoServer, created |-> {}]
ManifestOf(server, created) == [state |-> "texo", server |-> server, created |-> created]

(***************************************************************************)
(* config.toml is rewritten in place: for a while, or after a crash for    *)
(* good, it is cut off ("torn") and does not parse.                        *)
(***************************************************************************)
NoConfig == [state |-> "absent", default |-> None, of |-> << >>]
Torn == [NoConfig EXCEPT !.state = "torn"]
SpaceOf(journals) == [primary |-> "canonical", journals |-> journals]

(* A workspace entry: the primary journal and what each name stands for.   *)
IsSpace(space) ==
    /\ space = [primary |-> space.primary, journals |-> space.journals]
    /\ space.journals = [j \in DOMAIN space.journals |-> space.journals[j]]
ASSUME HandWrittenAssumption == \A space \in HandWritten : IsSpace(space)

(* prospective_config *)
Prospective(ws) ==
    [state |-> "whole", default |-> ws,
     of |-> [w \in {ws} |-> SpaceOf([j \in {"canonical"} |-> Canonical(<<ws, j>>)])]]

(***************************************************************************)
(* Planning (prepare_install_plan)                                         *)
(***************************************************************************)
(* read: the file that is written next, as the command has read it.        *)
Idle == [op |-> None, ws |-> None, journal |-> None, request |-> {}, at |-> None,
         left |-> {}, targets |-> {}, shared |-> FALSE, created |-> {}, routes |-> << >>,
         plan |-> NoConfig, changed |-> FALSE, previous |-> NoServer, again |-> FALSE,
         read |-> Unread, wrote |-> FALSE, met |-> FALSE]

(* resolve_clients *)
Detected(c) == c \in dirs \/ (c = "claude" /\ file[c].there)

Selected(request) ==
    (request \intersect Clients)
    \union (IF "all" \in request THEN Clients ELSE {})
    \union (IF request = {} \/ "auto" \in request THEN {c \in Clients : Detected(c)} ELSE {})

(* plan_client_routes: a local imported replica of its own for each client, *)
(* or for all the journal that was named                                    *)
RouteOf(ws, space, c) == Replica(<<ws, c>>, space.primary, "imported")

RouteTaken(space, c) ==
    /\ c \in DOMAIN space.journals
    /\ LET entry == space.journals[c] IN
         \/ entry.role # "replica" \/ entry.mode # "imported"
         \/ entry.source # space.primary \/ entry.remote # None

(* Mutation: the planned replicas are not added to the configuration.      *)
UnsavedRoutes(ws, space, clients) == space

WithRoutes(ws, space, clients) ==
    [space EXCEPT !.journals =
        [j \in DOMAIN @ \union clients |->
            IF j \in DOMAIN @ THEN @[j] ELSE RouteOf(ws, space, j)]]

(* prepare_install_paths *)
(* Mutation: what earlier installations created is forgotten.              *)
CreatedNow(clients) == {f \in clients \union {Guide} : ~ file[f].there}

CreatedPaths(clients) ==
    manifest.created \union {f \in clients \union {Guide} : ~ file[f].there}

Planned(ws, journal, request) ==
    LET clients == Selected(request)
        base == IF config.state = "absent" THEN Prospective(ws) ELSE config
        space == base.of[ws]
        routes == [c \in clients |-> IF journal = None THEN c ELSE journal]
        routed == IF journal = None THEN WithRoutes(ws, space, clients) ELSE space
    IN  [Idle EXCEPT !.op = "install", !.ws = ws, !.journal = journal, !.request = request,
            !.at = "config", !.left = clients, !.created = CreatedPaths(clients),
            !.routes = routes, !.plan = [base EXCEPT !.of[ws] = routed],
            !.changed = routed # space,
            !.previous = manifest.server]

ConfigRefuses(ws, journal, p) ==
    \/ journal = None /\ \E c \in p.left : RouteTaken(p.plan.of[ws], c)
    \/ ~ Resolves(p.plan.of[ws], journal)

FilesRefuse(ws, p) ==
    \/ \E c \in p.left : MergeRefused(c, Server(ws, p.routes[c]), p.previous)
    \/ MergeRefused(Guide, Server(ws, None), p.previous)

(* How a command ends, and the next one that asks for the same             *)
Ended(how) ==
    /\ cmd' = Idle
    /\ last' = [op |-> cmd.op, ws |-> cmd.ws, journal |-> cmd.journal, request |-> cmd.request,
                how |-> how, wrote |-> cmd.wrote, met |-> cmd.met]

Repeats(op, ws, journal, request) ==
    last = [op |-> op, ws |-> ws, journal |-> journal, request |-> request,
            how |-> "done", wrote |-> last.wrote, met |-> FALSE]

Disk == <<config, file, dirs, manifest, hooks>>
Begin ==
    /\ cmd = Idle /\ commands < MaxCommands
    /\ commands' = commands + 1
    /\ UNCHANGED <<Disk, maker, spoilt, troubles>>

Refuse(op, ws, journal, request) ==
    /\ last' = [op |-> op, ws |-> ws, journal |-> journal, request |-> request,
                how |-> "refused", wrote |-> FALSE, met |-> FALSE]
    /\ UNCHANGED cmd

BeginInstall(ws, journal, request) ==
    /\ Begin
    /\ IF \/ manifest.state = "foreign" \/ config.state = "torn"
          \/ config.state = "whole" /\ ws \notin DOMAIN config.of
       THEN Refuse("install", ws, journal, request)
       ELSE LET p == Planned(ws, journal, request) IN
            IF ConfigRefuses(ws, journal, p) \/ FilesRefuse(ws, p)
            THEN Refuse("install", ws, journal, request)
            ELSE /\ cmd' = [p EXCEPT !.again = Repeats("install", ws, journal, request)]
                 /\ UNCHANGED last

(***************************************************************************)
(* Installing (apply_install_plan)                                         *)
(***************************************************************************)
Keep == UNCHANGED <<maker, spoilt, troubles, commands>>
Go(at) == cmd' = [cmd EXCEPT !.at = at, !.wrote = TRUE]

(* ensure_workspace writes a configuration where there is none, without    *)
(* the routes; then save writes it with them                               *)
Stale == config.state = "absent" \/ cmd.changed

TruncateConfig ==
    /\ cmd.op = "install" /\ cmd.at = "config" /\ Stale
    /\ config' = Torn
    /\ Go(IF config.state = "absent" THEN "created" ELSE "saved")
    /\ UNCHANGED <<file, dirs, manifest, hooks, last>> /\ Keep

WriteConfig ==
    /\ cmd.op = "install" /\ cmd.at \in {"created", "saved"}
    /\ config' = IF cmd.at = "created" THEN Prospective(cmd.ws) ELSE cmd.plan
    /\ cmd' = [cmd EXCEPT !.at = "config", !.changed = @ /\ cmd.at = "created"]
    /\ UNCHANGED <<file, dirs, manifest, hooks, last>> /\ Keep

(* refresh_reader of each route, see Replica; it may fail                  *)
RefreshRoutes ==
    /\ cmd.op = "install" /\ cmd.at = "config" /\ ~ Stale
    /\ cmd' = [cmd EXCEPT !.at = "manifest"]
    /\ UNCHANGED <<Disk, last>> /\ Keep

RefreshFails ==
    /\ cmd.op = "install" /\ cmd.at = "config" /\ ~ Stale /\ cmd.left # {}
    /\ troubles < MaxTroubles /\ troubles' = troubles + 1
    /\ Ended("failed")
    /\ UNCHANGED <<Disk, maker, spoilt, commands>>

WriteManifests ==
    /\ cmd.op = "install"
    /\ \/ /\ cmd.at = "manifest"
          /\ manifest' = ManifestOf(Server(cmd.ws, cmd.journal), cmd.created)
          /\ Go("hooks")
          /\ UNCHANGED hooks
       \/ /\ cmd.at = "hooks"
          /\ hooks' = ManifestOf(Server(cmd.ws, cmd.journal), {})
          /\ Go("files")
          /\ UNCHANGED manifest
    /\ UNCHANGED <<config, file, dirs, last>> /\ Keep

First(left) ==
    CHOOSE c \in left : \A i, j \in DOMAIN Order : Order[i] = c /\ Order[j] \in left => i <= j

Wanted(f) == Server(cmd.ws, IF f = Guide THEN None ELSE cmd.routes[f])

(* Mutation: the entry of before is taken from the manifest just written.  *)
PreviousNow == manifest.server

Previous == cmd.previous

(* The file a command is at                                                *)
Current ==
    IF cmd.left \subseteq {Guide} THEN Guide ELSE First(cmd.left \ {Guide})

(* A file is read, and what is to stand in it made of that; ...            *)
ReadToMerge ==
    /\ cmd.op = "install" /\ cmd.at = "files" /\ cmd.read = Unread
    /\ IF MergeRefused(Current, Wanted(Current), Previous)
       THEN Ended("refused")
       ELSE /\ cmd' = [cmd EXCEPT !.read = file[Current]]
            /\ UNCHANGED last
    /\ UNCHANGED Disk /\ Keep

(* ... then it is put in the place of whatever the file is by now.         *)
Put(f, text) ==
    /\ file' = [file EXCEPT ![f] = text]
    /\ maker' = [maker EXCEPT ![f] = IF ~ text.there THEN None
                    ELSE IF file[f].there THEN @ ELSE IF cmd.met THEN "late" ELSE "texo"]

MergeFile(f) ==
    /\ Put(f, Merged(cmd.read, Wanted(f)))
    /\ dirs' = dirs \union ({f} \ {"claude", Guide})
    /\ IF f = Guide THEN Ended("done")
       ELSE /\ cmd' = [cmd EXCEPT !.left = @ \ {f}, !.read = Unread]
            /\ UNCHANGED last
    /\ UNCHANGED <<config, manifest, hooks>>

InstallFile ==
    /\ cmd.op = "install" /\ cmd.at = "files" /\ cmd.read # Unread
    /\ MergeFile(Current)
    /\ UNCHANGED <<spoilt, troubles, commands>>

(***************************************************************************)
(* Uninstalling                                                            *)
(***************************************************************************)
UninstallRefused(clients, shared) ==
    \/ manifest.state = "foreign"
    \/ \E c \in clients : RemoveRefused(c)
    \/ shared /\ (RemoveRefused(Guide) \/ hooks.state = "foreign")

EveryClient(request) == request = {} \/ "all" \in request

BeginUninstall(request) ==
    LET shared == EveryClient(request)
        clients == IF request = {} THEN Clients ELSE Selected(request)
    IN  /\ Begin
        /\ IF UninstallRefused(clients, shared)
           THEN Refuse("uninstall", None, None, request)
           ELSE /\ cmd' = [Idle EXCEPT !.op = "uninstall", !.request = request, !.at = "files",
                              !.targets = clients,
                              !.left = clients \union (IF shared THEN {Guide} ELSE {}),
                              !.shared = shared, !.created = manifest.created]
                /\ UNCHANGED last

(* A file without an entry of Texo is left alone.                          *)
ReadToRemove ==
    /\ cmd.op = "uninstall" /\ cmd.at = "files" /\ cmd.left # {} /\ cmd.read = Unread
    /\ IF RemoveRefused(Current)
       THEN Ended("refused")
       ELSE /\ cmd' = IF file[Current].texo = NoServer
                      THEN [cmd EXCEPT !.left = @ \ {Current}]
                      ELSE [cmd EXCEPT !.read = file[Current]]
            /\ UNCHANGED last
    /\ UNCHANGED Disk /\ Keep

(* A file that is to be deleted and is gone already is an error.           *)
RemoveFile ==
    /\ cmd.op = "uninstall" /\ cmd.at = "files" /\ cmd.read # Unread
    /\ LET f == Current
           text == Removed(f, cmd.read, cmd.created)
       IN  IF ~ text.there /\ ~ file[f].there
           THEN /\ Ended("failed")
                /\ UNCHANGED <<file, maker>>
           ELSE /\ Put(f, text)
                /\ cmd' = [cmd EXCEPT !.left = @ \ {f}, !.read = Unread, !.wrote = TRUE]
                /\ UNCHANGED last
    /\ UNCHANGED <<config, dirs, manifest, hooks, spoilt, troubles, commands>>

RemoveHooks ==
    /\ cmd.op = "uninstall" /\ cmd.at = "files" /\ cmd.left = {} /\ cmd.shared
    /\ IF hooks.state = "foreign"
       THEN Ended("refused") /\ UNCHANGED hooks
       ELSE hooks' = NoManifest /\ Go("manifest") /\ UNCHANGED last
    /\ UNCHANGED <<config, file, dirs, manifest>> /\ Keep

(* The manifest goes last; without --client all it keeps what it lists of  *)
(* the other clients                                                       *)
RemoveManifest ==
    /\ cmd.op = "uninstall" /\ cmd.at = "manifest"
    /\ IF manifest.state = "foreign"
       THEN Ended("refused") /\ UNCHANGED manifest
       ELSE manifest' = NoManifest /\ Ended("done")
    /\ UNCHANGED <<config, file, dirs, hooks>> /\ Keep

RewriteManifest ==
    /\ cmd.op = "uninstall" /\ cmd.at = "files" /\ cmd.left = {} /\ ~ cmd.shared
    /\ IF \/ manifest.state = "foreign"
          \/ manifest.state = "texo" /\ manifest.server.ws = None
       THEN Ended("refused") /\ UNCHANGED manifest
       ELSE /\ manifest' = IF manifest.state = "absent" THEN manifest
                           ELSE ManifestOf(manifest.server, cmd.created \ cmd.targets)
            /\ Ended("done")
    /\ UNCHANGED <<config, file, dirs, hooks>> /\ Keep

(***************************************************************************)
(* The user, crashes, the specification                                    *)
(***************************************************************************)
Crash ==
    /\ cmd # Idle /\ troubles < MaxTroubles
    /\ troubles' = troubles + 1
    /\ Ended("crashed")
    /\ UNCHANGED <<Disk, maker, spoilt, commands>>

Edits(f) ==
    {Absent} \union {FileOf(own, NoServer) : own \in {None, "content", "broken"}}
    \union {[file[f] EXCEPT !.own = own] : own \in IF file[f].there THEN {None, "content"} ELSE {}}
    \union (IF f = Guide THEN {} ELSE
            {FileOf("foreign", IF IsJson(f) THEN NoServer ELSE file[f].texo)})

Edit ==
    /\ troubles < MaxTroubles /\ troubles' = troubles + 1
    /\ cmd' = IF cmd = Idle THEN Idle ELSE [cmd EXCEPT !.met = TRUE]
    /\ last' = [last EXCEPT !.met = TRUE]
    /\ UNCHANGED commands

(* A file made or changed by the user while the plan or the manifest lists *)
(* its path as one that Texo created is "late": Texo takes it for its own. *)
(* So is a file the user took away while a command was putting it there.   *)
EditFile ==
    \E f \in Files : \E new \in Edits(f) \ {file[f]} :
        /\ Edit
        /\ file' = [file EXCEPT ![f] = new]
        /\ dirs' = dirs \union (IF new.there THEN {f} \ {"claude", Guide} ELSE {})
        /\ maker' = [maker EXCEPT ![f] = IF ~ new.there THEN None
                        ELSE IF f \in manifest.created \union cmd.created THEN "late" ELSE "user"]
        /\ UNCHANGED <<config, manifest, hooks, spoilt>>

EditOurs ==
    /\ Edit
    /\ \/ /\ manifest' \in {NoManifest, [NoManifest EXCEPT !.state = "foreign"],
                            ManifestOf(NoServer, manifest.created)} \ {manifest}
          /\ spoilt' = [spoilt EXCEPT !.manifest = TRUE]
          /\ UNCHANGED <<config, hooks>>
       \/ /\ hooks' \in {NoManifest, [NoManifest EXCEPT !.state = "foreign"]} \ {hooks}
          /\ UNCHANGED <<config, manifest, spoilt>>
       \/ /\ config.state = "whole"
          /\ \E ws \in DOMAIN config.of, space \in HandWritten :
                config' = [config EXCEPT !.of[ws] = space]
          /\ spoilt' = [spoilt EXCEPT !.config = TRUE]
          /\ UNCHANGED <<manifest, hooks>>
    /\ UNCHANGED <<file, dirs, maker>>

Init ==
    /\ \/ config = NoConfig
       \/ config = [state |-> "whole", default |-> CHOOSE w \in Workspaces : TRUE,
                    of |-> [w \in Workspaces |-> Prospective(w).of[w]]]
    /\ file \in [Files -> FirstFiles]
    /\ dirs = {c \in Clients \ {"claude"} : file[c].there}
    /\ manifest = NoManifest /\ hooks = NoManifest
    /\ cmd = Idle
    /\ last = [op |-> None, ws |-> None, journal |-> None, request |-> {},
               how |-> None, wrote |-> FALSE, met |-> FALSE]
    /\ maker = [f \in Files |-> IF file[f].there THEN "user" ELSE None]
    /\ spoilt = [config |-> FALSE, manifest |-> FALSE]
    /\ troubles = 0 /\ commands = 0

Texo ==
    \/ TruncateConfig \/ WriteConfig \/ RefreshRoutes \/ RefreshFails \/ WriteManifests
    \/ ReadToMerge \/ InstallFile
    \/ ReadToRemove \/ RemoveFile \/ RemoveHooks \/ RemoveManifest \/ RewriteManifest

Next ==
    \/ \E ws \in Workspaces, journal \in {None, "canonical"}, request \in Requests :
          BeginInstall(ws, journal, request)
    \/ \E request \in Requests : BeginUninstall(request)
    \/ Texo \/ Crash \/ EditFile \/ EditOurs

Spec == Init /\ [][Next]_vars

(***************************************************************************)
(* Properties                                                              *)
(***************************************************************************)
TypeOK ==
    /\ config.state \in {"absent", "torn", "whole"}
    /\ file \in [Files -> [there : BOOLEAN, own : {None, "content", "foreign", "broken"},
                           texo : [ws : Workspaces \union {None},
                                   journal : Clients \union {None, "canonical"}]]]
    /\ dirs \subseteq Clients /\ maker \in [Files -> {None, "user", "texo", "late"}]
    /\ {manifest.state, hooks.state} \subseteq {"absent", "texo", "foreign"}
    /\ manifest.created \subseteq Files /\ cmd.left \subseteq Files

(* What the user has in a file stays as it is whatever Texo does, and a    *)
(* file the user made stays, but one made empty at a path that the plan or *)
(* the manifest already lists as created by Texo (README.md:30-35,         *)
(* INVARIANTS.md:20).  An edit after the file was read and before it is    *)
(* put in place is lost, to what the user had in the file before it        *)
(* (atomic_write).                                                         *)
Overtaken(f) == cmd.read # Unread /\ f = Current /\ file[f] # cmd.read

UserContentIsKept ==
    [][Texo => \A f \in Files :
          IF Overtaken(f) THEN file'[f].own \in {file[f].own, cmd.read.own}
          ELSE /\ file'[f].own = file[f].own
               /\ file[f].there /\ ~ file'[f].there => maker[f] \in {"texo", "late"}]_vars

(* A complete uninstall leaves no entry, no manifest and no empty file of  *)
(* Texo, however many installations, removals of single clients and        *)
(* crashes came before; the list of files it may delete lives in           *)
(* .texo/mcp.json, so an empty file may stay when the user changed that.   *)
NothingOfTexoRemains ==
    (last.op = "uninstall" /\ last.how = "done" /\ ~ last.met /\ cmd = Idle
       /\ EveryClient(last.request)) =>
        /\ manifest.state = "absent" /\ hooks.state = "absent"
        /\ \A f \in Files :
             /\ file[f].texo = NoServer
             /\ file[f] = FileOf(None, NoServer) => maker[f] # "texo" \/ spoilt.manifest

(* A command that finds a file it may not change finds it before its first *)
(* write (src/install.rs:146, 399), unless the user edited one since,  *)
(* or made the manifest name no workspace, which the removal of a single   *)
(* client finds out last.                                                  *)
RefusedBeforeWriting ==
    last.how = "refused" =>
        \/ ~ last.wrote \/ last.met
        \/ spoilt.manifest /\ last.op = "uninstall" /\ ~ EveryClient(last.request)

(* What holds between the commands, the user's files and the manifests.    *)
InstallInv == TypeOK /\ NothingOfTexoRemains /\ RefusedBeforeWriting

(* Every entry Texo wrote names a journal that the configuration resolves, *)
(* between any two writes and after any crash: unless the user rewrote the *)
(* configuration, or a crash cut it off in the middle of its rewrite.      *)
Served(server) ==
    server.ws # None =>
        server.ws \in DOMAIN config.of /\ Resolves(config.of[server.ws], server.journal)

AdaptersAreServable ==
    (config.state = "whole" /\ ~ spoilt.config) =>
        /\ \A f \in Files : Served(file[f].texo)
        /\ Served(manifest.server) /\ Served(hooks.server)

(* An installation repeated with nothing in between changes no file        *)
(* (INVARIANTS.md:20).                                                     *)
ReinstallChangesNothing ==
    [][(cmd.op = "install" /\ cmd.again /\ ~ cmd.met /\ Texo) => UNCHANGED Disk]_vars
=============================================================================

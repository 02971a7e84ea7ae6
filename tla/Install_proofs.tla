---------------------------- MODULE Install_proofs ----------------------------
(***************************************************************************)
(* What texo install and texo uninstall never do to a user's file, what a  *)
(* removal leaves, which entries can be served and what a repeated         *)
(* installation changes: for every set of clients and workspaces and every *)
(* sequence of commands, crashes and edits.  The run checks the same       *)
(* properties on one workspace with two clients.                           *)
(***************************************************************************)
EXTENDS Install, TLAPS

Listed == manifest.created \union cmd.created

(* A file that the manifest or the running command lists as created is no  *)
(* file the user had before it was listed.                                 *)
ListedIsNotUsers ==
    \A f \in Files : f \in Listed /\ file[f].there => maker[f] \in {"texo", "late"}

-----------------------------------------------------------------------------
(* What an installation and a removal leave, in the files, the manifests   *)
(* and the configuration                                                   *)
Servers == [ws : Workspaces \union {None}, journal : Clients \union {None, "canonical"}]
FileRecords == [there : BOOLEAN, own : {None, "content", "foreign", "broken"}, texo : Servers]
Manifests == [state : {"absent", "texo", "foreign"}, server : Servers, created : SUBSET Files]

Installing == cmd.op = "install"
Removing == cmd.op = "uninstall"
Before == {"config", "created", "saved"}    \* the steps before the first manifest

(***************************************************************************)
(* The invariant behind the theorems, in layers.  Typed and Reading are    *)
(* inductive together, each of the others given these two.                 *)
(***************************************************************************)

(* Typed: the variables, and what a running command's fields may be at     *)
(* each of its steps.                                                      *)
FilesAreTyped ==
    /\ TypeOK
    /\ manifest \in Manifests /\ hooks \in Manifests
    /\ \A f \in Files : ~ file[f].there => file[f] = Absent

(* A configuration is a record of workspaces as IsSpace has them.          *)
IsConfig(c) ==
    /\ c = [state |-> c.state, default |-> c.default, of |-> c.of]
    /\ \A ws \in DOMAIN c.of : IsSpace(c.of[ws])

(* The plan of a running installation: every route names the journal that *)
(* was asked for, or the client's own, and the plan has the workspace.     *)
Plans ==
    /\ cmd.at \in {"config", "created", "saved", "manifest", "hooks", "files"}
    /\ cmd.ws \in Workspaces /\ cmd.journal \in {None, "canonical"}
    /\ cmd.left \subseteq DOMAIN cmd.routes /\ DOMAIN cmd.routes \subseteq Clients
    /\ \A c \in DOMAIN cmd.routes : cmd.routes[c] = IF cmd.journal = None THEN c ELSE cmd.journal
    /\ IsConfig(cmd.plan) /\ cmd.plan.state = "whole" /\ cmd.ws \in DOMAIN cmd.plan.of

(* A running removal has left a part of what it took at its start.         *)
Removals ==
    /\ cmd.at \in {"files", "manifest"}
    /\ cmd.shared = EveryClient(cmd.request)
    /\ cmd.shared => cmd.targets = Clients
    /\ cmd.left \subseteq cmd.targets \union (IF cmd.shared THEN {Guide} ELSE {})
    /\ cmd.at = "manifest" => cmd.shared /\ cmd.left = {}

CommandIsTyped ==
    /\ DOMAIN cmd = DOMAIN Idle
    /\ cmd.op \in {None, "install", "uninstall"}
    /\ cmd.op = None => cmd = Idle
    /\ cmd.created \subseteq Files /\ cmd.targets \subseteq Clients
    /\ Installing => Plans
    /\ Removing => Removals

Typed ==
    /\ FilesAreTyped /\ CommandIsTyped /\ IsConfig(config)
    /\ DOMAIN last = {"op", "ws", "journal", "request", "how", "wrote", "met"}
    /\ DOMAIN spoilt = {"config", "manifest"}

(* Reading: what a command has read of the file it is at is what the file  *)
(* holds, until the user edits something; and a file that Texo made and    *)
(* the user has not touched is as it was read.                             *)
Reading ==
    cmd.read # Unread =>
      /\ Installing \/ Removing
      /\ cmd.at = "files"
      /\ cmd.read \in FileRecords /\ (~ cmd.read.there => cmd.read = Absent)
      /\ Removing => cmd.left # {} /\ cmd.read.texo # NoServer
      /\ (~ cmd.met \/ maker[Current] = "texo") => cmd.read = file[Current]

(* Free: what was planned is not refused until the user edits something,   *)
(* for every file still to be written was looked at before the first was   *)
(* (prepare_adapters, remove).                                             *)
InstallIsFree ==
    Installing /\ ~ cmd.met =>
        \A f \in cmd.left \union {Guide} : ~ MergeRefused(f, Wanted(f), Previous)
RemovalIsFree ==
    Removing /\ ~ cmd.met =>
        /\ \A f \in cmd.left : ~ RemoveRefused(f)
        /\ manifest.state # "foreign" /\ (cmd.shared => hooks.state # "foreign")
ManifestsName == manifest.state = "texo" => manifest.server.ws # None \/ spoilt.manifest
Free == InstallIsFree /\ RemovalIsFree /\ ManifestsName /\ RefusedBeforeWriting

(* Made: a file that Texo made is one the manifest lists, and holds Texo's *)
(* entry, until a removal has taken it away; a removal leaves nothing of   *)
(* what it is done with.                                                   *)
MadeIsListed ==
    \A f \in Files : maker[f] = "texo" =>
        /\ file[f].there /\ file[f].own = None
        /\ spoilt.manifest \/ (f \in manifest.created /\ file[f].texo # NoServer)
PlanLists ==
    Installing =>
        /\ cmd.at \in Before \union {"manifest"} => manifest.created \subseteq cmd.created
        /\ cmd.at \in {"hooks", "files"} => manifest.created = cmd.created \/ spoilt.manifest
        /\ ~ cmd.met => \A f \in cmd.left \union {Guide} : ~ file[f].there => f \in cmd.created
Done(f) == f \in cmd.targets \union (IF cmd.shared THEN {Guide} ELSE {}) /\ f \notin cmd.left
RemovalLists ==
    Removing =>
        /\ manifest.created \subseteq cmd.created
        /\ \A f \in Files : Done(f) =>
             /\ maker[f] # "texo" \/ spoilt.manifest
             /\ ~ cmd.met => file[f].texo = NoServer
        /\ cmd.at = "manifest" /\ ~ cmd.met => hooks.state = "absent"
Made == MadeIsListed /\ PlanLists /\ RemovalLists /\ NothingOfTexoRemains

(* Serving: every entry in a file or a manifest names a journal that the   *)
(* configuration resolves; and an installation writes an entry only when   *)
(* the configuration it follows has it (apply_install_plan).               *)
Serves(c, server) ==
    server.ws # None =>
        server.ws \in DOMAIN c.of /\ Resolves(c.of[server.ws], server.journal)
AllServers == {file[f].texo : f \in Files} \union {manifest.server, hooks.server}
NothingInstalled == \A server \in AllServers : server.ws = None
WillServe(c) == \A f \in cmd.left \union {Guide} : Serves(c, Wanted(f)) /\ Serves(c, Server(cmd.ws, cmd.journal))
ConfigServes ==
    ~ spoilt.config =>
      /\ config.state = "absent" => NothingInstalled
      /\ config.state = "whole" => \A server \in AllServers : Serves(config, server)
PlanServes ==
    Installing /\ ~ spoilt.config =>
      /\ cmd.at = "created" => NothingInstalled
      /\ cmd.at \in Before => \A server \in AllServers : Serves(cmd.plan, server)
      /\ cmd.at \in Before => WillServe(cmd.plan)
      /\ cmd.at \in {"manifest", "hooks", "files"} => WillServe(config)
Follows ==
    Installing /\ (~ spoilt.config \/ ~ cmd.met) =>
      /\ cmd.at \in {"manifest", "hooks", "files"} => config.state = "whole"
      /\ cmd.at = "config" /\ ~ cmd.changed /\ config.state # "absent" =>
           config.state = "whole" /\ cmd.ws \in DOMAIN config.of /\ config.of[cmd.ws] = cmd.plan.of[cmd.ws]
      /\ cmd.at = "created" \/ (cmd.at = "config" /\ config.state = "absent") =>
           cmd.changed \/ cmd.plan.of[cmd.ws] = Prospective(cmd.ws).of[cmd.ws]
Serving == ConfigServes /\ PlanServes /\ Follows

(* Repeated: what the last complete installation left is there until       *)
(* something meets it, and an installation that repeats it has the plan    *)
(* that changes nothing.                                                   *)
Written(f, ws, routes) ==
    /\ file[f].there /\ file[f].texo = Server(ws, IF f = Guide THEN None ELSE routes[f])
    /\ {f} \ {"claude", Guide} \subseteq dirs
Routed(ws, journal, clients) ==
    /\ config.state = "whole" /\ ws \in DOMAIN config.of
    /\ journal = None => clients \subseteq DOMAIN config.of[ws].journals
RoutesOf(journal, clients) == [c \in clients |-> IF journal = None THEN c ELSE journal]
Installed(ws, journal, request) ==
    /\ Routed(ws, journal, Selected(request))
    /\ manifest = ManifestOf(Server(ws, journal), manifest.created)
    /\ hooks = ManifestOf(Server(ws, journal), {})
    /\ \A f \in Selected(request) \union {Guide} :
         Written(f, ws, RoutesOf(journal, Selected(request)))
AsPlanned ==
    Installing /\ ~ cmd.met =>
      /\ Selected(cmd.request) \subseteq DOMAIN cmd.routes
      /\ cmd.journal = None => DOMAIN cmd.routes \subseteq DOMAIN cmd.plan.of[cmd.ws].journals
      /\ cmd.at \in {"manifest", "hooks", "files"} => Routed(cmd.ws, cmd.journal, DOMAIN cmd.routes)
      /\ cmd.at \in {"hooks", "files"} => manifest = ManifestOf(Server(cmd.ws, cmd.journal), manifest.created)
      /\ cmd.at = "files" => hooks = ManifestOf(Server(cmd.ws, cmd.journal), {})
      /\ cmd.at = "files" =>
           \A f \in DOMAIN cmd.routes \ cmd.left : Written(f, cmd.ws, cmd.routes)
      /\ cmd.at # "files" => cmd.left = DOMAIN cmd.routes
LastIsInstalled ==
    (cmd = Idle /\ last.op = "install" /\ last.how = "done" /\ ~ last.met) =>
        Installed(last.ws, last.journal, last.request)
AgainIsInstalled ==
    Installing /\ cmd.again /\ ~ cmd.met =>
      /\ cmd.at \notin {"created", "saved"}
      /\ cmd.at = "config" => ~ Stale
      /\ manifest = ManifestOf(Server(cmd.ws, cmd.journal), cmd.created)
      /\ hooks = ManifestOf(Server(cmd.ws, cmd.journal), {})
      /\ \A f \in cmd.left \union {Guide} : Written(f, cmd.ws, cmd.routes)
Repeated == AsPlanned /\ LastIsInstalled /\ AgainIsInstalled

-----------------------------------------------------------------------------
(* The fields of a command                                                 *)
Fields == {"op", "ws", "journal", "request", "at", "left", "targets", "shared", "created",
           "routes", "plan", "changed", "previous", "again", "read", "wrote", "met"}

(* The fields that the reading and the writing of a file leave alone       *)
Kept == <<cmd.op, cmd.ws, cmd.journal, cmd.request, cmd.at, cmd.targets, cmd.shared, cmd.created,
          cmd.routes, cmd.plan, cmd.changed, cmd.previous, cmd.again, cmd.met>>

LEMMA IdleIsTyped ==
    /\ DOMAIN Idle = Fields
    /\ Idle.op = None /\ Idle.left = {} /\ Idle.created = {} /\ Idle.targets = {}
    /\ Idle.met = FALSE /\ Idle.read = Unread
  BY DEF Idle, Fields

LEMMA ClientsAreNamed ==
    Guide \notin Clients /\ None \notin Clients /\ "canonical" \notin Clients
  BY InstallAssumption DEF Guide, None

(* The next file is one of those left.                                     *)
LEMMA FirstIsLeft ==
    ASSUME NEW left, left \subseteq Clients, left # {}
    PROVE  First(left) \in left
  <1>1. \E c \in left : \A i, j \in DOMAIN Order : Order[i] = c /\ Order[j] \in left => i <= j
    <2>1. DOMAIN Order = 1..3 /\ Order[1] = "codex" /\ Order[2] = "claude" /\ Order[3] = "cursor"
      BY DEF Order
    <2>2. left \subseteq {"codex", "claude", "cursor"}  BY InstallAssumption
    <2>3. CASE "codex" \in left
      <3>1. \A i, j \in DOMAIN Order : Order[i] = "codex" /\ Order[j] \in left => i <= j
        BY <2>1
      <3>2. QED  BY <2>3, <3>1
    <2>4. CASE "codex" \notin left /\ "claude" \in left
      <3>1. \A i, j \in DOMAIN Order : Order[i] = "claude" /\ Order[j] \in left => i <= j
        BY <2>1, <2>4
      <3>2. QED  BY <2>4, <3>1
    <2>5. CASE "codex" \notin left /\ "claude" \notin left
      <3>1. \A i, j \in DOMAIN Order : Order[i] = "cursor" /\ Order[j] \in left => i <= j
        BY <2>1, <2>5
      <3>2. QED  BY <2>2, <2>5, <3>1
    <2>6. QED  BY <2>3, <2>4, <2>5
  <1>2. QED  BY <1>1 DEF First

LEMMA CurrentIs ==
    ASSUME Typed
    PROVE  /\ Installing => Current \in cmd.left \union {Guide}
           /\ Installing /\ Current = Guide => cmd.left = {}
           /\ Removing /\ cmd.left # {} => Current \in cmd.left
           /\ cmd.left \subseteq Files
  <1>1. cmd.left \subseteq Files  BY DEF Typed, FilesAreTyped, TypeOK
  <1>2. Installing => cmd.left \subseteq Clients  BY DEF Typed, CommandIsTyped, Plans
  <1>3. CASE cmd.left \subseteq {Guide}
    <2>1. Current = Guide  BY <1>3 DEF Current
    <2>2. QED  BY <1>1, <1>2, <1>3, <2>1, ClientsAreNamed
  <1>4. CASE ~ cmd.left \subseteq {Guide}
    <2>1. Current = First(cmd.left \ {Guide})  BY <1>4 DEF Current
    <2>2. cmd.left \ {Guide} \subseteq Clients /\ cmd.left \ {Guide} # {}
      BY <1>1, <1>4 DEF Files
    <2>3. First(cmd.left \ {Guide}) \in cmd.left \ {Guide}  BY <2>2, FirstIsLeft
    <2>4. QED  BY <1>1, <2>1, <2>3
  <1>5. QED  BY <1>3, <1>4

-----------------------------------------------------------------------------
(* Planning                                                                *)
LEMMA SelectedAreClients == ASSUME NEW request PROVE Selected(request) \subseteq Clients
  BY DEF Selected

Base(ws) == IF config.state = "absent" THEN Prospective(ws) ELSE config
RoutedIn(base, ws, journal, clients) ==
    IF journal = None THEN WithRoutes(ws, base.of[ws], clients) ELSE base.of[ws]

WithSpace(base, ws, space) == [base EXCEPT !.of[ws] = space]

LEMMA PlannedFields ==
    ASSUME NEW ws, NEW journal, NEW request, NEW p, p = Planned(ws, journal, request)
    PROVE  /\ DOMAIN p = Fields /\ p.op = "install" /\ p.ws = ws /\ p.journal = journal
           /\ p.request = request /\ p.at = "config" /\ p.targets = {} /\ ~ p.met
  BY DEF Planned, Idle, Fields

LEMMA PlannedFiles ==
    ASSUME NEW ws, NEW journal, NEW request, NEW p, p = Planned(ws, journal, request)
    PROVE  /\ p.left = Selected(request) /\ p.created = CreatedPaths(Selected(request))
           /\ p.routes = RoutesOf(journal, Selected(request))
           /\ p.previous = manifest.server
  BY DEF Planned, Idle, RoutesOf

LEMMA PlannedPlan ==
    ASSUME NEW ws, NEW journal, NEW request, NEW p, p = Planned(ws, journal, request)
    PROVE  /\ p.plan = WithSpace(Base(ws), ws, RoutedIn(Base(ws), ws, journal, Selected(request)))
           /\ ~ p.changed => RoutedIn(Base(ws), ws, journal, Selected(request)) = Base(ws).of[ws]
           /\ p.changed => RoutedIn(Base(ws), ws, journal, Selected(request)) # Base(ws).of[ws]
  BY DEF Planned, Idle, Base, RoutedIn, WithSpace

LEMMA ProspectiveIsConfig ==
    ASSUME NEW ws
    PROVE  /\ IsConfig(Prospective(ws)) /\ DOMAIN Prospective(ws).of = {ws}
           /\ Prospective(ws).state = "whole"
  BY DEF IsConfig, IsSpace, Prospective, SpaceOf

(* The configuration that is planned has the same workspaces, and the one  *)
(* planned for has its journals and the routes.                            *)
LEMMA PlannedConfig ==
    ASSUME NEW ws, NEW journal, NEW clients, NEW base, IsConfig(base), ws \in DOMAIN base.of,
           NEW routed, routed = RoutedIn(base, ws, journal, clients),
           NEW plan, plan = WithSpace(base, ws, routed)
    PROVE  /\ IsConfig(plan) /\ plan.state = base.state
           /\ DOMAIN plan.of = DOMAIN base.of /\ plan.of[ws] = routed
           /\ \A w \in DOMAIN base.of : w # ws => plan.of[w] = base.of[w]
           /\ routed.primary = base.of[ws].primary
           /\ DOMAIN base.of[ws].journals \subseteq DOMAIN routed.journals
           /\ journal = None => clients \subseteq DOMAIN routed.journals
  <1>1. /\ base = [state |-> base.state, default |-> base.default, of |-> base.of]
        /\ IsSpace(base.of[ws])
    BY DEF IsConfig
  <1>2. /\ IsSpace(routed) /\ routed.primary = base.of[ws].primary
        /\ DOMAIN base.of[ws].journals \subseteq DOMAIN routed.journals
        /\ journal = None => clients \subseteq DOMAIN routed.journals
    <2>1. CASE journal # None  BY <1>1, <2>1 DEF RoutedIn
    <2>2. CASE journal = None
      <3>1. PICK primary, journals :
              /\ base.of[ws] = [primary |-> primary, journals |-> journals]
              /\ journals = [j \in DOMAIN journals |-> journals[j]]
        BY <1>1 DEF IsSpace
      <3>2. routed = [primary |-> primary, journals |->
                [j \in DOMAIN journals \union clients |->
                   IF j \in DOMAIN journals THEN journals[j] ELSE RouteOf(ws, base.of[ws], j)]]
        BY <2>2, <3>1 DEF WithRoutes, RoutedIn
      <3>3. QED  BY <3>1, <3>2 DEF IsSpace
    <2>3. QED  BY <2>1, <2>2
  <1>3. plan = [state |-> base.state, default |-> base.default, of |-> [base.of EXCEPT ![ws] = routed]]
    BY <1>1 DEF WithSpace
  <1>4. DOMAIN plan.of = DOMAIN base.of /\ plan.of[ws] = routed
        /\ \A w \in DOMAIN base.of : w # ws => plan.of[w] = base.of[w]
    BY <1>3
  <1>5. \A w \in DOMAIN plan.of : IsSpace(plan.of[w])  BY <1>2, <1>4 DEF IsConfig
  <1>6. QED  BY <1>2, <1>3, <1>4, <1>5 DEF IsConfig

LEMMA InitTyped == Init => Typed
  <1> SUFFICES ASSUME Init PROVE Typed  OBVIOUS
  <1>1. FirstFiles \subseteq {Absent} \union
          {FileOf(own, NoServer) : own \in {None, "content", "foreign", "broken"}}
    BY FirstFilesAssumption
  <1>2. /\ NoServer \in Servers
        /\ \A x \in FirstFiles :
             /\ x \in [there : BOOLEAN, own : {None, "content", "foreign", "broken"}, texo : Servers]
             /\ ~ x.there => x = Absent
    <2>1. NoServer \in Servers  BY DEF NoServer, Server, Servers
    <2>2. \A x \in FirstFiles : x = Absent \/
            \E own \in {None, "content", "foreign", "broken"} : x = FileOf(own, NoServer)
      BY <1>1
    <2>3. /\ Absent \in [there : BOOLEAN, own : {None, "content", "foreign", "broken"},
                          texo : Servers]
          /\ Absent.there = FALSE
      BY <2>1 DEF Absent
    <2>4. \A own \in {None, "content", "foreign", "broken"} :
            /\ FileOf(own, NoServer) \in
                 [there : BOOLEAN, own : {None, "content", "foreign", "broken"}, texo : Servers]
            /\ FileOf(own, NoServer).there
      BY <2>1 DEF FileOf
    <2>5. QED  BY <2>1, <2>2, <2>3, <2>4
  <1>3. NoManifest \in Manifests  BY <1>2 DEF NoManifest, Manifests
  <1>4. config.state \in {"absent", "torn", "whole"} /\ IsConfig(config)
    <2>1. CASE config = NoConfig
      <3>1. config = [state |-> "absent", default |-> None, of |-> << >>]  BY <2>1 DEF NoConfig
      <3>2. DOMAIN config.of = {}  BY <3>1
      <3>3. QED  BY <3>1, <3>2 DEF IsConfig
    <2>2. CASE config # NoConfig
      <3>1. PICK d, of : /\ config = [state |-> "whole", default |-> d, of |-> of]
                         /\ of = [w \in Workspaces |-> Prospective(w).of[w]]
        BY <2>2 DEF Init
      <3>2. \A w \in Workspaces : w \in DOMAIN Prospective(w).of /\ IsSpace(Prospective(w).of[w])
        BY ProspectiveIsConfig DEF IsConfig
      <3>3. QED  BY <3>1, <3>2 DEF IsConfig
    <2>3. QED  BY <2>1, <2>2
  <1>5. FilesAreTyped
    BY <1>2, <1>3, <1>4, IdleIsTyped
    DEF FilesAreTyped, TypeOK, Init, Manifests, Files, Servers, NoManifest
  <1>6. CommandIsTyped  BY IdleIsTyped DEF Init, CommandIsTyped, Installing, Removing, None
  <1>7. QED  BY <1>4, <1>5, <1>6 DEF Typed, Init

(* What does not change keeps its type.                                    *)
Paper == <<file, dirs, manifest, hooks, maker>>

LEMMA SameFiles ==
    ASSUME Typed, UNCHANGED Paper, config'.state \in {"absent", "torn", "whole"},
           cmd'.left \subseteq Files
    PROVE  FilesAreTyped'
  BY DEF Typed, FilesAreTyped, TypeOK, Paper, Absent, NoServer, Server, Manifests, Servers

LEMMA IdleCommand == ASSUME cmd' = Idle PROVE CommandIsTyped' /\ cmd'.left \subseteq Files
  BY IdleIsTyped DEF CommandIsTyped, Installing, Removing, None

LEMMA EndedTyped ==
    ASSUME NEW how, Ended(how), UNCHANGED <<Paper, config, spoilt>>, Typed
    PROVE  Typed'
  <1>1. CommandIsTyped' /\ cmd'.left \subseteq Files  BY IdleCommand DEF Ended
  <1>2. FilesAreTyped'  BY <1>1, SameFiles DEF Typed, FilesAreTyped, TypeOK
  <1>3. QED  BY <1>1, <1>2 DEF Typed, IsConfig, IsSpace, Ended

LEMMA BeginTyped ==
    ASSUME Typed,
           \/ \E ws \in Workspaces, journal \in {None, "canonical"}, request \in Requests :
                 BeginInstall(ws, journal, request)
           \/ \E request \in Requests : BeginUninstall(request)
    PROVE  Typed'
  <1>1. UNCHANGED <<Disk, maker, spoilt>>
    BY DEF BeginInstall, BeginUninstall, Begin
  <1>2. UNCHANGED Paper /\ UNCHANGED config /\ UNCHANGED spoilt
    BY <1>1 DEF Disk, Paper
  <1>3. IsConfig(config)' /\ DOMAIN spoilt' = {"config", "manifest"}
    BY <1>2 DEF Typed, IsConfig, IsSpace
  <1>4. DOMAIN last' = {"op", "ws", "journal", "request", "how", "wrote", "met"}
    BY DEF BeginInstall, BeginUninstall, Refuse, Typed
  <1>5. CommandIsTyped' => Typed'
    <2> SUFFICES ASSUME CommandIsTyped' PROVE Typed'  OBVIOUS
    <2>1. cmd'.left \subseteq Files
      <3>1. ASSUME Installing' PROVE cmd'.left \subseteq Files
        BY <3>1 DEF CommandIsTyped, Plans, Files
      <3>2. ASSUME Removing' PROVE cmd'.left \subseteq Files
        BY <3>2 DEF CommandIsTyped, Removals, Files
      <3>3. ASSUME cmd'.op = None PROVE cmd'.left \subseteq Files
        BY <3>3, IdleIsTyped DEF CommandIsTyped
      <3>4. QED  BY <3>1, <3>2, <3>3 DEF CommandIsTyped, Installing, Removing, None
    <2>2. FilesAreTyped'
      BY <1>2, <2>1, SameFiles DEF Typed, FilesAreTyped, TypeOK
    <2>3. QED  BY <1>3, <1>4, <2>2 DEF Typed
  <1>6. CASE UNCHANGED cmd
    <2>1. CommandIsTyped'
      BY <1>6 DEF Typed, CommandIsTyped, Plans, Removals, IsConfig, IsSpace, Installing, Removing
    <2>2. QED  BY <1>5, <2>1
  <1>7. ASSUME NEW ws \in Workspaces, NEW journal \in {None, "canonical"}, NEW request,
               config.state = "absent" \/ (config.state = "whole" /\ ws \in DOMAIN config.of),
               cmd' = [Planned(ws, journal, request) EXCEPT
                         !.again = Repeats("install", ws, journal, request)]
        PROVE  CommandIsTyped'
    <2>0. PICK p, base, clients, routed :
            /\ p = Planned(ws, journal, request) /\ base = Base(ws) /\ clients = Selected(request)
            /\ routed = RoutedIn(base, ws, journal, clients)
      OBVIOUS
    <2>1. /\ DOMAIN p = Fields /\ p.op = "install" /\ p.ws = ws /\ p.journal = journal
          /\ p.at = "config" /\ p.left = clients /\ p.targets = {}
          /\ p.created = CreatedPaths(clients)
          /\ p.routes = RoutesOf(journal, clients)
          /\ p.plan = WithSpace(base, ws, routed)
      BY <2>0, PlannedFields, PlannedFiles, PlannedPlan
    <2>2. IsConfig(base) /\ ws \in DOMAIN base.of /\ base.state = "whole"
      BY <1>7, <2>0, ProspectiveIsConfig DEF Typed, Base
    <2>3. clients \subseteq Clients  BY <2>0, SelectedAreClients
    <2>4. manifest.created \subseteq Files /\ clients \union {Guide} \subseteq Files
      BY <2>3 DEF Typed, FilesAreTyped, TypeOK, Files
    <2>5. CreatedPaths(clients) \subseteq Files  BY <2>4 DEF CreatedPaths
    <2>6. /\ DOMAIN cmd' = Fields /\ cmd'.op = "install" /\ cmd'.ws = ws /\ cmd'.journal = journal
          /\ cmd'.at = "config" /\ cmd'.left = clients /\ cmd'.targets = {}
          /\ cmd'.created \subseteq Files
          /\ cmd'.routes = RoutesOf(journal, clients)
          /\ cmd'.plan = p.plan
      BY <1>7, <2>0, <2>1, <2>5 DEF Fields
    <2>7. IsConfig(p.plan) /\ p.plan.state = "whole" /\ ws \in DOMAIN p.plan.of
      BY <2>0, <2>1, <2>2, PlannedConfig
    <2>8. IsConfig(cmd'.plan) /\ cmd'.plan.state = "whole" /\ ws \in DOMAIN cmd'.plan.of
      BY <2>6, <2>7
    <2>9. Plans'
      <3>1. /\ cmd'.left \subseteq DOMAIN cmd'.routes /\ DOMAIN cmd'.routes \subseteq Clients
            /\ \A c \in DOMAIN cmd'.routes :
                 cmd'.routes[c] = IF cmd'.journal = None THEN c ELSE cmd'.journal
        BY <2>3, <2>6 DEF RoutesOf
      <3>2. QED  BY <2>6, <2>8, <3>1 DEF Plans, IsConfig, IsSpace
    <2>10. QED  BY <2>6, <2>9, IdleIsTyped DEF CommandIsTyped, Installing, Removing, None
  <1>8. ASSUME NEW request, BeginUninstall(request) PROVE Typed'
    <2> DEFINE shared == EveryClient(request)
               clients == IF request = {} THEN Clients ELSE Selected(request)
    <2>1. CASE UNCHANGED cmd  BY <1>6, <2>1
    <2>2. CASE cmd' = [Idle EXCEPT !.op = "uninstall", !.request = request, !.at = "files",
                              !.targets = clients,
                              !.left = clients \union (IF shared THEN {Guide} ELSE {}),
                              !.shared = shared, !.created = manifest.created]
      <3>1. /\ DOMAIN cmd' = DOMAIN Idle /\ cmd'.op = "uninstall" /\ cmd'.request = request
            /\ cmd'.at = "files" /\ cmd'.targets = clients
            /\ cmd'.left = clients \union (IF shared THEN {Guide} ELSE {})
            /\ cmd'.shared = shared /\ cmd'.created = manifest.created
        BY <2>2 DEF Idle
      <3>2. clients \subseteq Clients /\ (shared => clients = Clients)
        BY DEF Selected, EveryClient
      <3>3. Removals'  BY <3>1, <3>2 DEF Removals
      <3>4. manifest.created \subseteq Files  BY DEF Typed, FilesAreTyped, TypeOK
      <3> HIDE DEF shared, clients
      <3>5. CommandIsTyped'
        BY <3>1, <3>2, <3>3, <3>4 DEF CommandIsTyped, Installing, Removing, None
      <3>6. QED  BY <1>5, <3>5
    <2>3. QED  BY <1>8, <2>1, <2>2 DEF BeginUninstall, Refuse
  <1>9. ASSUME NEW ws \in Workspaces, NEW journal \in {None, "canonical"}, NEW request,
               BeginInstall(ws, journal, request)
        PROVE  Typed'
    <2>1. CASE UNCHANGED cmd  BY <1>6, <2>1
    <2>2. CASE ~ UNCHANGED cmd
      <3>1. /\ config.state = "absent" \/ (config.state = "whole" /\ ws \in DOMAIN config.of)
            /\ cmd' = [Planned(ws, journal, request) EXCEPT
                         !.again = Repeats("install", ws, journal, request)]
        BY <1>9, <2>2 DEF BeginInstall, Refuse, Typed, FilesAreTyped, TypeOK
      <3>2. QED  BY <1>5, <1>7, <3>1
    <2>3. QED  BY <2>1, <2>2
  <1>10. QED  BY <1>8, <1>9

(* A server that is written is one.                                        *)
LEMMA ServersAreTyped ==
    ASSUME Typed
    PROVE  /\ NoServer \in Servers
           /\ Installing => Server(cmd.ws, cmd.journal) \in Servers
           /\ Installing => \A f \in cmd.left \union {Guide} :
                 Wanted(f) \in Servers /\ Wanted(f) # NoServer
  <1>1. NoServer \in Servers  BY DEF NoServer, Server, Servers
  <1>2. ASSUME Installing PROVE Server(cmd.ws, cmd.journal) \in Servers
    BY <1>2 DEF Typed, CommandIsTyped, Plans, Server, Servers
  <1>3. ASSUME Installing, NEW f \in cmd.left \union {Guide}
        PROVE  Wanted(f) \in Servers /\ Wanted(f) # NoServer
    <2>1. /\ cmd.ws \in Workspaces /\ cmd.ws # None
          /\ f # Guide => cmd.routes[f] \in Clients \union {None, "canonical"}
      BY <1>3, InstallAssumption DEF Typed, CommandIsTyped, Plans
    <2>2. QED  BY <2>1 DEF Wanted, Server, Servers, NoServer
  <1>4. QED  BY <1>1, <1>2, <1>3

LEMMA FilesTyped ==
    ASSUME Typed
    PROVE  /\ file \in [Files -> FileRecords] /\ dirs \subseteq Clients
           /\ maker \in [Files -> {None, "user", "texo", "late"}]
           /\ manifest \in Manifests /\ hooks \in Manifests
           /\ \A f \in Files : ~ file[f].there => file[f] = Absent
           /\ config.state \in {"absent", "torn", "whole"}
           /\ cmd.left \subseteq Files
  BY DEF Typed, FilesAreTyped, TypeOK, FileRecords, Servers

LEMMA FilesTypedAgain ==
    ASSUME file' \in [Files -> FileRecords], dirs' \subseteq Clients,
           maker' \in [Files -> {None, "user", "texo", "late"}],
           manifest' \in Manifests, hooks' \in Manifests,
           \A f \in Files : ~ file'[f].there => file'[f] = Absent,
           config'.state \in {"absent", "torn", "whole"}, cmd'.left \subseteq Files
    PROVE  FilesAreTyped'
  <1>1. (TypeOK)'
    BY DEF TypeOK, FileRecords, Servers, Manifests
  <1>2. (\A f \in Files : ~ file[f].there => file[f] = Absent)'
    BY DEF Absent, NoServer, Server
  <1>3. manifest' \in Manifests' /\ hooks' \in Manifests'  BY DEF Manifests, Servers
  <1>4. QED  BY <1>1, <1>2, <1>3 DEF FilesAreTyped

(* The command goes on: less is left, and what was planned stays.          *)
LEMMA GoesOn ==
    ASSUME Typed, DOMAIN cmd' = DOMAIN cmd, cmd'.left \subseteq cmd.left,
           UNCHANGED <<cmd.op, cmd.ws, cmd.journal, cmd.routes, cmd.plan, cmd.created,
                       cmd.targets, cmd.shared, cmd.request>>,
           Installing \/ Removing,
           Installing => cmd'.at \in {"config", "created", "saved", "manifest", "hooks", "files"},
           Removing => cmd'.at \in {"files", "manifest"},
           Removing /\ cmd'.at = "manifest" => cmd.shared /\ cmd'.left = {}
    PROVE  CommandIsTyped' /\ cmd'.left \subseteq Files
  <1>1. cmd'.left \subseteq Files  BY FilesTyped
  <1>2. ASSUME Installing PROVE Plans'
    BY <1>2 DEF Typed, CommandIsTyped, Plans, IsConfig, IsSpace
  <1>3. ASSUME Removing PROVE Removals'
    BY <1>3 DEF Typed, CommandIsTyped, Removals
  <1>4. (Installing' <=> Installing) /\ (Removing' <=> Removing)
    BY DEF Installing, Removing
  <1>5. DOMAIN cmd' = DOMAIN Idle /\ cmd'.op \in {None, "install", "uninstall"}
        /\ cmd'.created \subseteq Files /\ cmd'.targets \subseteq Clients
    BY DEF Typed, CommandIsTyped
  <1>6. cmd'.op # None  BY DEF Installing, Removing, None
  <1>7. QED  BY <1>1, <1>2, <1>3, <1>4, <1>5, <1>6 DEF CommandIsTyped

LEMMA CmdFields == Typed => DOMAIN cmd = Fields
  BY IdleIsTyped DEF Typed, CommandIsTyped

(* What the steps at the user's files do                                   *)
LEMMA InstallFileDoes ==
    ASSUME Typed, Reading, InstallFile, NEW f, f = Current
    PROVE  /\ Installing /\ ~ Removing /\ cmd.at = "files"
           /\ cmd.read # Unread /\ cmd.read \in FileRecords
           /\ f \in Files /\ f \in cmd.left \union {Guide} /\ (f = Guide => cmd.left = {})
           /\ file' = [file EXCEPT ![f] = Merged(cmd.read, Wanted(f))]
           /\ maker' = IF file[f].there THEN maker
                       ELSE [maker EXCEPT ![f] = IF cmd.met THEN "late" ELSE "texo"]
           /\ dirs' = dirs \union ({f} \ {"claude", Guide})
           /\ UNCHANGED <<config, manifest, hooks, spoilt>>
           /\ f = Guide => Ended("done")
           /\ f # Guide => /\ UNCHANGED last /\ UNCHANGED Kept /\ DOMAIN cmd' = Fields
                            /\ cmd'.left = cmd.left \ {f} /\ cmd'.read = Unread
  <1>1. Installing /\ ~ Removing /\ cmd.at = "files" /\ cmd.read # Unread /\ UNCHANGED spoilt
    BY DEF InstallFile, Installing, Removing
  <1>2. cmd.read \in FileRecords  BY <1>1 DEF Reading
  <1>3. f \in cmd.left \union {Guide} /\ (f = Guide => cmd.left = {}) /\ f \in Files
    BY <1>1, CurrentIs DEF Files
  <1>4. MergeFile(f)  BY DEF InstallFile
  <1>5. PICK text : text = Merged(cmd.read, Wanted(f))  OBVIOUS
  <1>6. text.there  BY <1>5 DEF Merged, FileOf
  <1>7. file' = [file EXCEPT ![f] = text]  BY <1>4, <1>5 DEF MergeFile, Put
  <1>8. maker' = [maker EXCEPT ![f] =
                    IF file[f].there THEN @ ELSE IF cmd.met THEN "late" ELSE "texo"]
    BY <1>4, <1>5, <1>6 DEF MergeFile, Put
  <1>9. maker' = IF file[f].there THEN maker
                 ELSE [maker EXCEPT ![f] = IF cmd.met THEN "late" ELSE "texo"]
    <2>1. maker \in [Files -> {None, "user", "texo", "late"}]  BY FilesTyped
    <2>2. QED  BY <1>3, <1>8, <2>1
  <1>10. dirs' = dirs \union ({f} \ {"claude", Guide}) /\ UNCHANGED <<config, manifest, hooks>>
    BY <1>4 DEF MergeFile
  <1>11. f = Guide => Ended("done")  BY <1>4 DEF MergeFile
  <1>12. ASSUME f # Guide
         PROVE  /\ UNCHANGED last /\ UNCHANGED Kept /\ DOMAIN cmd' = Fields
                /\ cmd'.left = cmd.left \ {f} /\ cmd'.read = Unread
    <2>1. cmd' = [cmd EXCEPT !.left = @ \ {f}, !.read = Unread] /\ UNCHANGED last
      BY <1>4, <1>12 DEF MergeFile
    <2>2. QED  BY <2>1, CmdFields DEF Fields, Kept
  <1>13. QED  BY <1>1, <1>2, <1>3, <1>5, <1>7, <1>9, <1>10, <1>11, <1>12

LEMMA RemoveFileDoes ==
    ASSUME Typed, Reading, RemoveFile, NEW f, f = Current,
           NEW text, text = Removed(f, cmd.read, cmd.created)
    PROVE  /\ Removing /\ ~ Installing /\ cmd.at = "files"
           /\ cmd.read # Unread /\ cmd.read \in FileRecords /\ cmd.read.there
           /\ cmd.read.texo # NoServer
           /\ f \in Files /\ f \in cmd.left
           /\ UNCHANGED <<config, dirs, manifest, hooks, spoilt>>
           /\ \/ Ended("failed") /\ UNCHANGED <<file, maker>>
              \/ /\ file' = [file EXCEPT ![f] = text]
                 /\ maker' = [maker EXCEPT ![f] = IF ~ text.there THEN None
                                ELSE IF file[f].there THEN @
                                ELSE IF cmd.met THEN "late" ELSE "texo"]
                 /\ UNCHANGED last /\ UNCHANGED Kept /\ DOMAIN cmd' = Fields
                 /\ cmd'.left = cmd.left \ {f} /\ cmd'.read = Unread
  <1>1. /\ Removing /\ ~ Installing /\ cmd.at = "files" /\ cmd.read # Unread
        /\ UNCHANGED <<config, dirs, manifest, hooks, spoilt>>
    BY DEF RemoveFile, Installing, Removing
  <1>2. /\ cmd.read \in FileRecords /\ cmd.left # {} /\ cmd.read.texo # NoServer
        /\ ~ cmd.read.there => cmd.read = Absent
    BY <1>1 DEF Reading
  <1>3. cmd.read.there  BY <1>2 DEF Absent
  <1>4. f \in cmd.left /\ f \in Files  BY <1>1, <1>2, CurrentIs
  <1>5. \/ Ended("failed") /\ UNCHANGED <<file, maker>>
        \/ /\ Put(f, text)
           /\ cmd' = [cmd EXCEPT !.left = @ \ {f}, !.read = Unread, !.wrote = TRUE]
           /\ UNCHANGED last
    BY DEF RemoveFile
  <1>6. CASE Ended("failed") /\ UNCHANGED <<file, maker>>
    BY <1>1, <1>2, <1>3, <1>4, <1>6
  <1>7. CASE /\ Put(f, text)
             /\ cmd' = [cmd EXCEPT !.left = @ \ {f}, !.read = Unread, !.wrote = TRUE]
             /\ UNCHANGED last
    <2>1. /\ UNCHANGED Kept /\ DOMAIN cmd' = Fields
          /\ cmd'.left = cmd.left \ {f} /\ cmd'.read = Unread
      BY <1>7, CmdFields DEF Fields, Kept
    <2>2. QED  BY <1>1, <1>2, <1>3, <1>4, <1>7, <2>1 DEF Put
  <1>8. QED  BY <1>5, <1>6, <1>7

LEMMA ReadDoes ==
    ASSUME Typed, ReadToMerge \/ ReadToRemove, NEW f, f = Current
    PROVE  /\ UNCHANGED <<config, file, dirs, manifest, hooks, maker, spoilt>>
           /\ cmd.at = "files" /\ f \in Files
           /\ \/ Installing /\ ~ Removing /\ f \in cmd.left \union {Guide}
              \/ Removing /\ ~ Installing /\ f \in cmd.left
           /\ \/ /\ Ended("refused")
                 /\ Installing => MergeRefused(f, Wanted(f), Previous)
                 /\ Removing => RemoveRefused(f)
              \/ /\ UNCHANGED last /\ UNCHANGED Kept /\ DOMAIN cmd' = Fields
                 /\ \/ /\ cmd'.left = cmd.left /\ cmd'.read = file[f]
                       /\ Removing => file[f].texo # NoServer
                    \/ /\ Removing /\ file[f].texo = NoServer
                       /\ cmd'.left = cmd.left \ {f} /\ cmd'.read = Unread
  <1>1. UNCHANGED <<config, file, dirs, manifest, hooks, maker, spoilt>> /\ cmd.at = "files"
    BY DEF ReadToMerge, ReadToRemove, Disk, Keep
  <1>2. CASE ReadToMerge
    <2>1. Installing /\ ~ Removing  BY <1>2 DEF ReadToMerge, Installing, Removing
    <2>2. f \in cmd.left \union {Guide} /\ f \in Files  BY <2>1, CurrentIs DEF Files
    <2>3. \/ Ended("refused") /\ MergeRefused(f, Wanted(f), Previous)
          \/ cmd' = [cmd EXCEPT !.read = file[f]] /\ UNCHANGED last
      BY <1>2 DEF ReadToMerge
    <2>4. CASE cmd' = [cmd EXCEPT !.read = file[f]] /\ UNCHANGED last
      <3>1. /\ UNCHANGED Kept /\ DOMAIN cmd' = Fields
            /\ cmd'.left = cmd.left /\ cmd'.read = file[f]
        BY <2>4, CmdFields DEF Fields, Kept
      <3>2. QED  BY <1>1, <2>1, <2>2, <2>4, <3>1
    <2>5. QED  BY <1>1, <2>1, <2>2, <2>3, <2>4
  <1>3. CASE ReadToRemove
    <2>1. Removing /\ ~ Installing /\ cmd.read = Unread
      BY <1>3 DEF ReadToRemove, Installing, Removing
    <2>2. f \in cmd.left /\ f \in Files  BY <1>3, <2>1, CurrentIs DEF ReadToRemove
    <2>3. \/ Ended("refused") /\ RemoveRefused(f)
          \/ /\ file[f].texo = NoServer /\ cmd' = [cmd EXCEPT !.left = @ \ {f}]
             /\ UNCHANGED last
          \/ /\ file[f].texo # NoServer /\ cmd' = [cmd EXCEPT !.read = file[f]]
             /\ UNCHANGED last
      BY <1>3 DEF ReadToRemove
    <2>4. CASE /\ file[f].texo = NoServer /\ cmd' = [cmd EXCEPT !.left = @ \ {f}]
               /\ UNCHANGED last
      <3>1. /\ UNCHANGED Kept /\ DOMAIN cmd' = Fields
            /\ cmd'.left = cmd.left \ {f} /\ cmd'.read = Unread
        BY <2>1, <2>4, CmdFields DEF Fields, Kept
      <3>2. QED  BY <1>1, <2>1, <2>2, <2>4, <3>1
    <2>5. CASE /\ file[f].texo # NoServer /\ cmd' = [cmd EXCEPT !.read = file[f]]
               /\ UNCHANGED last
      <3>1. /\ UNCHANGED Kept /\ DOMAIN cmd' = Fields
            /\ cmd'.left = cmd.left /\ cmd'.read = file[f]
        BY <2>5, CmdFields DEF Fields, Kept
      <3>2. QED  BY <1>1, <2>1, <2>2, <2>5, <3>1
    <2>6. QED  BY <1>1, <2>1, <2>2, <2>3, <2>4, <2>5
  <1>4. QED  BY <1>2, <1>3

(* A command that goes on with less left is a command still.               *)
LEMMA FileStepTyped ==
    ASSUME Typed, Installing \/ Removing, cmd.at = "files", UNCHANGED Kept, DOMAIN cmd' = Fields,
           cmd'.left \subseteq cmd.left
    PROVE  CommandIsTyped' /\ cmd'.left \subseteq Files
  <1>1. /\ DOMAIN cmd' = DOMAIN cmd /\ UNCHANGED cmd.at
        /\ UNCHANGED <<cmd.op, cmd.ws, cmd.journal, cmd.routes, cmd.plan, cmd.created,
                       cmd.targets, cmd.shared, cmd.request>>
    BY CmdFields DEF Kept
  <1>2. QED  BY <1>1, GoesOn

LEMMA InstallFileTyped == ASSUME Typed, Reading, InstallFile PROVE Typed'
  <1>1. PICK f : f = Current  OBVIOUS
  <1>2. /\ Installing /\ ~ Removing /\ cmd.at = "files"
        /\ cmd.read \in FileRecords
        /\ f \in Files /\ f \in cmd.left \union {Guide}
        /\ file' = [file EXCEPT ![f] = Merged(cmd.read, Wanted(f))]
        /\ maker' = IF file[f].there THEN maker
                    ELSE [maker EXCEPT ![f] = IF cmd.met THEN "late" ELSE "texo"]
        /\ dirs' = dirs \union ({f} \ {"claude", Guide})
        /\ UNCHANGED <<config, manifest, hooks, spoilt>>
        /\ f = Guide => Ended("done")
        /\ f # Guide => /\ UNCHANGED last /\ UNCHANGED Kept /\ DOMAIN cmd' = Fields
                         /\ cmd'.left = cmd.left \ {f}
    BY <1>1, InstallFileDoes
  <1>3. Merged(cmd.read, Wanted(f)) \in FileRecords /\ Merged(cmd.read, Wanted(f)).there
    <2>1. cmd.read.own \in {None, "content", "foreign", "broken"}  BY <1>2 DEF FileRecords
    <2>2. QED  BY <1>2, <2>1, ServersAreTyped DEF Merged, FileOf, FileRecords
  <1>4. file' \in [Files -> FileRecords] /\ \A g \in Files : ~ file'[g].there => file'[g] = Absent
    BY <1>2, <1>3, FilesTyped
  <1>5. dirs' \subseteq Clients /\ maker' \in [Files -> {None, "user", "texo", "late"}]
    BY <1>2, FilesTyped DEF Files
  <1>6. CommandIsTyped' /\ cmd'.left \subseteq Files
    <2>1. CASE f = Guide  BY <1>2, <2>1, IdleCommand DEF Ended
    <2>2. CASE f # Guide  BY <1>2, <2>2, FileStepTyped
    <2>3. QED  BY <2>1, <2>2
  <1>7. manifest' \in Manifests /\ hooks' \in Manifests /\ config'.state \in {"absent", "torn", "whole"}
    BY <1>2, FilesTyped
  <1>8. FilesAreTyped'  BY <1>4, <1>5, <1>6, <1>7, FilesTypedAgain
  <1>9. IsConfig(config)' /\ DOMAIN spoilt' = {"config", "manifest"}
    BY <1>2 DEF Typed, IsConfig, IsSpace
  <1>10. DOMAIN last' = {"op", "ws", "journal", "request", "how", "wrote", "met"}
    BY <1>2 DEF Typed, Ended
  <1>11. QED  BY <1>6, <1>8, <1>9, <1>10 DEF Typed

LEMMA RemovedIsTyped ==
    ASSUME NoServer \in Servers, NEW f, NEW text \in FileRecords, text.there, NEW created
    PROVE  /\ Removed(f, text, created) \in FileRecords
           /\ ~ Removed(f, text, created).there => Removed(f, text, created) = Absent
           /\ Removed(f, text, created).texo = NoServer
           /\ Removed(f, text, created).own = text.own
           /\ ~ Removed(f, text, created).there => f \in created
  <1>1. Absent \in FileRecords /\ Absent.texo = NoServer /\ Absent.own = None
    BY DEF Absent, FileRecords
  <1>2. CASE f \in created /\ text.own = None  BY <1>1, <1>2 DEF Removed
  <1>3. CASE ~ (f \in created /\ text.own = None)
    <2>1. Removed(f, text, created) = [text EXCEPT !.texo = NoServer]  BY <1>3 DEF Removed
    <2>2. QED  BY <2>1 DEF FileRecords
  <1>4. QED  BY <1>2, <1>3

LEMMA RemoveFileTyped == ASSUME Typed, Reading, RemoveFile PROVE Typed'
  <1>1. PICK f, text : f = Current /\ text = Removed(f, cmd.read, cmd.created)  OBVIOUS
  <1>2. /\ Removing /\ cmd.at = "files" /\ f \in Files
        /\ cmd.read \in FileRecords /\ cmd.read.there
        /\ UNCHANGED <<config, dirs, manifest, hooks, spoilt>>
        /\ \/ Ended("failed") /\ UNCHANGED <<file, maker>>
           \/ /\ file' = [file EXCEPT ![f] = text]
              /\ maker' = [maker EXCEPT ![f] = IF ~ text.there THEN None
                             ELSE IF file[f].there THEN @
                             ELSE IF cmd.met THEN "late" ELSE "texo"]
              /\ UNCHANGED last /\ UNCHANGED Kept /\ DOMAIN cmd' = Fields
              /\ cmd'.left = cmd.left \ {f}
    BY <1>1, RemoveFileDoes
  <1>3. CASE Ended("failed") /\ UNCHANGED <<file, maker>>
    BY <1>2, <1>3, EndedTyped DEF Paper
  <1>4. CASE /\ file' = [file EXCEPT ![f] = text]
             /\ maker' = [maker EXCEPT ![f] = IF ~ text.there THEN None
                             ELSE IF file[f].there THEN @
                             ELSE IF cmd.met THEN "late" ELSE "texo"]
             /\ UNCHANGED last /\ UNCHANGED Kept /\ DOMAIN cmd' = Fields
             /\ cmd'.left = cmd.left \ {f}
    <2>1. text \in FileRecords /\ (~ text.there => text = Absent)
      BY <1>1, <1>2, ServersAreTyped, RemovedIsTyped
    <2>2. file' \in [Files -> FileRecords] /\ \A g \in Files : ~ file'[g].there => file'[g] = Absent
      BY <1>4, <2>1, FilesTyped
    <2>3. maker' \in [Files -> {None, "user", "texo", "late"}]  BY <1>4, FilesTyped
    <2>4. CommandIsTyped' /\ cmd'.left \subseteq Files  BY <1>2, <1>4, FileStepTyped
    <2>5. FilesAreTyped'  BY <1>2, <2>2, <2>3, <2>4, FilesTyped, FilesTypedAgain
    <2>6. IsConfig(config)' /\ DOMAIN spoilt' = {"config", "manifest"}
      BY <1>2 DEF Typed, IsConfig, IsSpace
    <2>7. QED  BY <1>4, <2>4, <2>5, <2>6 DEF Typed
  <1>5. QED  BY <1>2, <1>3, <1>4

LEMMA ReadTyped == ASSUME Typed, ReadToMerge \/ ReadToRemove PROVE Typed'
  <1>1. PICK f : f = Current  OBVIOUS
  <1>2. /\ UNCHANGED <<config, file, dirs, manifest, hooks, maker, spoilt>>
        /\ cmd.at = "files" /\ (Installing \/ Removing)
        /\ \/ Ended("refused")
           \/ /\ UNCHANGED last /\ UNCHANGED Kept /\ DOMAIN cmd' = Fields
              /\ cmd'.left \subseteq cmd.left
    BY <1>1, ReadDoes
  <1>3. CASE Ended("refused")  BY <1>2, <1>3, EndedTyped DEF Paper
  <1>4. CASE /\ UNCHANGED last /\ UNCHANGED Kept /\ DOMAIN cmd' = Fields
             /\ cmd'.left \subseteq cmd.left
    <2>1. CommandIsTyped' /\ cmd'.left \subseteq Files  BY <1>2, <1>4, FileStepTyped
    <2>2. FilesAreTyped'  BY <1>2, <2>1, FilesTyped, FilesTypedAgain
    <2>3. QED  BY <1>2, <1>4, <2>1, <2>2 DEF Typed, IsConfig, IsSpace
  <1>5. QED  BY <1>2, <1>3, <1>4

(* The other steps of Texo write the configuration and the manifests.      *)
LEMMA WritesTyped ==
    ASSUME Typed, UNCHANGED <<file, dirs, maker, spoilt, last>>,
           manifest' \in Manifests, hooks' \in Manifests,
           config'.state \in {"absent", "torn", "whole"}, IsConfig(config)',
           CommandIsTyped', cmd'.left \subseteq Files
    PROVE  Typed'
  <1>1. FilesAreTyped'  BY FilesTyped, FilesTypedAgain
  <1>2. QED  BY <1>1 DEF Typed

LEMMA ConfigWritesTyped ==
    ASSUME Typed, TruncateConfig \/ WriteConfig \/ RefreshRoutes PROVE Typed'
  <1>1. /\ UNCHANGED <<file, dirs, maker, spoilt, last, manifest, hooks>>
        /\ Installing
    BY DEF TruncateConfig, WriteConfig, RefreshRoutes, Keep, Disk, Installing
  <1>2. /\ DOMAIN cmd' = DOMAIN cmd /\ cmd'.left \subseteq cmd.left
        /\ cmd'.at \in {"config", "created", "saved", "manifest"}
        /\ UNCHANGED <<cmd.op, cmd.ws, cmd.journal, cmd.routes, cmd.plan, cmd.created,
                       cmd.targets, cmd.shared, cmd.request>>
    BY CmdFields DEF TruncateConfig, WriteConfig, RefreshRoutes, Go, Fields
  <1>3. CommandIsTyped' /\ cmd'.left \subseteq Files
    BY <1>1, <1>2, GoesOn DEF Installing, Removing
  <1>4. config'.state \in {"absent", "torn", "whole"} /\ IsConfig(config)'
    <2>1. CASE TruncateConfig
      <3>1. config' = [state |-> "torn", default |-> None, of |-> << >>]
        BY <2>1 DEF TruncateConfig, Torn, NoConfig
      <3>2. DOMAIN config'.of = {}  BY <3>1
      <3>3. QED  BY <3>1, <3>2 DEF IsConfig
    <2>2. CASE WriteConfig
      <3>1. CASE config' = Prospective(cmd.ws)
        BY <3>1, ProspectiveIsConfig DEF IsConfig, IsSpace
      <3>2. CASE config' = cmd.plan
        BY <1>1, <3>2 DEF Typed, CommandIsTyped, Plans, IsConfig, IsSpace
      <3>3. QED  BY <2>2, <3>1, <3>2 DEF WriteConfig
    <2>3. CASE UNCHANGED config
      BY <2>3, FilesTyped DEF Typed, IsConfig, IsSpace
    <2>4. QED  BY <2>1, <2>2, <2>3 DEF RefreshRoutes, Disk
  <1>5. QED  BY <1>1, <1>3, <1>4, FilesTyped, WritesTyped

LEMMA ManifestsAreTyped ==
    ASSUME Typed, NEW server \in Servers, NEW created, created \subseteq Files
    PROVE  ManifestOf(server, created) \in Manifests /\ NoManifest \in Manifests
  <1>1. NoServer \in Servers  BY ServersAreTyped
  <1>2. QED  BY <1>1 DEF ManifestOf, NoManifest, Manifests

LEMMA ManifestWritesTyped ==
    ASSUME Typed, WriteManifests \/ RemoveHooks \/ RemoveManifest \/ RewriteManifest PROVE Typed'
  <1>1. /\ UNCHANGED <<config, file, dirs, maker, spoilt>>
        /\ Installing \/ Removing
    BY DEF WriteManifests, RemoveHooks, RemoveManifest, RewriteManifest, Keep,
           Installing, Removing
  <1>2. config'.state \in {"absent", "torn", "whole"} /\ IsConfig(config)'
        /\ DOMAIN spoilt' = {"config", "manifest"}
    BY <1>1, FilesTyped DEF Typed, IsConfig, IsSpace
  <1>3. manifest' \in Manifests /\ hooks' \in Manifests
    <2>1. /\ manifest \in Manifests /\ hooks \in Manifests
          /\ manifest.server \in Servers /\ NoManifest \in Manifests
          /\ cmd.created \subseteq Files
      BY FilesTyped, ManifestsAreTyped, ServersAreTyped DEF Manifests, Typed, CommandIsTyped
    <2>2. CASE WriteManifests
      <3>1. Server(cmd.ws, cmd.journal) \in Servers
        BY <2>2, ServersAreTyped DEF WriteManifests, Installing
      <3>2. ManifestOf(Server(cmd.ws, cmd.journal), cmd.created) \in Manifests
            /\ ManifestOf(Server(cmd.ws, cmd.journal), {}) \in Manifests
        BY <2>1, <3>1, ManifestsAreTyped
      <3>3. QED  BY <2>1, <2>2, <3>2 DEF WriteManifests
    <2>3. CASE RemoveHooks \/ RemoveManifest
      BY <2>1, <2>3 DEF RemoveHooks, RemoveManifest
    <2>4. CASE RewriteManifest
      <3>1. ManifestOf(manifest.server, cmd.created \ cmd.targets) \in Manifests
        BY <2>1, ManifestsAreTyped
      <3>2. QED  BY <2>1, <2>4, <3>1 DEF RewriteManifest
    <2>5. QED  BY <2>2, <2>3, <2>4
  <1>4. CommandIsTyped' /\ cmd'.left \subseteq Files
    <2>1. CASE cmd' = Idle  BY <2>1, IdleCommand
    <2>2. CASE WriteManifests
      <3>1. /\ DOMAIN cmd' = DOMAIN cmd /\ cmd'.left \subseteq cmd.left
            /\ cmd'.at \in {"hooks", "files"} /\ Installing /\ ~ Removing
            /\ UNCHANGED <<cmd.op, cmd.ws, cmd.journal, cmd.routes, cmd.plan, cmd.created,
                           cmd.targets, cmd.shared, cmd.request>>
        BY <2>2, CmdFields DEF WriteManifests, Go, Fields, Installing, Removing
      <3>2. QED  BY <3>1, GoesOn
    <2>3. CASE RemoveHooks /\ hooks.state # "foreign"
      <3>1. /\ DOMAIN cmd' = DOMAIN cmd /\ cmd'.left = cmd.left /\ cmd.left = {} /\ cmd.shared
            /\ cmd'.at = "manifest" /\ Removing /\ ~ Installing
            /\ UNCHANGED <<cmd.op, cmd.ws, cmd.journal, cmd.routes, cmd.plan, cmd.created,
                           cmd.targets, cmd.shared, cmd.request>>
        BY <2>3, CmdFields DEF RemoveHooks, Go, Fields, Installing, Removing
      <3>2. QED  BY <3>1, GoesOn
    <2>4. QED  BY <2>1, <2>2, <2>3 DEF RemoveHooks, RemoveManifest, RewriteManifest, Ended
  <1>5. FilesAreTyped'  BY <1>1, <1>2, <1>3, <1>4, FilesTyped, FilesTypedAgain
  <1>6. DOMAIN last' = {"op", "ws", "journal", "request", "how", "wrote", "met"}
    BY DEF WriteManifests, RemoveHooks, RemoveManifest, RewriteManifest, Ended, Typed
  <1>7. QED  BY <1>2, <1>4, <1>5, <1>6 DEF Typed

LEMMA FailureTyped == ASSUME Typed, RefreshFails \/ Crash PROVE Typed'
  BY EndedTyped DEF RefreshFails, Crash, Disk, Paper

LEMMA EditTyped == ASSUME Typed, EditFile \/ EditOurs PROVE Typed'
  <1>1. /\ cmd' = (IF cmd = Idle THEN Idle ELSE [cmd EXCEPT !.met = TRUE])
        /\ last' = [last EXCEPT !.met = TRUE]
    BY DEF EditFile, EditOurs, Edit
  <1>2. DOMAIN last' = {"op", "ws", "journal", "request", "how", "wrote", "met"}
    BY <1>1 DEF Typed
  <1>3. CommandIsTyped' /\ cmd'.left \subseteq Files
    <2>1. CASE cmd' = Idle  BY <2>1, IdleCommand
    <2>2. CASE cmd # Idle
      <3>1. /\ DOMAIN cmd' = DOMAIN cmd /\ cmd'.left \subseteq cmd.left /\ UNCHANGED cmd.at
            /\ UNCHANGED <<cmd.op, cmd.ws, cmd.journal, cmd.routes, cmd.plan, cmd.created,
                           cmd.targets, cmd.shared, cmd.request>>
        BY <1>1, <2>2, CmdFields DEF Fields
      <3>2. Installing \/ Removing  BY <2>2 DEF Typed, CommandIsTyped, Installing, Removing
      <3>3. /\ Installing => cmd.at \in {"config", "created", "saved", "manifest", "hooks", "files"}
            /\ Removing => cmd.at \in {"files", "manifest"}
            /\ Removing /\ cmd.at = "manifest" => cmd.shared /\ cmd.left = {}
        BY DEF Typed, CommandIsTyped, Plans, Removals
      <3>4. QED  BY <3>1, <3>2, <3>3, GoesOn
    <2>3. QED  BY <1>1, <2>1, <2>2
  <1>4. CASE EditFile
    <2>1. PICK f \in Files : \E new \in Edits(f) :
            /\ file' = [file EXCEPT ![f] = new]
            /\ dirs' = dirs \union (IF new.there THEN {f} \ {"claude", Guide} ELSE {})
            /\ maker' = [maker EXCEPT ![f] = IF ~ new.there THEN None
                        ELSE IF f \in manifest.created \union cmd.created THEN "late" ELSE "user"]
            /\ UNCHANGED <<config, manifest, hooks, spoilt>>
      BY <1>4 DEF EditFile
    <2>2. PICK new \in Edits(f) :
            /\ file' = [file EXCEPT ![f] = new]
            /\ dirs' = dirs \union (IF new.there THEN {f} \ {"claude", Guide} ELSE {})
            /\ maker' = [maker EXCEPT ![f] = IF ~ new.there THEN None
                        ELSE IF f \in manifest.created \union cmd.created THEN "late" ELSE "user"]
            /\ UNCHANGED <<config, manifest, hooks, spoilt>>
      BY <2>1
    <2>3. /\ new \in FileRecords
          /\ ~ new.there => new = Absent
      <3>1. NoServer \in Servers /\ file[f] \in FileRecords  BY FilesTyped, ServersAreTyped
      <3>2. CASE new = Absent  BY <3>1, <3>2 DEF Absent, FileRecords
      <3>3. CASE \E own \in {None, "content", "broken", "foreign"} :
                   new = FileOf(own, NoServer) \/ new = FileOf(own, file[f].texo)
        <4>1. PICK own \in {None, "content", "broken", "foreign"}, texo \in Servers :
                     new = FileOf(own, texo)
          BY <3>1, <3>3 DEF FileRecords
        <4>2. QED  BY <4>1 DEF FileOf, FileRecords
      <3>4. CASE file[f].there /\ \E own \in {None, "content"} : new = [file[f] EXCEPT !.own = own]
        BY <3>1, <3>4 DEF FileRecords
      <3>5. QED  BY <2>2, <3>2, <3>3, <3>4 DEF Edits
    <2>4. file' \in [Files -> FileRecords] /\ \A g \in Files : ~ file'[g].there => file'[g] = Absent
      BY <2>2, <2>3, FilesTyped
    <2>5. dirs' \subseteq Clients /\ maker' \in [Files -> {None, "user", "texo", "late"}]
      BY <2>2, FilesTyped DEF Files
    <2>6. FilesAreTyped'  BY <1>3, <2>2, <2>4, <2>5, FilesTyped, FilesTypedAgain
    <2>7. IsConfig(config)' /\ DOMAIN spoilt' = {"config", "manifest"}
      BY <2>2 DEF Typed, IsConfig, IsSpace
    <2>8. QED  BY <1>2, <1>3, <2>6, <2>7 DEF Typed
  <1>5. CASE EditOurs
    <2>1. UNCHANGED <<file, dirs, maker>>  BY <1>5 DEF EditOurs
    <2>2. manifest' \in Manifests /\ hooks' \in Manifests
      <3>1. /\ NoServer \in Servers /\ manifest \in Manifests /\ hooks \in Manifests
            /\ manifest.created \subseteq Files
        BY FilesTyped, ServersAreTyped DEF Manifests
      <3>2. NoManifest \in Manifests /\ ManifestOf(NoServer, manifest.created) \in Manifests
            /\ [NoManifest EXCEPT !.state = "foreign"] \in Manifests
        BY <3>1 DEF NoManifest, ManifestOf, Manifests
      <3>3. QED  BY <1>5, <3>1, <3>2 DEF EditOurs
    <2>3. DOMAIN spoilt' = {"config", "manifest"}  BY <1>5 DEF EditOurs, Typed
    <2>4. config'.state \in {"absent", "torn", "whole"} /\ IsConfig(config)'
      <3>1. CASE UNCHANGED config  BY <3>1, FilesTyped DEF Typed, IsConfig, IsSpace
      <3>2. CASE ~ UNCHANGED config
        <4>1. PICK ws \in DOMAIN config.of, space \in HandWritten :
                config' = [config EXCEPT !.of[ws] = space]
          BY <1>5, <3>2 DEF EditOurs
        <4>2. config = [state |-> config.state, default |-> config.default, of |-> config.of]
              /\ IsSpace(space)
          BY HandWrittenAssumption DEF Typed, IsConfig
        <4>3. config' = [state |-> config.state, default |-> config.default,
                         of |-> [config.of EXCEPT ![ws] = space]]
          BY <4>1, <4>2
        <4>4. \A w \in DOMAIN config'.of : config'.of[w] = config.of[w] \/ config'.of[w] = space
          BY <4>3
        <4>5. DOMAIN config'.of = DOMAIN config.of  BY <4>3
        <4>6. \A w \in DOMAIN config'.of : IsSpace(config'.of[w])
          BY <4>2, <4>4, <4>5 DEF Typed, IsConfig
        <4>7. QED  BY <4>3, <4>6, FilesTyped DEF IsConfig, IsSpace
      <3>3. QED  BY <3>1, <3>2
    <2>5. FilesAreTyped'  BY <1>3, <2>1, <2>2, <2>4, FilesTyped, FilesTypedAgain
    <2>6. QED  BY <1>2, <1>3, <2>3, <2>4, <2>5 DEF Typed
  <1>6. QED  BY <1>4, <1>5

LEMMA NextTyped == Typed /\ Reading /\ [Next]_vars => Typed'
  <1> SUFFICES ASSUME Typed, Reading, [Next]_vars PROVE Typed'  OBVIOUS
  <1>1. CASE \/ \E ws \in Workspaces, journal \in {None, "canonical"}, request \in Requests :
                  BeginInstall(ws, journal, request)
             \/ \E request \in Requests : BeginUninstall(request)
    BY <1>1, BeginTyped
  <1>2. CASE Texo
    BY <1>2, InstallFileTyped, RemoveFileTyped, ReadTyped, ConfigWritesTyped, ManifestWritesTyped, FailureTyped
    DEF Texo
  <1>3. CASE Crash \/ EditFile \/ EditOurs  BY <1>3, EditTyped, FailureTyped
  <1>4. CASE UNCHANGED vars
    <2>1. CommandIsTyped' /\ cmd'.left \subseteq Files
      <3>1. UNCHANGED cmd  BY <1>4 DEF vars
      <3>2. Installing => Plans'  BY <3>1 DEF Typed, CommandIsTyped, Plans, IsConfig, IsSpace
      <3>3. Removing => Removals'  BY <3>1 DEF Typed, CommandIsTyped, Removals
      <3>4. QED
        BY <3>1, <3>2, <3>3, FilesTyped DEF Typed, CommandIsTyped, Installing, Removing
    <2>2. FilesAreTyped'  BY <1>4, <2>1, FilesTyped, FilesTypedAgain DEF vars
    <2>3. QED  BY <1>4, <2>1, <2>2 DEF vars, Typed, IsConfig, IsSpace
  <1>5. QED  BY <1>1, <1>2, <1>3, <1>4 DEF Next

-----------------------------------------------------------------------------
(* What was read                                                           *)
LEMMA UnreadReads == ASSUME cmd'.read = Unread PROVE Reading'
  BY DEF Reading, Unread, NoServer, Server

LEMMA IdleReads == ASSUME cmd' = Idle PROVE Reading'
  BY IdleIsTyped, UnreadReads

LEMMA SameReads == ASSUME Reading, UNCHANGED <<cmd, file, maker>> PROVE Reading'
  BY DEF Reading, Unread, NoServer, Server, Installing, Removing, FileRecords, Servers, Absent,
         Current

LEMMA BeginReads ==
    ASSUME Reading,
           \/ \E ws \in Workspaces, journal \in {None, "canonical"}, request \in Requests :
                 BeginInstall(ws, journal, request)
           \/ \E request \in Requests : BeginUninstall(request)
    PROVE  Reading'
  <1>1. UNCHANGED <<file, maker>>  BY DEF BeginInstall, BeginUninstall, Begin, Disk
  <1>2. CASE UNCHANGED cmd  BY <1>1, <1>2, SameReads
  <1>3. ASSUME NEW ws, NEW journal, NEW request,
               cmd' = [Planned(ws, journal, request) EXCEPT
                         !.again = Repeats("install", ws, journal, request)]
        PROVE  Reading'
    <2>1. PICK p : p = Planned(ws, journal, request)  OBVIOUS
    <2>2. p.read = Unread /\ DOMAIN p = Fields  BY <2>1 DEF Planned, Idle, Fields
    <2>3. cmd'.read = Unread  BY <1>3, <2>1, <2>2 DEF Fields
    <2>4. QED  BY <2>3, UnreadReads
  <1>4. ASSUME NEW request, BeginUninstall(request) PROVE Reading'
    <2>1. UNCHANGED cmd \/ cmd'.read = Unread  BY <1>4 DEF BeginUninstall, Refuse, Idle
    <2>2. QED  BY <1>2, <2>1, UnreadReads
  <1>5. ASSUME NEW ws, NEW journal, NEW request, BeginInstall(ws, journal, request) PROVE Reading'
    BY <1>2, <1>3, <1>5 DEF BeginInstall, Refuse
  <1>6. QED  BY <1>4, <1>5

LEMMA FileStepReads ==
    ASSUME Typed, Reading, InstallFile \/ RemoveFile \/ ReadToMerge \/ ReadToRemove
    PROVE  Reading'
  <1>1. PICK f : f = Current  OBVIOUS
  <1>2. CASE InstallFile
    <2>1. cmd' = Idle \/ cmd'.read = Unread  BY <1>1, <1>2, InstallFileDoes DEF Ended
    <2>2. QED  BY <2>1, IdleReads, UnreadReads
  <1>3. CASE RemoveFile
    <2>1. cmd' = Idle \/ cmd'.read = Unread
      BY <1>3 DEF RemoveFile, Ended, Typed, CommandIsTyped, Idle
    <2>2. QED  BY <2>1, IdleReads, UnreadReads
  <1>4. CASE ReadToMerge \/ ReadToRemove
    <2>1. /\ UNCHANGED file /\ UNCHANGED maker /\ cmd.at = "files" /\ f \in Files
          /\ Installing \/ (Removing /\ f \in cmd.left)
          /\ \/ cmd' = Idle
             \/ cmd'.read = Unread
             \/ /\ UNCHANGED Kept /\ cmd'.left = cmd.left /\ cmd'.read = file[f]
                /\ Removing => file[f].texo # NoServer
      BY <1>1, <1>4, ReadDoes DEF Ended
    <2>2. CASE /\ UNCHANGED Kept /\ cmd'.left = cmd.left /\ cmd'.read = file[f]
               /\ Removing => file[f].texo # NoServer
      <3>1. cmd'.op = cmd.op /\ cmd'.at = cmd.at  BY <2>2 DEF Kept
      <3>2. Current' = f  BY <1>1, <2>2 DEF Current
      <3>3. file[f] \in FileRecords /\ (~ file[f].there => file[f] = Absent)
        BY <2>1, FilesTyped
      <3>4. (Installing' <=> Installing) /\ (Removing' <=> Removing)
        BY <3>1 DEF Installing, Removing
      <3>5. cmd'.read = file'[Current']  BY <2>1, <2>2, <3>2
      <3>6. QED
        BY <2>1, <2>2, <3>1, <3>3, <3>4, <3>5
        DEF Reading, NoServer, Server, FileRecords, Servers, Absent, Removing, Installing
    <2>3. QED  BY <2>1, <2>2, IdleReads, UnreadReads
  <1>5. QED  BY <1>2, <1>3, <1>4

LEMMA OtherWritesRead ==
    ASSUME Typed, Reading,
           \/ TruncateConfig \/ WriteConfig \/ RefreshRoutes \/ WriteManifests
           \/ RemoveHooks \/ RemoveManifest \/ RewriteManifest
    PROVE  Reading'
  <1>1. cmd' = Idle \/ cmd'.read = cmd.read
    BY CmdFields
    DEF TruncateConfig, WriteConfig, RefreshRoutes, WriteManifests, RemoveHooks,
        RemoveManifest, RewriteManifest, Ended, Go, Fields
  <1>2. CASE cmd' = Idle  BY <1>2, IdleReads
  <1>3. CASE cmd' # Idle
    <2>1. cmd.at # "files" \/ (Removing /\ cmd.left = {})
      BY <1>3
      DEF TruncateConfig, WriteConfig, RefreshRoutes, WriteManifests, RemoveHooks,
          RemoveManifest, RewriteManifest, Removing
    <2>2. cmd.read = Unread  BY <2>1 DEF Reading
    <2>3. QED  BY <1>1, <1>3, <2>2, UnreadReads
  <1>4. QED  BY <1>2, <1>3

(* An edit is met by the running command, and its file is Texo's no more.  *)
LEMMA EditReads == ASSUME Typed, Reading, EditFile \/ EditOurs PROVE Reading'
  <1>1. cmd' = (IF cmd = Idle THEN Idle ELSE [cmd EXCEPT !.met = TRUE])
    BY DEF EditFile, EditOurs, Edit
  <1>2. CASE cmd' = Idle  BY <1>2, IdleReads
  <1>3. CASE cmd.read = Unread /\ cmd' # Idle
    <2>1. cmd'.read = Unread  BY <1>1, <1>3, CmdFields DEF Fields
    <2>2. QED  BY <2>1, UnreadReads
  <1>4. CASE cmd.read # Unread /\ cmd' # Idle
    <2>1. /\ cmd'.op = cmd.op /\ cmd'.at = cmd.at /\ cmd'.left = cmd.left
          /\ cmd'.read = cmd.read /\ cmd'.met
      BY <1>1, <1>4, CmdFields DEF Fields
    <2>2. PICK f : f = Current  OBVIOUS
    <2>3. f \in Files  BY <1>4, <2>2, CurrentIs DEF Reading, Files
    <2>4. Current' = f  BY <2>1, <2>2 DEF Current
    <2>5. maker'[f] = "texo" => maker[f] = "texo" /\ file'[f] = file[f]
      <3>1. CASE EditOurs  BY <3>1 DEF EditOurs
      <3>2. CASE EditFile
        <4>1. PICK g \in Files : \E new, who :
                /\ file' = [file EXCEPT ![g] = new]
                /\ maker' = [maker EXCEPT ![g] = who] /\ who \in {None, "late", "user"}
          BY <3>2 DEF EditFile
        <4>2. QED  BY <2>3, <4>1, FilesTyped DEF None
      <3>3. QED  BY <3>1, <3>2
    <2>6. maker'[f] = "texo" => cmd'.read = file'[f]
      BY <1>4, <2>1, <2>2, <2>5 DEF Reading
    <2>7. /\ (Installing \/ Removing) /\ cmd.at = "files"
          /\ cmd.read \in FileRecords /\ (~ cmd.read.there => cmd.read = Absent)
          /\ Removing => cmd.left # {} /\ cmd.read.texo # NoServer
      BY <1>4 DEF Reading
    <2>8. QED
      BY <1>4, <2>1, <2>4, <2>6, <2>7
      DEF Reading, Installing, Removing, FileRecords, Servers, Absent, NoServer, Server, Unread
  <1>5. QED  BY <1>2, <1>3, <1>4

LEMMA NextReading == Typed /\ Reading /\ [Next]_vars => Reading'
  <1> SUFFICES ASSUME Typed, Reading, [Next]_vars PROVE Reading'  OBVIOUS
  <1>1. CASE \/ \E ws \in Workspaces, journal \in {None, "canonical"}, request \in Requests :
                  BeginInstall(ws, journal, request)
             \/ \E request \in Requests : BeginUninstall(request)
    BY <1>1, BeginReads
  <1>2. CASE RefreshFails \/ Crash  BY <1>2, IdleReads DEF RefreshFails, Crash, Ended
  <1>3. CASE Texo /\ ~ RefreshFails  BY <1>3, FileStepReads, OtherWritesRead DEF Texo
  <1>4. CASE EditFile \/ EditOurs  BY <1>4, EditReads
  <1>5. CASE UNCHANGED vars
    <2>1. UNCHANGED <<cmd, file, maker>>  BY <1>5 DEF vars
    <2>2. QED  BY <2>1, SameReads
  <1>6. QED  BY <1>1, <1>2, <1>3, <1>4, <1>5 DEF Next

LEMMA InitReads == Init => Reading
  BY IdleIsTyped DEF Init, Reading

-----------------------------------------------------------------------------
(* What the user has in a file                                             *)
LEMMA FewerListed ==
    ASSUME ListedIsNotUsers, UNCHANGED <<file, maker>>, Listed' \subseteq Listed
    PROVE  ListedIsNotUsers'
  BY DEF ListedIsNotUsers

LEMMA EndedLists == ASSUME NEW how, Ended(how) PROVE cmd'.created = {}
  BY IdleIsTyped DEF Ended

LEMMA BeginListed ==
    ASSUME ListedIsNotUsers,
           \/ \E ws \in Workspaces, journal \in {None, "canonical"}, request \in Requests :
                 BeginInstall(ws, journal, request)
           \/ \E request \in Requests : BeginUninstall(request)
    PROVE  ListedIsNotUsers'
  <1>1. UNCHANGED <<file, manifest, maker>>
    BY DEF BeginInstall, BeginUninstall, Begin, Disk
  <1>2. CASE UNCHANGED cmd  BY <1>1, <1>2, FewerListed DEF Listed
  <1>3. ASSUME NEW ws, NEW journal, NEW request,
               cmd' = [Planned(ws, journal, request) EXCEPT
                         !.again = Repeats("install", ws, journal, request)]
        PROVE  ListedIsNotUsers'
    <2>1. PICK p : p = Planned(ws, journal, request)  OBVIOUS
    <2>2. p.created = CreatedPaths(Selected(request)) /\ DOMAIN p = Fields
      BY <2>1, PlannedFiles, PlannedFields
    <2>3. cmd'.created = CreatedPaths(Selected(request))  BY <1>3, <2>1, <2>2 DEF Fields
    <2>4. \A f \in Listed' : f \in Listed \/ ~ file'[f].there
      BY <1>1, <2>3 DEF Listed, CreatedPaths
    <2>5. QED  BY <1>1, <2>4 DEF ListedIsNotUsers
  <1>4. ASSUME NEW request, BeginUninstall(request) PROVE ListedIsNotUsers'
    <2>1. UNCHANGED cmd \/ cmd'.created = manifest.created
      BY <1>4 DEF BeginUninstall, Refuse, Idle
    <2>2. QED  BY <1>1, <1>2, <2>1, FewerListed DEF Listed
  <1>5. ASSUME NEW ws, NEW journal, NEW request, BeginInstall(ws, journal, request)
        PROVE  ListedIsNotUsers'
    BY <1>2, <1>3, <1>5 DEF BeginInstall, Refuse
  <1>6. QED  BY <1>4, <1>5

(* A file that Texo puts in a place where there is none is not the user's. *)
LEMMA FileStepListed ==
    ASSUME Typed, Reading, ListedIsNotUsers,
           InstallFile \/ RemoveFile \/ ReadToMerge \/ ReadToRemove
    PROVE  ListedIsNotUsers'
  <1>1. PICK f : f = Current  OBVIOUS
  <1>2. ASSUME f \in Files, Listed' \subseteq Listed,
               \A g \in Files : g # f => file'[g] = file[g] /\ maker'[g] = maker[g],
               \/ maker'[f] \in {"late", "texo"}
               \/ ~ file'[f].there
               \/ file[f].there /\ maker'[f] = maker[f]
        PROVE  ListedIsNotUsers'
    BY <1>2 DEF ListedIsNotUsers
  <1>3. CASE InstallFile
    <2>1. /\ f \in Files /\ file' = [file EXCEPT ![f] = Merged(cmd.read, Wanted(f))]
          /\ maker' = IF file[f].there THEN maker
                      ELSE [maker EXCEPT ![f] = IF cmd.met THEN "late" ELSE "texo"]
          /\ UNCHANGED manifest
          /\ Ended("done") \/ UNCHANGED Kept
      BY <1>1, <1>3, InstallFileDoes
    <2>2. Listed' \subseteq Listed  BY <2>1, EndedLists DEF Listed, Kept
    <2>3. QED  BY <1>2, <2>1, <2>2, FilesTyped
  <1>4. CASE RemoveFile
    <2>1. PICK text : text = Removed(f, cmd.read, cmd.created)  OBVIOUS
    <2>2. /\ f \in Files /\ UNCHANGED manifest
          /\ \/ Ended("failed") /\ UNCHANGED <<file, maker>>
             \/ /\ file' = [file EXCEPT ![f] = text]
                /\ maker' = [maker EXCEPT ![f] = IF ~ text.there THEN None
                               ELSE IF file[f].there THEN @
                               ELSE IF cmd.met THEN "late" ELSE "texo"]
                /\ UNCHANGED Kept
      BY <1>1, <1>4, <2>1, RemoveFileDoes
    <2>3. CASE Ended("failed") /\ UNCHANGED <<file, maker>>
      BY <2>2, <2>3, EndedLists, FewerListed DEF Listed
    <2>4. CASE /\ file' = [file EXCEPT ![f] = text]
               /\ maker' = [maker EXCEPT ![f] = IF ~ text.there THEN None
                               ELSE IF file[f].there THEN @
                               ELSE IF cmd.met THEN "late" ELSE "texo"]
               /\ UNCHANGED Kept
      <3>1. Listed' \subseteq Listed  BY <2>2, <2>4 DEF Listed, Kept
      <3>2. QED  BY <1>2, <2>2, <2>4, <3>1, FilesTyped
    <2>5. QED  BY <2>2, <2>3, <2>4
  <1>5. CASE ReadToMerge \/ ReadToRemove
    <2>1. UNCHANGED <<file, maker, manifest>> /\ (Ended("refused") \/ UNCHANGED Kept)
      BY <1>1, <1>5, ReadDoes
    <2>2. Listed' \subseteq Listed  BY <2>1, EndedLists DEF Listed, Kept
    <2>3. QED  BY <2>1, <2>2, FewerListed
  <1>6. QED  BY <1>3, <1>4, <1>5

(* The other writes touch the configuration and the manifests.             *)
LEMMA OtherWritesListed ==
    ASSUME Typed, ListedIsNotUsers,
           \/ TruncateConfig \/ WriteConfig \/ RefreshRoutes \/ RefreshFails \/ WriteManifests
           \/ RemoveHooks \/ RemoveManifest \/ RewriteManifest
    PROVE  ListedIsNotUsers'
  <1>1. UNCHANGED <<file, maker>>
    BY DEF TruncateConfig, WriteConfig, RefreshRoutes, RefreshFails, WriteManifests,
           RemoveHooks, RemoveManifest, RewriteManifest, Keep, Disk
  <1>2. cmd'.created = cmd.created \/ cmd'.created = {}
    BY EndedLists, CmdFields
    DEF TruncateConfig, WriteConfig, RefreshRoutes, RefreshFails, WriteManifests,
        RemoveHooks, RemoveManifest, RewriteManifest, Go, Fields
  <1>3. manifest'.created \subseteq manifest.created \union cmd.created
    BY DEF TruncateConfig, WriteConfig, RefreshRoutes, RefreshFails, WriteManifests,
           RemoveHooks, RemoveManifest, RewriteManifest, Disk, ManifestOf, NoManifest
  <1>4. Listed' \subseteq Listed  BY <1>2, <1>3 DEF Listed
  <1>5. QED  BY <1>1, <1>4, FewerListed

LEMMA EditListed == ASSUME Typed, ListedIsNotUsers, EditFile \/ EditOurs PROVE ListedIsNotUsers'
  <1>1. cmd'.created \subseteq cmd.created
    <2>1. cmd' = Idle \/ cmd' = [cmd EXCEPT !.met = TRUE]  BY DEF EditFile, EditOurs, Edit
    <2>2. QED  BY <2>1, IdleIsTyped, CmdFields DEF Fields
  <1>2. CASE EditOurs
    <2>1. UNCHANGED <<file, maker>> /\ manifest'.created \subseteq manifest.created
      BY <1>2 DEF EditOurs, NoManifest, ManifestOf
    <2>2. QED  BY <1>1, <2>1, FewerListed DEF Listed
  <1>3. CASE EditFile
    <2>1. PICK f \in Files : \E new \in Edits(f) :
            /\ file' = [file EXCEPT ![f] = new]
            /\ maker' = [maker EXCEPT ![f] =
                           IF ~ new.there THEN None
                           ELSE IF f \in Listed THEN "late" ELSE "user"]
            /\ UNCHANGED manifest
      BY <1>3 DEF EditFile, Listed
    <2>2. PICK new \in Edits(f) :
            /\ file' = [file EXCEPT ![f] = new]
            /\ maker' = [maker EXCEPT ![f] =
                           IF ~ new.there THEN None
                           ELSE IF f \in Listed THEN "late" ELSE "user"]
            /\ UNCHANGED manifest
      BY <2>1
    <2>3. Listed' \subseteq Listed  BY <1>1, <2>2 DEF Listed
    <2>4. QED  BY <2>2, <2>3, FilesTyped DEF ListedIsNotUsers
  <1>4. QED  BY <1>2, <1>3

LEMMA NextListed == Typed /\ Reading /\ ListedIsNotUsers /\ [Next]_vars => ListedIsNotUsers'
  <1> SUFFICES ASSUME Typed, Reading, ListedIsNotUsers, [Next]_vars PROVE ListedIsNotUsers'
    OBVIOUS
  <1>1. CASE \/ \E ws \in Workspaces, journal \in {None, "canonical"}, request \in Requests :
                  BeginInstall(ws, journal, request)
             \/ \E request \in Requests : BeginUninstall(request)
    BY <1>1, BeginListed
  <1>2. CASE Texo  BY <1>2, FileStepListed, OtherWritesListed DEF Texo
  <1>3. CASE Crash  BY <1>3, EndedLists, FewerListed DEF Crash, Disk, Listed
  <1>4. CASE EditFile \/ EditOurs  BY <1>4, EditListed
  <1>5. CASE UNCHANGED vars  BY <1>5, FewerListed DEF vars, Listed
  <1>6. QED  BY <1>1, <1>2, <1>3, <1>4, <1>5 DEF Next

LEMMA InitListed == Init => ListedIsNotUsers
  BY IdleIsTyped DEF Init, ListedIsNotUsers, Listed, NoManifest

(* One step of Texo.  What it puts in a file holds what the user had in it *)
(* when it was read.                                                       *)
LEMMA StepKeeps ==
    ASSUME Typed, Reading, ListedIsNotUsers, Texo, NEW f \in Files
    PROVE  IF Overtaken(f) THEN file'[f].own \in {file[f].own, cmd.read.own}
           ELSE /\ file'[f].own = file[f].own
                /\ file[f].there /\ ~ file'[f].there => maker[f] \in {"texo", "late"}
  <1>1. CASE UNCHANGED file  BY <1>1
  <1>2. PICK c : c = Current  OBVIOUS
  <1>3. CASE InstallFile
    <2>1. /\ c \in Files /\ cmd.read # Unread
          /\ file' = [file EXCEPT ![c] = Merged(cmd.read, Wanted(c))]
      BY <1>2, <1>3, InstallFileDoes
    <2>2. CASE f # c  BY <2>1, <2>2, FilesTyped
    <2>3. CASE f = c
      <3>1. file'[f].own = cmd.read.own /\ file'[f].there
        BY <2>1, <2>3, FilesTyped DEF Merged, FileOf
      <3>2. Overtaken(f) \/ file[f] = cmd.read  BY <1>2, <2>1, <2>3 DEF Overtaken
      <3>3. QED  BY <3>1, <3>2
    <2>4. QED  BY <2>2, <2>3
  <1>4. CASE RemoveFile
    <2>1. PICK text : text = Removed(c, cmd.read, cmd.created)  OBVIOUS
    <2>2. /\ c \in Files /\ cmd.read # Unread
          /\ cmd.read \in FileRecords /\ cmd.read.there
          /\ UNCHANGED file \/ file' = [file EXCEPT ![c] = text]
      BY <1>2, <1>4, <2>1, RemoveFileDoes
    <2>3. text.own = cmd.read.own /\ (~ text.there => c \in cmd.created)
      BY <2>1, <2>2, ServersAreTyped, RemovedIsTyped
    <2>4. CASE f # c /\ file' = [file EXCEPT ![c] = text]  BY <2>2, <2>4, FilesTyped
    <2>5. CASE f = c /\ file' = [file EXCEPT ![c] = text]
      <3>1. file'[f] = text  BY <2>2, <2>5, FilesTyped
      <3>2. Overtaken(f) \/ file[f] = cmd.read  BY <1>2, <2>2, <2>5 DEF Overtaken
      <3>3. file[f].there /\ ~ file'[f].there => maker[f] \in {"texo", "late"}
        BY <2>3, <2>5, <3>1 DEF ListedIsNotUsers, Listed
      <3>4. QED  BY <2>3, <3>1, <3>2, <3>3
    <2>6. QED  BY <1>1, <2>2, <2>4, <2>5
  <1>5. QED
    BY <1>1, <1>3, <1>4
    DEF Texo, TruncateConfig, WriteConfig, RefreshRoutes, RefreshFails, WriteManifests,
        ReadToMerge, ReadToRemove, RemoveHooks, RemoveManifest, RewriteManifest, Disk

LEMMA ListedIsInvariant ==
    /\ Init => Typed /\ Reading /\ ListedIsNotUsers
    /\ Typed /\ Reading /\ ListedIsNotUsers /\ [Next]_vars
         => (Typed /\ Reading /\ ListedIsNotUsers)'
  BY InitTyped, InitReads, InitListed, NextTyped, NextReading, NextListed

(* A file that the manifest lists as created is never one that the user    *)
(* had there before (src/install.rs:391-397, prepare_install_paths).       *)
THEOREM ListedFilesAreNotTheUsers == Spec => []ListedIsNotUsers
  BY ListedIsInvariant, PTL DEF Spec

(* Whatever commands, crashes and edits came before, no step of Texo       *)
(* changes what the user has in a file or removes a file the user made,    *)
(* but one made at a path already listed as created by Texo.  A file that  *)
(* the user edited after Texo read it and before Texo put it back holds    *)
(* what it holds, or what it held when it was read.                        *)
THEOREM UsersKeepTheirContent == Spec => UserContentIsKept
  <1>1. Typed /\ Reading /\ ListedIsNotUsers /\ [Next]_vars =>
          [Texo => \A f \in Files :
             IF Overtaken(f) THEN file'[f].own \in {file[f].own, cmd.read.own}
             ELSE /\ file'[f].own = file[f].own
                  /\ file[f].there /\ ~ file'[f].there => maker[f] \in {"texo", "late"}]_vars
    BY StepKeeps
  <1>2. QED  BY <1>1, ListedIsInvariant, PTL DEF Spec, UserContentIsKept

-----------------------------------------------------------------------------
(* Refusals                                                                *)

LEMMA InitFree == Init => Free
  <1> SUFFICES ASSUME Init PROVE Free  OBVIOUS
  <1>1. ~ Installing /\ ~ Removing  BY IdleIsTyped DEF Init, Installing, Removing, None
  <1>2. last.how # "refused"  BY DEF Init, None
  <1>3. manifest.state # "texo"  BY DEF Init, NoManifest
  <1>4. QED
    BY <1>1, <1>2, <1>3
    DEF Free, InstallIsFree, RemovalIsFree, ManifestsName, RefusedBeforeWriting

(* A command that goes on finds no more in the way than before.            *)
LEMMA StaysFree ==
    ASSUME Free, cmd.met => cmd'.met,
           UNCHANGED <<cmd.op, cmd.ws, cmd.routes, cmd.previous, cmd.shared>>,
           cmd'.left \subseteq cmd.left,
           ~ cmd.met => \A f \in cmd'.left \union (IF Installing THEN {Guide} ELSE {}) :
                          file'[f] = file[f],
           manifest'.state = "foreign" => manifest.state = "foreign",
           hooks'.state = "foreign" => hooks.state = "foreign"
    PROVE  InstallIsFree' /\ RemovalIsFree'
  <1>1. ASSUME Installing', ~ cmd'.met, NEW f \in cmd'.left \union {Guide}
        PROVE  (~ MergeRefused(f, Wanted(f), Previous))'
    <2>1. ~ MergeRefused(f, Wanted(f), Previous)
      BY <1>1 DEF Free, InstallIsFree, Installing
    <2>2. file'[f] = file[f] /\ Wanted(f)' = Wanted(f) /\ Previous' = Previous
      BY <1>1 DEF Installing, Wanted, Previous
    <2>3. QED  BY <2>1, <2>2 DEF MergeRefused, Wanted, Previous
  <1>2. ASSUME Removing', ~ cmd'.met
        PROVE  /\ \A f \in cmd'.left : ~ RemoveRefused(f)'
               /\ manifest'.state # "foreign" /\ (cmd'.shared => hooks'.state # "foreign")
    BY <1>2 DEF Free, RemovalIsFree, Removing, RemoveRefused
  <1>3. QED  BY <1>1, <1>2 DEF InstallIsFree, RemovalIsFree

LEMMA IdleIsFree == ASSUME cmd' = Idle PROVE InstallIsFree' /\ RemovalIsFree'
  BY IdleIsTyped DEF InstallIsFree, RemovalIsFree, Installing, Removing, None

LEMMA BeginFree ==
    ASSUME Typed, Free,
           \/ \E ws \in Workspaces, journal \in {None, "canonical"}, request \in Requests :
                 BeginInstall(ws, journal, request)
           \/ \E request \in Requests : BeginUninstall(request)
    PROVE  Free'
  <1>1. UNCHANGED <<Disk, maker, spoilt>>  BY DEF BeginInstall, BeginUninstall, Begin
  <1>2. UNCHANGED <<file, manifest, hooks, spoilt>>  BY <1>1 DEF Disk
  <1>3. ManifestsName'  BY <1>2 DEF Free, ManifestsName
  <1>4. RefusedBeforeWriting'
    <2>1. ASSUME NEW op, NEW ws, NEW journal, NEW request, Refuse(op, ws, journal, request)
          PROVE  ~ last'.wrote
      BY <2>1 DEF Refuse
    <2>2. UNCHANGED last \/ ~ last'.wrote
      BY <2>1 DEF BeginInstall, BeginUninstall
    <2>3. QED  BY <1>2, <2>2 DEF Free, RefusedBeforeWriting
  <1>5. CASE UNCHANGED cmd
    <2>1. /\ cmd.met => cmd'.met
          /\ UNCHANGED <<cmd.op, cmd.ws, cmd.routes, cmd.previous, cmd.shared>>
          /\ cmd'.left \subseteq cmd.left
      BY <1>5
    <2>2. InstallIsFree' /\ RemovalIsFree'  BY <1>2, <2>1, StaysFree
    <2>3. QED  BY <1>3, <1>4, <2>2 DEF Free
  <1>6. ASSUME NEW ws, NEW journal, NEW request,
               cmd' = [Planned(ws, journal, request) EXCEPT
                         !.again = Repeats("install", ws, journal, request)],
               ~ FilesRefuse(ws, Planned(ws, journal, request))
        PROVE  Free'
    <2>1. PICK p : p = Planned(ws, journal, request)  OBVIOUS
    <2>2. /\ DOMAIN p = Fields /\ p.op = "install" /\ p.ws = ws
          /\ p.left = Selected(request) /\ p.previous = manifest.server
      BY <2>1, PlannedFields, PlannedFiles
    <2>3. /\ cmd'.op = "install" /\ cmd'.ws = ws /\ cmd'.left = p.left
          /\ cmd'.previous = p.previous /\ cmd'.routes = p.routes
      BY <1>6, <2>1, <2>2 DEF Fields
    <2>4. ASSUME NEW f \in cmd'.left \union {Guide} PROVE (~ MergeRefused(f, Wanted(f), Previous))'
      <3>1. Selected(request) \subseteq Clients  BY SelectedAreClients
      <3>2. ~ MergeRefused(f, Server(ws, IF f = Guide THEN None ELSE p.routes[f]), p.previous)
        BY <1>6, <2>1, <2>2, <2>3, <2>4, <3>1, ClientsAreNamed DEF FilesRefuse
      <3>3. QED  BY <1>2, <2>3, <3>2 DEF MergeRefused, Wanted, Previous
    <2>5. InstallIsFree' /\ RemovalIsFree'
      BY <2>3, <2>4 DEF InstallIsFree, RemovalIsFree, Removing
    <2>6. QED  BY <1>3, <1>4, <2>5 DEF Free
  <1>7. ASSUME NEW ws, NEW journal, NEW request, BeginInstall(ws, journal, request) PROVE Free'
    BY <1>5, <1>6, <1>7 DEF BeginInstall, Refuse
  <1>8. ASSUME NEW request, BeginUninstall(request) PROVE Free'
    <2>1. PICK clients, shared :
            /\ clients = (IF request = {} THEN Clients ELSE Selected(request))
            /\ shared = EveryClient(request)
      OBVIOUS
    <2>2. CASE UNCHANGED cmd  BY <1>5, <2>2
    <2>3. CASE ~ UNCHANGED cmd
      <3>1. /\ ~ UninstallRefused(clients, shared)
            /\ cmd' = [Idle EXCEPT !.op = "uninstall", !.request = request, !.at = "files",
                              !.targets = clients,
                              !.left = clients \union (IF shared THEN {Guide} ELSE {}),
                              !.shared = shared, !.created = manifest.created]
        BY <1>8, <2>1, <2>3 DEF BeginUninstall, Refuse
      <3>2. /\ cmd'.op = "uninstall" /\ cmd'.shared = shared
            /\ cmd'.left = clients \union (IF shared THEN {Guide} ELSE {})
        BY <3>1 DEF Idle
      <3>3. InstallIsFree' /\ RemovalIsFree'
        BY <1>2, <3>1, <3>2
        DEF InstallIsFree, RemovalIsFree, Installing, UninstallRefused, RemoveRefused
      <3>4. QED  BY <1>3, <1>4, <3>3 DEF Free
    <2>4. QED  BY <2>2, <2>3
  <1>9. QED  BY <1>7, <1>8

LEMMA EndedFree ==
    ASSUME Free, NEW how, Ended(how), UNCHANGED <<manifest, spoilt>>,
           how = "refused" => cmd.met \/ ~ cmd.wrote
    PROVE  Free'
  <1>1. InstallIsFree' /\ RemovalIsFree'  BY IdleIsFree DEF Ended
  <1>2. ManifestsName'  BY DEF Free, ManifestsName
  <1>3. RefusedBeforeWriting'  BY DEF Ended, RefusedBeforeWriting
  <1>4. QED  BY <1>1, <1>2, <1>3 DEF Free

LEMMA InstallFileFree == ASSUME Typed, Reading, Free, InstallFile PROVE Free'
  <1>1. PICK f : f = Current  OBVIOUS
  <1>2. /\ Installing /\ ~ Removing /\ f \in Files /\ f \in cmd.left \union {Guide}
        /\ file' = [file EXCEPT ![f] = Merged(cmd.read, Wanted(f))]
        /\ UNCHANGED <<manifest, hooks, spoilt>>
        /\ f = Guide => Ended("done")
        /\ f # Guide => UNCHANGED last /\ UNCHANGED Kept /\ cmd'.left = cmd.left \ {f}
    BY <1>1, InstallFileDoes
  <1>3. CASE f = Guide  BY <1>2, <1>3, EndedFree
  <1>4. CASE f # Guide
    <2>1. /\ UNCHANGED <<cmd.op, cmd.ws, cmd.routes, cmd.previous, cmd.shared, cmd.met>>
          /\ cmd'.left = cmd.left \ {f} /\ UNCHANGED last
      BY <1>2, <1>4 DEF Kept
    <2>2. \A g \in cmd'.left \union {Guide} : file'[g] = file[g]
      <3>1. \A g \in Files : g # f => file'[g] = file[g]  BY <1>2, FilesTyped
      <3>2. QED  BY <1>4, <2>1, <3>1, FilesTyped DEF Files
    <2>3. InstallIsFree' /\ RemovalIsFree'  BY <1>2, <2>1, <2>2, StaysFree
    <2>4. QED  BY <1>2, <2>1, <2>3 DEF Free, ManifestsName, RefusedBeforeWriting
  <1>5. QED  BY <1>3, <1>4

LEMMA RemoveFileFree == ASSUME Typed, Reading, Free, RemoveFile PROVE Free'
  <1>1. PICK f, text : f = Current /\ text = Removed(f, cmd.read, cmd.created)  OBVIOUS
  <1>2. /\ Removing /\ ~ Installing /\ f \in Files
        /\ UNCHANGED <<manifest, hooks, spoilt>>
        /\ \/ Ended("failed")
           \/ /\ file' = [file EXCEPT ![f] = text]
              /\ UNCHANGED last /\ UNCHANGED Kept /\ cmd'.left = cmd.left \ {f}
    BY <1>1, RemoveFileDoes
  <1>3. CASE Ended("failed")  BY <1>2, <1>3, EndedFree
  <1>4. CASE /\ file' = [file EXCEPT ![f] = text]
             /\ UNCHANGED last /\ UNCHANGED Kept /\ cmd'.left = cmd.left \ {f}
    <2>1. UNCHANGED <<cmd.op, cmd.ws, cmd.routes, cmd.previous, cmd.shared, cmd.met>>
      BY <1>4 DEF Kept
    <2>2. \A g \in cmd'.left : file'[g] = file[g]  BY <1>4, FilesTyped
    <2>3. InstallIsFree' /\ RemovalIsFree'  BY <1>2, <1>4, <2>1, <2>2, StaysFree
    <2>4. QED  BY <1>2, <1>4, <2>3 DEF Free, ManifestsName, RefusedBeforeWriting
  <1>5. QED  BY <1>2, <1>3, <1>4

(* A file is refused only when the user edited something.                  *)
LEMMA ReadFree == ASSUME Typed, Free, ReadToMerge \/ ReadToRemove PROVE Free'
  <1>1. PICK f : f = Current  OBVIOUS
  <1>2. /\ UNCHANGED <<file, manifest, hooks, spoilt>>
        /\ \/ Installing /\ ~ Removing /\ f \in cmd.left \union {Guide}
           \/ Removing /\ ~ Installing /\ f \in cmd.left
        /\ \/ /\ Ended("refused")
              /\ Installing => MergeRefused(f, Wanted(f), Previous)
              /\ Removing => RemoveRefused(f)
           \/ UNCHANGED last /\ UNCHANGED Kept /\ cmd'.left \subseteq cmd.left
    BY <1>1, ReadDoes
  <1>3. CASE /\ Ended("refused")
             /\ Installing => MergeRefused(f, Wanted(f), Previous)
             /\ Removing => RemoveRefused(f)
    <2>1. cmd.met  BY <1>2, <1>3 DEF Free, InstallIsFree, RemovalIsFree
    <2>2. QED  BY <1>2, <1>3, <2>1, EndedFree
  <1>4. CASE UNCHANGED last /\ UNCHANGED Kept /\ cmd'.left \subseteq cmd.left
    <2>1. UNCHANGED <<cmd.op, cmd.ws, cmd.routes, cmd.previous, cmd.shared, cmd.met>>
      BY <1>4 DEF Kept
    <2>2. InstallIsFree' /\ RemovalIsFree'  BY <1>2, <1>4, <2>1, StaysFree
    <2>3. QED  BY <1>2, <1>4, <2>2 DEF Free, ManifestsName, RefusedBeforeWriting
  <1>5. QED  BY <1>2, <1>3, <1>4

LEMMA OtherWritesFree ==
    ASSUME Typed, Free,
           \/ TruncateConfig \/ WriteConfig \/ RefreshRoutes \/ WriteManifests
           \/ (RemoveHooks /\ hooks.state # "foreign")
    PROVE  Free'
  <1>1. UNCHANGED <<file, spoilt, last>>
    BY DEF TruncateConfig, WriteConfig, RefreshRoutes, WriteManifests, RemoveHooks, Keep, Disk
  <1>2. UNCHANGED <<cmd.op, cmd.ws, cmd.routes, cmd.previous, cmd.shared, cmd.met, cmd.left>>
    BY ZenonT(60), CmdFields
    DEF TruncateConfig, WriteConfig, RefreshRoutes, WriteManifests, RemoveHooks, Go, Fields
  <1>3. /\ manifest'.state = "foreign" => manifest.state = "foreign"
        /\ hooks'.state = "foreign" => hooks.state = "foreign"
    BY DEF TruncateConfig, WriteConfig, RefreshRoutes, WriteManifests, RemoveHooks, Disk,
           ManifestOf, NoManifest
  <1>4. InstallIsFree' /\ RemovalIsFree'  BY <1>1, <1>2, <1>3, StaysFree
  <1>5. ManifestsName'
    <2>1. CASE UNCHANGED manifest  BY <1>1, <2>1 DEF Free, ManifestsName
    <2>2. CASE WriteManifests /\ manifest' = ManifestOf(Server(cmd.ws, cmd.journal), cmd.created)
      <3>1. cmd.ws # None
        BY <2>2, InstallAssumption DEF WriteManifests, Typed, CommandIsTyped, Plans, Installing
      <3>2. manifest'.server.ws = cmd.ws  BY <2>2 DEF ManifestOf, Server
      <3>3. QED  BY <3>1, <3>2 DEF ManifestsName
    <2>3. QED
      BY <2>1, <2>2
      DEF TruncateConfig, WriteConfig, RefreshRoutes, WriteManifests, RemoveHooks, Disk
  <1>6. RefusedBeforeWriting'  BY <1>1 DEF Free, RefusedBeforeWriting
  <1>7. QED  BY <1>4, <1>5, <1>6 DEF Free

(* The manifests of Texo are removed last: whether one was made foreign    *)
(* was looked at first.                                                    *)
LEMMA ManifestsFree ==
    ASSUME Typed, Free, RemoveManifest \/ RewriteManifest \/ (RemoveHooks /\ hooks.state = "foreign")
    PROVE  Free'
  <1>1. Removing /\ UNCHANGED spoilt
    BY DEF RemoveManifest, RewriteManifest, RemoveHooks, Removing, Keep
  <1>2. CASE RemoveHooks /\ hooks.state = "foreign"
    <2>1. cmd.met /\ Ended("refused") /\ UNCHANGED manifest
      BY <1>1, <1>2 DEF RemoveHooks, Free, RemovalIsFree
    <2>2. QED  BY <1>1, <2>1, EndedFree
  <1>3. CASE RemoveManifest
    <2>1. CASE manifest.state = "foreign"
      <3>1. cmd.met /\ Ended("refused") /\ UNCHANGED manifest
        BY <1>1, <1>3, <2>1 DEF RemoveManifest, Free, RemovalIsFree
      <3>2. QED  BY <1>1, <3>1, EndedFree
    <2>2. CASE manifest.state # "foreign"
      <3>1. manifest' = NoManifest /\ Ended("done")  BY <1>3, <2>2 DEF RemoveManifest
      <3>2. ManifestsName'  BY <3>1 DEF ManifestsName, NoManifest
      <3>3. RefusedBeforeWriting'  BY <3>1 DEF Ended, RefusedBeforeWriting
      <3>4. QED  BY <3>1, <3>2, <3>3, IdleIsFree DEF Ended, Free
    <2>3. QED  BY <2>1, <2>2
  <1>4. CASE RewriteManifest
    <2>1. cmd.op = "uninstall" /\ ~ EveryClient(cmd.request)
      BY <1>4 DEF RewriteManifest, Typed, CommandIsTyped, Removals, Removing
    <2>2. CASE manifest.state = "foreign"
      <3>1. cmd.met /\ Ended("refused") /\ UNCHANGED manifest
        BY <1>1, <1>4, <2>2 DEF RewriteManifest, Free, RemovalIsFree
      <3>2. QED  BY <1>1, <3>1, EndedFree
    <2>3. CASE manifest.state = "texo" /\ manifest.server.ws = None
      <3>1. spoilt.manifest  BY <2>3 DEF Free, ManifestsName
      <3>2. Ended("refused") /\ UNCHANGED manifest  BY <1>4, <2>3 DEF RewriteManifest
      <3>3. RefusedBeforeWriting'
        BY <1>1, <2>1, <3>1, <3>2 DEF Ended, RefusedBeforeWriting
      <3>4. ManifestsName'  BY <1>1, <3>2 DEF ManifestsName, Free
      <3>5. QED  BY <3>2, <3>3, <3>4, IdleIsFree DEF Ended, Free
    <2>4. CASE manifest.state # "foreign" /\ ~ (manifest.state = "texo" /\ manifest.server.ws = None)
      <3>1. /\ Ended("done")
            /\ manifest' = IF manifest.state = "absent" THEN manifest
                           ELSE ManifestOf(manifest.server, cmd.created \ cmd.targets)
        BY <1>4, <2>4 DEF RewriteManifest
      <3>2. ManifestsName'
        BY <1>1, <2>4, <3>1, FilesTyped DEF ManifestsName, ManifestOf, Free, Manifests
      <3>3. RefusedBeforeWriting'  BY <3>1 DEF Ended, RefusedBeforeWriting
      <3>4. QED  BY <3>1, <3>2, <3>3, IdleIsFree DEF Ended, Free
    <2>5. QED  BY <2>2, <2>3, <2>4
  <1>5. QED  BY <1>2, <1>3, <1>4

LEMMA EditFree == ASSUME Typed, Free, EditFile \/ EditOurs PROVE Free'
  <1>1. /\ cmd' = (IF cmd = Idle THEN Idle ELSE [cmd EXCEPT !.met = TRUE])
        /\ last' = [last EXCEPT !.met = TRUE]
    BY DEF EditFile, EditOurs, Edit
  <1>2. InstallIsFree' /\ RemovalIsFree'
    <2>1. CASE cmd' = Idle  BY <2>1, IdleIsFree
    <2>2. CASE cmd' = [cmd EXCEPT !.met = TRUE]
      BY <2>2, CmdFields DEF Fields, InstallIsFree, RemovalIsFree
    <2>3. QED  BY <1>1, <2>1, <2>2
  <1>3. RefusedBeforeWriting'  BY <1>1 DEF RefusedBeforeWriting, Typed
  <1>4. ManifestsName'
    <2>1. CASE UNCHANGED manifest
      <3>1. spoilt.manifest => spoilt'.manifest
        BY DEF EditFile, EditOurs, Typed
      <3>2. QED  BY <2>1, <3>1 DEF Free, ManifestsName
    <2>2. CASE ~ UNCHANGED manifest
      BY <2>2 DEF EditFile, EditOurs, Typed, ManifestsName
    <2>3. QED  BY <2>1, <2>2
  <1>5. QED  BY <1>2, <1>3, <1>4 DEF Free

LEMMA NextFree == Typed /\ Reading /\ Free /\ [Next]_vars => Free'
  <1> SUFFICES ASSUME Typed, Reading, Free, [Next]_vars PROVE Free'  OBVIOUS
  <1>1. CASE \/ \E ws \in Workspaces, journal \in {None, "canonical"}, request \in Requests :
                  BeginInstall(ws, journal, request)
             \/ \E request \in Requests : BeginUninstall(request)
    BY <1>1, BeginFree
  <1>2. CASE RefreshFails \/ Crash
    <2>1. /\ Ended("failed") \/ Ended("crashed")
          /\ UNCHANGED <<manifest, spoilt>>
      BY <1>2 DEF RefreshFails, Crash, Disk
    <2>2. QED  BY <2>1, EndedFree
  <1>3. CASE Texo /\ ~ RefreshFails
    BY <1>3, InstallFileFree, RemoveFileFree, ReadFree, OtherWritesFree, ManifestsFree DEF Texo
  <1>4. CASE EditFile \/ EditOurs  BY <1>4, EditFree
  <1>5. CASE UNCHANGED vars
    <2>1. UNCHANGED <<file, manifest, hooks, cmd, last, spoilt>>  BY <1>5 DEF vars
    <2>2. InstallIsFree' /\ RemovalIsFree'  BY <2>1, StaysFree
    <2>3. QED  BY <2>1, <2>2 DEF Free, ManifestsName, RefusedBeforeWriting
  <1>6. QED  BY <1>1, <1>2, <1>3, <1>4, <1>5 DEF Next

-----------------------------------------------------------------------------
(* What Texo made                                                          *)

LEMMA InitMade == Init => Made
  <1> SUFFICES ASSUME Init PROVE Made  OBVIOUS
  <1>1. ~ Installing /\ ~ Removing  BY IdleIsTyped DEF Init, Installing, Removing, None
  <1>2. last.op # "uninstall"  BY DEF Init, None
  <1>3. \A f \in Files : maker[f] # "texo"  BY DEF Init, None
  <1>4. QED
    BY <1>1, <1>2, <1>3 DEF Made, MadeIsListed, PlanLists, RemovalLists, NothingOfTexoRemains

LEMMA IdleLists == ASSUME cmd' = Idle PROVE PlanLists' /\ RemovalLists'
  BY IdleIsTyped DEF PlanLists, RemovalLists, Installing, Removing, None

LEMMA SameMakers ==
    ASSUME MadeIsListed, UNCHANGED <<file, manifest, maker, spoilt>>
    PROVE  MadeIsListed'
  BY DEF MadeIsListed, NoServer, Server

(* A command that runs, or ended in another way, says nothing of what      *)
(* remains.                                                                *)
LEMMA StillRunning ==
    ASSUME \/ cmd' # Idle
           \/ last'.op # "uninstall" \/ last'.how # "done" \/ last'.met
           \/ ~ EveryClient(last'.request)
    PROVE  NothingOfTexoRemains'
  BY DEF NothingOfTexoRemains, EveryClient, Idle, None

LEMMA EndedMade ==
    ASSUME Made, NEW how, Ended(how), UNCHANGED <<file, manifest, maker, spoilt>>,
           how # "done"
    PROVE  Made'
  <1>1. NothingOfTexoRemains'  BY StillRunning DEF Ended
  <1>2. QED  BY <1>1, IdleLists, SameMakers DEF Made, Ended

LEMMA BeginMade ==
    ASSUME Typed, Made,
           \/ \E ws \in Workspaces, journal \in {None, "canonical"}, request \in Requests :
                 BeginInstall(ws, journal, request)
           \/ \E request \in Requests : BeginUninstall(request)
    PROVE  Made'
  <1>1. UNCHANGED <<Disk, maker, spoilt>> /\ cmd = Idle
    BY DEF BeginInstall, BeginUninstall, Begin
  <1>2. UNCHANGED <<file, manifest, hooks, spoilt, maker>>  BY <1>1 DEF Disk
  <1>3. MadeIsListed'  BY <1>2, SameMakers DEF Made
  <1>4. ASSUME NEW op, NEW ws, NEW journal, NEW request, Refuse(op, ws, journal, request)
        PROVE  Made'
    <2>1. cmd' = Idle /\ last'.how = "refused"  BY <1>1, <1>4 DEF Refuse
    <2>2. QED  BY <1>3, <2>1, IdleLists, StillRunning DEF Made
  <1>5. ASSUME NEW ws, NEW journal, NEW request,
               cmd' = [Planned(ws, journal, request) EXCEPT
                         !.again = Repeats("install", ws, journal, request)]
        PROVE  Made'
    <2>1. PICK p : p = Planned(ws, journal, request)  OBVIOUS
    <2>2. /\ DOMAIN p = Fields /\ p.op = "install" /\ p.at = "config"
          /\ p.left = Selected(request) /\ p.created = CreatedPaths(Selected(request))
      BY <2>1, PlannedFields, PlannedFiles
    <2>3. /\ cmd'.op = "install" /\ cmd'.at = "config" /\ cmd'.left = Selected(request)
          /\ cmd'.created = CreatedPaths(Selected(request))
      BY <1>5, <2>1, <2>2 DEF Fields
    <2>4. PlanLists'
      BY <1>2, <2>3 DEF PlanLists, CreatedPaths
    <2>5. RemovalLists'  BY <2>3 DEF RemovalLists, Removing
    <2>6. cmd' # Idle  BY <2>3, IdleIsTyped DEF None
    <2>7. QED  BY <1>3, <2>4, <2>5, <2>6, StillRunning DEF Made
  <1>6. ASSUME NEW ws, NEW journal, NEW request, BeginInstall(ws, journal, request) PROVE Made'
    BY <1>4, <1>5, <1>6 DEF BeginInstall
  <1>7. ASSUME NEW request, BeginUninstall(request) PROVE Made'
    <2>1. PICK clients, shared :
            /\ clients = (IF request = {} THEN Clients ELSE Selected(request))
            /\ shared = EveryClient(request)
      OBVIOUS
    <2>2. CASE Refuse("uninstall", None, None, request)  BY <1>4, <2>2
    <2>3. CASE cmd' = [Idle EXCEPT !.op = "uninstall", !.request = request, !.at = "files",
                              !.targets = clients,
                              !.left = clients \union (IF shared THEN {Guide} ELSE {}),
                              !.shared = shared, !.created = manifest.created]
      <3>1. /\ cmd'.op = "uninstall" /\ cmd'.shared = shared /\ cmd'.at = "files"
            /\ cmd'.targets = clients /\ cmd'.created = manifest.created
            /\ cmd'.left = clients \union (IF shared THEN {Guide} ELSE {})
        BY <2>3 DEF Idle
      <3>2. RemovalLists'  BY <1>2, <3>1 DEF RemovalLists, Done
      <3>3. PlanLists'  BY <3>1 DEF PlanLists, Installing
      <3>4. cmd' # Idle  BY <3>1, IdleIsTyped DEF None
      <3>5. QED  BY <1>3, <3>2, <3>3, <3>4, StillRunning DEF Made
    <2>4. QED  BY <1>7, <2>1, <2>2, <2>3 DEF BeginUninstall
  <1>8. QED  BY <1>6, <1>7

LEMMA InstallFileMade == ASSUME Typed, Reading, Made, InstallFile PROVE Made'
  <1>1. PICK f, text : f = Current /\ text = Merged(cmd.read, Wanted(f))  OBVIOUS
  <1>2. /\ Installing /\ ~ Removing /\ cmd.at = "files" /\ cmd.read # Unread
        /\ f \in Files /\ f \in cmd.left \union {Guide}
        /\ file' = [file EXCEPT ![f] = text]
        /\ maker' = IF file[f].there THEN maker
                    ELSE [maker EXCEPT ![f] = IF cmd.met THEN "late" ELSE "texo"]
        /\ UNCHANGED <<manifest, hooks, spoilt>>
        /\ f = Guide => Ended("done")
        /\ f # Guide => UNCHANGED last /\ UNCHANGED Kept /\ cmd'.left = cmd.left \ {f}
    BY <1>1, InstallFileDoes
  <1>3. /\ file'[f].there /\ file'[f].own = cmd.read.own
        /\ file'[f].texo # NoServer
        /\ \A g \in Files : g # f => file'[g] = file[g] /\ maker'[g] = maker[g]
    BY <1>1, <1>2, FilesTyped, ServersAreTyped DEF Merged, FileOf
  <1>4. ASSUME maker'[f] = "texo"
        PROVE  cmd.read.own = None /\ (spoilt.manifest \/ f \in manifest.created)
    <2>1. CASE maker[f] = "texo"
      <3>1. cmd.read = file[f]  BY <1>1, <1>2, <2>1 DEF Reading
      <3>2. QED  BY <1>2, <2>1, <3>1 DEF Made, MadeIsListed
    <2>2. CASE ~ file[f].there /\ ~ cmd.met
      <3>1. f \in cmd.created /\ (manifest.created = cmd.created \/ spoilt.manifest)
        BY <1>2, <2>2 DEF Made, PlanLists
      <3>2. cmd.read = file[f]  BY <1>1, <1>2, <2>2 DEF Reading
      <3>3. file[f].own = None  BY <1>2, <2>2, FilesTyped DEF Absent
      <3>4. QED  BY <3>1, <3>2, <3>3
    <2>3. QED  BY <1>2, <1>4, <2>1, <2>2, FilesTyped
  <1>5. MadeIsListed'
    <2>1. ASSUME NEW g \in Files, maker'[g] = "texo"
          PROVE  /\ file'[g].there /\ file'[g].own = None
                 /\ spoilt.manifest \/ (g \in manifest.created /\ file'[g].texo # NoServer)
      BY <1>3, <1>4, <2>1 DEF Made, MadeIsListed
    <2>2. QED  BY <1>2, <2>1 DEF MadeIsListed, NoServer, Server
  <1>6. CASE f = Guide
    <2>1. last'.op = "install" /\ cmd' = Idle  BY <1>2, <1>6 DEF Ended, Installing
    <2>2. QED  BY <1>5, <2>1, StillRunning, IdleLists DEF Made
  <1>7. CASE f # Guide
    <2>1. /\ cmd'.op = cmd.op /\ cmd'.at = "files" /\ cmd'.created = cmd.created
          /\ cmd'.met = cmd.met /\ cmd'.left = cmd.left \ {f}
      BY <1>2, <1>7 DEF Kept
    <2>2. PlanLists'
      <3>1. \A g \in cmd'.left \union {Guide} : g \in Files /\ g # f
        BY <1>7, <2>1, FilesTyped DEF Files
      <3>2. QED  BY <1>2, <1>3, <2>1, <3>1 DEF Made, PlanLists, Installing, Before
    <2>3. RemovalLists'  BY <1>2, <2>1 DEF RemovalLists, Removing
    <2>4. cmd' # Idle  BY <1>2, <2>1, IdleIsTyped DEF Installing, None
    <2>5. QED  BY <1>5, <2>2, <2>3, <2>4, StillRunning DEF Made
  <1>8. QED  BY <1>6, <1>7

(* A file that Texo made is as it was read: nothing of the user is in it,  *)
(* and it is deleted, unless the manifest that lists it was edited.        *)
LEMMA RemovedMade ==
    ASSUME Typed, Reading, Made, Removing, cmd.read # Unread,
           NEW f \in Files, f = Current, maker[f] = "texo"
    PROVE  /\ cmd.read.own = None
           /\ Removed(f, cmd.read, cmd.created).there => spoilt.manifest
  <1>1. cmd.read = file[f]  BY DEF Reading
  <1>2. file[f].own = None /\ (spoilt.manifest \/ f \in cmd.created)
    BY DEF Made, MadeIsListed, RemovalLists
  <1>3. QED  BY <1>1, <1>2 DEF Removed, Absent

LEMMA RemoveFileMade == ASSUME Typed, Reading, Made, RemoveFile PROVE Made'
  <1>1. PICK f, text : f = Current /\ text = Removed(f, cmd.read, cmd.created)  OBVIOUS
  <1>2. /\ Removing /\ ~ Installing /\ cmd.at = "files" /\ f \in Files /\ f \in cmd.left
        /\ cmd.read \in FileRecords /\ cmd.read.there /\ cmd.read # Unread
        /\ UNCHANGED <<manifest, hooks, spoilt>>
        /\ \/ Ended("failed") /\ UNCHANGED <<file, maker>>
           \/ /\ file' = [file EXCEPT ![f] = text]
              /\ maker' = [maker EXCEPT ![f] = IF ~ text.there THEN None
                             ELSE IF file[f].there THEN @
                             ELSE IF cmd.met THEN "late" ELSE "texo"]
              /\ UNCHANGED last /\ UNCHANGED Kept /\ cmd'.left = cmd.left \ {f}
    BY <1>1, RemoveFileDoes
  <1>3. CASE Ended("failed") /\ UNCHANGED <<file, maker>>  BY <1>2, <1>3, EndedMade
  <1>4. CASE /\ file' = [file EXCEPT ![f] = text]
             /\ maker' = [maker EXCEPT ![f] = IF ~ text.there THEN None
                             ELSE IF file[f].there THEN @
                             ELSE IF cmd.met THEN "late" ELSE "texo"]
             /\ UNCHANGED last /\ UNCHANGED Kept /\ cmd'.left = cmd.left \ {f}
    <2>1. UNCHANGED <<cmd.op, cmd.at, cmd.shared, cmd.targets, cmd.created, cmd.met>>
      BY <1>4 DEF Kept
    <2>2. text.texo = NoServer /\ text.own = cmd.read.own
      BY <1>1, <1>2, ServersAreTyped, RemovedIsTyped
    <2>3. /\ file'[f] = text
          /\ \A g \in Files : g # f => file'[g] = file[g] /\ maker'[g] = maker[g]
      BY <1>2, <1>4, FilesTyped
    <2>4. ASSUME maker'[f] = "texo" PROVE maker[f] = "texo" /\ text.there
      <3>1. /\ text.there
            /\ file[f].there => maker[f] = "texo"
            /\ ~ file[f].there => ~ cmd.met
        BY <1>2, <1>4, <2>4, FilesTyped DEF None
      <3>2. ~ cmd.met => file[f].there  BY <1>1, <1>2 DEF Reading
      <3>3. QED  BY <3>1, <3>2
    <2>5. maker'[f] = "texo" => text.there /\ text.own = None /\ spoilt.manifest
      BY <1>1, <1>2, <2>2, <2>4, RemovedMade
    <2>6. MadeIsListed'
      <3>1. ASSUME NEW g \in Files, maker'[g] = "texo"
            PROVE  /\ file'[g].there /\ file'[g].own = None
                   /\ spoilt.manifest \/ (g \in manifest.created /\ file'[g].texo # NoServer)
        BY <2>3, <2>5, <3>1 DEF Made, MadeIsListed
      <3>2. QED  BY <1>2, <3>1 DEF MadeIsListed, NoServer, Server
    <2>7. RemovalLists'
      <3>1. ASSUME NEW g \in Files, Done(g)'
            PROVE  /\ maker'[g] # "texo" \/ spoilt.manifest
                   /\ ~ cmd.met => file'[g].texo = NoServer
        <4>1. g = f \/ Done(g)  BY <1>4, <2>1, <3>1 DEF Done
        <4>2. QED  BY <1>2, <2>2, <2>3, <2>5, <4>1 DEF Made, RemovalLists
      <3>2. cmd'.at # "manifest"  BY <1>2, <2>1
      <3>3. QED
        BY <1>2, <1>4, <2>1, <3>1, <3>2 DEF Made, RemovalLists, NoServer, Server, Done
    <2>8. PlanLists'  BY <1>2, <2>1 DEF PlanLists, Installing
    <2>9. cmd' # Idle  BY <1>2, <2>1, IdleIsTyped DEF Removing, None
    <2>10. QED  BY <2>6, <2>7, <2>8, <2>9, StillRunning DEF Made
  <1>5. QED  BY <1>2, <1>3, <1>4

(* A file that is passed over has no entry; unless the manifest was edited *)
(* it is not one that Texo made.                                           *)
LEMMA ReadMade == ASSUME Typed, Made, ReadToMerge \/ ReadToRemove PROVE Made'
  <1>1. PICK f : f = Current  OBVIOUS
  <1>2. /\ UNCHANGED <<file, manifest, hooks, maker, spoilt>> /\ f \in Files
        /\ cmd.at = "files"
        /\ \/ Installing /\ ~ Removing
           \/ Removing /\ ~ Installing /\ f \in cmd.left
        /\ \/ Ended("refused")
           \/ /\ UNCHANGED last /\ UNCHANGED Kept
              /\ \/ cmd'.left = cmd.left
                 \/ Removing /\ file[f].texo = NoServer /\ cmd'.left = cmd.left \ {f}
    BY <1>1, ReadDoes
  <1>3. CASE Ended("refused")  BY <1>2, <1>3, EndedMade
  <1>4. CASE /\ UNCHANGED Kept
             /\ \/ cmd'.left = cmd.left
                \/ Removing /\ file[f].texo = NoServer /\ cmd'.left = cmd.left \ {f}
    <2>1. UNCHANGED <<cmd.op, cmd.at, cmd.shared, cmd.targets, cmd.created, cmd.met>>
      BY <1>4 DEF Kept
    <2>2. MadeIsListed'  BY <1>2, SameMakers DEF Made
    <2>3. PlanLists'
      BY <1>2, <1>4, <2>1 DEF Made, PlanLists, Installing, Before
    <2>4. RemovalLists'
      <3> SUFFICES ASSUME Removing PROVE RemovalLists'
        BY <2>1 DEF RemovalLists, Removing
      <3>1. maker[f] = "texo" /\ file[f].texo = NoServer => spoilt.manifest
        BY <1>2 DEF Made, MadeIsListed
      <3>2. ASSUME NEW g \in Files, Done(g)'
            PROVE  /\ maker[g] # "texo" \/ spoilt.manifest
                   /\ ~ cmd.met => file[g].texo = NoServer
        <4>1. Done(g) \/ (g = f /\ file[f].texo = NoServer)
          BY <1>4, <2>1, <3>2 DEF Done
        <4>2. QED  BY <3>1, <4>1 DEF Made, RemovalLists
      <3>3. cmd'.at # "manifest"  BY <1>2, <2>1
      <3>4. QED
        BY <1>2, <1>4, <2>1, <3>2, <3>3 DEF Made, RemovalLists, NoServer, Server, Done
    <2>5. cmd' # Idle  BY <1>2, <2>1, IdleIsTyped DEF Removing, Installing, None
    <2>6. QED  BY <2>2, <2>3, <2>4, <2>5, StillRunning DEF Made
  <1>5. QED  BY <1>2, <1>3, <1>4

(* The steps of Texo that write the configuration and the manifests        *)
LEMMA OtherWritesMade ==
    ASSUME Typed, Made, TruncateConfig \/ WriteConfig \/ RefreshRoutes \/ WriteManifests
    PROVE  Made'
  <1>1. UNCHANGED <<file, maker, spoilt, last>> /\ Installing
    BY DEF TruncateConfig, WriteConfig, RefreshRoutes, WriteManifests, Keep, Disk, Installing
  <1>2. UNCHANGED <<cmd.op, cmd.created, cmd.met, cmd.left>>
    BY CmdFields
    DEF TruncateConfig, WriteConfig, RefreshRoutes, WriteManifests, Go, Fields
  <1>3. cmd' # Idle  BY <1>1, <1>2, IdleIsTyped DEF Installing, None
  <1>4. RemovalLists'  BY <1>1, <1>2 DEF RemovalLists, Removing, Installing
  <1>5. CASE UNCHANGED manifest /\ ~ WriteManifests
    <2>1. cmd'.at \in Before \union {"manifest"} /\ cmd.at \in Before
      BY <1>5, CmdFields
      DEF TruncateConfig, WriteConfig, RefreshRoutes, Go, Fields, Before
    <2>2. PlanLists'  BY <1>1, <1>2, <1>5, <2>1 DEF Made, PlanLists, Installing, Before
    <2>3. QED  BY <1>1, <1>3, <1>4, <1>5, <2>2, StillRunning, SameMakers DEF Made
  <1>6. CASE WriteManifests /\ cmd.at = "manifest"
    <2>1. manifest' = ManifestOf(Server(cmd.ws, cmd.journal), cmd.created) /\ cmd'.at = "hooks"
      BY <1>6, CmdFields DEF WriteManifests, Go, Fields
    <2>2. manifest'.created = cmd.created /\ manifest.created \subseteq cmd.created
      BY <1>1, <1>6, <2>1 DEF ManifestOf, Made, PlanLists
    <2>3. PlanLists'  BY <1>1, <1>2, <2>1, <2>2 DEF Made, PlanLists, Installing, Before
    <2>4. MadeIsListed'  BY <1>1, <2>2 DEF Made, MadeIsListed, NoServer, Server
    <2>5. QED  BY <1>3, <1>4, <2>3, <2>4, StillRunning DEF Made
  <1>7. CASE WriteManifests /\ cmd.at = "hooks"
    <2>1. UNCHANGED manifest /\ cmd'.at = "files"
      BY <1>7, CmdFields DEF WriteManifests, Go, Fields
    <2>2. PlanLists'  BY <1>1, <1>2, <1>7, <2>1 DEF Made, PlanLists, Installing, Before
    <2>3. QED  BY <1>1, <1>3, <1>4, <2>1, <2>2, StillRunning, SameMakers DEF Made
  <1>8. UNCHANGED manifest \/ WriteManifests
    BY DEF TruncateConfig, WriteConfig, RefreshRoutes, Disk
  <1>9. QED  BY <1>5, <1>6, <1>7, <1>8 DEF WriteManifests

LEMMA RemoveHooksMade == ASSUME Typed, Made, RemoveHooks PROVE Made'
  <1>1. /\ UNCHANGED <<file, manifest, maker, spoilt>> /\ Removing /\ ~ Installing
        /\ cmd.left = {}
    BY DEF RemoveHooks, Removing, Installing, Keep
  <1>2. CASE hooks.state = "foreign"
    BY <1>1, <1>2, EndedMade DEF RemoveHooks
  <1>3. CASE hooks.state # "foreign"
    <2>1. hooks' = NoManifest /\ UNCHANGED last  BY <1>3 DEF RemoveHooks
    <2>2. UNCHANGED <<cmd.op, cmd.created, cmd.met, cmd.left, cmd.targets, cmd.shared>>
      BY <1>3, CmdFields DEF RemoveHooks, Go, Fields
    <2>3. hooks'.state = "absent"  BY <2>1 DEF NoManifest
    <2>4. RemovalLists'
      BY <1>1, <2>2, <2>3 DEF Made, RemovalLists, Removing, Done, NoServer, Server
    <2>5. cmd' # Idle  BY <1>1, <2>2, IdleIsTyped DEF Removing, None
    <2>6. PlanLists'  BY <1>1, <2>2 DEF PlanLists, Installing
    <2>7. QED  BY <1>1, <2>4, <2>5, <2>6, StillRunning, SameMakers DEF Made
  <1>4. QED  BY <1>2, <1>3

LEMMA RemoveManifestMade == ASSUME Typed, Made, RemoveManifest PROVE Made'
  <1>1. UNCHANGED <<file, maker, spoilt, hooks>> /\ Removing /\ cmd.at = "manifest"
    BY DEF RemoveManifest, Removing, Keep
  <1>2. CASE manifest.state = "foreign"
    BY <1>1, <1>2, EndedMade DEF RemoveManifest
  <1>3. CASE manifest.state # "foreign"
    <2>1. manifest' = NoManifest /\ Ended("done")  BY <1>3 DEF RemoveManifest
    <2>2. cmd.shared /\ cmd.left = {} /\ cmd.targets = Clients
      BY <1>1 DEF Typed, CommandIsTyped, Removals
    <2>3. \A f \in Files : Done(f)  BY <2>2 DEF Done, Files
    <2>4. \A f \in Files : maker[f] # "texo" \/ spoilt.manifest
      BY <1>1, <2>3 DEF Made, RemovalLists
    <2>5. MadeIsListed'
      <3>1. \A f \in Files : maker[f] = "texo" =>
              file[f].there /\ file[f].own = None /\ spoilt.manifest
        BY <2>4 DEF Made, MadeIsListed
      <3>2. QED  BY <1>1, <3>1 DEF MadeIsListed, NoServer, Server
    <2>6. NothingOfTexoRemains'
      <3>1. last'.met => cmd.met  BY <2>1 DEF Ended
      <3>2. ~ cmd.met => hooks'.state = "absent" /\ \A f \in Files : file'[f].texo = NoServer
        BY <1>1, <2>3 DEF Made, RemovalLists
      <3>3. manifest'.state = "absent"  BY <2>1 DEF NoManifest
      <3>4. last'.met <=> cmd.met  BY <2>1 DEF Ended
      <3>5. QED
        BY <1>1, <2>4, <3>2, <3>3, <3>4 DEF NothingOfTexoRemains, NoServer, Server
    <2>7. QED  BY <2>1, <2>5, <2>6, IdleLists DEF Made, Ended
  <1>4. QED  BY <1>2, <1>3

LEMMA RewriteManifestMade == ASSUME Typed, Made, RewriteManifest PROVE Made'
  <1>1. UNCHANGED <<file, maker, spoilt, hooks>> /\ Removing /\ ~ cmd.shared /\ cmd.left = {}
    BY DEF RewriteManifest, Removing, Keep
  <1>2. CASE Ended("refused") /\ UNCHANGED manifest  BY <1>1, <1>2, EndedMade
  <1>3. CASE /\ Ended("done")
             /\ manifest' = IF manifest.state = "absent" THEN manifest
                            ELSE ManifestOf(manifest.server, cmd.created \ cmd.targets)
    <2>1. ~ EveryClient(cmd.request)
      BY <1>1 DEF Typed, CommandIsTyped, Removals
    <2>2. NothingOfTexoRemains'  BY <1>3, <2>1, StillRunning DEF Ended
    <2>3. MadeIsListed'
      <3>1. CASE UNCHANGED manifest  BY <1>1, <3>1, SameMakers DEF Made
      <3>2. CASE manifest'.created = cmd.created \ cmd.targets
        <4>1. ASSUME NEW f \in Files, maker[f] = "texo", ~ spoilt.manifest
              PROVE  f \in manifest'.created
          <5>1. f \in cmd.created /\ ~ Done(f)
            BY <1>1, <4>1 DEF Made, MadeIsListed, RemovalLists
          <5>2. QED  BY <1>1, <3>2, <5>1 DEF Done
        <4>2. QED  BY <1>1, <4>1 DEF Made, MadeIsListed, NoServer, Server
      <3>3. QED  BY <1>3, <3>1, <3>2 DEF ManifestOf
    <2>4. QED  BY <1>3, <2>2, <2>3, IdleLists DEF Made, Ended
  <1>4. QED  BY <1>2, <1>3 DEF RewriteManifest

LEMMA EditMade == ASSUME Typed, Made, EditFile \/ EditOurs PROVE Made'
  <1>1. /\ cmd' = (IF cmd = Idle THEN Idle ELSE [cmd EXCEPT !.met = TRUE])
        /\ last' = [last EXCEPT !.met = TRUE]
    BY DEF EditFile, EditOurs, Edit
  <1>2. NothingOfTexoRemains'  BY <1>1, StillRunning DEF Typed
  <1>3. /\ manifest'.created = manifest.created \/ manifest'.created = {}
        /\ manifest'.created = manifest.created \/ spoilt'.manifest
        /\ spoilt.manifest => spoilt'.manifest
    BY DEF EditFile, EditOurs, Typed, NoManifest, ManifestOf
  <1>4. MadeIsListed'
    <2>1. CASE EditOurs
      <3>1. UNCHANGED <<file, maker>>  BY <2>1 DEF EditOurs
      <3>2. QED  BY <1>3, <3>1 DEF Made, MadeIsListed, NoServer, Server
    <2>2. CASE EditFile
      <3>1. PICK f \in Files : \E new :
              /\ file' = [file EXCEPT ![f] = new]
              /\ \E who \in {None, "late", "user"} : maker' = [maker EXCEPT ![f] = who]
              /\ UNCHANGED <<manifest, spoilt>>
        BY <2>2 DEF EditFile
      <3>2. maker'[f] # "texo"  BY <3>1, FilesTyped DEF None
      <3>3. \A g \in Files : g # f => file'[g] = file[g] /\ maker'[g] = maker[g]
        BY <3>1, FilesTyped
      <3>4. QED  BY <3>1, <3>2, <3>3 DEF Made, MadeIsListed, NoServer, Server
    <2>3. QED  BY <2>1, <2>2
  <1>5. CASE cmd' = Idle  BY <1>2, <1>4, <1>5, IdleLists DEF Made
  <1>6. CASE cmd' = [cmd EXCEPT !.met = TRUE]
    <2>1. /\ UNCHANGED <<cmd.op, cmd.at, cmd.created, cmd.left, cmd.targets, cmd.shared>>
          /\ cmd'.met
      BY <1>6, CmdFields DEF Fields
    <2>2. PlanLists'  BY <1>3, <2>1 DEF Made, PlanLists, Installing, Before
    <2>3. \A f \in Files : maker'[f] = "texo" => maker[f] = "texo"
      <3>1. CASE EditOurs  BY <3>1 DEF EditOurs
      <3>2. CASE EditFile
        <4>1. \E f, who : who \in {None, "late", "user"} /\ maker' = [maker EXCEPT ![f] = who]
          BY <3>2 DEF EditFile
        <4>2. QED  BY <4>1, FilesTyped DEF None
      <3>3. QED  BY <3>1, <3>2
    <2>4. RemovalLists'
      BY <1>3, <2>1, <2>3 DEF Made, RemovalLists, Removing, Done
    <2>5. QED  BY <1>2, <1>4, <2>2, <2>4 DEF Made
  <1>7. QED  BY <1>1, <1>5, <1>6

LEMMA NextMade == Typed /\ Reading /\ Made /\ [Next]_vars => Made'
  <1> SUFFICES ASSUME Typed, Reading, Made, [Next]_vars PROVE Made'  OBVIOUS
  <1>1. CASE \/ \E ws \in Workspaces, journal \in {None, "canonical"}, request \in Requests :
                  BeginInstall(ws, journal, request)
             \/ \E request \in Requests : BeginUninstall(request)
    BY <1>1, BeginMade
  <1>2. CASE RefreshFails \/ Crash
    BY <1>2, EndedMade DEF RefreshFails, Crash, Disk
  <1>3. CASE Texo /\ ~ RefreshFails
    BY <1>3, InstallFileMade, RemoveFileMade, ReadMade, OtherWritesMade, RemoveHooksMade,
       RemoveManifestMade, RewriteManifestMade
    DEF Texo
  <1>4. CASE EditFile \/ EditOurs  BY <1>4, EditMade
  <1>5. CASE UNCHANGED vars
    <2>1. UNCHANGED <<file, manifest, hooks, cmd, last, spoilt, maker>>  BY <1>5 DEF vars
    <2>2. MadeIsListed'  BY <2>1, SameMakers DEF Made
    <2>3. PlanLists' /\ RemovalLists'
      BY <2>1
      DEF Made, PlanLists, RemovalLists, Installing, Removing, Done, Before, NoServer, Server
    <2>4. NothingOfTexoRemains'
      BY <2>1 DEF Made, NothingOfTexoRemains, NoServer, Server, FileOf, Idle, EveryClient
    <2>5. QED  BY <2>2, <2>3, <2>4 DEF Made
  <1>6. QED  BY <1>1, <1>2, <1>3, <1>4, <1>5 DEF Next

(* Whatever commands, crashes and edits came before: a complete uninstall  *)
(* that nobody met leaves nothing of Texo, and a command that is refused   *)
(* has written nothing (src/install.rs:146, 399).                          *)
THEOREM UninstallLeavesNothing == Spec => []InstallInv
  <1>1. Typed /\ Reading /\ Free /\ Made /\ [Next]_vars => (Typed /\ Reading /\ Free /\ Made)'
    BY NextTyped, NextReading, NextFree, NextMade
  <1>2. Init => Typed /\ Reading /\ Free /\ Made  BY InitTyped, InitReads, InitFree, InitMade
  <1>3. Typed /\ Reading /\ Free /\ Made => InstallInv
    BY DEF Typed, FilesAreTyped, Free, Made, InstallInv
  <1>4. QED  BY <1>1, <1>2, <1>3, PTL DEF Spec

-----------------------------------------------------------------------------
(* What the configuration serves                                           *)

LEMMA ResolvesMore ==
    ASSUME NEW a, NEW b, NEW j, NEW k, Resolves(a, j), Resolves(b, k), b.primary = a.primary,
           DOMAIN a.journals \subseteq DOMAIN b.journals
    PROVE  Resolves(b, j)
  BY DEF Resolves, Selects

LEMMA ResolvesRoute ==
    ASSUME NEW b, NEW k, Resolves(b, k)
    PROVE  /\ Resolves(b, None)
           /\ \A c \in DOMAIN b.journals : Resolves(b, c)
  BY DEF Resolves, Selects

LEMMA NoServerIsServed == \A c : Serves(c, NoServer) /\ NoServer.ws = None
  BY DEF Serves, NoServer, Server

(* Where entries of Texo are                                               *)
LEMMA ServersAre ==
    \A s : s \in AllServers <=> s = manifest.server \/ s = hooks.server
                                  \/ \E f \in Files : s = file[f].texo
  BY DEF AllServers

LEMMA SameServers ==
    ASSUME UNCHANGED <<file, manifest, hooks>> PROVE AllServers' = AllServers
  BY DEF AllServers

FewerServers == AllServers' \subseteq AllServers \union {NoServer}

LEMMA FewerAreServed ==
    ASSUME ConfigServes, FewerServers, UNCHANGED config, spoilt.config => spoilt'.config
    PROVE  ConfigServes'
  BY NoServerIsServed DEF ConfigServes, FewerServers, NothingInstalled, Serves

LEMMA PlanStays ==
    ASSUME Serving, FewerServers, UNCHANGED config, spoilt.config => spoilt'.config,
           cmd.met => cmd'.met,
           UNCHANGED <<cmd.op, cmd.at, cmd.ws, cmd.journal, cmd.plan, cmd.routes, cmd.changed>>,
           cmd'.left \subseteq cmd.left
    PROVE  PlanServes' /\ Follows'
  <1>1. ASSUME NEW c, WillServe(c) PROVE WillServe(c)'
    BY <1>1 DEF WillServe, Wanted, Serves
  <1>2. ASSUME NEW c, \A server \in AllServers : Serves(c, server)
        PROVE  \A server \in AllServers' : Serves(c, server)
    BY <1>2, NoServerIsServed DEF FewerServers
  <1>3. NothingInstalled => NothingInstalled'
    BY NoServerIsServed DEF FewerServers, NothingInstalled
  <1>4. PlanServes'
    <2> SUFFICES ASSUME Installing', ~ spoilt'.config
                 PROVE  /\ cmd'.at = "created" => NothingInstalled'
                        /\ cmd'.at \in Before => \A server \in AllServers' : Serves(cmd'.plan, server)
                        /\ cmd'.at \in Before => WillServe(cmd.plan)'
                        /\ cmd'.at \in {"manifest", "hooks", "files"} => WillServe(config)'
      BY DEF PlanServes, Before
    <2>1. Installing /\ ~ spoilt.config  BY DEF Installing
    <2>2. /\ cmd.at = "created" => NothingInstalled
          /\ cmd.at \in Before => \A server \in AllServers : Serves(cmd.plan, server)
          /\ cmd.at \in Before => WillServe(cmd.plan)
          /\ cmd.at \in {"manifest", "hooks", "files"} => WillServe(config)
      BY <2>1 DEF Serving, PlanServes
    <2>3. PICK p, g : p = cmd.plan /\ g = config  OBVIOUS
    <2>4. p = cmd'.plan /\ g = config'  BY <2>3
    <2>5. WillServe(p)' <=> WillServe(cmd.plan)'  BY <2>4 DEF WillServe
    <2>6. WillServe(g)' <=> WillServe(config)'  BY <2>4 DEF WillServe
    <2>7. cmd.at \in Before => WillServe(p)' /\ \A server \in AllServers' : Serves(p, server)
      BY <1>1, <1>2, <2>2, <2>3
    <2>8. cmd.at \in {"manifest", "hooks", "files"} => WillServe(g)'
      BY <1>1, <2>2, <2>3
    <2>9. QED  BY <1>3, <2>2, <2>4, <2>5, <2>6, <2>7, <2>8
  <1>5. Follows'  BY DEF Serving, Follows, Installing, Prospective
  <1>6. QED  BY <1>4, <1>5

LEMMA IdleServes == ASSUME cmd' = Idle PROVE PlanServes' /\ Follows'
  BY IdleIsTyped DEF PlanServes, Follows, Installing, None

LEMMA RemovingServes == ASSUME Removing' PROVE PlanServes' /\ Follows'
  BY DEF PlanServes, Follows, Installing, Removing

LEMMA InitServes == Init => Serving
  <1> SUFFICES ASSUME Init PROVE Serving  OBVIOUS
  <1>1. ~ Installing  BY IdleIsTyped DEF Init, Installing, None
  <1>2. \A f \in Files : file[f].texo = NoServer
    <2>1. \A x \in FirstFiles : x = Absent \/ \E own : x = FileOf(own, NoServer)
      BY FirstFilesAssumption
    <2>2. \A x \in FirstFiles : x.texo = NoServer  BY <2>1 DEF Absent, FileOf
    <2>3. QED  BY <2>2 DEF Init
  <1>3. manifest.server = NoServer /\ hooks.server = NoServer  BY DEF Init, NoManifest
  <1>4. \A server \in AllServers : server = NoServer  BY <1>2, <1>3, ServersAre
  <1>5. QED
    BY <1>1, <1>4, NoServerIsServed
    DEF Serving, ConfigServes, PlanServes, Follows, NothingInstalled

(* What is planned serves what is there and what will be written.          *)
LEMMA PlanIsServing ==
    ASSUME Typed, ConfigServes, ~ spoilt.config,
           NEW ws \in Workspaces, NEW journal \in {None, "canonical"}, NEW request,
           config.state = "absent" \/ (config.state = "whole" /\ ws \in DOMAIN config.of),
           NEW p, p = Planned(ws, journal, request),
           ~ ConfigRefuses(ws, journal, p)
    PROVE  /\ \A server \in AllServers : Serves(p.plan, server)
           /\ Serves(p.plan, Server(ws, journal)) /\ Serves(p.plan, Server(ws, None))
           /\ \A c \in Selected(request) : Serves(p.plan, Server(ws, p.routes[c]))
  <1>1. PICK base, clients, routed :
          /\ base = Base(ws) /\ clients = Selected(request)
          /\ routed = RoutedIn(base, ws, journal, clients)
    OBVIOUS
  <1>2. p.plan = WithSpace(base, ws, routed) /\ p.routes = RoutesOf(journal, clients)
    BY <1>1, PlannedPlan, PlannedFiles
  <1>3. IsConfig(base) /\ ws \in DOMAIN base.of
    BY <1>1, ProspectiveIsConfig DEF Typed, Base
  <1>4. /\ DOMAIN p.plan.of = DOMAIN base.of /\ p.plan.of[ws] = routed
        /\ \A w \in DOMAIN base.of : w # ws => p.plan.of[w] = base.of[w]
        /\ routed.primary = base.of[ws].primary
        /\ DOMAIN base.of[ws].journals \subseteq DOMAIN routed.journals
        /\ journal = None => clients \subseteq DOMAIN routed.journals
    BY <1>1, <1>2, <1>3, PlannedConfig
  <1>5. Resolves(routed, journal)  BY <1>4 DEF ConfigRefuses
  <1>6. Resolves(routed, None) /\ \A c \in DOMAIN routed.journals : Resolves(routed, c)
    BY <1>5, ResolvesRoute
  <1>7. ASSUME NEW j, Resolves(routed, j) PROVE Serves(p.plan, Server(ws, j))
    BY <1>3, <1>4, <1>7 DEF Serves, Server
  <1>8. ASSUME NEW c \in clients PROVE Serves(p.plan, Server(ws, p.routes[c]))
    BY <1>2, <1>4, <1>5, <1>6, <1>7, <1>8 DEF RoutesOf
  <1>9. ASSUME NEW server \in AllServers PROVE Serves(p.plan, server)
    <2>1. CASE config.state = "absent"
      BY <1>9, <2>1 DEF ConfigServes, NothingInstalled, Serves
    <2>2. CASE config.state = "whole"
      <3>1. Serves(config, server) /\ base = config
        BY <1>1, <1>9, <2>2 DEF ConfigServes, Base
      <3>2. CASE server.ws = None  BY <3>2 DEF Serves
      <3>3. CASE server.ws # None /\ server.ws # ws
        BY <1>4, <3>1, <3>3 DEF Serves
      <3>4. CASE server.ws # None /\ server.ws = ws
        <4>1. Resolves(base.of[ws], server.journal)  BY <3>1, <3>4 DEF Serves
        <4>2. Resolves(routed, server.journal)  BY <1>4, <1>5, <4>1, ResolvesMore
        <4>3. QED  BY <1>3, <1>4, <3>4, <4>2 DEF Serves
      <3>5. QED  BY <3>2, <3>3, <3>4
    <2>3. QED  BY <2>1, <2>2
  <1>10. Serves(p.plan, Server(ws, journal)) /\ Serves(p.plan, Server(ws, None))
    BY <1>5, <1>6, <1>7
  <1>11. \A c \in Selected(request) : Serves(p.plan, Server(ws, p.routes[c]))  BY <1>1, <1>8
  <1>12. QED  BY <1>9, <1>10, <1>11

(* A plan without changes is the configuration there is.                   *)
LEMMA PlanFollows ==
    ASSUME Typed, NEW ws \in Workspaces, NEW journal, NEW request,
           config.state = "absent" \/ (config.state = "whole" /\ ws \in DOMAIN config.of),
           NEW p, p = Planned(ws, journal, request), ~ p.changed
    PROVE  p.plan.of[ws] = Base(ws).of[ws]
  <1>1. PICK base, clients, routed :
          /\ base = Base(ws) /\ clients = Selected(request)
          /\ routed = RoutedIn(base, ws, journal, clients)
    OBVIOUS
  <1>2. p.plan = WithSpace(base, ws, routed)  BY <1>1, PlannedPlan
  <1>3. routed = base.of[ws]  BY <1>1, PlannedPlan
  <1>4. IsConfig(base) /\ ws \in DOMAIN base.of
    BY <1>1, ProspectiveIsConfig DEF Typed, Base
  <1>5. p.plan.of[ws] = routed  BY <1>1, <1>2, <1>4, PlannedConfig
  <1>6. QED  BY <1>1, <1>3, <1>5

LEMMA BeginServes ==
    ASSUME Typed, Serving,
           \/ \E ws \in Workspaces, journal \in {None, "canonical"}, request \in Requests :
                 BeginInstall(ws, journal, request)
           \/ \E request \in Requests : BeginUninstall(request)
    PROVE  Serving'
  <1>1. UNCHANGED <<Disk, maker, spoilt>>
    BY DEF BeginInstall, BeginUninstall, Begin
  <1>2. UNCHANGED <<config, file, manifest, hooks, spoilt>> /\ FewerServers
    BY <1>1, SameServers DEF Disk, FewerServers
  <1>3. ConfigServes'  BY <1>2, FewerAreServed DEF Serving
  <1>4. CASE UNCHANGED cmd
    <2>1. PlanServes' /\ Follows'
      <3>1. /\ cmd.met => cmd'.met
            /\ UNCHANGED <<cmd.op, cmd.at, cmd.ws, cmd.journal, cmd.plan, cmd.routes, cmd.changed>>
            /\ cmd'.left \subseteq cmd.left
        BY <1>4
      <3>2. QED  BY <1>2, <3>1, PlanStays
    <2>2. QED  BY <1>3, <2>1 DEF Serving
  <1>5. ASSUME NEW ws \in Workspaces, NEW journal \in {None, "canonical"}, NEW request,
               config.state = "absent" \/ (config.state = "whole" /\ ws \in DOMAIN config.of),
               ~ ConfigRefuses(ws, journal, Planned(ws, journal, request)),
               cmd' = [Planned(ws, journal, request) EXCEPT
                         !.again = Repeats("install", ws, journal, request)]
        PROVE  Serving'
    <2>1. PICK p : p = Planned(ws, journal, request)  OBVIOUS
    <2>2. /\ DOMAIN p = Fields /\ p.op = "install" /\ p.ws = ws /\ p.journal = journal
          /\ p.at = "config" /\ p.left = Selected(request)
      BY <2>1, PlannedFields, PlannedFiles
    <2>3. /\ cmd'.op = "install" /\ cmd'.ws = ws /\ cmd'.journal = journal /\ cmd'.at = "config"
          /\ cmd'.left = Selected(request) /\ cmd'.plan = p.plan /\ cmd'.routes = p.routes
          /\ cmd'.changed = p.changed
      BY <1>5, <2>1, <2>2 DEF Fields
    <2>4. PlanServes'
      <3> SUFFICES ASSUME ~ spoilt.config
                   PROVE  /\ \A server \in AllServers : Serves(p.plan, server)
                          /\ WillServe(cmd.plan)'
        BY <1>2, <2>3, SameServers DEF PlanServes, Before
      <3>1. /\ \A server \in AllServers : Serves(p.plan, server)
            /\ Serves(p.plan, Server(ws, journal)) /\ Serves(p.plan, Server(ws, None))
            /\ \A c \in Selected(request) : Serves(p.plan, Server(ws, p.routes[c]))
        BY <1>5, <2>1, PlanIsServing DEF Serving
      <3>2. ASSUME NEW f \in Selected(request) \union {Guide} PROVE Serves(p.plan, Wanted(f)')
        BY <2>3, <3>1 DEF Wanted
      <3>3. QED  BY <2>3, <3>1, <3>2 DEF WillServe
    <2>5. Follows'
      <3> SUFFICES ASSUME ~ p.changed
                   PROVE  /\ config.state # "absent" =>
                               /\ config.state = "whole" /\ ws \in DOMAIN config.of
                               /\ config.of[ws] = p.plan.of[ws]
                          /\ config.state = "absent" => p.plan.of[ws] = Prospective(ws).of[ws]
        BY <1>2, <2>3 DEF Follows, Prospective
      <3>1. p.plan.of[ws] = Base(ws).of[ws]  BY <1>5, <2>1, PlanFollows
      <3>2. QED  BY <1>5, <3>1 DEF Base
    <2>6. QED  BY <1>3, <2>4, <2>5 DEF Serving
  <1>6. ASSUME NEW ws \in Workspaces, NEW journal \in {None, "canonical"}, NEW request,
               BeginInstall(ws, journal, request)
        PROVE  Serving'
    <2>1. CASE UNCHANGED cmd  BY <1>4, <2>1
    <2>2. CASE ~ UNCHANGED cmd
      <3>1. /\ config.state = "absent" \/ (config.state = "whole" /\ ws \in DOMAIN config.of)
            /\ ~ ConfigRefuses(ws, journal, Planned(ws, journal, request))
            /\ cmd' = [Planned(ws, journal, request) EXCEPT
                         !.again = Repeats("install", ws, journal, request)]
        BY <1>6, <2>2, FilesTyped DEF BeginInstall, Refuse
      <3>2. QED  BY <1>5, <3>1
    <2>3. QED  BY <2>1, <2>2
  <1>7. ASSUME NEW request, BeginUninstall(request) PROVE Serving'
    <2>1. CASE UNCHANGED cmd  BY <1>4, <2>1
    <2>2. CASE ~ UNCHANGED cmd
      <3>1. cmd'.op = "uninstall"  BY ZenonT(60), <1>7, <2>2 DEF BeginUninstall, Refuse, Idle
      <3>2. QED  BY <1>3, <3>1, RemovingServes DEF Removing, Serving
    <2>3. QED  BY <2>1, <2>2
  <1>8. QED  BY <1>6, <1>7

LEMMA EndedServes ==
    ASSUME Serving, FewerServers, NEW how, Ended(how), UNCHANGED <<config, spoilt>>
    PROVE  Serving'
  <1>1. ConfigServes'  BY FewerAreServed DEF Serving
  <1>2. QED  BY <1>1, IdleServes DEF Ended, Serving

(* The configuration is rewritten.                                         *)
LEMMA TruncateServes == ASSUME Typed, Serving, TruncateConfig PROVE Serving'
  <1>1. /\ UNCHANGED <<file, manifest, hooks, spoilt>> /\ Installing
        /\ cmd.at = "config" /\ config' = Torn
    BY DEF TruncateConfig, Keep, Installing
  <1>2. config'.state = "torn"  BY <1>1 DEF Torn, NoConfig
  <1>3. ConfigServes'  BY <1>2 DEF ConfigServes
  <1>4. /\ UNCHANGED <<cmd.op, cmd.ws, cmd.journal, cmd.plan, cmd.routes, cmd.changed, cmd.left,
                       cmd.met>>
        /\ cmd'.at = IF config.state = "absent" THEN "created" ELSE "saved"
    BY CmdFields DEF TruncateConfig, Go, Fields
  <1>5. AllServers' = AllServers  BY <1>1, SameServers
  <1>6. PlanServes'
    <2> SUFFICES ASSUME ~ spoilt.config
                 PROVE  /\ cmd'.at = "created" => NothingInstalled'
                        /\ \A server \in AllServers' : Serves(cmd'.plan, server)
                        /\ WillServe(cmd.plan)'
      BY <1>1, <1>4 DEF PlanServes, Before
    <2>1. \A server \in AllServers : Serves(cmd.plan, server)
      BY <1>1 DEF Serving, PlanServes, Before
    <2>2. WillServe(cmd.plan)  BY <1>1 DEF Serving, PlanServes, Before
    <2>3. WillServe(cmd.plan)'  BY <1>4, <2>2 DEF WillServe, Wanted
    <2>4. cmd'.at = "created" => NothingInstalled'
      BY <1>4, <1>5 DEF Serving, ConfigServes, NothingInstalled
    <2>5. QED  BY <1>4, <1>5, <2>1, <2>3, <2>4
  <1>7. Follows'
    <2> SUFFICES ASSUME ~ spoilt.config \/ ~ cmd.met, cmd'.at = "created"
                 PROVE  cmd.changed \/ cmd.plan.of[cmd.ws] = Prospective(cmd.ws).of[cmd.ws]
      BY <1>1, <1>2, <1>4 DEF Follows, Prospective
    <2>1. QED  BY <1>1, <1>4 DEF Serving, Follows
  <1>8. QED  BY <1>3, <1>6, <1>7 DEF Serving

LEMMA WriteConfigServes == ASSUME Typed, Serving, WriteConfig PROVE Serving'
  <1>1. /\ UNCHANGED <<file, manifest, hooks, spoilt>> /\ Installing
        /\ cmd.at \in {"created", "saved"}
        /\ config' = IF cmd.at = "created" THEN Prospective(cmd.ws) ELSE cmd.plan
    BY DEF WriteConfig, Keep, Installing
  <1>2. /\ UNCHANGED <<cmd.op, cmd.ws, cmd.journal, cmd.plan, cmd.routes, cmd.left, cmd.met>>
        /\ cmd'.at = "config"
        /\ cmd'.changed <=> cmd.changed /\ cmd.at = "created"
    BY CmdFields DEF WriteConfig, Fields
  <1>3. AllServers' = AllServers  BY <1>1, SameServers
  <1>4. /\ cmd.plan.state = "whole" /\ cmd.ws \in DOMAIN cmd.plan.of
        /\ DOMAIN Prospective(cmd.ws).of = {cmd.ws} /\ Prospective(cmd.ws).state = "whole"
    BY <1>1, ProspectiveIsConfig DEF Typed, CommandIsTyped, Plans
  <1>5. config'.state = "whole" /\ cmd.ws \in DOMAIN config'.of  BY <1>1, <1>4
  <1>6. ConfigServes'
    <2> SUFFICES ASSUME ~ spoilt.config, NEW server \in AllServers
                 PROVE  Serves(config', server)
      BY <1>1, <1>3, <1>5 DEF ConfigServes
    <2>1. CASE cmd.at = "created"
      <3>1. server.ws = None
        BY <1>1, <2>1 DEF Serving, PlanServes, NothingInstalled
      <3>2. QED  BY <3>1 DEF Serves
    <2>2. CASE cmd.at = "saved"
      <3>1. Serves(cmd.plan, server)  BY <1>1, <2>2 DEF Serving, PlanServes, Before
      <3>2. QED  BY <1>1, <2>2, <3>1
    <2>3. QED  BY <1>1, <2>1, <2>2
  <1>7. PlanServes'
    <2> SUFFICES ASSUME ~ spoilt.config
                 PROVE  /\ \A server \in AllServers' : Serves(cmd'.plan, server)
                        /\ WillServe(cmd.plan)'
      BY <1>1, <1>2 DEF PlanServes, Before
    <2>1. \A server \in AllServers : Serves(cmd.plan, server)
      BY <1>1 DEF Serving, PlanServes, Before
    <2>2. WillServe(cmd.plan)  BY <1>1 DEF Serving, PlanServes, Before
    <2>3. WillServe(cmd.plan)'  BY <1>2, <2>2 DEF WillServe, Wanted
    <2>4. QED  BY <1>2, <1>3, <2>1, <2>3
  <1>8. Follows'
    <2> SUFFICES ASSUME ~ spoilt.config \/ ~ cmd.met, ~ cmd'.changed
                 PROVE  config'.of[cmd.ws] = cmd.plan.of[cmd.ws]
      BY <1>1, <1>2, <1>5 DEF Follows
    <2>1. CASE cmd.at = "created"
      <3>1. ~ cmd.changed  BY <1>2, <2>1
      <3>2. cmd.plan.of[cmd.ws] = Prospective(cmd.ws).of[cmd.ws]
        BY <1>1, <2>1, <3>1 DEF Serving, Follows
      <3>3. QED  BY <1>1, <2>1, <3>2
    <2>2. CASE cmd.at = "saved"  BY <1>1, <2>2
    <2>3. QED  BY <1>1, <2>1, <2>2
  <1>9. QED  BY <1>6, <1>7, <1>8 DEF Serving

LEMMA RefreshServes == ASSUME Typed, Serving, RefreshRoutes PROVE Serving'
  <1>1. /\ UNCHANGED <<config, file, manifest, hooks, spoilt>> /\ Installing
        /\ cmd.at = "config" /\ config.state # "absent" /\ ~ cmd.changed
    BY DEF RefreshRoutes, Keep, Installing, Disk, Stale
  <1>2. /\ UNCHANGED <<cmd.op, cmd.ws, cmd.journal, cmd.plan, cmd.routes, cmd.left, cmd.met>>
        /\ cmd'.at = "manifest"
    BY CmdFields DEF RefreshRoutes, Fields
  <1>3. ConfigServes'  BY <1>1, SameServers, FewerAreServed DEF FewerServers, Serving
  <1>4. (~ spoilt.config \/ ~ cmd.met) =>
          /\ config.state = "whole" /\ cmd.ws \in DOMAIN config.of
          /\ config.of[cmd.ws] = cmd.plan.of[cmd.ws]
    BY <1>1 DEF Serving, Follows
  <1>5. Follows'  BY <1>1, <1>2, <1>4 DEF Follows
  <1>6. PlanServes'
    <2> SUFFICES ASSUME ~ spoilt.config PROVE WillServe(config)'
      BY <1>1, <1>2 DEF PlanServes, Before
    <2>1. WillServe(cmd.plan)  BY <1>1 DEF Serving, PlanServes, Before
    <2>2. \A j : Serves(cmd.plan, Server(cmd.ws, j)) => Serves(config, Server(cmd.ws, j))
      BY <1>4 DEF Serves, Server
    <2>3. WillServe(config)  BY <2>1, <2>2 DEF WillServe, Wanted
    <2>4. QED  BY <1>1, <1>2, <2>3 DEF WillServe, Wanted
  <1>7. QED  BY <1>3, <1>5, <1>6 DEF Serving

LEMMA ServingConfig ==
    ASSUME Typed, Serving, Installing, ~ spoilt.config, cmd.at \in {"manifest", "hooks", "files"}
    PROVE  /\ config.state = "whole"
           /\ \A f \in cmd.left \union {Guide} : Serves(config, Wanted(f))
           /\ Serves(config, Server(cmd.ws, cmd.journal))
           /\ \A server \in AllServers : Serves(config, server)
  <1>1. WillServe(config) /\ config.state = "whole"
    BY DEF Serving, PlanServes, Follows
  <1>2. Serves(config, Server(cmd.ws, cmd.journal))  BY <1>1 DEF WillServe
  <1>3. QED  BY <1>1, <1>2 DEF WillServe, Serving, ConfigServes

(* Entries that are written are served.                                    *)
LEMMA MoreAreServed ==
    ASSUME Typed, Serving, Installing, cmd.at \in {"manifest", "hooks", "files"},
           UNCHANGED <<config, spoilt>>,
           NEW new, AllServers' \subseteq AllServers \union {new},
           new = Server(cmd.ws, cmd.journal) \/ \E f \in cmd.left \union {Guide} : new = Wanted(f)
    PROVE  ConfigServes'
  <1> SUFFICES ASSUME ~ spoilt.config
               PROVE  /\ config.state = "whole"
                      /\ \A server \in AllServers' : Serves(config, server)
    BY DEF ConfigServes
  <1>1. QED  BY ServingConfig

LEMMA WriteManifestsServe == ASSUME Typed, Serving, WriteManifests PROVE Serving'
  <1>1. /\ UNCHANGED <<config, file, spoilt>> /\ Installing
        /\ cmd.at \in {"manifest", "hooks"} /\ cmd'.at \in {"hooks", "files"}
    BY CmdFields DEF WriteManifests, Keep, Installing, Go, Fields
  <1>2. UNCHANGED <<cmd.op, cmd.ws, cmd.journal, cmd.plan, cmd.routes, cmd.left, cmd.met>>
    BY CmdFields DEF WriteManifests, Go, Fields
  <1>3. AllServers' \subseteq AllServers \union {Server(cmd.ws, cmd.journal)}
    <2>1. /\ manifest'.server \in {manifest.server, Server(cmd.ws, cmd.journal)}
          /\ hooks'.server \in {hooks.server, Server(cmd.ws, cmd.journal)}
      BY DEF WriteManifests, ManifestOf
    <2>2. \A s \in AllServers' : s = manifest'.server \/ s = hooks'.server
                                  \/ \E f \in Files : s = file[f].texo
      BY <1>1 DEF AllServers
    <2>3. QED  BY <2>1, <2>2, ServersAre
  <1>4. ConfigServes'  BY <1>1, <1>3, MoreAreServed
  <1>5. PlanServes'
    <2> SUFFICES ASSUME ~ spoilt.config PROVE WillServe(config)'
      BY <1>1, <1>2 DEF PlanServes, Before
    <2>1. WillServe(config)  BY <1>1 DEF Serving, PlanServes
    <2>2. QED  BY <1>1, <1>2, <2>1 DEF WillServe, Wanted
  <1>6. Follows'  BY <1>1, <1>2 DEF Serving, Follows, Installing
  <1>7. QED  BY <1>4, <1>5, <1>6 DEF Serving

LEMMA InstallFileServes == ASSUME Typed, Reading, Serving, InstallFile PROVE Serving'
  <1>1. PICK f, new : f = Current /\ new = Wanted(f)  OBVIOUS
  <1>2. /\ Installing /\ cmd.at = "files" /\ f \in Files /\ f \in cmd.left \union {Guide}
        /\ file' = [file EXCEPT ![f] = Merged(cmd.read, new)]
        /\ UNCHANGED <<config, manifest, hooks, spoilt>>
        /\ f = Guide => Ended("done")
        /\ f # Guide => UNCHANGED Kept /\ cmd'.left = cmd.left \ {f}
    BY <1>1, InstallFileDoes
  <1>3. AllServers' \subseteq AllServers \union {new}
    <2>1. \A g \in Files : file'[g].texo \in {file[g].texo, new}
      BY <1>2, FilesTyped DEF Merged, FileOf
    <2>2. \A s \in AllServers' : s = manifest.server \/ s = hooks.server
                                  \/ \E g \in Files : s = file'[g].texo
      BY <1>2 DEF AllServers
    <2>3. QED  BY <2>1, <2>2, ServersAre
  <1>4. ConfigServes'  BY <1>1, <1>2, <1>3, MoreAreServed
  <1>5. CASE f = Guide  BY <1>2, <1>4, <1>5, IdleServes DEF Ended, Serving
  <1>6. CASE f # Guide
    <2>1. /\ UNCHANGED <<cmd.op, cmd.at, cmd.ws, cmd.journal, cmd.routes, cmd.met>>
          /\ cmd'.left \subseteq cmd.left
      BY <1>2, <1>6 DEF Kept
    <2>2. PlanServes'
      <3> SUFFICES ASSUME ~ spoilt.config PROVE WillServe(config)'
        BY <1>2, <2>1 DEF PlanServes, Before
      <3>1. WillServe(config)  BY <1>2 DEF Serving, PlanServes
      <3>2. QED  BY <1>2, <2>1, <3>1 DEF WillServe, Wanted
    <2>3. Follows'  BY <1>2, <2>1 DEF Serving, Follows, Installing
    <2>4. QED  BY <1>4, <2>2, <2>3 DEF Serving
  <1>7. QED  BY <1>5, <1>6

LEMMA ReadServes == ASSUME Typed, Serving, ReadToMerge \/ ReadToRemove PROVE Serving'
  <1>1. PICK f : f = Current  OBVIOUS
  <1>2. /\ UNCHANGED <<config, file, manifest, hooks, spoilt>>
        /\ \/ Ended("refused")
           \/ UNCHANGED Kept /\ cmd'.left \subseteq cmd.left
    BY <1>1, ReadDoes
  <1>3. FewerServers  BY <1>2, SameServers DEF FewerServers
  <1>4. CASE Ended("refused")  BY <1>2, <1>3, <1>4, EndedServes
  <1>5. CASE UNCHANGED Kept /\ cmd'.left \subseteq cmd.left
    <2>1. /\ cmd.met => cmd'.met
          /\ UNCHANGED <<cmd.op, cmd.at, cmd.ws, cmd.journal, cmd.plan, cmd.routes, cmd.changed>>
      BY <1>5 DEF Kept
    <2>2. PlanServes' /\ Follows'  BY <1>2, <1>3, <1>5, <2>1, PlanStays
    <2>3. ConfigServes'  BY <1>2, <1>3, FewerAreServed DEF Serving
    <2>4. QED  BY <2>2, <2>3 DEF Serving
  <1>6. QED  BY <1>2, <1>4, <1>5

(* Uninstalling takes entries away.                                        *)
LEMMA UninstallServes ==
    ASSUME Typed, Reading, Serving, RemoveFile \/ RemoveHooks \/ RemoveManifest \/ RewriteManifest
    PROVE  Serving'
  <1>1. UNCHANGED <<config, spoilt>> /\ Removing
    BY DEF RemoveFile, RemoveHooks, RemoveManifest, RewriteManifest, Keep, Removing
  <1>2. cmd' = Idle \/ Removing'
    BY CmdFields
    DEF RemoveFile, RemoveHooks, RemoveManifest, RewriteManifest, Ended, Go, Removing, Fields
  <1>3. /\ manifest'.server \in {manifest.server, NoServer}
        /\ hooks'.server \in {hooks.server, NoServer}
    BY DEF RemoveFile, RemoveHooks, RemoveManifest, RewriteManifest, ManifestOf, NoManifest
  <1>4. \A g \in Files : file'[g].texo \in {file[g].texo, NoServer}
    <2>1. CASE UNCHANGED file  BY <2>1
    <2>2. CASE RemoveFile
      <3>1. PICK f, text : f = Current /\ text = Removed(f, cmd.read, cmd.created)  OBVIOUS
      <3>2. /\ cmd.read \in FileRecords /\ cmd.read.there /\ f \in Files
            /\ UNCHANGED file \/ file' = [file EXCEPT ![f] = text]
        BY <2>2, <3>1, RemoveFileDoes
      <3>3. text.texo = NoServer  BY <3>1, <3>2, ServersAreTyped, RemovedIsTyped
      <3>4. QED  BY <3>2, <3>3, FilesTyped
    <2>3. QED  BY <2>1, <2>2 DEF RemoveHooks, RemoveManifest, RewriteManifest
  <1>5. FewerServers
    <2>1. \A s \in AllServers' : s = manifest'.server \/ s = hooks'.server
                                  \/ \E f \in Files : s = file'[f].texo
      BY DEF AllServers
    <2>2. QED  BY <1>3, <1>4, <2>1, ServersAre DEF FewerServers
  <1>6. ConfigServes'  BY <1>1, <1>5, FewerAreServed DEF Serving
  <1>7. QED  BY <1>2, <1>6, IdleServes, RemovingServes DEF Serving

LEMMA EditServes == ASSUME Typed, Serving, EditFile \/ EditOurs PROVE Serving'
  <1>1. cmd' = (IF cmd = Idle THEN Idle ELSE [cmd EXCEPT !.met = TRUE])
    BY DEF EditFile, EditOurs, Edit
  <1>2. /\ manifest'.server \in {manifest.server, NoServer}
        /\ hooks'.server \in {hooks.server, NoServer}
    BY DEF EditFile, EditOurs, NoManifest, ManifestOf
  <1>3. \A g \in Files : file'[g].texo \in {file[g].texo, NoServer}
    <2>1. CASE EditOurs  BY <2>1 DEF EditOurs
    <2>2. CASE EditFile
      <3>1. PICK f \in Files : \E new \in Edits(f) : file' = [file EXCEPT ![f] = new]
        BY <2>2 DEF EditFile
      <3> PICK new \in Edits(f) : file' = [file EXCEPT ![f] = new]  BY <3>1
      <3>2. file[f] \in FileRecords  BY FilesTyped
      <3>3. new.texo \in {file[f].texo, NoServer}
        <4>1. CASE \E own : new = [file[f] EXCEPT !.own = own]
          BY <3>2, <4>1 DEF FileRecords
        <4>2. CASE new = Absent \/ \E own : new = FileOf(own, NoServer) \/ new = FileOf(own, file[f].texo)
          BY <4>2 DEF Absent, FileOf
        <4>3. QED  BY <3>1, <4>1, <4>2 DEF Edits
      <3>4. QED  BY <3>1, <3>3, FilesTyped
    <2>3. QED  BY <2>1, <2>2
  <1>4. FewerServers
    <2>1. \A s \in AllServers' : s = manifest'.server \/ s = hooks'.server
                                  \/ \E f \in Files : s = file'[f].texo
      BY DEF AllServers
    <2>2. QED  BY <1>2, <1>3, <2>1, ServersAre DEF FewerServers
  <1>5. spoilt.config => spoilt'.config  BY DEF EditFile, EditOurs, Typed
  <1>6. CASE UNCHANGED config
    <2>1. ConfigServes'  BY <1>4, <1>5, <1>6, FewerAreServed DEF Serving
    <2>2. CASE cmd' = Idle  BY <2>1, <2>2, IdleServes DEF Serving
    <2>3. CASE cmd' = [cmd EXCEPT !.met = TRUE]
      <3>1. /\ UNCHANGED <<cmd.op, cmd.at, cmd.ws, cmd.journal, cmd.plan, cmd.routes, cmd.changed>>
            /\ cmd'.met /\ cmd'.left \subseteq cmd.left
        BY <2>3, CmdFields DEF Fields
      <3>2. PlanServes' /\ Follows'  BY <1>4, <1>5, <1>6, <3>1, PlanStays
      <3>3. QED  BY <2>1, <3>2 DEF Serving
    <2>4. QED  BY <1>1, <2>2, <2>3
  <1>7. CASE ~ UNCHANGED config
    <2>1. spoilt'.config  BY <1>7 DEF EditFile, EditOurs, Typed
    <2>2. CASE cmd' = Idle  BY <2>1, <2>2, IdleServes DEF Serving, ConfigServes
    <2>3. CASE cmd' = [cmd EXCEPT !.met = TRUE]
      <3>1. cmd'.met  BY <2>3, CmdFields DEF Fields
      <3>2. QED  BY <2>1, <3>1 DEF Serving, ConfigServes, PlanServes, Follows
    <2>4. QED  BY <1>1, <2>2, <2>3
  <1>8. QED  BY <1>6, <1>7

LEMMA NextServes == Typed /\ Reading /\ Serving /\ [Next]_vars => Serving'
  <1> SUFFICES ASSUME Typed, Reading, Serving, [Next]_vars PROVE Serving'  OBVIOUS
  <1>1. CASE \/ \E ws \in Workspaces, journal \in {None, "canonical"}, request \in Requests :
                  BeginInstall(ws, journal, request)
             \/ \E request \in Requests : BeginUninstall(request)
    BY <1>1, BeginServes
  <1>2. CASE RefreshFails \/ Crash
    <2>1. /\ Ended("failed") \/ Ended("crashed")
          /\ UNCHANGED <<config, file, manifest, hooks, spoilt>>
      BY <1>2 DEF RefreshFails, Crash, Disk
    <2>2. QED  BY <2>1, SameServers, EndedServes DEF FewerServers
  <1>3. CASE Texo /\ ~ RefreshFails
    BY <1>3, TruncateServes, WriteConfigServes, RefreshServes, WriteManifestsServe,
       InstallFileServes, ReadServes, UninstallServes
    DEF Texo
  <1>4. CASE EditFile \/ EditOurs  BY <1>4, EditServes
  <1>5. CASE UNCHANGED vars
    <2>1. UNCHANGED <<config, file, manifest, hooks, cmd, spoilt>>  BY <1>5 DEF vars
    <2>2. FewerServers  BY <2>1, SameServers DEF FewerServers
    <2>3. /\ cmd.met => cmd'.met
          /\ UNCHANGED <<cmd.op, cmd.at, cmd.ws, cmd.journal, cmd.plan, cmd.routes, cmd.changed>>
          /\ cmd'.left \subseteq cmd.left
      BY <2>1
    <2>4. PlanServes' /\ Follows'  BY <2>1, <2>2, <2>3, PlanStays
    <2>5. ConfigServes'  BY <2>1, <2>2, FewerAreServed DEF Serving
    <2>6. QED  BY <2>4, <2>5 DEF Serving
  <1>6. QED  BY <1>1, <1>2, <1>3, <1>4, <1>5 DEF Next

(* Every entry of Texo, in a file or a manifest, names a journal that the  *)
(* configuration resolves, between any two writes and after any crash.     *)
THEOREM EntriesAreServable == Spec => []AdaptersAreServable
  <1>1. Serving => AdaptersAreServable
    BY ServersAre DEF Serving, ConfigServes, AdaptersAreServable, Served, Serves
  <1>2. Typed /\ Reading /\ Serving /\ [Next]_vars => (Typed /\ Reading /\ Serving)'
    BY NextTyped, NextReading, NextServes
  <1>3. Init => Typed /\ Reading /\ Serving  BY InitTyped, InitReads, InitServes
  <1>4. QED  BY <1>1, <1>2, <1>3, PTL DEF Spec

-----------------------------------------------------------------------------
(* Installing again                                                        *)

LEMMA InitRepeated == Init => Repeated
  <1> SUFFICES ASSUME Init PROVE Repeated  OBVIOUS
  <1>1. ~ Installing  BY IdleIsTyped DEF Init, Installing, None
  <1>2. last.op # "install"  BY DEF Init, None
  <1>3. QED  BY <1>1, <1>2 DEF Repeated, AsPlanned, LastIsInstalled, AgainIsInstalled

LEMMA NotInstalling == ASSUME ~ Installing' \/ cmd'.met PROVE AsPlanned' /\ AgainIsInstalled'
  BY DEF AsPlanned, AgainIsInstalled, Installing

LEMMA IdleInstalls == ASSUME cmd' = Idle PROVE ~ Installing'
  BY IdleIsTyped DEF Installing, None

LEMMA LastIsOther ==
    ASSUME cmd' # Idle \/ last'.op # "install" \/ last'.how # "done" \/ last'.met
    PROVE  LastIsInstalled'
  BY DEF LastIsInstalled, Idle

LEMMA EndedRepeats ==
    ASSUME NEW how, Ended(how), how # "done" \/ ~ Installing PROVE Repeated'
  <1>1. LastIsInstalled'  BY LastIsOther DEF Ended, Installing
  <1>2. QED  BY <1>1, IdleInstalls, NotInstalling DEF Ended, Repeated

(* A client is detected only if it was, or was just written.               *)
LEMMA SelectedGrows ==
    ASSUME NEW request, NEW f, dirs' \subseteq dirs \union {f},
           \A c \in Clients : file'[c].there => file[c].there \/ c = f
    PROVE  Selected(request)' \subseteq Selected(request) \union {f}
  BY DEF Selected, Detected

LEMMA SelectedSame ==
    ASSUME NEW request, UNCHANGED <<file, dirs>> PROVE Selected(request)' = Selected(request)
  BY DEF Selected, Detected

LEMMA WrittenSame ==
    ASSUME UNCHANGED <<file, dirs>>, NEW f, NEW ws, NEW routes, Written(f, ws, routes)
    PROVE  Written(f, ws, routes)'
  BY DEF Written, Server

(* A plan for what is installed changes nothing.                           *)
LEMMA PlanAgain ==
    ASSUME Typed, NEW ws, NEW journal, NEW request, Installed(ws, journal, request),
           NEW p, p = Planned(ws, journal, request)
    PROVE  ~ p.changed /\ p.created = manifest.created
  <1>1. PICK clients, space :
          clients = Selected(request) /\ space = config.of[ws]
    OBVIOUS
  <1>2. /\ config.state = "whole" /\ ws \in DOMAIN config.of
        /\ journal = None => clients \subseteq DOMAIN space.journals
    BY <1>1 DEF Installed, Routed
  <1>3. Base(ws) = config  BY <1>2 DEF Base
  <1>4. IsSpace(space)  BY <1>1, <1>2 DEF Typed, IsConfig
  <1>5. RoutedIn(config, ws, journal, clients) = space
    <2>1. CASE journal # None  BY <1>1, <2>1 DEF RoutedIn
    <2>2. CASE journal = None
      <3>1. PICK primary, journals :
              /\ space = [primary |-> primary, journals |-> journals]
              /\ journals = [j \in DOMAIN journals |-> journals[j]]
        BY <1>4 DEF IsSpace
      <3>2. clients \subseteq DOMAIN journals  BY <1>2, <2>2, <3>1
      <3>3. WithRoutes(ws, space, clients) = [primary |-> primary, journals |->
                [j \in DOMAIN journals \union clients |->
                   IF j \in DOMAIN journals THEN journals[j] ELSE RouteOf(ws, space, j)]]
        BY <3>1 DEF WithRoutes
      <3>4. [j \in DOMAIN journals \union clients |->
                   IF j \in DOMAIN journals THEN journals[j] ELSE RouteOf(ws, space, j)] = journals
        BY <3>1, <3>2
      <3>5. QED  BY <1>1, <2>2, <3>1, <3>3, <3>4 DEF RoutedIn
    <2>3. QED  BY <2>1, <2>2
  <1>6. ~ p.changed  BY <1>1, <1>3, <1>5, PlannedPlan
  <1>7. \A f \in clients \union {Guide} : file[f].there
    BY <1>1 DEF Installed, Written
  <1>8. CreatedPaths(clients) = manifest.created  BY <1>7 DEF CreatedPaths
  <1>9. p.created = manifest.created  BY <1>1, <1>8, PlannedFiles
  <1>10. QED  BY <1>6, <1>9

LEMMA BeginRepeats ==
    ASSUME Typed, Repeated,
           \/ \E ws \in Workspaces, journal \in {None, "canonical"}, request \in Requests :
                 BeginInstall(ws, journal, request)
           \/ \E request \in Requests : BeginUninstall(request)
    PROVE  Repeated'
  <1>1. UNCHANGED <<Disk, maker, spoilt>> /\ cmd = Idle
    BY DEF BeginInstall, BeginUninstall, Begin
  <1>2. UNCHANGED <<config, file, dirs, manifest, hooks>>  BY <1>1 DEF Disk
  <1>3. ASSUME NEW op, NEW ws, NEW journal, NEW request, Refuse(op, ws, journal, request)
        PROVE  Repeated'
    <2>1. cmd' = Idle /\ last'.how = "refused"  BY <1>1, <1>3 DEF Refuse
    <2>2. QED  BY <2>1, LastIsOther, IdleInstalls, NotInstalling DEF Repeated
  <1>4. ASSUME NEW ws \in Workspaces, NEW journal \in {None, "canonical"}, NEW request,
               config.state = "absent" \/ (config.state = "whole" /\ ws \in DOMAIN config.of),
               cmd' = [Planned(ws, journal, request) EXCEPT
                         !.again = Repeats("install", ws, journal, request)]
        PROVE  Repeated'
    <2>1. PICK p, clients : p = Planned(ws, journal, request) /\ clients = Selected(request)
      OBVIOUS
    <2>2. /\ DOMAIN p = Fields /\ p.op = "install" /\ p.ws = ws /\ p.journal = journal
          /\ p.at = "config" /\ p.left = clients /\ p.request = request
          /\ p.routes = RoutesOf(journal, clients)
      BY <2>1, PlannedFields, PlannedFiles
    <2>3. /\ cmd'.op = "install" /\ cmd'.ws = ws /\ cmd'.journal = journal /\ cmd'.at = "config"
          /\ cmd'.left = clients /\ cmd'.plan = p.plan /\ cmd'.request = request
          /\ cmd'.changed = p.changed /\ cmd'.created = p.created
      BY <1>4, <2>1, <2>2 DEF Fields
    <2>4. /\ cmd'.routes = RoutesOf(journal, clients)
          /\ DOMAIN cmd'.routes = clients
      BY <1>4, <2>1, <2>2 DEF Fields, RoutesOf
    <2>5. cmd'.again => Repeats("install", ws, journal, request)
      BY <1>4, <2>1, <2>2 DEF Fields
    <2>6. AsPlanned'
      <3>1. Selected(request)' = clients  BY <1>2, <2>1, SelectedSame
      <3>2. journal = None => clients \subseteq DOMAIN p.plan.of[ws].journals
        <4>1. IsConfig(Base(ws)) /\ ws \in DOMAIN Base(ws).of
          BY <1>4, ProspectiveIsConfig DEF Typed, Base
        <4>2. p.plan = WithSpace(Base(ws), ws, RoutedIn(Base(ws), ws, journal, clients))
          BY <2>1, PlannedPlan
        <4>3. QED  BY <4>1, <4>2, PlannedConfig
      <3>3. QED  BY <2>3, <2>4, <3>1, <3>2 DEF AsPlanned
    <2>7. AgainIsInstalled'
      <3> SUFFICES ASSUME Repeats("install", ws, journal, request)
                   PROVE  /\ ~ Stale'
                          /\ manifest = ManifestOf(Server(ws, journal), p.created)
                          /\ hooks = ManifestOf(Server(ws, journal), {})
                          /\ \A f \in clients \union {Guide} : Written(f, ws, RoutesOf(journal, clients))'
        BY <1>2, <2>3, <2>4, <2>5 DEF AgainIsInstalled, ManifestOf, Server, Written
      <3>1. /\ last.op = "install" /\ last.how = "done" /\ ~ last.met
            /\ last.ws = ws /\ last.journal = journal /\ last.request = request
        BY DEF Repeats
      <3>2. Installed(ws, journal, request)
        BY <1>1, <3>1 DEF Repeated, LastIsInstalled
      <3>3. ~ p.changed /\ p.created = manifest.created  BY <2>1, <3>2, PlanAgain
      <3>4. config.state = "whole"  BY <3>2 DEF Installed, Routed
      <3>5. ~ Stale'  BY <1>2, <2>3, <3>3, <3>4 DEF Stale
      <3>6. \A f \in clients \union {Guide} : Written(f, ws, RoutesOf(journal, clients))
        BY <2>1, <3>2 DEF Installed
      <3>7. QED  BY <1>2, <3>2, <3>3, <3>5, <3>6, WrittenSame DEF Installed
    <2>8. cmd' # Idle  BY <2>3, IdleIsTyped DEF None
    <2>9. QED  BY <2>6, <2>7, <2>8, LastIsOther DEF Repeated
  <1>5. ASSUME NEW ws \in Workspaces, NEW journal \in {None, "canonical"}, NEW request,
               BeginInstall(ws, journal, request)
        PROVE  Repeated'
    <2>1. CASE Refuse("install", ws, journal, request)  BY <1>3, <2>1
    <2>2. CASE ~ Refuse("install", ws, journal, request)
      <3>1. /\ config.state = "absent" \/ (config.state = "whole" /\ ws \in DOMAIN config.of)
            /\ cmd' = [Planned(ws, journal, request) EXCEPT
                         !.again = Repeats("install", ws, journal, request)]
        BY <1>5, <2>2, FilesTyped DEF BeginInstall
      <3>2. QED  BY <1>4, <3>1
    <2>3. QED  BY <2>1, <2>2
  <1>6. ASSUME NEW request, BeginUninstall(request) PROVE Repeated'
    <2>1. CASE Refuse("uninstall", None, None, request)  BY <1>3, <2>1
    <2>2. CASE ~ Refuse("uninstall", None, None, request)
      <3>1. cmd'.op = "uninstall"  BY ZenonT(60), <1>6, <2>2 DEF BeginUninstall, Idle
      <3>2. ~ Installing' /\ cmd' # Idle  BY <3>1, IdleIsTyped DEF Installing, None
      <3>3. QED  BY <3>2, NotInstalling, LastIsOther DEF Repeated
    <2>3. QED  BY <2>1, <2>2
  <1>7. QED  BY <1>5, <1>6

LEMMA ConfigRepeats ==
    ASSUME Typed, Serving, Repeated, TruncateConfig \/ WriteConfig \/ RefreshRoutes PROVE Repeated'
  <1>1. /\ UNCHANGED <<file, dirs, manifest, hooks, spoilt>> /\ Installing
        /\ cmd.at \in Before
    BY DEF TruncateConfig, WriteConfig, RefreshRoutes, Keep, Installing, Disk, Before
  <1>2. /\ UNCHANGED <<cmd.op, cmd.ws, cmd.journal, cmd.request, cmd.plan, cmd.routes, cmd.left,
                       cmd.met, cmd.created, cmd.again>>
        /\ cmd'.at \in Before \union {"manifest"}
    BY CmdFields DEF TruncateConfig, WriteConfig, RefreshRoutes, Go, Fields, Before
  <1>3. cmd' # Idle  BY <1>1, <1>2, IdleIsTyped DEF Installing, None
  <1>4. LastIsInstalled'  BY <1>3, LastIsOther
  <1>5. AsPlanned'
    <2> SUFFICES ASSUME ~ cmd.met PROVE AsPlanned'
      BY <1>2 DEF AsPlanned
    <2>1. /\ Selected(cmd.request) \subseteq DOMAIN cmd.routes
          /\ cmd.journal = None => DOMAIN cmd.routes \subseteq DOMAIN cmd.plan.of[cmd.ws].journals
          /\ cmd.left = DOMAIN cmd.routes
      BY <1>1 DEF Repeated, AsPlanned, Before
    <2>2. PICK r : r = cmd.request  OBVIOUS
    <2>3. Selected(cmd.request)' = Selected(r)
      BY <1>1, <1>2, <2>2, SelectedSame
    <2>4. ASSUME cmd'.at = "manifest" PROVE Routed(cmd.ws, cmd.journal, DOMAIN cmd.routes)'
      <3>1. RefreshRoutes
        BY <2>4, CmdFields DEF TruncateConfig, WriteConfig, RefreshRoutes, Go, Fields
      <3>2. cmd.at = "config" /\ config.state # "absent" /\ ~ cmd.changed /\ UNCHANGED config
        BY <3>1 DEF RefreshRoutes, Stale, Disk
      <3>3. config.state = "whole" /\ cmd.ws \in DOMAIN config.of
            /\ config.of[cmd.ws] = cmd.plan.of[cmd.ws]
        BY <1>1, <3>2 DEF Serving, Follows
      <3>4. QED  BY <1>2, <2>1, <3>2, <3>3 DEF Routed
    <2>5. QED
      BY <1>2, <2>1, <2>2, <2>3, <2>4 DEF AsPlanned, Before
  <1>6. AgainIsInstalled'
    <2> SUFFICES ASSUME cmd.again, ~ cmd.met PROVE AgainIsInstalled'
      BY <1>2 DEF AgainIsInstalled
    <2>1. /\ cmd.at = "config" /\ ~ Stale
          /\ manifest = ManifestOf(Server(cmd.ws, cmd.journal), cmd.created)
          /\ hooks = ManifestOf(Server(cmd.ws, cmd.journal), {})
          /\ \A f \in cmd.left \union {Guide} : Written(f, cmd.ws, cmd.routes)
      BY <1>1 DEF Repeated, AgainIsInstalled, Before
    <2>2. cmd'.at = "manifest"
      BY <2>1, CmdFields DEF TruncateConfig, WriteConfig, RefreshRoutes, Fields
    <2>3. PICK ws, routes : ws = cmd.ws /\ routes = cmd.routes  OBVIOUS
    <2>4. \A f \in cmd.left \union {Guide} : Written(f, ws, routes)'
      BY <1>1, <2>1, <2>3, WrittenSame
    <2>5. \A f \in cmd'.left \union {Guide} : Written(f, cmd.ws, cmd.routes)'
      BY <1>2, <2>3, <2>4 DEF Written
    <2>6. QED
      BY <1>1, <1>2, <2>1, <2>2, <2>5 DEF AgainIsInstalled, ManifestOf, Server
  <1>7. QED  BY <1>4, <1>5, <1>6 DEF Repeated

LEMMA ManifestsRepeat == ASSUME Typed, Repeated, WriteManifests PROVE Repeated'
  <1>1. /\ UNCHANGED <<config, file, dirs>> /\ Installing /\ cmd.at \in {"manifest", "hooks"}
    BY DEF WriteManifests, Keep, Installing
  <1>2. /\ UNCHANGED <<cmd.op, cmd.ws, cmd.journal, cmd.request, cmd.plan, cmd.routes, cmd.left,
                       cmd.met, cmd.created, cmd.again>>
        /\ cmd'.at = IF cmd.at = "manifest" THEN "hooks" ELSE "files"
    BY CmdFields DEF WriteManifests, Go, Fields
  <1>3. /\ manifest' = (IF cmd.at = "manifest" THEN ManifestOf(Server(cmd.ws, cmd.journal), cmd.created)
                        ELSE manifest)
        /\ hooks' = (IF cmd.at = "hooks" THEN ManifestOf(Server(cmd.ws, cmd.journal), {}) ELSE hooks)
    BY DEF WriteManifests
  <1>4. cmd' # Idle  BY <1>1, <1>2, IdleIsTyped DEF Installing, None
  <1>5. LastIsInstalled'  BY <1>4, LastIsOther
  <1>6. AsPlanned'
    <2> SUFFICES ASSUME ~ cmd.met PROVE AsPlanned'
      BY <1>2 DEF AsPlanned
    <2>1. /\ Selected(cmd.request) \subseteq DOMAIN cmd.routes
          /\ cmd.journal = None => DOMAIN cmd.routes \subseteq DOMAIN cmd.plan.of[cmd.ws].journals
          /\ cmd.left = DOMAIN cmd.routes
          /\ Routed(cmd.ws, cmd.journal, DOMAIN cmd.routes)
          /\ cmd.at = "hooks" => manifest = ManifestOf(Server(cmd.ws, cmd.journal), manifest.created)
      BY <1>1 DEF Repeated, AsPlanned
    <2>2. PICK r : r = cmd.request  OBVIOUS
    <2>3. Selected(cmd.request)' = Selected(r)
      BY <1>1, <1>2, <2>2, SelectedSame
    <2>4. Routed(cmd.ws, cmd.journal, DOMAIN cmd.routes)'  BY <1>1, <1>2, <2>1 DEF Routed
    <2>5. manifest' = ManifestOf(Server(cmd.ws, cmd.journal), manifest'.created)
      BY <1>1, <1>3, <2>1 DEF ManifestOf
    <2>6. cmd'.at = "files" => hooks' = ManifestOf(Server(cmd.ws, cmd.journal), {})
      BY <1>1, <1>2, <1>3
    <2>7. QED
      BY <1>2, <2>1, <2>2, <2>3, <2>4, <2>5, <2>6 DEF AsPlanned, ManifestOf, Server
  <1>7. AgainIsInstalled'
    <2> SUFFICES ASSUME cmd.again, ~ cmd.met PROVE AgainIsInstalled'
      BY <1>2 DEF AgainIsInstalled
    <2>1. /\ manifest = ManifestOf(Server(cmd.ws, cmd.journal), cmd.created)
          /\ hooks = ManifestOf(Server(cmd.ws, cmd.journal), {})
          /\ \A f \in cmd.left \union {Guide} : Written(f, cmd.ws, cmd.routes)
      BY <1>1 DEF Repeated, AgainIsInstalled
    <2>2. UNCHANGED <<manifest, hooks>>  BY <1>3, <2>1
    <2>3. PICK ws, routes : ws = cmd.ws /\ routes = cmd.routes  OBVIOUS
    <2>4. \A f \in cmd.left \union {Guide} : Written(f, ws, routes)'
      BY <1>1, <2>1, <2>3, WrittenSame
    <2>5. \A f \in cmd'.left \union {Guide} : Written(f, cmd.ws, cmd.routes)'
      BY <1>2, <2>3, <2>4 DEF Written
    <2>6. QED
      BY <1>1, <1>2, <2>1, <2>2, <2>5 DEF AgainIsInstalled, ManifestOf, Server
  <1>8. QED  BY <1>5, <1>6, <1>7 DEF Repeated

LEMMA InstallFileRepeats == ASSUME Typed, Reading, Repeated, InstallFile PROVE Repeated'
  <1>1. PICK f : f = Current  OBVIOUS
  <1>2. Installing /\ cmd.at = "files"  BY DEF InstallFile, Installing
  <1>3. /\ f \in cmd.left \union {Guide} /\ f \in Files /\ (f = Guide => cmd.left = {})
        /\ file' = [file EXCEPT ![f] = Merged(cmd.read, Wanted(f))]
        /\ dirs' = dirs \union ({f} \ {"claude", Guide})
        /\ UNCHANGED <<config, manifest, hooks>>
        /\ f = Guide => Ended("done")
        /\ f # Guide => UNCHANGED last /\ UNCHANGED Kept /\ cmd'.left = cmd.left \ {f}
    BY <1>1, InstallFileDoes
  <1>4. PICK ws, routes, r, j :
          ws = cmd.ws /\ routes = cmd.routes /\ r = cmd.request /\ j = cmd.journal
    OBVIOUS
  <1>5. /\ \A g \in Files : g # f => file'[g] = file[g]
        /\ file'[f].there /\ file'[f].texo = Wanted(f)
    BY <1>3, FilesTyped DEF Merged, FileOf
  <1>6. Written(f, ws, routes)'
    BY <1>3, <1>4, <1>5 DEF Written, Wanted, Server
  <1>7. ASSUME NEW g \in Files, Written(g, ws, routes) PROVE Written(g, ws, routes)'
    <2>1. CASE g = f  BY <1>6, <2>1
    <2>2. CASE g # f  BY <1>3, <1>5, <1>7, <2>2 DEF Written, Server
    <2>3. QED  BY <2>1, <2>2
  <1>8. Selected(r)' \subseteq Selected(r) \union {f}
    <2>1. \A c \in Clients : file'[c].there => file[c].there \/ c = f
      BY <1>5 DEF Files
    <2>2. dirs' \subseteq dirs \union {f}  BY <1>3
    <2>3. QED  BY <2>1, <2>2, SelectedGrows
  <1>9. Selected(r)' \subseteq Clients  BY DEF Selected
  <1>10. ~ cmd.met =>
          /\ Selected(r) \subseteq DOMAIN routes
          /\ Routed(ws, j, DOMAIN routes)
          /\ manifest = ManifestOf(Server(ws, j), manifest.created)
          /\ hooks = ManifestOf(Server(ws, j), {})
          /\ \A g \in DOMAIN routes \ cmd.left : Written(g, ws, routes)
          /\ j = None => DOMAIN routes \subseteq DOMAIN cmd.plan.of[ws].journals
    BY <1>2, <1>4 DEF Repeated, AsPlanned
  <1>11. /\ DOMAIN routes \subseteq Clients /\ cmd.left \subseteq DOMAIN routes
        /\ \A c \in DOMAIN routes : routes[c] = IF j = None THEN c ELSE j
    BY <1>2, <1>4 DEF Typed, CommandIsTyped, Plans
  <1>12. CASE f = Guide
    <2>1. /\ cmd' = Idle /\ last'.op = cmd.op /\ last'.how = "done" /\ (last'.met <=> cmd.met)
          /\ last'.ws = ws /\ last'.journal = j /\ last'.request = r
      BY <1>3, <1>4, <1>12 DEF Ended
    <2>2. ~ Installing'  BY <2>1, IdleInstalls
    <2>3. LastIsInstalled'
      <3> SUFFICES ASSUME ~ cmd.met PROVE Installed(last.ws, last.journal, last.request)'
        BY <2>1 DEF LastIsInstalled
      <3>1. PICK sel : sel = Selected(r)'  OBVIOUS
      <3>2. sel \subseteq DOMAIN routes
        BY <1>8, <1>9, <1>10, <1>12, <3>1, ClientsAreNamed
      <3>3. Routed(ws, j, sel)'  BY <1>3, <1>10, <3>2 DEF Routed
      <3>4. ASSUME NEW g \in sel \union {Guide} PROVE Written(g, ws, RoutesOf(j, sel))'
        <4>1. Written(g, ws, routes)'
          <5>1. CASE g = Guide  BY <1>6, <1>12, <5>1
          <5>2. CASE g # Guide
            <6>1. g \in DOMAIN routes /\ cmd.left = {}
              BY <1>3, <1>12, <3>2, <3>4, <5>2
            <6>2. g \in Files  BY <1>11, <6>1 DEF Files
            <6>3. QED  BY <1>7, <1>10, <6>1, <6>2
          <5>3. QED  BY <5>1, <5>2
        <4>2. g # Guide => RoutesOf(j, sel)[g] = routes[g]
          BY <1>11, <3>2, <3>4 DEF RoutesOf
        <4>3. QED  BY <4>1, <4>2 DEF Written
      <3>5. manifest' = ManifestOf(Server(ws, j), manifest'.created)
            /\ hooks' = ManifestOf(Server(ws, j), {})
        BY <1>3, <1>10
      <3>6. Selected(last.request)' = sel  BY <2>1, <3>1 DEF Selected, Detected
      <3>7. Routed(last.ws, last.journal, sel)'  BY <2>1, <3>3 DEF Routed
      <3>8. \A g \in sel \union {Guide} :
               Written(g, last.ws, RoutesOf(last.journal, sel))'
        BY <2>1, <3>4 DEF Written, RoutesOf, Server
      <3>9. QED
        BY <2>1, <3>5, <3>6, <3>7, <3>8 DEF Installed, ManifestOf, Server
    <2>4. QED  BY <2>2, <2>3, NotInstalling DEF Repeated
  <1>13. CASE f # Guide
    <2>1. /\ cmd'.op = cmd.op /\ cmd'.at = cmd.at /\ cmd'.ws = ws /\ cmd'.journal = j
          /\ cmd'.request = r /\ cmd'.plan = cmd.plan /\ cmd'.routes = routes
          /\ cmd'.left = cmd.left \ {f}
      BY <1>3, <1>4, <1>13 DEF Kept
    <2>2. /\ cmd'.created = cmd.created
          /\ cmd'.met <=> cmd.met
          /\ cmd'.again <=> cmd.again
      BY <1>3, <1>13 DEF Kept
    <2>3. cmd' # Idle  BY <1>2, <2>1, IdleIsTyped DEF Installing, None
    <2>4. LastIsInstalled'  BY <2>3, LastIsOther
    <2>5. f \in DOMAIN routes /\ f \in cmd.left  BY <1>3, <1>11, <1>13
    <2>6. AsPlanned'
      <3> SUFFICES ASSUME ~ cmd.met PROVE AsPlanned'
        BY <2>2 DEF AsPlanned
      <3>1. Selected(cmd.request)' \subseteq DOMAIN routes
        <4>1. Selected(cmd.request)' = Selected(r)'  BY <2>1 DEF Selected, Detected
        <4>2. QED  BY <1>8, <1>10, <2>5, <4>1
      <3>2. Routed(cmd.ws, cmd.journal, DOMAIN cmd.routes)'
        BY <1>3, <1>10, <2>1 DEF Routed
      <3>3. ASSUME NEW g \in DOMAIN routes \ cmd'.left
            PROVE  Written(g, ws, routes)'
        <4>1. g = f \/ g \in DOMAIN routes \ cmd.left  BY <2>1, <3>3
        <4>2. g \in Files  BY <1>11, <3>3 DEF Files
        <4>3. QED  BY <1>6, <1>7, <1>10, <4>1, <4>2
      <3>4. \A g \in DOMAIN cmd'.routes \ cmd'.left : Written(g, cmd.ws, cmd.routes)'
        BY <2>1, <3>3 DEF Written
      <3>5. QED
        BY <1>2, <1>3, <1>4, <1>10, <2>1, <3>1, <3>2, <3>4 DEF AsPlanned, ManifestOf, Server
    <2>7. AgainIsInstalled'
      <3> SUFFICES ASSUME cmd.again, ~ cmd.met PROVE AgainIsInstalled'
        BY <2>2 DEF AgainIsInstalled
      <3>1. /\ manifest = ManifestOf(Server(ws, j), cmd.created)
            /\ hooks = ManifestOf(Server(ws, j), {})
            /\ \A g \in cmd.left \union {Guide} : Written(g, ws, routes)
        BY <1>2, <1>4 DEF Repeated, AgainIsInstalled
      <3>2. \A g \in cmd.left \union {Guide} : g \in Files  BY FilesTyped DEF Files
      <3>3. \A g \in cmd'.left \union {Guide} : Written(g, ws, routes)'
        BY <1>7, <2>1, <3>1, <3>2
      <3>4. \A g \in cmd'.left \union {Guide} : Written(g, cmd.ws, cmd.routes)'
        BY <2>1, <3>3 DEF Written
      <3>5. QED
        BY <1>2, <1>3, <2>1, <2>2, <3>1, <3>4 DEF AgainIsInstalled, ManifestOf, Server
    <2>8. QED  BY <2>4, <2>6, <2>7 DEF Repeated
  <1>14. QED  BY <1>12, <1>13

LEMMA ReadRepeats == ASSUME Typed, Repeated, ReadToMerge \/ ReadToRemove PROVE Repeated'
  <1>1. PICK f : f = Current  OBVIOUS
  <1>2. /\ UNCHANGED <<config, file, dirs, manifest, hooks>> /\ cmd.at = "files"
        /\ Installing \/ Removing
        /\ \/ Ended("refused")
           \/ UNCHANGED last /\ UNCHANGED Kept /\ (Installing /\ ~ Removing => cmd'.left = cmd.left)
    BY <1>1, ReadDoes
  <1>3. CASE Ended("refused")  BY <1>3, EndedRepeats
  <1>4. CASE UNCHANGED Kept /\ (Installing /\ ~ Removing => cmd'.left = cmd.left)
    <2>1. /\ UNCHANGED <<cmd.op, cmd.at, cmd.ws, cmd.journal, cmd.request, cmd.plan, cmd.routes,
                         cmd.created>>
          /\ cmd'.met <=> cmd.met
          /\ cmd'.again <=> cmd.again
      BY <1>4 DEF Kept
    <2>2. cmd' # Idle  BY <1>2, <2>1, IdleIsTyped DEF Installing, Removing, None
    <2>3. LastIsInstalled'  BY <2>2, LastIsOther
    <2>4. CASE ~ Installing
      <3>1. ~ Installing'  BY <2>1, <2>4 DEF Installing
      <3>2. QED  BY <2>3, <3>1, NotInstalling DEF Repeated
    <2>5. CASE Installing
      <3>1. cmd'.left = cmd.left  BY <1>4, <2>5 DEF Installing, Removing
      <3>2. PICK ws, routes, r, j :
              ws = cmd.ws /\ routes = cmd.routes /\ r = cmd.request /\ j = cmd.journal
        OBVIOUS
      <3>3. \A g : Written(g, ws, routes) => Written(g, ws, routes)'
        BY <1>2, WrittenSame
      <3>4. AsPlanned'
        <4> SUFFICES ASSUME ~ cmd.met PROVE AsPlanned'  BY <2>1 DEF AsPlanned
        <4>1. /\ Selected(r) \subseteq DOMAIN routes
              /\ j = None => DOMAIN routes \subseteq DOMAIN cmd.plan.of[ws].journals
              /\ Routed(ws, j, DOMAIN routes)
              /\ manifest = ManifestOf(Server(ws, j), manifest.created)
              /\ hooks = ManifestOf(Server(ws, j), {})
              /\ \A g \in DOMAIN routes \ cmd.left : Written(g, ws, routes)
          BY <1>2, <2>5, <3>2 DEF Repeated, AsPlanned
        <4>2. Selected(r)' = Selected(r)  BY <1>2, SelectedSame
        <4>3. Selected(cmd.request)' = Selected(r)'  BY <2>1, <3>2 DEF Selected, Detected
        <4>4. Routed(cmd.ws, cmd.journal, DOMAIN cmd.routes)'
          BY <1>2, <2>1, <3>2, <4>1 DEF Routed
        <4>5. \A g \in DOMAIN cmd'.routes \ cmd'.left : Written(g, cmd.ws, cmd.routes)'
          BY <2>1, <3>1, <3>2, <3>3, <4>1 DEF Written
        <4>6. QED
          BY <1>2, <2>1, <3>2, <4>1, <4>2, <4>3, <4>4, <4>5 DEF AsPlanned, ManifestOf, Server
      <3>5. AgainIsInstalled'
        <4> SUFFICES ASSUME cmd.again, ~ cmd.met PROVE AgainIsInstalled'
          BY <2>1 DEF AgainIsInstalled
        <4>1. /\ manifest = ManifestOf(Server(ws, j), cmd.created)
              /\ hooks = ManifestOf(Server(ws, j), {})
              /\ \A g \in cmd.left \union {Guide} : Written(g, ws, routes)
          BY <2>5, <3>2 DEF Repeated, AgainIsInstalled
        <4>2. \A g \in cmd'.left \union {Guide} : Written(g, cmd.ws, cmd.routes)'
          BY <2>1, <3>1, <3>2, <3>3, <4>1 DEF Written
        <4>3. QED
          BY <1>2, <2>1, <3>2, <4>1, <4>2 DEF AgainIsInstalled, ManifestOf, Server
      <3>6. QED  BY <2>3, <3>4, <3>5 DEF Repeated
    <2>6. QED  BY <2>4, <2>5
  <1>5. QED  BY <1>2, <1>3, <1>4

LEMMA UninstallRepeats ==
    ASSUME Typed, RemoveFile \/ RemoveHooks \/ RemoveManifest \/ RewriteManifest PROVE Repeated'
  <1>1. cmd.op = "uninstall" /\ ~ Installing
    BY DEF RemoveFile, RemoveHooks, RemoveManifest, RewriteManifest, Installing
  <1>2. CASE \E how : Ended(how)  BY <1>1, <1>2, EndedRepeats
  <1>3. CASE ~ \E how : Ended(how)
    <2>1. cmd'.op = "uninstall"
      BY <1>1, <1>3, CmdFields DEF RemoveFile, RemoveHooks, RemoveManifest, RewriteManifest, Go, Fields
    <2>2. ~ Installing' /\ cmd' # Idle  BY <2>1, IdleIsTyped DEF Installing, None
    <2>3. QED  BY <2>2, NotInstalling, LastIsOther DEF Repeated
  <1>4. QED  BY <1>2, <1>3

LEMMA EditRepeats == ASSUME Typed, EditFile \/ EditOurs PROVE Repeated'
  <1>1. /\ cmd' = (IF cmd = Idle THEN Idle ELSE [cmd EXCEPT !.met = TRUE])
        /\ last' = [last EXCEPT !.met = TRUE]
    BY DEF EditFile, EditOurs, Edit
  <1>2. last'.met  BY <1>1 DEF Typed
  <1>3. ~ Installing' \/ cmd'.met  BY <1>1, IdleInstalls, CmdFields DEF Fields
  <1>4. QED  BY <1>2, <1>3, LastIsOther, NotInstalling DEF Repeated

LEMMA SameRepeats == ASSUME Repeated, UNCHANGED vars PROVE Repeated'
  <1>1. UNCHANGED <<config, file, dirs, manifest, hooks, cmd, last>>  BY DEF vars
  <1>2. AsPlanned'
    BY <1>1 DEF Repeated, AsPlanned, Installing, Selected, Detected, Routed, ManifestOf, Server, Written
  <1>3. LastIsInstalled'
    BY ZenonT(60), <1>1 DEF Repeated, LastIsInstalled, Idle, NoConfig, NoServer, Installed, Selected,
                Detected, Routed, RoutesOf, ManifestOf, Server, Written
  <1>4. AgainIsInstalled'
    BY <1>1 DEF Repeated, AgainIsInstalled, Installing, Stale, ManifestOf, Server, Written
  <1>5. QED  BY <1>2, <1>3, <1>4 DEF Repeated

LEMMA NextRepeated == Typed /\ Reading /\ Serving /\ Repeated /\ [Next]_vars => Repeated'
  <1> SUFFICES ASSUME Typed, Reading, Serving, Repeated, [Next]_vars PROVE Repeated'  OBVIOUS
  <1>1. CASE \/ \E ws \in Workspaces, journal \in {None, "canonical"}, request \in Requests :
                  BeginInstall(ws, journal, request)
             \/ \E request \in Requests : BeginUninstall(request)
    BY <1>1, BeginRepeats
  <1>2. CASE RefreshFails \/ Crash
    BY <1>2, EndedRepeats DEF RefreshFails, Crash
  <1>3. CASE Texo /\ ~ RefreshFails
    BY <1>3, ConfigRepeats, ManifestsRepeat, InstallFileRepeats, ReadRepeats, UninstallRepeats
    DEF Texo
  <1>4. CASE EditFile \/ EditOurs  BY <1>4, EditRepeats
  <1>5. CASE UNCHANGED vars  BY <1>5, SameRepeats
  <1>6. QED  BY <1>1, <1>2, <1>3, <1>4, <1>5 DEF Next

(* The file that holds the wanted entry is written as it is.               *)
LEMMA MergedAgain ==
    ASSUME NEW text \in FileRecords, text.there, NEW wanted, text.texo = wanted
    PROVE  Merged(text, wanted) = text
  BY DEF FileRecords, Merged, FileOf

LEMMA AgainWritesTheSame ==
    ASSUME Typed, Reading, Repeated, Installing, cmd.again, ~ cmd.met, Texo
    PROVE  UNCHANGED Disk
  <1>1. /\ cmd.at \notin {"created", "saved"}
        /\ cmd.at = "config" => ~ Stale
        /\ manifest = ManifestOf(Server(cmd.ws, cmd.journal), cmd.created)
        /\ hooks = ManifestOf(Server(cmd.ws, cmd.journal), {})
        /\ \A f \in cmd.left \union {Guide} : Written(f, cmd.ws, cmd.routes)
    BY DEF Repeated, AgainIsInstalled
  <1>2. CASE TruncateConfig \/ WriteConfig  BY <1>1, <1>2 DEF TruncateConfig, WriteConfig
  <1>3. CASE RefreshRoutes \/ RefreshFails  BY <1>3 DEF RefreshRoutes, RefreshFails
  <1>4. CASE WriteManifests  BY <1>1, <1>4 DEF WriteManifests, Disk
  <1>5. CASE InstallFile
    <2>1. PICK f : f = Current  OBVIOUS
    <2>2. /\ cmd.read # Unread /\ f \in Files /\ f \in cmd.left \union {Guide}
          /\ file' = [file EXCEPT ![f] = Merged(cmd.read, Wanted(f))]
          /\ dirs' = dirs \union ({f} \ {"claude", Guide})
          /\ UNCHANGED <<config, manifest, hooks>>
      BY <1>5, <2>1, InstallFileDoes
    <2>3. cmd.read = file[f]  BY <2>1, <2>2 DEF Reading
    <2>4. Written(f, cmd.ws, cmd.routes)  BY <1>1, <2>2
    <2>5. Merged(cmd.read, Wanted(f)) = file[f]
      BY <2>2, <2>3, <2>4, FilesTyped, MergedAgain DEF Written, Wanted
    <2>6. file' = file  BY <2>2, <2>5, FilesTyped
    <2>7. dirs' = dirs  BY <2>2, <2>4 DEF Written
    <2>8. QED  BY <2>2, <2>6, <2>7 DEF Disk
  <1>6. CASE ReadToMerge \/ ReadToRemove  BY <1>6 DEF ReadToMerge, ReadToRemove
  <1>7. CASE RemoveFile \/ RemoveHooks \/ RemoveManifest \/ RewriteManifest
    BY <1>7 DEF RemoveFile, RemoveHooks, RemoveManifest, RewriteManifest, Installing
  <1>8. QED  BY <1>2, <1>3, <1>4, <1>5, <1>6, <1>7 DEF Texo

(* An installation that repeats the last command, completed and not met by *)
(* an edit since, changes neither a file of the user nor one of Texo.      *)
THEOREM ReinstallIsIdempotent == Spec => ReinstallChangesNothing
  <1>1. Init => Typed /\ Reading /\ Serving /\ Repeated
    BY InitTyped, InitReads, InitServes, InitRepeated
  <1>2. Typed /\ Reading /\ Serving /\ Repeated /\ [Next]_vars
          => (Typed /\ Reading /\ Serving /\ Repeated)'
    BY NextTyped, NextReading, NextServes, NextRepeated
  <1>3. Typed /\ Reading /\ Serving /\ Repeated /\ [Next]_vars
          => [(cmd.op = "install" /\ cmd.again /\ ~ cmd.met /\ Texo) => UNCHANGED Disk]_vars
    BY AgainWritesTheSame DEF Installing
  <1>4. QED  BY <1>1, <1>2, <1>3, PTL DEF Spec, ReinstallChangesNothing
=============================================================================

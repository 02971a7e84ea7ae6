-------------------------------- MODULE Host --------------------------------
(***************************************************************************)
(* The opening of a workspace (src/host/mod.rs): a process reads the       *)
(* configuration, resolves one journal of its topology and opens it, as    *)
(* the one writer if it is canonical and read-only if it is a replica.     *)
(* The configuration may be edited while journals are open.                *)
(***************************************************************************)
EXTENDS Topology, FiniteSets

CONSTANTS Processes,
          Configs,          \* name of a configuration file -> its workspace
          DefaultConfig,    \* WorkspaceEntry::for_id, which init writes
          Selections,       \* the journals that a command may select, or None
          FirstConfigs,     \* the configuration at first
          MaxVersion,       \* events of a journal
          MaxEdits          \* edits of the configuration

ASSUME HostAssumption ==
    /\ DefaultConfig \in DOMAIN Configs
    /\ Resolves(Configs[DefaultConfig], None)
    /\ FirstConfigs \subseteq DOMAIN Configs \union {"missing"}
    /\ MaxVersion \in Nat /\ MaxEdits \in Nat

(* WorkspaceEntry, JournalEntry and JournalRole: what a file can say        *)
ASSUME ConfigsAssumption ==
    /\ None \notin Processes
    /\ \A c \in DOMAIN Configs :
         LET space == Configs[c] IN
         /\ space = [primary |-> space.primary, journals |-> space.journals]
         /\ \A j \in DOMAIN space.journals :
              LET entry == space.journals[j] IN
              /\ entry.role \in {"canonical", "replica"}
              /\ entry = EntryOf(entry.role, entry.path, entry.source, entry.mode,
                                 entry.remote)

VARIABLES config,           \* a name, "missing", or "torn" (not parsable)
          version,          \* store path -> events in the journal there
          lock,             \* store path -> the process that writes to it
          host,             \* what a process has open
          edits

hostVars == <<config, version, lock, host, edits>>

Paths == UNION {{Configs[c].journals[j].path : j \in DOMAIN Configs[c].journals} :
                    c \in DOMAIN Configs}

HostOf(role, path, doing) == [role |-> role, path |-> path, doing |-> doing]
Closed == HostOf(None, << >>, None)

(* TexoRootConfig::load, resolve_journal                                   *)
Loads(c, selected) == c \in DOMAIN Configs /\ Resolves(Configs[c], selected)
JournalOf(c, selected) ==
    Configs[c].journals[Selects(Configs[c].primary, selected)]

(* The defaults stand in for a file that is not there.                     *)
LoadOrDefault == IF config = "missing" THEN DefaultConfig ELSE config

(* A canonical journal has one writer at a time; a reader needs no lock.   *)
CanOpen(entry) == entry.role = "canonical" => lock[entry.path] = None

(* The guard texo.journal-role.v1, and JournalStore::writer behind it      *)
Admits(role, writes) == ~ (role = "replica" /\ writes)
HasWriter(role) == role = "canonical"

HostTypeOK ==
    /\ config \in DOMAIN Configs \union {"missing", "torn"}
    /\ version \in [Paths -> 0..MaxVersion]
    /\ lock \in [Paths -> Processes \union {None}]
    /\ \A p \in Processes :
         \/ host[p] = Closed
         \/ /\ host[p].path \in Paths
            /\ host[p].role \in {"canonical", "replica"}
            /\ host[p].doing \in {"serving", "init", "truncated"}
    /\ edits \in 0..MaxEdits

HostInit ==
    /\ config \in FirstConfigs
    /\ version = [path \in Paths |-> 0]
    /\ lock = [path \in Paths |-> None]
    /\ host = [p \in Processes |-> Closed]
    /\ edits = 0

(* TexoHost::open and open_journal, and open_for_init for texo init        *)
OpenHost(p, selected, doing) ==
    LET entry == JournalOf(LoadOrDefault, selected) IN
    /\ host[p] = Closed
    /\ Loads(LoadOrDefault, selected)
    /\ CanOpen(entry)
    /\ host' = [host EXCEPT ![p] = HostOf(entry.role, entry.path, doing)]
    /\ lock' = IF entry.role = "canonical"
               THEN [lock EXCEPT ![entry.path] = p] ELSE lock
    /\ UNCHANGED <<config, version, edits>>

(* An operation that appends one event                                     *)
Append(p) ==
    LET path == host[p].path IN
    /\ Admits(host[p].role, TRUE)
    /\ HasWriter(host[p].role)
    /\ version[path] < MaxVersion
    /\ version' = [version EXCEPT ![path] = @ + 1]

Invoke(p) ==
    /\ host[p].doing = "serving"
    /\ Append(p)
    /\ UNCHANGED <<config, lock, host, edits>>

Unlocked(p) == [path \in Paths |-> IF lock[path] = p THEN None ELSE lock[path]]

CloseHost(p) ==
    /\ host[p].doing = "serving"
    /\ host' = [host EXCEPT ![p] = Closed]
    /\ lock' = Unlocked(p)
    /\ UNCHANGED <<config, version, edits>>

(* workspace_init reads the file again, writes it in place, and appends.   *)
TruncateMissing(p) ==
    /\ host[p].doing = "init"
    /\ config = "missing"
    /\ config' = "torn"
    /\ host' = [host EXCEPT ![p].doing = "truncated"]
    /\ UNCHANGED <<version, lock, edits>>

InitWorkspace(p) ==
    /\ \/ host[p].doing = "init" /\ config \in DOMAIN Configs /\ config' = config
       \/ host[p].doing = "truncated" /\ config' = DefaultConfig
    /\ Append(p)
    /\ host' = [host EXCEPT ![p] = Closed]
    /\ lock' = Unlocked(p)
    /\ UNCHANGED edits

(* The file is there and does not parse: nothing is written.               *)
InitFails(p) ==
    /\ host[p].doing = "init"
    /\ config = "torn"
    /\ host' = [host EXCEPT ![p] = Closed]
    /\ lock' = Unlocked(p)
    /\ UNCHANGED <<config, version, edits>>

(* The user, or another command, changes the configuration.                *)
EditConfig ==
    /\ edits < MaxEdits
    /\ edits' = edits + 1
    /\ config' \in (DOMAIN Configs \union {"torn"}) \ {config}
    /\ UNCHANGED <<version, lock, host>>
=============================================================================

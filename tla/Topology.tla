------------------------------ MODULE Topology ------------------------------
(***************************************************************************)
(* The journals of a workspace (src/topology.rs): one physical BatPak      *)
(* directory each, canonical or a replica of another one.  A topology is a *)
(* function from journal ids to entries.                                   *)
(***************************************************************************)
EXTENDS Naturals

None == "none"

(* JournalEntry.  A source endpoint and its token variable are one field:  *)
(* None, "private" (both given and well formed) or "unfit" (one of the two *)
(* missing, a public address, or no variable name).                        *)
EntryOf(role, path, source, mode, remote) ==
    [role |-> role, path |-> path, source |-> source, mode |-> mode, remote |-> remote]

Canonical(path) == EntryOf("canonical", path, None, None, None)

Replica(path, source, mode) == EntryOf("replica", path, source, mode, None)

(* validate_all, one journal *)
CanonicalIsPlain(entry) == entry.source = None /\ entry.mode = None /\ entry.remote = None

ReplicaIsFollowable(topology, id) ==
    LET entry == topology[id] IN
    /\ entry.source \in DOMAIN topology \ {id}
    /\ entry.mode # None
    /\ entry.remote # "unfit"
    /\ entry.remote # None => entry.mode # "fork"

(* The walk along the sources ends: no journals follow each other round.   *)
Acyclic(topology) ==
    ~ \E round \in SUBSET DOMAIN topology \ {{}} :
        \A id \in round : topology[id].source \in round

Valid(topology) ==
    /\ DOMAIN topology # {}
    /\ \A i, j \in DOMAIN topology : topology[i].path = topology[j].path => i = j
    /\ \A id \in DOMAIN topology :
         /\ topology[id].path # << >>
         /\ topology[id].role = "canonical" => CanonicalIsPlain(topology[id])
         /\ topology[id].role = "replica" => ReplicaIsFollowable(topology, id)
    /\ Acyclic(topology)

(* resolve_journal: the selected journal, or the primary one, resolves     *)
Selects(primary, selected) == IF selected = None THEN primary ELSE selected

Resolves(space, selected) ==
    /\ space.primary \in DOMAIN space.journals
    /\ space.journals[space.primary].role = "canonical"
    /\ Valid(space.journals)
    /\ Selects(space.primary, selected) \in DOMAIN space.journals
=============================================================================

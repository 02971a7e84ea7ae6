--------------------------- MODULE MCWorkspaceCache ---------------------------
(* Constants of WorkspaceCache for TLC *)
EXTENDS WorkspaceCache, TLC

CONSTANT MaxShared  \* bound: length of the journal while several hosts are open

Symmetry == Permutations(Hosts)

BoundedSharing ==
  Len(journal) <= MaxShared \/ Cardinality({t \in Hosts : phase[t] # "closed"}) <= 1
=============================================================================

--------------------------- MODULE MCSnapshotReads ---------------------------
(* Constants of SnapshotReads for TLC *)
EXTENDS SnapshotReads

CONSTANTS c1, c2, code, s1

(* The better match is the claim recorded under the later identifier. *)
ByIdentifier == <<c1, c2>>
ByRank == <<code, c2, c1>>

(* A claim was ingested and its tree indexed. *)
Indexed == <<<<"recorded", c1>>, <<"source", s1>>, <<"index", s1>>>>
==============================================================================

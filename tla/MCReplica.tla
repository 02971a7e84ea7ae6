------------------------------- MODULE MCReplica -------------------------------
EXTENDS Replica

\* Exploration stops at a source with more than two events, ...
ShortSource == Len(source) <= 2

\* ... and at a refresh that is tried again after the source was replaced: one that has
\* not begun reads what it would read.
TriedAgainBefore == before # None => \A r \in Readers : op[r].attempt < 2
================================================================================

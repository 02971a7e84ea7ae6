------------------------------ MODULE MCKnowledge ------------------------------
EXTENDS Knowledge

CONSTANTS old, new, k1, k2, doc, code, blob, script, clean1, dirty1, clean3

\* Three commits in a line; the middle one is what a shallow clone lacks.
MCParent == <<1, 1, 2>>

MCPaths == <<doc, code, blob, script>>

File(size, says, lines) == [type |-> "regular", size |-> size, says |-> says, code |-> lines]

\* The newer wording replaces the old one in the document, and code is written for it.
First == doc :> File(1, {old}, <<>>) @@ code :> Absent @@ blob :> File(1, {}, <<>>)
           @@ script :> Absent
Third == doc :> File(1, {new}, <<>>) @@ code :> File(1, {}, <<k1, k2>>) @@ blob :> Absent
           @@ script :> Absent
MCHeadFiles == 1 :> First @@ 3 :> Third

\* Work on the first commit: new code, a file too large to take, and a script.
Work == [First EXCEPT ![code] = File(1, {}, <<k1>>), ![blob] = File(3, {}, <<>>),
                      ![script] = File(1, {}, <<>>)]

MCCheckout ==
  clean1 :> [commit |-> 1, index |-> First, files |-> First, unmerged |-> {}]
    @@ dirty1 :> [commit |-> 1, index |-> First, files |-> Work, unmerged |-> {}]
    @@ clean3 :> [commit |-> 3, index |-> Third, files |-> Third, unmerged |-> {}]

MCCuts == 1 :> {} @@ 3 :> {1}
MCClaimOrder == <<old, new>>
MCRanked == old :> <<k1>> @@ new :> <<k2, k1>>
MCReplaces == {<<new, old>>}

\* Exploration stops at a batch that more than four commands, itself included, and
\* changes led to.
BatchesComeEarly == pc = "model" => indexes + batches + edits + faults <= 4
================================================================================

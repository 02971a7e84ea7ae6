------------------------------ MODULE MCBackup -------------------------------
(* The default configuration; one whose primary journal is elsewhere while  *)
(* another has the default path; and one with a replica and a second         *)
(* canonical journal.                                                       *)
EXTENDS Backup, TLC

At1(name) == Canonical(<<name>>)
Plain == [primary |-> "canonical",
          journals |-> [j \in {"canonical"} |-> At1("default")]]
Shadowed == [primary |-> "canonical",
             journals |-> [j \in {"canonical", "codex"} |->
                IF j = "codex" THEN At1("default") ELSE At1("elsewhere")]]
Mirrored == [primary |-> "canonical",
             journals |-> [j \in {"canonical", "codex", "mirror"} |->
                CASE j = "codex" -> At1("other")
                  [] j = "mirror" -> Replica(<<"mirror">>, "canonical", "incremental")
                  [] OTHER -> At1("elsewhere")]]
MCConfigs == [c \in {"plain", "shadowed", "mirrored"} |->
                CASE c = "plain" -> Plain
                  [] c = "shadowed" -> Shadowed
                  [] OTHER -> Mirrored]
MCSymmetry == Permutations(Processes)
=============================================================================

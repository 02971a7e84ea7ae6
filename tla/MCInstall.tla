----------------------------- MODULE MCInstall ------------------------------
(* One workspace, a client with a JSON file and one with a marker block; a *)
(* hand-written configuration takes a reserved journal id.                  *)
EXTENDS Install

MCHandWritten ==
    {SpaceOf([j \in {"canonical", "codex"} |->
        IF j = "codex" THEN Canonical(<<"elsewhere">>) ELSE Canonical(<<"here">>)])}
MCRequests == {{}, {"all"}, {"claude"}}

(* A file with content of the user comes from an edit.                     *)
MCFirstFiles == {Absent, FileOf(None, NoServer)}
=============================================================================

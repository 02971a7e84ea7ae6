-------------------------------- MODULE Capture --------------------------------
(***************************************************************************)
(* What texo takes of a Git worktree (git_source::capture): the files of    *)
(* the commit HEAD names, and over them every path status reports, within  *)
(* the limits of the command.                                              *)
(*                                                                         *)
(* The commit is resolved once, first; its files come from the object       *)
(* database and cannot change.  Index and files are read after it, so a     *)
(* capture is of a commit and of a worktree that may have moved on.         *)
(***************************************************************************)
EXTENDS Integers, SequencesExt, FiniteSetsExt, Lists

CONSTANTS
  Paths,      \* of the repository's files, in order
  Scoped,     \* paths of a kind texo reads
  Bare,       \* paths without an extension
  HeadFiles,  \* the files of each commit, by path
  Checkout,   \* of each worktree: commit, index and files by path, unmerged paths
  MaxFiles, MaxFileBytes, MaxTotalBytes  \* limits of a command

\* A file is what it is, its size, the claims made in it and the code it defines.
FileTypes == {"absent", "regular", "link", "lfs", "gitlink", "directory"}
Absent == [type |-> "absent", size |-> 0, says |-> {}, code |-> <<>>]

Commits == DOMAIN HeadFiles
Worktrees == DOMAIN Checkout

ASSUME PathsAssumption == Scoped \cup Bare \subseteq Range(Paths)
ASSUME CaptureLimitsAssumption == {MaxFiles, MaxFileBytes, MaxTotalBytes} \subseteq Nat \ {0}
ASSUME CheckoutAssumption ==
  \A w \in Worktrees :
    /\ Checkout[w].commit \in Commits
    /\ Checkout[w].unmerged \subseteq Range(Paths)
    /\ {DOMAIN Checkout[w].index, DOMAIN Checkout[w].files} = {Range(Paths)}

-----------------------------------------------------------------------------
(* The files taken so far, and what was left out and why. *)

Nothing == [sources |-> [p \in Range(Paths) |-> Absent], gaps |-> {}]

Gap(taken, p, kind) == [taken EXCEPT !.gaps = @ \cup {<<p, kind>>}]

Omit(taken, p) == [taken EXCEPT !.sources[p] = Absent]

Held(taken) == {p \in Range(Paths) : taken.sources[p] # Absent}

Bytes(sources, paths) == MapThenSumSet(LAMBDA p : sources[p].size, paths)

OverBudget(taken, p, file) ==
  LET rest == Held(taken) \ {p}
  IN \/ p \notin Held(taken) /\ Cardinality(rest) >= MaxFiles
     \/ Bytes(taken.sources, rest) + file.size > MaxTotalBytes

\* A file that is not taken takes the place of the committed one all the same.
Insert(taken, p, file) ==
  LET without(kind) == Gap(Omit(taken, p), p, kind)
  IN CASE file.type = "lfs" -> without("lfs pointer")
       [] file.type # "lfs" /\ file.size > MaxFileBytes -> without("too large")
       [] file.type # "lfs" /\ file.size <= MaxFileBytes ->
            IF OverBudget(taken, p, file) THEN without("budget")
            ELSE [taken EXCEPT !.sources[p] = file]

\* A file texo does not read is a gap if its name has no extension: it is most
\* likely a script.
OutOfScope(taken, p) == IF p \in Bare THEN Gap(taken, p, "out of scope") ELSE taken

AddCommitted(taken, p, file) ==
  CASE file = Absent -> taken
    [] file # Absent /\ p \notin Scoped -> OutOfScope(taken, p)
    [] file.type \in {"gitlink", "link"} /\ p \in Scoped -> Gap(taken, p, file.type)
    [] file.type \in {"regular", "lfs"} /\ p \in Scoped ->
         IF file.size > MaxFileBytes THEN Gap(taken, p, "too large")
         ELSE Insert(taken, p, file)

Committed(commit) ==
  LET taken[n \in 0..Len(Paths)] ==
        IF n = 0 THEN Nothing
        ELSE AddCommitted(taken[n - 1], Paths[n], HeadFiles[commit][Paths[n]])
  IN taken[Len(Paths)]

-----------------------------------------------------------------------------
(* The overlay: paths whose index entry or file is not the commit's. *)

Status(commit, w) ==
  {p \in Range(Paths) : Cardinality({HeadFiles[commit][p], Checkout[w].index[p],
                                     Checkout[w].files[p]}) > 1}

Overlaid(commit, w) ==
  {p \in Scoped : \/ p \in Checkout[w].unmerged
                  \/ p \in Status(commit, w) /\ Checkout[w].files[p].type # "directory"}

AddChanged(taken, p, file) ==
  CASE p \notin Scoped -> OutOfScope(taken, p)
    [] file = Absent /\ p \in Scoped -> Omit(taken, p)
    [] file.type = "link" /\ p \in Scoped -> Gap(Omit(taken, p), p, "link")
    [] file.type \in {"gitlink", "directory"} /\ p \in Scoped -> taken
    [] file.type \in {"regular", "lfs"} /\ p \in Scoped -> Insert(taken, p, file)

\* An unmerged path is left out, and is a gap whatever its kind.
AddUnmerged(taken, p) ==
  Gap(IF p \in Scoped THEN Omit(taken, p) ELSE taken, p, "conflict")

WithoutUnmerged(commit, w) ==
  LET taken[n \in 0..Len(Paths)] ==
        IF n = 0 THEN Committed(commit)
        ELSE IF Paths[n] \in Checkout[w].unmerged THEN AddUnmerged(taken[n - 1], Paths[n])
        ELSE taken[n - 1]
  IN taken[Len(Paths)]

Changed(commit, w) ==
  {p \in Status(commit, w) : p \in Scoped => p \notin Checkout[w].unmerged}

Captured(commit, w) ==
  LET taken[n \in 0..Len(Paths)] ==
        IF n = 0 THEN WithoutUnmerged(commit, w)
        ELSE IF Paths[n] \in Changed(commit, w)
             THEN AddChanged(taken[n - 1], Paths[n], Checkout[w].files[Paths[n]])
        ELSE taken[n - 1]
  IN taken[Len(Paths)]

\* What the overlay's digest covers of a path: its bytes, that it is gone, or only
\* why it was left out.
OverlayEntry(p, w) ==
  LET file == Checkout[w].files[p]
      LeftOut(why) == [Absent EXCEPT !.type = why]
  IN IF p \in Checkout[w].unmerged THEN LeftOut("conflict")
     ELSE IF file.type = "link" THEN LeftOut("link")
     ELSE IF file.size > MaxFileBytes THEN LeftOut("too large")
     ELSE file

\* What a snapshot's id is derived from, under one choice of limits.
Identity(commit, w) ==
  [commit |-> commit, index |-> Checkout[w].index,
   overlay |-> {<<p, OverlayEntry(p, w)>> : p \in Overlaid(commit, w)}]

\* Snapshots, each named by a commit and the first worktree that gives it.
Named ==
  [named \in Commits \X Worktrees |->
     CHOOSE t \in Commits \X Worktrees : Identity(t[1], t[2]) = Identity(named[1], named[2])]

SnapshotOf(commit, w) == Named[<<commit, w>>]

Trees == {SnapshotOf(commit, w) : commit \in Commits, w \in Worktrees}

DirtyTrees == {t \in Trees : Overlaid(t[1], t[2]) # {}}

\* The claims and the code of a snapshot's files.
SourcesOf == [t \in Trees |-> Captured(t[1], t[2]).sources]
TextOf == [t \in Trees |-> UNION {SourcesOf[t][p].says : p \in Range(Paths)}]
CodeOf == [t \in Trees |-> Joined([i \in DOMAIN Paths |-> SourcesOf[t][Paths[i]].code])]

\* What a capture of a worktree leaves out, and why.
GapsIn == [w \in Worktrees |-> Captured(Checkout[w].commit, w).gaps]
GapsOf == [w \in Worktrees |-> {gap[2] : gap \in GapsIn[w]}]
Skipped == [w \in Worktrees |-> {gap[1] : gap \in GapsIn[w]}]

================================================================================

---------------------------- MODULE Backup_proofs -----------------------------
(***************************************************************************)
(* What texo backup promises, for every number of processes, destinations, *)
(* roots and commands and every set of configurations, beside processes    *)
(* that serve and an operator who edits, with crashes and failures: it     *)
(* keeps what is there, what create reports verifies and is whole, and     *)
(* what restore publishes is what was taken.                               *)
(*                                                                         *)
(* The inductive invariant is built in layers, each proved from those      *)
(* before it: who owns a directory (IInv), the types (Typed), the locks of *)
(* the journals (HostInv), what a create has written and followed (Sound), *)
(* the identities of manifests (Ids), and what a restore reads (Restored). *)
(***************************************************************************)
EXTENDS Backup, TLAPS

(* Between the creation of its directory and its end, a create owns it.    *)
(* Two creates never own one destination: fs::create_dir fails for the     *)
(* second (backup/create.rs, BackupDestination).                           *)
OneMaker == \A p, q \in Processes, d \in Dirs : Making(p, d) /\ Making(q, d) => p = q

MadeIsThere ==
    \A p \in Processes, d \in Dirs : Making(p, d) => dir[d].there /\ "there" \in DOMAIN dir[d]

(* Before the directory is made the command does not own it; the steps     *)
(* that write to it come after.                                            *)
StepsOfCreate ==
    \A p \in Processes :
        /\ op[p].step \in {"open", "make"} => op[p].kind = "create" /\ ~ op[p].made
        /\ op[p].step \in {"snapshot", "config", "manifest"} => op[p].kind = "create" /\ op[p].made
        /\ op[p].kind = "create" => op[p].dest \in Dirs

Shape ==
    /\ DOMAIN op = Processes /\ DOMAIN dir = Dirs /\ DOMAIN root = Roots
    /\ \A p \in Processes : {"kind", "step", "dest", "made", "disturbed"} \subseteq DOMAIN op[p]

IInv == Shape /\ StepsOfCreate /\ MadeIsThere /\ OneMaker

Doing(p) == <<op[p].kind, op[p].step, op[p].dest, op[p].made>>

-----------------------------------------------------------------------------
(* Lemmas                                                                  *)

LEMMA IdleMakesNothing ==
    /\ Idle.kind = None /\ Idle.step = None /\ ~ Idle.made
    /\ {"kind", "step", "dest", "made", "disturbed"} \subseteq DOMAIN Idle
  BY DEF Idle

(* Nothing that matters here changes.                                      *)
LEMMA SameDoing ==
    ASSUME IInv, Shape', UNCHANGED dir, \A p \in Processes : Doing(p)' = Doing(p)
    PROVE  IInv'
  <1>1. \A p \in Processes, d \in Dirs : Making(p, d)' <=> Making(p, d)
    BY DEF Doing, Making
  <1>2. MadeIsThere' /\ OneMaker'  BY <1>1 DEF IInv, MadeIsThere, OneMaker
  <1>3. StepsOfCreate'  BY DEF IInv, StepsOfCreate, Doing
  <1>4. QED  BY <1>2, <1>3 DEF IInv

(* A command ends: it gives up its directory, and what it drops is its own.*)
LEMMA EndHolds ==
    ASSUME IInv, NEW p \in Processes, op' = Ended(p), dir' = dir \/ dir' = Dropped(p), UNCHANGED root
    PROVE  IInv'
  <1>1. \A q \in Processes : op'[q] = IF q = p THEN Idle ELSE op[q]
    BY DEF Ended, IInv, Shape
  <1>2. DOMAIN dir' = Dirs  BY DEF Dropped, IInv, Shape
  <1>3. Shape'  BY <1>1, <1>2, IdleMakesNothing DEF Ended, IInv, Shape
  <1>4. StepsOfCreate'  BY <1>1, IdleMakesNothing DEF IInv, StepsOfCreate, None
  <1>5. \A q \in Processes, d \in Dirs : Making(q, d)' => Making(q, d) /\ q # p
    BY <1>1, IdleMakesNothing DEF Making, None
  <1>6. OneMaker'  BY <1>5 DEF IInv, OneMaker
  <1>7. \A d \in Dirs : dir'[d] = dir[d] \/ Making(p, d)
    BY DEF Dropped, Making, IInv, Shape
  <1>8. MadeIsThere'  BY <1>5, <1>7 DEF IInv, MadeIsThere, OneMaker
  <1>9. QED  BY <1>3, <1>4, <1>6, <1>8 DEF IInv

(* A command begins: it owns no directory yet.                             *)
LEMMA BeginHolds ==
    ASSUME IInv, NEW p \in Processes, NEW record, op' = [op EXCEPT ![p] = record],
           UNCHANGED <<dir, root>>,
           {"kind", "step", "dest", "made", "disturbed"} \subseteq DOMAIN record,
           ~ record.made,
           \/ record.kind = "create" /\ record.step = "open" /\ record.dest \in Dirs
           \/ record.kind \in {"verify", "restore"} /\ record.step = "verify"
    PROVE  IInv'
  <1>1. \A q \in Processes : op'[q] = IF q = p THEN record ELSE op[q]
    BY DEF IInv, Shape
  <1>2. Shape'  BY <1>1 DEF IInv, Shape
  <1>3. StepsOfCreate'  BY <1>1 DEF IInv, StepsOfCreate
  <1>4. \A q \in Processes, d \in Dirs : Making(q, d)' => Making(q, d)
    BY <1>1 DEF Making
  <1>5. MadeIsThere' /\ OneMaker'  BY <1>4 DEF IInv, MadeIsThere, OneMaker
  <1>6. QED  BY <1>2, <1>3, <1>5 DEF IInv

(* A command goes from one step to a later one that touches no directory.  *)
LEMMA OnwardHolds ==
    ASSUME IInv, NEW p \in Processes, UNCHANGED <<dir, root>>, DOMAIN op' = Processes,
           \A q \in Processes \ {p} : op'[q] = op[q],
           {"kind", "step", "dest", "made", "disturbed"} \subseteq DOMAIN op'[p],
           op'[p].kind = op[p].kind, op'[p].dest = op[p].dest, op'[p].made = op[p].made,
           \/ op'[p].step \notin {"open", "make", "snapshot", "config", "manifest"}
           \/ op[p].step = "open" /\ op'[p].step = "make"
           \/ op[p].step \in {"snapshot", "config"} /\ op'[p].step \in {"config", "manifest"}
    PROVE  IInv'
  <1>1. \A q \in Processes, d \in Dirs : Making(q, d)' <=> Making(q, d)
    BY DEF Making
  <1>2. MadeIsThere' /\ OneMaker'  BY <1>1 DEF IInv, MadeIsThere, OneMaker
  <1>3. Shape'  BY DEF IInv, Shape
  <1>4. StepsOfCreate'  BY DEF IInv, StepsOfCreate
  <1>5. QED  BY <1>2, <1>3, <1>4 DEF IInv

-----------------------------------------------------------------------------
(* The steps                                                               *)

LEMMA InitHolds == Init => IInv
  <1> SUFFICES ASSUME Init PROVE IInv  OBVIOUS
  <1>1. \A p \in Processes : op[p] = Idle  BY DEF Init
  <1>2. Shape  BY <1>1, IdleMakesNothing DEF Init, Shape
  <1>3. QED  BY <1>1, <1>2, IdleMakesNothing
             DEF IInv, StepsOfCreate, MadeIsThere, OneMaker, Making, None

LEMMA NoticedHolds ==
    ASSUME IInv, Noticed, UNCHANGED <<dir, root>>
    PROVE  IInv'
  <1>1. DOMAIN op' = Processes  BY DEF Noticed
  <1>2. \A p \in Processes : op'[p] = op[p] \/ op'[p] = [op[p] EXCEPT !.disturbed = @ + 1]
    BY DEF Noticed
  <1>3. \A p \in Processes :
          /\ Doing(p)' = Doing(p)
          /\ {"kind", "step", "dest", "made", "disturbed"} \subseteq DOMAIN op'[p]
    BY ZenonT(60), <1>2 DEF Doing, IInv, Shape
  <1>4. Shape'  BY <1>1, <1>3 DEF IInv, Shape
  <1>5. QED  BY <1>3, <1>4, SameDoing

LEMMA BeginCommandHolds ==
    ASSUME IInv, NEW p \in Processes, NEW d \in Dirs,
           \/ BeginCreate(p, d)
           \/ \E pin \in Pins : BeginVerify(p, d, pin) \/ \E r \in Roots : BeginRestore(p, d, r, pin)
    PROVE  IInv'
  <1>1. CASE BeginCreate(p, d)
    <2> DEFINE record ==
          [Idle EXCEPT !.kind = "create", !.step = "open", !.dest = d, !.id = commands + 2,
                       !.path = JournalOf(config, None).path]
    <2>1. /\ {"kind", "step", "dest", "made", "disturbed"} \subseteq DOMAIN record
          /\ ~ record.made /\ record.kind = "create" /\ record.step = "open" /\ record.dest = d
      BY IdleMakesNothing DEF Idle
    <2>2. op' = [op EXCEPT ![p] = record] /\ UNCHANGED <<dir, root>>
      BY <1>1 DEF BeginCreate, Begin
    <2> HIDE DEF record
    <2>3. QED  BY <2>1, <2>2, BeginHolds
  <1>2. ASSUME NEW pin, NEW r, BeginVerify(p, d, pin) \/ BeginRestore(p, d, r, pin) PROVE IInv'
    <2> DEFINE verify == [Idle EXCEPT !.kind = "verify", !.step = "verify", !.dest = d, !.pin = pin]
               restore == [Idle EXCEPT !.kind = "restore", !.step = "verify", !.dest = d,
                                       !.root = r, !.pin = pin]
    <2>1. \A record \in {verify, restore} :
            /\ {"kind", "step", "dest", "made", "disturbed"} \subseteq DOMAIN record
            /\ ~ record.made /\ record.kind \in {"verify", "restore"} /\ record.step = "verify"
      BY ZenonT(60) DEF Idle
    <2>2. \/ op' = [op EXCEPT ![p] = verify]
          \/ op' = [op EXCEPT ![p] = restore]
      BY <1>2 DEF BeginVerify, BeginRestore, Begin
    <2>3. UNCHANGED <<dir, root>>  BY <1>2 DEF BeginVerify, BeginRestore
    <2> HIDE DEF verify, restore
    <2>4. QED  BY <2>1, <2>2, <2>3, BeginHolds
  <1>3. QED  BY <1>1, <1>2

LEMMA MakeDirectoryHolds == ASSUME IInv, NEW p \in Processes, MakeDirectory(p) PROVE IInv'
  <1> DEFINE d == op[p].dest
  <1>1. /\ op[p].step = "make" /\ ~ dir[d].there /\ UNCHANGED root
        /\ dir' = [dir EXCEPT ![d] = [NoDir EXCEPT !.there = TRUE]]
        /\ op' = [op EXCEPT ![p].step = "snapshot", ![p].made = TRUE]
    BY DEF MakeDirectory, At
  <1>2. op[p].kind = "create" /\ ~ op[p].made /\ d \in Dirs
    BY <1>1 DEF IInv, StepsOfCreate
  <1>3. /\ DOMAIN op' = Processes /\ DOMAIN dir' = Dirs
        /\ \A q \in Processes \ {p} : op'[q] = op[q]
        /\ op'[p] = [op[p] EXCEPT !.step = "snapshot", !.made = TRUE]
    BY <1>1 DEF IInv, Shape
  <1>4. /\ op'[p].kind = "create" /\ op'[p].dest = d /\ op'[p].made /\ op'[p].step = "snapshot"
        /\ {"kind", "step", "dest", "made", "disturbed"} \subseteq DOMAIN op'[p]
    BY <1>2, <1>3 DEF IInv, Shape
  <1>5. /\ dir'[d].there /\ "there" \in DOMAIN dir'[d]
        /\ \A e \in Dirs \ {d} : dir'[e] = dir[e]
    BY <1>1, <1>2 DEF IInv, Shape, NoDir, DirOf
  <1>6. \A q \in Processes, e \in Dirs :
          Making(q, e)' <=> (Making(q, e) /\ q # p /\ e # d) \/ (q = p /\ e = d)
    <2>1. \A q \in Processes : ~ Making(q, d)
      BY <1>1, <1>2 DEF IInv, MadeIsThere
    <2>2. \A e \in Dirs : ~ Making(p, e)  BY <1>2 DEF Making
    <2>3. \A q \in Processes \ {p}, e \in Dirs : Making(q, e)' <=> Making(q, e)
      BY <1>3 DEF Making
    <2>4. \A e \in Dirs : Making(p, e)' <=> e = d  BY <1>4 DEF Making
    <2> HIDE DEF d
    <2>5. QED  BY <2>1, <2>2, <2>3, <2>4
  <1>7. Shape'  BY <1>1, <1>3, <1>4 DEF IInv, Shape
  <1>8. StepsOfCreate'
    <2> HIDE DEF d
    <2>1. ASSUME NEW q \in Processes \ {p}
          PROVE  /\ op'[q].step \in {"open", "make"} => op'[q].kind = "create" /\ ~ op'[q].made
                 /\ op'[q].step \in {"snapshot", "config", "manifest"}
                      => op'[q].kind = "create" /\ op'[q].made
                 /\ op'[q].kind = "create" => op'[q].dest \in Dirs
      BY <1>3 DEF IInv, StepsOfCreate
    <2>2. /\ op'[p].kind = "create" /\ op'[p].made /\ op'[p].dest \in Dirs
          /\ op'[p].step \notin {"open", "make"}
      BY <1>2, <1>4
    <2>3. QED  BY <2>1, <2>2 DEF StepsOfCreate
  <1>9. MadeIsThere'  BY <1>5, <1>6 DEF IInv, MadeIsThere
  <1>10. OneMaker'  BY <1>6 DEF IInv, OneMaker
  <1>11. QED  BY <1>7, <1>8, <1>9, <1>10 DEF IInv

(* A step that writes into the directory of its own create                 *)
Fills(p) == TakeSnapshot(p) \/ CopyConfig(p) \/ WriteManifest(p)

LEMMA FillsItsOwn ==
    ASSUME IInv, NEW p \in Processes, Fills(p)
    PROVE  /\ Making(p, op[p].dest) /\ op[p].dest \in Dirs
           /\ \A e \in Dirs \ {op[p].dest} : dir'[e] = dir[e]
           /\ dir'[op[p].dest].there /\ "there" \in DOMAIN dir'[op[p].dest]
           /\ DOMAIN dir' = Dirs
  <1>1. op[p].step \in {"snapshot", "config", "manifest"}
    BY DEF Fills, TakeSnapshot, CopyConfig, WriteManifest, At
  <1>2. Making(p, op[p].dest) /\ op[p].dest \in Dirs
    BY <1>1 DEF IInv, StepsOfCreate, Making
  <1>3. dir[op[p].dest].there /\ "there" \in DOMAIN dir[op[p].dest]
    BY <1>2 DEF IInv, MadeIsThere
  <1>4. \/ \E x : dir' = [dir EXCEPT ![op[p].dest].store = x]
        \/ \E x : dir' = [dir EXCEPT ![op[p].dest].config = x]
        \/ \E x : dir' = [dir EXCEPT ![op[p].dest].manifest = x]
    BY DEF Fills, TakeSnapshot, CopyConfig, WriteManifest
  <1>5. QED  BY ZenonT(60), <1>2, <1>3, <1>4 DEF IInv, Shape

LEMMA FillsHolds == ASSUME IInv, NEW p \in Processes, Fills(p) PROVE IInv'
  <1>1. /\ DOMAIN op' = Processes /\ UNCHANGED root
        /\ \A q \in Processes \ {p} : op'[q] = op[q]
        /\ op'[p].kind = op[p].kind /\ op'[p].dest = op[p].dest /\ op'[p].made = op[p].made
        /\ {"kind", "step", "dest", "made", "disturbed"} \subseteq DOMAIN op'[p]
        /\ op[p].step \in {"snapshot", "config", "manifest"}
        /\ op'[p].step \in {"config", "manifest", "verify"}
    BY DEF Fills, TakeSnapshot, CopyConfig, WriteManifest, At, GoTo, IInv, Shape
  <1>2. \A q \in Processes, d \in Dirs : Making(q, d)' <=> Making(q, d)
    BY <1>1 DEF Making
  <1>3. MadeIsThere'
    BY <1>2, FillsItsOwn DEF IInv, MadeIsThere
  <1>4. Shape'  BY <1>1, FillsItsOwn DEF IInv, Shape
  <1>5. StepsOfCreate'  BY <1>1 DEF IInv, StepsOfCreate
  <1>6. OneMaker'  BY <1>2 DEF IInv, OneMaker
  <1>7. QED  BY <1>3, <1>4, <1>5, <1>6 DEF IInv

(* The other steps of a command leave the directories alone.               *)
Onward(p) ==
    OpenForBackup(p) \/ ReadManifest(p) \/ CheckContents(p) \/ Reread(p) \/ CopyFile(p)

LEMMA OnwardStepHolds == ASSUME IInv, NEW p \in Processes, Onward(p) PROVE IInv'
  <1>1. UNCHANGED <<dir, root>>
    BY DEF Onward, OpenForBackup, ReadManifest, CheckContents, Reread, CopyFile
  <1>2. /\ DOMAIN op' = Processes
        /\ \A q \in Processes \ {p} : op'[q] = op[q]
        /\ op'[p].kind = op[p].kind /\ op'[p].dest = op[p].dest /\ op'[p].made = op[p].made
        /\ {"kind", "step", "dest", "made", "disturbed"} \subseteq DOMAIN op'[p]
        /\ \/ op'[p].step \in {"files", "verified", "copy"}
           \/ op[p].step = "open" /\ op'[p].step = "make"
    BY DEF Onward, OpenForBackup, ReadManifest, CheckContents, Reread, CopyFile, At, IInv, Shape
  <1>3. QED  BY <1>1, <1>2, OnwardHolds

Ends(p) == CreateCompletes(p) \/ VerifyReports(p) \/ Refuse(p) \/ Fault(p) \/ Crash(p)

LEMMA EndStepHolds == ASSUME IInv, NEW p \in Processes, Ends(p) PROVE IInv'
  <1>1. op' = Ended(p) /\ (dir' = dir \/ dir' = Dropped(p)) /\ UNCHANGED root
    BY DEF Ends, CreateCompletes, VerifyReports, Refuse, Fail, Fault, Crash
  <1>2. QED  BY <1>1, EndHolds

LEMMA PublishHolds == ASSUME IInv, NEW p \in Processes, Publish(p) PROVE IInv'
  <1>1. op' = Ended(p) /\ UNCHANGED dir /\ DOMAIN root' = Roots
    BY DEF Publish, IInv, Shape
  <1>2. \A q \in Processes : op'[q] = IF q = p THEN Idle ELSE op[q]
    BY <1>1 DEF Ended, IInv, Shape
  <1>3. Shape'  BY <1>1, <1>2, IdleMakesNothing DEF Ended, IInv, Shape
  <1>4. StepsOfCreate'  BY <1>2, IdleMakesNothing DEF IInv, StepsOfCreate, None
  <1>5. \A q \in Processes, d \in Dirs : Making(q, d)' => Making(q, d)
    BY <1>2, IdleMakesNothing DEF Making, None
  <1>6. MadeIsThere' /\ OneMaker'  BY <1>1, <1>5 DEF IInv, MadeIsThere, OneMaker
  <1>7. QED  BY <1>3, <1>4, <1>6 DEF IInv

(* What changes a backup from outside touches none in the making.          *)
LEMMA AlterHolds == ASSUME IInv, NEW d \in Dirs, Alter(d) PROVE IInv'
  <1>1. /\ \A p \in Processes : ~ Making(p, d)
        /\ dir[d].there /\ UNCHANGED root
        /\ op' = [p \in Processes |->
                    IF op[p].kind = "restore" THEN [op[p] EXCEPT !.disturbed = 1] ELSE op[p]]
    BY DEF Alter
  <1>2. /\ DOMAIN dir' = Dirs
        /\ \A e \in Dirs \ {d} : dir'[e] = dir[e] \/ ~ dir[e].there
    BY DEF Alter, Damage, Lose, Add, ChangeConfig, Replace, Move, IInv, Shape
  <1>3. \A p \in Processes :
          /\ Doing(p)' = Doing(p)
          /\ {"kind", "step", "dest", "made", "disturbed"} \subseteq DOMAIN op'[p]
    BY <1>1 DEF Doing, IInv, Shape
  <1>4. Shape'  BY <1>1, <1>2, <1>3 DEF IInv, Shape
  <1>5. \A p \in Processes, e \in Dirs : Making(p, e)' <=> Making(p, e)
    BY <1>3 DEF Doing, Making
  <1>6. StepsOfCreate'  BY <1>3 DEF IInv, StepsOfCreate, Doing
  <1>7. OneMaker'  BY <1>5 DEF IInv, OneMaker
  <1>8. MadeIsThere'  BY <1>1, <1>2, <1>5 DEF IInv, MadeIsThere
  <1>9. QED  BY <1>4, <1>6, <1>7, <1>8 DEF IInv

LEMMA NextHolds == IInv /\ [Next]_vars => IInv'
  <1> SUFFICES ASSUME IInv, [Next]_vars PROVE IInv'  OBVIOUS
  <1>1. ASSUME NEW p \in Processes, HostStep(p) PROVE IInv'
    BY <1>1, NoticedHolds DEF HostStep
  <1>2. ASSUME NEW p \in Processes, BackupStep(p) PROVE IInv'
    BY <1>2, BeginCommandHolds, MakeDirectoryHolds, FillsHolds, OnwardStepHolds, EndStepHolds,
       PublishHolds
    DEF BackupStep, Fills, Onward, Ends
  <1>3. ASSUME NEW p \in Processes, Fault(p) \/ Crash(p) PROVE IInv'
    BY <1>3, EndStepHolds DEF Ends
  <1>4. ASSUME NEW d \in Dirs, Alter(d) PROVE IInv'  BY <1>4, AlterHolds
  <1>5. CASE Edit  BY <1>5, NoticedHolds DEF Edit
  <1>6. CASE UNCHANGED vars
    <2>1. Shape'  BY <1>6 DEF vars, IInv, Shape
    <2>2. QED  BY <1>6, <2>1, SameDoing DEF vars, Doing
  <1>7. QED  BY <1>1, <1>2, <1>3, <1>4, <1>5, <1>6 DEF Next

-----------------------------------------------------------------------------
(* What one step may do to what is there                                   *)

LEMMA DirectoriesAreKept ==
    ASSUME IInv, [Next]_vars, NEW d \in Dirs, dir[d].there, dir'[d] # dir[d]
    PROVE  (\E p \in Processes : Making(p, d)) \/ (\E e \in Dirs : Alter(e))
  <1>1. ASSUME NEW p \in Processes, Fills(p) PROVE Making(p, d)
    BY <1>1, FillsItsOwn
  <1>2. ASSUME NEW p \in Processes, MakeDirectory(p) PROVE FALSE
    BY <1>2 DEF MakeDirectory, IInv, Shape
  <1>3. ASSUME NEW p \in Processes, dir' = Dropped(p) PROVE Making(p, d)
    BY <1>3 DEF Dropped, Making, IInv, Shape
  <1>4. ASSUME NEW p \in Processes, Ends(p) PROVE Making(p, d)
    BY <1>3, <1>4 DEF Ends, CreateCompletes, VerifyReports, Refuse, Fail, Fault, Crash
  <1>5. ASSUME NEW p \in Processes, Onward(p) \/ Publish(p) PROVE FALSE
    BY <1>5 DEF Onward, OpenForBackup, ReadManifest, CheckContents, Reread, CopyFile, Publish
  <1>6. ASSUME NEW p \in Processes, NEW e \in Dirs,
               \/ BeginCreate(p, e)
               \/ \E pin \in Pins : BeginVerify(p, e, pin) \/ \E r \in Roots : BeginRestore(p, e, r, pin)
        PROVE  FALSE
    BY <1>6 DEF BeginCreate, BeginVerify, BeginRestore
  <1>7. ASSUME NEW p \in Processes, BackupStep(p) PROVE Making(p, d)
    BY <1>1, <1>2, <1>4, <1>5, <1>6, <1>7 DEF BackupStep, Fills, Onward, Ends
  <1>8. ASSUME NEW p \in Processes, HostStep(p) PROVE FALSE  BY <1>8 DEF HostStep
  <1>9. ASSUME Edit \/ UNCHANGED vars PROVE FALSE  BY <1>9 DEF Edit, vars
  <1>10. QED  BY <1>4, <1>7, <1>8, <1>9 DEF Next, Ends

LEMMA RootsAreKept ==
    ASSUME IInv, [Next]_vars, NEW r \in Roots, root[r].there
    PROVE  root'[r] = root[r]
  <1>1. ASSUME NEW p \in Processes, Publish(p) PROVE root'[r] = root[r]
    BY SMTT(40), <1>1 DEF Publish, IInv, Shape
  <1>2. ASSUME NEW p \in Processes, BackupStep(p), ~ Publish(p) PROVE UNCHANGED root
    BY <1>2
    DEF BackupStep, BeginCreate, BeginVerify, BeginRestore, OpenForBackup, MakeDirectory,
        TakeSnapshot, CopyConfig, WriteManifest, ReadManifest, CheckContents, CreateCompletes,
        VerifyReports, Reread, CopyFile, Refuse, Fail
  <1>3. ASSUME NEW p \in Processes, HostStep(p) \/ Fault(p) \/ Crash(p) PROVE UNCHANGED root
    BY <1>3 DEF HostStep, Fault, Crash
  <1>4. ASSUME NEW d \in Dirs, Alter(d) PROVE UNCHANGED root  BY <1>4 DEF Alter
  <1>5. ASSUME Edit \/ UNCHANGED vars PROVE UNCHANGED root  BY <1>5 DEF Edit, vars
  <1>6. QED  BY <1>1, <1>2, <1>3, <1>4, <1>5 DEF Next

-----------------------------------------------------------------------------
(* A backup directory is made by one create at a time, so that neither its *)
(* failure nor its end touches another's work (backup/create.rs).          *)
THEOREM OneCreateMakesABackup == Spec => []OneMaker
  <1>1. IInv => OneMaker  BY DEF IInv
  <1>2. QED  BY <1>1, InitHolds, NextHolds, PTL DEF Spec

(* No step of Texo changes a backup that no create is making, or a         *)
(* workspace that is there (BackupDestination::drop,                       *)
(* RestoreDestination::complete).                                          *)
THEOREM ExistingBackupsAreKept == Spec => ExistingIsKept
  <1>1. IInv /\ [Next]_vars =>
          [/\ \A d \in Dirs :
                dir[d].there /\ dir'[d] # dir[d] =>
                   (\E p \in Processes : Making(p, d)) \/ (\E e \in Dirs : Alter(e))
           /\ \A r \in Roots : root[r].there => root'[r] = root[r]]_vars
    BY DirectoriesAreKept, RootsAreKept
  <1>2. QED  BY <1>1, InitHolds, NextHolds, PTL DEF Spec, ExistingIsKept

-----------------------------------------------------------------------------
(* What the variables hold                                                 *)

(* What the variables hold.  An absent directory holds nothing.            *)
OpsAreTyped ==
    \A p \in Processes :
        /\ DOMAIN op[p] = DOMAIN Idle
        /\ op[p].disturbed \in Nat
        /\ DOMAIN op[p].files \subseteq Files
        /\ op[p].kind = None => op[p] = Idle

DirsAreTyped ==
    \A d \in Dirs :
        /\ DOMAIN dir[d] = DOMAIN NoDir
        /\ DOMAIN dir[d].manifest = DOMAIN NoManifest
        /\ DOMAIN dir[d].store \subseteq Files
        /\ DOMAIN dir[d].manifest.files \subseteq Files
        /\ ~ dir[d].there => dir[d] = NoDir

Counts == commands \in 0..MaxCommands /\ troubles \in 0..MaxTroubles

Typed == OpsAreTyped /\ DirsAreTyped /\ Counts

Begins(p) ==
    \E d \in Dirs :
        \/ BeginCreate(p, d)
        \/ \E pin \in Pins : \/ BeginVerify(p, d, pin)
                             \/ \E r \in Roots : BeginRestore(p, d, r, pin)

LEMMA TypesOfConstants ==
    /\ DOMAIN Idle = {"kind", "step", "id", "dest", "root", "pin", "path", "from", "files",
                      "manifest", "config", "copied", "fits", "made", "disturbed"}
    /\ Idle.kind = None /\ Idle.step = None /\ Idle.disturbed = 0 /\ Idle.files = Empty
    /\ ~ Idle.made /\ Idle.copied = Empty /\ Idle.pin = 0
    /\ DOMAIN NoDir = {"there", "store", "config", "manifest", "extra"}
    /\ ~ NoDir.there /\ ~ NoDir.extra /\ NoDir.store = Empty /\ NoDir.manifest = NoManifest
    /\ DOMAIN NoManifest = {"id", "at", "path", "files", "config"}
    /\ NoManifest.id = 0 /\ NoManifest.files = Empty
    /\ DOMAIN Empty = {}
  BY DEF Idle, NoDir, DirOf, NoManifest, ManifestOf, Empty

LEMMA SnapshotsAreTyped ==
    ASSUME NEW path, NEW v
    PROVE  /\ DOMAIN SnapshotOf(path, v) = Files
           /\ SnapshotOf(path, v) = [f \in Files |-> SnapshotOf(path, v)[f]]
  BY DEF SnapshotOf

LEMMA ManifestsAreTyped ==
    ASSUME NEW id, NEW at, NEW path, NEW files, NEW cfg
    PROVE  LET m == ManifestOf(id, at, path, files, cfg) IN
           /\ DOMAIN m = DOMAIN NoManifest
           /\ m.id = id /\ m.at = at /\ m.path = path /\ m.files = files /\ m.config = cfg
  BY DEF ManifestOf, NoManifest

-----------------------------------------------------------------------------
LEMMA InitTyped == Init => Typed
  <1> SUFFICES ASSUME Init PROVE Typed  OBVIOUS
  <1>1. OpsAreTyped  BY TypesOfConstants DEF Init, OpsAreTyped
  <1>2. DirsAreTyped
    <2> SUFFICES ASSUME NEW d \in Dirs
                 PROVE  /\ DOMAIN dir[d] = DOMAIN NoDir
                        /\ DOMAIN dir[d].manifest = DOMAIN NoManifest
                        /\ DOMAIN dir[d].store \subseteq Files
                        /\ DOMAIN dir[d].manifest.files \subseteq Files
                        /\ ~ dir[d].there => dir[d] = NoDir
      BY DEF DirsAreTyped
    <2>1. CASE d \in Backups
      <3> DEFINE store == SnapshotOf(DefaultPath, 0)
                 manifest == ManifestOf(1, d, DefaultPath, store, DefaultConfig)
      <3>1. dir[d] = DirOf(store, DefaultConfig, manifest, FALSE)
        BY <2>1 DEF Init, FirstBackup
      <3>2. DOMAIN store = Files  BY SnapshotsAreTyped
      <3>3. DOMAIN manifest = DOMAIN NoManifest /\ manifest.files = store
        BY ManifestsAreTyped
      <3> HIDE DEF store, manifest
      <3>4. QED  BY <3>1, <3>2, <3>3, TypesOfConstants DEF DirOf
    <2>2. CASE d \notin Backups
      BY <2>2, TypesOfConstants DEF Init
    <2>3. QED  BY <2>1, <2>2
  <1>3. Counts  BY BackupAssumption DEF Init, Counts
  <1>4. QED  BY <1>1, <1>2, <1>3 DEF Typed

(* A step of p on its own record                                           *)
LEMMA OneOpTyped ==
    ASSUME IInv, OpsAreTyped, NEW p \in Processes, NEW record, op' = [op EXCEPT ![p] = record],
           DOMAIN record = DOMAIN Idle, record.disturbed \in Nat,
           DOMAIN record.files \subseteq Files, record.kind = None => record = Idle
    PROVE  OpsAreTyped'
  <1>1. \A q \in Processes : op'[q] = IF q = p THEN record ELSE op[q]
    BY DEF IInv, Shape
  <1>2. QED  BY <1>1 DEF OpsAreTyped

(* A command ends, and drops only what it made.                            *)
LEMMA EndTyped ==
    ASSUME IInv, Typed, NEW p \in Processes, op' = Ended(p), dir' = dir \/ dir' = Dropped(p),
           Counts'
    PROVE  Typed'
  <1>1. OpsAreTyped'
    <2>1. DOMAIN Idle.files \subseteq Files /\ Idle.disturbed \in Nat  BY TypesOfConstants
    <2>2. op' = [op EXCEPT ![p] = Idle]  BY DEF Ended
    <2>3. QED  BY <2>1, <2>2, OneOpTyped DEF Typed
  <1>2. \A d \in Dirs : dir'[d] = dir[d] \/ dir'[d] = NoDir
    BY DEF Dropped, IInv, Shape
  <1>3. DirsAreTyped'  BY <1>2, TypesOfConstants DEF Typed, DirsAreTyped
  <1>4. QED  BY <1>1, <1>3 DEF Typed

(* A command goes on, without writing to a directory.                      *)
LEMMA OnwardTyped ==
    ASSUME IInv, Typed, NEW p \in Processes, Onward(p)
    PROVE  Typed'
  <1>1. /\ op[p].step # None
        /\ UNCHANGED <<dir, commands, troubles>>
        /\ DOMAIN op' = Processes
        /\ \A q \in Processes \ {p} : op'[q] = op[q]
        /\ DOMAIN op'[p] = DOMAIN op[p]
        /\ op'[p].kind = op[p].kind /\ op'[p].disturbed = op[p].disturbed
        /\ op'[p].files = op[p].files
    BY TypesOfConstants
    DEF Onward, OpenForBackup, ReadManifest, CheckContents, Reread, CopyFile, At, None, Typed,
        OpsAreTyped, IInv, Shape
  <1>2. op[p].kind # None  BY <1>1, TypesOfConstants DEF Typed, OpsAreTyped
  <1>3. OpsAreTyped'  BY <1>1, <1>2 DEF Typed, OpsAreTyped
  <1>4. QED  BY <1>1, <1>3 DEF Typed, DirsAreTyped, Counts

LEMMA FillsTyped ==
    ASSUME IInv, Typed, NEW p \in Processes, Fills(p)
    PROVE  Typed'
  <1> DEFINE d == op[p].dest
  <1>1. /\ d \in Dirs /\ dir'[d].there /\ DOMAIN dir' = Dirs
        /\ \A e \in Dirs \ {d} : dir'[e] = dir[e]
    BY FillsItsOwn
  <1>2. /\ op[p].step # None
        /\ UNCHANGED <<commands, troubles>>
        /\ DOMAIN op' = Processes
        /\ \A q \in Processes \ {p} : op'[q] = op[q]
        /\ DOMAIN op'[p] = DOMAIN op[p]
        /\ op'[p].kind = op[p].kind /\ op'[p].disturbed = op[p].disturbed
    BY TypesOfConstants
    DEF Fills, TakeSnapshot, CopyConfig, WriteManifest, At, GoTo, None, Typed, OpsAreTyped, IInv,
        Shape
  <1>3. op[p].kind # None  BY <1>2, TypesOfConstants DEF Typed, OpsAreTyped
  <1>4. /\ DOMAIN op'[p].files \subseteq Files
        /\ DOMAIN dir'[d] = DOMAIN NoDir
        /\ DOMAIN dir'[d].manifest = DOMAIN NoManifest
        /\ DOMAIN dir'[d].store \subseteq Files
        /\ DOMAIN dir'[d].manifest.files \subseteq Files
    <2>1. CASE TakeSnapshot(p)
      <3> DEFINE store == SnapshotOf(op[p].from, version[op[p].from])
      <3>1. DOMAIN store = Files  BY SnapshotsAreTyped
      <3>2. /\ dir' = [dir EXCEPT ![d].store = store]
            /\ op' = [op EXCEPT ![p].step = "config", ![p].files = store]
        BY <2>1 DEF TakeSnapshot
      <3> HIDE DEF store
      <3>3. QED
        BY <1>1, <3>1, <3>2, TypesOfConstants DEF Typed, OpsAreTyped, DirsAreTyped, IInv, Shape
    <2>2. CASE CopyConfig(p)
      BY <1>1, <2>2, TypesOfConstants DEF CopyConfig, Typed, OpsAreTyped, DirsAreTyped, IInv, Shape
    <2>3. CASE WriteManifest(p)
      <3> DEFINE m == ManifestOf(op[p].id, d, op[p].path, op[p].files, op[p].config)
      <3>1. DOMAIN m = DOMAIN NoManifest /\ m.files = op[p].files
        BY ManifestsAreTyped
      <3>2. dir' = [dir EXCEPT ![d].manifest = m] /\ op' = [op EXCEPT ![p].step = "verify"]
        BY <2>3 DEF WriteManifest, GoTo
      <3> HIDE DEF m
      <3>3. QED
        BY <1>1, <3>1, <3>2, TypesOfConstants DEF Typed, OpsAreTyped, DirsAreTyped, IInv, Shape
    <2>4. QED  BY <2>1, <2>2, <2>3 DEF Fills
  <1>5. OpsAreTyped'
    BY <1>2, <1>3, <1>4 DEF Typed, OpsAreTyped
  <1>6. DirsAreTyped'
    <2> HIDE DEF d
    <2>1. QED  BY <1>1, <1>4 DEF Typed, DirsAreTyped
  <1>7. QED  BY <1>2, <1>5, <1>6 DEF Typed, Counts

LEMMA MakeDirectoryTyped ==
    ASSUME IInv, Typed, NEW p \in Processes, MakeDirectory(p)
    PROVE  Typed'
  <1>1. /\ op[p].step # None
        /\ UNCHANGED <<commands, troubles>>
        /\ DOMAIN op' = Processes
        /\ \A q \in Processes \ {p} : op'[q] = op[q]
        /\ DOMAIN op'[p] = DOMAIN op[p]
        /\ op'[p].kind = op[p].kind /\ op'[p].disturbed = op[p].disturbed
        /\ op'[p].files = op[p].files
    BY TypesOfConstants DEF MakeDirectory, At, None, Typed, OpsAreTyped, IInv, Shape
  <1>2. op[p].kind # None  BY <1>1, TypesOfConstants DEF Typed, OpsAreTyped
  <1>3. OpsAreTyped'  BY <1>1, <1>2 DEF Typed, OpsAreTyped
  <1>4. DirsAreTyped'
    BY TypesOfConstants DEF MakeDirectory, Typed, DirsAreTyped, IInv, Shape
  <1>5. QED  BY <1>1, <1>3, <1>4 DEF Typed, Counts

LEMMA BeginsTyped ==
    ASSUME IInv, Typed, NEW p \in Processes, Begins(p)
    PROVE  Typed'
  <1>1. /\ UNCHANGED <<dir, troubles>>
        /\ commands < MaxCommands /\ commands' = commands + 1
    BY DEF Begins, BeginCreate, BeginVerify, BeginRestore, Begin
  <1>2. Counts'  BY <1>1, BackupAssumption DEF Typed, Counts
  <1>3. \E record :
          /\ op' = [op EXCEPT ![p] = record]
          /\ DOMAIN record = DOMAIN Idle /\ record.disturbed = 0 /\ record.files = Empty
          /\ record.kind # None
    <2>1. CASE \E d \in Dirs : BeginCreate(p, d)
      <3>1. PICK d \in Dirs : BeginCreate(p, d)  BY <2>1
      <3> DEFINE record ==
            [Idle EXCEPT !.kind = "create", !.step = "open", !.dest = d, !.id = commands + 2,
                         !.path = JournalOf(config, None).path]
      <3>2. /\ DOMAIN record = DOMAIN Idle /\ record.disturbed = 0 /\ record.files = Empty
            /\ record.kind # None
        BY TypesOfConstants DEF None
      <3>3. op' = [op EXCEPT ![p] = record]  BY <3>1 DEF BeginCreate, Begin
      <3> HIDE DEF record
      <3>4. QED  BY <3>2, <3>3
    <2>2. CASE \E d \in Dirs, pin \in Pins : BeginVerify(p, d, pin)
      <3>1. PICK d \in Dirs, pin \in Pins : BeginVerify(p, d, pin)  BY <2>2
      <3> DEFINE record == [Idle EXCEPT !.kind = "verify", !.step = "verify", !.dest = d, !.pin = pin]
      <3>2. /\ DOMAIN record = DOMAIN Idle /\ record.disturbed = 0 /\ record.files = Empty
            /\ record.kind # None
        BY TypesOfConstants DEF None
      <3>3. op' = [op EXCEPT ![p] = record]  BY <3>1 DEF BeginVerify, Begin
      <3> HIDE DEF record
      <3>4. QED  BY <3>2, <3>3
    <2>3. CASE \E d \in Dirs, pin \in Pins, r \in Roots : BeginRestore(p, d, r, pin)
      <3>1. PICK d \in Dirs, pin \in Pins, r \in Roots : BeginRestore(p, d, r, pin)  BY <2>3
      <3> DEFINE record == [Idle EXCEPT !.kind = "restore", !.step = "verify", !.dest = d,
                                        !.root = r, !.pin = pin]
      <3>2. /\ DOMAIN record = DOMAIN Idle /\ record.disturbed = 0 /\ record.files = Empty
            /\ record.kind # None
        BY TypesOfConstants DEF None
      <3>3. op' = [op EXCEPT ![p] = record]  BY <3>1 DEF BeginRestore, Begin
      <3> HIDE DEF record
      <3>4. QED  BY <3>2, <3>3
    <2>4. QED  BY <2>1, <2>2, <2>3 DEF Begins
  <1>4. OpsAreTyped'
    <2>1. DOMAIN Empty \subseteq Files  BY TypesOfConstants
    <2>2. PICK record : /\ op' = [op EXCEPT ![p] = record]
                        /\ DOMAIN record = DOMAIN Idle /\ record.disturbed = 0
                        /\ record.files = Empty /\ record.kind # None
      BY <1>3
    <2>3. DOMAIN record.files \subseteq Files /\ record.disturbed \in Nat  BY <2>1, <2>2
    <2>4. QED  BY <2>2, <2>3, OneOpTyped DEF Typed
  <1>5. QED  BY <1>1, <1>2, <1>4 DEF Typed, DirsAreTyped

LEMMA NoticedTyped ==
    ASSUME IInv, Typed, Noticed, UNCHANGED dir, Counts'
    PROVE  Typed'
  <1>1. \A p \in Processes :
          \/ op'[p] = op[p]
          \/ op[p].kind = "create" /\ op'[p] = [op[p] EXCEPT !.disturbed = @ + 1]
    BY DEF Noticed
  <1>2. OpsAreTyped'
    <2> SUFFICES ASSUME NEW p \in Processes
                 PROVE  /\ DOMAIN op'[p] = DOMAIN Idle
                        /\ op'[p].disturbed \in Nat
                        /\ DOMAIN op'[p].files \subseteq Files
                        /\ op'[p].kind = None => op'[p] = Idle
      BY DEF OpsAreTyped
    <2>1. /\ DOMAIN op[p] = DOMAIN Idle
          /\ op[p].disturbed \in Nat
          /\ DOMAIN op[p].files \subseteq Files
          /\ op[p].kind = None => op[p] = Idle
      BY DEF Typed, OpsAreTyped
    <2>2. CASE op'[p] = op[p]  BY <2>1, <2>2
    <2>3. CASE op[p].kind = "create" /\ op'[p] = [op[p] EXCEPT !.disturbed = @ + 1]
      <3>1. "disturbed" \in DOMAIN op[p]  BY <2>1, TypesOfConstants
      <3>2. DOMAIN op'[p] = DOMAIN op[p] BY <2>3
      <3>3. op'[p].disturbed = op[p].disturbed + 1  BY <2>3, <3>1
      <3>4. op'[p].kind = "create" /\ op'[p].files = op[p].files  BY <2>3, <2>1, TypesOfConstants
      <3>5. QED  BY <2>1, <3>2, <3>3, <3>4 DEF None
    <2>4. QED  BY <1>1, <2>2, <2>3
  <1>3. QED  BY <1>2 DEF Typed, DirsAreTyped

LEMMA AlterTyped ==
    ASSUME IInv, Typed, NEW d \in Dirs, Alter(d)
    PROVE  Typed'
  <1>1. \A p \in Processes :
          \/ op'[p] = op[p]
          \/ op[p].kind = "restore" /\ op'[p] = [op[p] EXCEPT !.disturbed = 1]
    BY DEF Alter
  <1>2. OpsAreTyped'
    <2> SUFFICES ASSUME NEW p \in Processes
                 PROVE  /\ DOMAIN op'[p] = DOMAIN Idle
                        /\ op'[p].disturbed \in Nat
                        /\ DOMAIN op'[p].files \subseteq Files
                        /\ op'[p].kind = None => op'[p] = Idle
      BY DEF OpsAreTyped
    <2>1. /\ DOMAIN op[p] = DOMAIN Idle
          /\ op[p].disturbed \in Nat
          /\ DOMAIN op[p].files \subseteq Files
          /\ op[p].kind = None => op[p] = Idle
      BY DEF Typed, OpsAreTyped
    <2>2. CASE op'[p] = op[p]  BY <2>1, <2>2
    <2>3. CASE op[p].kind = "restore" /\ op'[p] = [op[p] EXCEPT !.disturbed = 1]
      <3>1. "disturbed" \in DOMAIN op[p]  BY <2>1, TypesOfConstants
      <3>2. DOMAIN op'[p] = DOMAIN op[p] /\ op'[p].disturbed = 1  BY <2>3, <3>1
      <3>3. op'[p].kind = "restore" /\ op'[p].files = op[p].files  BY <2>3, <2>1, TypesOfConstants
      <3>4. QED  BY <2>1, <3>2, <3>3 DEF None
    <2>4. QED  BY <1>1, <2>2, <2>3
  <1>3. Counts'  BY BackupAssumption DEF Alter, Trouble, Typed, Counts
  <1>4. dir[d].there  BY DEF Alter
  <1>5. DirsAreTyped'
    <2>1. CASE Damage(d) \/ Lose(d)
      BY <1>4, <2>1, TypesOfConstants DEF Damage, Lose, Typed, DirsAreTyped, IInv, Shape
    <2>2. CASE Add(d) \/ ChangeConfig(d)
      BY <1>4, <2>2, TypesOfConstants DEF Add, ChangeConfig, Typed, DirsAreTyped, IInv, Shape
    <2>3. CASE Replace(d)
      <3> DEFINE store == SnapshotOf(dir[d].manifest.path, 0)
      <3>1. DOMAIN store = Files  BY SnapshotsAreTyped
      <3>2. dir' = [dir EXCEPT ![d].store = store, ![d].manifest.id = MaxCommands + 2,
                               ![d].manifest.files = store]
        BY <2>3 DEF Replace
      <3> HIDE DEF store
      <3>3. QED
        BY <1>4, <3>1, <3>2, TypesOfConstants DEF Typed, DirsAreTyped, IInv, Shape
    <2>4. CASE Move(d)
      BY <2>4, TypesOfConstants DEF Move, Typed, DirsAreTyped, IInv, Shape
    <2>5. QED  BY <2>1, <2>2, <2>3, <2>4 DEF Alter
  <1>6. QED  BY <1>2, <1>3, <1>5 DEF Typed

LEMMA NextTyped == IInv /\ Typed /\ [Next]_vars => Typed'
  <1> SUFFICES ASSUME IInv, Typed, [Next]_vars PROVE Typed'  OBVIOUS
  <1>1. ASSUME NEW p \in Processes, HostStep(p) PROVE Typed'
    BY <1>1, NoticedTyped DEF HostStep, Typed, Counts
  <1>2. ASSUME NEW p \in Processes, CreateCompletes(p) \/ VerifyReports(p) \/ Refuse(p) PROVE Typed'
    BY <1>2, EndTyped DEF CreateCompletes, VerifyReports, Refuse, Fail, Typed, Counts
  <1>3. ASSUME NEW p \in Processes, Publish(p) PROVE Typed'
    BY <1>3, EndTyped DEF Publish, Typed, Counts
  <1>4. ASSUME NEW p \in Processes, Fault(p) \/ Crash(p) PROVE Typed'
    <2>1. Counts'  BY <1>4, BackupAssumption DEF Fault, Crash, Trouble, Typed, Counts
    <2>2. QED  BY <1>4, <2>1, EndTyped DEF Fault, Crash
  <1>5. ASSUME NEW p \in Processes, BackupStep(p) PROVE Typed'
    BY <1>2, <1>3, <1>5, BeginsTyped, MakeDirectoryTyped, FillsTyped, OnwardTyped
    DEF BackupStep, Fills, Onward, Begins
  <1>6. ASSUME NEW d \in Dirs, Alter(d) PROVE Typed'  BY <1>6, AlterTyped
  <1>7. CASE Edit  BY <1>7, NoticedTyped DEF Edit, Typed, Counts
  <1>8. CASE UNCHANGED vars
    BY <1>8 DEF vars, Typed, OpsAreTyped, DirsAreTyped, Counts
  <1>9. QED  BY <1>1, <1>4, <1>5, <1>6, <1>7, <1>8 DEF Next

-----------------------------------------------------------------------------
(* Who has which journal open                                              *)

HostIsTyped ==
    /\ HostTypeOK
    /\ DOMAIN host = Processes
    /\ \A p \in Processes : DOMAIN host[p] = {"role", "path", "doing"}

(* A process that has a canonical journal open, or that copies one, has    *)
(* its lock (JournalStore).                                                *)
LocksAreHeld ==
    \A p \in Processes :
        /\ host[p].role = "canonical" => lock[host[p].path] = p
        /\ op[p].kind = "create" /\ op[p].step # "open" =>
             op[p].from \in Paths /\ lock[op[p].from] = p

BusyAreClosed == \A p \in Processes : op[p] # Idle => host[p] = Closed

HostInv == HostIsTyped /\ LocksAreHeld /\ BusyAreClosed

LEMMA LoadedJournal ==
    ASSUME NEW c, NEW selected, Loads(c, selected)
    PROVE  /\ c \in DOMAIN Configs
           /\ JournalOf(c, selected).path \in Paths
           /\ JournalOf(c, selected).role \in {"canonical", "replica"}
           /\ selected = None => JournalOf(c, selected).role = "canonical"
  <1> DEFINE id == Selects(Configs[c].primary, selected)
  <1>1. /\ c \in DOMAIN Configs /\ id \in DOMAIN Configs[c].journals
        /\ Configs[c].journals[Configs[c].primary].role = "canonical"
    BY DEF Loads, Resolves
  <1>2. JournalOf(c, selected) = Configs[c].journals[id]  BY DEF JournalOf
  <1>3. Configs[c].journals[id].role \in {"canonical", "replica"}
    BY <1>1, ConfigsAssumption
  <1>4. Configs[c].journals[id].path \in Paths
    BY <1>1 DEF Paths
  <1>5. selected = None => id = Configs[c].primary  BY DEF Selects
  <1> HIDE DEF id
  <1>6. QED  BY <1>1, <1>2, <1>3, <1>4, <1>5

LEMMA ClosedIsNobody ==
    /\ DOMAIN Closed = {"role", "path", "doing"}
    /\ Closed.role = None /\ Closed.path = << >> /\ Closed.doing = None
  BY DEF Closed, HostOf

LEMMA InitHost == Init => HostInv
  <1> SUFFICES ASSUME Init PROVE HostInv  OBVIOUS
  <1>1. HostIsTyped
    BY HostAssumption, ClosedIsNobody DEF Init, HostInit, HostIsTyped, HostTypeOK
  <1>2. LocksAreHeld
    BY ClosedIsNobody, TypesOfConstants DEF Init, HostInit, LocksAreHeld, None
  <1>3. QED  BY <1>1, <1>2 DEF HostInv, BusyAreClosed, Init

(* Steps of the host of p                                                  *)
LEMMA HostStepTyped ==
    ASSUME HostInv, NEW p \in Processes, HostStep(p)
    PROVE  HostIsTyped'
  <1>1. CASE \E selected, doing : OpenHost(p, selected, doing) /\ doing \in {"serving", "init"}
    <2>1. PICK selected, doing : OpenHost(p, selected, doing) /\ doing \in {"serving", "init"}
      BY <1>1
    <2> DEFINE entry == JournalOf(LoadOrDefault, selected)
    <2>2. entry.path \in Paths /\ entry.role \in {"canonical", "replica"}
      BY <2>1, LoadedJournal DEF OpenHost
    <2>3. /\ host' = [host EXCEPT ![p] = HostOf(entry.role, entry.path, doing)]
          /\ lock' = IF entry.role = "canonical"
                     THEN [lock EXCEPT ![entry.path] = p] ELSE lock
          /\ UNCHANGED <<config, version, edits>>
      BY <2>1 DEF OpenHost
    <2> HIDE DEF entry
    <2>4. QED
      BY <2>1, <2>2, <2>3 DEF HostInv, HostIsTyped, HostTypeOK, HostOf
  <1>2. ASSUME NEW path \in Paths, version[path] < MaxVersion,
               version' = [version EXCEPT ![path] = @ + 1]
        PROVE  version' \in [Paths -> 0..MaxVersion]
    BY <1>2, HostAssumption DEF HostInv, HostIsTyped, HostTypeOK
  <1>3. CASE Invoke(p)
    <2>1. host[p].path \in Paths
      BY <1>3, ClosedIsNobody DEF Invoke, HostInv, HostIsTyped, HostTypeOK, None
    <2>2. version' \in [Paths -> 0..MaxVersion]  BY <1>2, <1>3, <2>1 DEF Invoke, Append
    <2>3. QED  BY <1>3, <2>2 DEF Invoke, HostInv, HostIsTyped, HostTypeOK
  <1>4. CASE CloseHost(p) \/ InitFails(p)
    <2>1. lock' \in [Paths -> Processes \union {None}]
      BY <1>4 DEF CloseHost, InitFails, Unlocked, HostInv, HostIsTyped, HostTypeOK
    <2>2. QED
      BY <1>4, <2>1, ClosedIsNobody DEF CloseHost, InitFails, HostInv, HostIsTyped, HostTypeOK
  <1>5. CASE TruncateMissing(p)
    BY <1>5, ClosedIsNobody DEF TruncateMissing, HostInv, HostIsTyped, HostTypeOK, None
  <1>6. CASE InitWorkspace(p)
    <2>1. host[p].path \in Paths
      BY <1>6, ClosedIsNobody DEF InitWorkspace, HostInv, HostIsTyped, HostTypeOK, None
    <2>2. version' \in [Paths -> 0..MaxVersion]  BY <1>2, <1>6, <2>1 DEF InitWorkspace, Append
    <2>3. lock' \in [Paths -> Processes \union {None}]
      BY <1>6 DEF InitWorkspace, Unlocked, HostInv, HostIsTyped, HostTypeOK
    <2>4. config' \in DOMAIN Configs  BY <1>6, HostAssumption DEF InitWorkspace
    <2>5. QED
      BY <1>6, <2>2, <2>3, <2>4, ClosedIsNobody DEF InitWorkspace, HostInv, HostIsTyped, HostTypeOK
  <1>7. QED  BY <1>1, <1>3, <1>4, <1>5, <1>6 DEF HostStep

(* What a step of a process does to the locks and hosts of the others      *)
LEMMA LocksOfOthers ==
    ASSUME HostInv, NEW p \in Processes, NEW q \in Processes \ {p}, NEW path \in Paths, lock[path] = q,
           HostStep(p) \/ BackupStep(p) \/ Fault(p) \/ Crash(p)
    PROVE  lock'[path] = q
  <1>1. q # None /\ p # None  BY ConfigsAssumption
  <1>2. lock \in [Paths -> Processes \union {None}]
    BY DEF HostInv, HostIsTyped, HostTypeOK
  <1>3. ASSUME lock' = Unlocked(p) PROVE lock'[path] = q
    BY <1>3 DEF Unlocked
  <1>4. ASSUME NEW entry, CanOpen(entry), entry.role = "canonical",
               lock' = [lock EXCEPT ![entry.path] = p]
        PROVE  lock'[path] = q
    BY <1>1, <1>2, <1>4 DEF CanOpen
  <1>5. CASE \E selected, doing : OpenHost(p, selected, doing)
    BY <1>4, <1>5 DEF OpenHost
  <1>6. CASE OpenForBackup(p)
    <2>1. JournalOf(config, None).role = "canonical"
      BY <1>6, LoadedJournal DEF OpenForBackup
    <2>2. QED  BY <1>4, <1>6, <2>1 DEF OpenForBackup
  <1>7. CASE \/ CloseHost(p) \/ InitWorkspace(p) \/ InitFails(p)
             \/ CreateCompletes(p) \/ Refuse(p) \/ Fault(p) \/ Crash(p)
    BY <1>3, <1>7 DEF CloseHost, InitWorkspace, InitFails, CreateCompletes, Refuse, Fail, Fault, Crash
  <1>8. CASE \/ Invoke(p) \/ TruncateMissing(p)
             \/ \E d \in Dirs : \/ BeginCreate(p, d)
                                \/ \E pin \in Pins : \/ BeginVerify(p, d, pin)
                                                     \/ \E r \in Roots : BeginRestore(p, d, r, pin)
             \/ MakeDirectory(p) \/ TakeSnapshot(p) \/ CopyConfig(p) \/ WriteManifest(p)
             \/ ReadManifest(p) \/ CheckContents(p) \/ VerifyReports(p) \/ Reread(p) \/ CopyFile(p)
             \/ Publish(p)
    BY <1>8
    DEF Invoke, TruncateMissing, BeginCreate, BeginVerify, BeginRestore, MakeDirectory, TakeSnapshot,
        CopyConfig, WriteManifest, ReadManifest, CheckContents, VerifyReports, Reread, CopyFile,
        Publish, hostVars
  <1>9. QED  BY <1>5, <1>6, <1>7, <1>8 DEF HostStep, BackupStep

(* All of a command but how often it was disturbed                         *)
Work(p) ==
    <<op[p].kind, op[p].step, op[p].id, op[p].dest, op[p].root, op[p].pin, op[p].path, op[p].from,
      op[p].files, op[p].manifest, op[p].config, op[p].copied, op[p].fits, op[p].made>>

LEMMA NoticedKeepsWork ==
    ASSUME Typed, Noticed, NEW p \in Processes
    PROVE  /\ Work(p)' = Work(p)
           /\ op'[p] = op[p] \/ op[p].kind = "create"
           /\ op'[p] = op[p] \/ op'[p].disturbed = op[p].disturbed + 1
           /\ op[p].kind = "create" /\ config' # config => op'[p].disturbed = op[p].disturbed + 1
           /\ config' = config => op'[p] = op[p]
  <1>1. /\ op[p].kind = "create" /\ config' # config => op'[p] = [op[p] EXCEPT !.disturbed = @ + 1]
        /\ ~ (op[p].kind = "create" /\ config' # config) => op'[p] = op[p]
    BY DEF Noticed
  <1>2. DOMAIN op[p] = DOMAIN Idle  BY DEF Typed, OpsAreTyped
  <1>3. "disturbed" \in DOMAIN op[p]  BY <1>2, TypesOfConstants
  <1>4. CASE op[p].kind = "create" /\ config' # config
    <2>1. Work(p)' = Work(p)  BY <1>1, <1>2, <1>4, TypesOfConstants DEF Work
    <2>2. op'[p].disturbed = op[p].disturbed + 1  BY <1>1, <1>3, <1>4
    <2>3. QED  BY <1>4, <2>1, <2>2
  <1>5. CASE ~ (op[p].kind = "create" /\ config' # config)
    <2>1. op'[p] = op[p]  BY <1>1, <1>5
    <2>2. QED  BY <1>5, <2>1 DEF Work
  <1>6. QED  BY <1>4, <1>5

LEMMA AlterKeepsWork ==
    ASSUME Typed, NEW d \in Dirs, Alter(d), NEW p \in Processes
    PROVE  /\ Work(p)' = Work(p)
           /\ op[p].kind = "restore" => op'[p].disturbed = 1
           /\ op[p].kind # "restore" => op'[p] = op[p]
  <1>1. op'[p] = IF op[p].kind = "restore" THEN [op[p] EXCEPT !.disturbed = 1] ELSE op[p]
    BY DEF Alter
  <1>2. DOMAIN op[p] = DOMAIN Idle  BY DEF Typed, OpsAreTyped
  <1>3. "disturbed" \in DOMAIN op[p]  BY <1>2, TypesOfConstants
  <1>4. QED  BY <1>1, <1>3 DEF Work

(* A step of a command is of one process, which has no journal open.       *)
LEMMA StepsAreOfOne ==
    ASSUME IInv, HostInv, NEW p \in Processes, BackupStep(p) \/ Fault(p) \/ Crash(p)
    PROVE  /\ \A q \in Processes \ {p} : op'[q] = op[q] /\ host'[q] = host[q]
           /\ host'[p] = Closed \/ (host'[p] = host[p] /\ op[p] # Idle)
           /\ host' = host \/ host' = [host EXCEPT ![p] = Closed]
           /\ UNCHANGED <<config, version, edits>>
  <1>1. CASE BackupStep(p)
    <2>1. UNCHANGED <<config, version, host, edits>>
      BY ZenonT(60), <1>1
      DEF BackupStep, BeginCreate, BeginVerify, BeginRestore, OpenForBackup, MakeDirectory,
          TakeSnapshot, CopyConfig, WriteManifest, ReadManifest, CheckContents, CreateCompletes,
          VerifyReports, Reread, CopyFile, Publish, Refuse, Fail, hostVars
    <2>2. \/ host[p] = Closed
          \/ op[p] # Idle
      BY ZenonT(60), <1>1, TypesOfConstants
      DEF BackupStep, BeginCreate, BeginVerify, BeginRestore, Begin, OpenForBackup, MakeDirectory,
          TakeSnapshot, CopyConfig, WriteManifest, ReadManifest, CheckContents, CreateCompletes,
          VerifyReports, Reread, CopyFile, Publish, Refuse, At, None
    <2>3. \A q \in Processes \ {p} : op'[q] = op[q]
      BY <1>1
      DEF BackupStep, BeginCreate, BeginVerify, BeginRestore, Begin, OpenForBackup, MakeDirectory,
          TakeSnapshot, CopyConfig, WriteManifest, ReadManifest, CheckContents, CreateCompletes,
          VerifyReports, Reread, CopyFile, Publish, Refuse, Fail, GoTo, Ended, IInv, Shape
    <2>4. QED  BY SMTT(40), <2>1, <2>2, <2>3
  <1>2. CASE Fault(p)
    BY <1>2 DEF Fault, Ended, IInv, Shape
  <1>3. CASE Crash(p)
    BY <1>3 DEF Crash, Ended, IInv, Shape, HostInv, HostIsTyped
  <1>4. QED  BY <1>1, <1>2, <1>3

LEMMA HostStepsAreOfOne ==
    ASSUME Typed, HostInv, NEW p \in Processes, HostStep(p)
    PROVE  /\ \A q \in Processes \ {p} : host'[q] = host[q]
           /\ op'[p] = Idle
           /\ DOMAIN host' = Processes
  <1>1. \A q \in Processes \ {p} : host'[q] = host[q]
    BY DEF HostStep, OpenHost, Invoke, CloseHost, TruncateMissing, InitWorkspace, InitFails, HostInv,
           HostIsTyped
  <1>2. op[p] = Idle /\ Noticed  BY DEF HostStep
  <1>3. op'[p] = op[p]  BY <1>2, NoticedKeepsWork, TypesOfConstants DEF None
  <1>4. DOMAIN host' = Processes
    BY DEF HostStep, OpenHost, Invoke, CloseHost, TruncateMissing, InitWorkspace, InitFails, HostInv,
           HostIsTyped
  <1>5. QED  BY <1>1, <1>2, <1>3, <1>4

LEMMA HostStepHost ==
    ASSUME IInv, Typed, HostInv, NEW p \in Processes, HostStep(p)
    PROVE  HostInv'
  <1>1. HostIsTyped'  BY HostStepTyped
  <1>2. \A q \in Processes : Work(q)' = Work(q)  BY NoticedKeepsWork DEF HostStep
  <1>3. LocksAreHeld'
    <2> SUFFICES ASSUME NEW q \in Processes
                 PROVE  /\ host'[q].role = "canonical" => lock'[host'[q].path] = q
                        /\ op'[q].kind = "create" /\ op'[q].step # "open" =>
                             op'[q].from \in Paths /\ lock'[op'[q].from] = q
      BY DEF LocksAreHeld
    <2>1. CASE q # p
      <3>1. host'[q] = host[q]  BY <2>1, HostStepsAreOfOne
      <3>2. host[q].role = "canonical" => host[q].path \in Paths /\ lock[host[q].path] = q
        BY ClosedIsNobody DEF HostInv, LocksAreHeld, HostIsTyped, HostTypeOK, None
      <3>3. /\ op'[q].kind = op[q].kind /\ op'[q].step = op[q].step /\ op'[q].from = op[q].from
        BY <1>2 DEF Work
      <3>4. op[q].kind = "create" /\ op[q].step # "open" =>
              op[q].from \in Paths /\ lock[op[q].from] = q
        BY DEF HostInv, LocksAreHeld
      <3>5. QED  BY <2>1, <3>1, <3>2, <3>3, <3>4, LocksOfOthers
    <2>2. CASE q = p
      <3>1. op'[p].kind # "create"  BY HostStepsAreOfOne, TypesOfConstants DEF None
      <3>2. CASE \E selected, doing : OpenHost(p, selected, doing)
        <4>1. PICK selected, doing : OpenHost(p, selected, doing)  BY <3>2
        <4> DEFINE entry == JournalOf(LoadOrDefault, selected)
        <4>2. entry.path \in Paths  BY <4>1, LoadedJournal DEF OpenHost
        <4>3. /\ host' = [host EXCEPT ![p] = HostOf(entry.role, entry.path, doing)]
              /\ lock' = IF entry.role = "canonical"
                         THEN [lock EXCEPT ![entry.path] = p] ELSE lock
          BY <4>1 DEF OpenHost
        <4> HIDE DEF entry
        <4>4. QED
          BY <2>2, <3>1, <4>2, <4>3 DEF HostOf, HostInv, HostIsTyped, HostTypeOK
      <3>3. CASE CloseHost(p) \/ InitWorkspace(p) \/ InitFails(p)
        <4>1. host'[p] = Closed
          BY <3>3 DEF CloseHost, InitWorkspace, InitFails, HostInv, HostIsTyped
        <4>2. QED  BY <2>2, <3>1, <4>1, ClosedIsNobody DEF None
      <3>4. CASE Invoke(p) \/ TruncateMissing(p)
        <4>1. /\ host'[p].role = host[p].role /\ host'[p].path = host[p].path
              /\ lock' = lock
          BY <3>4 DEF Invoke, TruncateMissing, HostInv, HostIsTyped
        <4>2. QED  BY <2>2, <3>1, <4>1 DEF HostInv, LocksAreHeld
      <3>5. QED  BY <3>2, <3>3, <3>4 DEF HostStep
    <2>3. QED  BY <2>1, <2>2
  <1>4. BusyAreClosed'
    <2>1. ASSUME NEW q \in Processes \ {p}, op'[q] # Idle PROVE host'[q] = Closed
      <3>1. op[q] # Idle
        BY <2>1, NoticedKeepsWork, TypesOfConstants DEF HostStep, None
      <3>2. QED  BY <3>1, HostStepsAreOfOne DEF HostInv, BusyAreClosed
    <2>2. QED  BY <2>1, HostStepsAreOfOne DEF BusyAreClosed
  <1>5. QED  BY <1>1, <1>3, <1>4 DEF HostInv

LEMMA CommandStepHost ==
    ASSUME IInv, Typed, HostInv, NEW p \in Processes, BackupStep(p) \/ Fault(p) \/ Crash(p)
    PROVE  HostInv'
  <1>1. HostIsTyped'
    <2>1. lock' \in [Paths -> Processes \union {None}]
      <3>1. lock \in [Paths -> Processes \union {None}]
        BY DEF HostInv, HostIsTyped, HostTypeOK
      <3>2. CASE OpenForBackup(p)
        BY <3>1, <3>2 DEF OpenForBackup
      <3>3. CASE CreateCompletes(p) \/ Refuse(p) \/ Fault(p) \/ Crash(p)
        BY <3>1, <3>3 DEF CreateCompletes, Refuse, Fail, Fault, Crash, Unlocked
      <3>4. CASE BackupStep(p) /\ ~ (OpenForBackup(p) \/ CreateCompletes(p) \/ Refuse(p))
        BY <3>1, <3>4
        DEF BackupStep, BeginCreate, BeginVerify, BeginRestore, MakeDirectory, TakeSnapshot,
            CopyConfig, WriteManifest, ReadManifest, CheckContents, VerifyReports, Reread, CopyFile,
            Publish, hostVars
      <3>5. QED  BY <3>2, <3>3, <3>4
    <2>2. /\ DOMAIN host' = Processes
          /\ \A q \in Processes : host'[q] = host[q] \/ host'[q] = Closed
          /\ UNCHANGED <<config, version, edits>>
      BY StepsAreOfOne DEF HostInv, HostIsTyped
    <2>3. QED  BY <2>1, <2>2, ClosedIsNobody DEF HostInv, HostIsTyped, HostTypeOK
  <1>2. host'[p] = Closed
    BY StepsAreOfOne DEF HostInv, BusyAreClosed
  <1>3. LocksAreHeld'
    <2> SUFFICES ASSUME NEW q \in Processes
                 PROVE  /\ host'[q].role = "canonical" => lock'[host'[q].path] = q
                        /\ op'[q].kind = "create" /\ op'[q].step # "open" =>
                             op'[q].from \in Paths /\ lock'[op'[q].from] = q
      BY DEF LocksAreHeld
    <2>1. CASE q # p
      <3>1. host'[q] = host[q] /\ op'[q] = op[q]  BY <2>1, StepsAreOfOne
      <3>2. host[q].role = "canonical" => host[q].path \in Paths /\ lock[host[q].path] = q
        BY ClosedIsNobody DEF HostInv, LocksAreHeld, HostIsTyped, HostTypeOK, None
      <3>3. op[q].kind = "create" /\ op[q].step # "open" =>
              op[q].from \in Paths /\ lock[op[q].from] = q
        BY DEF HostInv, LocksAreHeld
      <3>4. QED  BY <2>1, <3>1, <3>2, <3>3, LocksOfOthers
    <2>2. CASE q = p
      <3> DEFINE Goal == op'[p].kind = "create" /\ op'[p].step # "open" =>
                           op'[p].from \in Paths /\ lock'[op'[p].from] = p
      <3>1. ASSUME OpenForBackup(p) PROVE Goal
        <4>1. JournalOf(config, None).path \in Paths  BY <3>1, LoadedJournal DEF OpenForBackup
        <4>2. /\ lock' = [lock EXCEPT ![JournalOf(config, None).path] = p]
              /\ op'[p].from = JournalOf(config, None).path
          BY <3>1, TypesOfConstants DEF OpenForBackup, IInv, Shape, Typed, OpsAreTyped
        <4>3. QED  BY <4>1, <4>2 DEF HostInv, HostIsTyped, HostTypeOK
      <3>2. ASSUME Begins(p) PROVE Goal
        <4>1. CASE \E d \in Dirs : BeginCreate(p, d)
          <5>1. op'[p].step = "open"
            BY <4>1, TypesOfConstants DEF BeginCreate, Begin, IInv, Shape
          <5>2. QED  BY <5>1
        <4>2. CASE \E d \in Dirs, pin \in Pins : BeginVerify(p, d, pin)
          <5>1. op'[p].kind = "verify"
            BY <4>2, TypesOfConstants DEF BeginVerify, Begin, IInv, Shape
          <5>2. QED  BY <5>1
        <4>3. CASE \E d \in Dirs, pin \in Pins, r \in Roots : BeginRestore(p, d, r, pin)
          <5>1. op'[p].kind = "restore"
            BY <4>3, TypesOfConstants DEF BeginRestore, Begin, IInv, Shape
          <5>2. QED  BY <5>1
        <4>4. QED  BY <3>2, <4>1, <4>2, <4>3 DEF Begins
      <3>3. ASSUME \/ MakeDirectory(p) \/ TakeSnapshot(p) \/ CopyConfig(p) \/ WriteManifest(p)
                   \/ ReadManifest(p) \/ CheckContents(p) \/ Reread(p) \/ CopyFile(p)
            PROVE  Goal
        <4>1. /\ op'[p].kind = op[p].kind /\ op'[p].from = op[p].from /\ op[p].step # "open"
              /\ lock' = lock
          BY <3>3, TypesOfConstants
          DEF MakeDirectory, TakeSnapshot, CopyConfig, WriteManifest, ReadManifest, CheckContents,
              Reread, CopyFile, At, GoTo, hostVars, IInv, Shape, Typed, OpsAreTyped
        <4>2. QED  BY <4>1 DEF HostInv, LocksAreHeld
      <3>4. ASSUME \/ CreateCompletes(p) \/ VerifyReports(p) \/ Publish(p) \/ Refuse(p)
                   \/ Fault(p) \/ Crash(p)
            PROVE  Goal
        <4>1. op'[p] = Idle
          BY <3>4
          DEF CreateCompletes, VerifyReports, Publish, Refuse, Fail, Fault, Crash, Ended, IInv, Shape
        <4>2. QED  BY <4>1, TypesOfConstants DEF None
      <3>5. Goal  BY <3>1, <3>2, <3>3, <3>4 DEF BackupStep, Begins
      <3>6. QED  BY <1>2, <2>2, <3>5, ClosedIsNobody DEF None
    <2>3. QED  BY <2>1, <2>2
  <1>4. BusyAreClosed'
    BY <1>2, StepsAreOfOne DEF HostInv, BusyAreClosed
  <1>5. QED  BY <1>1, <1>3, <1>4 DEF HostInv

LEMMA SameHost ==
    ASSUME HostInv, UNCHANGED <<version, lock, host>>, HostTypeOK',
           \A p \in Processes : Work(p)' = Work(p) /\ (op[p] = Idle => op'[p] = Idle)
    PROVE  HostInv'
  <1>1. HostIsTyped'  BY DEF HostInv, HostIsTyped
  <1>2. LocksAreHeld'  BY DEF HostInv, LocksAreHeld, Work
  <1>3. BusyAreClosed'  BY DEF HostInv, BusyAreClosed
  <1>4. QED  BY <1>1, <1>2, <1>3 DEF HostInv

LEMMA NextHost == IInv /\ Typed /\ HostInv /\ [Next]_vars => HostInv'
  <1> SUFFICES ASSUME IInv, Typed, HostInv, [Next]_vars PROVE HostInv'  OBVIOUS
  <1>1. ASSUME NEW p \in Processes, HostStep(p) PROVE HostInv'
    BY <1>1, HostStepHost
  <1>2. ASSUME NEW p \in Processes, BackupStep(p) \/ Fault(p) \/ Crash(p) PROVE HostInv'
    BY <1>2, CommandStepHost
  <1>3. ASSUME NEW d \in Dirs, Alter(d) PROVE HostInv'
    <2>1. UNCHANGED hostVars  BY <1>3 DEF Alter
    <2>2. HostTypeOK'  BY <2>1 DEF HostInv, HostIsTyped, HostTypeOK, hostVars
    <2>3. \A p \in Processes : Work(p)' = Work(p) /\ (op[p] = Idle => op'[p] = Idle)
      BY <1>3, AlterKeepsWork, TypesOfConstants DEF None
    <2>4. QED  BY <2>1, <2>2, <2>3, SameHost DEF hostVars
  <1>4. CASE Edit
    <2>1. UNCHANGED <<version, lock, host>> /\ edits' \in 0..MaxEdits
      BY <1>4, HostAssumption DEF Edit, EditConfig, HostInv, HostIsTyped, HostTypeOK
    <2>2. HostTypeOK'  BY <1>4, <2>1 DEF Edit, EditConfig, HostInv, HostIsTyped, HostTypeOK
    <2>3. \A p \in Processes : Work(p)' = Work(p) /\ (op[p] = Idle => op'[p] = Idle)
      BY <1>4, NoticedKeepsWork, TypesOfConstants DEF Edit, None
    <2>4. QED  BY <2>1, <2>2, <2>3, SameHost
  <1>5. CASE UNCHANGED vars
    <2>1. HostTypeOK'  BY <1>5 DEF vars, hostVars, HostInv, HostIsTyped, HostTypeOK
    <2>2. QED  BY <1>5, <2>1, SameHost DEF vars, hostVars, Work
  <1>6. QED  BY <1>1, <1>2, <1>3, <1>4, <1>5 DEF Next

(* What a process has open: the journal it serves as canonical, and the    *)
(* one its running create has locked (open_workspace_store).               *)
HasOpen(p, path) ==
    \/ host[p].role = "canonical" /\ host[p].path = path
    \/ op[p].kind = "create" /\ op[p].step # "open" /\ op[p].from = path

(* A canonical journal is open in one process at a time, and a backup of   *)
(* it takes the same lock (JournalStore, open_workspace_store).            *)
OneWriterAtATime ==
    \A p, q \in Processes, path \in Paths : HasOpen(p, path) /\ HasOpen(q, path) => p = q

(* No two processes have the same canonical journal open, whether to serve *)
(* it or to back it up (src/store.rs, open_workspace_store).               *)
THEOREM OneWriter == Spec => []OneWriterAtATime
  <1>1. HostInv => OneWriterAtATime  BY DEF HostInv, LocksAreHeld, OneWriterAtATime, HasOpen
  <1>2. IInv /\ Typed /\ HostInv /\ [Next]_vars => (IInv /\ Typed /\ HostInv)'
    BY NextHolds, NextTyped, NextHost
  <1>3. Init => IInv /\ Typed /\ HostInv  BY InitHolds, InitTyped, InitHost
  <1>4. QED  BY <1>1, <1>2, <1>3, PTL DEF Spec

-----------------------------------------------------------------------------
(* What a create writes                                                    *)

CreateSteps == {"open", "make", "snapshot", "config", "manifest", "verify", "files", "verified"}
Copied == {"manifest", "verify", "files", "verified"}
Written == {"verify", "files", "verified"}

(* What a create has put into its directory.  The journal cannot grow      *)
(* while its backup is made.                                               *)
Holds(p) ==
    op[p].kind = "create" =>
        LET d == op[p].dest  step == op[p].step IN
        /\ step \in CreateSteps /\ d \in Dirs /\ op[p].pin = 0
        /\ op[p].made <=> step \notin {"open", "make"}
        /\ op[p].made => ~ dir[d].extra
        /\ step \in {"snapshot", "config", "manifest"} => dir[d].manifest = NoManifest
        /\ step \in {"config"} \union Copied =>
             /\ op[p].files = SnapshotOf(op[p].from, version[op[p].from])
             /\ dir[d].store = op[p].files
        /\ step \in Copied => dir[d].config = op[p].config
        /\ step \in Written =>
             dir[d].manifest = ManifestOf(op[p].id, d, op[p].path, op[p].files, op[p].config)
        /\ step \in {"files", "verified"} => op[p].manifest = dir[d].manifest
        /\ step = "verified" /\ op[p].fits => ConfigFits(d, op[p].manifest)

AllHold == \A p \in Processes : Holds(p)

-----------------------------------------------------------------------------
LEMMA MadeIsLeft ==
    ASSUME IInv, [Next]_vars, NEW q \in Processes, NEW d \in Dirs, Making(q, d),
           op'[q].step = op[q].step, op'[q].kind = op[q].kind
    PROVE  dir'[d] = dir[d]
  <1>1. /\ op[q].kind = "create" /\ op[q].dest = d /\ op[q].made /\ dir[d].there
    BY DEF Making, IInv, MadeIsThere
  <1>2. ASSUME NEW p \in Processes, Fills(p) PROVE dir'[d] = dir[d]
    <2>1. CASE p = q
      BY <1>2, <2>1 DEF Fills, TakeSnapshot, CopyConfig, WriteManifest, At, GoTo, IInv, Shape
    <2>2. CASE p # q
      <3>1. d # op[p].dest  BY <1>2, <2>2, FillsItsOwn DEF IInv, OneMaker
      <3>2. QED  BY <1>2, <3>1, FillsItsOwn
    <2>3. QED  BY <2>1, <2>2
  <1>3. ASSUME NEW p \in Processes, MakeDirectory(p) PROVE dir'[d] = dir[d]
    BY <1>1, <1>3 DEF MakeDirectory, IInv, Shape
  <1>4. ASSUME NEW p \in Processes, op' = Ended(p), dir' = dir \/ dir' = Dropped(p)
        PROVE  dir'[d] = dir[d]
    <2>1. CASE p = q
      BY <1>1, <1>4, <2>1, IdleMakesNothing DEF Ended, IInv, Shape, None
    <2>2. CASE p # q
      BY <1>4, <2>2 DEF Dropped, Making, IInv, OneMaker, Shape
    <2>3. QED  BY <2>1, <2>2
  <1>5. ASSUME NEW e \in Dirs, Alter(e) PROVE dir'[d] = dir[d]
    BY <1>1, <1>5
    DEF Alter, Damage, Lose, Add, ChangeConfig, Replace, Move, IInv, Shape
  <1>6. ASSUME NEW p \in Processes, Ends(p) PROVE dir'[d] = dir[d]
    BY SMTT(40), <1>4, <1>6 DEF Ends, CreateCompletes, VerifyReports, Refuse, Fail, Fault, Crash
  <1>7. ASSUME NEW p \in Processes, Onward(p) \/ Publish(p) \/ Begins(p) PROVE dir' = dir
    BY <1>7
    DEF Onward, OpenForBackup, ReadManifest, CheckContents, Reread, CopyFile, Publish, Begins,
        BeginCreate, BeginVerify, BeginRestore
  <1>8. ASSUME NEW p \in Processes, BackupStep(p) PROVE dir'[d] = dir[d]
    BY <1>2, <1>3, <1>6, <1>7, <1>8 DEF BackupStep, Fills, Onward, Ends, Begins
  <1>9. ASSUME NEW p \in Processes, HostStep(p) PROVE dir'[d] = dir[d]  BY <1>9 DEF HostStep
  <1>10. ASSUME Edit \/ UNCHANGED vars PROVE dir'[d] = dir[d]  BY <1>10 DEF Edit, vars
  <1>11. QED  BY <1>5, <1>6, <1>8, <1>9, <1>10 DEF Next, Ends

(* The lock of a create keeps the journal as it is (TexoHost::drop).       *)
LEMMA CopiedIsStill ==
    ASSUME IInv, Typed, HostInv, [Next]_vars, NEW q \in Processes, op[q].kind = "create", op[q].step # "open"
    PROVE  version'[op[q].from] = version[op[q].from]
  <1>1. lock[op[q].from] = q  BY DEF HostInv, LocksAreHeld
  <1>2. ASSUME NEW p \in Processes, HostStep(p), Append(p)
        PROVE  version'[op[q].from] = version[op[q].from]
    <2>1. p # q  BY <1>2, TypesOfConstants DEF HostStep, None
    <2>2. lock[host[p].path] = p
      BY <1>2 DEF Append, HasWriter, HostInv, LocksAreHeld
    <2>3. host[p].path # op[q].from  BY <1>1, <2>1, <2>2
    <2>4. version' = [version EXCEPT ![host[p].path] = @ + 1]  BY <1>2 DEF Append
    <2>5. op[q].from \in Paths /\ DOMAIN version = Paths
      BY DEF HostInv, LocksAreHeld, HostIsTyped, HostTypeOK
    <2>6. QED  BY <2>3, <2>4, <2>5
  <1>3. ASSUME NEW p \in Processes, HostStep(p), ~ Append(p) PROVE UNCHANGED version
    BY <1>3 DEF HostStep, OpenHost, Invoke, CloseHost, TruncateMissing, InitWorkspace, InitFails
  <1>4. ASSUME NEW p \in Processes, BackupStep(p) \/ Fault(p) \/ Crash(p) PROVE UNCHANGED version
    BY <1>4, StepsAreOfOne
  <1>5. ASSUME NEW d \in Dirs, Alter(d) PROVE UNCHANGED version  BY <1>5 DEF Alter, hostVars
  <1>6. ASSUME Edit \/ UNCHANGED vars PROVE UNCHANGED version
    BY <1>6 DEF Edit, EditConfig, vars, hostVars
  <1>7. QED  BY <1>2, <1>3, <1>4, <1>5, <1>6 DEF Next

(* A command that this step is not of                                      *)
LEMMA OthersHold ==
    ASSUME IInv, Typed, HostInv, [Next]_vars, NEW q \in Processes, Holds(q), Work(q)' = Work(q)
    PROVE  Holds(q)'
  <1> SUFFICES ASSUME op'[q].kind = "create" PROVE Holds(q)'  BY DEF Holds
  <1> DEFINE d == op[q].dest
  <1>1. /\ op'[q].kind = op[q].kind /\ op'[q].step = op[q].step /\ op'[q].id = op[q].id
        /\ op'[q].dest = op[q].dest /\ op'[q].pin = op[q].pin /\ op'[q].path = op[q].path
        /\ op'[q].from = op[q].from /\ op'[q].files = op[q].files
        /\ op'[q].manifest = op[q].manifest /\ op'[q].config = op[q].config
        /\ op'[q].fits = op[q].fits /\ op'[q].made = op[q].made
    BY DEF Work
  <1>2. d \in Dirs  BY <1>1 DEF Holds
  <1>3. op[q].made => dir'[d] = dir[d]
    BY <1>1, <1>2, MadeIsLeft DEF Making
  <1>4. op[q].step # "open" => version'[op[q].from] = version[op[q].from]
    BY <1>1, CopiedIsStill
  <1>5. CASE ~ op[q].made
    BY <1>1, <1>2, <1>5 DEF Holds, Copied, Written, CreateSteps
  <1>6. CASE op[q].made
    <2>1. dir'[d] = dir[d] /\ version'[op[q].from] = version[op[q].from]
      BY <1>1, <1>3, <1>4, <1>6 DEF Holds
    <2>2. ConfigFits(d, op[q].manifest)' <=> ConfigFits(d, op[q].manifest)
      BY <1>1, <2>1 DEF ConfigFits, ConfigMatches
    <2> HIDE DEF d
    <2>3. QED  BY <1>1, <1>2, <1>6, <2>1, <2>2 DEF Holds, d
  <1>7. QED  BY <1>5, <1>6

(* The steps of a create                                                   *)
LEMMA BeginsHold ==
    ASSUME IInv, Typed, NEW p \in Processes, Begins(p)
    PROVE  Holds(p)'
  <1>1. CASE \E d \in Dirs : BeginCreate(p, d)
    <2>1. PICK d \in Dirs : BeginCreate(p, d)  BY <1>1
    <2>2. op'[p] = [Idle EXCEPT !.kind = "create", !.step = "open", !.dest = d, !.id = commands + 2,
                                !.path = JournalOf(config, None).path]
      BY <2>1 DEF BeginCreate, Begin, IInv, Shape
    <2>3. /\ op'[p].step = "open" /\ op'[p].dest = d /\ op'[p].pin = 0 /\ ~ op'[p].made
      BY <2>2, TypesOfConstants
    <2>4. QED  BY <2>3 DEF Holds, CreateSteps, Copied, Written
  <1>2. CASE \E d \in Dirs, pin \in Pins : BeginVerify(p, d, pin)
    <2>1. op'[p].kind = "verify"
      BY <1>2, TypesOfConstants DEF BeginVerify, Begin, IInv, Shape
    <2>2. QED  BY <2>1 DEF Holds
  <1>3. CASE \E d \in Dirs, pin \in Pins, r \in Roots : BeginRestore(p, d, r, pin)
    <2>1. op'[p].kind = "restore"
      BY <1>3, TypesOfConstants DEF BeginRestore, Begin, IInv, Shape
    <2>2. QED  BY <2>1 DEF Holds
  <1>4. QED  BY <1>1, <1>2, <1>3 DEF Begins

LEMMA OnwardHold ==
    ASSUME IInv, Typed, HostInv, NEW p \in Processes, Holds(p), Onward(p)
    PROVE  Holds(p)'
  <1> SUFFICES ASSUME op'[p].kind = "create" PROVE Holds(p)'  BY DEF Holds
  <1> DEFINE d == op[p].dest
  <1>1. UNCHANGED <<dir, version>>
    BY DEF Onward, OpenForBackup, ReadManifest, CheckContents, Reread, CopyFile, hostVars
  <1>2. /\ op'[p].kind = op[p].kind /\ op'[p].dest = d /\ op'[p].made = op[p].made
        /\ op'[p].pin = op[p].pin /\ op'[p].id = op[p].id /\ op'[p].path = op[p].path
        /\ op'[p].files = op[p].files
    BY TypesOfConstants
    DEF Onward, OpenForBackup, ReadManifest, CheckContents, Reread, CopyFile, IInv, Shape, Typed,
        OpsAreTyped
  <1>3. op[p].kind = "create" /\ op[p].step \in CreateSteps /\ d \in Dirs
    BY <1>2 DEF Holds
  <1>4. CASE OpenForBackup(p)
    <2>1. op[p].step = "open" /\ op'[p].step = "make"
      BY <1>4, TypesOfConstants DEF OpenForBackup, At, IInv, Shape, Typed, OpsAreTyped
    <2>2. QED  BY <1>2, <1>3, <2>1 DEF Holds, CreateSteps, Copied, Written
  <1>5. CASE ReadManifest(p)
    <2>1. /\ op[p].step = "verify" /\ op'[p].step = "files" /\ op'[p].manifest = dir[d].manifest
          /\ op'[p].config = op[p].config /\ op'[p].from = op[p].from
      BY <1>5, TypesOfConstants DEF ReadManifest, At, IInv, Shape, Typed, OpsAreTyped
    <2> HIDE DEF d
    <2>2. QED  BY <1>1, <1>2, <1>3, <2>1 DEF Holds, CreateSteps, Copied, Written, d
  <1>6. CASE CheckContents(p)
    <2>1. /\ op[p].step = "files" /\ op'[p].step = "verified" /\ op'[p].manifest = op[p].manifest
          /\ op'[p].config = op[p].config /\ op'[p].from = op[p].from
          /\ op'[p].fits => ConfigFits(d, op[p].manifest)
      BY <1>6, TypesOfConstants DEF CheckContents, At, IInv, Shape, Typed, OpsAreTyped
    <2>2. ConfigFits(d, op[p].manifest)' <=> ConfigFits(d, op[p].manifest)
      BY <1>1, <1>2, <2>1 DEF ConfigFits, ConfigMatches
    <2> HIDE DEF d
    <2>3. QED  BY <1>1, <1>2, <1>3, <2>1, <2>2 DEF Holds, CreateSteps, Copied, Written, d
  <1>7. ~ Reread(p)  BY <1>3 DEF Reread
  <1>8. ~ CopyFile(p)  BY <1>3 DEF CopyFile, At, CreateSteps
  <1>9. QED  BY <1>4, <1>5, <1>6, <1>7, <1>8 DEF Onward

LEMMA MakeDirectoryHold ==
    ASSUME IInv, Typed, NEW p \in Processes, Holds(p), MakeDirectory(p)
    PROVE  Holds(p)'
  <1> DEFINE d == op[p].dest
  <1>1. op[p].step = "make" /\ op[p].kind = "create" /\ d \in Dirs
    BY DEF MakeDirectory, At, IInv, StepsOfCreate
  <1>2. /\ op'[p].step = "snapshot" /\ op'[p].made /\ op'[p].dest = d /\ op'[p].pin = op[p].pin
    BY TypesOfConstants DEF MakeDirectory, IInv, Shape, Typed, OpsAreTyped
  <1>3. dir'[d].manifest = NoManifest /\ ~ dir'[d].extra
    BY <1>1, TypesOfConstants DEF MakeDirectory, IInv, Shape
  <1> HIDE DEF d
  <1>4. QED  BY <1>1, <1>2, <1>3 DEF Holds, CreateSteps, Copied, Written

LEMMA FillsHold ==
    ASSUME IInv, Typed, NEW p \in Processes, Holds(p), Fills(p)
    PROVE  Holds(p)'
  <1> DEFINE d == op[p].dest
  <1>1. op[p].kind = "create" /\ d \in Dirs /\ op[p].made /\ UNCHANGED version
    BY DEF Fills, TakeSnapshot, CopyConfig, WriteManifest, At, IInv, StepsOfCreate, hostVars
  <1>2. /\ op'[p].kind = op[p].kind /\ op'[p].dest = d /\ op'[p].made = op[p].made
        /\ op'[p].pin = op[p].pin /\ op'[p].id = op[p].id /\ op'[p].path = op[p].path
        /\ op'[p].from = op[p].from
    BY TypesOfConstants
    DEF Fills, TakeSnapshot, CopyConfig, WriteManifest, GoTo, IInv, Shape, Typed, OpsAreTyped
  <1>3. DOMAIN dir[d] = {"there", "store", "config", "manifest", "extra"} /\ d \in DOMAIN dir
    BY <1>1, TypesOfConstants DEF Typed, DirsAreTyped, IInv, Shape
  <1>4. CASE TakeSnapshot(p)
    <2> DEFINE store == SnapshotOf(op[p].from, version[op[p].from])
    <2>1. /\ op[p].step = "snapshot"
          /\ dir' = [dir EXCEPT ![d].store = store]
          /\ op' = [op EXCEPT ![p].step = "config", ![p].files = store]
      BY <1>4 DEF TakeSnapshot, At
    <2>2. op'[p].files = store /\ op'[p].step = "config"
      BY <2>1, TypesOfConstants DEF IInv, Shape, Typed, OpsAreTyped
    <2>3. /\ dir'[d].store = store /\ dir'[d].manifest = dir[d].manifest
          /\ dir'[d].extra = dir[d].extra
      BY <1>3, <2>1
    <2>4. store = SnapshotOf(op'[p].from, version'[op'[p].from])  BY <1>1, <1>2
    <2> HIDE DEF store, d
    <2>5. QED
      BY <1>1, <1>2, <2>1, <2>2, <2>3, <2>4 DEF Holds, CreateSteps, Copied, Written, d
  <1>5. CASE CopyConfig(p)
    <2>1. /\ op[p].step = "config" /\ op'[p].step = "manifest" /\ op'[p].files = op[p].files
          /\ op'[p].config = config
      BY <1>5, TypesOfConstants DEF CopyConfig, At, IInv, Shape, Typed, OpsAreTyped
    <2>2. /\ dir'[d].store = dir[d].store /\ dir'[d].manifest = dir[d].manifest
          /\ dir'[d].extra = dir[d].extra /\ dir'[d].config = config
      BY <1>3, <1>5 DEF CopyConfig
    <2> HIDE DEF d
    <2>3. QED  BY <1>1, <1>2, <2>1, <2>2 DEF Holds, CreateSteps, Copied, Written, d
  <1>6. CASE WriteManifest(p)
    <2> DEFINE m == ManifestOf(op[p].id, d, op[p].path, op[p].files, op[p].config)
    <2>1. /\ op[p].step = "manifest" /\ op'[p].step = "verify" /\ op'[p].files = op[p].files
          /\ op'[p].config = op[p].config
      BY <1>6, TypesOfConstants DEF WriteManifest, At, GoTo, IInv, Shape, Typed, OpsAreTyped
    <2>2. dir' = [dir EXCEPT ![d].manifest = m]  BY <1>6 DEF WriteManifest
    <2>3. m = ManifestOf(op'[p].id, d, op'[p].path, op'[p].files, op'[p].config)
      BY <1>2, <2>1
    <2> HIDE DEF m
    <2>4. /\ dir'[d].store = dir[d].store /\ dir'[d].manifest = m
          /\ dir'[d].extra = dir[d].extra /\ dir'[d].config = dir[d].config
      BY <1>3, <2>2
    <2> HIDE DEF d
    <2>5. QED  BY <1>1, <1>2, <2>1, <2>3, <2>4 DEF Holds, CreateSteps, Copied, Written, d
  <1>7. QED  BY <1>4, <1>5, <1>6 DEF Fills

LEMMA InitHold == Init => AllHold
  BY TypesOfConstants DEF Init, AllHold, Holds, None

LEMMA NextHold == IInv /\ Typed /\ HostInv /\ AllHold /\ [Next]_vars => AllHold'
  <1> SUFFICES ASSUME IInv, Typed, HostInv, AllHold, [Next]_vars, NEW q \in Processes
               PROVE  Holds(q)'
    BY DEF AllHold
  <1>1. Holds(q)  BY DEF AllHold
  <1>2. ASSUME op'[q] = op[q] PROVE Holds(q)'
    BY <1>1, <1>2, OthersHold DEF Work
  <1>3. ASSUME NEW p \in Processes, HostStep(p) PROVE Holds(q)'
    BY <1>1, <1>3, NoticedKeepsWork, OthersHold DEF HostStep
  <1>4. ASSUME NEW d \in Dirs, Alter(d) PROVE Holds(q)'
    BY <1>1, <1>4, AlterKeepsWork, OthersHold
  <1>5. ASSUME NEW p \in Processes, BackupStep(p) \/ Fault(p) \/ Crash(p) PROVE Holds(q)'
    <2>1. CASE p # q  BY <1>2, <1>5, <2>1, StepsAreOfOne
    <2>2. CASE p = q
      <3>1. CASE Ends(q) \/ Publish(q)
        <4>1. op'[q] = Idle
          BY <3>1
          DEF Ends, CreateCompletes, VerifyReports, Publish, Refuse, Fail, Fault, Crash, Ended, IInv,
              Shape
        <4>2. QED  BY <4>1, TypesOfConstants DEF Holds, None
      <3>2. QED
        BY <1>1, <1>5, <2>2, <3>1, BeginsHold, OnwardHold, MakeDirectoryHold, FillsHold
        DEF BackupStep, Fills, Onward, Ends, Begins
    <2>3. QED  BY <2>1, <2>2
  <1>6. CASE Edit  BY <1>1, <1>6, NoticedKeepsWork, OthersHold DEF Edit
  <1>7. CASE UNCHANGED vars  BY <1>2, <1>7 DEF vars
  <1>8. QED  BY <1>3, <1>4, <1>5, <1>6, <1>7 DEF Next

-----------------------------------------------------------------------------
(* What a create follows, and what it reports                              *)

(* Which change of the configuration a create can have missed.  The store  *)
(* path of the manifest is the one that was copied, or the configuration   *)
(* in the backup names the one that was copied, or it changed twice.       *)
Follows(p) ==
    op[p].kind = "create" =>
        /\ op[p].step = "open" /\ op[p].disturbed = 0 =>
             op[p].path = JournalOf(config, None).path
        /\ op[p].step \in {"make", "snapshot", "config"} =>
             \/ op[p].path = op[p].from
             \/ op[p].disturbed >= 2
             \/ op[p].disturbed = 1 /\ JournalOf(config, None).path = op[p].from
        /\ op[p].step \in Copied =>
             \/ op[p].path = op[p].from
             \/ op[p].disturbed >= 2
             \/ JournalOf(op[p].config, None).path = op[p].from

AllFollow == \A p \in Processes : Follows(p)

LEMMA QuietFollows ==
    ASSUME Typed, NEW q \in Processes, Follows(q), Work(q)' = Work(q),
           op'[q] = op[q] \/ op'[q].disturbed = op[q].disturbed + 1,
           op[q].kind = "create" /\ config' # config => op'[q].disturbed = op[q].disturbed + 1
    PROVE  Follows(q)'
  <1>1. /\ op'[q].kind = op[q].kind /\ op'[q].step = op[q].step /\ op'[q].path = op[q].path
        /\ op'[q].from = op[q].from /\ op'[q].config = op[q].config
    BY DEF Work
  <1>2. op[q].disturbed \in Nat  BY DEF Typed, OpsAreTyped
  <1>3. CASE op'[q].disturbed = op[q].disturbed + 1
    BY <1>1, <1>2, <1>3 DEF Follows
  <1>4. CASE op'[q] = op[q]
    <2>1. op[q].disturbed # op[q].disturbed + 1  BY <1>2
    <2>2. op[q].kind = "create" => config' = config  BY <1>4, <2>1
    <2>3. QED  BY <1>4, <2>2 DEF Follows
  <1>5. QED  BY <1>3, <1>4

LEMMA StepFollows ==
    ASSUME IInv, Typed, NEW p \in Processes, Holds(p), Follows(p), BackupStep(p)
    PROVE  Follows(p)'
  <1> SUFFICES ASSUME op'[p].kind = "create" PROVE Follows(p)'  BY DEF Follows
  <1>1. op[p].disturbed \in Nat  BY DEF Typed, OpsAreTyped
  <1>2. CASE Begins(p)
    <2>1. CASE \E d \in Dirs : BeginCreate(p, d)
      <3>1. /\ op'[p].step = "open" /\ op'[p].path = JournalOf(config, None).path
            /\ UNCHANGED config
        BY <2>1, TypesOfConstants DEF BeginCreate, Begin, IInv, Shape, hostVars
      <3>2. QED  BY <3>1 DEF Follows, Copied
    <2>2. CASE \E d \in Dirs, pin \in Pins : BeginVerify(p, d, pin)
      BY <2>2, TypesOfConstants DEF BeginVerify, Begin, IInv, Shape
    <2>3. CASE \E d \in Dirs, pin \in Pins, r \in Roots : BeginRestore(p, d, r, pin)
      BY <2>3, TypesOfConstants DEF BeginRestore, Begin, IInv, Shape
    <2>4. QED  BY <1>2, <2>1, <2>2, <2>3 DEF Begins
  <1>3. CASE OpenForBackup(p)
    <2>1. /\ op[p].step = "open" /\ op'[p].step = "make"
          /\ op'[p].from = JournalOf(config, None).path /\ op'[p].path = op[p].path
          /\ op'[p].kind = op[p].kind /\ op'[p].disturbed = op[p].disturbed
          /\ UNCHANGED config
      BY <1>3, TypesOfConstants DEF OpenForBackup, At, IInv, Shape, Typed, OpsAreTyped
    <2>2. QED  BY <1>1, <2>1 DEF Follows, Copied
  <1>4. CASE CopyConfig(p)
    <2>1. /\ op[p].step = "config" /\ op'[p].step = "manifest"
          /\ op'[p].from = op[p].from /\ op'[p].path = op[p].path
          /\ op'[p].kind = op[p].kind /\ op'[p].disturbed = op[p].disturbed
          /\ op'[p].config = config
      BY <1>4, TypesOfConstants DEF CopyConfig, At, IInv, Shape, Typed, OpsAreTyped
    <2>2. QED  BY <1>1, <2>1 DEF Follows, Copied
  <1>5. CASE MakeDirectory(p) \/ TakeSnapshot(p)
    <2>1. /\ op[p].step \in {"make", "snapshot"} /\ op'[p].step \in {"snapshot", "config"}
          /\ op'[p].from = op[p].from /\ op'[p].path = op[p].path
          /\ op'[p].kind = op[p].kind /\ op'[p].disturbed = op[p].disturbed
          /\ UNCHANGED config
      BY <1>5, TypesOfConstants
      DEF MakeDirectory, TakeSnapshot, At, IInv, Shape, Typed, OpsAreTyped, hostVars
    <2>2. QED  BY <1>1, <2>1 DEF Follows, Copied
  <1>6. CASE WriteManifest(p) \/ ReadManifest(p) \/ CheckContents(p)
    <2>1. /\ op[p].step \in Copied /\ op'[p].step \in Copied
          /\ op'[p].from = op[p].from /\ op'[p].path = op[p].path
          /\ op'[p].kind = op[p].kind /\ op'[p].disturbed = op[p].disturbed
          /\ op'[p].config = op[p].config
      BY <1>6, TypesOfConstants
      DEF WriteManifest, ReadManifest, CheckContents, At, GoTo, IInv, Shape, Typed, OpsAreTyped,
          Copied
    <2>2. QED  BY <1>1, <2>1 DEF Follows, Copied
  <1>7. CASE Reread(p) \/ CopyFile(p)
    <2>1. op'[p].kind = op[p].kind
      BY <1>7, TypesOfConstants DEF Reread, CopyFile, IInv, Shape, Typed, OpsAreTyped
    <2>2. QED  BY <1>7, <2>1 DEF Reread, CopyFile, At, Holds, CreateSteps
  <1>8. CASE CreateCompletes(p) \/ VerifyReports(p) \/ Publish(p) \/ Refuse(p)
    <2>1. op'[p] = Idle
      BY <1>8 DEF CreateCompletes, VerifyReports, Publish, Refuse, Fail, Ended, IInv, Shape
    <2>2. QED  BY <2>1, TypesOfConstants DEF None
  <1>9. QED  BY <1>2, <1>3, <1>4, <1>5, <1>6, <1>7, <1>8 DEF BackupStep, Begins

LEMMA NextFollow == IInv /\ Typed /\ HostInv /\ AllHold /\ AllFollow /\ [Next]_vars => AllFollow'
  <1> SUFFICES ASSUME IInv, Typed, HostInv, AllHold, AllFollow, [Next]_vars, NEW q \in Processes
               PROVE  Follows(q)'
    BY DEF AllFollow
  <1>1. Holds(q) /\ Follows(q)  BY DEF AllHold, AllFollow
  <1>2. ASSUME op'[q] = op[q], UNCHANGED config PROVE Follows(q)'
    BY <1>1, <1>2, QuietFollows DEF Work
  <1>3. CASE Edit \/ \E p \in Processes : HostStep(p)
    BY <1>1, <1>3, NoticedKeepsWork, QuietFollows DEF Edit, HostStep
  <1>4. ASSUME NEW d \in Dirs, Alter(d) PROVE Follows(q)'
    <2>1. Work(q)' = Work(q)  BY <1>4, AlterKeepsWork
    <2>2. op[q].kind # "restore" => op'[q] = op[q]  BY <1>4, AlterKeepsWork
    <2>3. UNCHANGED config  BY <1>4 DEF Alter, hostVars
    <2>4. CASE op[q].kind = "restore"
      BY <2>1, <2>4 DEF Follows, Work
    <2>5. QED  BY <1>2, <2>2, <2>3, <2>4
  <1>5. ASSUME NEW p \in Processes, BackupStep(p) \/ Fault(p) \/ Crash(p) PROVE Follows(q)'
    <2>1. CASE p # q  BY <1>2, <1>5, <2>1, StepsAreOfOne
    <2>2. CASE p = q
      <3>1. CASE Fault(q) \/ Crash(q)
        <4>1. op'[q] = Idle  BY <3>1 DEF Fault, Crash, Ended, IInv, Shape
        <4>2. QED  BY <4>1, TypesOfConstants DEF Follows, None
      <3>2. QED  BY <1>1, <1>5, <2>2, <3>1, StepFollows
    <2>3. QED  BY <2>1, <2>2
  <1>6. CASE UNCHANGED vars  BY <1>2, <1>6 DEF vars, hostVars
  <1>7. QED  BY <1>3, <1>4, <1>5, <1>6 DEF Next

-----------------------------------------------------------------------------
(* A reported backup names what it holds.                                  *)
Named(b) ==
    /\ b.from \in Paths
    /\ \E v \in 0..MaxVersion : b.manifest.files = SnapshotOf(b.from, v)
    /\ b.disturbed < 2 => b.manifest.path = b.from

(* What a backup is that nothing outside Texo has changed                  *)
Stands(b) ==
    LET d == b.manifest.at IN
    /\ d \in Dirs /\ dir[d].there /\ dir[d].manifest = b.manifest /\ ~ dir[d].extra
    /\ StoreFits(d, b.manifest) /\ ConfigFits(d, b.manifest) /\ Intact(dir[d].store)
    /\ \A p \in Processes : ~ Making(p, d)

AllNamed == \A b \in reported : Named(b)
AllStand == ~ altered => \A b \in reported : Stands(b)

LEMMA ReportedGrows ==
    ASSUME [Next]_vars
    PROVE  reported' = reported \/ \E p \in Processes : CreateCompletes(p)
  <1>1. ASSUME NEW p \in Processes, BackupStep(p), ~ CreateCompletes(p) PROVE UNCHANGED reported
    BY <1>1
    DEF BackupStep, BeginCreate, BeginVerify, BeginRestore, OpenForBackup, MakeDirectory,
        TakeSnapshot, CopyConfig, WriteManifest, ReadManifest, CheckContents,
        VerifyReports, Reread, CopyFile, Publish, Refuse, Fail
  <1>2. ASSUME NEW p \in Processes, HostStep(p) \/ Fault(p) \/ Crash(p) PROVE UNCHANGED reported
    BY <1>2 DEF HostStep, Fault, Crash
  <1>3. ASSUME NEW d \in Dirs, Alter(d) PROVE UNCHANGED reported  BY <1>3 DEF Alter
  <1>4. ASSUME Edit \/ UNCHANGED vars PROVE UNCHANGED reported  BY <1>4 DEF Edit, vars
  <1>5. QED  BY SMTT(40), <1>1, <1>2, <1>3, <1>4 DEF Next

LEMMA CompletedIsSound ==
    ASSUME IInv, Typed, HostInv, AllHold, AllFollow, NEW p \in Processes, CreateCompletes(p),
           NEW d, d = op[p].dest, NEW m, m = dir[d].manifest,
           NEW b, b = [manifest |-> m, from |-> op[p].from, disturbed |-> op[p].disturbed]
    PROVE  /\ reported' = reported \union {b}
           /\ m = ManifestOf(op[p].id, d, op[p].path, op[p].files, op[p].config)
           /\ Named(b) /\ Stands(b)'
  <1>1. /\ op[p].step = "verified" /\ op[p].kind = "create" /\ op[p].fits
        /\ reported' = reported \union {b}
        /\ op' = Ended(p) /\ UNCHANGED <<dir, version>>
    BY DEF CreateCompletes, At
  <1>2. /\ d \in Dirs /\ op[p].made /\ ~ dir[d].extra
        /\ op[p].files = SnapshotOf(op[p].from, version[op[p].from])
        /\ dir[d].store = op[p].files /\ dir[d].config = op[p].config
        /\ m = ManifestOf(op[p].id, d, op[p].path, op[p].files, op[p].config)
        /\ ConfigFits(d, m)
    BY <1>1 DEF AllHold, Holds, Copied, Written
  <1>3. Making(p, d) /\ dir[d].there  BY <1>1, <1>2 DEF Making, IInv, MadeIsThere
  <1>4. /\ m.at = d /\ m.path = op[p].path /\ m.files = op[p].files
    BY <1>2, ManifestsAreTyped
  <1>5. b.manifest = m /\ b.from = op[p].from /\ b.disturbed = op[p].disturbed
    OBVIOUS
  <1>6. op[p].from \in Paths /\ version[op[p].from] \in 0..MaxVersion
    BY <1>1 DEF HostInv, LocksAreHeld, HostIsTyped, HostTypeOK
  <1>7. op[p].disturbed < 2 => op[p].path = op[p].from
    <2>1. op[p].disturbed \in Nat  BY DEF Typed, OpsAreTyped
    <2>2. JournalOf(op[p].config, None).path = op[p].path
      BY <1>2, <1>4 DEF ConfigFits
    <2>3. QED  BY <1>1, <2>1, <2>2 DEF AllFollow, Follows, Copied
  <1>8. Intact(dir[d].store)
    BY <1>2, <1>6 DEF Intact
  <1>9. \A q \in Processes : ~ Making(q, d)'
    <2>1. \A q \in Processes : op'[q] = IF q = p THEN Idle ELSE op[q]
      BY <1>1 DEF Ended, IInv, Shape
    <2>2. ~ Making(p, d)'  BY <2>1, IdleMakesNothing DEF Making, None
    <2>3. ASSUME NEW q \in Processes \ {p} PROVE ~ Making(q, d)'
      BY <1>2, <1>3, <2>1 DEF Making, IInv, OneMaker
    <2>4. QED  BY <2>2, <2>3
  <1>10. Named(b)
    BY SMTT(40), <1>2, <1>4, <1>5, <1>6, <1>7 DEF Named
  <1>11. Stands(b)'
    <2>1. dir'[d] = dir[d]  BY <1>1
    <2>2. StoreFits(d, m)'  BY SMTT(40), <1>2, <1>4, <2>1 DEF StoreFits
    <2>3. ConfigFits(d, m)'  BY <1>2, <2>1 DEF ConfigFits, ConfigMatches
    <2>4. Intact(dir[d].store)'  BY <1>8, <2>1 DEF Intact
    <2>5. dir'[d].there /\ dir'[d].manifest = m /\ ~ dir'[d].extra
      BY <1>2, <1>3, <2>1
    <2>6. b.manifest = m /\ b.manifest.at = d  BY <1>4, <1>5
    <2>7. QED  BY <1>2, <1>9, <2>2, <2>3, <2>4, <2>5, <2>6 DEF Stands
  <1>12. QED  BY <1>1, <1>2, <1>10, <1>11

(* The steps of the others leave a reported backup as it is.               *)
LEMMA StandsStill ==
    ASSUME IInv, Typed, [Next]_vars, ~ \E e \in Dirs : Alter(e), NEW b, Stands(b)
    PROVE  Stands(b)'
  <1> DEFINE d == b.manifest.at
  <1>1. d \in Dirs /\ dir[d].there /\ \A p \in Processes : ~ Making(p, d)  BY DEF Stands
  <1>2. dir'[d] = dir[d]  BY <1>1, DirectoriesAreKept
  <1>3. \A p \in Processes : ~ Making(p, d)'
    <2> SUFFICES ASSUME NEW q \in Processes, Making(q, d)' PROVE FALSE  OBVIOUS
    <2>1. ~ Making(q, d)  BY <1>1
    <2>2. ASSUME Work(q)' = Work(q) PROVE FALSE  BY <2>1, <2>2 DEF Work, Making
    <2>3. ASSUME op'[q] = op[q] PROVE FALSE  BY <2>1, <2>3 DEF Making
    <2>4. ASSUME NEW p \in Processes, BackupStep(p) \/ Fault(p) \/ Crash(p) PROVE FALSE
      <3>1. ASSUME p = q, MakeDirectory(q) PROVE FALSE
        <4>1. op'[q].dest = op[q].dest
          BY <3>1, TypesOfConstants DEF MakeDirectory, IInv, Shape, Typed, OpsAreTyped
        <4>2. op[q].dest = d  BY <4>1 DEF Making
        <4>3. QED  BY <1>1, <3>1, <4>2 DEF MakeDirectory
      <3>2. ASSUME p = q, Fills(q) \/ Onward(q) PROVE FALSE
        <4>1. /\ op'[q].kind = op[q].kind /\ op'[q].dest = op[q].dest /\ op'[q].made = op[q].made
          BY <3>2, TypesOfConstants
          DEF Fills, Onward, TakeSnapshot, CopyConfig, WriteManifest, GoTo, OpenForBackup,
              ReadManifest, CheckContents, Reread, CopyFile, IInv, Shape, Typed, OpsAreTyped
        <4>2. QED  BY <2>1, <4>1 DEF Making
      <3>3. ASSUME p = q, Ends(q) \/ Publish(q) PROVE FALSE
        <4>1. op'[q] = Idle
          BY <3>3
          DEF Ends, CreateCompletes, VerifyReports, Publish, Refuse, Fail, Fault, Crash, Ended, IInv,
              Shape
        <4>2. QED  BY <4>1, TypesOfConstants DEF Making
      <3>4. ASSUME p = q, Begins(q) PROVE FALSE
        <4>1. ~ op'[q].made
          <5>1. CASE \E e \in Dirs : BeginCreate(q, e)
            BY <5>1, TypesOfConstants DEF BeginCreate, Begin, IInv, Shape
          <5>2. CASE \E e \in Dirs, pin \in Pins : BeginVerify(q, e, pin)
            BY <5>2, TypesOfConstants DEF BeginVerify, Begin, IInv, Shape
          <5>3. CASE \E e \in Dirs, pin \in Pins, r \in Roots : BeginRestore(q, e, r, pin)
            BY <5>3, TypesOfConstants DEF BeginRestore, Begin, IInv, Shape
          <5>4. QED  BY <3>4, <5>1, <5>2, <5>3 DEF Begins
        <4>2. QED  BY <4>1 DEF Making
      <3>5. CASE p = q
        BY <2>4, <3>1, <3>2, <3>3, <3>4, <3>5 DEF BackupStep, Fills, Onward, Ends, Begins
      <3>6. CASE p # q
        <4>1. op'[q] = op[q]
          BY <2>4, <3>6
          DEF BackupStep, BeginCreate, BeginVerify, BeginRestore, Begin, OpenForBackup,
              MakeDirectory, TakeSnapshot, CopyConfig, WriteManifest, ReadManifest, CheckContents,
              CreateCompletes, VerifyReports, Reread, CopyFile, Publish, Refuse, Fail, Fault, Crash,
              GoTo, Ended, IInv, Shape
        <4>2. QED  BY SMTT(40), <2>3, <4>1
      <3>7. QED  BY <3>5, <3>6
    <2>5. ASSUME Edit \/ \E p \in Processes : HostStep(p) PROVE FALSE
      BY <2>2, <2>5, NoticedKeepsWork DEF Edit, HostStep
    <2>6. ASSUME UNCHANGED vars PROVE FALSE  BY <2>3, <2>6 DEF vars
    <2>7. QED  BY <2>4, <2>5, <2>6 DEF Next
  <1> HIDE DEF d
  <1>4. /\ StoreFits(d, b.manifest)' /\ ConfigFits(d, b.manifest)' /\ Intact(dir[d].store)'
    BY <1>2 DEF Stands, d, StoreFits, ConfigFits, ConfigMatches, Intact
  <1>5. QED  BY <1>1, <1>2, <1>3, <1>4 DEF Stands, d

Sound == AllHold /\ AllFollow /\ AllNamed /\ AllStand

LEMMA InitSound == Init => Sound
  <1> SUFFICES ASSUME Init PROVE Sound  OBVIOUS
  <1>1. AllHold  BY InitHold
  <1>2. AllFollow  BY TypesOfConstants DEF Init, AllFollow, Follows, None
  <1>3. ASSUME NEW d \in Backups, NEW b,
               b = [manifest |-> FirstBackup(d).manifest, from |-> DefaultPath, disturbed |-> 0]
        PROVE  Named(b) /\ Stands(b)
    <2> DEFINE store == SnapshotOf(DefaultPath, 0)
               m == ManifestOf(1, d, DefaultPath, store, DefaultConfig)
    <2>1. FirstBackup(d) = DirOf(store, DefaultConfig, m, FALSE)  BY DEF FirstBackup
    <2>2. m.at = d /\ m.path = DefaultPath /\ m.files = store /\ m.config = DefaultConfig
      BY ManifestsAreTyped
    <2>3. Loads(DefaultConfig, None) /\ JournalOf(DefaultConfig, None).path = DefaultPath
      BY HostAssumption DEF Loads, DefaultPath
    <2>4. DefaultPath \in Paths  BY <2>3, LoadedJournal
    <2>5. 0 \in 0..MaxVersion  BY HostAssumption
    <2>6. Intact(store)  BY <2>4, <2>5 DEF Intact
    <2>7. d \in Dirs /\ dir[d] = FirstBackup(d)  BY BackupAssumption DEF Init
    <2> HIDE DEF store, m
    <2>8. /\ dir[d].store = store /\ dir[d].config = DefaultConfig /\ dir[d].manifest = m
          /\ dir[d].there /\ ~ dir[d].extra
      BY <2>1, <2>7 DEF DirOf
    <2>9. b.manifest = m /\ b.from = DefaultPath  BY <1>3, <2>7, <2>8
    <2>10. \A p \in Processes : ~ Making(p, d)
      BY TypesOfConstants DEF Init, Making
    <2>11. Stands(b)
      BY <2>2, <2>3, <2>6, <2>7, <2>8, <2>9, <2>10
      DEF Stands, StoreFits, ConfigFits, ConfigMatches
    <2>12. Named(b)  BY <2>2, <2>4, <2>5, <2>9 DEF Named, store
    <2>13. QED  BY <2>11, <2>12
  <1>4. AllNamed /\ AllStand  BY <1>3 DEF Init, AllNamed, AllStand
  <1>5. QED  BY <1>1, <1>2, <1>4 DEF Sound

LEMMA NextSound == IInv /\ Typed /\ HostInv /\ Sound /\ [Next]_vars => Sound'
  <1> SUFFICES ASSUME IInv, Typed, HostInv, Sound, [Next]_vars PROVE Sound'  OBVIOUS
  <1>1. AllHold' /\ AllFollow'  BY NextHold, NextFollow DEF Sound
  <1>2. ASSUME NEW p \in Processes, CreateCompletes(p) PROVE AllNamed' /\ AllStand'
    <2>1. PICK d, m, b : /\ d = op[p].dest /\ m = dir[d].manifest
                         /\ b = [manifest |-> m, from |-> op[p].from, disturbed |-> op[p].disturbed]
      OBVIOUS
    <2>2. reported' = reported \union {b} /\ Named(b) /\ Stands(b)'
      BY <1>2, <2>1, CompletedIsSound DEF Sound
    <2>3. UNCHANGED <<dir, altered>>  BY <1>2 DEF CreateCompletes
    <2>4. ~ \E e \in Dirs : Alter(e)
      BY <1>2 DEF CreateCompletes, Alter, Trouble, Typed, Counts
    <2>5. AllNamed'  BY <2>2 DEF Sound, AllNamed, Named
    <2>6. AllStand'  BY <2>2, <2>3, <2>4, StandsStill DEF Sound, AllStand
    <2>7. QED  BY <2>5, <2>6
  <1>3. ASSUME UNCHANGED reported PROVE AllNamed' /\ AllStand'
    <2>1. AllNamed'  BY <1>3 DEF Sound, AllNamed, Named
    <2>2. CASE \E e \in Dirs : Alter(e)
      BY <2>1, <2>2 DEF Alter, AllStand
    <2>3. CASE ~ \E e \in Dirs : Alter(e)
      <3>1. altered => altered'
        BY ZenonT(60), <2>3
        DEF Next, HostStep, BackupStep, BeginCreate, BeginVerify, BeginRestore, OpenForBackup,
            MakeDirectory, TakeSnapshot, CopyConfig, WriteManifest, ReadManifest, CheckContents,
            CreateCompletes, VerifyReports, Reread, CopyFile, Publish, Refuse, Fail, Fault, Crash,
            Edit, vars
      <3>2. QED  BY SMTT(40), <1>3, <2>1, <2>3, <3>1, StandsStill DEF Sound, AllStand
    <2>4. QED  BY <2>2, <2>3
  <1>4. QED  BY <1>1, <1>2, <1>3, ReportedGrows DEF Sound

(* What create reported verifies, names the journal that it holds, and     *)
(* the types are right.                                                    *)
LEMMA SoundIsBackupInv == IInv /\ Typed /\ HostInv /\ Sound => BackupInv
  <1> SUFFICES ASSUME IInv, Typed, HostInv, Sound PROVE BackupInv  OBVIOUS
  <1>1. TypeOK
    BY DEF Typed, DirsAreTyped, Counts, HostInv, HostIsTyped, BusyAreClosed, TypeOK
  <1>2. ReportedIsAsTaken  BY DEF Sound, AllNamed, Named, ReportedIsAsTaken
  <1>3. ReportedVerifies
    BY DEF Sound, AllStand, Stands, ReportedVerifies, ManifestFits, IsPinned
  <1>4. QED  BY <1>1, <1>2, <1>3 DEF BackupInv

(* A backup that create reported verifies for as long as it is there, and  *)
(* holds the journal it was asked for as that stood (src/backup.rs).       *)
THEOREM ReportedBackupsVerify == Spec => []BackupInv
  <1>1. IInv /\ Typed /\ HostInv /\ Sound /\ [Next]_vars => (IInv /\ Typed /\ HostInv /\ Sound)'
    BY NextHolds, NextTyped, NextHost, NextSound
  <1>2. Init => IInv /\ Typed /\ HostInv /\ Sound
    BY InitHolds, InitTyped, InitHost, InitSound
  <1>3. QED  BY <1>1, <1>2, SoundIsBackupInv, PTL DEF Spec

-----------------------------------------------------------------------------
(* Whose manifest is whose                                                 *)

(* A manifest's identity is one create's: no other directory has it, and   *)
(* once the backup is reported, whatever has it holds the same files.      *)
IdsAreFresh ==
    \A p \in Processes : op[p].kind = "create" =>
        /\ op[p].id \in 2..commands + 1
        /\ \A q \in Processes \ {p} : op[q].kind = "create" => op[q].id # op[p].id
        /\ \A d \in Dirs : dir[d].manifest.id = op[p].id => Making(p, d)
        /\ \A b \in reported : b.manifest.id # op[p].id

IdsAreKnown ==
    /\ \A d \in Dirs : dir[d].manifest.id \in (0..commands + 1) \union {MaxCommands + 2}
    /\ \A b \in reported : b.manifest.id \in 1..commands + 1

ManifestsAreGenuine ==
    \A d \in Dirs, b \in reported :
        dir[d].manifest.id = b.manifest.id =>
            /\ dir[d].manifest.files = b.manifest.files
            /\ dir[d].manifest.config = b.manifest.config

Ids == IdsAreFresh /\ IdsAreKnown /\ ManifestsAreGenuine

Basis == IInv /\ Typed /\ HostInv /\ Sound

LEMMA CommandsGrow ==
    ASSUME Typed, [Next]_vars
    PROVE  /\ commands' = commands \/ commands' = commands + 1
           /\ commands \in 0..MaxCommands /\ commands \in Nat /\ MaxCommands \in Nat
  <1>1. commands \in 0..MaxCommands /\ commands \in Nat /\ MaxCommands \in Nat
    BY BackupAssumption DEF Typed, Counts
  <1>2. commands' = commands \/ commands' = commands + 1
    BY ZenonT(60)
    DEF Next, HostStep, BackupStep, BeginCreate, BeginVerify, BeginRestore, Begin, OpenForBackup,
           MakeDirectory, TakeSnapshot, CopyConfig, WriteManifest, ReadManifest, CheckContents,
           CreateCompletes, VerifyReports, Reread, CopyFile, Publish, Refuse, Fail, Fault, Crash,
           Edit, Alter, vars
  <1>3. QED  BY <1>1, <1>2

LEMMA CreatesGoOn ==
    ASSUME IInv, Typed, HostInv, [Next]_vars, NEW q \in Processes, op'[q].kind = "create"
    PROVE  \/ /\ op[q].kind = "create" /\ op'[q].id = op[q].id /\ op'[q].dest = op[q].dest
              /\ op[q].made => op'[q].made
           \/ \E d \in Dirs : BeginCreate(q, d)
  <1>1. ASSUME op'[q] = op[q] \/ Work(q)' = Work(q)
        PROVE  /\ op[q].kind = "create" /\ op'[q].id = op[q].id /\ op'[q].dest = op[q].dest
               /\ op[q].made => op'[q].made
    BY <1>1 DEF Work
  <1>2. ASSUME NEW p \in Processes, BackupStep(p) \/ Fault(p) \/ Crash(p), p # q PROVE op'[q] = op[q]
    BY <1>2, StepsAreOfOne
  <1>3. ASSUME MakeDirectory(q) \/ Fills(q) \/ Onward(q)
        PROVE  /\ op[q].kind = "create" /\ op'[q].id = op[q].id /\ op'[q].dest = op[q].dest
               /\ op[q].made => op'[q].made
    BY SMTT(40), <1>3, TypesOfConstants
    DEF MakeDirectory, Fills, Onward, TakeSnapshot, CopyConfig, WriteManifest, GoTo, OpenForBackup,
        ReadManifest, CheckContents, Reread, CopyFile, IInv, Shape, Typed, OpsAreTyped
  <1>4. ASSUME Ends(q) \/ Publish(q) PROVE FALSE
    <2>1. op'[q] = Idle
      BY <1>4
      DEF Ends, CreateCompletes, VerifyReports, Publish, Refuse, Fail, Fault, Crash, Ended, IInv, Shape
    <2>2. QED  BY <2>1, TypesOfConstants DEF None
  <1>5. ASSUME Begins(q) PROVE \E d \in Dirs : BeginCreate(q, d)
    <2>1. ASSUME NEW d \in Dirs, NEW pin \in Pins, BeginVerify(q, d, pin) PROVE FALSE
      BY <2>1, TypesOfConstants DEF BeginVerify, Begin, IInv, Shape
    <2>2. ASSUME NEW d \in Dirs, NEW pin \in Pins, NEW r \in Roots, BeginRestore(q, d, r, pin)
          PROVE  FALSE
      BY <2>2, TypesOfConstants DEF BeginRestore, Begin, IInv, Shape
    <2>3. QED  BY <1>5, <2>1, <2>2 DEF Begins
  <1>6. CASE \E p \in Processes : BackupStep(p) \/ Fault(p) \/ Crash(p)
    BY <1>1, <1>2, <1>3, <1>4, <1>5, <1>6 DEF BackupStep, Fills, Onward, Ends, Begins
  <1>7. CASE Edit \/ \E p \in Processes : HostStep(p)
    BY <1>1, <1>7, NoticedKeepsWork DEF Edit, HostStep
  <1>8. CASE \E d \in Dirs : Alter(d)  BY <1>1, <1>8, AlterKeepsWork
  <1>9. CASE UNCHANGED vars  BY <1>1, <1>9 DEF vars
  <1>10. QED  BY <1>6, <1>7, <1>8, <1>9 DEF Next

(* Where the manifest in a directory comes from                            *)
LEMMA ManifestsChange ==
    ASSUME IInv, Typed, [Next]_vars, NEW d \in Dirs
    PROVE  \/ dir'[d].manifest = dir[d].manifest
           \/ dir'[d].manifest.id \in {0, MaxCommands + 2}
           \/ \E e \in Dirs : /\ \A p \in Processes : ~ Making(p, e)
                              /\ Alter(e) /\ dir'[d].manifest = dir[e].manifest
           \/ \E p \in Processes : /\ WriteManifest(p) /\ op[p].dest = d
                                   /\ dir'[d].manifest.id = op[p].id
  <1>1. \A e \in Dirs : DOMAIN dir[e] = {"there", "store", "config", "manifest", "extra"}
    BY TypesOfConstants DEF Typed, DirsAreTyped
  <1>2. \A e \in Dirs : DOMAIN dir[e].manifest = {"id", "at", "path", "files", "config"}
    BY TypesOfConstants DEF Typed, DirsAreTyped
  <1>3. NoDir.manifest.id = 0 /\ NoManifest.id = 0  BY TypesOfConstants
  <1>4. ASSUME NEW p \in Processes, TakeSnapshot(p) \/ CopyConfig(p)
        PROVE  dir'[d].manifest = dir[d].manifest
    BY <1>1, <1>4 DEF TakeSnapshot, CopyConfig, IInv, Shape
  <1>5. ASSUME NEW p \in Processes, WriteManifest(p)
        PROVE  \/ dir'[d].manifest = dir[d].manifest
               \/ op[p].dest = d /\ dir'[d].manifest.id = op[p].id
    <2> DEFINE m == ManifestOf(op[p].id, op[p].dest, op[p].path, op[p].files, op[p].config)
    <2>1. m.id = op[p].id  BY ManifestsAreTyped
    <2>2. dir' = [dir EXCEPT ![op[p].dest].manifest = m]  BY <1>5 DEF WriteManifest
    <2> HIDE DEF m
    <2>3. QED  BY <1>1, <2>1, <2>2 DEF IInv, Shape
  <1>6. ASSUME NEW p \in Processes, MakeDirectory(p)
        PROVE  \/ dir'[d].manifest = dir[d].manifest
               \/ dir'[d].manifest.id = 0
    <2>1. dir' = [dir EXCEPT ![op[p].dest] = [NoDir EXCEPT !.there = TRUE]]
      BY <1>6 DEF MakeDirectory
    <2>2. [NoDir EXCEPT !.there = TRUE].manifest = NoDir.manifest  BY TypesOfConstants
    <2>3. QED  BY <1>3, <2>1, <2>2 DEF IInv, Shape
  <1>7. ASSUME NEW p \in Processes, dir' = dir \/ dir' = Dropped(p)
        PROVE  \/ dir'[d].manifest = dir[d].manifest
               \/ dir'[d].manifest.id = 0
    BY <1>3, <1>7 DEF Dropped, IInv, Shape
  <1>8. ASSUME NEW e \in Dirs, Alter(e)
        PROVE  \/ dir'[d].manifest = dir[d].manifest
               \/ dir'[d].manifest.id \in {0, MaxCommands + 2}
               \/ dir'[d].manifest = dir[e].manifest
    <2>1. CASE Damage(e) \/ Lose(e) \/ Add(e) \/ ChangeConfig(e)
      BY <1>1, <1>3, <2>1 DEF Damage, Lose, Add, ChangeConfig, IInv, Shape
    <2>2. CASE Replace(e)
      <3>1. \E store : dir' = [dir EXCEPT ![e].store = store, ![e].manifest.id = MaxCommands + 2,
                                          ![e].manifest.files = store]
        BY <2>2 DEF Replace
      <3>2. QED  BY <1>1, <1>2, <3>1 DEF IInv, Shape
    <2>3. CASE Move(e)
      BY SMTT(40), <1>3, <2>3 DEF Move, IInv, Shape
    <2>4. QED  BY <1>8, <2>1, <2>2, <2>3 DEF Alter
  <1>9. ASSUME NEW p \in Processes, BackupStep(p), ~ Fills(p), ~ MakeDirectory(p)
        PROVE  dir' = dir \/ dir' = Dropped(p)
    BY <1>9
    DEF BackupStep, Fills, BeginCreate, BeginVerify, BeginRestore, OpenForBackup, ReadManifest,
        CheckContents, CreateCompletes, VerifyReports, Reread, CopyFile, Publish, Refuse, Fail
  <1>10. ASSUME NEW p \in Processes, HostStep(p) \/ Fault(p) \/ Crash(p)
         PROVE  dir' = dir \/ dir' = Dropped(p)
    BY <1>10 DEF HostStep, Fault, Crash
  <1>11. CASE Edit \/ UNCHANGED vars  BY <1>11 DEF Edit, vars
  <1>12. CASE \E e \in Dirs : Alter(e)  BY <1>8, <1>12 DEF Alter
  <1>13. CASE \E p \in Processes : HostStep(p) \/ BackupStep(p) \/ Fault(p) \/ Crash(p)
    BY <1>4, <1>5, <1>6, <1>7, <1>9, <1>10, <1>13 DEF Fills
  <1>14. QED  BY <1>11, <1>12, <1>13 DEF Next

LEMMA InitIds == Init => Ids
  <1> SUFFICES ASSUME Init PROVE Ids  OBVIOUS
  <1>1. \A d \in Backups : /\ dir[d].manifest = FirstBackup(d).manifest
                           /\ FirstBackup(d).manifest.id = 1
                           /\ FirstBackup(d).manifest.files = SnapshotOf(DefaultPath, 0)
                           /\ FirstBackup(d).manifest.config = DefaultConfig
    BY BackupAssumption, ManifestsAreTyped DEF Init, FirstBackup, DirOf
  <1>2. \A d \in Dirs \ Backups : dir[d].manifest.id = 0
    BY TypesOfConstants DEF Init
  <1>3. \A b \in reported : \E d \in Backups : b.manifest = FirstBackup(d).manifest
    BY DEF Init
  <1>4. commands = 0  BY DEF Init
  <1>5. IdsAreFresh  BY TypesOfConstants DEF Init, IdsAreFresh, None
  <1>6. IdsAreKnown  BY <1>1, <1>2, <1>3, <1>4 DEF IdsAreKnown
  <1>7. ManifestsAreGenuine  BY <1>1, <1>2, <1>3 DEF ManifestsAreGenuine
  <1>8. QED  BY <1>5, <1>6, <1>7 DEF Ids

(* What a step that reports a backup reports                               *)
LEMMA ReportedIsNew ==
    ASSUME Basis, [Next]_vars, NEW b \in reported', b \notin reported
    PROVE  \E p \in Processes :
             /\ CreateCompletes(p) /\ op[p].kind = "create"
             /\ op[p].dest \in Dirs /\ b.manifest = dir[op[p].dest].manifest
             /\ b.manifest.id = op[p].id
  <1>1. PICK p \in Processes : CreateCompletes(p)  BY ReportedGrows
  <1>2. PICK d, m, c : /\ d = op[p].dest /\ m = dir[d].manifest
                       /\ c = [manifest |-> m, from |-> op[p].from, disturbed |-> op[p].disturbed]
    OBVIOUS
  <1>3. /\ reported' = reported \union {c}
        /\ m = ManifestOf(op[p].id, d, op[p].path, op[p].files, op[p].config)
    BY <1>1, <1>2, CompletedIsSound DEF Basis, Sound
  <1>4. m.id = op[p].id  BY <1>3, ManifestsAreTyped
  <1>5. b = c  BY <1>3
  <1>6. op[p].kind = "create" /\ d \in Dirs
    BY <1>1, <1>2 DEF CreateCompletes, Basis, Sound, AllHold, Holds
  <1>7. QED  BY <1>1, <1>2, <1>4, <1>5, <1>6

LEMMA NextFresh == Basis /\ Ids /\ [Next]_vars => IdsAreFresh'
  <1> SUFFICES ASSUME Basis, Ids, [Next]_vars, NEW q \in Processes, op'[q].kind = "create"
               PROVE  /\ op'[q].id \in 2..commands' + 1
                      /\ \A p \in Processes \ {q} : op'[p].kind = "create" => op'[p].id # op'[q].id
                      /\ \A d \in Dirs : dir'[d].manifest.id = op'[q].id => Making(q, d)'
                      /\ \A b \in reported' : b.manifest.id # op'[q].id
    BY DEF IdsAreFresh
  <1>0. /\ commands' = commands \/ commands' = commands + 1
        /\ commands \in 0..MaxCommands /\ commands \in Nat /\ MaxCommands \in Nat
    BY CommandsGrow DEF Basis
  <1>1. CASE \E d \in Dirs : BeginCreate(q, d)
    <2>1. PICK d \in Dirs : BeginCreate(q, d)  BY <1>1
    <2>2. /\ op'[q].id = commands + 2 /\ commands' = commands + 1 /\ commands < MaxCommands
          /\ UNCHANGED <<dir, reported>>
          /\ \A p \in Processes \ {q} : op'[p] = op[p]
      BY <2>1, TypesOfConstants DEF BeginCreate, Begin, Basis, IInv, Shape
    <2>3. \A p \in Processes : op[p].kind = "create" => op[p].id \in 2..commands + 1
      BY DEF Ids, IdsAreFresh
    <2>4. \A e \in Dirs : dir[e].manifest.id # commands + 2
      BY <1>0, <2>2 DEF Ids, IdsAreKnown
    <2>5. \A b \in reported : b.manifest.id # commands + 2
      BY <1>0 DEF Ids, IdsAreKnown
    <2>6. QED  BY <1>0, <2>2, <2>3, <2>4, <2>5
  <1>2. CASE ~ \E d \in Dirs : BeginCreate(q, d)
    <2>1. /\ op[q].kind = "create" /\ op'[q].id = op[q].id /\ op'[q].dest = op[q].dest
          /\ op[q].made => op'[q].made
      BY <1>2, CreatesGoOn DEF Basis
    <2>2. /\ op[q].id \in 2..commands + 1
          /\ \A p \in Processes \ {q} : op[p].kind = "create" => op[p].id # op[q].id
          /\ \A d \in Dirs : dir[d].manifest.id = op[q].id => Making(q, d)
          /\ \A b \in reported : b.manifest.id # op[q].id
      BY <2>1 DEF Ids, IdsAreFresh
    <2>3. op'[q].id \in 2..commands' + 1  BY <1>0, <2>1, <2>2
    <2>4. ASSUME NEW p \in Processes \ {q}, op'[p].kind = "create" PROVE op'[p].id # op'[q].id
      <3>1. CASE \E d \in Dirs : BeginCreate(p, d)
        <4>1. op'[p].id = commands + 2
          BY <3>1, TypesOfConstants DEF BeginCreate, Begin, Basis, IInv, Shape
        <4>2. QED  BY <1>0, <2>1, <2>2, <4>1
      <3>2. CASE op[p].kind = "create" /\ op'[p].id = op[p].id
        BY <2>1, <2>2, <3>2
      <3>3. QED  BY <2>4, <3>1, <3>2, CreatesGoOn DEF Basis
    <2>5. ASSUME NEW d \in Dirs, dir'[d].manifest.id = op'[q].id PROVE Making(q, d)'
      <3>1. \A e \in Dirs : Making(q, e) => Making(q, e)'
        BY <2>1 DEF Making
      <3>2. CASE dir'[d].manifest = dir[d].manifest
        BY <2>1, <2>2, <2>5, <3>1, <3>2
      <3>3. CASE dir'[d].manifest.id \in {0, MaxCommands + 2}
        BY <1>0, <2>1, <2>2, <2>5, <3>3
      <3>4. CASE \E e \in Dirs : /\ \A p \in Processes : ~ Making(p, e)
                                 /\ dir'[d].manifest = dir[e].manifest
        BY <2>1, <2>2, <2>5, <3>4
      <3>5. CASE \E p \in Processes : /\ WriteManifest(p) /\ op[p].dest = d
                                      /\ dir'[d].manifest.id = op[p].id
        <4>1. PICK p \in Processes : /\ WriteManifest(p) /\ op[p].dest = d
                                     /\ dir'[d].manifest.id = op[p].id
          BY <3>5
        <4>2. op[p].kind = "create" /\ op[p].made
          BY <4>1 DEF WriteManifest, At, Basis, IInv, StepsOfCreate
        <4>3. p = q  BY <2>1, <2>2, <2>5, <4>1, <4>2
        <4>4. Making(q, d)  BY <4>1, <4>2, <4>3 DEF Making
        <4>5. QED  BY <3>1, <4>4
      <3>6. QED  BY <3>2, <3>3, <3>4, <3>5, ManifestsChange DEF Basis
    <2>6. ASSUME NEW b \in reported' PROVE b.manifest.id # op'[q].id
      <3>1. CASE b \in reported  BY <2>1, <2>2, <3>1
      <3>2. CASE b \notin reported
        <4>1. PICK p \in Processes : /\ CreateCompletes(p) /\ op[p].kind = "create"
                                     /\ b.manifest.id = op[p].id
          BY <3>2, ReportedIsNew
        <4>2. op'[p] = Idle
          BY <4>1 DEF CreateCompletes, Ended, Basis, IInv, Shape
        <4>3. p # q  BY <4>2, TypesOfConstants DEF None
        <4>4. QED  BY <2>1, <2>2, <4>1, <4>3
      <3>3. QED  BY <3>1, <3>2
    <2>7. QED  BY <2>3, <2>4, <2>5, <2>6
  <1>3. QED  BY <1>1, <1>2

LEMMA NextKnown == Basis /\ Ids /\ [Next]_vars => IdsAreKnown'
  <1> SUFFICES ASSUME Basis, Ids, [Next]_vars PROVE IdsAreKnown'  OBVIOUS
  <1>0. /\ commands' = commands \/ commands' = commands + 1
        /\ commands \in 0..MaxCommands /\ commands \in Nat /\ MaxCommands \in Nat
    BY CommandsGrow DEF Basis
  <1>1. \A d \in Dirs : dir[d].manifest.id \in (0..commands + 1) \union {MaxCommands + 2}
    BY DEF Ids, IdsAreKnown
  <1>2. ASSUME NEW d \in Dirs
        PROVE  dir'[d].manifest.id \in (0..commands' + 1) \union {MaxCommands + 2}
    <2>1. CASE \E e \in Dirs : dir'[d].manifest = dir[e].manifest  BY <1>0, <1>1, <2>1
    <2>2. CASE dir'[d].manifest.id \in {0, MaxCommands + 2}  BY <1>0, <2>2
    <2>3. CASE \E p \in Processes : WriteManifest(p) /\ dir'[d].manifest.id = op[p].id
      <3>1. PICK p \in Processes : WriteManifest(p) /\ dir'[d].manifest.id = op[p].id  BY <2>3
      <3>2. op[p].kind = "create"  BY <3>1 DEF WriteManifest, At, Basis, IInv, StepsOfCreate
      <3>3. op[p].id \in 2..commands + 1  BY <3>2 DEF Ids, IdsAreFresh
      <3>4. QED  BY <1>0, <3>1, <3>3
    <2>4. QED  BY <2>1, <2>2, <2>3, ManifestsChange DEF Basis
  <1>3. ASSUME NEW b \in reported' PROVE b.manifest.id \in 1..commands' + 1
    <2>1. CASE b \in reported
      <3>1. b.manifest.id \in 1..commands + 1  BY <2>1 DEF Ids, IdsAreKnown
      <3>2. QED  BY <1>0, <3>1
    <2>2. CASE b \notin reported
      <3>1. PICK p \in Processes : op[p].kind = "create" /\ b.manifest.id = op[p].id
        BY <2>2, ReportedIsNew
      <3>2. op[p].id \in 2..commands + 1  BY <3>1 DEF Ids, IdsAreFresh
      <3>3. QED  BY <1>0, <3>1, <3>2
    <2>3. QED  BY <2>1, <2>2
  <1>4. QED  BY <1>2, <1>3 DEF IdsAreKnown

LEMMA NextGenuine == Basis /\ Ids /\ [Next]_vars => ManifestsAreGenuine'
  <1> SUFFICES ASSUME Basis, Ids, [Next]_vars, NEW d \in Dirs, NEW b \in reported',
                      dir'[d].manifest.id = b.manifest.id
               PROVE  /\ dir'[d].manifest.files = b.manifest.files
                      /\ dir'[d].manifest.config = b.manifest.config
    BY DEF ManifestsAreGenuine
  <1>1. CASE b \in reported
    <2>1. \A e \in Dirs : dir[e].manifest.id = b.manifest.id =>
            /\ dir[e].manifest.files = b.manifest.files
            /\ dir[e].manifest.config = b.manifest.config
      BY <1>1 DEF Ids, ManifestsAreGenuine
    <2>2. CASE \E e \in Dirs : dir'[d].manifest = dir[e].manifest  BY <2>1, <2>2
    <2>3. b.manifest.id \notin {0, MaxCommands + 2}
      <3>1. b.manifest.id \in 1..commands + 1 /\ commands \in 0..MaxCommands /\ MaxCommands \in Nat
        BY <1>1, CommandsGrow DEF Ids, IdsAreKnown, Basis
      <3>2. QED  BY <3>1
    <2>4. ASSUME NEW p \in Processes, WriteManifest(p), dir'[d].manifest.id = op[p].id PROVE FALSE
      <3>1. op[p].kind = "create"  BY <2>4 DEF WriteManifest, At, Basis, IInv, StepsOfCreate
      <3>2. QED  BY <1>1, <2>4, <3>1 DEF Ids, IdsAreFresh
    <2>5. QED  BY <2>2, <2>3, <2>4, ManifestsChange DEF Basis
  <1>2. CASE b \notin reported
    <2>1. PICK p \in Processes :
            /\ CreateCompletes(p) /\ op[p].kind = "create"
            /\ op[p].dest \in Dirs /\ b.manifest = dir[op[p].dest].manifest
            /\ b.manifest.id = op[p].id
      BY <1>2, ReportedIsNew
    <2>2. dir' = dir  BY <2>1 DEF CreateCompletes
    <2>3. Making(p, d)  BY <2>1, <2>2 DEF Ids, IdsAreFresh
    <2>4. d = op[p].dest  BY <2>3 DEF Making
    <2>5. QED  BY <2>1, <2>2, <2>4
  <1>3. QED  BY <1>1, <1>2

LEMMA NextIds == Basis /\ Ids /\ [Next]_vars => Ids'
  BY NextFresh, NextKnown, NextGenuine DEF Ids

-----------------------------------------------------------------------------
(* A restore that verified a reported backup under its pin still reads     *)
(* this backup, as long as nothing outside Texo changed one.               *)
Restores(p) ==
    op[p].kind = "restore" =>
        LET d == op[p].dest  step == op[p].step  manifest == op[p].manifest IN
        /\ step \in {"verify", "files", "verified", "copy"} /\ d \in Dirs
        /\ op[p].pin # 0 => \E b \in reported : b.manifest.id = op[p].pin
        /\ step # "copy" => op[p].copied = Empty
        /\ op[p].pin # 0 /\ op[p].fits /\ op[p].disturbed = 0 =>
             /\ step # "verify" => dir[d].manifest = manifest /\ manifest.id = op[p].pin
             /\ step \in {"verified", "copy"} => dir[d].config = manifest.config
             /\ step = "copy" => op[p].config = manifest.config
        /\ step = "copy" =>
             /\ op[p].fits /\ Loads(op[p].config, None)
             /\ DOMAIN manifest.files \subseteq Files
             /\ DOMAIN op[p].copied \subseteq DOMAIN manifest.files
             /\ op[p].copied = [f \in DOMAIN op[p].copied |-> manifest.files[f]]

AllRestore == \A p \in Processes : Restores(p)

(* A directory whose manifest is of a reported backup is in nobody's making*)
LEMMA ReportedIsMade ==
    ASSUME Basis, Ids, NEW d \in Dirs, NEW b \in reported, dir[d].manifest.id = b.manifest.id
    PROVE  dir[d].there /\ \A p \in Processes : ~ Making(p, d)
  <1>1. b.manifest.id # 0
    <2>1. b.manifest.id \in 1..commands + 1 /\ commands \in Nat
      BY BackupAssumption DEF Ids, IdsAreKnown, Basis, Typed, Counts
    <2>2. QED  BY <2>1
  <1>2. dir[d].there
    <2>1. ~ dir[d].there => dir[d] = NoDir  BY DEF Basis, Typed, DirsAreTyped
    <2>2. QED  BY <1>1, <2>1, TypesOfConstants
  <1>3. ASSUME NEW p \in Processes, Making(p, d) PROVE FALSE
    <2>1. op[p].kind = "create" /\ op[p].dest = d /\ op[p].made  BY <1>3 DEF Making
    <2>2. \/ dir[d].manifest = NoManifest
          \/ dir[d].manifest = ManifestOf(op[p].id, d, op[p].path, op[p].files, op[p].config)
      BY <2>1 DEF Basis, Sound, AllHold, Holds, CreateSteps, Written
    <2>3. dir[d].manifest.id \in {0, op[p].id}
      BY <2>2, ManifestsAreTyped, TypesOfConstants
    <2>4. b.manifest.id # op[p].id  BY <2>1 DEF Ids, IdsAreFresh
    <2>5. QED  BY <1>1, <2>3, <2>4
  <1>4. QED  BY <1>2, <1>3

LEMMA ReportedStays ==
    ASSUME [Next]_vars, NEW b \in reported PROVE b \in reported'
  BY ReportedGrows DEF CreateCompletes

LEMMA OthersRestore ==
    ASSUME Basis, Ids, [Next]_vars, NEW q \in Processes, Restores(q), Work(q)' = Work(q),
           \/ \E e \in Dirs : Alter(e)
           \/ op'[q].disturbed = op[q].disturbed
    PROVE  Restores(q)'
  <1> SUFFICES ASSUME op'[q].kind = "restore" PROVE Restores(q)'  BY DEF Restores
  <1> DEFINE d == op[q].dest
  <1>1. /\ op'[q].kind = op[q].kind /\ op'[q].step = op[q].step
        /\ op'[q].dest = op[q].dest /\ op'[q].pin = op[q].pin
        /\ op'[q].manifest = op[q].manifest /\ op'[q].config = op[q].config
        /\ op'[q].copied = op[q].copied /\ op'[q].fits = op[q].fits
    BY DEF Work
  <1>2. d \in Dirs  BY <1>1 DEF Restores
  <1>3. op[q].pin # 0 => \E b \in reported' : b.manifest.id = op[q].pin
    BY <1>1, ReportedStays DEF Restores
  <1>4. CASE \E e \in Dirs : Alter(e)
    <2>1. op'[q].disturbed = 1  BY <1>1, <1>4, AlterKeepsWork DEF Basis
    <2>2. QED  BY <1>1, <1>3, <2>1 DEF Restores
  <1>5. CASE /\ ~ \E e \in Dirs : Alter(e)
             /\ op'[q].disturbed = op[q].disturbed
    <2>1. ASSUME op[q].pin # 0, op[q].fits, op[q].disturbed = 0, op[q].step # "verify"
          PROVE  dir'[d] = dir[d]
      <3>1. dir[d].manifest.id = op[q].pin  BY <1>1, <2>1 DEF Restores
      <3>2. PICK b \in reported : b.manifest.id = op[q].pin  BY <1>1, <2>1 DEF Restores
      <3>3. dir[d].there /\ \A p \in Processes : ~ Making(p, d)
        BY <1>2, <3>1, <3>2, ReportedIsMade
      <3>4. QED  BY <1>2, <1>5, <3>3, DirectoriesAreKept DEF Basis
    <2> HIDE DEF d
    <2>2. QED  BY <1>1, <1>3, <1>5, <2>1 DEF Restores, d
  <1>6. QED  BY <1>4, <1>5

(* The steps of a restore                                                  *)
LEMMA BeginsRestore ==
    ASSUME Basis, NEW p \in Processes, Begins(p)
    PROVE  Restores(p)'
  <1>1. CASE \E d \in Dirs : BeginCreate(p, d)
    <2>1. op'[p].kind = "create"
      BY <1>1, TypesOfConstants DEF BeginCreate, Begin, Basis, IInv, Shape
    <2>2. QED  BY <2>1 DEF Restores
  <1>2. CASE \E d \in Dirs, pin \in Pins : BeginVerify(p, d, pin)
    <2>1. op'[p].kind = "verify"
      BY <1>2, TypesOfConstants DEF BeginVerify, Begin, Basis, IInv, Shape
    <2>2. QED  BY <2>1 DEF Restores
  <1>3. CASE \E d \in Dirs, pin \in Pins, r \in Roots : BeginRestore(p, d, r, pin)
    <2>1. PICK d \in Dirs, pin \in Pins, r \in Roots : BeginRestore(p, d, r, pin)  BY <1>3
    <2>2. op'[p] = [Idle EXCEPT !.kind = "restore", !.step = "verify", !.dest = d, !.root = r,
                                !.pin = pin]
      BY <2>1 DEF BeginRestore, Begin, Basis, IInv, Shape
    <2>3. /\ op'[p].step = "verify" /\ op'[p].dest = d /\ op'[p].pin = pin
          /\ op'[p].copied = Empty
      BY <2>2, TypesOfConstants
    <2>4. pin # 0 => \E b \in reported' : b.manifest.id = pin
      BY <2>1 DEF Pins, BeginRestore
    <2>5. QED  BY <2>3, <2>4 DEF Restores
  <1>4. QED  BY <1>1, <1>2, <1>3 DEF Begins

LEMMA OnwardRestore ==
    ASSUME Basis, NEW p \in Processes, Restores(p), Onward(p)
    PROVE  Restores(p)'
  <1> SUFFICES ASSUME op'[p].kind = "restore" PROVE Restores(p)'  BY DEF Restores
  <1> DEFINE d == op[p].dest
  <1>1. UNCHANGED <<dir, reported>>
    BY DEF Onward, OpenForBackup, ReadManifest, CheckContents, Reread, CopyFile
  <1>2. /\ op'[p].kind = op[p].kind /\ op'[p].dest = d
        /\ op'[p].pin = op[p].pin /\ op'[p].disturbed = op[p].disturbed
    BY TypesOfConstants
    DEF Onward, OpenForBackup, ReadManifest, CheckContents, Reread, CopyFile, Basis, IInv, Shape,
        Typed, OpsAreTyped
  <1>3. op[p].kind = "restore"  BY <1>2
  <1>4. CASE OpenForBackup(p)
    BY <1>3, <1>4 DEF OpenForBackup, At, Restores
  <1>5. CASE ReadManifest(p)
    <2>1. /\ op[p].step = "verify" /\ op'[p].step = "files" /\ op'[p].manifest = dir[d].manifest
          /\ op'[p].copied = op[p].copied
          /\ op'[p].fits => op[p].pin \in {0, dir[d].manifest.id}
      BY <1>5, TypesOfConstants
      DEF ReadManifest, At, ManifestFits, IsPinned, Basis, IInv, Shape, Typed, OpsAreTyped
    <2> HIDE DEF d
    <2>2. QED  BY <1>1, <1>2, <1>3, <2>1 DEF Restores, d
  <1>6. CASE CheckContents(p)
    <2>1. /\ op[p].step = "files" /\ op'[p].step = "verified" /\ op'[p].manifest = op[p].manifest
          /\ op'[p].copied = op[p].copied
          /\ op'[p].fits => op[p].fits /\ ConfigFits(d, op[p].manifest)
      BY <1>6, TypesOfConstants DEF CheckContents, At, Basis, IInv, Shape, Typed, OpsAreTyped
    <2>2. op'[p].fits => dir[d].config = op[p].manifest.config
      BY <2>1 DEF ConfigFits, ConfigMatches
    <2> HIDE DEF d
    <2>3. QED  BY <1>1, <1>2, <1>3, <2>1, <2>2 DEF Restores, d
  <1>7. CASE Reread(p)
    <2>1. /\ op[p].step = "verified" /\ op'[p].step = "copy" /\ op'[p].manifest = dir[d].manifest
          /\ op'[p].config = dir[d].config /\ op'[p].copied = op[p].copied
          /\ op[p].fits /\ op'[p].fits = op[p].fits /\ Loads(dir[d].config, None)
      BY <1>7, TypesOfConstants DEF Reread, At, Basis, IInv, Shape, Typed, OpsAreTyped
    <2>2. op[p].copied = Empty /\ d \in Dirs  BY <1>3, <2>1 DEF Restores
    <2>3. DOMAIN dir[d].manifest.files \subseteq Files
      BY <2>2 DEF Basis, Typed, DirsAreTyped
    <2>4. /\ DOMAIN op'[p].copied \subseteq DOMAIN op'[p].manifest.files
          /\ op'[p].copied = [f \in DOMAIN op'[p].copied |-> op'[p].manifest.files[f]]
      BY <2>1, <2>2 DEF Empty
    <2> HIDE DEF d
    <2>5. QED  BY <1>1, <1>2, <1>3, <2>1, <2>2, <2>3, <2>4 DEF Restores, d
  <1>8. CASE CopyFile(p)
    <2> DEFINE f == NextFile(p)
               copied == [g \in DOMAIN op[p].copied \union {f} |-> op[p].manifest.files[g]]
    <2>1. op[p].step = "copy" /\ Uncopied(p) # {}  BY <1>8 DEF CopyFile, At
    <2>2. DOMAIN op[p].manifest.files \subseteq Files
      BY <1>3, <2>1 DEF Restores
    <2>3. f \in DOMAIN op[p].manifest.files
      BY <2>1, <2>2 DEF NextFile, Uncopied, Files
    <2>4. op' = [op EXCEPT ![p].copied = copied]  BY <1>8 DEF CopyFile
    <2> HIDE DEF f
    <2>5. DOMAIN copied = DOMAIN op[p].copied \union {f}  OBVIOUS
    <2>6. copied = [g \in DOMAIN copied |-> op[p].manifest.files[g]]  BY <2>5
    <2> HIDE DEF copied
    <2>7. /\ op'[p].copied = copied /\ op'[p].step = "copy" /\ op'[p].manifest = op[p].manifest
          /\ op'[p].config = op[p].config /\ op'[p].fits = op[p].fits
      BY <2>1, <2>4, TypesOfConstants DEF Basis, IInv, Shape, Typed, OpsAreTyped
    <2> HIDE DEF d
    <2>8. QED  BY <1>1, <1>2, <1>3, <2>1, <2>2, <2>3, <2>5, <2>6, <2>7 DEF Restores, d
  <1>9. QED  BY <1>4, <1>5, <1>6, <1>7, <1>8 DEF Onward

LEMMA NextRestore == Basis /\ Ids /\ AllRestore /\ [Next]_vars => AllRestore'
  <1> SUFFICES ASSUME Basis, Ids, AllRestore, [Next]_vars, NEW q \in Processes
               PROVE  Restores(q)'
    BY DEF AllRestore
  <1>1. Restores(q)  BY DEF AllRestore
  <1>2. ASSUME op'[q] = op[q] PROVE Restores(q)'
    BY <1>1, <1>2, OthersRestore DEF Work
  <1>3. CASE Edit \/ \E p \in Processes : HostStep(p)
    <2>1. Noticed  BY <1>3 DEF Edit, HostStep
    <2>2. Work(q)' = Work(q) /\ (op'[q] = op[q] \/ op[q].kind = "create")
      BY <2>1, NoticedKeepsWork DEF Basis
    <2>3. CASE op[q].kind = "create"  BY <2>2, <2>3 DEF Work, Restores
    <2>4. QED  BY <1>2, <2>2, <2>3
  <1>4. CASE \E d \in Dirs : Alter(d)
    BY <1>1, <1>4, AlterKeepsWork, OthersRestore DEF Basis
  <1>5. ASSUME NEW p \in Processes, BackupStep(p) \/ Fault(p) \/ Crash(p) PROVE Restores(q)'
    <2>1. CASE p # q  BY <1>2, <1>5, <2>1, StepsAreOfOne DEF Basis
    <2>2. CASE p = q
      <3>1. CASE Ends(q) \/ Publish(q)
        <4>1. op'[q] = Idle
          BY <3>1
          DEF Ends, CreateCompletes, VerifyReports, Publish, Refuse, Fail, Fault, Crash, Ended,
              Basis, IInv, Shape
        <4>2. QED  BY <4>1, TypesOfConstants DEF Restores, None
      <3>2. CASE MakeDirectory(q) \/ Fills(q)
        <4>1. op[q].kind = "create"
          BY <3>2
          DEF MakeDirectory, Fills, TakeSnapshot, CopyConfig, WriteManifest, At, Basis, IInv,
              StepsOfCreate
        <4>2. op'[q].kind = op[q].kind
          BY <3>2, TypesOfConstants
          DEF MakeDirectory, Fills, TakeSnapshot, CopyConfig, WriteManifest, GoTo, Basis, IInv,
              Shape, Typed, OpsAreTyped
        <4>3. QED  BY <4>1, <4>2 DEF Restores
      <3>3. QED
        BY <1>1, <1>5, <2>2, <3>1, <3>2, BeginsRestore, OnwardRestore
        DEF BackupStep, Fills, Onward, Ends, Begins
    <2>3. QED  BY <2>1, <2>2
  <1>6. CASE UNCHANGED vars  BY <1>2, <1>6 DEF vars
  <1>7. QED  BY <1>3, <1>4, <1>5, <1>6 DEF Next

(* Nothing but a restore copies files.                                     *)
OnlyRestoresCopy == \A p \in Processes : op[p].step = "copy" => op[p].kind = "restore"

LEMMA NextOnlyRestores ==
    ASSUME Basis, OnlyRestoresCopy, [Next]_vars
    PROVE  OnlyRestoresCopy'
  <1> SUFFICES ASSUME NEW q \in Processes, op'[q].step = "copy" PROVE op'[q].kind = "restore"
    BY DEF OnlyRestoresCopy
  <1>1. ASSUME op'[q].step = op[q].step, op'[q].kind = op[q].kind PROVE op'[q].kind = "restore"
    BY <1>1 DEF OnlyRestoresCopy
  <1>2. CASE Edit \/ \E p \in Processes : HostStep(p)
    BY <1>1, <1>2, NoticedKeepsWork DEF Edit, HostStep, Basis, Work
  <1>3. CASE \E d \in Dirs : Alter(d)
    BY <1>1, <1>3, AlterKeepsWork DEF Basis, Work
  <1>4. ASSUME NEW p \in Processes, BackupStep(p) \/ Fault(p) \/ Crash(p)
        PROVE  op'[q].kind = "restore"
    <2>1. CASE p # q  BY <1>1, <1>4, <2>1, StepsAreOfOne DEF Basis
    <2>2. CASE p = q
      <3>1. ASSUME Ends(q) \/ Publish(q) PROVE FALSE
        <4>1. op'[q] = Idle
          BY <3>1
          DEF Ends, CreateCompletes, VerifyReports, Publish, Refuse, Fail, Fault, Crash, Ended,
              Basis, IInv, Shape
        <4>2. QED  BY <4>1, TypesOfConstants DEF None
      <3>2. ASSUME MakeDirectory(q) \/ Fills(q) PROVE FALSE
        BY <3>2, TypesOfConstants
        DEF MakeDirectory, Fills, TakeSnapshot, CopyConfig, WriteManifest, GoTo, Basis, IInv,
            Shape, Typed, OpsAreTyped
      <3>3. ASSUME OpenForBackup(q) \/ ReadManifest(q) \/ CheckContents(q) PROVE FALSE
        BY <3>3, TypesOfConstants
        DEF OpenForBackup, ReadManifest, CheckContents, Basis, IInv, Shape, Typed, OpsAreTyped
      <3>4. ASSUME Reread(q) PROVE op'[q].kind = "restore"
        BY <3>4, TypesOfConstants DEF Reread, Basis, IInv, Shape, Typed, OpsAreTyped
      <3>5. ASSUME CopyFile(q) PROVE op'[q].kind = "restore"
        BY <1>1, <3>5, TypesOfConstants DEF CopyFile, Basis, IInv, Shape, Typed, OpsAreTyped
      <3>6. ASSUME Begins(q) PROVE FALSE
        <4>1. op'[q].step \in {"open", "verify"}
          <5>1. CASE \E e \in Dirs : BeginCreate(q, e)
            BY <5>1, TypesOfConstants DEF BeginCreate, Begin, Basis, IInv, Shape
          <5>2. CASE \E e \in Dirs, pin \in Pins : BeginVerify(q, e, pin)
            BY <5>2, TypesOfConstants DEF BeginVerify, Begin, Basis, IInv, Shape
          <5>3. CASE \E e \in Dirs, pin \in Pins, r \in Roots : BeginRestore(q, e, r, pin)
            BY <5>3, TypesOfConstants DEF BeginRestore, Begin, Basis, IInv, Shape
          <5>4. QED  BY <3>6, <5>1, <5>2, <5>3 DEF Begins
        <4>2. QED  BY <4>1
      <3>7. QED
        BY <1>4, <2>2, <3>1, <3>2, <3>3, <3>4, <3>5, <3>6 DEF BackupStep, Fills, Ends, Begins
    <2>3. QED  BY <2>1, <2>2
  <1>5. CASE UNCHANGED vars  BY <1>1, <1>5 DEF vars
  <1>6. QED  BY <1>2, <1>3, <1>4, <1>5 DEF Next

-----------------------------------------------------------------------------
(* The configuration of a restored workspace is the one in the backup with *)
(* the store path of its primary journal set to the default.               *)
RootsTrack ==
    \A r \in Roots : root[r].there =>
        root[r].space = Rehomed(Configs[root[r].config]) /\ Loads(root[r].config, None)

Restored == AllRestore /\ OnlyRestoresCopy /\ RootsTrack /\ RestoredIsTaken

LEMMA InitRestored == Init => Restored
  BY TypesOfConstants
  DEF Init, Restored, AllRestore, Restores, OnlyRestoresCopy, RootsTrack, RestoredIsTaken, NoRoot, None

LEMMA RootsChange ==
    ASSUME [Next]_vars
    PROVE  UNCHANGED root \/ \E p \in Processes : Publish(p)
  <1>1. ASSUME NEW p \in Processes, BackupStep(p), ~ Publish(p) PROVE UNCHANGED root
    BY <1>1
    DEF BackupStep, BeginCreate, BeginVerify, BeginRestore, OpenForBackup, MakeDirectory,
        TakeSnapshot, CopyConfig, WriteManifest, ReadManifest, CheckContents, CreateCompletes,
        VerifyReports, Reread, CopyFile, Refuse, Fail
  <1>2. ASSUME NEW p \in Processes, HostStep(p) \/ Fault(p) \/ Crash(p) PROVE UNCHANGED root
    BY <1>2 DEF HostStep, Fault, Crash
  <1>3. ASSUME NEW d \in Dirs, Alter(d) PROVE UNCHANGED root  BY <1>3 DEF Alter
  <1>4. ASSUME Edit \/ UNCHANGED vars PROVE UNCHANGED root  BY <1>4 DEF Edit, vars
  <1>5. QED  BY SMTT(40), <1>1, <1>2, <1>3, <1>4 DEF Next

LEMMA PublishIsSound ==
    ASSUME Basis, Ids, AllRestore, OnlyRestoresCopy, NEW p \in Processes, Publish(p)
    PROVE  /\ op[p].kind = "restore" /\ Intact(op[p].copied) /\ Loads(op[p].config, None)
           /\ op[p].pin # 0 /\ op[p].disturbed = 0 =>
                \E b \in reported : /\ b.manifest.id = op[p].pin
                                    /\ b.manifest.files = op[p].copied
                                    /\ b.manifest.config = op[p].config
  <1> DEFINE d == op[p].dest
             files == op[p].manifest.files
  <1>1. op[p].step = "copy" /\ Uncopied(p) = {} /\ Intact(op[p].copied)
    BY DEF Publish, At
  <1>2. op[p].kind = "restore"  BY <1>1 DEF OnlyRestoresCopy
  <1>3. /\ d \in Dirs /\ op[p].fits /\ Loads(op[p].config, None)
        /\ DOMAIN op[p].copied \subseteq DOMAIN files
        /\ op[p].copied = [f \in DOMAIN op[p].copied |-> files[f]]
    BY <1>1, <1>2 DEF AllRestore, Restores
  <1>4. DOMAIN op[p].copied = DOMAIN files
    BY <1>1, <1>3 DEF Uncopied
  <1>5. ASSUME op[p].pin # 0, op[p].disturbed = 0
        PROVE  \E b \in reported : /\ b.manifest.id = op[p].pin
                                   /\ b.manifest.files = op[p].copied
                                   /\ b.manifest.config = op[p].config
    <2>1. /\ dir[d].manifest = op[p].manifest /\ op[p].manifest.id = op[p].pin
          /\ op[p].config = op[p].manifest.config
      BY <1>1, <1>2, <1>3, <1>5 DEF AllRestore, Restores
    <2>2. PICK b \in reported : b.manifest.id = op[p].pin
      BY <1>2, <1>5 DEF AllRestore, Restores
    <2>3. b.manifest.files = files /\ b.manifest.config = op[p].config
      BY <1>3, <2>1, <2>2 DEF Ids, ManifestsAreGenuine
    <2>4. PICK v : b.manifest.files = SnapshotOf(b.from, v)
      BY DEF Basis, Sound, AllNamed, Named
    <2>5. files = [f \in DOMAIN files |-> files[f]]
      BY <2>3, <2>4, SnapshotsAreTyped
    <2>6. op[p].copied = files  BY <1>3, <1>4, <2>5
    <2>7. QED  BY <2>2, <2>3, <2>6
  <1>6. QED  BY <1>1, <1>2, <1>3, <1>5

LEMMA NextRestored == Basis /\ Ids /\ Restored /\ [Next]_vars => Restored'
  <1> SUFFICES ASSUME Basis, Ids, Restored, [Next]_vars PROVE Restored'  OBVIOUS
  <1>1. AllRestore' /\ OnlyRestoresCopy'  BY NextRestore, NextOnlyRestores DEF Restored
  <1>2. ASSUME NEW p \in Processes, Publish(p) PROVE RootsTrack' /\ RestoredIsTaken'
    <2> DEFINE new == [there |-> TRUE, store |-> op[p].copied,
                       space |-> Rehomed(Configs[op[p].config]), config |-> op[p].config,
                       pin |-> op[p].pin, disturbed |-> op[p].disturbed]
    <2>1. /\ Intact(op[p].copied) /\ Loads(op[p].config, None)
          /\ op[p].pin # 0 /\ op[p].disturbed = 0 =>
               \E b \in reported : /\ b.manifest.id = op[p].pin
                                   /\ b.manifest.files = op[p].copied
                                   /\ b.manifest.config = op[p].config
      BY <1>2, PublishIsSound DEF Restored
    <2>2. root' = [root EXCEPT ![op[p].root] = new] /\ UNCHANGED reported
      BY <1>2 DEF Publish
    <2>3. \A r \in Roots : root'[r] = root[r] \/ root'[r] = new
      BY <2>2 DEF Basis, IInv, Shape
    <2>4. /\ new.store = op[p].copied /\ new.space = Rehomed(Configs[op[p].config])
          /\ new.config = op[p].config /\ new.pin = op[p].pin /\ new.disturbed = op[p].disturbed
      OBVIOUS
    <2> HIDE DEF new
    <2>5. RootsTrack'  BY <2>1, <2>3, <2>4 DEF Restored, RootsTrack
    <2>6. RestoredIsTaken'
      BY <2>1, <2>2, <2>3, <2>4 DEF Restored, RestoredIsTaken, Intact
    <2>7. QED  BY <2>5, <2>6
  <1>3. ASSUME UNCHANGED root PROVE RootsTrack' /\ RestoredIsTaken'
    <2>1. RootsTrack'  BY <1>3 DEF Restored, RootsTrack
    <2>2. RestoredIsTaken'
      BY <1>3, ReportedStays DEF Restored, RestoredIsTaken, Intact
    <2>3. QED  BY <2>1, <2>2
  <1>4. QED  BY <1>1, <1>2, <1>3, RootsChange DEF Restored

(* The entry of a journal, with another store path                         *)
LEMMA RehomedEntries ==
    ASSUME NEW c, Loads(c, None)
    PROVE  LET old == Configs[c]  new == Rehomed(Configs[c]) IN
           /\ new.primary = old.primary /\ old.primary \in DOMAIN old.journals
           /\ DOMAIN new.journals = DOMAIN old.journals
           /\ new.journals[new.primary].path = DefaultPath
           /\ \A j \in DOMAIN old.journals :
                /\ new.journals[j].role = old.journals[j].role
                /\ new.journals[j].source = old.journals[j].source
                /\ new.journals[j].mode = old.journals[j].mode
                /\ new.journals[j].remote = old.journals[j].remote
                /\ j # old.primary => new.journals[j].path = old.journals[j].path
  <1> DEFINE old == Configs[c]
             new == Rehomed(old)
  <1>1. c \in DOMAIN Configs /\ old.primary \in DOMAIN old.journals
    BY DEF Loads, Resolves, Selects
  <1>2. DOMAIN old = {"primary", "journals"}
    <2>1. old = [primary |-> old.primary, journals |-> old.journals]  BY <1>1, ConfigsAssumption
    <2>2. DOMAIN [primary |-> old.primary, journals |-> old.journals] = {"primary", "journals"}
      OBVIOUS
    <2> HIDE DEF old
    <2>3. QED  BY <2>1, <2>2
  <1>3. \A j \in DOMAIN old.journals :
          DOMAIN old.journals[j] = {"role", "path", "source", "mode", "remote"}
    <2>1. ASSUME NEW role, NEW path, NEW source, NEW mode, NEW remote
          PROVE  DOMAIN EntryOf(role, path, source, mode, remote)
                   = {"role", "path", "source", "mode", "remote"}
      BY DEF EntryOf
    <2>2. ASSUME NEW j \in DOMAIN old.journals
          PROVE  \E role, path, source, mode, remote :
                   old.journals[j] = EntryOf(role, path, source, mode, remote)
      BY <1>1, ConfigsAssumption
    <2> HIDE DEF old
    <2>3. QED  BY <2>1, <2>2
  <1>4. new = [old EXCEPT !.journals[old.primary].path = DefaultPath]  BY DEF Rehomed
  <1> HIDE DEF old, new
  <1>5. /\ new.primary = old.primary
        /\ new.journals = [old.journals EXCEPT ![old.primary].path = DefaultPath]
    BY <1>2, <1>4
  <1>6. DOMAIN new.journals = DOMAIN old.journals  BY <1>5
  <1>7. new.journals[old.primary].path = DefaultPath
    BY <1>1, <1>3, <1>5
  <1>8. ASSUME NEW j \in DOMAIN old.journals
        PROVE  /\ new.journals[j].role = old.journals[j].role
               /\ new.journals[j].source = old.journals[j].source
               /\ new.journals[j].mode = old.journals[j].mode
               /\ new.journals[j].remote = old.journals[j].remote
               /\ j # old.primary => new.journals[j].path = old.journals[j].path
    BY <1>1, <1>3, <1>5, <1>8
  <1>9. QED  BY <1>1, <1>5, <1>6, <1>7, <1>8 DEF old, new

(* set_primary_store_path keeps a workspace resolvable unless another of   *)
(* its journals has the default path already (topology.rs, validate_all).  *)
LEMMA RehomedResolves ==
    ASSUME NEW c, Loads(c, None),
           \A j \in DOMAIN Configs[c].journals \ {Configs[c].primary} :
               Configs[c].journals[j].path # DefaultPath
    PROVE  Resolves(Rehomed(Configs[c]), None)
  <1> DEFINE old == Configs[c].journals
             new == Rehomed(Configs[c]).journals
             primary == Configs[c].primary
  <1>1. /\ Rehomed(Configs[c]).primary = primary /\ primary \in DOMAIN old
        /\ DOMAIN new = DOMAIN old
        /\ new[primary].path = DefaultPath
        /\ \A j \in DOMAIN old :
             /\ new[j].role = old[j].role /\ new[j].source = old[j].source
             /\ new[j].mode = old[j].mode /\ new[j].remote = old[j].remote
             /\ j # primary => new[j].path = old[j].path
    BY RehomedEntries
  <1>2. Valid(old) /\ old[primary].role = "canonical"  BY DEF Loads, Resolves
  <1>3. DefaultPath # << >>
    <2>1. Loads(DefaultConfig, None)  BY HostAssumption DEF Loads
    <2>2. /\ Valid(Configs[DefaultConfig].journals)
          /\ Configs[DefaultConfig].primary \in DOMAIN Configs[DefaultConfig].journals
      BY <2>1 DEF Loads, Resolves
    <2>3. DefaultPath = Configs[DefaultConfig].journals[Configs[DefaultConfig].primary].path
      BY DEF DefaultPath, JournalOf, Selects
    <2>4. QED  BY <2>2, <2>3 DEF Valid
  <1>4. \A j \in DOMAIN old \ {primary} : old[j].path # DefaultPath  OBVIOUS
  <1> HIDE DEF old, new, primary
  <1>5. \A i, j \in DOMAIN new : new[i].path = new[j].path => i = j
    BY <1>1, <1>2, <1>4 DEF Valid
  <1>6. \A j \in DOMAIN new : new[j].path # << >>
    BY <1>1, <1>2, <1>3 DEF Valid
  <1>7. \A j \in DOMAIN new :
          /\ new[j].role = "canonical" => CanonicalIsPlain(new[j])
          /\ new[j].role = "replica" => ReplicaIsFollowable(new, j)
    BY <1>1, <1>2 DEF Valid, CanonicalIsPlain, ReplicaIsFollowable
  <1>8. Acyclic(new)
    BY <1>1, <1>2 DEF Valid, Acyclic
  <1>9. Valid(new)  BY <1>1, <1>2, <1>5, <1>6, <1>7, <1>8 DEF Valid
  <1>10. QED  BY <1>1, <1>2, <1>9 DEF Resolves, Selects, new, primary

LEMMA TrackedRootsOpen == RootsTrack => RestoredOpens
  <1> SUFFICES ASSUME RootsTrack, NEW r \in Roots, root[r].there,
                      \A j \in DOMAIN Configs[root[r].config].journals
                                 \ {Configs[root[r].config].primary} :
                          Configs[root[r].config].journals[j].path # DefaultPath
               PROVE  /\ Resolves(root[r].space, None)
                      /\ root[r].space.journals[root[r].space.primary].path = DefaultPath
    BY DEF RestoredOpens
  <1>1. root[r].space = Rehomed(Configs[root[r].config]) /\ Loads(root[r].config, None)
    BY DEF RootsTrack
  <1>2. QED  BY <1>1, RehomedResolves, RehomedEntries

(* What a restore publishes is one unbroken history, under a pin it is the *)
(* reported backup, and the workspace opens on it (backup/restore.rs).     *)
THEOREM RestoredWorkspacesAreSound == Spec => []RestoresAreSound
  <1>1. Basis /\ Ids /\ Restored /\ [Next]_vars => (Basis /\ Ids /\ Restored)'
    BY NextHolds, NextTyped, NextHost, NextSound, NextIds, NextRestored DEF Basis
  <1>2. Init => Basis /\ Ids /\ Restored
    BY InitHolds, InitTyped, InitHost, InitSound, InitIds, InitRestored DEF Basis
  <1>3. Basis /\ Ids /\ Restored => RestoresAreSound
    BY TrackedRootsOpen DEF Restored, RestoresAreSound
  <1>4. QED  BY <1>1, <1>2, <1>3, PTL DEF Spec

(* A backup that create reports has every event that the journal has at    *)
(* that moment: its lock kept everyone from appending since the snapshot.  *)
WholeWhenReported ==
    [][ \A b \in reported' \ reported :
            b.manifest.files = SnapshotOf(b.from, version[b.from]) ]_vars

(* No report of texo backup create is missing an event committed before it *)
(* (backup/create.rs, create_backup).                                      *)
THEOREM BackupsAreWhole == Spec => WholeWhenReported
  <1>1. ASSUME Basis, [Next]_vars, NEW b \in reported' \ reported
        PROVE  b.manifest.files = SnapshotOf(b.from, version[b.from])
    <2>1. PICK p \in Processes : CreateCompletes(p)  BY <1>1, ReportedGrows
    <2>2. PICK d, m, c : /\ d = op[p].dest /\ m = dir[d].manifest
                         /\ c = [manifest |-> m, from |-> op[p].from, disturbed |-> op[p].disturbed]
      OBVIOUS
    <2>3. /\ reported' = reported \union {c}
          /\ m = ManifestOf(op[p].id, d, op[p].path, op[p].files, op[p].config)
      BY <1>1, <2>1, <2>2, CompletedIsSound DEF Basis, Sound
    <2>4. m.files = op[p].files  BY <2>3, ManifestsAreTyped
    <2>5. op[p].files = SnapshotOf(op[p].from, version[op[p].from])
      BY <1>1, <2>1 DEF CreateCompletes, At, Basis, Sound, AllHold, Holds, Copied
    <2>6. b = c  BY <1>1, <2>3
    <2>7. QED  BY <2>2, <2>4, <2>5, <2>6
  <1>2. Basis /\ [Next]_vars => Basis'
    BY NextHolds, NextTyped, NextHost, NextSound DEF Basis
  <1>3. Init => Basis  BY InitHolds, InitTyped, InitHost, InitSound DEF Basis
  <1>4. Basis /\ [Next]_vars =>
          [\A b \in reported' \ reported :
               b.manifest.files = SnapshotOf(b.from, version[b.from])]_vars
    BY <1>1
  <1>5. QED  BY <1>2, <1>3, <1>4, PTL DEF Spec, WholeWhenReported
=============================================================================

-------------------------- MODULE SftpTransfersProofs --------------------------
(***************************************************************************)
(* What is proved of SftpTransfers, for every number of items, transfers   *)
(* and failures: the uploads implement ReplaceFile, the name keeps a file, *)
(* and the types of all variables.                                         *)
(***************************************************************************)
EXTENDS SftpTransfers, FiniteSetTheorems, TLAPS

\* The types of what the server and run_sftp_upload keep.
ServerType ==
    /\ dir \in [target : Handles \cup {Original, Missing}, parts : SUBSET Handles,
                backup : [Handles -> Handles \cup {Original, Missing}]]
    /\ placed \in SUBSET Handles
    /\ stage \in [Handles -> Stages]
    /\ verdict \in [Handles -> Verdicts]
    /\ moved \in SUBSET Handles

\* A file that can be seen under one of the names was placed, or was there first.
FilesInv ==
    /\ dir.target \in Handles => dir.target \in placed
    /\ \A h \in Handles : dir.backup[h] \in Handles => dir.backup[h] \in placed

\* Where an upload is says what it has done.
StageInv ==
    \A h \in Handles :
        /\ stage[h] \in {"none", "open", "copy", "stat", "protect"} =>
               dir.backup[h] = Missing /\ h \notin placed /\ h \notin moved
        /\ stage[h] = "finalize" => h \notin placed
        /\ (h \in moved /\ stage[h] \in {"finalize", "discard", "restore"}) => dir.backup[h] # Missing
        /\ stage[h] = "restore" => h \in moved
        /\ stage[h] = "cleanup" => h \in placed
        /\ stage[h] \in {"discard", "restore"} => verdict[h] # "completed"
        /\ (stage[h] = "ended" /\ verdict[h] = "completed") => h \in placed

Inv == ServerType /\ FilesInv /\ StageInv

\* What is left of the server operations once the session is forgotten.
Effect(possible, after) ==
    \/ dir' = dir /\ placed' = placed
    \/ possible /\ dir' = after /\ Notes

-----------------------------------------------------------------------------

\* The numbers that stand for the old file and for none are not those of transfers.
LEMMA Distinct == Missing \notin Handles /\ Original \notin Handles /\ Original # Missing
BY BoundsAssumption DEF Missing, Original, Handles

\* A failure has its effect or none.
LEMMA FailsEffect ==
  ASSUME Inv, NEW possible, NEW after, Fails(possible, after)
  PROVE  Effect(possible, after)
BY SMT DEF Fails, Refused, Breaks, Effect, Notes, Inv, FilesInv, server

\* So does a success.
LEMMA SucceedsEffect ==
  ASSUME NEW possible, NEW after, Succeeds(possible, after)
  PROVE  possible /\ dir' = after /\ Notes
BY DEF Succeeds

\* A step of an upload changes nothing of what another one relies on.
LEMMA OthersKept ==
  ASSUME Inv, NEW h \in Handles, NEW g \in Handles, g # h,
         stage'[g] = stage[g], verdict'[g] = verdict[g], g \in moved' <=> g \in moved,
         dir'.backup[g] = dir.backup[g],
         placed \subseteq placed', placed' \subseteq placed \cup {h}
  PROVE  /\ stage'[g] \in {"none", "open", "copy", "stat", "protect"} =>
               dir'.backup[g] = Missing /\ g \notin placed' /\ g \notin moved'
         /\ stage'[g] = "finalize" => g \notin placed'
         /\ (g \in moved' /\ stage'[g] \in {"finalize", "discard", "restore"}) => dir'.backup[g] # Missing
         /\ stage'[g] = "restore" => g \in moved'
         /\ stage'[g] = "cleanup" => g \in placed'
         /\ stage'[g] \in {"discard", "restore"} => verdict'[g] # "completed"
         /\ (stage'[g] = "ended" /\ verdict'[g] = "completed") => g \in placed'
BY DEF Inv, StageInv

\* What is told of an upload is told once, and success only of one whose file was placed.
LEMMA Reports ==
  ASSUME Inv, NEW h \in Handles, stage[h] # "ended",
         NEW s \in Stages, stage' = [stage EXCEPT ![h] = s],
         NEW v \in Verdicts, verdict' = [verdict EXCEPT ![h] = v],
         (s = "ended" /\ v = "completed") => h \in placed'
  PROVE  outcome[h] = "none" /\ R!Report(h)
<1>1. outcome[h] = "none"
  BY DEF outcome
<1>2. CASE s # "ended"
  <2>1. outcome' = outcome
    BY <1>2 DEF outcome, Inv, ServerType
  <2> QED BY <1>1, <2>1 DEF R!Report
<1>3. CASE s = "ended"
  <2>1. outcome' = [outcome EXCEPT ![h] = v]
    BY <1>3 DEF outcome, Inv, ServerType
  <2>2. v \in R!Results \ {"none"}
    BY DEF R!Results, Verdicts
  <2> QED BY <1>1, <1>3, <2>1, <2>2 DEF R!Report
<1> QED BY <1>2, <1>3

\* The steps on the files that an upload may take, as ReplaceFile has them.
FileStep(h) ==
    \/ R!Withdraw(h) \/ R!Place(h) \/ R!Restore(h) \/ R!Discard(h)
    \/ UNCHANGED <<dir.target, dir.backup, placed>>

\* An operation that changes no more than the .part files.
LEMMA PartsOnly ==
  ASSUME Inv, NEW h \in Handles, NEW P \in SUBSET Handles, NEW possible,
         Effect(possible, Names(dir.target, P, dir.backup))
  PROVE  /\ dir'.target = dir.target /\ dir'.backup = dir.backup /\ placed' = placed
         /\ dir' \in [target : Handles \cup {Original, Missing}, parts : SUBSET Handles,
                backup : [Handles -> Handles \cup {Original, Missing}]]
BY SMT DEF Effect, Names, Notes, Inv, FilesInv, ServerType

\* The old file goes to .backup.
LEMMA ProtectFiles ==
  ASSUME Inv, NEW h \in Handles, stage[h] = "protect", ~Free, dir' = Protected(h), Notes
  PROVE  /\ R!Withdraw(h)
         /\ placed' = placed
         /\ dir'.target = Missing
         /\ dir'.backup = [dir.backup EXCEPT ![h] = dir.target]
         /\ dir' \in [target : Handles \cup {Original, Missing}, parts : SUBSET Handles,
                backup : [Handles -> Handles \cup {Original, Missing}]]
BY Distinct, SMT DEF Free, Protected, Names, Notes, Inv, ServerType, StageInv, R!Withdraw

\* The new file takes the name.
LEMMA FinalizeFiles ==
  ASSUME Inv, NEW h \in Handles, stage[h] = "finalize", Free, dir' = Finalized(h), Notes
  PROVE  /\ R!Place(h)
         /\ placed' = placed \cup {h}
         /\ dir'.target = h
         /\ dir'.backup = dir.backup
         /\ dir' \in [target : Handles \cup {Original, Missing}, parts : SUBSET Handles,
                backup : [Handles -> Handles \cup {Original, Missing}]]
BY Distinct, SMT DEF Free, Finalized, Names, Notes, Inv, ServerType, StageInv, R!Place

\* The old file comes back.
LEMMA RestoreFiles ==
  ASSUME Inv, NEW h \in Handles, stage[h] = "restore", Free, dir' = Restored(h), Notes
  PROVE  /\ R!Restore(h)
         /\ placed' = placed
         /\ dir'.target = dir.backup[h]
         /\ dir'.backup = [dir.backup EXCEPT ![h] = Missing]
         /\ dir' \in [target : Handles \cup {Original, Missing}, parts : SUBSET Handles,
                backup : [Handles -> Handles \cup {Original, Missing}]]
<1>1. dir.backup[h] # Missing /\ dir.backup[h] \in Handles \cup {Original, Missing}
  BY SMT DEF Inv, ServerType, StageInv
<1>2. /\ dir'.target = dir.backup[h]
      /\ dir'.backup = [dir.backup EXCEPT ![h] = Missing]
      /\ dir' \in [target : Handles \cup {Original, Missing}, parts : SUBSET Handles,
                backup : [Handles -> Handles \cup {Original, Missing}]]
  BY <1>1, SMT DEF Restored, Names, Inv, ServerType
<1>3. placed' = placed
  BY <1>2, SMT DEF Notes, Inv, FilesInv
<1> QED BY <1>1, <1>2, <1>3 DEF R!Restore, Free

\* The .backup goes.
LEMMA CleanupFiles ==
  ASSUME Inv, NEW h \in Handles, stage[h] = "cleanup", dir' = Cleaned(h), Notes
  PROVE  /\ R!Discard(h)
         /\ placed' = placed
         /\ dir'.target = dir.target
         /\ dir'.backup = [dir.backup EXCEPT ![h] = Missing]
         /\ dir' \in [target : Handles \cup {Original, Missing}, parts : SUBSET Handles,
                backup : [Handles -> Handles \cup {Original, Missing}]]
BY Distinct, SMT DEF Cleaned, Names, Notes, Inv, ServerType, StageInv, FilesInv, R!Discard

-----------------------------------------------------------------------------
\* What an action of an upload has to show: that the invariant holds after it, and that it is
\* a step of ReplaceFile.
Goal(h) == Inv' /\ outcome[h] = "none" /\ R!Report(h) /\ FileStep(h)

\* An operation on a .part file, or one that only asks, with what run_sftp_upload does next.
LEMMA PartStep ==
  ASSUME Inv, NEW h \in Handles, stage[h] \notin {"none", "ended"},
         NEW P \in SUBSET Handles, NEW possible,
         Effect(possible, Names(dir.target, P, dir.backup)),
         NEW s \in Stages, stage' = [stage EXCEPT ![h] = s],
         NEW v \in Verdicts, verdict' = [verdict EXCEPT ![h] = v],
         moved' = moved,
         \/ stage[h] \in {"open", "copy", "stat"} /\ s \in {"copy", "stat", "protect", "finalize"}
         \/ stage[h] \in {"open", "copy", "protect", "finalize"} /\ s = "discard" /\ v # "completed"
         \/ stage[h] = "discard" /\ v = verdict[h] /\ s = IF h \in moved THEN "restore" ELSE "ended"
         \/ stage[h] = "restore" /\ v = verdict[h] /\ s = "ended"
         \/ stage[h] = "cleanup" /\ s = "ended"
  PROVE  Goal(h)
<1>1. /\ dir'.target = dir.target /\ dir'.backup = dir.backup /\ placed' = placed
      /\ dir' \in [target : Handles \cup {Original, Missing}, parts : SUBSET Handles,
                backup : [Handles -> Handles \cup {Original, Missing}]]
  BY PartsOnly
<1>2. ServerType'
  BY <1>1 DEF Inv, ServerType
<1>3. FilesInv'
  BY <1>1 DEF Inv, FilesInv
<1>4. stage'[h] = s /\ verdict'[h] = v
  BY DEF Inv, ServerType
<1>5. ASSUME NEW g \in Handles, g # h
      PROVE  stage'[g] = stage[g] /\ verdict'[g] = verdict[g]
  BY <1>5 DEF Inv, ServerType
<1>6. StageInv'
  BY <1>1, <1>4, <1>5, SMT DEF Inv, StageInv
<1>7. (s = "ended" /\ v = "completed") => h \in placed'
  BY <1>1, SMT DEF Inv, StageInv
<1>8. outcome[h] = "none" /\ R!Report(h)
  BY <1>7, Reports
<1>9. FileStep(h)
  BY <1>1 DEF FileStep
<1> QED BY <1>2, <1>3, <1>6, <1>8, <1>9 DEF Goal, Inv

\* The old file becomes the backup.
LEMMA ProtectStep ==
  ASSUME Inv, NEW h \in Handles, Protect(h)
  PROVE  Goal(h)
<1>0. stage[h] = "protect"
  BY DEF Protect
<1>1. CASE /\ ~Free /\ dir' = Protected(h) /\ Notes
           /\ \/ stage' = [stage EXCEPT ![h] = "finalize"] /\ verdict' = verdict /\ moved' = moved \cup {h}
              \/ /\ stage' = [stage EXCEPT ![h] = "discard"] /\ moved' = moved
                 /\ verdict' = [verdict EXCEPT ![h] = "failed"]
  <2>1. /\ R!Withdraw(h)
        /\ placed' = placed
        /\ dir'.target = Missing
        /\ dir'.backup = [dir.backup EXCEPT ![h] = dir.target]
        /\ dir' \in [target : Handles \cup {Original, Missing}, parts : SUBSET Handles,
                backup : [Handles -> Handles \cup {Original, Missing}]]
    BY <1>0, <1>1, ProtectFiles
  <2>2. ServerType'
    BY <1>1, <2>1 DEF Inv, ServerType, Stages, Verdicts
  <2>3. FilesInv'
    BY <2>1, Distinct DEF Inv, FilesInv, ServerType
  <2>4. StageInv'
    BY <1>0, <1>1, <2>1, SMT DEF Inv, StageInv, ServerType, Free
  <2>5. PICK s \in {"finalize", "discard"}, v \in Verdicts :
            stage' = [stage EXCEPT ![h] = s] /\ verdict' = [verdict EXCEPT ![h] = v]
    BY <1>1 DEF Inv, ServerType, Verdicts
  <2>6. s \in Stages
    BY DEF Stages
  <2>7. outcome[h] = "none" /\ R!Report(h)
    BY <1>0, <2>5, <2>6, Reports
  <2> QED BY <2>1, <2>2, <2>3, <2>4, <2>7 DEF Goal, Inv, FileStep
<1>2. CASE dir' = dir /\ placed' = placed /\ GiveUp(h, "failed")
  <2>1. Effect(FALSE, Names(dir.target, dir.parts, dir.backup))
    BY <1>2 DEF Effect
  <2>2. "discard" \in Stages /\ "failed" \in Verdicts /\ "failed" # "completed" /\ dir.parts \in SUBSET Handles
    BY DEF Stages, Verdicts, Inv, ServerType
  <2>3. stage' = [stage EXCEPT ![h] = "discard"] /\ verdict' = [verdict EXCEPT ![h] = "failed"] /\ moved' = moved
    BY <1>2 DEF GiveUp, To
  <2> QED BY <1>0, <2>1, <2>2, <2>3, PartStep
<1> QED
  BY <1>1, <1>2, FailsEffect, SucceedsEffect DEF Protect, Effect, GiveUp, To

\* The new file takes the name.
LEMMA FinalizeStep ==
  ASSUME Inv, NEW h \in Handles, Finalize(h)
  PROVE  Goal(h)
<1>0. stage[h] = "finalize"
  BY DEF Finalize
<1>1. CASE /\ Free /\ dir' = Finalized(h) /\ Notes /\ moved' = moved
           /\ \E s \in {"cleanup", "ended", "discard"}, v \in Verdicts :
                  /\ stage' = [stage EXCEPT ![h] = s] /\ verdict' = [verdict EXCEPT ![h] = v]
                  /\ s = "discard" => v # "completed"
  <2>1. /\ R!Place(h)
        /\ placed' = placed \cup {h}
        /\ dir'.target = h
        /\ dir'.backup = dir.backup
        /\ dir' \in [target : Handles \cup {Original, Missing}, parts : SUBSET Handles,
                backup : [Handles -> Handles \cup {Original, Missing}]]
    BY <1>0, <1>1, FinalizeFiles
  <2>2. PICK s \in {"cleanup", "ended", "discard"}, v \in Verdicts :
                  /\ stage' = [stage EXCEPT ![h] = s] /\ verdict' = [verdict EXCEPT ![h] = v]
                  /\ s = "discard" => v # "completed"
    BY <1>1
  <2>3. ServerType'
    BY <1>1, <2>1, <2>2 DEF Inv, ServerType, Stages
  <2>4. FilesInv'
    BY <2>1 DEF Inv, FilesInv
  <2>5. StageInv'
    BY <1>0, <1>1, <2>1, <2>2, SMT DEF Inv, StageInv, ServerType
  <2>6. s \in Stages
    BY DEF Stages
  <2>7. outcome[h] = "none" /\ R!Report(h)
    BY <1>0, <2>1, <2>2, <2>6, Reports
  <2> QED BY <2>1, <2>3, <2>4, <2>5, <2>7 DEF Goal, Inv, FileStep
<1>2. CASE dir' = dir /\ placed' = placed /\ GiveUp(h, "failed")
  <2>1. Effect(FALSE, Names(dir.target, dir.parts, dir.backup))
    BY <1>2 DEF Effect
  <2>2. "discard" \in Stages /\ "failed" \in Verdicts /\ "failed" # "completed" /\ dir.parts \in SUBSET Handles
    BY DEF Stages, Verdicts, Inv, ServerType
  <2>3. stage' = [stage EXCEPT ![h] = "discard"] /\ verdict' = [verdict EXCEPT ![h] = "failed"] /\ moved' = moved
    BY <1>2 DEF GiveUp, To
  <2> QED BY <1>0, <2>1, <2>2, <2>3, PartStep
<1>3. CASE Succeeds(Free, Finalized(h)) /\ Continue(h, IF h \in moved THEN "cleanup" ELSE "ended")
  <2>1. /\ stage' = [stage EXCEPT ![h] = IF h \in moved THEN "cleanup" ELSE "ended"]
        /\ verdict' = [verdict EXCEPT ![h] = verdict[h]] /\ verdict[h] \in Verdicts /\ moved' = moved
    BY <1>3 DEF Continue, To, Inv, ServerType
  <2>2. PICK s \in {"cleanup", "ended", "discard"} : s = (IF h \in moved THEN "cleanup" ELSE "ended") /\ s # "discard"
    OBVIOUS
  <2>3. Free /\ dir' = Finalized(h) /\ Notes
    BY <1>3, SucceedsEffect
  <2> QED BY <1>1, <2>1, <2>2, <2>3
<1>4. CASE Fails(Free, Finalized(h)) /\ GiveUp(h, "failed")
  <2>1. Effect(Free, Finalized(h))
    BY <1>4, FailsEffect
  <2>2. /\ stage' = [stage EXCEPT ![h] = "discard"] /\ verdict' = [verdict EXCEPT ![h] = "failed"]
        /\ moved' = moved /\ "failed" \in Verdicts /\ "failed" # "completed"
    BY <1>4 DEF GiveUp, To, Verdicts
  <2> QED BY <1>1, <1>2, <1>4, <2>1, <2>2 DEF Effect
<1> QED
  BY <1>3, <1>4 DEF Finalize

\* What is tidied up has its effect or none.
LEMMA TidiesEffect ==
  ASSUME Inv, NEW possible, NEW after, Tidies(possible, after)
  PROVE  Effect(possible, after)
BY FailsEffect, SucceedsEffect DEF Tidies, Effect

\* The backup goes.
LEMMA CleanupStep ==
  ASSUME Inv, NEW h \in Handles, Cleanup(h)
  PROVE  Goal(h)
<1>0. /\ stage[h] = "cleanup" /\ "ended" \in Stages /\ verdict[h] \in Verdicts /\ dir.parts \in SUBSET Handles
      /\ stage' = [stage EXCEPT ![h] = "ended"] /\ verdict' = [verdict EXCEPT ![h] = verdict[h]]
      /\ moved' = moved /\ Effect(TRUE, Cleaned(h))
  BY TidiesEffect DEF Cleanup, Continue, To, Inv, ServerType, Stages
<1>1. CASE dir' = dir /\ placed' = placed
  <2>1. Effect(FALSE, Names(dir.target, dir.parts, dir.backup))
    BY <1>1 DEF Effect
  <2> QED BY <1>0, <2>1, PartStep
<1>2. CASE dir' = Cleaned(h) /\ Notes
  <2>1. /\ R!Discard(h)
        /\ placed' = placed
        /\ dir'.target = dir.target
        /\ dir'.backup = [dir.backup EXCEPT ![h] = Missing]
        /\ dir' \in [target : Handles \cup {Original, Missing}, parts : SUBSET Handles,
                backup : [Handles -> Handles \cup {Original, Missing}]]
    BY <1>0, <1>2, CleanupFiles
  <2>2. ServerType'
    BY <1>0, <2>1 DEF Inv, ServerType
  <2>3. FilesInv'
    BY <2>1, Distinct DEF Inv, FilesInv, ServerType
  <2>4. StageInv'
    BY <1>0, <2>1, SMT DEF Inv, StageInv, ServerType
  <2>5. h \in placed'
    BY <1>0, <2>1 DEF Inv, StageInv
  <2>6. outcome[h] = "none" /\ R!Report(h)
    BY <1>0, <2>5, Reports
  <2> QED BY <2>1, <2>2, <2>3, <2>4, <2>6 DEF Goal, Inv, FileStep
<1> QED BY <1>0, <1>1, <1>2 DEF Effect

\* The backup takes the name again.
LEMMA RestoreStep ==
  ASSUME Inv, NEW h \in Handles, Restore(h)
  PROVE  Goal(h)
<1>0. /\ stage[h] = "restore" /\ "ended" \in Stages /\ verdict[h] \in Verdicts /\ dir.parts \in SUBSET Handles
      /\ stage' = [stage EXCEPT ![h] = "ended"] /\ verdict' = [verdict EXCEPT ![h] = verdict[h]]
      /\ moved' = moved /\ Effect(Free, Restored(h))
  BY TidiesEffect DEF Restore, Continue, To, Inv, ServerType, Stages
<1>1. CASE dir' = dir /\ placed' = placed
  <2>1. Effect(FALSE, Names(dir.target, dir.parts, dir.backup))
    BY <1>1 DEF Effect
  <2> QED BY <1>0, <2>1, PartStep
<1>2. CASE Free /\ dir' = Restored(h) /\ Notes
  <2>1. /\ R!Restore(h)
        /\ placed' = placed
        /\ dir'.target = dir.backup[h]
        /\ dir'.backup = [dir.backup EXCEPT ![h] = Missing]
        /\ dir' \in [target : Handles \cup {Original, Missing}, parts : SUBSET Handles,
                backup : [Handles -> Handles \cup {Original, Missing}]]
    BY <1>0, <1>2, RestoreFiles
  <2>2. ServerType'
    BY <1>0, <2>1 DEF Inv, ServerType
  <2>3. FilesInv'
    BY <2>1, Distinct DEF Inv, FilesInv, ServerType
  <2>4. verdict[h] # "completed"
    BY <1>0 DEF Inv, StageInv
  <2>5. StageInv'
    BY <1>0, <2>1, <2>4, SMT DEF Inv, StageInv, ServerType
  <2>6. outcome[h] = "none" /\ R!Report(h)
    BY <1>0, <2>4, Reports
  <2> QED BY <2>1, <2>2, <2>3, <2>5, <2>6 DEF Goal, Inv, FileStep
<1> QED BY <1>0, <1>1, <1>2 DEF Effect

\* What goes on keeps its verdict.
LEMMA Continues ==
  ASSUME Inv, NEW h \in Handles, NEW s \in Stages, Continue(h, s)
  PROVE  /\ stage' = [stage EXCEPT ![h] = s] /\ verdict' = [verdict EXCEPT ![h] = verdict[h]]
         /\ moved' = moved
BY DEF Continue, To, Inv, ServerType

\* The .part is opened.
LEMMA OpenStep ==
  ASSUME Inv, NEW h \in Handles, Open(h)
  PROVE  Goal(h)
<1>0. stage[h] = "open" /\ dir.parts \cup {h} \in SUBSET Handles /\ verdict[h] \in Verdicts
  BY DEF Open, Inv, ServerType
<1>1. Effect(TRUE, Names(dir.target, dir.parts \cup {h}, dir.backup))
  BY FailsEffect, SucceedsEffect DEF Open, Created, Effect
<1>2. CASE Continue(h, "copy")
  <2>1. "copy" \in Stages
    BY DEF Stages
  <2> QED BY <1>0, <1>1, <1>2, <2>1, Continues, PartStep
<1>3. CASE GiveUp(h, "failed")
  BY <1>0, <1>1, <1>3, PartStep DEF GiveUp, To, Stages, Verdicts
<1> QED BY <1>2, <1>3 DEF Open

\* An operation that only asks changes nothing.
LEMMA AskOnly ==
  ASSUME Inv, NEW possible, Effect(possible, dir)
  PROVE  Effect(FALSE, Names(dir.target, dir.parts, dir.backup))
BY SMT DEF Effect, Notes, Inv, FilesInv

\* The contents are copied.
LEMMA CopyStep ==
  ASSUME Inv, NEW h \in Handles, Copy(h)
  PROVE  Goal(h)
<1>0. stage[h] = "copy" /\ dir.parts \in SUBSET Handles /\ verdict[h] \in Verdicts
  BY DEF Copy, Inv, ServerType
<1>1. Effect(FALSE, Names(dir.target, dir.parts, dir.backup))
  <2>1. CASE UNCHANGED server
    BY <2>1 DEF server, Effect
  <2>2. CASE Succeeds(TRUE, dir) \/ Fails(TRUE, dir)
    BY <2>2, FailsEffect, SucceedsEffect, AskOnly DEF Effect
  <2> QED BY <2>1, <2>2 DEF Copy
<1>2. CASE Continue(h, "stat")
  <2>1. "stat" \in Stages
    BY DEF Stages
  <2> QED BY <1>0, <1>1, <1>2, <2>1, Continues, PartStep
<1>3. CASE GiveUp(h, "failed")
  BY <1>0, <1>1, <1>3, PartStep DEF GiveUp, To, Stages, Verdicts
<1>4. CASE GiveUp(h, "cancelled")
  BY <1>0, <1>1, <1>4, PartStep DEF GiveUp, To, Stages, Verdicts
<1> QED BY <1>2, <1>3, <1>4 DEF Copy

\* The name is looked at.
LEMMA StatStep ==
  ASSUME Inv, NEW h \in Handles, Stat(h)
  PROVE  Goal(h)
<1>0. stage[h] = "stat" /\ dir.parts \in SUBSET Handles /\ verdict[h] \in Verdicts
  BY DEF Stat, Inv, ServerType
<1>1. Effect(FALSE, Names(dir.target, dir.parts, dir.backup))
  BY FailsEffect, SucceedsEffect, AskOnly DEF Effect, Stat
<1>2. PICK s \in {"protect", "finalize"} : Continue(h, s)
  BY DEF Stat
<1>3. s \in Stages
  BY DEF Stages
<1> QED BY <1>0, <1>1, <1>2, <1>3, Continues, PartStep

\* The .part goes.
LEMMA DiscardStep ==
  ASSUME Inv, NEW h \in Handles, Discard(h)
  PROVE  Goal(h)
<1> DEFINE s == IF h \in moved THEN "restore" ELSE "ended"
<1>0. stage[h] = "discard" /\ dir.parts \ {h} \in SUBSET Handles /\ verdict[h] \in Verdicts
  BY DEF Discard, Inv, ServerType
<1>1. Effect(h \in dir.parts, Names(dir.target, dir.parts \ {h}, dir.backup))
  BY TidiesEffect DEF Discard, Removed
<1>2. Continue(h, s) /\ s \in Stages
  BY DEF Discard, Stages
<1>3. /\ stage' = [stage EXCEPT ![h] = s] /\ verdict' = [verdict EXCEPT ![h] = verdict[h]]
      /\ moved' = moved
  BY <1>2 DEF Continue, To, Inv, ServerType
<1> QED BY <1>0, <1>1, <1>2, <1>3, PartStep

\* Every operation of an upload is a step of ReplaceFile.
LEMMA UploadStep ==
  ASSUME Inv, NEW h \in Handles, Upload(h)
  PROVE  Goal(h)
BY OpenStep, CopyStep, StatStep, ProtectStep, FinalizeStep, CleanupStep, DiscardStep, RestoreStep DEF Upload

\* What the manager, the user and the tab do changes nothing that ReplaceFile sees, but for a
\* transfer that begins.
LEMMA QuietStep ==
  ASSUME Inv, dir' = dir, placed' = placed, verdict' = verdict, moved' = moved,
         \/ stage' = stage
         \/ \E h \in Handles : stage[h] = "none" /\ stage' = [stage EXCEPT ![h] = "open"]
  PROVE  Inv' /\ UNCHANGED R!vars
<1>1. CASE stage' = stage
  <2>1. outcome' = outcome
    BY <1>1 DEF outcome
  <2> QED BY <1>1, <2>1 DEF Inv, ServerType, FilesInv, StageInv, R!vars
<1>2. CASE \E h \in Handles : stage[h] = "none" /\ stage' = [stage EXCEPT ![h] = "open"]
  <2>1. PICK h \in Handles : stage[h] = "none" /\ stage' = [stage EXCEPT ![h] = "open"]
    BY <1>2
  <2>2. \A g \in Handles : stage'[g] = IF g = h THEN "open" ELSE stage[g]
    BY <2>1 DEF Inv, ServerType
  <2>3. outcome' = outcome
    BY <2>1, <2>2 DEF outcome
  <2>4. ServerType'
    BY <2>1 DEF Inv, ServerType, Stages
  <2>5. StageInv'
    BY <2>1, <2>2, SMT DEF Inv, StageInv
  <2> QED BY <2>3, <2>4, <2>5 DEF Inv, FilesInv, R!vars
<1> QED BY <1>1, <1>2

\* Every step keeps the invariant, and is a step of ReplaceFile or a stutter.
LEMMA NextStep ==
  ASSUME Inv, [Next]_vars
  PROVE  Inv' /\ [R!Next]_(R!vars)
<1>1. ASSUME NEW h \in Handles, Upload(h)
      PROVE  Inv' /\ R!Next
  <2>1. Goal(h)
    BY <1>1, UploadStep
  <2> QED BY <2>1 DEF Goal, FileStep, R!Next, R!files
<1>2. ASSUME NEW i \in Items, RustStarts(i)
      PROVE  Inv' /\ UNCHANGED R!vars
  BY <1>2, QuietStep DEF RustStarts, To, server
<1>3. ASSUME NEW i \in Items,
             \/ RustRefuses(i) \/ Launched(i) \/ Poll(i) \/ Disposed(i) \/ RetryGoes(i)
             \/ Start(i) \/ Cancel(i) \/ Retry(i) \/ Remove(i)
      PROVE  Inv' /\ UNCHANGED R!vars
  <2>1. dir' = dir /\ placed' = placed /\ verdict' = verdict /\ moved' = moved /\ stage' = stage
    BY <1>3 DEF RustRefuses, Launched, Poll, Disposed, RetryGoes, Start, Cancel, Retry, Remove, server, rust, run
  <2> QED BY <2>1, QuietStep
<1>4. ASSUME Close
      PROVE  Inv' /\ UNCHANGED R!vars
  <2>1. dir' = dir /\ placed' = placed /\ verdict' = verdict /\ moved' = moved /\ stage' = stage
    BY <1>4 DEF Close, CloseTab, CloseCancels, CloseRemoves, CloseSession, Rest, server, run
  <2> QED BY <2>1, QuietStep
<1>5. CASE UNCHANGED vars
  BY <1>5, QuietStep DEF vars
<1> QED BY <1>1, <1>2, <1>3, <1>4, <1>5 DEF Next, RustStep, Answer, User

\* The start maps to the start of ReplaceFile.
LEMMA InitStep ==
  ASSUME Init
  PROVE  Inv /\ R!Init
<1>1. outcome = [h \in Handles |-> "none"]
  BY DEF Init, outcome
<1>2. ServerType
  BY DEF Init, ServerType, Names, Stages, Verdicts
<1>3. FilesInv /\ StageInv
  BY Distinct, SMT DEF Init, FilesInv, StageInv, Names
<1> QED BY <1>1, <1>2, <1>3 DEF Inv, Init, Names, R!Init

-----------------------------------------------------------------------------
\* The uploads of any number of items implement ReplaceFile, whichever operations fail
\* (run_sftp_upload).
THEOREM UploadsReplace == Spec => Replaces
<1>1. Init => Inv /\ R!Init
  BY InitStep
<1>2. Inv /\ [Next]_vars => Inv' /\ [R!Next]_(R!vars)
  BY NextStep
<1> QED BY <1>1, <1>2, PTL DEF Spec, Replaces, R!Spec

\* Whatever fails, the remote name or the .backup of an upload that is not done has a whole
\* file (run_sftp_upload).
THEOREM SomeFileKept == Spec => []R!SomeFileKept
<1>1. R!NamesDiffer
  BY Distinct DEF R!NamesDiffer
<1>2. R!Spec => []R!SomeFileKept
  BY <1>1, R!FileKept
<1> QED BY <1>2, UploadsReplace, PTL DEF Replaces

-----------------------------------------------------------------------------
(***************************************************************************)
(* NameHasFile says what is under the name once every upload has ended.    *)
(* For that, while they run: a name without a file is owed one by an       *)
(* upload that has yet to finalize or, its finalize being the one failure, *)
(* to restore.                                                             *)
(***************************************************************************)

Owes(h) ==
    \/ h \notin moved /\ dir.backup[h] # Missing
    \/ h \in moved /\ stage[h] = "finalize"
    \/ faults = 1 /\ h \in moved /\ stage[h] \in {"discard", "restore"}

NameInv ==
    /\ (Free /\ up /\ faults <= 1) => \E h \in Handles : Owes(h)
    /\ \A h \in Handles : stage[h] = "cleanup" => h \in moved
    /\ up \in BOOLEAN /\ faults \in Nat

\* An operation leaves the connection and the failures as they were, or is the next failure.
LEMMA Costs ==
  ASSUME NameInv, NEW possible, NEW after,
         Succeeds(possible, after) \/ Fails(possible, after) \/ UNCHANGED server
  PROVE  /\ up' \in BOOLEAN /\ faults' \in Nat
         /\ up' => up
         /\ faults' = faults \/ faults' = faults + 1
         /\ (faults' = faults /\ up') =>
               (Succeeds(possible, after) \/ (~possible /\ dir' = dir) \/ UNCHANGED server)
<1>0. up \in BOOLEAN /\ faults \in Nat
  BY DEF NameInv
<1>1. CASE Succeeds(possible, after)
  BY <1>0, <1>1, Zenon DEF Succeeds
<1>2. CASE UNCHANGED server
  BY <1>0, <1>2, Zenon DEF server
<1>3. CASE Refused(possible)
  <2>1. CASE ~up
    BY <1>0, <1>3, <2>1, Zenon DEF Refused, server
  <2>2. CASE ~possible
    BY <1>0, <1>3, <2>2, Zenon DEF Refused, server
  <2> QED BY <1>3, <2>1, <2>2 DEF Refused
<1>4. CASE Breaks(possible, after)
  <2>1. faults' = faults + 1 /\ up /\ up' \in BOOLEAN
    BY <1>4, Zenon DEF Breaks
  <2>2. faults' \in Nat /\ faults' # faults
    BY <1>0, <2>1, SMT
  <2> QED BY <2>1, <2>2, Zenon
<1> QED BY <1>1, <1>2, <1>3, <1>4, Zenon DEF Fails

\* Another upload still owes the file.
LEMMA OthersOwe ==
  ASSUME NEW h \in Handles, NEW g \in Handles, g # h, Owes(g),
         stage'[g] = stage[g], g \in moved' <=> g \in moved, dir'.backup[g] = dir.backup[g],
         faults = 1 => faults' = 1
  PROVE  Owes(g)'
BY DEF Owes


\* Only Protect takes the file from under the name.
LEMMA FreeBefore ==
  ASSUME Inv, NEW h \in Handles, Upload(h), ~Protect(h), Free'
  PROVE  Free
<1>1. CASE dir' = dir
  BY <1>1 DEF Free
<1>2. ASSUME NEW possible, NEW after, Effect(possible, after), after.target # Missing \/ after.target = dir.target \/ (possible => Free)
      PROVE  Free
  BY <1>1, <1>2 DEF Effect, Free
<1>3. CASE Open(h)
  BY <1>2, <1>3, FailsEffect, SucceedsEffect DEF Open, Effect, Created, Names
<1>4. CASE Copy(h)
  BY <1>1, <1>2, <1>4, FailsEffect, SucceedsEffect DEF Copy, Effect, server
<1>5. CASE Stat(h)
  BY <1>1, <1>2, <1>5, FailsEffect, SucceedsEffect DEF Stat, Effect
<1>6. CASE Finalize(h)
  BY <1>2, <1>6, FailsEffect, SucceedsEffect DEF Finalize, Effect
<1>7. CASE Cleanup(h)
  BY <1>2, <1>7, TidiesEffect DEF Cleanup, Cleaned, Names
<1>8. CASE Discard(h)
  BY <1>2, <1>8, TidiesEffect DEF Discard, Removed, Names
<1>9. CASE Restore(h)
  BY <1>2, <1>9, TidiesEffect DEF Restore
<1> QED BY <1>3, <1>4, <1>5, <1>6, <1>7, <1>8, <1>9 DEF Upload

\* What every operation of an upload leaves to the others.
LEMMA OnlyItsOwn ==
  ASSUME Inv, NEW h \in Handles, Upload(h), NEW g \in Handles, g # h
  PROVE  stage'[g] = stage[g] /\ (g \in moved' <=> g \in moved) /\ dir'.backup[g] = dir.backup[g]
<1>1. /\ \E s : stage' = [stage EXCEPT ![h] = s]
      /\ moved' = moved \/ moved' = moved \cup {h}
  BY DEF Upload, Open, Copy, Stat, Protect, Finalize, Cleanup, Discard, Restore, Continue, GiveUp, To
<1>2. stage'[g] = stage[g] /\ (g \in moved' <=> g \in moved)
  BY <1>1 DEF Inv, ServerType
<1>3. FileStep(h)
  BY UploadStep DEF Goal
<1>4. dir'.backup = dir.backup \/ \E f : dir'.backup = [dir.backup EXCEPT ![h] = f]
  BY <1>3, Zenon DEF FileStep, R!Withdraw, R!Place, R!Restore, R!Discard
<1>5. dir'.backup[g] = dir.backup[g]
  BY <1>4 DEF Inv, ServerType
<1> QED BY <1>2, <1>5

\* The connection and the failures, over any operation of an upload.
LEMMA UploadCosts ==
  ASSUME NameInv, NEW h \in Handles, Upload(h)
  PROVE  /\ up' \in BOOLEAN /\ faults' \in Nat /\ (up' => up)
         /\ faults' = faults \/ faults' = faults + 1
<1>1. \E possible, after :
          Succeeds(possible, after) \/ Fails(possible, after) \/ UNCHANGED server
  BY DEF Upload, Open, Copy, Stat, Protect, Finalize, Cleanup, Discard, Restore, Tidies
<1> QED BY <1>1, Costs

\* An upload that owes the file goes on owing it, unless it brings it back.
LEMMA OwnOwes ==
  ASSUME Inv, NameInv, NEW h \in Handles, Upload(h), Owes(h), Free, Free', up', faults' <= 1
  PROVE  Owes(h)'
<1>0. /\ faults \in Nat /\ faults' \in Nat /\ up
      /\ faults' = faults \/ faults' = faults + 1
  BY UploadCosts DEF NameInv
<1>1. stage[h] \notin {"open", "copy", "stat", "protect", "cleanup"}
  BY DEF Inv, StageInv, NameInv, Owes
<1>2. CASE Finalize(h)
  <2>0. stage[h] = "finalize"
    BY <1>2 DEF Finalize
  <2>1. ~Succeeds(Free, Finalized(h))
    <3>1. Finalized(h).target = h
      BY DEF Finalized, Names
    <3> QED BY <3>1, Distinct DEF Succeeds, Free
  <2>2. Fails(Free, Finalized(h)) /\ GiveUp(h, "failed")
    BY <1>2, <2>1 DEF Finalize
  <2>3. stage'[h] = "discard" /\ moved' = moved
    BY <2>2 DEF GiveUp, To, Inv, ServerType
  <2>4. Breaks(Free, Finalized(h))
    BY <1>0, <2>2 DEF Fails, Refused
  <2>5. faults' = faults + 1
    BY <2>4 DEF Breaks
  <2>6. faults' = 1
    BY <1>0, <2>5, SMT
  <2>7. dir'.backup[h] = dir.backup[h]
    BY <2>4, SMT DEF Breaks, Finalized, Names
  <2> QED BY <2>3, <2>6, <2>7 DEF Owes
<1>3. CASE Discard(h)
  <2>0. stage[h] = "discard"
    BY <1>3 DEF Discard
  <2>1. moved' = moved /\ (h \in moved => stage'[h] = "restore")
    BY <1>3 DEF Discard, Continue, To, Inv, ServerType
  <2>2. Effect(h \in dir.parts, Removed(h))
    BY <1>3, TidiesEffect DEF Discard
  <2>3. dir'.backup[h] = dir.backup[h]
    BY <2>2 DEF Effect, Removed, Names
  <2>4. faults = 1 => faults' = 1
    BY <1>0, SMT
  <2> QED BY <2>0, <2>1, <2>3, <2>4 DEF Owes
<1>4. CASE Restore(h)
  <2>0. stage[h] = "restore" /\ h \in moved /\ dir.backup[h] # Missing
    BY <1>4 DEF Restore, Inv, StageInv
  <2>1. faults = 1 /\ faults' = faults
    <3>1. faults = 1
      BY <2>0 DEF Owes
    <3> QED BY <1>0, <3>1, SMT
  <2>2. Restored(h).target # Missing
    BY <2>0 DEF Restored, Names
  <2>3. CASE Succeeds(Free, Restored(h))
    BY <2>2, <2>3 DEF Succeeds, Free
  <2>4. CASE Fails(Free, Restored(h))
    <3>1. Breaks(Free, Restored(h))
      BY <1>0, <2>4 DEF Fails, Refused
    <3>2. faults' = faults + 1
      BY <3>1 DEF Breaks
    <3> QED BY <1>0, <2>1, <3>2, SMT
  <2> QED BY <1>4, <2>3, <2>4 DEF Restore, Tidies
<1> QED
  BY <1>1, <1>2, <1>3, <1>4 DEF Upload, Open, Copy, Stat, Protect, Cleanup

\* Protect: the file it takes away is its own debt.
LEMMA ProtectOwes ==
  ASSUME Inv, NameInv, NEW h \in Handles, Protect(h), ~Free, Free'
  PROVE  Owes(h)'
<1>0. stage[h] = "protect" /\ Effect(~Free, Protected(h))
  BY FailsEffect, SucceedsEffect DEF Protect, Effect
<1>1. dir' = Protected(h) /\ Notes
  BY <1>0 DEF Effect, Free
<1>2. dir'.backup = [dir.backup EXCEPT ![h] = dir.target] /\ dir.target # Missing
  BY <1>0, <1>1, ProtectFiles DEF Free
<1>3. dir'.backup[h] # Missing
  BY <1>2 DEF Inv, ServerType
<1>4. h \notin moved
  BY <1>0 DEF Inv, StageInv
<1>5. CASE moved' = moved \cup {h} /\ To(h, "finalize")
  BY <1>5 DEF To, Owes, Inv, ServerType
<1>6. CASE GiveUp(h, "failed")
  BY <1>3, <1>4, <1>6 DEF GiveUp, Owes
<1> QED BY <1>5, <1>6 DEF Protect

\* A step of an upload leaves a name without a file only to one that owes it one.
LEMMA UploadOwes ==
  ASSUME Inv, NameInv, NEW h \in Handles, Upload(h)
  PROVE  NameInv'
<1>1. up' \in BOOLEAN /\ faults' \in Nat
  BY UploadCosts
<1>2. ASSUME NEW g \in Handles, stage'[g] = "cleanup"
      PROVE  g \in moved'
  <2>1. CASE g # h
    BY <1>2, <2>1, OnlyItsOwn DEF NameInv
  <2>2. CASE g = h
    <3>1. Finalize(h) /\ stage' = [stage EXCEPT ![h] = IF h \in moved THEN "cleanup" ELSE "ended"] /\ moved' = moved
      BY <1>2, <2>2 DEF Upload, Open, Copy, Stat, Protect, Finalize, Cleanup, Discard, Restore, Continue,
         GiveUp, To, Inv, ServerType
    <3> QED BY <1>2, <2>2, <3>1 DEF Inv, ServerType
  <2> QED BY <2>1, <2>2
<1>3. ASSUME Free', up', faults' <= 1
      PROVE  \E g \in Handles : Owes(g)'
  <2>1. CASE ~Free
    <3>1. Protect(h)
      BY <1>3, <2>1, FreeBefore
    <3> QED BY <1>3, <2>1, <3>1, ProtectOwes
  <2>2. CASE Free
    <3>1. /\ up /\ faults <= 1
          /\ faults = 1 => faults' = 1
      <4>1. faults \in Nat /\ faults' \in Nat /\ (faults' = faults \/ faults' = faults + 1) /\ up
        BY <1>3, UploadCosts DEF NameInv
      <4> QED BY <1>3, <4>1, SMT
    <3>2. PICK g \in Handles : Owes(g)
      BY <2>2, <3>1 DEF NameInv
    <3>3. CASE g = h
      BY <1>3, <2>2, <3>2, <3>3, OwnOwes
    <3>4. CASE g # h
      BY <3>1, <3>2, <3>4, OnlyItsOwn, OthersOwe
    <3> QED BY <3>3, <3>4
  <2> QED BY <2>1, <2>2
<1> QED BY <1>1, <1>2, <1>3 DEF NameInv

\* What neither uploads nor closes the session leaves the debts alone.
LEMMA QuietOwes ==
  ASSUME Inv, NameInv, dir' = dir, faults' \in {faults, faults + 1}, up' = up, moved' = moved,
         \/ stage' = stage
         \/ \E h \in Handles : stage[h] = "none" /\ stage' = [stage EXCEPT ![h] = "open"]
  PROVE  NameInv'
<1>1. faults' \in Nat /\ up' \in BOOLEAN /\ faults \in Nat
  BY DEF NameInv
<1>2. ASSUME NEW g \in Handles, stage[g] # "none"
      PROVE  stage'[g] = stage[g]
  BY <1>2 DEF Inv, ServerType
<1>3. ASSUME NEW g \in Handles, stage'[g] = "cleanup"
      PROVE  stage[g] = "cleanup"
  BY <1>3 DEF Inv, ServerType
<1>4. ASSUME Free', up', faults' <= 1
      PROVE  \E g \in Handles : Owes(g)'
  <2>1. Free /\ up /\ faults <= 1 /\ (faults = 1 => faults' = 1)
    <3>1. faults <= 1 /\ (faults = 1 => faults' = 1)
      BY <1>1, <1>4, SMT
    <3> QED BY <1>4, <3>1 DEF Free
  <2>2. PICK g \in Handles : Owes(g)
    BY <2>1 DEF NameInv
  <2> QED BY <1>2, <2>1, <2>2 DEF Owes
<1> QED BY <1>1, <1>3, <1>4 DEF NameInv

\* Every step does.
LEMMA NextOwes ==
  ASSUME Inv, NameInv, [Next]_vars
  PROVE  NameInv'
<1>0. faults \in Nat
  BY DEF NameInv
<1>1. ASSUME NEW i \in Items, RustStarts(i)
      PROVE  NameInv'
  BY <1>0, <1>1, QuietOwes DEF RustStarts, To, server
<1>2. ASSUME NEW i \in Items,
             \/ RustRefuses(i) \/ Launched(i) \/ Poll(i) \/ Disposed(i) \/ RetryGoes(i)
             \/ Start(i) \/ Cancel(i) \/ Retry(i) \/ Remove(i)
      PROVE  NameInv'
  <2>1. dir' = dir /\ faults' \in {faults, faults + 1} /\ up' = up /\ moved' = moved /\ stage' = stage
    BY <1>2 DEF RustRefuses, Launched, Poll, Disposed, RetryGoes, Start, Cancel, Retry, Remove, server, rust, run
  <2> QED BY <2>1, QuietOwes
<1>3. ASSUME CloseTab \/ CloseCancels \/ CloseRemoves \/ UNCHANGED vars
      PROVE  NameInv'
  <2>1. dir' = dir /\ faults' \in {faults, faults + 1} /\ up' = up /\ moved' = moved /\ stage' = stage
    BY <1>3 DEF CloseTab, CloseCancels, CloseRemoves, Rest, server, run, vars
  <2> QED BY <2>1, QuietOwes
<1>4. ASSUME CloseSession
      PROVE  NameInv'
  <2>1. up' = FALSE /\ faults' = faults /\ stage' = stage /\ moved' = moved
    BY <1>4 DEF CloseSession, run
  <2> QED BY <1>0, <2>1 DEF NameInv
<1> QED BY <1>1, <1>2, <1>3, <1>4, UploadOwes DEF Next, RustStep, Answer, User, Close

\* The name has a file at the start.
LEMMA InitOwes == Init => NameInv
BY Distinct DEF Init, NameInv, Free, Names

\* Once every upload has ended there is a file under the name, for every number of uploads at
\* a time (NameHasFile).
THEOREM NameIsKept == Spec => []NameHasFile
<1>1. Init => Inv /\ NameInv
  BY InitStep, InitOwes
<1>2. Inv /\ NameInv /\ [Next]_vars => (Inv /\ NameInv)'
  BY NextStep, NextOwes
<1>3. Inv /\ NameInv => NameHasFile
  BY DEF NameInv, Owes, NameHasFile
<1> QED BY <1>1, <1>2, <1>3, PTL DEF Spec

-----------------------------------------------------------------------------
(***************************************************************************)
(* The types of what the manager keeps.  That its counters stay within     *)
(* their bound needs the calls of all items together: the transfers that   *)
(* have begun, and the starts and retries that may still begin one.        *)
(***************************************************************************)

\* Room for a call n of the item p[1], for each call c counts.
Pairs(c) == {p \in Items \X Handles : p[2] <= c[p[1]]}

\* The starts and retries under way, of each item.
Waiting == [i \in Items |-> retries[i] + starts[i]]

ManagerType ==
    /\ open \in BOOLEAN /\ up \in BOOLEAN /\ faults \in 0..MaxFaults
    /\ cancel \in SUBSET Handles /\ registry \in SUBSET Begun
    /\ status \in [Items -> Statuses] /\ held \in SUBSET Items
    /\ task \in [Items -> Handles \cup {NoTask}]
    /\ retries \in [Items -> Nat] /\ starts \in [Items -> Nat] /\ monitors \in [Items -> Nat]
    /\ replies \in [Items -> SUBSET Handles] /\ disposing \in [Items -> SUBSET Handles]
    /\ closing \in {"no", "transfers", "closed"} /\ left \in SUBSET Items /\ asked \in BOOLEAN

CallsInv ==
    /\ Cardinality(Begun) + Cardinality(Pairs(Waiting)) <= MaxHandles
    /\ \A i \in Items :
           /\ Waiting[i] <= MaxHandles
           /\ monitors[i] + Cardinality(replies[i]) <= Cardinality(Begun)

\* The transfers are as many as their bound says.
LEMMA HandlesFinite == IsFiniteSet(Handles) /\ Cardinality(Handles) = MaxHandles
BY BoundsAssumption, FS_Interval DEF Handles

\* So the calls that are counted are finitely many.
LEMMA PairsFinite ==
  ASSUME NEW c
  PROVE  IsFiniteSet(Pairs(c)) /\ Cardinality(Pairs(c)) \in Nat
<1>1. IsFiniteSet(Items)
  BY BoundsAssumption, FS_Interval DEF Items
<1>2. IsFiniteSet(Items \X Handles)
  BY <1>1, HandlesFinite, FS_Product
<1>3. Pairs(c) \in SUBSET (Items \X Handles)
  BY DEF Pairs
<1>4. IsFiniteSet(Pairs(c))
  BY <1>2, <1>3, FS_Subset
<1>5. QED
  BY <1>4, FS_CardinalityType

\* While there is room for one more call there is room for it with any item.
LEMMA PairsRoom ==
  ASSUME NEW c \in [Items -> Nat], NEW i \in Items, Cardinality(Pairs(c)) < MaxHandles
  PROVE  c[i] < MaxHandles
<1>1. SUFFICES ASSUME c[i] >= MaxHandles
               PROVE  FALSE
  BY BoundsAssumption
<1> DEFINE all == {i} \X Handles
<1>2. all \in SUBSET Pairs(c)
  BY <1>1, BoundsAssumption DEF Pairs, Handles
<1>3. IsFiniteSet({i}) /\ Cardinality({i}) = 1
  BY FS_Singleton
<1>4. Cardinality(all) = MaxHandles
  <2>1. Cardinality(all) = Cardinality({i}) * Cardinality(Handles)
    BY <1>3, HandlesFinite, FS_Product
  <2>2. QED
    BY <1>3, <2>1, HandlesFinite, BoundsAssumption
<1>5. Cardinality(all) <= Cardinality(Pairs(c))
  BY <1>2, PairsFinite, FS_Subset
<1>6. QED
  BY <1>4, <1>5, PairsFinite, BoundsAssumption

\* One more call of an item is one more in all.
LEMMA PairsGrow ==
  ASSUME NEW c \in [Items -> Nat], NEW d \in [Items -> Nat], NEW i \in Items,
         c[i] < MaxHandles, d = [c EXCEPT ![i] = c[i] + 1]
  PROVE  Cardinality(Pairs(d)) = Cardinality(Pairs(c)) + 1
<1>1. d[i] = c[i] + 1 /\ \A j \in Items : j # i => d[j] = c[j]
  OBVIOUS
<1>2. c[i] + 1 \in Handles
  BY BoundsAssumption DEF Handles
<1>3. Pairs(d) = Pairs(c) \cup {<<i, c[i] + 1>>}
  <2>1. ASSUME NEW j \in Items, NEW n \in Handles
        PROVE  n <= d[j] <=> n <= c[j] \/ (j = i /\ n = c[i] + 1)
    BY <1>1, BoundsAssumption DEF Handles
  <2>2. QED
    BY <1>2, <2>1 DEF Pairs
<1>4. <<i, c[i] + 1>> \notin Pairs(c)
  BY DEF Pairs
<1>5. QED
  BY <1>3, <1>4, PairsFinite, FS_AddElement

\* Fewer calls of an item are not more in all.
LEMMA PairsShrink ==
  ASSUME NEW c \in [Items -> Nat], NEW d \in [Items -> Nat], \A i \in Items : d[i] <= c[i]
  PROVE  Cardinality(Pairs(d)) <= Cardinality(Pairs(c))
<1>1. Pairs(d) \in SUBSET Pairs(c)
  BY BoundsAssumption DEF Pairs, Handles
<1>2. QED
  BY <1>1, PairsFinite, FS_Subset

Types == Inv /\ ManagerType /\ CallsInv

\* An upload begins nothing, and fails within the bound.
LEMMA UploadTypes ==
  ASSUME Types, NEW h \in Handles, Upload(h)
  PROVE  ManagerType' /\ CallsInv'
<1>1. /\ up' \in BOOLEAN /\ faults' \in 0..MaxFaults
  <2>1. ASSUME NEW possible, NEW after,
               Succeeds(possible, after) \/ Fails(possible, after) \/ UNCHANGED server
        PROVE  up' \in BOOLEAN /\ faults' \in 0..MaxFaults
    BY <2>1, BoundsAssumption DEF Types, ManagerType, Succeeds, Fails, Refused, Breaks, server
  <2>2. QED
    BY <2>1 DEF Upload, Open, Copy, Stat, Protect, Finalize, Cleanup, Discard, Restore, Tidies
<1>2. stage \in [Handles -> Stages]
  BY DEF Types, Inv, ServerType
<1>3. stage[h] # "none" /\ \E s \in Stages \ {"none"} : stage' = [stage EXCEPT ![h] = s]
  BY DEF Upload, Open, Copy, Stat, Protect, Finalize, Cleanup, Discard, Restore, Continue, GiveUp, To, Stages
<1>4. Begun' = Begun
  BY <1>2, <1>3 DEF Begun
<1>5. UNCHANGED <<open, cancel, registry>> /\ UNCHANGED manager /\ UNCHANGED tab
  BY DEF Upload
<1>6. ManagerType'
  BY <1>1, <1>4, <1>5, Zenon DEF Types, ManagerType, manager, tab
<1>7. Waiting' = Waiting
  BY <1>5 DEF Waiting, manager
<1>8. CallsInv'
  BY <1>4, <1>5, <1>7, Zenon DEF Types, CallsInv, Pairs, manager
<1>9. QED
  BY <1>6, <1>8

\* Waiting, and what one call more or less does to it.
LEMMA WaitingType ==
  ASSUME Types
  PROVE  /\ Waiting \in [Items -> Nat] /\ IsFiniteSet(Begun) /\ Cardinality(Begun) \in Nat
         /\ Cardinality(Begun) <= MaxHandles
<1>1. Waiting \in [Items -> Nat]
  BY DEF Types, ManagerType, Waiting
<1>2. Begun \in SUBSET Handles
  BY DEF Begun
<1>3. IsFiniteSet(Begun) /\ Cardinality(Begun) \in Nat /\ Cardinality(Begun) <= MaxHandles
  BY <1>2, HandlesFinite, FS_Subset, FS_CardinalityType
<1>4. QED
  BY <1>1, <1>3

\* A start or a retry of an item is one call more of it.
LEMMA WaitingMore ==
  ASSUME Types, NEW i \in Items,
         \/ starts' = [starts EXCEPT ![i] = starts[i] + 1] /\ retries' = retries
         \/ retries' = [retries EXCEPT ![i] = retries[i] + 1] /\ starts' = starts
  PROVE  Waiting' = [Waiting EXCEPT ![i] = Waiting[i] + 1]
<1>1. retries \in [Items -> Nat] /\ starts \in [Items -> Nat]
  BY DEF Types, ManagerType
<1>2. ASSUME NEW j \in Items
      PROVE  retries'[j] + starts'[j] = IF j = i THEN retries[j] + starts[j] + 1 ELSE retries[j] + starts[j]
  BY <1>1
<1>3. QED
  BY <1>2 DEF Waiting

\* The end of a start is one less.
LEMMA WaitingLess ==
  ASSUME Types, NEW i \in Items, starts[i] > 0,
         starts' = [starts EXCEPT ![i] = starts[i] - 1], retries' = retries
  PROVE  /\ Waiting' \in [Items -> Nat] /\ Waiting' = [Waiting EXCEPT ![i] = Waiting[i] - 1]
         /\ Waiting = [Waiting' EXCEPT ![i] = Waiting'[i] + 1]
<1>1. retries \in [Items -> Nat] /\ starts \in [Items -> Nat]
  BY DEF Types, ManagerType
<1>2. ASSUME NEW j \in Items
      PROVE  /\ retries'[j] + starts'[j] \in Nat
             /\ j = i => retries'[j] + starts'[j] = (retries[j] + starts[j]) - 1
             /\ j # i => retries'[j] + starts'[j] = retries[j] + starts[j]
  BY <1>1
<1>3. Waiting' = [j \in Items |-> retries'[j] + starts'[j]]
  BY DEF Waiting
<1>4. Waiting' \in [Items -> Nat] /\ Waiting \in [Items -> Nat]
  BY <1>2, <1>3, WaitingType
<1>5. ASSUME NEW j \in Items
      PROVE  /\ j = i => Waiting'[j] = Waiting[j] - 1
             /\ j # i => Waiting'[j] = Waiting[j]
  BY <1>2 DEF Waiting
<1>6. \A j \in Items : Waiting[j] \in Nat /\ Waiting'[j] \in Nat
  BY <1>4
<1>7. Waiting'[i] = Waiting[i] - 1 /\ Waiting[i] = Waiting'[i] + 1
  BY <1>5, <1>6
<1>8. QED
  BY <1>4, <1>5, <1>7, Zenon

\* Where nothing is begun, answered or monitored, the bounds only need those of the calls.
LEMMA CallsKept ==
  ASSUME Types, stage' = stage, Waiting' \in [Items -> Nat],
         Cardinality(Begun) + Cardinality(Pairs(Waiting')) <= MaxHandles,
         \A i \in Items : Waiting'[i] <= MaxHandles,
         \A i \in Items : replies'[i] = replies[i] /\ monitors'[i] <= monitors[i] /\ monitors'[i] \in Nat
  PROVE  CallsInv'
<1>1. Begun' = Begun
  BY DEF Begun
<1>2. \A i \in Items : Cardinality(replies[i]) \in Nat /\ monitors[i] \in Nat
  BY HandlesFinite, FS_Subset, FS_CardinalityType DEF Types, ManagerType
<1>3. \A i \in Items : monitors'[i] + Cardinality(replies'[i]) <= Cardinality(Begun')
  BY <1>1, <1>2, WaitingType DEF Types, CallsInv
<1>4. Pairs(Waiting)' = Pairs(Waiting')
  BY DEF Pairs
<1>5. QED
  BY <1>1, <1>3, <1>4 DEF CallsInv

\* A call more, when there is room.
LEMMA CallsGrow ==
  ASSUME Types, Room, stage' = stage, NEW i \in Items,
         Waiting' = [Waiting EXCEPT ![i] = Waiting[i] + 1], replies' = replies, monitors' = monitors
  PROVE  CallsInv'
<1>1. Waiting \in [Items -> Nat] /\ Waiting' \in [Items -> Nat]
  BY WaitingType
<1>2. Pairs(Waiting) = Underway
  BY DEF Pairs, Underway, Waiting
<1>3. Cardinality(Pairs(Waiting)) < MaxHandles
  BY <1>2, WaitingType, PairsFinite, BoundsAssumption DEF Room
<1>4. Waiting[i] < MaxHandles
  BY <1>1, <1>3, PairsRoom
<1>5. Cardinality(Pairs(Waiting')) = Cardinality(Pairs(Waiting)) + 1
  BY <1>1, <1>4, PairsGrow
<1>6. Cardinality(Begun) + Cardinality(Pairs(Waiting')) <= MaxHandles
  BY <1>2, <1>5, WaitingType, PairsFinite, BoundsAssumption DEF Room
<1>7. \A j \in Items : Waiting'[j] <= MaxHandles
  BY <1>1, <1>4, BoundsAssumption DEF Types, CallsInv
<1>8. QED
  BY <1>1, <1>6, <1>7, CallsKept DEF Types, ManagerType

\* Calls that do not become more.
LEMMA CallsShrink ==
  ASSUME Types, stage' = stage, Waiting' \in [Items -> Nat], \A i \in Items : Waiting'[i] <= Waiting[i],
         \A i \in Items : replies'[i] = replies[i] /\ monitors'[i] <= monitors[i] /\ monitors'[i] \in Nat
  PROVE  CallsInv'
<1>1. Cardinality(Pairs(Waiting')) <= Cardinality(Pairs(Waiting))
  BY WaitingType, PairsShrink
<1>2. Cardinality(Begun) + Cardinality(Pairs(Waiting')) <= MaxHandles
  BY <1>1, WaitingType, PairsFinite, BoundsAssumption DEF Types, CallsInv
<1>3. \A i \in Items : Waiting'[i] <= MaxHandles
  BY WaitingType, BoundsAssumption DEF Types, CallsInv
<1>4. QED
  BY <1>2, <1>3, CallsKept

\* sftp_start_upload_file: a start becomes a transfer and its answer.
LEMMA RustStartsTypes ==
  ASSUME Types, NEW i \in Items, RustStarts(i)
  PROVE  ManagerType' /\ CallsInv'
<1>1. PICK h \in Handles :
          /\ stage[h] = "none"
          /\ stage' = [stage EXCEPT ![h] = "open"]
          /\ registry' = registry \cup {h}
          /\ replies' = [replies EXCEPT ![i] = replies[i] \cup {h}]
  BY DEF RustStarts, To
<1>2. stage \in [Handles -> Stages]
  BY DEF Types, Inv, ServerType
<1>3. Begun' = Begun \cup {h} /\ h \notin Begun
  BY <1>1, <1>2 DEF Begun
<1>4. Cardinality(Begun') = Cardinality(Begun) + 1
  BY <1>3, WaitingType, FS_AddElement
<1>5. /\ starts[i] \in Nat /\ starts[i] > 0 /\ starts' = [starts EXCEPT ![i] = starts[i] - 1]
      /\ UNCHANGED <<open, up, faults, cancel, status, held, task, retries, monitors, disposing,
                     closing, left, asked>>
  BY DEF RustStarts, Types, ManagerType, server, tab
<1>6. registry' \in SUBSET Begun'
  BY <1>1, <1>3 DEF Types, ManagerType
<1>7. starts' \in [Items -> Nat]
  BY <1>5 DEF Types, ManagerType
<1>8. replies' \in [Items -> SUBSET Handles]
  BY <1>1 DEF Types, ManagerType
<1>9. ManagerType'
  BY <1>5, <1>6, <1>7, <1>8, Zenon DEF Types, ManagerType
<1>10. /\ Waiting' \in [Items -> Nat] /\ Waiting' = [Waiting EXCEPT ![i] = Waiting[i] - 1]
       /\ Waiting = [Waiting' EXCEPT ![i] = Waiting'[i] + 1]
  BY <1>5, WaitingLess
<1>11. Waiting'[i] < MaxHandles
  BY <1>10, WaitingType, BoundsAssumption DEF Types, CallsInv
<1>12. Cardinality(Pairs(Waiting)) = Cardinality(Pairs(Waiting')) + 1
  BY <1>10, <1>11, WaitingType, PairsGrow
<1>13. Cardinality(Begun') + Cardinality(Pairs(Waiting')) <= MaxHandles
  BY <1>4, <1>12, WaitingType, PairsFinite, BoundsAssumption DEF Types, CallsInv
<1>14. ASSUME NEW j \in Items
       PROVE  Waiting'[j] <= MaxHandles /\ monitors'[j] + Cardinality(replies'[j]) <= Cardinality(Begun')
  <2>1. Waiting'[j] <= MaxHandles
    BY <1>10, <1>11, WaitingType, BoundsAssumption DEF Types, CallsInv
  <2>2. IsFiniteSet(replies[j]) /\ Cardinality(replies[j]) \in Nat
    BY HandlesFinite, FS_Subset, FS_CardinalityType DEF Types, ManagerType
  <2>3. replies'[j] \in {replies[j], replies[j] \cup {h}}
    BY <1>1 DEF Types, ManagerType
  <2>4. Cardinality(replies'[j]) \in {Cardinality(replies[j]), Cardinality(replies[j]) + 1}
    BY <2>2, <2>3, FS_AddElement
  <2>5. monitors'[j] = monitors[j] /\ monitors[j] \in Nat
    BY <1>5 DEF Types, ManagerType
  <2>6. monitors[j] + Cardinality(replies[j]) <= Cardinality(Begun)
    BY DEF Types, CallsInv
  <2>7. QED
    BY <1>4, <2>1, <2>2, <2>4, <2>5, <2>6, WaitingType
<1>15. Pairs(Waiting)' = Pairs(Waiting')
  BY DEF Pairs
<1>16. QED
  BY <1>9, <1>13, <1>14, <1>15 DEF CallsInv

\* _launch: an answer becomes a monitor.
LEMMA LaunchedTypes ==
  ASSUME Types, NEW i \in Items, Launched(i)
  PROVE  ManagerType' /\ CallsInv'
<1>1. PICK h \in replies[i] :
          /\ task' = [task EXCEPT ![i] = h]
          /\ replies' = [replies EXCEPT ![i] = replies[i] \ {h}]
  BY DEF Launched
<1>2. /\ monitors' = [monitors EXCEPT ![i] = monitors[i] + 1] /\ stage' = stage
      /\ UNCHANGED <<open, up, faults, cancel, registry, status, held, retries, starts, disposing,
                     closing, left, asked>>
  BY DEF Launched, server, rust, tab
<1>3. h \in Handles
  BY <1>1 DEF Types, ManagerType
<1>4. Begun' = Begun /\ Waiting' = Waiting /\ Pairs(Waiting)' = Pairs(Waiting)
  BY <1>2 DEF Begun, Waiting, Pairs
<1>5. task' \in [Items -> Handles \cup {NoTask}]
  BY <1>1, <1>3 DEF Types, ManagerType
<1>6. monitors' \in [Items -> Nat]
  BY <1>2 DEF Types, ManagerType
<1>7. replies' \in [Items -> SUBSET Handles]
  BY <1>1 DEF Types, ManagerType
<1>8. ManagerType'
  BY <1>2, <1>4, <1>5, <1>6, <1>7, Zenon DEF Types, ManagerType
<1>9. ASSUME NEW j \in Items
      PROVE  monitors'[j] + Cardinality(replies'[j]) <= Cardinality(Begun)
  <2>1. IsFiniteSet(replies[j]) /\ Cardinality(replies[j]) \in Nat
    BY HandlesFinite, FS_Subset, FS_CardinalityType DEF Types, ManagerType
  <2>2. monitors[j] \in Nat /\ monitors[j] + Cardinality(replies[j]) <= Cardinality(Begun)
    BY DEF Types, ManagerType, CallsInv
  <2>3. CASE j = i
    <3>1. Cardinality(replies[i] \ {h}) = Cardinality(replies[i]) - 1
      BY <1>1, <2>1, <2>3, FS_RemoveElement
    <3>2. replies'[i] = replies[i] \ {h} /\ monitors'[i] = monitors[i] + 1
      BY <1>1, <1>2 DEF Types, ManagerType
    <3>3. QED
      BY <2>1, <2>2, <2>3, <3>1, <3>2, WaitingType
  <2>4. CASE j # i
    BY <1>1, <1>2, <2>2, <2>4 DEF Types, ManagerType
  <2>5. QED
    BY <2>3, <2>4
<1>10. QED
  BY <1>4, <1>8, <1>9 DEF Types, CallsInv

\* _releaseResources and remove() keep to the items and transfers there are.
LEMMA ReleaseTypes ==
  ASSUME Types, NEW gone, Release(gone)
  PROVE  held' \in SUBSET Items /\ registry' \in SUBSET Begun
BY DEF Types, ManagerType, Release

\* So does cancel().
LEMMA AskedTypes ==
  ASSUME Types, NEW i, Asked(i)
  PROVE  cancel' \in SUBSET Handles
BY DEF Types, ManagerType, Asked, Begun

\* And _replace.
LEMMA ShownTypes ==
  ASSUME Types, NEW i, NEW s \in Statuses, Shown(i, s)
  PROVE  status' \in [Items -> Statuses]
BY DEF Types, ManagerType, Shown

\* And remove().
LEMMA RemovesTypes ==
  ASSUME Types, NEW i, Removes(i)
  PROVE  /\ status' \in [Items -> Statuses] /\ held' \in SUBSET Items
         /\ registry' \in SUBSET Begun /\ cancel' \in SUBSET Handles
<1>1. CASE i \in Idle /\ status' = [status EXCEPT ![i] = "removed"] /\ Release({i}) /\ cancel' = cancel
  BY <1>1, ReleaseTypes DEF Types, ManagerType, Statuses
<1>2. CASE Asked(i) /\ UNCHANGED <<status, held, registry>>
  BY <1>2, AskedTypes DEF Types, ManagerType
<1>3. QED
  BY <1>1, <1>2 DEF Removes

\* A start that is refused, a poll, a task that is forgotten and a retry that goes on.
LEMMA AnswerTypes ==
  ASSUME Types, NEW i \in Items, RustRefuses(i) \/ Poll(i) \/ Disposed(i) \/ RetryGoes(i)
  PROVE  ManagerType' /\ CallsInv'
<1> USE DEF Types
<1>1. CASE RustRefuses(i)
  <2>1. /\ faults' \in 0..MaxFaults
        /\ starts' = [starts EXCEPT ![i] = starts[i] - 1] /\ starts[i] \in Nat \ {0} /\ stage' = stage
    BY <1>1, BoundsAssumption DEF RustRefuses, ManagerType, rust
  <2>2. status' \in [Items -> Statuses]
    BY <1>1, ShownTypes DEF RustRefuses, Statuses
  <2>3. UNCHANGED <<open, up, cancel, registry, held, task, retries, replies, monitors, disposing,
                    closing, left, asked>>
    BY <1>1 DEF RustRefuses, rust, tab
  <2>4. Begun' = Begun
    BY <2>1 DEF Begun
  <2>5. starts' \in [Items -> Nat]
    BY <2>1 DEF ManagerType
  <2>6. ManagerType'
    BY <2>1, <2>2, <2>3, <2>4, <2>5, Zenon DEF ManagerType
  <2>7. Waiting' \in [Items -> Nat] /\ \A j \in Items : Waiting'[j] <= Waiting[j]
    BY <2>1, <2>3 DEF Waiting, ManagerType
  <2>8. QED
    BY <2>1, <2>3, <2>6, <2>7, CallsShrink DEF ManagerType
<1>2. CASE Poll(i)
  <2>1. /\ monitors' = [monitors EXCEPT ![i] = monitors[i] - 1] /\ monitors[i] \in Nat \ {0}
        /\ stage' = stage
    BY <1>2 DEF Poll, ManagerType, run
  <2>2. monitors' \in [Items -> Nat] /\ \A j \in Items : monitors'[j] <= monitors[j]
    BY <2>1 DEF ManagerType
  <2>3. /\ status' \in [Items -> Statuses] /\ held' \in SUBSET Items /\ registry' \in SUBSET Begun
        /\ disposing' \in [Items -> SUBSET Handles]
    <3>1. CASE UNCHANGED <<status, held, disposing, registry>>
      BY <3>1 DEF ManagerType
    <3>2. CASE Progress(i) \in {"completed", "cancelled"} /\ Shown(i, Progress(i)) /\ Release({i})
               /\ UNCHANGED disposing
      <4>1. Progress(i) \in Statuses
        BY <3>2 DEF Statuses
      <4>2. QED
        BY <3>2, <4>1, ShownTypes, ReleaseTypes DEF ManagerType
    <3>3. CASE /\ Shown(i, "failed")
               /\ disposing' = [disposing EXCEPT ![i] = @ \cup ({task[i]} \ {NoTask})]
               /\ UNCHANGED <<held, registry>>
      <4>1. {task[i]} \ {NoTask} \in SUBSET Handles
        BY DEF ManagerType
      <4>2. disposing' \in [Items -> SUBSET Handles]
        BY <3>3, <4>1 DEF ManagerType
      <4>3. status' \in [Items -> Statuses]
        BY <3>3, ShownTypes DEF Statuses
      <4>4. QED
        BY <3>3, <4>2, <4>3 DEF ManagerType
    <3>4. QED
      BY <1>2, <3>1, <3>2, <3>3 DEF Poll
  <2>4. UNCHANGED <<open, up, faults, cancel, task, retries, starts, replies, closing, left, asked>>
    BY <1>2 DEF Poll, server, tab
  <2>5. Begun' = Begun /\ Waiting' = Waiting
    BY <2>1, <2>4 DEF Begun, Waiting
  <2>6. ManagerType'
    BY <2>2, <2>3, <2>4, <2>5, Zenon DEF ManagerType
  <2>7. QED
    BY <2>1, <2>2, <2>4, <2>5, <2>6, CallsShrink, WaitingType
<1>3. CASE Disposed(i)
  <2>1. PICK h \in disposing[i] : registry' = registry \ {h}
                                  /\ disposing' = [disposing EXCEPT ![i] = disposing[i] \ {h}]
    BY <1>3 DEF Disposed
  <2>2. task' = [task EXCEPT ![i] = NoTask] /\ stage' = stage
        /\ UNCHANGED <<open, up, faults, cancel, status, held, retries, starts, replies, monitors,
                       closing, left, asked>>
    BY <1>3 DEF Disposed, server, run, calls, tab
  <2>3. Begun' = Begun /\ Waiting' = Waiting
    BY <2>2 DEF Begun, Waiting
  <2>4. registry' \in SUBSET Begun /\ disposing' \in [Items -> SUBSET Handles]
    BY <2>1 DEF ManagerType
  <2>5. task' \in [Items -> Handles \cup {NoTask}]
    BY <2>2 DEF ManagerType
  <2>6. ManagerType'
    BY <2>2, <2>3, <2>4, <2>5, Zenon DEF ManagerType
  <2>7. QED
    BY <2>2, <2>3, <2>6, CallsShrink, WaitingType DEF ManagerType
<1>4. CASE RetryGoes(i)
  <2>1. /\ retries' = [retries EXCEPT ![i] = retries[i] - 1] /\ retries[i] \in Nat \ {0}
        /\ starts' = [starts EXCEPT ![i] = starts[i] + 1] /\ task' = [task EXCEPT ![i] = NoTask]
        /\ stage' = stage
    BY <1>4 DEF RetryGoes, Relaunch, ManagerType, rust
  <2>2. UNCHANGED <<open, up, faults, cancel, registry, held, replies, monitors, disposing,
                    closing, left, asked>>
    BY <1>4 DEF RetryGoes, server, rust, tab
  <2>3. status' \in [Items -> Statuses]
    BY <1>4, ShownTypes DEF RetryGoes, Relaunch, Statuses
  <2>4. /\ retries' \in [Items -> Nat] /\ starts' \in [Items -> Nat]
        /\ task' \in [Items -> Handles \cup {NoTask}]
    BY <2>1 DEF ManagerType
  <2>5. Begun' = Begun
    BY <2>1 DEF Begun
  <2>6. ManagerType'
    BY <2>2, <2>3, <2>4, <2>5, Zenon DEF ManagerType
  <2>7. Waiting' \in [Items -> Nat] /\ \A j \in Items : Waiting'[j] <= Waiting[j]
    BY <2>1 DEF Waiting, ManagerType
  <2>8. QED
    BY <2>1, <2>2, <2>6, <2>7, CallsShrink DEF ManagerType
<1>5. QED
  BY <1>1, <1>2, <1>3, <1>4

\* What the user does: a start and a retry are one call more, when there is room for it.
LEMMA UserTypes ==
  ASSUME Types, NEW i \in Items, User(i)
  PROVE  ManagerType' /\ CallsInv'
<1> USE DEF Types
<1>1. CASE Start(i)
  <2> DEFINE excess == 1 + Cardinality(Listed)
             evicted == {j \in Idle : Cardinality({k \in Idle : k < j}) + HistoryLimit < excess}
  <2>1. /\ Room /\ starts' = [starts EXCEPT ![i] = starts[i] + 1] /\ stage' = stage
        /\ status' = [j \in Items |->
               IF j = i THEN "running" ELSE IF j \in evicted THEN "removed" ELSE status[j]]
        /\ held' = (held \cup {i}) \ evicted
        /\ registry' = registry \ {task[j] : j \in evicted \cap held}
        /\ UNCHANGED <<open, up, faults, cancel, task, retries, replies, monitors, disposing,
                       closing, left, asked>>
    BY <1>1 DEF Start, server, run, tab
  <2> HIDE DEF evicted
  <2>2. status' \in [Items -> Statuses] /\ held' \in SUBSET Items /\ registry' \in SUBSET Begun
    BY <2>1 DEF ManagerType, Statuses
  <2>3. starts' \in [Items -> Nat]
    BY <2>1 DEF ManagerType
  <2>4. Begun' = Begun
    BY <2>1 DEF Begun
  <2>5. ManagerType'
    BY <2>1, <2>2, <2>3, <2>4, Zenon DEF ManagerType
  <2>6. Waiting' = [Waiting EXCEPT ![i] = Waiting[i] + 1]
    BY <2>1, WaitingMore
  <2>7. QED
    BY <2>1, <2>5, <2>6, CallsGrow
<1>2. CASE Cancel(i)
  <2>1. cancel' \in SUBSET Handles
    BY <1>2, AskedTypes DEF Cancel
  <2>2. /\ stage' = stage
        /\ UNCHANGED <<open, up, faults, registry, status, held, task, retries, starts, replies,
                       monitors, disposing, closing, left, asked>>
    BY <1>2 DEF Cancel, server, run, manager, tab
  <2>3. Begun' = Begun /\ Waiting' = Waiting
    BY <2>2 DEF Begun, Waiting
  <2>4. ManagerType'
    BY <2>1, <2>2, <2>3, Zenon DEF ManagerType
  <2>5. QED
    BY <2>2, <2>3, <2>4, CallsShrink, WaitingType DEF ManagerType
<1>3. CASE Retry(i)
  <2>1. Room /\ stage' = stage
        /\ UNCHANGED <<open, up, faults, cancel, held, replies, monitors, disposing, closing, left, asked>>
    BY <1>3 DEF Retry, server, run, tab
  <2>2. Begun' = Begun
    BY <2>1 DEF Begun
  <2>3. CASE Relaunch(i) /\ UNCHANGED <<registry, retries>>
    <3>1. status' \in [Items -> Statuses]
      BY <2>3, ShownTypes DEF Relaunch, Statuses
    <3>2. task' \in [Items -> Handles \cup {NoTask}] /\ starts' \in [Items -> Nat]
      BY <2>3 DEF Relaunch, ManagerType
    <3>3. ManagerType'
      BY <2>1, <2>2, <2>3, <3>1, <3>2, Zenon DEF ManagerType
    <3>4. Waiting' = [Waiting EXCEPT ![i] = Waiting[i] + 1]
      BY <2>3, WaitingMore DEF Relaunch
    <3>5. QED
      BY <2>1, <3>3, <3>4, CallsGrow
  <2>4. CASE /\ registry' = registry \ {task[i]}
             /\ retries' = [retries EXCEPT ![i] = @ + 1]
             /\ UNCHANGED <<task, status, starts>>
    <3>1. registry' \in SUBSET Begun /\ retries' \in [Items -> Nat]
      BY <2>4 DEF ManagerType
    <3>2. ManagerType'
      BY <2>1, <2>2, <2>4, <3>1, Zenon DEF ManagerType
    <3>3. Waiting' = [Waiting EXCEPT ![i] = Waiting[i] + 1]
      BY <2>4, WaitingMore
    <3>4. QED
      BY <2>1, <3>2, <3>3, CallsGrow
  <2>5. QED
    BY <1>3, <2>3, <2>4 DEF Retry
<1>4. CASE Remove(i)
  <2>1. /\ stage' = stage
        /\ UNCHANGED <<open, up, faults, task, retries, starts, replies, monitors, disposing,
                       closing, left, asked>>
    BY <1>4 DEF Remove, server, run, calls, tab
  <2>2. Begun' = Begun /\ Waiting' = Waiting
    BY <2>1 DEF Begun, Waiting
  <2>3. /\ status' \in [Items -> Statuses] /\ held' \in SUBSET Items
        /\ registry' \in SUBSET Begun /\ cancel' \in SUBSET Handles
    BY <1>4, RemovesTypes DEF Remove
  <2>4. ManagerType'
    BY <2>1, <2>2, <2>3, Zenon DEF ManagerType
  <2>5. QED
    BY <2>1, <2>2, <2>4, CallsShrink, WaitingType DEF ManagerType
<1>5. QED
  BY <1>1, <1>2, <1>3, <1>4 DEF User

\* The close of the tab.
LEMMA CloseTypes ==
  ASSUME Types, Close
  PROVE  ManagerType' /\ CallsInv'
<1> USE DEF Types
<1>1. /\ stage' = stage
      /\ UNCHANGED <<faults, task, retries, starts, replies, monitors, disposing>>
  BY DEF Close, CloseTab, CloseCancels, CloseRemoves, CloseSession, Rest, server, run, calls, manager
<1>2. Begun' = Begun /\ Waiting' = Waiting
  BY <1>1 DEF Begun, Waiting
<1>3. CallsInv'
  BY <1>1, <1>2, CallsShrink, WaitingType DEF ManagerType
<1>4. /\ open' \in BOOLEAN /\ up' \in BOOLEAN /\ cancel' \in SUBSET Handles /\ registry' \in SUBSET Begun
      /\ status' \in [Items -> Statuses] /\ held' \in SUBSET Items
      /\ closing' \in {"no", "transfers", "closed"} /\ left' \in SUBSET Items /\ asked' \in BOOLEAN
  <2>1. CASE CloseTab
    BY <2>1 DEF CloseTab, Rest, server, ManagerType, Listed
  <2>2. CASE CloseCancels
    <3>1. cancel' \in SUBSET Handles
      BY <2>2, AskedTypes DEF CloseCancels
    <3>2. QED
      BY <2>2, <3>1 DEF CloseCancels, Rest, server, ManagerType
  <2>3. CASE CloseRemoves
    <3>1. /\ status' \in [Items -> Statuses] /\ held' \in SUBSET Items
          /\ registry' \in SUBSET Begun /\ cancel' \in SUBSET Handles
      BY <2>3, RemovesTypes DEF CloseRemoves
    <3>2. QED
      BY <2>3, <3>1 DEF CloseRemoves, Rest, server, ManagerType
  <2>4. CASE CloseSession
    BY <2>4 DEF CloseSession, manager, ManagerType, Begun
  <2>5. QED
    BY <2>1, <2>2, <2>3, <2>4 DEF Close
<1>5. ManagerType'
  BY <1>1, <1>2, <1>4, Zenon DEF ManagerType
<1>6. QED
  BY <1>3, <1>5

\* The types hold at the start.
LEMMA InitTypes ==
  ASSUME Init
  PROVE  Types
<1>1. Begun = {}
  BY DEF Init, Begun
<1>2. /\ status \in [Items -> Statuses] /\ task \in [Items -> Handles \cup {NoTask}]
      /\ retries \in [Items -> Nat] /\ starts \in [Items -> Nat] /\ monitors \in [Items -> Nat]
  BY DEF Init, Statuses
<1>3. /\ replies \in [Items -> SUBSET Handles] /\ disposing \in [Items -> SUBSET Handles]
      /\ faults \in 0..MaxFaults
  BY BoundsAssumption DEF Init
<1>4. ManagerType
  BY <1>1, <1>2, <1>3, Zenon DEF Init, ManagerType
<1>5. Begun = {} /\ Waiting = [i \in Items |-> 0]
  BY DEF Init, Begun, Waiting
<1>6. Pairs(Waiting) = {}
  BY <1>5, BoundsAssumption DEF Pairs, Handles
<1>7. Cardinality({}) = 0
  BY FS_EmptySet
<1>8. \A i \in Items : Waiting[i] = 0 /\ monitors[i] = 0 /\ replies[i] = {}
  BY <1>5 DEF Init
<1>9. CallsInv
  <2>1. Cardinality(Begun) + Cardinality(Pairs(Waiting)) <= MaxHandles
    BY <1>5, <1>6, <1>7, BoundsAssumption
  <2>2. \A i \in Items : monitors[i] + Cardinality(replies[i]) <= Cardinality(Begun)
    BY <1>5, <1>7, <1>8
  <2>3. QED
    BY <1>8, <2>1, <2>2, BoundsAssumption DEF CallsInv
<1>10. QED
  BY <1>4, <1>9, InitStep DEF Types

\* And every step keeps them.
LEMMA NextTypes ==
  ASSUME Types, [Next]_vars
  PROVE  Types'
<1>1. Inv'
  BY NextStep DEF Types
<1>2. CASE UNCHANGED vars
  <2>1. Begun' = Begun /\ Waiting' = Waiting
    BY <1>2 DEF vars, Begun, Waiting
  <2>2. ManagerType' /\ CallsInv'
    BY <1>2, <2>1, Zenon DEF Types, vars, ManagerType, CallsInv, Pairs
  <2>3. QED
    BY <1>1, <2>2 DEF Types
<1>3. CASE Next
  <2>1. ASSUME NEW h \in Handles, Upload(h)
        PROVE  ManagerType' /\ CallsInv'
    BY <2>1, UploadTypes
  <2>2. ASSUME NEW i \in Items, Answer(i)
        PROVE  ManagerType' /\ CallsInv'
    BY <2>2, RustStartsTypes, LaunchedTypes, AnswerTypes DEF Answer
  <2>3. ASSUME NEW i \in Items, User(i)
        PROVE  ManagerType' /\ CallsInv'
    BY <2>3, UserTypes
  <2>4. QED
    BY <1>1, <1>3, <2>1, <2>2, <2>3, CloseTypes DEF Next, RustStep, Types
<1>4. QED
  BY <1>2, <1>3

\* TypeOK: the types of the server, the transfers and the manager, and with them that the
\* calls under way, whatever items they are of, never begin more transfers than there is
\* room for (_start, retry, _launch, _monitor).
THEOREM TypeCorrect == Spec => []TypeOK
<1>1. ASSUME Types
      PROVE  TypeOK
  <2>1. ServerType /\ FilesInv /\ StageInv /\ ManagerType /\ CallsInv
    BY <1>1 DEF Types, Inv
  <2>2. ASSUME NEW i \in Items
        PROVE  retries[i] \in 0..MaxHandles /\ starts[i] \in 0..MaxHandles /\ monitors[i] \in 0..MaxHandles
    <3>1. retries[i] \in Nat /\ starts[i] \in Nat /\ monitors[i] \in Nat /\ replies[i] \in SUBSET Handles
      BY <2>1 DEF ManagerType
    <3>2. Cardinality(replies[i]) \in Nat
      BY <3>1, HandlesFinite, FS_Subset, FS_CardinalityType
    <3>3. retries[i] + starts[i] <= MaxHandles /\ monitors[i] + Cardinality(replies[i]) <= Cardinality(Begun)
      BY <2>1 DEF CallsInv, Waiting
    <3>4. QED
      BY <1>1, <3>1, <3>2, <3>3, WaitingType, BoundsAssumption
  <2>3. /\ retries \in [Items -> 0..MaxHandles] /\ starts \in [Items -> 0..MaxHandles]
        /\ monitors \in [Items -> 0..MaxHandles]
    BY <2>1, <2>2 DEF ManagerType
  <2>4. QED
    BY <2>1, <2>3 DEF TypeOK, ServerType, ManagerType
<1>2. Init => Types
  BY InitTypes
<1>3. Types /\ [Next]_vars => Types'
  BY NextTypes
<1>4. QED
  BY <1>1, <1>2, <1>3, PTL DEF Spec
=============================================================================

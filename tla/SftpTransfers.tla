----------------------------- MODULE SftpTransfers -----------------------------
(***************************************************************************)
(* Uploads of one tab to one remote name: the items of SftpTransferManager *)
(* (Dart), the transfers they start in Rust (sftp_start_upload_file,       *)
(* run_sftp_upload) and the three names each of those uses on the server:  *)
(* the target, its own .part and its own .backup.                          *)
(*                                                                         *)
(* A call of Rust's is a step of its own where something can come between  *)
(* the call and its answer.  An operation on the server is done, refused,  *)
(* or fails without a word on whether it took effect, with or without the  *)
(* connection: the faults, which are bounded by MaxFaults.  Downloads,     *)
(* folders, byte counts and the reload of the listing before an upload is  *)
(* shown as completed (it catches its own errors) are left out.            *)
(***************************************************************************)
EXTENDS Naturals, FiniteSets, FiniteSetsExt

CONSTANTS
    MaxItems,       \* bound: uploads the user starts
    MaxHandles,     \* bound: uploads and retries, each a transfer of Rust's
    MaxFaults,      \* bound: failed operations
    HistoryLimit    \* _historyLimit (30)

ASSUME BoundsAssumption ==
    MaxItems \in Nat /\ MaxHandles \in Nat /\ MaxFaults \in Nat /\ HistoryLimit \in Nat

Items == 1..MaxItems        \* in the order of their start
Handles == 1..MaxHandles

Original == 0
Missing == MaxHandles + 1
NoTask == 0

VARIABLES
    \* the server and the session
    dir,        \* the three names: the file under target, whose .part exist, each .backup
    placed,     \* history: the uploads whose file has been under the name
    open,       \* SFTP_SESSIONS has the session
    up,         \* its connection works
    faults,
    \* SftpTransferState, run_sftp_upload
    stage, verdict, moved, cancel,
    registry,   \* SFTP_TRANSFERS
    \* SftpTransferManager
    status,     \* of the items of its state, and "absent" or "removed"
    held,       \* _tasks
    task,       \* managed.task
    retries, starts, replies, monitors,     \* calls under way, of each item
    disposing,  \* dispose() calls under way, after which managed.task is cleared
    closing, left, asked                    \* closeTab: its progress in cancelForTab

server == <<dir, placed, up, faults>>
run == <<stage, verdict, moved>>
rust == <<stage, verdict, moved, cancel, registry>>
calls == <<retries, starts, replies, monitors>>
tab == <<closing, left, asked>>
manager == <<status, held, task, retries, starts, replies, monitors, disposing>>
vars == <<dir, placed, open, up, faults, stage, verdict, moved, cancel, registry, status, held,
          task, retries, starts, replies, monitors, disposing, closing, left, asked>>

Stages == {"none", "open", "copy", "stat", "protect", "finalize", "cleanup", "discard", "restore", "ended"}
Verdicts == {"completed", "cancelled", "failed"}
Statuses == {"absent", "running", "completed", "cancelled", "failed", "removed"}

Listed == {i \in Items : status[i] \notin {"absent", "removed"}}
Idle == {i \in Listed : status[i] # "running"}

Names(target, parts, backup) == [target |-> target, parts |-> parts, backup |-> backup]

\* What sftp_transfer_progress tells of a transfer.
outcome == [h \in Handles |-> IF stage[h] = "ended" THEN verdict[h] ELSE "none"]

Init ==
    /\ dir = Names(Original, {}, [h \in Handles |-> Missing])
    /\ placed = {}
    /\ open = TRUE /\ up = TRUE /\ faults = 0
    /\ stage = [h \in Handles |-> "none"]
    /\ verdict = [h \in Handles |-> "completed"]
    /\ moved = {} /\ cancel = {} /\ registry = {}
    /\ status = [i \in Items |-> "absent"]
    /\ held = {}
    /\ task = [i \in Items |-> NoTask]
    /\ retries = [i \in Items |-> 0]
    /\ starts = [i \in Items |-> 0]
    /\ replies = [i \in Items |-> {}]
    /\ monitors = [i \in Items |-> 0]
    /\ disposing = [i \in Items |-> {}]
    /\ closing = "no" /\ left = {} /\ asked = FALSE

-----------------------------------------------------------------------------
(* run_sftp_upload: operations on the server. *)

Notes == placed' = placed \cup ({dir'.target} \cap Handles)

Succeeds(possible, after) ==
    /\ up /\ possible
    /\ dir' = after
    /\ Notes
    /\ UNCHANGED <<up, faults>>

Refused(possible) == (~up \/ ~possible) /\ UNCHANGED server

Breaks(possible, after) ==
    /\ up /\ faults < MaxFaults
    /\ faults' = faults + 1
    /\ up' \in BOOLEAN
    /\ dir' \in {dir} \cup {d \in {after} : possible}
    /\ Notes

Fails(possible, after) == Refused(possible) \/ Breaks(possible, after)

Created(h) == Names(dir.target, dir.parts \cup {h}, dir.backup)
Removed(h) == Names(dir.target, dir.parts \ {h}, dir.backup)

\* Variant: the old file is deleted.
Protected_Deletes(h) == Names(Missing, dir.parts, dir.backup)

Protected(h) == Names(Missing, dir.parts, [dir.backup EXCEPT ![h] = dir.target])
Finalized(h) == Names(h, dir.parts \ {h}, dir.backup)
Restored(h) == Names(dir.backup[h], dir.parts, [dir.backup EXCEPT ![h] = Missing])
Cleaned(h) == Names(dir.target, dir.parts, [dir.backup EXCEPT ![h] = Missing])

\* A rename does not replace a file.
Free == dir.target = Missing

To(h, next) == stage' = [stage EXCEPT ![h] = next]
Continue(h, next) == To(h, next) /\ UNCHANGED <<verdict, moved>>
GiveUp(h, why) == verdict' = [verdict EXCEPT ![h] = why] /\ To(h, "discard") /\ UNCHANGED moved

\* The local file is opened first: that it cannot be is among the refusals.
Open(h) ==
    /\ stage[h] = "open"
    /\ \/ Succeeds(TRUE, Created(h)) /\ Continue(h, "copy")
       \/ Fails(TRUE, Created(h)) /\ GiveUp(h, "failed")

\* copy_sftp_stream and the shutdown after it.  Whether a cancel is seen depends on what is
\* ready first.
Copy(h) ==
    /\ stage[h] = "copy"
    /\ \/ Succeeds(TRUE, dir) /\ Continue(h, "stat")
       \/ Fails(TRUE, dir) /\ GiveUp(h, "failed")
       \/ h \in cancel /\ UNCHANGED server /\ GiveUp(h, "cancelled")

\* An error counts as a file that is not there.
Stat(h) ==
    /\ stage[h] = "stat"
    /\ \/ Succeeds(~Free, dir) /\ Continue(h, "protect")
       \/ Fails(~Free, dir) /\ Continue(h, "finalize")

Protect(h) ==
    /\ stage[h] = "protect"
    /\ \/ /\ Succeeds(~Free, Protected(h))
          /\ moved' = moved \cup {h}
          /\ To(h, "finalize")
          /\ UNCHANGED verdict
       \/ Fails(~Free, Protected(h)) /\ GiveUp(h, "failed")

Finalize(h) ==
    /\ stage[h] = "finalize"
    /\ \/ Succeeds(Free, Finalized(h)) /\ Continue(h, IF h \in moved THEN "cleanup" ELSE "ended")
       \/ Fails(Free, Finalized(h)) /\ GiveUp(h, "failed")

\* What is tidied up afterwards changes nothing of the result.
Tidies(possible, after) == Succeeds(possible, after) \/ Fails(possible, after)

\* Variant: the old file is not put back.
Discard_RestoresNothing(h) ==
    /\ stage[h] = "discard"
    /\ Tidies(h \in dir.parts, Removed(h))
    /\ Continue(h, "ended")

Cleanup(h) ==
    /\ stage[h] = "cleanup"
    /\ Tidies(TRUE, Cleaned(h))
    /\ Continue(h, "ended")

Discard(h) ==
    /\ stage[h] = "discard"
    /\ Tidies(h \in dir.parts, Removed(h))
    /\ Continue(h, IF h \in moved THEN "restore" ELSE "ended")

Restore(h) ==
    /\ stage[h] = "restore"
    /\ Tidies(Free, Restored(h))
    /\ Continue(h, "ended")

Upload(h) ==
    /\ \/ Open(h) \/ Copy(h) \/ Stat(h) \/ Protect(h) \/ Finalize(h)
       \/ Cleanup(h) \/ Discard(h) \/ Restore(h)
    /\ UNCHANGED <<open, cancel, registry>>
    /\ UNCHANGED manager /\ UNCHANGED tab

-----------------------------------------------------------------------------
(* SftpTransferManager *)

\* _replace does nothing for an item that is gone.
Shown(i, s) == status' = [status EXCEPT ![i] = IF i \in Listed THEN s ELSE @]

\* _releaseResources of the items in gone.  Nobody can ask for their tasks any more: that
\* they are forgotten is taken with the step.
Release(gone) ==
    /\ held' = held \ gone
    /\ registry' = registry \ {task[i] : i \in gone \cap held}

Begun == {h \in Handles : stage[h] # "none"}

\* The retries and starts under way, numbered for each item.
Underway == {p \in Items \X Handles : p[2] <= retries[p[1]] + starts[p[1]]}

\* Bound: the transfers that have begun, and those on their way.
Room == Cardinality(Begun) + Cardinality(Underway) < MaxHandles

\* _start: a new item goes first, and items that are not active leave at the end of the list
\* while it is too long.
Start(i) ==
    LET excess == 1 + Cardinality(Listed)
        evicted == {j \in Idle : Cardinality({k \in Idle : k < j}) + HistoryLimit < excess}
    IN  /\ status[i] = "absent" /\ (i > 1 => status[i - 1] # "absent")
        /\ closing # "closed"
        /\ Room
        /\ status' = [j \in Items |->
               IF j = i THEN "running" ELSE IF j \in evicted THEN "removed" ELSE status[j]]
        /\ held' = (held \cup {i}) \ evicted
        /\ registry' = registry \ {task[j] : j \in evicted \cap held}
        /\ starts' = [starts EXCEPT ![i] = @ + 1]
        /\ UNCHANGED server /\ UNCHANGED run /\ UNCHANGED tab
        /\ UNCHANGED <<open, cancel, task, retries, replies, monitors, disposing>>

\* sftp_start_upload_file: the transfer runs from here on.
RustStarts(i) ==
    /\ starts[i] > 0 /\ open
    /\ \E h \in Handles :
           /\ stage[h] = "none" /\ (h > 1 => stage[h - 1] # "none")
           /\ To(h, "open")
           /\ registry' = registry \cup {h}
           /\ replies' = [replies EXCEPT ![i] = @ \cup {h}]
    /\ starts' = [starts EXCEPT ![i] = @ - 1]
    /\ UNCHANGED server /\ UNCHANGED tab
    /\ UNCHANGED <<open, verdict, moved, cancel, status, held, task, retries, monitors, disposing>>

\* Variant: _launch does not catch the error.
RustRefuses_Silent(i) ==
    /\ starts[i] > 0
    /\ \/ (~open \/ i \notin held) /\ UNCHANGED faults
       \/ faults < MaxFaults /\ faults' = faults + 1
    /\ starts' = [starts EXCEPT ![i] = @ - 1]
    /\ UNCHANGED rust /\ UNCHANGED tab
    /\ UNCHANGED <<dir, placed, up, open, status, held, task, retries, replies, monitors, disposing>>

\* There is no session any more, or no local file: the cleanup of an item that left deletes it.
RustRefuses(i) ==
    /\ starts[i] > 0
    /\ \/ (~open \/ i \notin held) /\ UNCHANGED faults
       \/ faults < MaxFaults /\ faults' = faults + 1
    /\ Shown(i, "failed")
    /\ starts' = [starts EXCEPT ![i] = @ - 1]
    /\ UNCHANGED rust /\ UNCHANGED tab
    /\ UNCHANGED <<dir, placed, up, open, held, task, retries, replies, monitors, disposing>>

\* _launch goes on, and begins to monitor.
Launched(i) ==
    /\ \E h \in replies[i] :
           /\ task' = [task EXCEPT ![i] = h]
           /\ replies' = [replies EXCEPT ![i] = @ \ {h}]
    /\ monitors' = [monitors EXCEPT ![i] = @ + 1]
    /\ UNCHANGED server /\ UNCHANGED rust /\ UNCHANGED tab
    /\ UNCHANGED <<open, status, held, retries, starts, disposing>>

\* What progress() says of managed.task: that it fails is a failure of the transfer.
Progress(i) ==
    IF task[i] \notin registry THEN "failed" ELSE outcome[task[i]]

\* _monitor, when it has to do more than count bytes: it ends.
Poll(i) ==
    /\ monitors[i] > 0
    /\ monitors' = [monitors EXCEPT ![i] = @ - 1]
    /\ \/ i \notin held /\ UNCHANGED <<status, held, disposing, registry>>
       \/ /\ i \in held /\ Progress(i) \in {"completed", "cancelled"}
          /\ Shown(i, Progress(i))
          /\ Release({i})
          /\ UNCHANGED disposing
       \/ /\ i \in held /\ Progress(i) = "failed"
          /\ Shown(i, "failed")
          /\ disposing' = [disposing EXCEPT ![i] = @ \cup ({task[i]} \ {NoTask})]
          /\ UNCHANGED <<held, registry>>
    /\ UNCHANGED server /\ UNCHANGED run /\ UNCHANGED tab
    /\ UNCHANGED <<open, cancel, task, retries, starts, replies>>

\* sftp_forget_transfer has answered.
Disposed(i) ==
    /\ \E h \in disposing[i] :
           /\ registry' = registry \ {h}
           /\ disposing' = [disposing EXCEPT ![i] = @ \ {h}]
    /\ task' = [task EXCEPT ![i] = NoTask]
    /\ UNCHANGED server /\ UNCHANGED run /\ UNCHANGED calls /\ UNCHANGED tab
    /\ UNCHANGED <<open, cancel, status, held>>

\* What cancel() tells Rust: nothing before there is a task.
Asked(i) ==
    cancel' = cancel \cup (IF i \in held /\ status[i] = "running" THEN {task[i]} \cap registry ELSE {})

Cancel(i) ==
    /\ i \in held /\ status[i] = "running"
    /\ Asked(i)
    /\ UNCHANGED server /\ UNCHANGED run /\ UNCHANGED manager /\ UNCHANGED tab
    /\ UNCHANGED <<open, registry>>

\* retry() after its await of dispose().
Relaunch(i) ==
    /\ task' = [task EXCEPT ![i] = NoTask]
    /\ Shown(i, "running")
    /\ starts' = [starts EXCEPT ![i] = @ + 1]

\* Variant: the same retry goes on more than once.
RetryGoes_Again(i) ==
    /\ retries[i] > 0
    /\ Relaunch(i)
    /\ UNCHANGED server /\ UNCHANGED rust /\ UNCHANGED tab
    /\ UNCHANGED <<open, retries, held, replies, monitors, disposing>>

\* retry(): without a task there is nothing to await.
Retry(i) ==
    /\ i \in held /\ status[i] = "failed"
    /\ Room
    /\ \/ /\ task[i] = NoTask
          /\ Relaunch(i)
          /\ UNCHANGED <<registry, retries>>
       \/ /\ task[i] # NoTask
          /\ registry' = registry \ {task[i]}
          /\ retries' = [retries EXCEPT ![i] = @ + 1]
          /\ UNCHANGED <<task, status, starts>>
    /\ UNCHANGED server /\ UNCHANGED run /\ UNCHANGED tab
    /\ UNCHANGED <<open, cancel, held, replies, monitors, disposing>>

RetryGoes(i) ==
    /\ retries[i] > 0
    /\ retries' = [retries EXCEPT ![i] = @ - 1]
    /\ Relaunch(i)
    /\ UNCHANGED server /\ UNCHANGED rust /\ UNCHANGED tab
    /\ UNCHANGED <<open, held, replies, monitors, disposing>>

\* remove(): an active item is cancelled and stays.
Removes(i) ==
    \/ /\ i \in Idle
       /\ status' = [status EXCEPT ![i] = "removed"]
       /\ Release({i})
       /\ UNCHANGED cancel
    \/ i \notin Idle /\ Asked(i) /\ UNCHANGED <<status, held, registry>>

Remove(i) ==
    /\ i \in Listed
    /\ Removes(i)
    /\ UNCHANGED server /\ UNCHANGED run /\ UNCHANGED calls /\ UNCHANGED tab
    /\ UNCHANGED <<open, task, disposing>>

-----------------------------------------------------------------------------
(* FtpTabsController.closeTab *)

Rest == UNCHANGED server /\ UNCHANGED run /\ UNCHANGED calls /\ UNCHANGED <<task, disposing>>

\* cancelForTab takes the items of the tab, the newest first.
CloseTab ==
    /\ closing = "no"
    /\ closing' = "transfers"
    /\ left' = Listed
    /\ Rest /\ UNCHANGED <<open, cancel, status, held, registry, asked>>

CloseCancels ==
    /\ left # {} /\ ~asked
    /\ status[Max(left)] = "running"
    /\ Asked(Max(left))
    /\ asked' = TRUE
    /\ Rest /\ UNCHANGED <<open, status, held, registry, closing, left>>

\* _waitUntilFinished has ended, or given up after two seconds.
CloseRemoves ==
    /\ left # {}
    /\ asked \/ status[Max(left)] # "running"
    /\ Removes(Max(left))
    /\ left' = left \ {Max(left)}
    /\ asked' = FALSE
    /\ Rest /\ UNCHANGED <<open, closing>>

\* The tab goes, and its connection: sftp_close.
CloseSession ==
    /\ closing = "transfers" /\ left = {}
    /\ closing' = "closed"
    /\ open' = FALSE /\ up' = FALSE
    /\ cancel' = cancel \cup registry
    /\ UNCHANGED run /\ UNCHANGED manager
    /\ UNCHANGED <<dir, placed, faults, registry, left, asked>>

-----------------------------------------------------------------------------

RustStep == \E h \in Handles : Upload(h)
Answer(i) == RustStarts(i) \/ RustRefuses(i) \/ Launched(i) \/ Poll(i) \/ Disposed(i) \/ RetryGoes(i)
User(i) == Start(i) \/ Cancel(i) \/ Retry(i) \/ Remove(i)
Close == CloseTab \/ CloseCancels \/ CloseRemoves \/ CloseSession

Next == RustStep \/ (\E i \in Items : Answer(i) \/ User(i)) \/ Close

\* Tasks and calls go on: an operation on the server is answered or given up.  Nobody has to
\* press a button.
Fairness ==
    /\ \A h \in Handles : WF_vars(Upload(h))
    /\ \A i \in Items :
           /\ WF_vars(RustStarts(i) \/ RustRefuses(i))
           /\ WF_vars(Launched(i)) /\ WF_vars(Poll(i))
           /\ WF_vars(Disposed(i)) /\ WF_vars(RetryGoes(i))

Spec == Init /\ [][Next]_vars /\ Fairness

-----------------------------------------------------------------------------
(* Properties *)

TypeOK ==
    /\ dir \in [target : Handles \cup {Original, Missing}, parts : SUBSET Handles,
                backup : [Handles -> Handles \cup {Original, Missing}]]
    /\ placed \subseteq Handles /\ open \in BOOLEAN /\ up \in BOOLEAN /\ faults \in 0..MaxFaults
    /\ stage \in [Handles -> Stages] /\ verdict \in [Handles -> Verdicts]
    /\ moved \subseteq Handles /\ cancel \subseteq Handles
    /\ registry \subseteq Begun
    /\ status \in [Items -> Statuses] /\ held \subseteq Items
    /\ task \in [Items -> Handles \cup {NoTask}]
    /\ retries \in [Items -> 0..MaxHandles] /\ starts \in [Items -> 0..MaxHandles]
    /\ monitors \in [Items -> 0..MaxHandles]
    /\ replies \in [Items -> SUBSET Handles] /\ disposing \in [Items -> SUBSET Handles]
    /\ closing \in {"no", "transfers", "closed"} /\ left \subseteq Items /\ asked \in BOOLEAN

\* The name is not left without a file: once no upload runs there is one, unless the
\* connection was lost, two operations failed, or the rename to .backup took effect without
\* an answer, which run_sftp_upload takes for a failure and does not undo.
NameHasFile ==
    /\ \A h \in Handles : stage[h] \in {"none", "ended"}
    /\ up /\ faults <= 1
    /\ \A h \in Handles \ moved : dir.backup[h] = Missing
    => ~Free

\* The uploads keep the promises of ReplaceFile, several at a time and whatever fails: in
\* particular the old file is kept until the new one is in place, and an upload that is shown
\* as completed has put its file there.
R == INSTANCE ReplaceFile WITH
        Uploads <- Handles, Original <- Original, Missing <- Missing, target <- dir.target,
        kept <- dir.backup, placed <- placed, result <- outcome
Replaces == R!Spec

\* A press of retry still awaits the dispose of the old transfer when another has launched i:
\* it will clear the task the other started, or launch an item that has left _tasks.
PressedAgain(i) == retries[i] > 0 /\ status[i] = "running"

\* An item does not stay active: it ends, whatever its transfer, its session and the other
\* calls of the user come to (_monitor), provided its retry is not pressed a second time while
\* the first press awaits the dispose: retry() has no guard against that, and nobody watches
\* the transfer then.
TransfersSettle ==
    \A i \in Items : []~PressedAgain(i) => (status[i] = "running" ~> status[i] # "running")

-----------------------------------------------------------------------------
(* Not kept by the code, and stated without a run.                         *)

\* A transfer that Rust knows belongs to an item, or is about to (retry, _monitor).
EveryTransferOwned ==
    \A h \in registry : \E i \in Items :
        (i \in held /\ (task[i] = h \/ h \in replies[i])) \/ h \in disposing[i]

\* Without a failure nothing is left behind on the server (run_sftp_upload).
NoLeftovers ==
    (faults = 0 /\ up /\ \A h \in Handles : stage[h] \in {"none", "ended"}) =>
        dir.parts = {} /\ \A h \in Handles : dir.backup[h] = Missing
=============================================================================

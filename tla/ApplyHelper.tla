---------------------------- MODULE ApplyHelper ----------------------------
(***************************************************************************)
(* The privileged side of an apply (src/backend/src/apply/pipeline.rs and  *)
(* src/backend/src/helper.rs): the root oneshot that projects the staged   *)
(* file set onto Angie's http.d and stream.d, the recovery the panel runs  *)
(* at start-up, and the oneshot that turns Angie's stream context on.      *)
(*                                                                         *)
(* A step is one durable effect (one file written or removed, the marker,  *)
(* one manifest, the report) or one answer from Angie.  A process may die  *)
(* between any two of them, and power may fail.  A `?` that ends the       *)
(* helper with an error and no report is the same step as its death at     *)
(* that point.                                                             *)
(***************************************************************************)
EXTENDS Naturals, FiniteSets

CONSTANTS
    HttpNames,          \* names of managed-extension files of http.d
    StreamNames,        \* the same for stream.d (other names)
    Bodies,             \* bodies that carry the MANAGED-BY header
    Unlintable,         \* bodies the linter rejects
    Foreign,            \* a file without the header, made by the operator
    NoFile,             \* the file does not exist
    NoBackup,           \* no backup directory holds a manifest
    Down,               \* Angie is not running
    Targets,            \* the file sets the panel stages
    InitTrees,          \* the live trees at the start
    OperatorNames,      \* the names the operator may use
    OperatorContents,   \* what the operator may leave under one
    ValidTree(_),       \* the trees a correct angie -t accepts
    Overlaps            \* the processes that may run beside an apply

Names == HttpNames \cup StreamNames
Content == Bodies \cup {Foreign, NoFile}
Trees == [Names -> Content]
ManagedTrees == [Names -> Bodies \cup {NoFile}]

(* A manifest lists the managed files of http.d, and those of stream.d too *)
(* when the apply manages stream.d.                                        *)
Manifests == [HttpNames -> Bodies \cup {NoFile}] \cup ManagedTrees

ASSUME ConstantsAssumption ==
    /\ HttpNames \cap StreamNames = {}
    /\ StreamNames # {}
    /\ Unlintable \subseteq Bodies
    /\ Foreign \notin Bodies /\ NoFile \notin Bodies /\ Foreign # NoFile
    /\ NoBackup \notin Manifests
    /\ Down \notin Trees
    /\ Targets \subseteq ManagedTrees /\ Targets # {}
    /\ InitTrees \subseteq Trees
    /\ OperatorNames \subseteq Names
    /\ OperatorContents \subseteq Content
    /\ \A t \in Trees : ValidTree(t) \in BOOLEAN
    /\ Overlaps \subseteq {"recover", "enable"}

VARIABLES
    \* /etc and the data directory
    live,       \* what each name holds in http.d and stream.d
    streamDir,  \* does the directory stream.d exist?
    streamCtx,  \* does angie.conf include stream.d?
    staging,    \* the file set in <data_dir>/staging
    marker,     \* does .apply-in-progress exist?
    backup,     \* what the newest backup directory's manifests hold
    report,     \* apply-result.json
    \* Angie
    running,    \* the files the running workers were configured from
    hup,        \* a reload signal not yet acted on
    gen,        \* the generation against the one the helper read: "unread",
                \* "same" or "newer"
    \* the processes' memory
    pc,         \* where each of the three processes is
    dir,        \* the directory a process is syncing or restoring
    dels, wrts, \* the names it has still to remove, to write
    snap,       \* the manifest it restores from
    staged,     \* the file set the helper loaded
    manage,     \* manage_stream
    draft,      \* the report being made
    \* history
    pre,        \* the managed tree when the marker was last set
    open        \* since that apply's snapshot: its files may be touched

etc == <<live, streamDir, streamCtx>>
data == <<staging, marker, backup, report>>
angie == <<running, hup, gen>>
loop == <<dir, dels, wrts, snap>>
memory == <<staged, manage, draft>>
history == <<pre, open>>
vars == <<etc, data, angie, pc, loop, memory, history>>

Restorers == {"apply", "recover"}
Actors == Restorers \cup {"enable"}

(* What a report says of /etc: the apply is live; it was refused before    *)
(* anything was touched (Error, LintFailed, ValidationFailed, no rollback);*)
(* it failed and was rolled back (rollback.ok); it failed and the rollback *)
(* did too.                                                                *)
Reports == {"none", "ok", "rejected", "undone", "torn"}

Labels == [apply |-> {"idle", "gate", "lint", "test_staged", "reject", "mark",
                      "snap_http", "snap_stream", "scan", "files", "test_live",
                      "baseline", "reload", "verify", "restore", "restoring",
                      "rb_reload", "report", "clear"},
           recover |-> {"idle", "test_live", "restore", "restoring", "rb_reload",
                        "clear"},
           enable |-> {"idle", "test_live", "reload"}]

DirNames(d) == IF d = "http" THEN HttpNames ELSE StreamNames

(* A mutant: capture takes the files without the header too.               *)
EveryFile(t) == t

(* The part of a tree that carries the panel's header: Manifest::capture.  *)
Managed(t) == [n \in DOMAIN t |-> IF t[n] \in Bodies THEN t[n] ELSE NoFile]
Only(t, S) == [n \in S |-> t[n]]

HasStreams(t) == \E n \in StreamNames : t[n] # NoFile

(* What Angie reads when it loads its configuration: http.d always,        *)
(* stream.d when angie.conf includes it.                                   *)
Loaded(t, ctx) == [n \in Names |-> IF n \in StreamNames /\ ~ctx THEN NoFile ELSE t[n]]
LiveConfig == Loaded(live, streamCtx)

Idle(a) == pc[a] = "idle"
At(a, l) == pc[a] = l
Go(a, l) == pc' = [pc EXCEPT ![a] = l]

NoTree == [n \in Names |-> NoFile]

(* What a process knew is gone when it ends.                               *)
ForgetLoop(S) ==
    /\ dir' = [a \in Restorers |-> IF a \in S THEN "http" ELSE dir[a]]
    /\ dels' = [a \in Restorers |-> IF a \in S THEN {} ELSE dels[a]]
    /\ wrts' = [a \in Restorers |-> IF a \in S THEN {} ELSE wrts[a]]
    /\ snap' = [a \in Restorers |-> IF a \in S THEN NoTree ELSE snap[a]]
ForgetMemory ==
    /\ staged' = NoTree /\ manage' = FALSE /\ draft' = "none"
    /\ gen' = "unread"
End(S) ==
    /\ pc' = [a \in Actors |-> IF a \in S THEN "idle" ELSE pc[a]]
    /\ ForgetLoop(S)
    /\ IF "apply" \in S THEN ForgetMemory ELSE UNCHANGED <<memory, gen>>

Init ==
    /\ live \in InitTrees
    /\ streamDir \in BOOLEAN
    /\ ~streamDir => \A n \in StreamNames : live[n] = NoFile
    /\ streamCtx \in BOOLEAN
    /\ staging \in Targets
    /\ marker = FALSE
    /\ backup = NoBackup
    /\ report = "none"
    /\ running = LiveConfig
    /\ hup = FALSE
    /\ gen = "unread"
    /\ pc = [a \in Actors |-> "idle"]
    /\ dir = [a \in Restorers |-> "http"]
    /\ dels = [a \in Restorers |-> {}]
    /\ wrts = [a \in Restorers |-> {}]
    /\ snap = [a \in Restorers |-> NoTree]
    /\ staged = NoTree
    /\ manage = FALSE
    /\ draft = "none"
    /\ pre = NoTree
    /\ open = FALSE

----------------------------------------------------------------------------
(* The apply helper, up to the first change of /etc.                       *)

(* run_apply loads the staged sets and decides whether stream.d is its     *)
(* business.  systemd runs one instance of the unit at a time, and the     *)
(* panel asks for none before its recovery is over.                        *)
Load ==
    /\ Idle("apply") /\ Idle("recover")
    /\ Idle("enable") \/ "enable" \in Overlaps
    /\ staged' = staging
    /\ manage' = (HasStreams(staging) \/ streamDir)
    /\ Go("apply", "gate")
    /\ UNCHANGED <<etc, data, angie, loop, draft, history>>

Reject ==
    /\ draft' = "rejected"
    /\ Go("apply", "reject")

(* Streams staged and the live angie.conf does not include stream.d.       *)
StreamGate ==
    /\ At("apply", "gate")
    /\ IF HasStreams(staged) /\ ~streamCtx
       THEN Reject
       ELSE Go("apply", "lint") /\ UNCHANGED draft
    /\ UNCHANGED <<etc, data, angie, loop, staged, manage, history>>

(* (a) The linter sees the loaded http.d set.                              *)
Lint ==
    /\ At("apply", "lint")
    /\ IF \E n \in HttpNames : staged[n] \in Unlintable
       THEN Reject
       ELSE Go("apply", "test_staged") /\ UNCHANGED draft
    /\ UNCHANGED <<etc, data, angie, loop, staged, manage, history>>

(* An answer of angie -t on tree t: it may fail on a good tree (a name     *)
(* that does not resolve, a binary that does not start), never pass a bad  *)
(* one.                                                                    *)
AngieTest(ok, t) == ok => ValidTree(t)

(* The staged test configuration: it takes stream.d from the staging       *)
(* directory when streams are staged; otherwise it includes the live one   *)
(* if angie.conf did (ctx) when the set was staged.                        *)
StagedConfig(ctx) ==
    [n \in Names |-> IF n \in HttpNames \/ HasStreams(staging) THEN staging[n]
                     ELSE Loaded(live, ctx)[n]]

(* (b) angie -t reads the staging directory as it is now, which is not     *)
(* always what was loaded.                                                 *)
TestStaged ==
    /\ At("apply", "test_staged")
    /\ \E ok, ctx \in BOOLEAN :
        /\ AngieTest(ok, StagedConfig(ctx))
        /\ IF ok THEN Go("apply", "mark") /\ UNCHANGED draft
                 ELSE Reject
    /\ UNCHANGED <<etc, data, angie, loop, staged, manage, history>>

WriteRejection ==
    /\ At("apply", "reject")
    /\ report' = draft
    /\ End({"apply"})
    /\ UNCHANGED <<etc, staging, marker, backup, running, hup, history>>

SetMarker ==
    /\ At("apply", "mark")
    /\ marker' = TRUE
    /\ pre' = Managed(live)
    /\ open' = FALSE
    /\ Go("apply", "snap_http")
    /\ UNCHANGED <<etc, staging, backup, report, angie, loop, memory>>

(* A mutant: only manifest.json is ever written.                           *)
SnapshotsHttpOnly == FALSE

SnapshotsStreams == manage

(* snapshot_now: manifest.json, in a directory named by the second.  An    *)
(* apply of the same second writes into the same directory and finds the   *)
(* other's manifest-stream.json there until it writes its own.             *)
SnapshotHttp ==
    /\ At("apply", "snap_http")
    /\ LET taken == Only(Managed(live), HttpNames)
       IN  /\ \/ backup' = taken
              \/ /\ backup # NoBackup
                 /\ backup' = [n \in DOMAIN backup |->
                                 IF n \in HttpNames THEN taken[n] ELSE backup[n]]
           /\ snap' = [snap EXCEPT !["apply"] = taken]
    /\ open' = ~SnapshotsStreams
    /\ dir' = [dir EXCEPT !["apply"] = "http"]
    /\ Go("apply", IF SnapshotsStreams THEN "snap_stream" ELSE "scan")
    /\ UNCHANGED <<etc, staging, marker, report, angie, dels, wrts, memory, pre>>

(* manifest-stream.json.  From here on files may change.                   *)
SnapshotStream ==
    /\ At("apply", "snap_stream")
    /\ LET taken == [n \in Names |-> IF n \in HttpNames THEN backup[n]
                                                        ELSE Managed(live)[n]]
       IN  /\ backup' = taken
           /\ snap' = [snap EXCEPT !["apply"] = taken]
    /\ open' = TRUE
    /\ Go("apply", "scan")
    /\ UNCHANGED <<etc, staging, marker, report, angie, dir, dels, wrts, memory, pre>>

----------------------------------------------------------------------------
(* (d) - (f): sync the live directories, test them, reload.                *)

Fail ==
    /\ draft' = "torn"
    /\ dir' = [dir EXCEPT !["apply"] = "http"]
    /\ dels' = [dels EXCEPT !["apply"] = {}]
    /\ wrts' = [wrts EXCEPT !["apply"] = {}]
    /\ Go("apply", "restore")

(* A mutant: the set is read again from the staging directory.             *)
Restaged == staging

(* The set to project: the one loaded and linted.                          *)
Wanted == staged

(* A mutant: no look at the header of a file that is in the way.           *)
NoCollision(d) == FALSE

(* A staged name an operator's file already has.                           *)
Collides(d) == \E n \in DirNames(d) : live[n] = Foreign /\ Wanted[n] # NoFile

(* A mutant: only names that are wanted are looked at.                     *)
NothingStale(d, keep) == {}

(* The managed files of a directory that are not to be kept.               *)
Stale(d, keep) == {n \in DirNames(d) : live[n] \in Bodies /\ keep[n] = NoFile}

(* sync_into_live creates the directory, scans it and refuses to overwrite *)
(* a foreign file before it changes any.                                   *)
SyncScan ==
    /\ At("apply", "scan")
    /\ streamDir' = (streamDir \/ dir["apply"] = "stream")
    /\ LET d == dir["apply"]
       IN  IF Collides(d)
           THEN Fail
           ELSE /\ dels' = [dels EXCEPT !["apply"] = Stale(d, Wanted)]
                /\ wrts' = [wrts EXCEPT !["apply"] =
                              {n \in DirNames(d) : Wanted[n] # NoFile}]
                /\ Go("apply", "files")
                /\ UNCHANGED <<dir, draft>>
    /\ UNCHANGED <<live, streamCtx, data, angie, snap, staged, manage, history>>

(* Stale files go first, in any order the names may have.                  *)
RemoveOne(a, l) ==
    /\ At(a, l)
    /\ \E n \in dels[a] :
        /\ live' = [live EXCEPT ![n] = NoFile]
        /\ dels' = [dels EXCEPT ![a] = @ \ {n}]
    /\ UNCHANGED <<streamDir, streamCtx, data, angie, pc, dir, wrts, snap, memory, history>>

SyncRemove == RemoveOne("apply", "files")

SyncWrite ==
    /\ At("apply", "files")
    /\ dels["apply"] = {}
    /\ \E n \in wrts["apply"] :
        /\ live' = [live EXCEPT ![n] = Wanted[n]]
        /\ wrts' = [wrts EXCEPT !["apply"] = @ \ {n}]
    /\ UNCHANGED <<streamDir, streamCtx, data, angie, pc, dir, dels, snap, memory, history>>

SyncDirDone ==
    /\ At("apply", "files")
    /\ dels["apply"] = {} /\ wrts["apply"] = {}
    /\ IF dir["apply"] = "http" /\ manage
       THEN /\ dir' = [dir EXCEPT !["apply"] = "stream"]
            /\ Go("apply", "scan")
       ELSE /\ Go("apply", "test_live")
            /\ UNCHANGED dir
    /\ UNCHANGED <<etc, data, angie, dels, wrts, snap, memory, history>>

(* An I/O error while syncing (a full disk, a read-only mount).            *)
SyncFault ==
    /\ pc["apply"] \in {"scan", "files"}
    /\ Fail
    /\ UNCHANGED <<etc, data, angie, snap, staged, manage, history>>

(* (e) angie -t on the live tree.                                          *)
TestLive ==
    /\ At("apply", "test_live")
    /\ \E ok \in BOOLEAN :
        /\ AngieTest(ok, LiveConfig)
        /\ IF ok THEN Go("apply", "baseline") /\ UNCHANGED <<draft, dir, dels, wrts>>
                 ELSE Fail
    /\ UNCHANGED <<etc, data, angie, snap, staged, manage, history>>

(* (f) The generation before the reload, when the status API answers.      *)
ReadBaseline ==
    /\ At("apply", "baseline")
    /\ gen' \in {"unread", "same"}
    /\ Go("apply", "reload")
    /\ UNCHANGED <<etc, data, running, hup, loop, memory, history>>

(* systemctl reload: it may fail, and it cannot succeed on a stopped Angie *)
ReloadAnswer(ok) ==
    /\ ok => running # Down
    /\ hup' = (hup \/ ok)
    /\ UNCHANGED <<running, gen>>

Reload ==
    /\ At("apply", "reload")
    /\ \E ok \in BOOLEAN :
        /\ ReloadAnswer(ok)
        /\ IF ok THEN Go("apply", "verify") /\ UNCHANGED <<draft, dir, dels, wrts>>
                 ELSE Fail
    /\ UNCHANGED <<etc, data, snap, staged, manage, history>>

(* verify_reload: true with no baseline or when the generation has moved.  *)
VerifyOk ==
    /\ At("apply", "verify")
    /\ gen # "same"
    /\ draft' = "ok"
    /\ Go("apply", "report")
    /\ UNCHANGED <<etc, data, angie, loop, staged, manage, history>>

(* Ten seconds without seeing a newer generation: it has not moved, or the *)
(* status API no longer answers.                                           *)
VerifyTimeout ==
    /\ At("apply", "verify")
    /\ gen # "unread"
    /\ Fail
    /\ UNCHANGED <<etc, data, angie, snap, staged, manage, history>>

----------------------------------------------------------------------------
(* (g) Rollback, shared by the helper and the panel's recovery.            *)

(* restore_into scans the directory: managed files the manifest does not   *)
(* list are removed, those that differ are written.                        *)
RestoreScan(a) ==
    /\ At(a, "restore")
    /\ dels' = [dels EXCEPT ![a] = Stale(dir[a], snap[a])]
    /\ wrts' = [wrts EXCEPT ![a] = {n \in DirNames(dir[a]) :
                                      snap[a][n] # NoFile /\ live[n] # snap[a][n]}]
    /\ Go(a, "restoring")
    /\ UNCHANGED <<etc, data, angie, dir, snap, memory, history>>

RestoreRemove(a) == RemoveOne(a, "restoring")

RestoreWrite(a) ==
    /\ At(a, "restoring")
    /\ dels[a] = {}
    /\ \E n \in wrts[a] :
        /\ live[n] # Foreign
        /\ live' = [live EXCEPT ![n] = snap[a][n]]
        /\ wrts' = [wrts EXCEPT ![a] = @ \ {n}]
    /\ UNCHANGED <<streamDir, streamCtx, data, angie, pc, dir, dels, snap, memory, history>>

(* Mutants: stream.d is forgotten; it is restored again and again.         *)
HttpOnly(a) == FALSE
Again(a) == StreamNames \subseteq DOMAIN snap[a]

(* A manifest of stream.d was taken and is to be restored after http.d's.  *)
StreamsNext(a) == dir[a] = "http" /\ StreamNames \subseteq DOMAIN snap[a]

RestoreDirDone(a) ==
    /\ At(a, "restoring")
    /\ dels[a] = {} /\ wrts[a] = {}
    /\ IF StreamsNext(a)
       THEN /\ dir' = [dir EXCEPT ![a] = "stream"]
            /\ Go(a, "restore")
       ELSE /\ Go(a, "rb_reload")
            /\ UNCHANGED dir
    /\ UNCHANGED <<etc, data, angie, dels, wrts, snap, memory, history>>

(* An I/O error, or a foreign file under a name to restore.  The helper    *)
(* reports that the rollback failed, without a reload; recovery ends with  *)
(* an error that is logged, and leaves the marker.                         *)
RestoreFails(a) ==
    /\ pc[a] \in {"restore", "restoring"}
    /\ IF a = "apply" THEN Go(a, "report") /\ UNCHANGED <<angie, loop, memory>>
                      ELSE End({a}) /\ UNCHANGED <<running, hup>>
    /\ UNCHANGED <<etc, data, history>>

(* A mutant: the files are back, and the answer to the reload is ignored.  *)
RestoredOutcome(ok) == "undone"

RollbackOutcome(ok) == IF ok THEN "undone" ELSE "torn"

(* do_rollback: ok is what systemctl answered.                             *)
RollbackReload ==
    /\ At("apply", "rb_reload")
    /\ \E ok \in BOOLEAN :
        /\ ReloadAnswer(ok)
        /\ draft' = RollbackOutcome(ok)
    /\ Go("apply", "report")
    /\ UNCHANGED <<etc, data, loop, staged, manage, history>>

(* The report first, then the marker: the panel waits for the report.      *)
WriteReport ==
    /\ At("apply", "report")
    /\ report' = draft
    /\ Go("apply", "clear")
    /\ UNCHANGED <<etc, staging, marker, backup, angie, loop, memory, history>>

ClearMarker ==
    /\ At("apply", "clear")
    /\ marker' = FALSE
    /\ open' = FALSE /\ pre' = NoTree
    /\ End({"apply"})
    /\ UNCHANGED <<etc, staging, backup, report, running, hup>>

----------------------------------------------------------------------------
(* recover_if_interrupted, when the panel starts.                          *)

PanelStarts ==
    /\ Idle("recover")
    /\ marker
    /\ Idle("apply") \/ "recover" \in Overlaps
    /\ Go("recover", "test_live")
    /\ UNCHANGED <<etc, data, angie, loop, memory, history>>

(* A valid tree is kept as it is; an invalid one is restored from the      *)
(* newest backup, when there is one.                                       *)
RecoverTest ==
    /\ At("recover", "test_live")
    /\ \E ok \in BOOLEAN :
        /\ AngieTest(ok, LiveConfig)
        /\ IF ok \/ backup = NoBackup
           THEN Go("recover", "clear") /\ UNCHANGED <<dir, snap>>
           ELSE /\ snap' = [snap EXCEPT !["recover"] = backup]
                /\ dir' = [dir EXCEPT !["recover"] = "http"]
                /\ Go("recover", "restore")
    /\ UNCHANGED <<etc, data, angie, dels, wrts, memory, history>>

RecoverReload ==
    /\ At("recover", "rb_reload")
    /\ \E ok \in BOOLEAN : ReloadAnswer(ok)
    /\ Go("recover", "clear")
    /\ UNCHANGED <<etc, data, loop, memory, history>>

RecoverClear ==
    /\ At("recover", "clear")
    /\ marker' = FALSE
    /\ open' = FALSE /\ pre' = NoTree
    /\ End({"recover"})
    /\ UNCHANGED <<etc, staging, backup, report, running, hup>>

----------------------------------------------------------------------------
(* run_enable_streams: edit angie.conf, test it, put it back when the test *)
(* fails, reload.  It shares no lock with an apply.                        *)

EnableStreams ==
    /\ Idle("enable") /\ Idle("recover")
    /\ Idle("apply") \/ "enable" \in Overlaps
    /\ ~streamCtx
    /\ streamCtx' = TRUE
    /\ Go("enable", "test_live")
    /\ UNCHANGED <<live, streamDir, data, angie, loop, memory, history>>

EnableTest ==
    /\ At("enable", "test_live")
    /\ \E ok \in BOOLEAN :
        /\ AngieTest(ok, LiveConfig)
        /\ streamCtx' = ok
        /\ Go("enable", IF ok THEN "reload" ELSE "idle")
    /\ UNCHANGED <<live, streamDir, data, angie, loop, memory, history>>

EnableReload ==
    /\ At("enable", "reload")
    /\ \E ok \in BOOLEAN : ReloadAnswer(ok)
    /\ Go("enable", "idle")
    /\ UNCHANGED <<etc, data, loop, memory, history>>

----------------------------------------------------------------------------
(* The world around the helper.                                            *)

(* Angie acts on the signal when it gets to it, on the files of that       *)
(* moment, and keeps its old configuration when they are invalid.          *)
AngieReloads ==
    /\ hup
    /\ hup' = FALSE
    /\ IF ValidTree(LiveConfig)
       THEN /\ running' = LiveConfig
            /\ gen' = IF gen = "same" THEN "newer" ELSE gen
       ELSE UNCHANGED <<running, gen>>
    /\ UNCHANGED <<etc, data, pc, loop, memory, history>>

(* The panel rewrites the staging directory for its next apply: it waits   *)
(* for a report for 40 seconds only, and forgets the wait if it restarts.  *)
Stage ==
    /\ Idle("recover")
    /\ \E t \in Targets : staging' = t
    /\ UNCHANGED <<etc, marker, backup, report, angie, pc, loop, memory, history>>

(* The operator's own changes, while no process is at work on the files.   *)
OperatorEdits ==
    /\ \A a \in Actors : Idle(a)
    /\ \E n \in OperatorNames, c \in OperatorContents :
        /\ n \in StreamNames => streamDir
        /\ live' = [live EXCEPT ![n] = c]
    /\ UNCHANGED <<streamDir, streamCtx, data, angie, pc, loop, memory, history>>

(* A process is killed, or leaves through a `?`.                           *)
Dies(a) ==
    /\ ~Idle(a)
    /\ End({a})
    /\ UNCHANGED <<etc, data, running, hup, history>>

(* Power fails: every process is gone and Angie starts on what is on disk. *)
PowerFails ==
    /\ End(Actors)
    /\ running' = IF ValidTree(LiveConfig) THEN LiveConfig ELSE Down
    /\ hup' = FALSE
    /\ UNCHANGED <<etc, data, history>>

Restore(a) ==
    \/ RestoreScan(a) \/ RestoreRemove(a) \/ RestoreWrite(a)
    \/ RestoreDirDone(a) \/ RestoreFails(a)

(* Every step of a running helper.                                         *)
ApplyStep ==
    \/ StreamGate \/ Lint \/ TestStaged \/ WriteRejection
    \/ SetMarker \/ SnapshotHttp \/ SnapshotStream
    \/ SyncScan \/ SyncRemove \/ SyncWrite \/ SyncDirDone \/ SyncFault
    \/ TestLive \/ ReadBaseline \/ Reload \/ VerifyOk \/ VerifyTimeout
    \/ Restore("apply") \/ RollbackReload \/ WriteReport \/ ClearMarker

RecoverStep == RecoverTest \/ Restore("recover") \/ RecoverReload \/ RecoverClear
EnableStep == EnableTest \/ EnableReload

Environment ==
    \/ AngieReloads \/ Stage \/ OperatorEdits
    \/ \E a \in Actors : Dies(a)
    \/ PowerFails

Next ==
    \/ Load \/ ApplyStep
    \/ PanelStarts \/ RecoverStep
    \/ EnableStreams \/ EnableStep
    \/ Environment

(* A started process is scheduled, and Angie gets to its signals.  Nothing *)
(* makes anybody apply, restart the panel or edit a file.                  *)
Fairness ==
    /\ WF_vars(ApplyStep)
    /\ WF_vars(RecoverStep)
    /\ WF_vars(EnableStep)
    /\ WF_vars(AngieReloads)

Spec == Init /\ [][Next]_vars
FairSpec == Spec /\ Fairness

----------------------------------------------------------------------------
(* What must hold.                                                         *)

(* Every variable stays in its set.                                        *)
TypeOK ==
    /\ live \in Trees
    /\ streamDir \in BOOLEAN
    /\ streamCtx \in BOOLEAN
    /\ staging \in ManagedTrees
    /\ marker \in BOOLEAN
    /\ backup \in Manifests \cup {NoBackup}
    /\ report \in Reports
    /\ running \in Trees \cup {Down}
    /\ hup \in BOOLEAN
    /\ gen \in {"unread", "same", "newer"}
    /\ DOMAIN pc = Actors /\ \A a \in Actors : pc[a] \in Labels[a]
    /\ dir \in [Restorers -> {"http", "stream"}]
    /\ dels \in [Restorers -> SUBSET Names]
    /\ wrts \in [Restorers -> SUBSET Names]
    /\ snap \in [Restorers -> Manifests]
    /\ staged \in ManagedTrees
    /\ manage \in BOOLEAN
    /\ draft \in Reports
    /\ pre \in ManagedTrees
    /\ open \in BOOLEAN

(* From the first change of a live file until the marker is cleared, a     *)
(* crash leaves what recovery needs: the marker is set, the newest backup  *)
(* is the tree from before this apply, and a directory that backup does    *)
(* not cover has not been touched (pipeline.rs:133-136).                   *)
Recoverable ==
    open => /\ marker
            /\ backup # NoBackup
            /\ \A n \in DOMAIN backup : backup[n] = pre[n]
            /\ \A n \in Names \ DOMAIN backup : Managed(live)[n] = pre[n]

(* A restore that ran to its end, the helper's or recovery's, has brought  *)
(* back exactly the managed files from before the apply, those of stream.d *)
(* too, whatever point the sync had reached (manifest.rs:140-147).         *)
RestoreIsExact ==
    \A a \in Restorers : At(a, "rb_reload") /\ open => Managed(live) = pre

(* No process of the panel changes or removes a file that lacks the header *)
(* (pipeline.rs:358): such a file goes only by the operator's hand.        *)
ForeignUntouched ==
    [][\A n \in Names :
         live[n] = Foreign /\ live'[n] # Foreign => \A a \in Actors : Idle(a)]_vars

Agrees == \A n \in HttpNames : running[n] = live[n]

(* A success confirmed by the generation counter is one: the files on disk *)
(* are the staged ones and Angie was configured from them, although the    *)
(* signal is asynchronous, an older one may be pending and the panel may   *)
(* have rewritten the staging directory meanwhile.                         *)
OkMeansServed ==
    pc["apply"] \in {"report", "clear"} /\ draft = "ok" =>
        /\ Managed(live) = staged
        /\ running # Down
        /\ gen = "newer" => Agrees

(* A rollback reported ok is served, or will be at the pending signal: if  *)
(* the restored tree is valid, Angie is not left on the files that were    *)
(* rolled back (pipeline.rs:330-331).                                      *)
RollbackServed ==
    pc["apply"] \in {"report", "clear"} /\ draft = "undone" =>
        hup \/ ~ValidTree(LiveConfig) \/ (running # Down /\ Agrees)

(* An apply that started ends, whatever files are left to sync or restore  *)
(* and whatever fails.                                                     *)
ApplyEnds == At("apply", "gate") ~> Idle("apply")
=============================================================================

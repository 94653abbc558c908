----------------------------- MODULE PanelApply -----------------------------
(***************************************************************************)
(* The panel's side of an apply (src/backend/src/apply_api.rs and          *)
(* reconcile.rs): a request or the reconciler builds a file set from the   *)
(* database, stages it, starts the helper's unit over D-Bus and waits for  *)
(* a report; the revision of the database that went live is remembered so  *)
(* that the reconciler can tell a new certificate from pending edits.      *)
(*                                                                         *)
(* A request is a future: it is dropped at an await when its client goes   *)
(* away, and everything in memory goes with the panel.  The helper is the  *)
(* one of ApplyHelper, seen from outside: it loads the staging directory,  *)
(* takes its time stamp, and later reports.  Time is in seconds, as the    *)
(* code compares it.                                                       *)
(***************************************************************************)
EXTENDS Integers, FiniteSets, FiniteSetsExt

CONSTANTS
    Hosts,          \* the rows of the database that carry an updated_at
    Half,           \* what staging or http.d holds between two file sets
    LastSecond,     \* bound: the clock stops here
    MaxEdits,       \* bound: edits of the database
    MaxFaults,      \* bound: abandoned requests, failed and killed helpers
    HandEdits       \* may the operator change a managed file by hand?

ASSUME BoundsAssumption ==
    /\ IsFiniteSet(Hosts)
    /\ LastSecond \in Nat \ {0} /\ MaxEdits \in Nat /\ MaxFaults \in Nat
    /\ HandEdits \in BOOLEAN

VARIABLES
    now,        \* now_epoch()
    rows,       \* the hosts: what each holds and when it was saved
    site,       \* the settings, which no revision covers
    ready,      \* has Angie issued the certificate?
    edits, faults,
    staging,    \* <data_dir>/staging
    unit,       \* the helper: "inactive", "starting", "loaded", "working"
    loaded,     \* the file set it loaded
    stamp,      \* the time stamp of its report
    live,       \* the file set on disk
    drift,      \* has a managed file been edited by hand since?
    report,     \* apply-result.json: its time stamp, its result
    applied,    \* last_applied_revision
    tick,       \* the reconciler between two awaits
    expected,   \* the revision it checked
    holder,     \* who holds apply_lock
    step,       \* where perform_apply is
    revision, built, started, accepted, \* its locals
    recorded,   \* history: the file set behind last_applied_revision
    reported,   \* history: the file set of the helper that wrote the report
    alone       \* history: no older helper was at work when staging ended

db == <<rows, site, ready, edits>>
helper == <<unit, loaded, stamp, live, drift, report, reported>>
panel == <<tick, expected, holder, step, revision, built, started, accepted>>
notes == <<recorded, alone>>
vars == <<now, db, faults, staging, helper, applied, panel, notes>>

Never == -1
Seconds == 0..LastSecond

(* The user's part of a configuration; 0 is a row that does not exist.     *)
Content == [hosts |-> [h \in Hosts |-> rows[h].body], site |-> site]

(* build_fileset: it renders HTTPS for the certificates that are ready.    *)
FileSet == [content |-> Content, https |-> ready]

Contents == [hosts : [Hosts -> 0..MaxEdits], site : 0..MaxEdits]
FileSets == [content : Contents, https : BOOLEAN]

(* hosts_revision: the newest updated_at of the rows that still exist.     *)
Revision == Max({0} \cup {rows[h].at : h \in {g \in Hosts : rows[g].body # 0}})

Init ==
    /\ now = 1
    /\ rows = [h \in Hosts |-> [body |-> 0, at |-> 0]]
    /\ site = 0 /\ ready = FALSE /\ edits = 0 /\ faults = 0
    /\ staging = FileSet
    /\ unit = "inactive" /\ loaded = Half /\ stamp = 0
    /\ live = FileSet /\ drift = FALSE
    /\ report = [at |-> Never, ok |-> FALSE] /\ reported = FileSet
    /\ applied = Never
    /\ tick = "sleeping" /\ expected = 0
    /\ holder = "none" /\ step = "none"
    /\ revision = 0 /\ built = FileSet /\ started = 0 /\ accepted = FALSE
    /\ recorded = FileSet /\ alone = TRUE

----------------------------------------------------------------------------
(* Users, certificates, the clock.                                         *)

Second ==
    /\ now < LastSecond
    /\ now' = now + 1
    /\ UNCHANGED <<db, faults, staging, helper, applied, panel, notes>>

Edit ==
    /\ edits < MaxEdits
    /\ edits' = edits + 1
    /\ UNCHANGED <<now, ready, faults, staging, helper, applied, panel, notes>>

(* Creating or changing a host stamps its row.                             *)
SaveHost ==
    /\ Edit
    /\ \E h \in Hosts : rows' = [rows EXCEPT ![h] = [body |-> edits + 1, at |-> now]]
    /\ UNCHANGED site

DeleteHost ==
    /\ Edit
    /\ \E h \in Hosts :
        /\ rows[h].body # 0
        /\ rows' = [rows EXCEPT ![h] = [body |-> 0, at |-> 0]]
    /\ UNCHANGED site

(* put_settings touches no row.                                            *)
PutSettings ==
    /\ Edit
    /\ site' = edits + 1
    /\ UNCHANGED rows

CertificateIssued ==
    /\ ~ready
    /\ ready' = TRUE
    /\ UNCHANGED <<now, rows, site, edits, faults, staging, helper, applied, panel, notes>>

OperatorDrifts ==
    /\ HandEdits /\ ~drift
    /\ drift' = TRUE
    /\ UNCHANGED <<now, db, faults, staging, unit, loaded, stamp, live, report, reported,
                   applied, panel, notes>>

----------------------------------------------------------------------------
(* perform_apply, under apply_lock.                                        *)

Held(s) == holder # "none" /\ step = s

(* A mutant: the lock is free while the request is still at work.          *)
Leaked == holder' = "none" /\ step' = step

Freed == holder' = "none" /\ step' = "none"

(* The guard is dropped with the future's other locals.                    *)
Release(set) ==
    /\ Freed
    /\ revision' = 0 /\ built' = set /\ started' = 0 /\ accepted' = FALSE
    /\ expected' = IF holder = "reconciler" THEN 0 ELSE expected
    /\ alone' = TRUE

Locals == <<revision, built, started, accepted>>

(* try_lock: a second caller is answered 409 at once.                      *)
ApplyNow ==
    /\ holder = "none"
    /\ holder' = "user" /\ step' = "revision"
    /\ UNCHANGED <<now, db, faults, staging, helper, applied, tick, expected, Locals, notes>>

(* A mutant: off by one.                                                   *)
NewerThanExpected == holder = "reconciler" => Revision > expected

(* The reconciler's revision is checked again under the lock.              *)
StillExpected == holder = "reconciler" => Revision = expected

ReadRevision ==
    /\ Held("revision")
    /\ IF StillExpected
       THEN /\ revision' = Revision /\ step' = "build"
            /\ UNCHANGED <<expected, holder, built, started, accepted, alone>>
       ELSE Release(recorded)
    /\ UNCHANGED <<now, db, faults, staging, helper, applied, tick, recorded>>

(* Build the set, and without an await between them empty the staging      *)
(* directory and fill it again.                                            *)
Build ==
    /\ Held("build")
    /\ built' = FileSet
    /\ staging' = Half
    /\ step' = "staging"
    /\ UNCHANGED <<now, db, faults, helper, applied, tick, expected, holder,
                   revision, started, accepted, notes>>

(* A mutant: generated once more for the staging.                          *)
Regenerated == FileSet

StagedSet == built

FillStaging ==
    /\ Held("staging")
    /\ staging' = StagedSet
    /\ started' = now
    /\ alone' = (unit = "inactive")
    /\ step' = "start"
    /\ UNCHANGED <<now, db, faults, helper, applied, tick, expected, holder,
                   revision, built, accepted, recorded>>

(* StartUnit: a unit that is already starting or running is not started    *)
(* again, and the call is answered all the same.                           *)
StartUnit ==
    /\ Held("start")
    /\ unit' = IF unit = "inactive" THEN "starting" ELSE unit
    /\ step' = "wait"
    /\ UNCHANGED <<now, db, faults, staging, loaded, stamp, live, drift, report, reported,
                   applied, tick, expected, holder, Locals, notes>>

(* wait_for_apply_report accepts what is not older than the request.       *)
Recent(s) == report.at >= s

AcceptReport ==
    /\ Held("wait")
    /\ Recent(started)
    /\ accepted' = report.ok
    /\ step' = "record"
    /\ UNCHANGED <<now, db, faults, staging, helper, applied, tick, expected, holder,
                   revision, built, started, notes>>

(* record_apply, then the revision that is live.                           *)
Record ==
    /\ Held("record")
    /\ IF accepted
       THEN step' = "remember" /\ UNCHANGED <<expected, holder, Locals, alone>>
       ELSE Release(recorded)
    /\ UNCHANGED <<now, db, faults, staging, helper, applied, tick, recorded>>

(* A mutant: the revision of now, not of when the lock was taken.          *)
RevisionNow == Revision

LiveRevision == revision

Remember ==
    /\ Held("remember")
    /\ applied' = LiveRevision
    /\ recorded' = built
    /\ Release(built)
    /\ UNCHANGED <<now, db, faults, staging, helper, tick>>

(* A mutant: no deadline.                                                  *)
WaitsForever == FALSE

(* Forty seconds, and no report will come.                                 *)
TimesOut ==
    /\ Held("wait") /\ unit = "inactive" /\ ~Recent(started)
    /\ Release(recorded)
    /\ UNCHANGED <<now, db, faults, staging, helper, applied, tick, recorded>>

(* Forty seconds while the helper is at work; a client that goes away; an  *)
(* error of the database, the disk, D-Bus or polkit: the lock is free      *)
(* again, whatever was started goes on, and a half-filled staging stays.   *)
Abandon ==
    /\ holder # "none" /\ faults < MaxFaults
    /\ faults' = faults + 1
    /\ Release(recorded)
    /\ UNCHANGED <<now, db, staging, helper, applied, tick, recorded>>

PanelRestarts ==
    /\ faults < MaxFaults
    /\ faults' = faults + 1
    /\ tick' = "sleeping"
    /\ Release(recorded)
    /\ UNCHANGED <<now, db, staging, helper, applied, recorded>>

----------------------------------------------------------------------------
(* The reconciler's tick.                                                  *)

(* Nothing before the first apply, and nothing over pending edits.  A tick *)
(* awaits the apply it makes and is followed by half a minute of sleep, in *)
(* which a unit that was started has loaded its set.                       *)
TickRevision ==
    /\ tick = "sleeping" /\ holder # "reconciler"
    /\ unit \notin {"starting", "loaded"}
    /\ applied # Never /\ Revision = applied
    /\ tick' = "diff"
    /\ expected' = Revision
    /\ UNCHANGED <<now, db, faults, staging, helper, applied, holder, step, Locals, notes>>

(* Only a real change, none over a file edited by hand, and none while     *)
(* another apply has the lock.                                             *)
TickDiff ==
    /\ tick = "diff"
    /\ IF FileSet # live /\ ~drift /\ holder = "none"
       THEN holder' = "reconciler" /\ step' = "revision" /\ UNCHANGED expected
       ELSE expected' = 0 /\ UNCHANGED <<holder, step>>
    /\ tick' = "sleeping"
    /\ UNCHANGED <<now, db, faults, staging, helper, applied, Locals, notes>>

----------------------------------------------------------------------------
(* The helper, seen from the panel.                                        *)

HelperLoads ==
    /\ unit = "starting"
    /\ unit' = "loaded"
    /\ loaded' = staging
    /\ UNCHANGED <<now, db, faults, staging, stamp, live, drift, report, reported,
                   applied, panel, notes>>

(* base_report takes the time after the set is loaded.                     *)
HelperStamps ==
    /\ unit = "loaded"
    /\ unit' = "working"
    /\ stamp' = now
    /\ UNCHANGED <<now, db, faults, staging, loaded, live, drift, report, reported,
                   applied, panel, notes>>

HelperEnds == unit' = "inactive" /\ loaded' = Half /\ stamp' = 0

HelperReports(ok) ==
    /\ unit = "working"
    /\ HelperEnds
    /\ report' = [at |-> stamp, ok |-> ok]
    /\ reported' = loaded
    /\ live' = IF ok THEN loaded ELSE live
    /\ drift' = (drift /\ ~ok)
    /\ UNCHANGED <<now, db, staging, applied, panel, notes>>

HelperApplies == HelperReports(TRUE) /\ UNCHANGED faults

(* Rejected or rolled back.                                                *)
HelperFails ==
    /\ faults < MaxFaults
    /\ faults' = faults + 1
    /\ HelperReports(FALSE)

(* It ends without a report, wherever its sync had come to.                *)
HelperDies ==
    /\ unit # "inactive" /\ faults < MaxFaults
    /\ faults' = faults + 1
    /\ HelperEnds
    /\ live' \in {live, loaded, Half}
    /\ UNCHANGED <<now, db, staging, drift, report, reported,
                   applied, panel, notes>>

PerformApply ==
    \/ ReadRevision \/ Build \/ FillStaging \/ StartUnit
    \/ AcceptReport \/ TimesOut \/ Record \/ Remember
Tick == TickRevision \/ TickDiff
HelperStep == HelperLoads \/ HelperStamps \/ HelperApplies

Next ==
    \/ Second \/ SaveHost \/ DeleteHost \/ PutSettings \/ CertificateIssued
    \/ OperatorDrifts
    \/ ApplyNow \/ PerformApply \/ Abandon \/ PanelRestarts
    \/ Tick
    \/ HelperStep \/ HelperFails \/ HelperDies

Spec == Init /\ [][Next]_vars

(* The panel's tasks and the helper go on.  Nobody has to edit or apply.   *)
FairSpec ==
    /\ Spec
    /\ WF_vars(PerformApply)
    /\ WF_vars(Tick)
    /\ WF_vars(HelperStep)

----------------------------------------------------------------------------
(* What must hold.                                                         *)

(* Every variable stays in its set.                                        *)
TypeOK ==
    /\ now \in Seconds
    /\ rows \in [Hosts -> [body : 0..MaxEdits, at : Seconds]]
    /\ site \in 0..MaxEdits /\ ready \in BOOLEAN
    /\ edits \in 0..MaxEdits /\ faults \in 0..MaxFaults
    /\ staging \in FileSets \cup {Half}
    /\ unit \in {"inactive", "starting", "loaded", "working"}
    /\ loaded \in FileSets \cup {Half} /\ stamp \in Seconds
    /\ live \in FileSets \cup {Half} /\ drift \in BOOLEAN
    /\ report \in [at : Seconds \cup {Never}, ok : BOOLEAN]
    /\ applied \in Seconds \cup {Never}
    /\ tick \in {"sleeping", "diff"} /\ expected \in Seconds
    /\ holder \in {"none", "user", "reconciler"}
    /\ step \in {"none", "revision", "build", "staging", "start", "wait",
                 "record", "remember"}
    /\ holder = "none" <=> step = "none"
    /\ revision \in Seconds /\ built \in FileSets
    /\ started \in Seconds /\ accepted \in BOOLEAN
    /\ recorded \in FileSets
    /\ reported \in FileSets \cup {Half} /\ alone \in BOOLEAN

(* A saved host that the recorded apply did not carry is never older than  *)
(* the recorded revision: perform_apply reads the revision before it       *)
(* builds, so an edit that lands in between is carried, and one that lands *)
(* later shows as pending, but for an edit of the very same second.        *)
PendingEditsShow ==
    applied # Never =>
        \A h \in Hosts :
            rows[h].body \notin {0, recorded.content.hosts[h]} => rows[h].at >= applied

(* A report with a time stamp after the request's is the answer to it,     *)
(* whatever was left in the file before, as long as no helper of an        *)
(* abandoned request was still at work when the staging was written.       *)
ReportIsMine ==
    step \in {"record", "remember"} /\ alone /\ report.at > started => reported = built

(* Whatever happens to its helper, a request ends and frees the lock.      *)
RequestEnds == holder # "none" ~> holder = "none"

(* Once a certificate is there, no edit is pending, no file was touched by *)
(* hand and no user is applying, the reconciler brings HTTPS up although   *)
(* requests were dropped and helpers killed before.                        *)
HttpsActivates ==
    <>[](ready /\ applied = Revision /\ ~drift /\ holder # "user")
        => []<>(live = FileSet)

(* What the source promises and the code does not keep.                    *)

(* The reconciler never pushes a user's edit that no user applied          *)
(* (reconcile.rs:7-12, apply_api.rs:75-78).                                *)
NoUnreviewedPush == step = "staging" /\ holder = "reconciler" => built.content = recorded.content
=============================================================================

------------------------- MODULE PanelApply_proofs -------------------------
(***************************************************************************)
(* Proofs about PanelApply, for every number of hosts, edits and seconds:  *)
(* its type invariant, that an edit which is not live shows as pending,    *)
(* and that a later report is the answer to the request.                   *)
(***************************************************************************)
EXTENDS PanelApply, WellFoundedInduction, TLAPS

(* A set of seconds has a last one.                                        *)
LEMMA LatestExists ==
    ASSUME NEW S \in SUBSET Seconds, S # {}
    PROVE  \E x \in S : \A y \in S : x >= y
<1> DEFINE T == {LastSecond - x : x \in S}
<1>0. LastSecond \in Nat /\ \A x \in S : x \in Int /\ 0 <= x /\ x <= LastSecond
  BY BoundsAssumption DEF Seconds
<1>1. T \subseteq Nat /\ T # {}
  BY <1>0
<1>2. PICK m \in T : \A k \in T : ~(<<k, m>> \in OpToRel(<, Nat))
  BY <1>1, WFMin, NatLessThanWellFounded
<1>3. \A k \in T : ~(k < m)
  BY <1>1, <1>2 DEF OpToRel
<1>4. PICK x \in S : m = LastSecond - x
  OBVIOUS
<1>5. ASSUME NEW y \in S PROVE x >= y
  <2>1. ~(LastSecond - y < m)
    BY <1>3
  <2>2. QED
    BY <1>0, <1>4, <2>1
<1>6. QED
  BY <1>5

(* No time stamp is ahead of the clock.                                    *)
ClockOK ==
    /\ \A h \in Hosts : rows[h].at <= now
    /\ report.at <= now /\ stamp <= now /\ started <= now
    /\ revision <= now /\ applied <= now

(* A host that the set being applied does not carry was saved after the    *)
(* request read the revision.                                              *)
Carried ==
    step \in {"staging", "start", "wait", "record", "remember"} =>
        \A h \in Hosts :
            rows[h].body \notin {0, built.content.hosts[h]} => rows[h].at >= revision

(* While a request waits, the staging is its own; when no older helper was *)
(* at work as it was filled, what a helper loads is the request's set and  *)
(* a report that is newer than the request comes from such a helper.       *)
Answered ==
    /\ step \in {"start", "wait", "record", "remember"} => staging = built
    /\ step = "start" /\ alone => unit = "inactive" /\ report.at <= started
    /\ step \in {"wait", "record", "remember"} /\ alone =>
          /\ unit \in {"loaded", "working"} => loaded = built
          /\ report.at <= started \/ reported = built

PanelInv ==
    /\ TypeOK /\ ClockOK /\ Carried /\ Answered
    /\ PendingEditsShow

(* What the database holds makes a file set, and its revision is a second  *)
(* of the past.                                                            *)
LEMMA FileSetType == TypeOK => FileSet \in FileSets
  BY DEF TypeOK, FileSet, FileSets, Content, Contents

LEMMA RevisionType ==
    ASSUME TypeOK
    PROVE  /\ Revision \in Seconds
           /\ ClockOK => Revision <= now
<1> DEFINE S == {0} \cup {rows[h].at : h \in {g \in Hosts : rows[g].body # 0}}
<1>1. S \in SUBSET Seconds /\ S # {}
  BY BoundsAssumption DEF TypeOK, Seconds
<1>2. \E x \in S : \A y \in S : x >= y
  BY <1>1, LatestExists
<1>3. Revision \in S
  BY <1>2 DEF Revision, Max
<1>4. ClockOK => Revision <= now
  BY <1>3 DEF ClockOK, TypeOK, Seconds
<1>5. QED
  BY <1>1, <1>3, <1>4


(* A request that ends leaves its locals as they were.                     *)
LEMMA ReleaseType ==
    ASSUME TypeOK, NEW set \in FileSets, Release(set)
    PROVE  /\ holder' = "none" /\ step' = "none"
           /\ revision' \in Seconds /\ built' \in FileSets /\ started' \in Seconds
           /\ accepted' \in BOOLEAN /\ expected' \in Seconds /\ alone' \in BOOLEAN
<1>1. 0 \in Seconds
  BY BoundsAssumption DEF Seconds
<1>2. QED
  BY <1>1 DEF Release, Freed, TypeOK


(* Every step leaves every variable in its set.                            *)
LEMMA TypeNext ==
    ASSUME TypeOK, [Next]_vars
    PROVE  TypeOK'
<1>0. FileSet \in FileSets /\ Revision \in Seconds
  BY FileSetType, RevisionType
<1> USE <1>0, BoundsAssumption DEF TypeOK, Seconds, db, helper, panel, notes
<1>1. CASE Second
  BY <1>1 DEF Second
<1>2. CASE SaveHost
  BY <1>2 DEF SaveHost, Edit
<1>3. CASE DeleteHost
  BY <1>3 DEF DeleteHost, Edit
<1>4. CASE PutSettings
  BY <1>4 DEF PutSettings, Edit
<1>5. CASE CertificateIssued
  BY <1>5 DEF CertificateIssued
<1>6. CASE OperatorDrifts
  BY <1>6 DEF OperatorDrifts
<1>7. CASE ApplyNow
  BY <1>7 DEF ApplyNow, Locals
<1>8. CASE ReadRevision
  <2>1. CASE StillExpected
    BY <1>8, <2>1 DEF ReadRevision, Held
  <2>2. CASE ~StillExpected
    BY <1>8, <2>2, ReleaseType DEF ReadRevision, Held
  <2>3. QED
    BY <2>1, <2>2
<1>9. CASE Build
  BY <1>9 DEF Build, Held
<1>10. CASE FillStaging
  BY <1>10 DEF FillStaging, Held, StagedSet
<1>11. CASE StartUnit
  BY <1>11 DEF StartUnit, Held, Locals
<1>12. CASE AcceptReport
  BY <1>12 DEF AcceptReport, Held
<1>13. CASE TimesOut
  BY <1>13, ReleaseType DEF TimesOut, Held
<1>14. CASE Record
  <2>1. CASE accepted
    BY <1>14, <2>1 DEF Record, Held, Locals
  <2>2. CASE ~accepted
    BY <1>14, <2>2, ReleaseType DEF Record, Held
  <2>3. QED
    BY <2>1, <2>2
<1>15. CASE Remember
  BY <1>15, ReleaseType DEF Remember, Held, LiveRevision
<1>16. CASE Abandon
  BY <1>16, ReleaseType DEF Abandon
<1>17. CASE PanelRestarts
  BY <1>17, ReleaseType DEF PanelRestarts
<1>18. CASE TickRevision
  BY <1>18 DEF TickRevision, Locals
<1>19. CASE TickDiff
  BY <1>19 DEF TickDiff, Locals
<1>20. CASE HelperLoads
  BY <1>20 DEF HelperLoads
<1>21. CASE HelperStamps
  BY <1>21 DEF HelperStamps
<1>22. CASE HelperApplies
  BY <1>22 DEF HelperApplies, HelperReports, HelperEnds
<1>23. CASE HelperFails
  BY <1>23 DEF HelperFails, HelperReports, HelperEnds
<1>24. CASE HelperDies
  BY <1>24 DEF HelperDies, HelperEnds
<1>25. CASE UNCHANGED vars
  BY <1>25 DEF vars
<1>26. QED
  BY <1>1, <1>2, <1>3, <1>4, <1>5, <1>6, <1>7, <1>8, <1>9, <1>10, <1>11, <1>12,
     <1>13, <1>14, <1>15, <1>16, <1>17, <1>18, <1>19, <1>20, <1>21, <1>22, <1>23, <1>24,
     <1>25
     DEF Next, PerformApply, Tick, HelperStep

(* Time stamps are taken from the clock, which does not go back.           *)
LEMMA ClockNext ==
    ASSUME TypeOK, ClockOK, [Next]_vars
    PROVE  ClockOK'
<1>0. Revision <= now /\ Revision \in Seconds
  BY RevisionType
<1> USE <1>0, BoundsAssumption DEF TypeOK, ClockOK, Seconds, Never, db, helper, panel, notes
<1>1. CASE Second
  BY <1>1 DEF Second
<1>2. CASE SaveHost
  BY <1>2 DEF SaveHost, Edit
<1>3. CASE DeleteHost
  BY <1>3 DEF DeleteHost, Edit
<1>4. CASE PutSettings
  BY <1>4 DEF PutSettings, Edit
<1>5. CASE CertificateIssued
  BY <1>5 DEF CertificateIssued
<1>6. CASE OperatorDrifts
  BY <1>6 DEF OperatorDrifts
<1>7. CASE ApplyNow
  BY <1>7 DEF ApplyNow, Locals
<1>8. CASE ReadRevision
  BY <1>8 DEF ReadRevision, Held, Release, Freed
<1>9. CASE Build
  BY <1>9 DEF Build, Held
<1>10. CASE FillStaging
  BY <1>10 DEF FillStaging, Held, StagedSet
<1>11. CASE StartUnit
  BY <1>11 DEF StartUnit, Held, Locals
<1>12. CASE AcceptReport
  BY <1>12 DEF AcceptReport, Held
<1>13. CASE TimesOut
  BY <1>13 DEF TimesOut, Held, Release, Freed
<1>14. CASE Record
  BY <1>14 DEF Record, Held, Release, Freed, Locals
<1>15. CASE Remember
  BY <1>15 DEF Remember, Held, Release, Freed, LiveRevision
<1>16. CASE Abandon
  BY <1>16 DEF Abandon, Release, Freed
<1>17. CASE PanelRestarts
  BY <1>17 DEF PanelRestarts, Release, Freed
<1>18. CASE TickRevision
  BY <1>18 DEF TickRevision, Locals
<1>19. CASE TickDiff
  BY <1>19 DEF TickDiff, Locals
<1>20. CASE HelperLoads
  BY <1>20 DEF HelperLoads
<1>21. CASE HelperStamps
  BY <1>21 DEF HelperStamps
<1>22. CASE HelperApplies
  BY <1>22 DEF HelperApplies, HelperReports, HelperEnds
<1>23. CASE HelperFails
  BY <1>23 DEF HelperFails, HelperReports, HelperEnds
<1>24. CASE HelperDies
  BY <1>24 DEF HelperDies, HelperEnds
<1>25. CASE UNCHANGED vars
  BY <1>25 DEF vars
<1>26. QED
  BY <1>1, <1>2, <1>3, <1>4, <1>5, <1>6, <1>7, <1>8, <1>9, <1>10, <1>11, <1>12,
     <1>13, <1>14, <1>15, <1>16, <1>17, <1>18, <1>19, <1>20, <1>21, <1>22, <1>23, <1>24,
     <1>25
     DEF Next, PerformApply, Tick, HelperStep

(* The set is built after the revision is read.                            *)
LEMMA CarriedNext ==
    ASSUME TypeOK, ClockOK, Carried, [Next]_vars
    PROVE  Carried'
<1> USE DEF TypeOK, ClockOK, Carried, Seconds, db, helper, panel, notes
<1>1. CASE Second
  BY <1>1 DEF Second
<1>2. CASE SaveHost
  BY <1>2 DEF SaveHost, Edit
<1>3. CASE DeleteHost
  BY <1>3 DEF DeleteHost, Edit
<1>4. CASE PutSettings
  BY <1>4 DEF PutSettings, Edit
<1>5. CASE CertificateIssued
  BY <1>5 DEF CertificateIssued
<1>6. CASE OperatorDrifts
  BY <1>6 DEF OperatorDrifts
<1>7. CASE ApplyNow
  BY <1>7 DEF ApplyNow, Locals
<1>8. CASE ReadRevision
  BY <1>8 DEF ReadRevision, Held, Release, Freed
<1>9. CASE Build
  BY <1>9 DEF Build, Held, FileSet, Content
<1>10. CASE FillStaging
  BY <1>10 DEF FillStaging, Held, StagedSet
<1>11. CASE StartUnit
  BY <1>11 DEF StartUnit, Held, Locals
<1>12. CASE AcceptReport
  BY <1>12 DEF AcceptReport, Held
<1>13. CASE TimesOut
  BY <1>13 DEF TimesOut, Held, Release, Freed
<1>14. CASE Record
  BY <1>14 DEF Record, Held, Release, Freed, Locals
<1>15. CASE Remember
  BY <1>15 DEF Remember, Held, Release, Freed, LiveRevision
<1>16. CASE Abandon
  BY <1>16 DEF Abandon, Release, Freed
<1>17. CASE PanelRestarts
  BY <1>17 DEF PanelRestarts, Release, Freed
<1>18. CASE TickRevision
  BY <1>18 DEF TickRevision, Locals
<1>19. CASE TickDiff
  BY <1>19 DEF TickDiff, Locals
<1>20. CASE HelperLoads
  BY <1>20 DEF HelperLoads
<1>21. CASE HelperStamps
  BY <1>21 DEF HelperStamps
<1>22. CASE HelperApplies
  BY <1>22 DEF HelperApplies, HelperReports, HelperEnds
<1>23. CASE HelperFails
  BY <1>23 DEF HelperFails, HelperReports, HelperEnds
<1>24. CASE HelperDies
  BY <1>24 DEF HelperDies, HelperEnds
<1>25. CASE UNCHANGED vars
  BY <1>25 DEF vars
<1>26. QED
  BY <1>1, <1>2, <1>3, <1>4, <1>5, <1>6, <1>7, <1>8, <1>9, <1>10, <1>11, <1>12,
     <1>13, <1>14, <1>15, <1>16, <1>17, <1>18, <1>19, <1>20, <1>21, <1>22, <1>23, <1>24,
     <1>25
     DEF Next, PerformApply, Tick, HelperStep

(* The staging is written under the lock, and a helper loads it once.      *)
LEMMA AnsweredNext ==
    ASSUME TypeOK, ClockOK, Answered, [Next]_vars
    PROVE  Answered'
<1> USE DEF TypeOK, ClockOK, Answered, Seconds, db, helper, panel, notes
<1>1. CASE Second
  BY <1>1 DEF Second
<1>2. CASE SaveHost
  BY <1>2 DEF SaveHost, Edit
<1>3. CASE DeleteHost
  BY <1>3 DEF DeleteHost, Edit
<1>4. CASE PutSettings
  BY <1>4 DEF PutSettings, Edit
<1>5. CASE CertificateIssued
  BY <1>5 DEF CertificateIssued
<1>6. CASE OperatorDrifts
  BY <1>6 DEF OperatorDrifts
<1>7. CASE ApplyNow
  BY <1>7 DEF ApplyNow, Locals
<1>8. CASE ReadRevision
  BY <1>8 DEF ReadRevision, Held, Release, Freed
<1>9. CASE Build
  BY <1>9 DEF Build, Held
<1>10. CASE FillStaging
  BY <1>10 DEF FillStaging, Held, StagedSet
<1>11. CASE StartUnit
  BY <1>11 DEF StartUnit, Held, Locals
<1>12. CASE AcceptReport
  BY <1>12 DEF AcceptReport, Held
<1>13. CASE TimesOut
  BY <1>13 DEF TimesOut, Held, Release, Freed
<1>14. CASE Record
  BY <1>14 DEF Record, Held, Release, Freed, Locals
<1>15. CASE Remember
  BY <1>15 DEF Remember, Held, Release, Freed, LiveRevision
<1>16. CASE Abandon
  BY <1>16 DEF Abandon, Release, Freed
<1>17. CASE PanelRestarts
  BY <1>17 DEF PanelRestarts, Release, Freed
<1>18. CASE TickRevision
  BY <1>18 DEF TickRevision, Locals
<1>19. CASE TickDiff
  BY <1>19 DEF TickDiff, Locals
<1>20. CASE HelperLoads
  BY <1>20 DEF HelperLoads
<1>21. CASE HelperStamps
  BY <1>21 DEF HelperStamps
<1>22. CASE HelperApplies
  BY <1>22 DEF HelperApplies, HelperReports, HelperEnds
<1>23. CASE HelperFails
  BY <1>23 DEF HelperFails, HelperReports, HelperEnds
<1>24. CASE HelperDies
  BY <1>24 DEF HelperDies, HelperEnds
<1>25. CASE UNCHANGED vars
  BY <1>25 DEF vars
<1>26. QED
  BY <1>1, <1>2, <1>3, <1>4, <1>5, <1>6, <1>7, <1>8, <1>9, <1>10, <1>11, <1>12,
     <1>13, <1>14, <1>15, <1>16, <1>17, <1>18, <1>19, <1>20, <1>21, <1>22, <1>23, <1>24,
     <1>25
     DEF Next, PerformApply, Tick, HelperStep

(* A revision is remembered with the set that it was read for.             *)
LEMMA PendingNext ==
    ASSUME TypeOK, ClockOK, Carried, PendingEditsShow, [Next]_vars
    PROVE  PendingEditsShow'
<1> USE DEF TypeOK, ClockOK, Carried, PendingEditsShow, Seconds, Never, db, helper, panel, notes
<1>1. CASE Second
  BY <1>1 DEF Second
<1>2. CASE SaveHost
  BY <1>2 DEF SaveHost, Edit
<1>3. CASE DeleteHost
  BY <1>3 DEF DeleteHost, Edit
<1>4. CASE PutSettings
  BY <1>4 DEF PutSettings, Edit
<1>5. CASE CertificateIssued
  BY <1>5 DEF CertificateIssued
<1>6. CASE OperatorDrifts
  BY <1>6 DEF OperatorDrifts
<1>7. CASE ApplyNow
  BY <1>7 DEF ApplyNow, Locals
<1>8. CASE ReadRevision
  BY <1>8 DEF ReadRevision, Held, Release, Freed
<1>9. CASE Build
  BY <1>9 DEF Build, Held
<1>10. CASE FillStaging
  BY <1>10 DEF FillStaging, Held, StagedSet
<1>11. CASE StartUnit
  BY <1>11 DEF StartUnit, Held, Locals
<1>12. CASE AcceptReport
  BY <1>12 DEF AcceptReport, Held
<1>13. CASE TimesOut
  BY <1>13 DEF TimesOut, Held, Release, Freed
<1>14. CASE Record
  BY <1>14 DEF Record, Held, Release, Freed, Locals
<1>15. CASE Remember
  BY <1>15 DEF Remember, Held, Release, Freed, LiveRevision
<1>16. CASE Abandon
  BY <1>16 DEF Abandon, Release, Freed
<1>17. CASE PanelRestarts
  BY <1>17 DEF PanelRestarts, Release, Freed
<1>18. CASE TickRevision
  BY <1>18 DEF TickRevision, Locals
<1>19. CASE TickDiff
  BY <1>19 DEF TickDiff, Locals
<1>20. CASE HelperLoads
  BY <1>20 DEF HelperLoads
<1>21. CASE HelperStamps
  BY <1>21 DEF HelperStamps
<1>22. CASE HelperApplies
  BY <1>22 DEF HelperApplies, HelperReports, HelperEnds
<1>23. CASE HelperFails
  BY <1>23 DEF HelperFails, HelperReports, HelperEnds
<1>24. CASE HelperDies
  BY <1>24 DEF HelperDies, HelperEnds
<1>25. CASE UNCHANGED vars
  BY <1>25 DEF vars
<1>26. QED
  BY <1>1, <1>2, <1>3, <1>4, <1>5, <1>6, <1>7, <1>8, <1>9, <1>10, <1>11, <1>12,
     <1>13, <1>14, <1>15, <1>16, <1>17, <1>18, <1>19, <1>20, <1>21, <1>22, <1>23, <1>24,
     <1>25
     DEF Next, PerformApply, Tick, HelperStep

(* The initial states satisfy the inductive invariant.                     *)
LEMMA PanelInit == Init => PanelInv
<1>1. SUFFICES ASSUME Init PROVE PanelInv
  OBVIOUS
<1>2. TypeOK
  <2>1. FileSet \in FileSets
    <3>1. ready \in BOOLEAN
      BY <1>1 DEF Init
    <3>2. site \in 0..MaxEdits
      BY <1>1, BoundsAssumption DEF Init
    <3>3. [h \in Hosts |-> rows[h].body] \in [Hosts -> 0..MaxEdits]
      BY <1>1, BoundsAssumption DEF Init
    <3>4. QED
      BY <3>1, <3>2, <3>3 DEF FileSet, FileSets, Content, Contents
  <2>2. 0 \in Seconds /\ 1 \in Seconds
    BY BoundsAssumption DEF Seconds
  <2>3. rows \in [Hosts -> [body : 0..MaxEdits, at : Seconds]]
    BY <1>1, <2>2, BoundsAssumption DEF Init
  <2>4. /\ now \in Seconds /\ site \in 0..MaxEdits /\ edits \in 0..MaxEdits /\ faults \in 0..MaxFaults
        /\ stamp \in Seconds /\ applied \in Seconds \cup {Never}
        /\ expected \in Seconds /\ revision \in Seconds /\ started \in Seconds
    BY <1>1, <2>2, BoundsAssumption DEF Init
  <2>5. report \in [at : Seconds \cup {Never}, ok : BOOLEAN]
    BY <1>1 DEF Init
  <2>6. QED
    BY <1>1, <2>1, <2>3, <2>4, <2>5 DEF Init, TypeOK
<1>3. QED
  BY <1>1, <1>2 DEF Init, PanelInv, ClockOK, Carried, Answered, PendingEditsShow, Never

(* The inductive invariant holds throughout.                               *)
LEMMA PanelHolds == Spec => []PanelInv
<1>1. PanelInv /\ [Next]_vars => PanelInv'
  <2>1. SUFFICES ASSUME PanelInv, [Next]_vars PROVE PanelInv'
    OBVIOUS
  <2>2. TypeOK /\ ClockOK /\ Carried /\ Answered /\ PendingEditsShow
    BY <2>1 DEF PanelInv
  <2>3. TypeOK' /\ ClockOK'
    BY <2>1, <2>2, TypeNext, ClockNext
  <2>4. Carried' /\ Answered' /\ PendingEditsShow'
    BY <2>1, <2>2, CarriedNext, AnsweredNext, PendingNext
  <2>5. QED
    BY <2>3, <2>4 DEF PanelInv
<1>2. QED
  BY <1>1, PanelInit, PTL DEF Spec

(* Every variable stays in its set, and the lock is held exactly while a   *)
(* request is at work (apply_api.rs:63-73).                                *)
THEOREM TypeCorrect == Spec => []TypeOK
<1>1. PanelInv => TypeOK
  BY DEF PanelInv
<1>2. QED
  BY <1>1, PanelHolds, PTL

(* An edit of a host that is not live is never taken for an applied one,   *)
(* wherever in an apply it lands and whatever becomes of the request, but  *)
(* for an edit of the very second of the recorded revision                 *)
(* (apply_api.rs:75-78, reconcile.rs:7-12).                                *)
THEOREM PendingShows == Spec => []PendingEditsShow
<1>1. PanelInv => PendingEditsShow
  BY DEF PanelInv
<1>2. QED
  BY <1>1, PanelHolds, PTL

(* A report that is newer than the request is the answer to it: its helper *)
(* loaded the request's own set, unless one of an abandoned request was    *)
(* still at work when the staging was filled.                              *)
THEOREM ReportIsOwn == Spec => []ReportIsMine
<1>1. PanelInv => ReportIsMine
  BY DEF PanelInv, TypeOK, Seconds, Never, Answered, ReportIsMine
<1>2. QED
  BY <1>1, PanelHolds, PTL

=============================================================================

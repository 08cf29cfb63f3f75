------------------------ MODULE KnowledgeJobsProofs ------------------------
(***************************************************************************)
(* Proofs about KnowledgeJobs, for any number of workers and documents.    *)
(* HoldInv ties a running worker to the row it claimed: the row is         *)
(* processing and names the worker, the worker's heartbeat is fresh and    *)
(* the row is recent, so no claim, recovery or sweep can select it.  On it *)
(* rest the bound on attempts (BudgetInv) and the refinement of            *)
(* DocumentLifecycle; ContentInv needs none of it.                         *)
(***************************************************************************)
EXTENDS KnowledgeJobs, TLAPS

LEMMA StatusType ==
    ASSUME TypeOK, NEW S, NEW s \in Statuses, SetStatus(S, s)
    PROVE  status' \in [Docs -> Statuses] /\ old' \in SUBSET Docs
BY DEF TypeOK, SetStatus

\* A main thread that lets go of its job keeps the work variables well typed.
LEMMA WorkType ==
    ASSUME TypeOK, NEW w \in Workers, NEW p \in Places \ AtWork, GoTo(w, p)
    PROVE  /\ pc' \in [Workers -> Places]
           /\ doc' \in [Workers -> Docs \cup {NoDoc}]
           /\ tries' \in [Workers -> Nat]
           /\ \A v \in Workers : Working(v)' => doc'[v] \in Docs
BY DEF TypeOK, GoTo, Working

LEMMA TouchType ==
    ASSUME TypeOK, NEW w \in Workers, Touch(w)
    PROVE  fresh' \in SUBSET Ids
BY IdsAssumption DEF TypeOK, Touch

LEMMA TypeInit == Init => TypeOK
BY IdsAssumption, BoundsAssumption
DEF Init, TypeOK, Statuses, Places, AtWork, Working, Docs, NoDoc

LEMMA TypeStep ==
    ASSUME TypeOK, Next
    PROVE  TypeOK'
<1>. USE IdsAssumption, BoundsAssumption
<1>1. ASSUME NEW d \in Docs, Upload(d) PROVE TypeOK'
  BY <1>1 DEF Upload, SetStatus, workVars, budgets, TypeOK, Places, AtWork,
     Working, Statuses, Docs, NoDoc
<1>2. ASSUME NEW d \in Docs, Reprocess(d) PROVE TypeOK'
  BY <1>2 DEF Reprocess, SetStatus, Rows, workVars, TypeOK, Places, AtWork,
     Working, Statuses, Docs, NoDoc
<1>3. ASSUME NEW d \in Docs, DeleteCheck(d) PROVE TypeOK'
  BY <1>3 DEF DeleteCheck, Processing, Rows, rowVars, workVars, budgets,
     TypeOK, Places, AtWork, Working, Statuses, Docs, NoDoc
<1>4. ASSUME NEW d \in Docs, DeleteRows(d) PROVE TypeOK'
  BY <1>4 DEF DeleteRows, SetStatus, workVars, budgets, TypeOK, Places,
     AtWork, Working, Statuses, Docs, NoDoc
<1>5. ASSUME NEW d \in Docs, RetryDue(d) PROVE TypeOK'
  BY <1>5 DEF RetryDue, workVars, budgets, TypeOK, Places, AtWork, Working,
     Statuses, Docs, NoDoc
<1>6. ASSUME NEW d \in Docs, Age(d) PROVE TypeOK'
  BY <1>6 DEF Age, workVars, budgets, TypeOK, Places, AtWork, Working,
     Statuses, Docs, NoDoc
<1>7. ASSUME NEW w \in Workers, Start(w) PROVE TypeOK'
  BY <1>7 DEF Start, GoTo, rowVars, budgets, TypeOK, Places, AtWork, Working,
     Statuses, Docs, NoDoc
<1>8. ASSUME NEW w \in Workers, StartupRecovery(w) PROVE TypeOK'
  <2>1. "idle" \in Places \ AtWork /\ "queued" \in Statuses
    BY DEF Places, AtWork, Statuses
  <2>2. status' \in [Docs -> Statuses] /\ old' \in SUBSET Docs
    BY <1>8, <2>1, StatusType DEF StartupRecovery, Requeue
  <2>3. due' \in SUBSET Docs
    BY <1>8 DEF StartupRecovery, Requeue, OfDeadOwners, OwnedBy, Processing, TypeOK
  <2>. QED
    BY <1>8, <2>1, <2>2, <2>3, WorkType, TouchType DEF StartupRecovery, Requeue, TypeOK, budgets
<1>9. ASSUME NEW w \in Workers, StartupRecoveryFails(w) PROVE TypeOK'
  <2>1. "idle" \in Places \ AtWork /\ {"queued", "failed", "completed"} \subseteq Statuses
    BY DEF Places, AtWork, Statuses
  <2>. QED
    BY <1>9, <2>1, StatusType, WorkType, TouchType DEF StartupRecoveryFails, TypeOK, rowVars, budgets
<1>10. ASSUME NEW w \in Workers, StillHeld(w) PROVE TypeOK'
  BY <1>10 DEF StillHeld, Advance, rowVars, budgets, TypeOK, Places, AtWork,
     Working, Statuses, Docs, NoDoc
<1>11. ASSUME NEW w \in Workers, AssumeHeld(w) PROVE TypeOK'
  BY <1>11 DEF AssumeHeld, Advance, rowVars, TypeOK, Places, AtWork, Working,
     Statuses, Docs, NoDoc
<1>12. ASSUME NEW w \in Workers, HeldElsewhere(w) PROVE TypeOK'
  BY <1>12 DEF HeldElsewhere, GoTo, rowVars, budgets, TypeOK, Places, AtWork,
     Working, Statuses, Docs, NoDoc
<1>13. ASSUME NEW w \in Workers, Claim(w) PROVE TypeOK'
  <2>1. PICK d \in Claimable :
            /\ SetStatus({d}, "processing")
            /\ attempts' = [attempts EXCEPT ![d] = @ + 1]
            /\ owner' = [owner EXCEPT ![d] = IdOf[w]]
            /\ pc' = [pc EXCEPT ![w] = "claimed"]
            /\ doc' = [doc EXCEPT ![w] = d]
            /\ tries' = [tries EXCEPT ![w] = attempts'[d]]
    BY <1>13 DEF Claim
  <2>2. d \in Docs /\ "claimed" \in Places /\ "processing" \in Statuses
    BY DEF Claimable, TypeOK, Places, AtWork, Statuses
  <2>3. attempts' \in [Docs -> Nat]
    BY <2>1, <2>2 DEF TypeOK
  <2>4. fresh' \in SUBSET Ids
    BY <1>13, TouchType DEF Claim
  <2>. QED
    BY <1>13, <2>1, <2>2, <2>3, <2>4, StatusType DEF Claim, TypeOK, Working, budgets
<1>14. ASSUME NEW w \in Workers, NothingToClaim(w) PROVE TypeOK'
  BY <1>14 DEF NothingToClaim, Advance, Touch, Claimable, rowVars, budgets,
     TypeOK, Places, AtWork, Working, Statuses, Docs, NoDoc
<1>15. ASSUME NEW w \in Workers, StaleSweep(w) PROVE TypeOK'
  BY <1>15 DEF StaleSweep, Advance, Processing, budgets, TypeOK, Places,
     AtWork, Working, Statuses, Docs, NoDoc
<1>16. ASSUME NEW w \in Workers, SweepNotDue(w) PROVE TypeOK'
  BY <1>16 DEF SweepNotDue, Advance, rowVars, budgets, TypeOK, Places, AtWork,
     Working, Statuses, Docs, NoDoc
<1>17. ASSUME NEW w \in Workers, RecoverOrphans(w) PROVE TypeOK'
  BY <1>17 DEF RecoverOrphans, Requeue, Advance, OfDeadOwners, budgets,
     SetStatus, Processing, TypeOK, Places, AtWork, Working, Statuses, Docs,
     NoDoc
<1>18. ASSUME NEW w \in Workers, RecoveryNotDue(w) PROVE TypeOK'
  BY <1>18 DEF RecoveryNotDue, Advance, rowVars, budgets, TypeOK, Places,
     AtWork, Working, Statuses, Docs, NoDoc
<1>19. ASSUME NEW w \in Workers, ReadDocument(w) PROVE TypeOK'
  BY <1>19 DEF ReadDocument, Advance, Report, Rows, budgets, Touch, TypeOK,
     Places, AtWork, Working, Statuses, Docs, NoDoc
<1>20. ASSUME NEW w \in Workers, Prepare(w) PROVE TypeOK'
  BY <1>20 DEF Prepare, Advance, Report, budgets, Touch, TypeOK, Places,
     AtWork, Working, Statuses, Docs, NoDoc
<1>21. ASSUME NEW w \in Workers, Store(w) PROVE TypeOK'
  BY <1>21 DEF Store, Advance, Report, Rows, budgets, Touch, TypeOK, Places,
     AtWork, Working, Statuses, Docs, NoDoc
<1>22. ASSUME NEW w \in Workers, AttemptRaises(w) PROVE TypeOK'
  BY <1>22 DEF AttemptRaises, Advance, rowVars, budgets, TypeOK, Places,
     AtWork, Working, Statuses, Docs, NoDoc
<1>23. ASSUME NEW w \in Workers, Finish(w) PROVE TypeOK'
  <2>1. "idle" \in Places \ AtWork /\ {"queued", "failed", "completed"} \subseteq Statuses
    BY DEF Places, AtWork, Statuses
  <2>. QED
    BY <1>23, <2>1, StatusType, WorkType, TouchType DEF Finish, TypeOK, rowVars, budgets
<1>24. ASSUME NEW w \in Workers, FailJob(w) PROVE TypeOK'
  <2>1. "idle" \in Places \ AtWork /\ {"queued", "failed"} \subseteq Statuses
    BY DEF Places, AtWork, Statuses
  <2>2. status' \in [Docs -> Statuses] /\ old' \in SUBSET Docs
    <3>1. CASE Retry(w)
      BY <1>24, <2>1, <3>1, StatusType DEF FailJob
    <3>2. CASE ~Retry(w)
      BY <1>24, <2>1, <3>2, StatusType DEF FailJob
    <3>. QED
      BY <3>1, <3>2
  <2>3. due' \in SUBSET Docs
    BY <1>24 DEF FailJob, Rows, TypeOK
  <2>. QED
    BY <1>24, <2>1, <2>2, <2>3, WorkType, TouchType DEF FailJob, TypeOK, budgets
<1>25. ASSUME NEW w \in Workers, FailJobLost(w) PROVE TypeOK'
  <2>1. "idle" \in Places \ AtWork /\ {"queued", "failed", "completed"} \subseteq Statuses
    BY DEF Places, AtWork, Statuses
  <2>. QED
    BY <1>25, <2>1, StatusType, WorkType, TouchType DEF FailJobLost, TypeOK, rowVars, budgets
<1>26. ASSUME NEW w \in Workers, Crash(w) PROVE TypeOK'
  BY <1>26 DEF Crash, GoTo, rowVars, TypeOK, Places, AtWork, Working,
     Statuses, Docs, NoDoc
<1>27. ASSUME NEW w \in Workers, Beat(w) PROVE TypeOK'
  BY <1>27 DEF Beat, Touch, rowVars, workVars, budgets, TypeOK, Places,
     AtWork, Working, Statuses, Docs, NoDoc
<1>28. ASSUME NEW i \in Ids, Silence(i) PROVE TypeOK'
  BY <1>28 DEF Silence, rowVars, workVars, budgets, TypeOK, Places, AtWork,
     Working, Statuses, Docs, NoDoc
<1>29. ASSUME Outage PROVE TypeOK'
  BY <1>29 DEF Outage, rowVars, workVars, TypeOK, Places, AtWork, Working,
     Statuses, Docs, NoDoc
<1>. QED
  BY <1>1, <1>2, <1>3, <1>4, <1>5, <1>6, <1>7, <1>8, <1>9, <1>10, <1>11,
     <1>12, <1>13, <1>14, <1>15, <1>16, <1>17, <1>18, <1>19, <1>20, <1>21,
     <1>22, <1>23, <1>24, <1>25, <1>26, <1>27, <1>28, <1>29 DEF Next, Request,
     Failure, Time, Loop
-----------------------------------------------------------------------------
\* A live process keeps its heartbeat fresh while no database restart happens.
LEMMA BeatingStep ==
    ASSUME Isolated, TypeOK, Beating, Next
    PROVE  Beating'
<1>. USE IdsAssumption
<1>1. ASSUME NEW d \in Docs, Upload(d) PROVE Beating'
  BY <1>1 DEF Upload, SetStatus, workVars, budgets, TypeOK, Beating, Alive,
     Isolated, Working, AtWork
<1>2. ASSUME NEW d \in Docs, Reprocess(d) PROVE Beating'
  BY <1>2 DEF Reprocess, SetStatus, Rows, workVars, TypeOK, Beating, Alive,
     Isolated, Working, AtWork
<1>3. ASSUME NEW d \in Docs, DeleteCheck(d) PROVE Beating'
  BY <1>3 DEF DeleteCheck, Processing, Rows, rowVars, workVars, budgets,
     TypeOK, Beating, Alive, Isolated, Working, AtWork
<1>4. ASSUME NEW d \in Docs, DeleteRows(d) PROVE Beating'
  BY <1>4 DEF DeleteRows, SetStatus, workVars, budgets, TypeOK, Beating,
     Alive, Isolated, Working, AtWork
<1>5. ASSUME NEW d \in Docs, RetryDue(d) PROVE Beating'
  BY <1>5 DEF RetryDue, workVars, budgets, TypeOK, Beating, Alive, Isolated,
     Working, AtWork
<1>6. ASSUME NEW d \in Docs, Age(d) PROVE Beating'
  BY <1>6 DEF Age, workVars, budgets, TypeOK, Beating, Alive, Isolated,
     Working, AtWork
<1>7. ASSUME NEW w \in Workers, Start(w) PROVE Beating'
  BY <1>7 DEF Start, GoTo, rowVars, budgets, TypeOK, Beating, Alive, Isolated,
     Working, AtWork
<1>8. ASSUME NEW w \in Workers, StartupRecovery(w) PROVE Beating'
  BY <1>8 DEF StartupRecovery, Requeue, GoTo, Touch, OfDeadOwners, OwnedBy,
     budgets, SetStatus, Processing, TypeOK, Beating, Alive, Isolated,
     Working, AtWork
<1>9. ASSUME NEW w \in Workers, StartupRecoveryFails(w) PROVE Beating'
  BY <1>9 DEF StartupRecoveryFails, GoTo, Touch, rowVars, TypeOK, Beating,
     Alive, Isolated, Working, AtWork
<1>10. ASSUME NEW w \in Workers, StillHeld(w) PROVE Beating'
  BY <1>10 DEF StillHeld, Advance, rowVars, budgets, TypeOK, Beating, Alive,
     Isolated, Working, AtWork
<1>11. ASSUME NEW w \in Workers, AssumeHeld(w) PROVE Beating'
  BY <1>11 DEF AssumeHeld, Advance, rowVars, TypeOK, Beating, Alive, Isolated,
     Working, AtWork
<1>12. ASSUME NEW w \in Workers, HeldElsewhere(w) PROVE Beating'
  BY <1>12 DEF HeldElsewhere, GoTo, rowVars, budgets, TypeOK, Beating, Alive,
     Isolated, Working, AtWork
<1>13. ASSUME NEW w \in Workers, Claim(w) PROVE Beating'
  BY <1>13 DEF Claim, SetStatus, Touch, Claimable, budgets, TypeOK, Beating,
     Alive, Isolated, Working, AtWork
<1>14. ASSUME NEW w \in Workers, NothingToClaim(w) PROVE Beating'
  BY <1>14 DEF NothingToClaim, Advance, Touch, Claimable, rowVars, budgets,
     TypeOK, Beating, Alive, Isolated, Working, AtWork
<1>15. ASSUME NEW w \in Workers, StaleSweep(w) PROVE Beating'
  BY <1>15 DEF StaleSweep, Advance, Processing, budgets, TypeOK, Beating,
     Alive, Isolated, Working, AtWork
<1>16. ASSUME NEW w \in Workers, SweepNotDue(w) PROVE Beating'
  BY <1>16 DEF SweepNotDue, Advance, rowVars, budgets, TypeOK, Beating, Alive,
     Isolated, Working, AtWork
<1>17. ASSUME NEW w \in Workers, RecoverOrphans(w) PROVE Beating'
  BY <1>17 DEF RecoverOrphans, Requeue, Advance, OfDeadOwners, budgets,
     SetStatus, Processing, TypeOK, Beating, Alive, Isolated, Working, AtWork
<1>18. ASSUME NEW w \in Workers, RecoveryNotDue(w) PROVE Beating'
  BY <1>18 DEF RecoveryNotDue, Advance, rowVars, budgets, TypeOK, Beating,
     Alive, Isolated, Working, AtWork
<1>19. ASSUME NEW w \in Workers, ReadDocument(w) PROVE Beating'
  BY <1>19 DEF ReadDocument, Advance, Report, Rows, budgets, Touch, TypeOK,
     Beating, Alive, Isolated, Working, AtWork
<1>20. ASSUME NEW w \in Workers, Prepare(w) PROVE Beating'
  BY <1>20 DEF Prepare, Advance, Report, budgets, Touch, TypeOK, Beating,
     Alive, Isolated, Working, AtWork
<1>21. ASSUME NEW w \in Workers, Store(w) PROVE Beating'
  BY <1>21 DEF Store, Advance, Report, Rows, budgets, Touch, TypeOK, Beating,
     Alive, Isolated, Working, AtWork
<1>22. ASSUME NEW w \in Workers, AttemptRaises(w) PROVE Beating'
  BY <1>22 DEF AttemptRaises, Advance, rowVars, budgets, TypeOK, Beating,
     Alive, Isolated, Working, AtWork
<1>23. ASSUME NEW w \in Workers, Finish(w) PROVE Beating'
  BY <1>23 DEF Finish, SetStatus, GoTo, Touch, Rows, budgets, TypeOK, Beating,
     Alive, Isolated, Working, AtWork
<1>24. ASSUME NEW w \in Workers, FailJob(w) PROVE Beating'
  BY <1>24 DEF FailJob, SetStatus, GoTo, Touch, Rows, Retry, budgets, TypeOK,
     Beating, Alive, Isolated, Working, AtWork
<1>25. ASSUME NEW w \in Workers, FailJobLost(w) PROVE Beating'
  BY <1>25 DEF FailJobLost, GoTo, Touch, rowVars, TypeOK, Beating, Alive,
     Isolated, Working, AtWork
<1>26. ASSUME NEW w \in Workers, Crash(w) PROVE Beating'
  BY <1>26 DEF Crash, GoTo, rowVars, TypeOK, Beating, Alive, Isolated,
     Working, AtWork
<1>27. ASSUME NEW w \in Workers, Beat(w) PROVE Beating'
  BY <1>27 DEF Beat, Touch, rowVars, workVars, budgets, TypeOK, Beating,
     Alive, Isolated, Working, AtWork
<1>28. ASSUME NEW i \in Ids, Silence(i) PROVE Beating'
  BY <1>28 DEF Silence, rowVars, workVars, budgets, TypeOK, Beating, Alive,
     Isolated, Working, AtWork
<1>29. ASSUME Outage PROVE Beating'
  BY <1>29 DEF Outage, rowVars, workVars, TypeOK, Beating, Alive, Isolated,
     Working, AtWork
<1>. QED
  BY <1>1, <1>2, <1>3, <1>4, <1>5, <1>6, <1>7, <1>8, <1>9, <1>10, <1>11,
     <1>12, <1>13, <1>14, <1>15, <1>16, <1>17, <1>18, <1>19, <1>20, <1>21,
     <1>22, <1>23, <1>24, <1>25, <1>26, <1>27, <1>28, <1>29 DEF Next, Request,
     Failure, Time, Loop

\* No step lets a job grow old under a worker that runs it.
LEMMA RecentStep ==
    ASSUME Isolated, TypeOK, RunningIsRecent, Next
    PROVE  RunningIsRecent'
<1>1. ASSUME NEW d \in Docs, Upload(d) PROVE RunningIsRecent'
  BY <1>1 DEF Upload, SetStatus, workVars, budgets, TypeOK, RunningIsRecent,
     WorksOn, Isolated, Working, AtWork
<1>2. ASSUME NEW d \in Docs, Reprocess(d) PROVE RunningIsRecent'
  BY <1>2 DEF Reprocess, SetStatus, Rows, workVars, TypeOK, RunningIsRecent,
     WorksOn, Isolated, Working, AtWork
<1>3. ASSUME NEW d \in Docs, DeleteCheck(d) PROVE RunningIsRecent'
  BY <1>3 DEF DeleteCheck, Processing, Rows, rowVars, workVars, budgets,
     TypeOK, RunningIsRecent, WorksOn, Isolated, Working, AtWork
<1>4. ASSUME NEW d \in Docs, DeleteRows(d) PROVE RunningIsRecent'
  BY <1>4 DEF DeleteRows, SetStatus, workVars, budgets, TypeOK,
     RunningIsRecent, WorksOn, Isolated, Working, AtWork
<1>5. ASSUME NEW d \in Docs, RetryDue(d) PROVE RunningIsRecent'
  BY <1>5 DEF RetryDue, workVars, budgets, TypeOK, RunningIsRecent, WorksOn,
     Isolated, Working, AtWork
<1>6. ASSUME NEW d \in Docs, Age(d) PROVE RunningIsRecent'
  BY <1>6 DEF Age, workVars, budgets, TypeOK, RunningIsRecent, WorksOn,
     Isolated, Working, AtWork
<1>7. ASSUME NEW w \in Workers, Start(w) PROVE RunningIsRecent'
  BY <1>7 DEF Start, GoTo, rowVars, budgets, TypeOK, RunningIsRecent, WorksOn,
     Isolated, Working, AtWork
<1>8. ASSUME NEW w \in Workers, StartupRecovery(w) PROVE RunningIsRecent'
  BY <1>8 DEF StartupRecovery, Requeue, GoTo, Touch, OfDeadOwners, OwnedBy,
     budgets, SetStatus, Processing, TypeOK, RunningIsRecent, WorksOn,
     Isolated, Working, AtWork
<1>9. ASSUME NEW w \in Workers, StartupRecoveryFails(w) PROVE RunningIsRecent'
  BY <1>9 DEF StartupRecoveryFails, GoTo, Touch, rowVars, TypeOK,
     RunningIsRecent, WorksOn, Isolated, Working, AtWork
<1>10. ASSUME NEW w \in Workers, StillHeld(w) PROVE RunningIsRecent'
  BY <1>10 DEF StillHeld, Advance, rowVars, budgets, TypeOK, RunningIsRecent,
     WorksOn, Isolated, Working, AtWork
<1>11. ASSUME NEW w \in Workers, AssumeHeld(w) PROVE RunningIsRecent'
  BY <1>11 DEF AssumeHeld, Advance, rowVars, TypeOK, RunningIsRecent, WorksOn,
     Isolated, Working, AtWork
<1>12. ASSUME NEW w \in Workers, HeldElsewhere(w) PROVE RunningIsRecent'
  BY <1>12 DEF HeldElsewhere, GoTo, rowVars, budgets, TypeOK, RunningIsRecent,
     WorksOn, Isolated, Working, AtWork
<1>13. ASSUME NEW w \in Workers, Claim(w) PROVE RunningIsRecent'
  BY <1>13 DEF Claim, SetStatus, Touch, Claimable, budgets, TypeOK,
     RunningIsRecent, WorksOn, Isolated, Working, AtWork
<1>14. ASSUME NEW w \in Workers, NothingToClaim(w) PROVE RunningIsRecent'
  BY <1>14 DEF NothingToClaim, Advance, Touch, Claimable, rowVars, budgets,
     TypeOK, RunningIsRecent, WorksOn, Isolated, Working, AtWork
<1>15. ASSUME NEW w \in Workers, StaleSweep(w) PROVE RunningIsRecent'
  BY <1>15 DEF StaleSweep, Advance, Processing, budgets, TypeOK,
     RunningIsRecent, WorksOn, Isolated, Working, AtWork
<1>16. ASSUME NEW w \in Workers, SweepNotDue(w) PROVE RunningIsRecent'
  BY <1>16 DEF SweepNotDue, Advance, rowVars, budgets, TypeOK,
     RunningIsRecent, WorksOn, Isolated, Working, AtWork
<1>17. ASSUME NEW w \in Workers, RecoverOrphans(w) PROVE RunningIsRecent'
  BY <1>17 DEF RecoverOrphans, Requeue, Advance, OfDeadOwners, budgets,
     SetStatus, Processing, TypeOK, RunningIsRecent, WorksOn, Isolated,
     Working, AtWork
<1>18. ASSUME NEW w \in Workers, RecoveryNotDue(w) PROVE RunningIsRecent'
  BY <1>18 DEF RecoveryNotDue, Advance, rowVars, budgets, TypeOK,
     RunningIsRecent, WorksOn, Isolated, Working, AtWork
<1>19. ASSUME NEW w \in Workers, ReadDocument(w) PROVE RunningIsRecent'
  BY <1>19 DEF ReadDocument, Advance, Report, Rows, budgets, Touch, TypeOK,
     RunningIsRecent, WorksOn, Isolated, Working, AtWork
<1>20. ASSUME NEW w \in Workers, Prepare(w) PROVE RunningIsRecent'
  BY <1>20 DEF Prepare, Advance, Report, budgets, Touch, TypeOK,
     RunningIsRecent, WorksOn, Isolated, Working, AtWork
<1>21. ASSUME NEW w \in Workers, Store(w) PROVE RunningIsRecent'
  BY <1>21 DEF Store, Advance, Report, Rows, budgets, Touch, TypeOK,
     RunningIsRecent, WorksOn, Isolated, Working, AtWork
<1>22. ASSUME NEW w \in Workers, AttemptRaises(w) PROVE RunningIsRecent'
  BY <1>22 DEF AttemptRaises, Advance, rowVars, budgets, TypeOK,
     RunningIsRecent, WorksOn, Isolated, Working, AtWork
<1>23. ASSUME NEW w \in Workers, Finish(w) PROVE RunningIsRecent'
  BY <1>23 DEF Finish, SetStatus, GoTo, Touch, Rows, budgets, TypeOK,
     RunningIsRecent, WorksOn, Isolated, Working, AtWork
<1>24. ASSUME NEW w \in Workers, FailJob(w) PROVE RunningIsRecent'
  BY <1>24 DEF FailJob, SetStatus, GoTo, Touch, Rows, Retry, budgets, TypeOK,
     RunningIsRecent, WorksOn, Isolated, Working, AtWork
<1>25. ASSUME NEW w \in Workers, FailJobLost(w) PROVE RunningIsRecent'
  BY <1>25 DEF FailJobLost, GoTo, Touch, rowVars, TypeOK, RunningIsRecent,
     WorksOn, Isolated, Working, AtWork
<1>26. ASSUME NEW w \in Workers, Crash(w) PROVE RunningIsRecent'
  BY <1>26 DEF Crash, GoTo, rowVars, TypeOK, RunningIsRecent, WorksOn,
     Isolated, Working, AtWork
<1>27. ASSUME NEW w \in Workers, Beat(w) PROVE RunningIsRecent'
  BY <1>27 DEF Beat, Touch, rowVars, workVars, budgets, TypeOK,
     RunningIsRecent, WorksOn, Isolated, Working, AtWork
<1>28. ASSUME NEW i \in Ids, Silence(i) PROVE RunningIsRecent'
  BY <1>28 DEF Silence, rowVars, workVars, budgets, TypeOK, RunningIsRecent,
     WorksOn, Isolated, Working, AtWork
<1>29. ASSUME Outage PROVE RunningIsRecent'
  BY <1>29 DEF Outage, rowVars, workVars, TypeOK, RunningIsRecent, WorksOn,
     Isolated, Working, AtWork
<1>. QED
  BY <1>1, <1>2, <1>3, <1>4, <1>5, <1>6, <1>7, <1>8, <1>9, <1>10, <1>11,
     <1>12, <1>13, <1>14, <1>15, <1>16, <1>17, <1>18, <1>19, <1>20, <1>21,
     <1>22, <1>23, <1>24, <1>25, <1>26, <1>27, <1>28, <1>29 DEF Next, Request,
     Failure, Time, Loop

HoldInv == /\ TypeOK /\ Beating /\ RunningIsRecent
           /\ RunningJobIsOwned /\ OneWorkerPerDocument

\* Only a claim gives a worker a document, and nobody works on a queued one.
LEMMA OneWorkerStep ==
    ASSUME HoldInv, Next
    PROVE  OneWorkerPerDocument'
<1>1. ASSUME NEW d \in Docs, Upload(d) PROVE OneWorkerPerDocument'
  BY <1>1 DEF Upload, SetStatus, workVars, budgets, HoldInv, TypeOK,
     RunningJobIsOwned, OneWorkerPerDocument, Working, AtWork
<1>2. ASSUME NEW d \in Docs, Reprocess(d) PROVE OneWorkerPerDocument'
  BY <1>2 DEF Reprocess, SetStatus, Rows, workVars, HoldInv, TypeOK,
     RunningJobIsOwned, OneWorkerPerDocument, Working, AtWork
<1>3. ASSUME NEW d \in Docs, DeleteCheck(d) PROVE OneWorkerPerDocument'
  BY <1>3 DEF DeleteCheck, Processing, Rows, rowVars, workVars, budgets,
     HoldInv, TypeOK, RunningJobIsOwned, OneWorkerPerDocument, Working, AtWork
<1>4. ASSUME NEW d \in Docs, DeleteRows(d) PROVE OneWorkerPerDocument'
  BY <1>4 DEF DeleteRows, SetStatus, workVars, budgets, HoldInv, TypeOK,
     RunningJobIsOwned, OneWorkerPerDocument, Working, AtWork
<1>5. ASSUME NEW d \in Docs, RetryDue(d) PROVE OneWorkerPerDocument'
  BY <1>5 DEF RetryDue, workVars, budgets, HoldInv, TypeOK, RunningJobIsOwned,
     OneWorkerPerDocument, Working, AtWork
<1>6. ASSUME NEW d \in Docs, Age(d) PROVE OneWorkerPerDocument'
  BY <1>6 DEF Age, workVars, budgets, HoldInv, TypeOK, RunningJobIsOwned,
     OneWorkerPerDocument, Working, AtWork
<1>7. ASSUME NEW w \in Workers, Start(w) PROVE OneWorkerPerDocument'
  BY <1>7 DEF Start, GoTo, rowVars, budgets, HoldInv, TypeOK,
     RunningJobIsOwned, OneWorkerPerDocument, Working, AtWork
<1>8. ASSUME NEW w \in Workers, StartupRecovery(w) PROVE OneWorkerPerDocument'
  BY <1>8 DEF StartupRecovery, Requeue, GoTo, Touch, OfDeadOwners, OwnedBy,
     budgets, SetStatus, Processing, HoldInv, TypeOK, RunningJobIsOwned,
     OneWorkerPerDocument, Working, AtWork
<1>9. ASSUME NEW w \in Workers, StartupRecoveryFails(w) PROVE OneWorkerPerDocument'
  BY <1>9 DEF StartupRecoveryFails, GoTo, Touch, rowVars, HoldInv, TypeOK,
     RunningJobIsOwned, OneWorkerPerDocument, Working, AtWork
<1>10. ASSUME NEW w \in Workers, StillHeld(w) PROVE OneWorkerPerDocument'
  BY <1>10 DEF StillHeld, Advance, rowVars, budgets, HoldInv, TypeOK,
     RunningJobIsOwned, OneWorkerPerDocument, Working, AtWork
<1>11. ASSUME NEW w \in Workers, AssumeHeld(w) PROVE OneWorkerPerDocument'
  BY <1>11 DEF AssumeHeld, Advance, rowVars, HoldInv, TypeOK,
     RunningJobIsOwned, OneWorkerPerDocument, Working, AtWork
<1>12. ASSUME NEW w \in Workers, HeldElsewhere(w) PROVE OneWorkerPerDocument'
  BY <1>12 DEF HeldElsewhere, GoTo, rowVars, budgets, HoldInv, TypeOK,
     RunningJobIsOwned, OneWorkerPerDocument, Working, AtWork
<1>13. ASSUME NEW w \in Workers, Claim(w) PROVE OneWorkerPerDocument'
  BY <1>13 DEF Claim, SetStatus, Touch, Claimable, budgets, HoldInv, TypeOK,
     RunningJobIsOwned, OneWorkerPerDocument, Working, AtWork
<1>14. ASSUME NEW w \in Workers, NothingToClaim(w) PROVE OneWorkerPerDocument'
  BY <1>14 DEF NothingToClaim, Advance, Touch, Claimable, rowVars, budgets,
     HoldInv, TypeOK, RunningJobIsOwned, OneWorkerPerDocument, Working, AtWork
<1>15. ASSUME NEW w \in Workers, StaleSweep(w) PROVE OneWorkerPerDocument'
  BY <1>15 DEF StaleSweep, Advance, Processing, budgets, HoldInv, TypeOK,
     RunningJobIsOwned, OneWorkerPerDocument, Working, AtWork
<1>16. ASSUME NEW w \in Workers, SweepNotDue(w) PROVE OneWorkerPerDocument'
  BY <1>16 DEF SweepNotDue, Advance, rowVars, budgets, HoldInv, TypeOK,
     RunningJobIsOwned, OneWorkerPerDocument, Working, AtWork
<1>17. ASSUME NEW w \in Workers, RecoverOrphans(w) PROVE OneWorkerPerDocument'
  BY <1>17 DEF RecoverOrphans, Requeue, Advance, OfDeadOwners, budgets,
     SetStatus, Processing, HoldInv, TypeOK, RunningJobIsOwned,
     OneWorkerPerDocument, Working, AtWork
<1>18. ASSUME NEW w \in Workers, RecoveryNotDue(w) PROVE OneWorkerPerDocument'
  BY <1>18 DEF RecoveryNotDue, Advance, rowVars, budgets, HoldInv, TypeOK,
     RunningJobIsOwned, OneWorkerPerDocument, Working, AtWork
<1>19. ASSUME NEW w \in Workers, ReadDocument(w) PROVE OneWorkerPerDocument'
  BY <1>19 DEF ReadDocument, Advance, Report, Rows, budgets, Touch, HoldInv,
     TypeOK, RunningJobIsOwned, OneWorkerPerDocument, Working, AtWork
<1>20. ASSUME NEW w \in Workers, Prepare(w) PROVE OneWorkerPerDocument'
  BY <1>20 DEF Prepare, Advance, Report, budgets, Touch, HoldInv, TypeOK,
     RunningJobIsOwned, OneWorkerPerDocument, Working, AtWork
<1>21. ASSUME NEW w \in Workers, Store(w) PROVE OneWorkerPerDocument'
  BY <1>21 DEF Store, Advance, Report, Rows, budgets, Touch, HoldInv, TypeOK,
     RunningJobIsOwned, OneWorkerPerDocument, Working, AtWork
<1>22. ASSUME NEW w \in Workers, AttemptRaises(w) PROVE OneWorkerPerDocument'
  BY <1>22 DEF AttemptRaises, Advance, rowVars, budgets, HoldInv, TypeOK,
     RunningJobIsOwned, OneWorkerPerDocument, Working, AtWork
<1>23. ASSUME NEW w \in Workers, Finish(w) PROVE OneWorkerPerDocument'
  BY <1>23 DEF Finish, SetStatus, GoTo, Touch, Rows, budgets, HoldInv, TypeOK,
     RunningJobIsOwned, OneWorkerPerDocument, Working, AtWork
<1>24. ASSUME NEW w \in Workers, FailJob(w) PROVE OneWorkerPerDocument'
  BY <1>24 DEF FailJob, SetStatus, GoTo, Touch, Rows, Retry, budgets, HoldInv,
     TypeOK, RunningJobIsOwned, OneWorkerPerDocument, Working, AtWork
<1>25. ASSUME NEW w \in Workers, FailJobLost(w) PROVE OneWorkerPerDocument'
  BY <1>25 DEF FailJobLost, GoTo, Touch, rowVars, HoldInv, TypeOK,
     RunningJobIsOwned, OneWorkerPerDocument, Working, AtWork
<1>26. ASSUME NEW w \in Workers, Crash(w) PROVE OneWorkerPerDocument'
  BY <1>26 DEF Crash, GoTo, rowVars, HoldInv, TypeOK, RunningJobIsOwned,
     OneWorkerPerDocument, Working, AtWork
<1>27. ASSUME NEW w \in Workers, Beat(w) PROVE OneWorkerPerDocument'
  BY <1>27 DEF Beat, Touch, rowVars, workVars, budgets, HoldInv, TypeOK,
     RunningJobIsOwned, OneWorkerPerDocument, Working, AtWork
<1>28. ASSUME NEW i \in Ids, Silence(i) PROVE OneWorkerPerDocument'
  BY <1>28 DEF Silence, rowVars, workVars, budgets, HoldInv, TypeOK,
     RunningJobIsOwned, OneWorkerPerDocument, Working, AtWork
<1>29. ASSUME Outage PROVE OneWorkerPerDocument'
  BY <1>29 DEF Outage, rowVars, workVars, HoldInv, TypeOK, RunningJobIsOwned,
     OneWorkerPerDocument, Working, AtWork
<1>. QED
  BY <1>1, <1>2, <1>3, <1>4, <1>5, <1>6, <1>7, <1>8, <1>9, <1>10, <1>11,
     <1>12, <1>13, <1>14, <1>15, <1>16, <1>17, <1>18, <1>19, <1>20, <1>21,
     <1>22, <1>23, <1>24, <1>25, <1>26, <1>27, <1>28, <1>29 DEF Next, Request,
     Failure, Time, Loop

\* No step of another process, and no sweep, touches a row a worker runs.
LEMMA OwnedStep ==
    ASSUME Isolated, HoldInv, Next
    PROVE  RunningJobIsOwned'
<1>. USE IdsAssumption
<1>1. ASSUME NEW d \in Docs, Upload(d) PROVE RunningJobIsOwned'
  BY <1>1 DEF Upload, SetStatus, workVars, budgets, HoldInv, TypeOK,
     RunningJobIsOwned, OneWorkerPerDocument, Beating, Alive, RunningIsRecent,
     Isolated, Working, AtWork
<1>2. ASSUME NEW d \in Docs, Reprocess(d) PROVE RunningJobIsOwned'
  BY <1>2 DEF Reprocess, SetStatus, Rows, workVars, HoldInv, TypeOK,
     RunningJobIsOwned, OneWorkerPerDocument, Beating, Alive, RunningIsRecent,
     Isolated, Working, AtWork
<1>3. ASSUME NEW d \in Docs, DeleteCheck(d) PROVE RunningJobIsOwned'
  BY <1>3 DEF DeleteCheck, Processing, Rows, rowVars, workVars, budgets,
     HoldInv, TypeOK, RunningJobIsOwned, OneWorkerPerDocument, Beating, Alive,
     RunningIsRecent, Isolated, Working, AtWork
<1>4. ASSUME NEW d \in Docs, DeleteRows(d) PROVE RunningJobIsOwned'
  BY <1>4 DEF DeleteRows, SetStatus, workVars, budgets, HoldInv, TypeOK,
     RunningJobIsOwned, OneWorkerPerDocument, Beating, Alive, RunningIsRecent,
     Isolated, Working, AtWork
<1>5. ASSUME NEW d \in Docs, RetryDue(d) PROVE RunningJobIsOwned'
  BY <1>5 DEF RetryDue, workVars, budgets, HoldInv, TypeOK, RunningJobIsOwned,
     OneWorkerPerDocument, Beating, Alive, RunningIsRecent, Isolated, Working,
     AtWork
<1>6. ASSUME NEW d \in Docs, Age(d) PROVE RunningJobIsOwned'
  BY <1>6 DEF Age, workVars, budgets, HoldInv, TypeOK, RunningJobIsOwned,
     OneWorkerPerDocument, Beating, Alive, RunningIsRecent, Isolated, Working,
     AtWork
<1>7. ASSUME NEW w \in Workers, Start(w) PROVE RunningJobIsOwned'
  BY <1>7 DEF Start, GoTo, rowVars, budgets, HoldInv, TypeOK,
     RunningJobIsOwned, OneWorkerPerDocument, Beating, Alive, RunningIsRecent,
     Isolated, Working, AtWork
<1>8. ASSUME NEW w \in Workers, StartupRecovery(w) PROVE RunningJobIsOwned'
  BY <1>8 DEF StartupRecovery, Requeue, GoTo, Touch, OfDeadOwners, OwnedBy,
     budgets, SetStatus, Processing, HoldInv, TypeOK, RunningJobIsOwned,
     OneWorkerPerDocument, Beating, Alive, RunningIsRecent, Isolated, Working,
     AtWork
<1>9. ASSUME NEW w \in Workers, StartupRecoveryFails(w) PROVE RunningJobIsOwned'
  BY <1>9 DEF StartupRecoveryFails, GoTo, Touch, rowVars, HoldInv, TypeOK,
     RunningJobIsOwned, OneWorkerPerDocument, Beating, Alive, RunningIsRecent,
     Isolated, Working, AtWork
<1>10. ASSUME NEW w \in Workers, StillHeld(w) PROVE RunningJobIsOwned'
  BY <1>10 DEF StillHeld, Advance, rowVars, budgets, HoldInv, TypeOK,
     RunningJobIsOwned, OneWorkerPerDocument, Beating, Alive, RunningIsRecent,
     Isolated, Working, AtWork
<1>11. ASSUME NEW w \in Workers, AssumeHeld(w) PROVE RunningJobIsOwned'
  BY <1>11 DEF AssumeHeld, Advance, rowVars, HoldInv, TypeOK,
     RunningJobIsOwned, OneWorkerPerDocument, Beating, Alive, RunningIsRecent,
     Isolated, Working, AtWork
<1>12. ASSUME NEW w \in Workers, HeldElsewhere(w) PROVE RunningJobIsOwned'
  BY <1>12 DEF HeldElsewhere, GoTo, rowVars, budgets, HoldInv, TypeOK,
     RunningJobIsOwned, OneWorkerPerDocument, Beating, Alive, RunningIsRecent,
     Isolated, Working, AtWork
<1>13. ASSUME NEW w \in Workers, Claim(w) PROVE RunningJobIsOwned'
  BY <1>13 DEF Claim, SetStatus, Touch, Claimable, budgets, HoldInv, TypeOK,
     RunningJobIsOwned, OneWorkerPerDocument, Beating, Alive, RunningIsRecent,
     Isolated, Working, AtWork
<1>14. ASSUME NEW w \in Workers, NothingToClaim(w) PROVE RunningJobIsOwned'
  BY <1>14 DEF NothingToClaim, Advance, Touch, Claimable, rowVars, budgets,
     HoldInv, TypeOK, RunningJobIsOwned, OneWorkerPerDocument, Beating, Alive,
     RunningIsRecent, Isolated, Working, AtWork
<1>15. ASSUME NEW w \in Workers, StaleSweep(w) PROVE RunningJobIsOwned'
  BY <1>15 DEF StaleSweep, Advance, Processing, budgets, HoldInv, TypeOK,
     RunningJobIsOwned, OneWorkerPerDocument, Beating, Alive, RunningIsRecent,
     Isolated, Working, AtWork
<1>16. ASSUME NEW w \in Workers, SweepNotDue(w) PROVE RunningJobIsOwned'
  BY <1>16 DEF SweepNotDue, Advance, rowVars, budgets, HoldInv, TypeOK,
     RunningJobIsOwned, OneWorkerPerDocument, Beating, Alive, RunningIsRecent,
     Isolated, Working, AtWork
<1>17. ASSUME NEW w \in Workers, RecoverOrphans(w) PROVE RunningJobIsOwned'
  BY <1>17 DEF RecoverOrphans, Requeue, Advance, OfDeadOwners, budgets,
     SetStatus, Processing, HoldInv, TypeOK, RunningJobIsOwned,
     OneWorkerPerDocument, Beating, Alive, RunningIsRecent, Isolated, Working,
     AtWork
<1>18. ASSUME NEW w \in Workers, RecoveryNotDue(w) PROVE RunningJobIsOwned'
  BY <1>18 DEF RecoveryNotDue, Advance, rowVars, budgets, HoldInv, TypeOK,
     RunningJobIsOwned, OneWorkerPerDocument, Beating, Alive, RunningIsRecent,
     Isolated, Working, AtWork
<1>19. ASSUME NEW w \in Workers, ReadDocument(w) PROVE RunningJobIsOwned'
  BY <1>19 DEF ReadDocument, Advance, Report, Rows, budgets, Touch, HoldInv,
     TypeOK, RunningJobIsOwned, OneWorkerPerDocument, Beating, Alive,
     RunningIsRecent, Isolated, Working, AtWork
<1>20. ASSUME NEW w \in Workers, Prepare(w) PROVE RunningJobIsOwned'
  BY <1>20 DEF Prepare, Advance, Report, budgets, Touch, HoldInv, TypeOK,
     RunningJobIsOwned, OneWorkerPerDocument, Beating, Alive, RunningIsRecent,
     Isolated, Working, AtWork
<1>21. ASSUME NEW w \in Workers, Store(w) PROVE RunningJobIsOwned'
  BY <1>21 DEF Store, Advance, Report, Rows, budgets, Touch, HoldInv, TypeOK,
     RunningJobIsOwned, OneWorkerPerDocument, Beating, Alive, RunningIsRecent,
     Isolated, Working, AtWork
<1>22. ASSUME NEW w \in Workers, AttemptRaises(w) PROVE RunningJobIsOwned'
  BY <1>22 DEF AttemptRaises, Advance, rowVars, budgets, HoldInv, TypeOK,
     RunningJobIsOwned, OneWorkerPerDocument, Beating, Alive, RunningIsRecent,
     Isolated, Working, AtWork
<1>23. ASSUME NEW w \in Workers, Finish(w) PROVE RunningJobIsOwned'
  BY <1>23 DEF Finish, SetStatus, GoTo, Touch, Rows, budgets, HoldInv, TypeOK,
     RunningJobIsOwned, OneWorkerPerDocument, Beating, Alive, RunningIsRecent,
     Isolated, Working, AtWork
<1>24. ASSUME NEW w \in Workers, FailJob(w) PROVE RunningJobIsOwned'
  BY <1>24 DEF FailJob, SetStatus, GoTo, Touch, Rows, Retry, budgets, HoldInv,
     TypeOK, RunningJobIsOwned, OneWorkerPerDocument, Beating, Alive,
     RunningIsRecent, Isolated, Working, AtWork
<1>25. ASSUME NEW w \in Workers, FailJobLost(w) PROVE RunningJobIsOwned'
  BY <1>25 DEF FailJobLost, GoTo, Touch, rowVars, HoldInv, TypeOK,
     RunningJobIsOwned, OneWorkerPerDocument, Beating, Alive, RunningIsRecent,
     Isolated, Working, AtWork
<1>26. ASSUME NEW w \in Workers, Crash(w) PROVE RunningJobIsOwned'
  BY <1>26 DEF Crash, GoTo, rowVars, HoldInv, TypeOK, RunningJobIsOwned,
     OneWorkerPerDocument, Beating, Alive, RunningIsRecent, Isolated, Working,
     AtWork
<1>27. ASSUME NEW w \in Workers, Beat(w) PROVE RunningJobIsOwned'
  BY <1>27 DEF Beat, Touch, rowVars, workVars, budgets, HoldInv, TypeOK,
     RunningJobIsOwned, OneWorkerPerDocument, Beating, Alive, RunningIsRecent,
     Isolated, Working, AtWork
<1>28. ASSUME NEW i \in Ids, Silence(i) PROVE RunningJobIsOwned'
  BY <1>28 DEF Silence, rowVars, workVars, budgets, HoldInv, TypeOK,
     RunningJobIsOwned, OneWorkerPerDocument, Beating, Alive, RunningIsRecent,
     Isolated, Working, AtWork
<1>29. ASSUME Outage PROVE RunningJobIsOwned'
  BY <1>29 DEF Outage, rowVars, workVars, HoldInv, TypeOK, RunningJobIsOwned,
     OneWorkerPerDocument, Beating, Alive, RunningIsRecent, Isolated, Working,
     AtWork
<1>. QED
  BY <1>1, <1>2, <1>3, <1>4, <1>5, <1>6, <1>7, <1>8, <1>9, <1>10, <1>11,
     <1>12, <1>13, <1>14, <1>15, <1>16, <1>17, <1>18, <1>19, <1>20, <1>21,
     <1>22, <1>23, <1>24, <1>25, <1>26, <1>27, <1>28, <1>29 DEF Next, Request,
     Failure, Time, Loop

\* A process takes and keeps only the lock of its own id.
LEMMA LockStep ==
    ASSUME TypeOK, LockIsOwn, Next
    PROVE  LockIsOwn'
<1>. USE IdsAssumption
<1>1. ASSUME NEW d \in Docs, Upload(d) PROVE LockIsOwn'
  BY <1>1 DEF Upload, SetStatus, workVars, budgets, TypeOK, LockIsOwn
<1>2. ASSUME NEW d \in Docs, Reprocess(d) PROVE LockIsOwn'
  BY <1>2 DEF Reprocess, SetStatus, Rows, workVars, TypeOK, LockIsOwn
<1>3. ASSUME NEW d \in Docs, DeleteCheck(d) PROVE LockIsOwn'
  BY <1>3 DEF DeleteCheck, Processing, Rows, rowVars, workVars, budgets,
     TypeOK, LockIsOwn
<1>4. ASSUME NEW d \in Docs, DeleteRows(d) PROVE LockIsOwn'
  BY <1>4 DEF DeleteRows, SetStatus, workVars, budgets, TypeOK, LockIsOwn
<1>5. ASSUME NEW d \in Docs, RetryDue(d) PROVE LockIsOwn'
  BY <1>5 DEF RetryDue, workVars, budgets, TypeOK, LockIsOwn
<1>6. ASSUME NEW d \in Docs, Age(d) PROVE LockIsOwn'
  BY <1>6 DEF Age, workVars, budgets, TypeOK, LockIsOwn
<1>7. ASSUME NEW w \in Workers, Start(w) PROVE LockIsOwn'
  BY <1>7 DEF Start, GoTo, rowVars, budgets, TypeOK, LockIsOwn
<1>8. ASSUME NEW w \in Workers, StartupRecovery(w) PROVE LockIsOwn'
  BY <1>8 DEF StartupRecovery, Requeue, GoTo, Touch, OfDeadOwners, OwnedBy,
     budgets, SetStatus, Processing, TypeOK, LockIsOwn
<1>9. ASSUME NEW w \in Workers, StartupRecoveryFails(w) PROVE LockIsOwn'
  BY <1>9 DEF StartupRecoveryFails, GoTo, Touch, rowVars, TypeOK, LockIsOwn
<1>10. ASSUME NEW w \in Workers, StillHeld(w) PROVE LockIsOwn'
  BY <1>10 DEF StillHeld, Advance, rowVars, budgets, TypeOK, LockIsOwn
<1>11. ASSUME NEW w \in Workers, AssumeHeld(w) PROVE LockIsOwn'
  BY <1>11 DEF AssumeHeld, Advance, rowVars, TypeOK, LockIsOwn
<1>12. ASSUME NEW w \in Workers, HeldElsewhere(w) PROVE LockIsOwn'
  BY <1>12 DEF HeldElsewhere, GoTo, rowVars, budgets, TypeOK, LockIsOwn
<1>13. ASSUME NEW w \in Workers, Claim(w) PROVE LockIsOwn'
  BY <1>13 DEF Claim, SetStatus, Touch, Claimable, budgets, TypeOK, LockIsOwn
<1>14. ASSUME NEW w \in Workers, NothingToClaim(w) PROVE LockIsOwn'
  BY <1>14 DEF NothingToClaim, Advance, Touch, Claimable, rowVars, budgets,
     TypeOK, LockIsOwn
<1>15. ASSUME NEW w \in Workers, StaleSweep(w) PROVE LockIsOwn'
  BY <1>15 DEF StaleSweep, Advance, Processing, budgets, TypeOK, LockIsOwn
<1>16. ASSUME NEW w \in Workers, SweepNotDue(w) PROVE LockIsOwn'
  BY <1>16 DEF SweepNotDue, Advance, rowVars, budgets, TypeOK, LockIsOwn
<1>17. ASSUME NEW w \in Workers, RecoverOrphans(w) PROVE LockIsOwn'
  BY <1>17 DEF RecoverOrphans, Requeue, Advance, OfDeadOwners, budgets,
     SetStatus, Processing, TypeOK, LockIsOwn
<1>18. ASSUME NEW w \in Workers, RecoveryNotDue(w) PROVE LockIsOwn'
  BY <1>18 DEF RecoveryNotDue, Advance, rowVars, budgets, TypeOK, LockIsOwn
<1>19. ASSUME NEW w \in Workers, ReadDocument(w) PROVE LockIsOwn'
  BY <1>19 DEF ReadDocument, Advance, Report, Rows, budgets, Touch, TypeOK,
     LockIsOwn
<1>20. ASSUME NEW w \in Workers, Prepare(w) PROVE LockIsOwn'
  BY <1>20 DEF Prepare, Advance, Report, budgets, Touch, TypeOK, LockIsOwn
<1>21. ASSUME NEW w \in Workers, Store(w) PROVE LockIsOwn'
  BY <1>21 DEF Store, Advance, Report, Rows, budgets, Touch, TypeOK, LockIsOwn
<1>22. ASSUME NEW w \in Workers, AttemptRaises(w) PROVE LockIsOwn'
  BY <1>22 DEF AttemptRaises, Advance, rowVars, budgets, TypeOK, LockIsOwn
<1>23. ASSUME NEW w \in Workers, Finish(w) PROVE LockIsOwn'
  BY <1>23 DEF Finish, SetStatus, GoTo, Touch, Rows, budgets, TypeOK,
     LockIsOwn
<1>24. ASSUME NEW w \in Workers, FailJob(w) PROVE LockIsOwn'
  BY <1>24 DEF FailJob, SetStatus, GoTo, Touch, Rows, Retry, budgets, TypeOK,
     LockIsOwn
<1>25. ASSUME NEW w \in Workers, FailJobLost(w) PROVE LockIsOwn'
  BY <1>25 DEF FailJobLost, GoTo, Touch, rowVars, TypeOK, LockIsOwn
<1>26. ASSUME NEW w \in Workers, Crash(w) PROVE LockIsOwn'
  BY <1>26 DEF Crash, GoTo, rowVars, TypeOK, LockIsOwn
<1>27. ASSUME NEW w \in Workers, Beat(w) PROVE LockIsOwn'
  BY <1>27 DEF Beat, Touch, rowVars, workVars, budgets, TypeOK, LockIsOwn
<1>28. ASSUME NEW i \in Ids, Silence(i) PROVE LockIsOwn'
  BY <1>28 DEF Silence, rowVars, workVars, budgets, TypeOK, LockIsOwn
<1>29. ASSUME Outage PROVE LockIsOwn'
  BY <1>29 DEF Outage, rowVars, workVars, TypeOK, LockIsOwn
<1>. QED
  BY <1>1, <1>2, <1>3, <1>4, <1>5, <1>6, <1>7, <1>8, <1>9, <1>10, <1>11,
     <1>12, <1>13, <1>14, <1>15, <1>16, <1>17, <1>18, <1>19, <1>20, <1>21,
     <1>22, <1>23, <1>24, <1>25, <1>26, <1>27, <1>28, <1>29 DEF Next, Request,
     Failure, Time, Loop

\* Attempts are spent by claims alone, and whoever makes a job claimable again
\* has an attempt left or a crash to show for it.
BudgetInv == HoldInv /\ LockIsOwn /\ Affordable /\ AttemptsAreBounded

LEMMA BudgetStep ==
    ASSUME Isolated, BudgetInv, Next
    PROVE  Affordable' /\ AttemptsAreBounded'
<1>. USE IdsAssumption, BoundsAssumption
<1>1. ASSUME NEW d \in Docs, Upload(d) PROVE (Affordable /\ AttemptsAreBounded)'
  BY <1>1 DEF Upload, SetStatus, workVars, budgets, BudgetInv, HoldInv,
     TypeOK, RunningJobIsOwned, Beating, LockIsOwn, Affordable,
     AttemptsAreBounded, Isolated, Alive, Working, AtWork
<1>2. ASSUME NEW d \in Docs, Reprocess(d) PROVE (Affordable /\ AttemptsAreBounded)'
  BY <1>2 DEF Reprocess, SetStatus, Rows, workVars, BudgetInv, HoldInv,
     TypeOK, RunningJobIsOwned, Beating, LockIsOwn, Affordable,
     AttemptsAreBounded, Isolated, Alive, Working, AtWork
<1>3. ASSUME NEW d \in Docs, DeleteCheck(d) PROVE (Affordable /\ AttemptsAreBounded)'
  BY <1>3 DEF DeleteCheck, Processing, Rows, rowVars, workVars, budgets,
     BudgetInv, HoldInv, TypeOK, RunningJobIsOwned, Beating, LockIsOwn,
     Affordable, AttemptsAreBounded, Isolated, Alive, Working, AtWork
<1>4. ASSUME NEW d \in Docs, DeleteRows(d) PROVE (Affordable /\ AttemptsAreBounded)'
  BY <1>4 DEF DeleteRows, SetStatus, workVars, budgets, BudgetInv, HoldInv,
     TypeOK, RunningJobIsOwned, Beating, LockIsOwn, Affordable,
     AttemptsAreBounded, Isolated, Alive, Working, AtWork
<1>5. ASSUME NEW d \in Docs, RetryDue(d) PROVE (Affordable /\ AttemptsAreBounded)'
  BY <1>5 DEF RetryDue, workVars, budgets, BudgetInv, HoldInv, TypeOK,
     RunningJobIsOwned, Beating, LockIsOwn, Affordable, AttemptsAreBounded,
     Isolated, Alive, Working, AtWork
<1>6. ASSUME NEW d \in Docs, Age(d) PROVE (Affordable /\ AttemptsAreBounded)'
  BY <1>6 DEF Age, workVars, budgets, BudgetInv, HoldInv, TypeOK,
     RunningJobIsOwned, Beating, LockIsOwn, Affordable, AttemptsAreBounded,
     Isolated, Alive, Working, AtWork
<1>7. ASSUME NEW w \in Workers, Start(w) PROVE (Affordable /\ AttemptsAreBounded)'
  BY <1>7 DEF Start, GoTo, rowVars, budgets, BudgetInv, HoldInv, TypeOK,
     RunningJobIsOwned, Beating, LockIsOwn, Affordable, AttemptsAreBounded,
     Isolated, Alive, Working, AtWork
<1>8. ASSUME NEW w \in Workers, StartupRecovery(w) PROVE (Affordable /\ AttemptsAreBounded)'
  BY <1>8 DEF StartupRecovery, Requeue, GoTo, Touch, OfDeadOwners, OwnedBy,
     budgets, SetStatus, Processing, BudgetInv, HoldInv, TypeOK,
     RunningJobIsOwned, Beating, LockIsOwn, Affordable, AttemptsAreBounded,
     Isolated, Alive, Working, AtWork
<1>9. ASSUME NEW w \in Workers, StartupRecoveryFails(w) PROVE (Affordable /\ AttemptsAreBounded)'
  BY <1>9 DEF StartupRecoveryFails, GoTo, Touch, rowVars, BudgetInv, HoldInv,
     TypeOK, RunningJobIsOwned, Beating, LockIsOwn, Affordable,
     AttemptsAreBounded, Isolated, Alive, Working, AtWork
<1>10. ASSUME NEW w \in Workers, StillHeld(w) PROVE (Affordable /\ AttemptsAreBounded)'
  BY <1>10 DEF StillHeld, Advance, rowVars, budgets, BudgetInv, HoldInv,
     TypeOK, RunningJobIsOwned, Beating, LockIsOwn, Affordable,
     AttemptsAreBounded, Isolated, Alive, Working, AtWork
<1>11. ASSUME NEW w \in Workers, AssumeHeld(w) PROVE (Affordable /\ AttemptsAreBounded)'
  BY <1>11 DEF AssumeHeld, Advance, rowVars, BudgetInv, HoldInv, TypeOK,
     RunningJobIsOwned, Beating, LockIsOwn, Affordable, AttemptsAreBounded,
     Isolated, Alive, Working, AtWork
<1>12. ASSUME NEW w \in Workers, HeldElsewhere(w) PROVE (Affordable /\ AttemptsAreBounded)'
  BY <1>12 DEF HeldElsewhere, GoTo, rowVars, budgets, BudgetInv, HoldInv,
     TypeOK, RunningJobIsOwned, Beating, LockIsOwn, Affordable,
     AttemptsAreBounded, Isolated, Alive, Working, AtWork
<1>13. ASSUME NEW w \in Workers, Claim(w) PROVE (Affordable /\ AttemptsAreBounded)'
  BY <1>13 DEF Claim, SetStatus, Touch, Claimable, budgets, BudgetInv,
     HoldInv, TypeOK, RunningJobIsOwned, Beating, LockIsOwn, Affordable,
     AttemptsAreBounded, Isolated, Alive, Working, AtWork
<1>14. ASSUME NEW w \in Workers, NothingToClaim(w) PROVE (Affordable /\ AttemptsAreBounded)'
  BY <1>14 DEF NothingToClaim, Advance, Touch, Claimable, rowVars, budgets,
     BudgetInv, HoldInv, TypeOK, RunningJobIsOwned, Beating, LockIsOwn,
     Affordable, AttemptsAreBounded, Isolated, Alive, Working, AtWork
<1>15. ASSUME NEW w \in Workers, StaleSweep(w) PROVE (Affordable /\ AttemptsAreBounded)'
  BY <1>15 DEF StaleSweep, Advance, Processing, budgets, BudgetInv, HoldInv,
     TypeOK, RunningJobIsOwned, Beating, LockIsOwn, Affordable,
     AttemptsAreBounded, Isolated, Alive, Working, AtWork
<1>16. ASSUME NEW w \in Workers, SweepNotDue(w) PROVE (Affordable /\ AttemptsAreBounded)'
  BY <1>16 DEF SweepNotDue, Advance, rowVars, budgets, BudgetInv, HoldInv,
     TypeOK, RunningJobIsOwned, Beating, LockIsOwn, Affordable,
     AttemptsAreBounded, Isolated, Alive, Working, AtWork
<1>17. ASSUME NEW w \in Workers, RecoverOrphans(w) PROVE (Affordable /\ AttemptsAreBounded)'
  BY <1>17 DEF RecoverOrphans, Requeue, Advance, OfDeadOwners, budgets,
     SetStatus, Processing, BudgetInv, HoldInv, TypeOK, RunningJobIsOwned,
     Beating, LockIsOwn, Affordable, AttemptsAreBounded, Isolated, Alive,
     Working, AtWork
<1>18. ASSUME NEW w \in Workers, RecoveryNotDue(w) PROVE (Affordable /\ AttemptsAreBounded)'
  BY <1>18 DEF RecoveryNotDue, Advance, rowVars, budgets, BudgetInv, HoldInv,
     TypeOK, RunningJobIsOwned, Beating, LockIsOwn, Affordable,
     AttemptsAreBounded, Isolated, Alive, Working, AtWork
<1>19. ASSUME NEW w \in Workers, ReadDocument(w) PROVE (Affordable /\ AttemptsAreBounded)'
  BY <1>19 DEF ReadDocument, Advance, Report, Rows, budgets, Touch, BudgetInv,
     HoldInv, TypeOK, RunningJobIsOwned, Beating, LockIsOwn, Affordable,
     AttemptsAreBounded, Isolated, Alive, Working, AtWork
<1>20. ASSUME NEW w \in Workers, Prepare(w) PROVE (Affordable /\ AttemptsAreBounded)'
  BY <1>20 DEF Prepare, Advance, Report, budgets, Touch, BudgetInv, HoldInv,
     TypeOK, RunningJobIsOwned, Beating, LockIsOwn, Affordable,
     AttemptsAreBounded, Isolated, Alive, Working, AtWork
<1>21. ASSUME NEW w \in Workers, Store(w) PROVE (Affordable /\ AttemptsAreBounded)'
  BY <1>21 DEF Store, Advance, Report, Rows, budgets, Touch, BudgetInv,
     HoldInv, TypeOK, RunningJobIsOwned, Beating, LockIsOwn, Affordable,
     AttemptsAreBounded, Isolated, Alive, Working, AtWork
<1>22. ASSUME NEW w \in Workers, AttemptRaises(w) PROVE (Affordable /\ AttemptsAreBounded)'
  BY <1>22 DEF AttemptRaises, Advance, rowVars, budgets, BudgetInv, HoldInv,
     TypeOK, RunningJobIsOwned, Beating, LockIsOwn, Affordable,
     AttemptsAreBounded, Isolated, Alive, Working, AtWork
<1>23. ASSUME NEW w \in Workers, Finish(w) PROVE (Affordable /\ AttemptsAreBounded)'
  BY <1>23 DEF Finish, SetStatus, GoTo, Touch, Rows, budgets, BudgetInv,
     HoldInv, TypeOK, RunningJobIsOwned, Beating, LockIsOwn, Affordable,
     AttemptsAreBounded, Isolated, Alive, Working, AtWork
<1>24. ASSUME NEW w \in Workers, FailJob(w) PROVE (Affordable /\ AttemptsAreBounded)'
  BY <1>24 DEF FailJob, SetStatus, GoTo, Touch, Rows, Retry, budgets,
     BudgetInv, HoldInv, TypeOK, RunningJobIsOwned, Beating, LockIsOwn,
     Affordable, AttemptsAreBounded, Isolated, Alive, Working, AtWork
<1>25. ASSUME NEW w \in Workers, FailJobLost(w) PROVE (Affordable /\ AttemptsAreBounded)'
  BY <1>25 DEF FailJobLost, GoTo, Touch, rowVars, BudgetInv, HoldInv, TypeOK,
     RunningJobIsOwned, Beating, LockIsOwn, Affordable, AttemptsAreBounded,
     Isolated, Alive, Working, AtWork
<1>26. ASSUME NEW w \in Workers, Crash(w) PROVE (Affordable /\ AttemptsAreBounded)'
  BY <1>26 DEF Crash, GoTo, rowVars, BudgetInv, HoldInv, TypeOK,
     RunningJobIsOwned, Beating, LockIsOwn, Affordable, AttemptsAreBounded,
     Isolated, Alive, Working, AtWork
<1>27. ASSUME NEW w \in Workers, Beat(w) PROVE (Affordable /\ AttemptsAreBounded)'
  BY <1>27 DEF Beat, Touch, rowVars, workVars, budgets, BudgetInv, HoldInv,
     TypeOK, RunningJobIsOwned, Beating, LockIsOwn, Affordable,
     AttemptsAreBounded, Isolated, Alive, Working, AtWork
<1>28. ASSUME NEW i \in Ids, Silence(i) PROVE (Affordable /\ AttemptsAreBounded)'
  BY <1>28 DEF Silence, rowVars, workVars, budgets, BudgetInv, HoldInv,
     TypeOK, RunningJobIsOwned, Beating, LockIsOwn, Affordable,
     AttemptsAreBounded, Isolated, Alive, Working, AtWork
<1>29. ASSUME Outage PROVE (Affordable /\ AttemptsAreBounded)'
  BY <1>29 DEF Outage, rowVars, workVars, BudgetInv, HoldInv, TypeOK,
     RunningJobIsOwned, Beating, LockIsOwn, Affordable, AttemptsAreBounded,
     Isolated, Alive, Working, AtWork
<1>. QED
  BY <1>1, <1>2, <1>3, <1>4, <1>5, <1>6, <1>7, <1>8, <1>9, <1>10, <1>11,
     <1>12, <1>13, <1>14, <1>15, <1>16, <1>17, <1>18, <1>19, <1>20, <1>21,
     <1>22, <1>23, <1>24, <1>25, <1>26, <1>27, <1>28, <1>29 DEF Next, Request,
     Failure, Time, Loop

ContentInv == TypeOK /\ ContentFollowsDocument /\ IndexedIsStored

LEMMA ContentStep ==
    ASSUME ContentInv, Next
    PROVE  ContentFollowsDocument' /\ IndexedIsStored'
<1>1. ASSUME NEW d \in Docs, Upload(d) PROVE (ContentFollowsDocument /\ IndexedIsStored)'
  BY <1>1 DEF Upload, SetStatus, workVars, budgets, ContentInv, TypeOK,
     ContentFollowsDocument, IndexedIsStored, Rows, Working, AtWork
<1>2. ASSUME NEW d \in Docs, Reprocess(d) PROVE (ContentFollowsDocument /\ IndexedIsStored)'
  BY <1>2 DEF Reprocess, SetStatus, Rows, workVars, ContentInv, TypeOK,
     ContentFollowsDocument, IndexedIsStored, Working, AtWork
<1>3. ASSUME NEW d \in Docs, DeleteCheck(d) PROVE (ContentFollowsDocument /\ IndexedIsStored)'
  BY <1>3 DEF DeleteCheck, Processing, Rows, rowVars, workVars, budgets,
     ContentInv, TypeOK, ContentFollowsDocument, IndexedIsStored, Working,
     AtWork
<1>4. ASSUME NEW d \in Docs, DeleteRows(d) PROVE (ContentFollowsDocument /\ IndexedIsStored)'
  BY <1>4 DEF DeleteRows, SetStatus, workVars, budgets, ContentInv, TypeOK,
     ContentFollowsDocument, IndexedIsStored, Rows, Working, AtWork
<1>5. ASSUME NEW d \in Docs, RetryDue(d) PROVE (ContentFollowsDocument /\ IndexedIsStored)'
  BY <1>5 DEF RetryDue, workVars, budgets, ContentInv, TypeOK,
     ContentFollowsDocument, IndexedIsStored, Rows, Working, AtWork
<1>6. ASSUME NEW d \in Docs, Age(d) PROVE (ContentFollowsDocument /\ IndexedIsStored)'
  BY <1>6 DEF Age, workVars, budgets, ContentInv, TypeOK,
     ContentFollowsDocument, IndexedIsStored, Rows, Working, AtWork
<1>7. ASSUME NEW w \in Workers, Start(w) PROVE (ContentFollowsDocument /\ IndexedIsStored)'
  BY <1>7 DEF Start, GoTo, rowVars, budgets, ContentInv, TypeOK,
     ContentFollowsDocument, IndexedIsStored, Rows, Working, AtWork
<1>8. ASSUME NEW w \in Workers, StartupRecovery(w) PROVE (ContentFollowsDocument /\ IndexedIsStored)'
  BY <1>8 DEF StartupRecovery, Requeue, GoTo, Touch, OfDeadOwners, OwnedBy,
     budgets, SetStatus, Processing, ContentInv, TypeOK,
     ContentFollowsDocument, IndexedIsStored, Rows, Working, AtWork
<1>9. ASSUME NEW w \in Workers, StartupRecoveryFails(w) PROVE (ContentFollowsDocument /\ IndexedIsStored)'
  BY <1>9 DEF StartupRecoveryFails, GoTo, Touch, rowVars, ContentInv, TypeOK,
     ContentFollowsDocument, IndexedIsStored, Rows, Working, AtWork
<1>10. ASSUME NEW w \in Workers, StillHeld(w) PROVE (ContentFollowsDocument /\ IndexedIsStored)'
  BY <1>10 DEF StillHeld, Advance, rowVars, budgets, ContentInv, TypeOK,
     ContentFollowsDocument, IndexedIsStored, Rows, Working, AtWork
<1>11. ASSUME NEW w \in Workers, AssumeHeld(w) PROVE (ContentFollowsDocument /\ IndexedIsStored)'
  BY <1>11 DEF AssumeHeld, Advance, rowVars, ContentInv, TypeOK,
     ContentFollowsDocument, IndexedIsStored, Rows, Working, AtWork
<1>12. ASSUME NEW w \in Workers, HeldElsewhere(w) PROVE (ContentFollowsDocument /\ IndexedIsStored)'
  BY <1>12 DEF HeldElsewhere, GoTo, rowVars, budgets, ContentInv, TypeOK,
     ContentFollowsDocument, IndexedIsStored, Rows, Working, AtWork
<1>13. ASSUME NEW w \in Workers, Claim(w) PROVE (ContentFollowsDocument /\ IndexedIsStored)'
  BY <1>13 DEF Claim, SetStatus, Touch, Claimable, budgets, ContentInv,
     TypeOK, ContentFollowsDocument, IndexedIsStored, Rows, Working, AtWork
<1>14. ASSUME NEW w \in Workers, NothingToClaim(w) PROVE (ContentFollowsDocument /\ IndexedIsStored)'
  BY <1>14 DEF NothingToClaim, Advance, Touch, Claimable, rowVars, budgets,
     ContentInv, TypeOK, ContentFollowsDocument, IndexedIsStored, Rows,
     Working, AtWork
<1>15. ASSUME NEW w \in Workers, StaleSweep(w) PROVE (ContentFollowsDocument /\ IndexedIsStored)'
  BY <1>15 DEF StaleSweep, Advance, Processing, budgets, ContentInv, TypeOK,
     ContentFollowsDocument, IndexedIsStored, Rows, Working, AtWork
<1>16. ASSUME NEW w \in Workers, SweepNotDue(w) PROVE (ContentFollowsDocument /\ IndexedIsStored)'
  BY <1>16 DEF SweepNotDue, Advance, rowVars, budgets, ContentInv, TypeOK,
     ContentFollowsDocument, IndexedIsStored, Rows, Working, AtWork
<1>17. ASSUME NEW w \in Workers, RecoverOrphans(w) PROVE (ContentFollowsDocument /\ IndexedIsStored)'
  BY <1>17 DEF RecoverOrphans, Requeue, Advance, OfDeadOwners, budgets,
     SetStatus, Processing, ContentInv, TypeOK, ContentFollowsDocument,
     IndexedIsStored, Rows, Working, AtWork
<1>18. ASSUME NEW w \in Workers, RecoveryNotDue(w) PROVE (ContentFollowsDocument /\ IndexedIsStored)'
  BY <1>18 DEF RecoveryNotDue, Advance, rowVars, budgets, ContentInv, TypeOK,
     ContentFollowsDocument, IndexedIsStored, Rows, Working, AtWork
<1>19. ASSUME NEW w \in Workers, ReadDocument(w) PROVE (ContentFollowsDocument /\ IndexedIsStored)'
  BY <1>19 DEF ReadDocument, Advance, Report, Rows, budgets, Touch,
     ContentInv, TypeOK, ContentFollowsDocument, IndexedIsStored, Working,
     AtWork
<1>20. ASSUME NEW w \in Workers, Prepare(w) PROVE (ContentFollowsDocument /\ IndexedIsStored)'
  BY <1>20 DEF Prepare, Advance, Report, budgets, Touch, ContentInv, TypeOK,
     ContentFollowsDocument, IndexedIsStored, Rows, Working, AtWork
<1>21. ASSUME NEW w \in Workers, Store(w) PROVE (ContentFollowsDocument /\ IndexedIsStored)'
  BY <1>21 DEF Store, Advance, Report, Rows, budgets, Touch, ContentInv,
     TypeOK, ContentFollowsDocument, IndexedIsStored, Working, AtWork
<1>22. ASSUME NEW w \in Workers, AttemptRaises(w) PROVE (ContentFollowsDocument /\ IndexedIsStored)'
  BY <1>22 DEF AttemptRaises, Advance, rowVars, budgets, ContentInv, TypeOK,
     ContentFollowsDocument, IndexedIsStored, Rows, Working, AtWork
<1>23. ASSUME NEW w \in Workers, Finish(w) PROVE (ContentFollowsDocument /\ IndexedIsStored)'
  BY <1>23 DEF Finish, SetStatus, GoTo, Touch, Rows, budgets, ContentInv,
     TypeOK, ContentFollowsDocument, IndexedIsStored, Working, AtWork
<1>24. ASSUME NEW w \in Workers, FailJob(w) PROVE (ContentFollowsDocument /\ IndexedIsStored)'
  BY <1>24 DEF FailJob, SetStatus, GoTo, Touch, Rows, Retry, budgets,
     ContentInv, TypeOK, ContentFollowsDocument, IndexedIsStored, Working,
     AtWork
<1>25. ASSUME NEW w \in Workers, FailJobLost(w) PROVE (ContentFollowsDocument /\ IndexedIsStored)'
  BY <1>25 DEF FailJobLost, GoTo, Touch, rowVars, ContentInv, TypeOK,
     ContentFollowsDocument, IndexedIsStored, Rows, Working, AtWork
<1>26. ASSUME NEW w \in Workers, Crash(w) PROVE (ContentFollowsDocument /\ IndexedIsStored)'
  BY <1>26 DEF Crash, GoTo, rowVars, ContentInv, TypeOK,
     ContentFollowsDocument, IndexedIsStored, Rows, Working, AtWork
<1>27. ASSUME NEW w \in Workers, Beat(w) PROVE (ContentFollowsDocument /\ IndexedIsStored)'
  BY <1>27 DEF Beat, Touch, rowVars, workVars, budgets, ContentInv, TypeOK,
     ContentFollowsDocument, IndexedIsStored, Rows, Working, AtWork
<1>28. ASSUME NEW i \in Ids, Silence(i) PROVE (ContentFollowsDocument /\ IndexedIsStored)'
  BY <1>28 DEF Silence, rowVars, workVars, budgets, ContentInv, TypeOK,
     ContentFollowsDocument, IndexedIsStored, Rows, Working, AtWork
<1>29. ASSUME Outage PROVE (ContentFollowsDocument /\ IndexedIsStored)'
  BY <1>29 DEF Outage, rowVars, workVars, ContentInv, TypeOK,
     ContentFollowsDocument, IndexedIsStored, Rows, Working, AtWork
<1>. QED
  BY <1>1, <1>2, <1>3, <1>4, <1>5, <1>6, <1>7, <1>8, <1>9, <1>10, <1>11,
     <1>12, <1>13, <1>14, <1>15, <1>16, <1>17, <1>18, <1>19, <1>20, <1>21,
     <1>22, <1>23, <1>24, <1>25, <1>26, <1>27, <1>28, <1>29 DEF Next, Request,
     Failure, Time, Loop
-----------------------------------------------------------------------------
(* The queue implements DocumentLifecycle *)

LifeInv == HoldInv /\ DoomedExist

LEMMA DoomedStep ==
    ASSUME TypeOK, DoomedExist, Next
    PROVE  DoomedExist'
<1>1. ASSUME NEW d \in Docs, Upload(d) PROVE DoomedExist'
  BY <1>1 DEF Upload, SetStatus, workVars, budgets, TypeOK, DoomedExist
<1>2. ASSUME NEW d \in Docs, Reprocess(d) PROVE DoomedExist'
  BY <1>2 DEF Reprocess, SetStatus, Rows, workVars, TypeOK, DoomedExist
<1>3. ASSUME NEW d \in Docs, DeleteCheck(d) PROVE DoomedExist'
  BY <1>3 DEF DeleteCheck, Processing, Rows, rowVars, workVars, budgets,
     TypeOK, DoomedExist
<1>4. ASSUME NEW d \in Docs, DeleteRows(d) PROVE DoomedExist'
  BY <1>4 DEF DeleteRows, SetStatus, workVars, budgets, TypeOK, DoomedExist
<1>5. ASSUME NEW d \in Docs, RetryDue(d) PROVE DoomedExist'
  BY <1>5 DEF RetryDue, workVars, budgets, TypeOK, DoomedExist
<1>6. ASSUME NEW d \in Docs, Age(d) PROVE DoomedExist'
  BY <1>6 DEF Age, workVars, budgets, TypeOK, DoomedExist
<1>7. ASSUME NEW w \in Workers, Start(w) PROVE DoomedExist'
  BY <1>7 DEF Start, GoTo, rowVars, budgets, TypeOK, DoomedExist
<1>8. ASSUME NEW w \in Workers, StartupRecovery(w) PROVE DoomedExist'
  BY <1>8 DEF StartupRecovery, Requeue, GoTo, Touch, OfDeadOwners, OwnedBy,
     budgets, SetStatus, Processing, TypeOK, DoomedExist
<1>9. ASSUME NEW w \in Workers, StartupRecoveryFails(w) PROVE DoomedExist'
  BY <1>9 DEF StartupRecoveryFails, GoTo, Touch, rowVars, TypeOK, DoomedExist
<1>10. ASSUME NEW w \in Workers, StillHeld(w) PROVE DoomedExist'
  BY <1>10 DEF StillHeld, Advance, rowVars, budgets, TypeOK, DoomedExist
<1>11. ASSUME NEW w \in Workers, AssumeHeld(w) PROVE DoomedExist'
  BY <1>11 DEF AssumeHeld, Advance, rowVars, TypeOK, DoomedExist
<1>12. ASSUME NEW w \in Workers, HeldElsewhere(w) PROVE DoomedExist'
  BY <1>12 DEF HeldElsewhere, GoTo, rowVars, budgets, TypeOK, DoomedExist
<1>13. ASSUME NEW w \in Workers, Claim(w) PROVE DoomedExist'
  BY <1>13 DEF Claim, SetStatus, Touch, Claimable, budgets, TypeOK,
     DoomedExist
<1>14. ASSUME NEW w \in Workers, NothingToClaim(w) PROVE DoomedExist'
  BY <1>14 DEF NothingToClaim, Advance, Touch, Claimable, rowVars, budgets,
     TypeOK, DoomedExist
<1>15. ASSUME NEW w \in Workers, StaleSweep(w) PROVE DoomedExist'
  BY <1>15 DEF StaleSweep, Advance, Processing, budgets, TypeOK, DoomedExist
<1>16. ASSUME NEW w \in Workers, SweepNotDue(w) PROVE DoomedExist'
  BY <1>16 DEF SweepNotDue, Advance, rowVars, budgets, TypeOK, DoomedExist
<1>17. ASSUME NEW w \in Workers, RecoverOrphans(w) PROVE DoomedExist'
  BY <1>17 DEF RecoverOrphans, Requeue, Advance, OfDeadOwners, budgets,
     SetStatus, Processing, TypeOK, DoomedExist
<1>18. ASSUME NEW w \in Workers, RecoveryNotDue(w) PROVE DoomedExist'
  BY <1>18 DEF RecoveryNotDue, Advance, rowVars, budgets, TypeOK, DoomedExist
<1>19. ASSUME NEW w \in Workers, ReadDocument(w) PROVE DoomedExist'
  BY <1>19 DEF ReadDocument, Advance, Report, Rows, budgets, Touch, TypeOK,
     DoomedExist
<1>20. ASSUME NEW w \in Workers, Prepare(w) PROVE DoomedExist'
  BY <1>20 DEF Prepare, Advance, Report, budgets, Touch, TypeOK, DoomedExist
<1>21. ASSUME NEW w \in Workers, Store(w) PROVE DoomedExist'
  BY <1>21 DEF Store, Advance, Report, Rows, budgets, Touch, TypeOK,
     DoomedExist
<1>22. ASSUME NEW w \in Workers, AttemptRaises(w) PROVE DoomedExist'
  BY <1>22 DEF AttemptRaises, Advance, rowVars, budgets, TypeOK, DoomedExist
<1>23. ASSUME NEW w \in Workers, Finish(w) PROVE DoomedExist'
  BY <1>23 DEF Finish, SetStatus, GoTo, Touch, Rows, budgets, TypeOK,
     DoomedExist
<1>24. ASSUME NEW w \in Workers, FailJob(w) PROVE DoomedExist'
  BY <1>24 DEF FailJob, SetStatus, GoTo, Touch, Rows, Retry, budgets, TypeOK,
     DoomedExist
<1>25. ASSUME NEW w \in Workers, FailJobLost(w) PROVE DoomedExist'
  BY <1>25 DEF FailJobLost, GoTo, Touch, rowVars, TypeOK, DoomedExist
<1>26. ASSUME NEW w \in Workers, Crash(w) PROVE DoomedExist'
  BY <1>26 DEF Crash, GoTo, rowVars, TypeOK, DoomedExist
<1>27. ASSUME NEW w \in Workers, Beat(w) PROVE DoomedExist'
  BY <1>27 DEF Beat, Touch, rowVars, workVars, budgets, TypeOK, DoomedExist
<1>28. ASSUME NEW i \in Ids, Silence(i) PROVE DoomedExist'
  BY <1>28 DEF Silence, rowVars, workVars, budgets, TypeOK, DoomedExist
<1>29. ASSUME Outage PROVE DoomedExist'
  BY <1>29 DEF Outage, rowVars, workVars, TypeOK, DoomedExist
<1>. QED
  BY <1>1, <1>2, <1>3, <1>4, <1>5, <1>6, <1>7, <1>8, <1>9, <1>10, <1>11,
     <1>12, <1>13, <1>14, <1>15, <1>16, <1>17, <1>18, <1>19, <1>20, <1>21,
     <1>22, <1>23, <1>24, <1>25, <1>26, <1>27, <1>28, <1>29 DEF Next, Request,
     Failure, Time, Loop

\* Who holds a document is who works on it, and no other.
LEMMA HolderWorks ==
    ASSUME HoldInv, NEW d \in Docs, NEW w \in Workers,
           status[d] = "processing", WorksOn(w, d)
    PROVE  Holder[d] = w
BY DEF HoldInv, OneWorkerPerDocument, Holder, WorksOn

LEMMA HolderWorksNext ==
    ASSUME HoldInv', NEW d \in Docs, NEW w \in Workers,
           status'[d] = "processing", WorksOn(w, d)'
    PROVE  Holder'[d] = w
BY DEF HoldInv, OneWorkerPerDocument, Holder, WorksOn

\* A document keeps its holder when its worker stays with it.
LEMMA HolderStays ==
    ASSUME HoldInv, HoldInv', NEW d \in Docs,
           status'[d] = "processing" <=> status[d] = "processing",
           status[d] = "processing" =>
               \A w \in Workers : WorksOn(w, d)' <=> WorksOn(w, d)
    PROVE  Holder'[d] = Holder[d]
<1>1. CASE status[d] = "processing" /\ \E w \in Workers : WorksOn(w, d)
  <2>1. PICK w \in Workers : WorksOn(w, d)
    BY <1>1
  <2>2. Holder[d] = w
    BY <1>1, <2>1, HolderWorks
  <2>3. Holder'[d] = w
    BY <1>1, <2>1, HolderWorksNext
  <2>. QED
    BY <2>2, <2>3
<1>2. CASE ~(status[d] = "processing" /\ \E w \in Workers : WorksOn(w, d))
  BY <1>2 DEF Holder
<1>. QED
  BY <1>1, <1>2

\* A step that moves no row and no worker's hold on a job is not seen.
LEMMA Unseen ==
    ASSUME HoldInv, HoldInv', UNCHANGED status,
           \A d \in Docs, w \in Workers :
               status[d] = "processing" => (WorksOn(w, d)' <=> WorksOn(w, d))
    PROVE  UNCHANGED Lifecycle!vars
<1>1. \A d \in Docs : Holder'[d] = Holder[d]
  BY HolderStays
<1>2. Holder' = Holder
  BY <1>1 DEF Holder
<1>. QED
  BY <1>2 DEF Phase, Lifecycle!vars

\* A worker that lets go of its job, whatever it writes to the row: the run is
\* settled, or abandoned when nothing is written, or the rows are gone.
LEMMA LetsGo ==
    ASSUME HoldInv, HoldInv', NEW w \in Workers, Working(w),
           NEW s \in {"queued", "processing", "completed", "failed"},
           status' = [d \in Docs |-> IF d \in {doc[w]} \cap Rows THEN s
                                     ELSE status[d]],
           ~Working(w)',
           \A v \in Workers \ {w} : pc'[v] = pc[v] /\ doc'[v] = doc[v]
    PROVE  [Lifecycle!Next]_(Lifecycle!vars)
<1>1. PICK d \in Docs : d = doc[w]
  BY DEF HoldInv, TypeOK
<1>2. CASE status[d] = "deleted"
  <2>1. UNCHANGED status
    BY <1>1, <1>2 DEF HoldInv, TypeOK, Rows
  <2>2. \A e \in Docs, v \in Workers :
            status[e] = "processing" => (WorksOn(v, e)' <=> WorksOn(v, e))
    BY <1>1, <1>2 DEF WorksOn, Working
  <2>. QED
    BY <2>1, <2>2, Unseen
<1>3. CASE status[d] = "processing"
  <2>1. /\ status'[d] = s
        /\ \A e \in Docs \ {d} : status'[e] = status[e]
    BY <1>1, <1>3 DEF Rows
  <2>2. Holder[d] = w /\ w # Nobody
    BY <1>1, <1>3, HolderWorks, IdsAssumption DEF WorksOn
  <2>3. \A v \in Workers : ~WorksOn(v, d)'
    BY <1>1 DEF HoldInv, OneWorkerPerDocument, WorksOn, Working
  <2>4. Holder'[d] = Nobody
    BY <1>1, <2>3 DEF Holder
  <2>5. \A e \in Docs \ {d} : Holder'[e] = Holder[e]
    <3>1. ASSUME NEW e \in Docs \ {d} PROVE Holder'[e] = Holder[e]
      <4>1. \A v \in Workers : WorksOn(v, e)' <=> WorksOn(v, e)
        BY <1>1 DEF WorksOn, Working
      <4>. QED
        BY <2>1, <4>1, HolderStays
    <3>. QED
      BY <3>1
  <2>6. Holder' = [Holder EXCEPT ![d] = Nobody]
    BY <1>1, <2>4, <2>5 DEF Holder
  <2>7. Phase' = [Phase EXCEPT ![d] = PhaseOf(s)]
    BY <1>1, <2>1 DEF Phase
  <2>8. CASE s = "processing"
    <3>1. Lifecycle!Abandon(d)
      BY <1>1, <1>3, <2>2, <2>6, <2>7, <2>8
      DEF Lifecycle!Abandon, Lifecycle!Move, Phase
    <3>. QED
      BY <1>1, <3>1 DEF Lifecycle!Next
  <2>9. CASE s # "processing"
    <3>1. PhaseOf(s) \in {"waiting", "done", "failed"}
      BY <2>9 DEF PhaseOf
    <3>2. Lifecycle!Settle(d, PhaseOf(s))
      BY <2>2, <2>6, <2>7 DEF Lifecycle!Settle, Lifecycle!Move
    <3>. QED
      BY <1>1, <3>1, <3>2 DEF Lifecycle!Next
  <2>. QED
    BY <2>8, <2>9
<1>. QED
  BY <1>1, <1>2, <1>3 DEF HoldInv, RunningJobIsOwned

\* A worker that lets go of its job and writes nothing.
LEMMA Abandons ==
    ASSUME HoldInv, HoldInv', NEW w \in Workers, Working(w), ~Working(w)',
           UNCHANGED status,
           \A v \in Workers \ {w} : pc'[v] = pc[v] /\ doc'[v] = doc[v]
    PROVE  [Lifecycle!Next]_(Lifecycle!vars)
<1>1. doc[w] \in Docs
  BY DEF HoldInv, TypeOK
<1>2. CASE status[doc[w]] = "processing"
  <2>1. status' = [d \in Docs |-> IF d \in {doc[w]} \cap Rows THEN "processing"
                                 ELSE status[d]]
    BY <1>1, <1>2 DEF HoldInv, TypeOK
  <2>. QED
    BY <2>1, LetsGo
<1>3. CASE status[doc[w]] = "deleted"
  <2>1. status' = [d \in Docs |-> IF d \in {doc[w]} \cap Rows THEN "queued"
                                 ELSE status[d]]
    BY <1>1, <1>3 DEF HoldInv, TypeOK, Rows
  <2>. QED
    BY <2>1, LetsGo
<1>. QED
  BY <1>2, <1>3 DEF HoldInv, RunningJobIsOwned

\* Rows that nobody works on, taken out of processing by a sweep.
LEMMA Sweeps ==
    ASSUME HoldInv, HoldInv',
           \A w \in Workers : /\ Working(w)' <=> Working(w)
                              /\ Working(w) => doc'[w] = doc[w],
           NEW S \in SUBSET Processing, NEW F \in SUBSET S,
           \A w \in Workers : Working(w) => doc[w] \notin S,
           status' = [d \in Docs |-> IF d \in F THEN "failed"
                                     ELSE IF d \in S THEN "queued"
                                     ELSE status[d]]
    PROVE  [Lifecycle!Next]_(Lifecycle!vars)
<1>1. \A d \in Docs : Holder'[d] = Holder[d]
  <2>1. ASSUME NEW d \in Docs, d \in S PROVE Holder'[d] = Holder[d]
    BY <2>1 DEF Holder, WorksOn
  <2>2. ASSUME NEW d \in Docs, d \notin S PROVE Holder'[d] = Holder[d]
    <3>1. status'[d] = status[d]
      BY <2>2
    <3>2. ASSUME NEW w \in Workers PROVE WorksOn(w, d)' <=> WorksOn(w, d)
      BY DEF WorksOn
    <3>. QED
      BY <3>1, <3>2, HolderStays
  <2>. QED
    BY <2>1, <2>2
<1>2. Holder' = Holder
  BY <1>1 DEF Holder
<1>3. S \subseteq {d \in Docs : Phase[d] = "running" /\ Holder[d] = Nobody}
  BY DEF Phase, PhaseOf, Holder, Processing, WorksOn
<1>4. Phase' = [d \in Docs |-> IF d \in F THEN "failed"
                               ELSE IF d \in S THEN "waiting"
                               ELSE Phase[d]]
  <2>1. PhaseOf("failed") = "failed" /\ PhaseOf("queued") = "waiting"
    BY DEF PhaseOf
  <2>2. ASSUME NEW d \in Docs
        PROVE  Phase'[d] = IF d \in F THEN "failed"
                           ELSE IF d \in S THEN "waiting"
                           ELSE Phase[d]
    BY <2>1 DEF Phase
  <2>. QED
    BY <2>2 DEF Phase
<1>5. Lifecycle!Reclaim
  BY <1>2, <1>3, <1>4 DEF Lifecycle!Reclaim
<1>. QED
  BY <1>5 DEF Lifecycle!Next

\* Every step of the queue is a step of DocumentLifecycle, or is not seen.
LEMMA LifeStep ==
    ASSUME Isolated, LifeInv, HoldInv', Next
    PROVE  [Lifecycle!Next]_(Lifecycle!vars)
<1>1. ASSUME NEW d \in Docs, Upload(d) PROVE [Lifecycle!Next]_(Lifecycle!vars)
  <2>1. status[d] = "none" /\ status' = [status EXCEPT ![d] = "queued"]
    BY <1>1 DEF Upload, SetStatus, HoldInv, LifeInv, TypeOK
  <2>2. \A e \in Docs : Holder'[e] = Holder[e]
    BY <1>1, <2>1, HolderStays DEF Upload, workVars, WorksOn, Working, LifeInv,
       HoldInv, TypeOK
  <2>3. Holder' = [Holder EXCEPT ![d] = Nobody]
    BY <2>1, <2>2 DEF Holder
  <2>4. Phase' = [Phase EXCEPT ![d] = "waiting"] /\ Phase[d] = "new"
    <3>1. PhaseOf("queued") = "waiting" /\ PhaseOf("none") = "new"
      BY DEF PhaseOf
    <3>. QED
      BY <2>1, <3>1 DEF Phase, LifeInv, HoldInv, TypeOK
  <2>. QED
    BY <2>3, <2>4 DEF Lifecycle!Next, Lifecycle!Submit, Lifecycle!Move
<1>2. ASSUME NEW d \in Docs, Reprocess(d) PROVE [Lifecycle!Next]_(Lifecycle!vars)
  BY <1>2 DEF Reprocess, SetStatus, Rows, workVars, Isolated, LifeInv,
     HoldInv, TypeOK
<1>3. ASSUME NEW d \in Docs, DeleteCheck(d) PROVE [Lifecycle!Next]_(Lifecycle!vars)
  BY <1>3, Unseen DEF DeleteCheck, Processing, Rows, rowVars, workVars,
     budgets, WorksOn, Working, AtWork, LifeInv, HoldInv, TypeOK
<1>4. ASSUME NEW d \in Docs, DeleteRows(d) PROVE [Lifecycle!Next]_(Lifecycle!vars)
  <2>1. /\ d \in Docs /\ status[d] # "none"
        /\ status' = [status EXCEPT ![d] = "deleted"]
    BY <1>4 DEF DeleteRows, SetStatus, LifeInv, DoomedExist, HoldInv, TypeOK
  <2>2. \A e \in Docs \ {d} : Holder'[e] = Holder[e]
    BY <1>4, <2>1, HolderStays DEF DeleteRows, workVars, WorksOn, Working,
       LifeInv, HoldInv, TypeOK
  <2>3. Holder' = [Holder EXCEPT ![d] = Nobody]
    BY <2>1, <2>2 DEF Holder, LifeInv, HoldInv, TypeOK
  <2>4. Phase' = [Phase EXCEPT ![d] = "gone"] /\ Phase[d] # "new"
    BY <2>1 DEF Phase, PhaseOf, LifeInv, HoldInv, TypeOK, Statuses
  <2>. QED
    BY <2>1, <2>3, <2>4 DEF Lifecycle!Next, Lifecycle!Remove, Lifecycle!Move
<1>5. ASSUME NEW d \in Docs, RetryDue(d) PROVE [Lifecycle!Next]_(Lifecycle!vars)
  BY <1>5, Unseen DEF RetryDue, workVars, budgets, WorksOn, Working, AtWork,
     LifeInv, HoldInv, TypeOK
<1>6. ASSUME NEW d \in Docs, Age(d) PROVE [Lifecycle!Next]_(Lifecycle!vars)
  BY <1>6, Unseen DEF Age, workVars, budgets, WorksOn, Working, AtWork,
     LifeInv, HoldInv, TypeOK
<1>7. ASSUME NEW w \in Workers, Start(w) PROVE [Lifecycle!Next]_(Lifecycle!vars)
  BY <1>7, Unseen DEF Start, GoTo, rowVars, budgets, WorksOn, Working, AtWork,
     LifeInv, HoldInv, TypeOK
<1>8. ASSUME NEW w \in Workers, StartupRecovery(w) PROVE [Lifecycle!Next]_(Lifecycle!vars)
  <2>. DEFINE S == OfDeadOwners \cup OwnedBy(IdOf[w])
             F == {}
  <2>1. \A v \in Workers : Working(v) => doc[v] \notin S
    BY <1>8 DEF StartupRecovery, OfDeadOwners, OwnedBy, Processing, LifeInv,
       HoldInv, Beating, Alive, Working, AtWork, RunningJobIsOwned, Isolated
  <2>2. status' = [d \in Docs |-> IF d \in F THEN "failed"
                                 ELSE IF d \in S THEN "queued"
                                 ELSE status[d]]
    BY <1>8 DEF StartupRecovery, Requeue, SetStatus
  <2>3. \A v \in Workers : (Working(v)' <=> Working(v)) /\ ~Working(w)
    BY <1>8 DEF StartupRecovery, GoTo, Working, AtWork, LifeInv, HoldInv, TypeOK
  <2>4. S \in SUBSET Processing /\ F \in SUBSET S
    BY DEF OfDeadOwners, OwnedBy
  <2>5. \A v \in Workers : Working(v) => doc'[v] = doc[v]
    BY <1>8, <2>3 DEF StartupRecovery, GoTo
  <2>. HIDE DEF S, F
  <2>. QED
    BY <2>1, <2>2, <2>3, <2>4, <2>5, Sweeps DEF LifeInv
<1>9. ASSUME NEW w \in Workers, StartupRecoveryFails(w) PROVE [Lifecycle!Next]_(Lifecycle!vars)
  BY <1>9, Unseen DEF StartupRecoveryFails, GoTo, Touch, rowVars, WorksOn,
     Working, AtWork, LifeInv, HoldInv, TypeOK
<1>10. ASSUME NEW w \in Workers, StillHeld(w) PROVE [Lifecycle!Next]_(Lifecycle!vars)
  BY <1>10, Unseen DEF StillHeld, Advance, rowVars, budgets, WorksOn, Working,
     AtWork, LifeInv, HoldInv, TypeOK
<1>11. ASSUME NEW w \in Workers, AssumeHeld(w) PROVE [Lifecycle!Next]_(Lifecycle!vars)
  BY <1>11, Unseen DEF AssumeHeld, Advance, rowVars, WorksOn, Working, AtWork,
     LifeInv, HoldInv, TypeOK
<1>12. ASSUME NEW w \in Workers, HeldElsewhere(w) PROVE [Lifecycle!Next]_(Lifecycle!vars)
  BY <1>12, Unseen DEF HeldElsewhere, GoTo, rowVars, budgets, WorksOn, Working,
     AtWork, LifeInv, HoldInv, TypeOK
<1>13. ASSUME NEW w \in Workers, Claim(w) PROVE [Lifecycle!Next]_(Lifecycle!vars)
  <2>0. PICK d \in Claimable : /\ SetStatus({d}, "processing")
                              /\ pc' = [pc EXCEPT ![w] = "claimed"]
                              /\ doc' = [doc EXCEPT ![w] = d]
    BY <1>13 DEF Claim
  <2>1. /\ d \in Docs /\ status[d] = "queued"
        /\ status' = [status EXCEPT ![d] = "processing"]
        /\ pc' = [pc EXCEPT ![w] = "claimed"]
        /\ doc' = [doc EXCEPT ![w] = d]
        /\ ~Working(w)
    BY <1>13, <2>0 DEF Claim, Claimable, SetStatus, Working, AtWork, LifeInv,
       HoldInv, TypeOK
  <2>2. WorksOn(w, d)'
    BY <2>1 DEF WorksOn, Working, AtWork, LifeInv, HoldInv, TypeOK
  <2>3. Holder'[d] = w
    BY <2>1, <2>2, HolderWorksNext DEF LifeInv, HoldInv, TypeOK
  <2>4. ASSUME NEW e \in Docs \ {d} PROVE Holder'[e] = Holder[e]
    <3>1. status'[e] = status[e]
      BY <2>1 DEF LifeInv, HoldInv, TypeOK
    <3>2. \A v \in Workers : WorksOn(v, e)' <=> WorksOn(v, e)
      BY <2>1 DEF WorksOn, Working, LifeInv, HoldInv, TypeOK
    <3>. QED
      BY <3>1, <3>2, HolderStays DEF LifeInv
  <2>5. Holder' = [Holder EXCEPT ![d] = w]
    BY <2>3, <2>4 DEF Holder
  <2>6. Phase' = [Phase EXCEPT ![d] = "running"] /\ Phase[d] = "waiting"
    <3>1. PhaseOf("queued") = "waiting" /\ PhaseOf("processing") = "running"
      BY DEF PhaseOf
    <3>. QED
      BY <2>1, <3>1 DEF Phase, LifeInv, HoldInv, TypeOK
  <2>7. \A e \in Docs : Holder[e] # w
    <3>1. ASSUME NEW e \in Docs, Holder[e] = w PROVE FALSE
      <4>1. PICK v \in Workers : WorksOn(v, e) /\ status[e] = "processing"
        BY <3>1, IdsAssumption DEF Holder
      <4>2. Holder[e] = v
        BY <4>1, HolderWorks DEF LifeInv
      <4>. QED
        BY <2>1, <3>1, <4>1, <4>2 DEF WorksOn
    <3>. QED
      BY <3>1
  <2>8. Lifecycle!Take(d, w)
    BY <2>5, <2>6, <2>7 DEF Lifecycle!Take, Lifecycle!Move
  <2>. QED
    BY <2>1, <2>8 DEF Lifecycle!Next
<1>14. ASSUME NEW w \in Workers, NothingToClaim(w) PROVE [Lifecycle!Next]_(Lifecycle!vars)
  BY <1>14, Unseen DEF NothingToClaim, Advance, Touch, Claimable, rowVars,
     budgets, WorksOn, Working, AtWork, LifeInv, HoldInv, TypeOK
<1>15. ASSUME NEW w \in Workers, StaleSweep(w) PROVE [Lifecycle!Next]_(Lifecycle!vars)
  <2>. DEFINE S == old \cap Processing
             F == {d \in S : attempts[d] >= MaxAttempts}
  <2>1. \A v \in Workers : Working(v) => doc[v] \notin S
    BY DEF LifeInv, HoldInv, RunningIsRecent
  <2>2. status' = [d \in Docs |-> IF d \in F THEN "failed"
                                 ELSE IF d \in S THEN "queued"
                                 ELSE status[d]]
    BY <1>15 DEF StaleSweep
  <2>3. UNCHANGED doc /\ \A v \in Workers : Working(v)' <=> Working(v)
    BY <1>15 DEF StaleSweep, Advance, Working, AtWork, LifeInv, HoldInv, TypeOK
  <2>. QED
    BY <2>1, <2>2, <2>3, Sweeps DEF LifeInv
<1>16. ASSUME NEW w \in Workers, SweepNotDue(w) PROVE [Lifecycle!Next]_(Lifecycle!vars)
  BY <1>16, Unseen DEF SweepNotDue, Advance, rowVars, budgets, WorksOn,
     Working, AtWork, LifeInv, HoldInv, TypeOK
<1>17. ASSUME NEW w \in Workers, RecoverOrphans(w) PROVE [Lifecycle!Next]_(Lifecycle!vars)
  <2>. DEFINE S == OfDeadOwners
             F == {}
  <2>1. \A v \in Workers : Working(v) => doc[v] \notin S
    BY DEF OfDeadOwners, Processing, LifeInv, HoldInv, Beating, Alive, Working,
       AtWork, RunningJobIsOwned
  <2>2. status' = [d \in Docs |-> IF d \in F THEN "failed"
                                 ELSE IF d \in S THEN "queued"
                                 ELSE status[d]]
    BY <1>17 DEF RecoverOrphans, Requeue, SetStatus
  <2>3. UNCHANGED doc /\ \A v \in Workers : Working(v)' <=> Working(v)
    BY <1>17 DEF RecoverOrphans, Advance, Working, AtWork, LifeInv, HoldInv,
       TypeOK
  <2>4. S \in SUBSET Processing /\ F \in SUBSET S
    BY DEF OfDeadOwners
  <2>. HIDE DEF S, F
  <2>. QED
    BY <2>1, <2>2, <2>3, <2>4, Sweeps DEF LifeInv
<1>18. ASSUME NEW w \in Workers, RecoveryNotDue(w) PROVE [Lifecycle!Next]_(Lifecycle!vars)
  BY <1>18, Unseen DEF RecoveryNotDue, Advance, rowVars, budgets, WorksOn,
     Working, AtWork, LifeInv, HoldInv, TypeOK
<1>19. ASSUME NEW w \in Workers, ReadDocument(w) PROVE [Lifecycle!Next]_(Lifecycle!vars)
  BY <1>19, Unseen DEF ReadDocument, Advance, Report, Rows, budgets, Touch,
     WorksOn, Working, AtWork, LifeInv, HoldInv, TypeOK
<1>20. ASSUME NEW w \in Workers, Prepare(w) PROVE [Lifecycle!Next]_(Lifecycle!vars)
  BY <1>20, Unseen DEF Prepare, Advance, Report, budgets, Touch, WorksOn,
     Working, AtWork, LifeInv, HoldInv, TypeOK
<1>21. ASSUME NEW w \in Workers, Store(w) PROVE [Lifecycle!Next]_(Lifecycle!vars)
  BY <1>21, Unseen DEF Store, Advance, Report, Rows, budgets, Touch, WorksOn,
     Working, AtWork, LifeInv, HoldInv, TypeOK
<1>22. ASSUME NEW w \in Workers, AttemptRaises(w) PROVE [Lifecycle!Next]_(Lifecycle!vars)
  BY <1>22, Unseen DEF AttemptRaises, Advance, rowVars, budgets, WorksOn,
     Working, AtWork, LifeInv, HoldInv, TypeOK
<1>23. ASSUME NEW w \in Workers, Finish(w) PROVE [Lifecycle!Next]_(Lifecycle!vars)
  BY <1>23, LetsGo DEF Finish, SetStatus, GoTo, Touch, Rows, budgets, LifeInv,
     HoldInv, TypeOK, Working, AtWork
<1>24. ASSUME NEW w \in Workers, FailJob(w) PROVE [Lifecycle!Next]_(Lifecycle!vars)
  BY <1>24, LetsGo DEF FailJob, SetStatus, GoTo, Touch, Rows, Retry, budgets,
     LifeInv, HoldInv, TypeOK, Working, AtWork
<1>25. ASSUME NEW w \in Workers, FailJobLost(w) PROVE [Lifecycle!Next]_(Lifecycle!vars)
  BY <1>25, Abandons DEF FailJobLost, GoTo, Touch, rowVars, LifeInv, HoldInv,
     TypeOK, Working, AtWork
<1>26. ASSUME NEW w \in Workers, Crash(w) PROVE [Lifecycle!Next]_(Lifecycle!vars)
  <2>1. CASE Working(w)
    BY <1>26, <2>1, Abandons DEF Crash, GoTo, rowVars, LifeInv, HoldInv, TypeOK,
     Working, AtWork
  <2>2. CASE ~Working(w)
    BY <1>26, <2>2, Unseen DEF Crash, GoTo, rowVars, WorksOn, Working, AtWork,
       LifeInv, HoldInv, TypeOK
  <2>. QED
    BY <2>1, <2>2
<1>27. ASSUME NEW w \in Workers, Beat(w) PROVE [Lifecycle!Next]_(Lifecycle!vars)
  BY <1>27, Unseen DEF Beat, Touch, rowVars, workVars, budgets, WorksOn,
     Working, AtWork, LifeInv, HoldInv, TypeOK
<1>28. ASSUME NEW i \in Ids, Silence(i) PROVE [Lifecycle!Next]_(Lifecycle!vars)
  BY <1>28, Unseen DEF Silence, rowVars, workVars, budgets, WorksOn, Working,
     AtWork, LifeInv, HoldInv, TypeOK
<1>29. ASSUME Outage PROVE [Lifecycle!Next]_(Lifecycle!vars)
  BY <1>29, Unseen DEF Outage, rowVars, workVars, WorksOn, Working, AtWork,
     LifeInv, HoldInv, TypeOK
<1>. QED
  BY <1>1, <1>2, <1>3, <1>4, <1>5, <1>6, <1>7, <1>8, <1>9, <1>10, <1>11,
     <1>12, <1>13, <1>14, <1>15, <1>16, <1>17, <1>18, <1>19, <1>20, <1>21,
     <1>22, <1>23, <1>24, <1>25, <1>26, <1>27, <1>28, <1>29 DEF Next, Request,
     Failure, Time, Loop
-----------------------------------------------------------------------------
(* The theorems *)

\* TypeOK holds in every state, for every choice of the constants.
THEOREM TypeCorrect == Spec => []TypeOK
<1>1. TypeOK /\ [Next]_vars => TypeOK'
  <2>1. CASE Next
    BY <2>1, TypeStep
  <2>2. CASE UNCHANGED vars
    BY <2>2 DEF vars, rowVars, workVars, budgets, TypeOK, Working
  <2>. QED
    BY <2>1, <2>2
<1>. QED
  BY TypeInit, <1>1, PTL DEF Spec

\* Content follows its document whatever is interleaved, lost or repeated: no
\* delete, crash, sweep or late worker leaves chunks without a document or
\* completes a document without chunks.
THEOREM ContentIsConsistent == Spec => []ContentFollowsDocument
<1>1. Init => ContentInv
  BY TypeInit DEF Init, ContentInv, ContentFollowsDocument, IndexedIsStored
<1>2. ContentInv /\ [Next]_vars => ContentInv'
  <2>1. CASE Next
    BY <2>1, TypeStep, ContentStep DEF ContentInv
  <2>2. CASE UNCHANGED vars
    BY <2>2 DEF vars, rowVars, workVars, ContentInv, ContentFollowsDocument,
       IndexedIsStored, Rows, budgets, TypeOK, Working
  <2>. QED
    BY <2>1, <2>2
<1>3. ContentInv => ContentFollowsDocument
  BY DEF ContentInv
<1>. QED
  BY <1>1, <1>2, <1>3, PTL DEF Spec

LEMMA HoldInit == Init => HoldInv /\ DoomedExist
<1>. SUFFICES ASSUME Init PROVE HoldInv /\ DoomedExist
  OBVIOUS
<1>1. \A w \in Workers : ~Working(w) /\ ~Alive(w)
  BY DEF Init, Working, AtWork, Alive
<1>. QED
  BY <1>1, TypeInit DEF Init, HoldInv, Beating, RunningIsRecent,
     RunningJobIsOwned, OneWorkerPerDocument, DoomedExist

LEMMA HoldStep ==
    ASSUME Isolated
    PROVE  HoldInv /\ [Next]_vars => HoldInv'
<1>1. ASSUME HoldInv, Next PROVE HoldInv'
  BY <1>1, TypeStep, BeatingStep, RecentStep, OneWorkerStep, OwnedStep
  DEF HoldInv
<1>2. ASSUME HoldInv, UNCHANGED vars PROVE HoldInv'
  BY <1>2 DEF vars, rowVars, workVars, budgets, HoldInv, TypeOK, Beating,
     RunningIsRecent, RunningJobIsOwned, OneWorkerPerDocument, Working, Alive
<1>. QED
  BY <1>1, <1>2

\* In an isolated deployment no document is ever processed twice at a time.
THEOREM OneWorker ==
    ASSUME Isolated
    PROVE  Spec => []OneWorkerPerDocument
<1>1. HoldInv => OneWorkerPerDocument
  BY DEF HoldInv
<1>. QED
  BY HoldInit, HoldStep, <1>1, PTL DEF Spec

\* In an isolated deployment a job that runs is owned by who runs it.
THEOREM RunningOwned ==
    ASSUME Isolated
    PROVE  Spec => []RunningJobIsOwned
<1>1. HoldInv => RunningJobIsOwned
  BY DEF HoldInv
<1>. QED
  BY HoldInit, HoldStep, <1>1, PTL DEF Spec

\* In an isolated deployment no document is claimed more than MAX_ATTEMPTS
\* times, plus once for every crash.
THEOREM AttemptsBounded ==
    ASSUME Isolated
    PROVE  Spec => []AttemptsAreBounded
<1>1. Init => BudgetInv
  BY HoldInit, BoundsAssumption
  DEF Init, BudgetInv, LockIsOwn, Affordable, AttemptsAreBounded
<1>2. BudgetInv /\ [Next]_vars => BudgetInv'
  <2>1. ASSUME BudgetInv, Next PROVE BudgetInv'
    BY <2>1, HoldStep, LockStep, BudgetStep DEF BudgetInv, HoldInv
  <2>2. ASSUME BudgetInv, UNCHANGED vars PROVE BudgetInv'
    <3>1. HoldInv'
      BY <2>2, HoldStep DEF BudgetInv
    <3>. QED
      BY <2>2, <3>1 DEF vars, rowVars, workVars, budgets, BudgetInv, LockIsOwn,
         Affordable, AttemptsAreBounded, Alive
  <2>. QED
    BY <2>1, <2>2
<1>3. BudgetInv => AttemptsAreBounded
  BY DEF BudgetInv
<1>. QED
  BY <1>1, <1>2, <1>3, PTL DEF Spec

\* In an isolated deployment the queue implements DocumentLifecycle.
THEOREM PromiseKept ==
    ASSUME Isolated
    PROVE  Spec => KeepsPromise
<1>1. Init => LifeInv
  BY HoldInit DEF LifeInv
<1>2. LifeInv /\ [Next]_vars => LifeInv'
  <2>1. ASSUME LifeInv, Next PROVE LifeInv'
    BY <2>1, HoldStep, DoomedStep DEF LifeInv, HoldInv
  <2>2. ASSUME LifeInv, UNCHANGED vars PROVE LifeInv'
    BY <2>2, HoldStep DEF vars, rowVars, LifeInv, DoomedExist
  <2>. QED
    BY <2>1, <2>2
<1>3. Init => Lifecycle!Init
  <2>. SUFFICES ASSUME Init PROVE Lifecycle!Init
    OBVIOUS
  <2>1. PhaseOf("none") = "new"
    BY DEF PhaseOf
  <2>. QED
    BY <2>1 DEF Init, Lifecycle!Init, Phase, Holder
<1>4. LifeInv /\ LifeInv' /\ [Next]_vars => [Lifecycle!Next]_(Lifecycle!vars)
  <2>1. ASSUME LifeInv, LifeInv', Next PROVE [Lifecycle!Next]_(Lifecycle!vars)
    BY <2>1, LifeStep DEF LifeInv
  <2>2. ASSUME LifeInv, LifeInv', UNCHANGED vars PROVE UNCHANGED Lifecycle!vars
    BY <2>2, Unseen DEF vars, rowVars, workVars, WorksOn, Working, LifeInv
  <2>. QED
    BY <2>1, <2>2
<1>. QED
  BY <1>1, <1>2, <1>3, <1>4, PTL DEF Spec, KeepsPromise, Lifecycle!Spec
=============================================================================

----------------------- MODULE ToolCoordinatorProofs -----------------------
(***************************************************************************)
(* Proofs about ToolCoordinator, for any number of calls and sessions.     *)
(* Where the caller and the watcher of a call are follows from its status  *)
(* (Shape); what ends a task has set the cancel event or closed the stream *)
(* (Signals).  With the kill deadline of a call in the background these    *)
(* make the inductive invariant, and with it every step of the code is a   *)
(* step of CallOutcome or leaves the outcomes alone.                       *)
(***************************************************************************)
EXTENDS ToolCoordinator, TLAPS

\* The status of a call, its caller and its watcher go together.
Shape ==
    \A c \in Calls :
        /\ status[c] = "new" =>
             caller[c] = "idle" /\ watcher[c] = "idle" /\ bg[c] = "idle"
        /\ status[c] = "running" =>
             /\ caller[c] \in Subscribed \cup {"joining", "gone", "broken"}
             /\ watcher[c] = "idle"
        /\ status[c] = "offloaded" =>
             /\ caller[c] = "placeholder"
             /\ watcher[c] \in {"watching", "grace", "joining", "broken"}
        /\ status[c] = "completed" =>
             \/ caller[c] = "answered" /\ watcher[c] = "idle"
             \/ caller[c] = "placeholder" /\ watcher[c] \in {"reporting", "done"}

\* A task is only told to stop after the cancel event; one that is over has
\* closed its stream or was cancelled, and one that runs has not closed it.
Signals ==
    /\ stopping \subseteq cancelled /\ toStop \subseteq cancelled
    /\ \A c \in Calls :
         /\ bg[c] \in Ended => c \in closed \cup cancelled
         /\ c \in closed => bg[c] \notin {"idle", "new", "running"}

IInv == TypeOK /\ Shape /\ Signals /\ JoinIsShort /\ BackgroundBounded /\ HintOnce

LEMMA TypeInit == Init => TypeOK
<1>. SUFFICES ASSUME Init PROVE TypeOK
  OBVIOUS
<1>1. offloadOnDeadline \in BOOLEAN /\ bounded \in BOOLEAN /\ down \in BOOLEAN
  BY Zenon DEF Init
<1>. QED
  BY <1>1, CallsAssumption DEF Init, TypeOK, InTable, Callers, Watchers, Tasks, Ended, Subscribed, Looping, Waiting, None

LEMMA TypeStep ==
    ASSUME TypeOK, Next
    PROVE  TypeOK'
<1>. USE CallsAssumption
<1>1. ASSUME NEW c \in Calls, Execute(c) PROVE TypeOK'
  BY <1>1 DEF Execute, taskVars, queueVars, deadlineVars, ctxVars,
     hintVars, settingVars, envVars, TypeOK, InTable, Callers, Watchers,
     Tasks, Ended, Subscribed, Looping, Waiting, None
<1>2. ASSUME NEW c \in Calls, CallerFindsDeadline(c) PROVE TypeOK'
  BY <1>2 DEF CallerFindsDeadline, DeadlineEvent, DeadlineReached,
     CancelForTimeout, SeedKill, CanBound, BeginOffload, WantsOffload,
     AfterGraceCall, Looping, Subscribed, taskVars, queueVars,
     deadlineVars, ctxVars, hintVars, settingVars, envVars, TypeOK,
     InTable, Callers, Watchers, Tasks, Ended, Waiting, None
<1>3. ASSUME NEW c \in Calls, CallerWaits(c) PROVE TypeOK'
  BY <1>3 DEF CallerWaits, taskVars, queueVars, deadlineVars, ctxVars,
     hintVars, settingVars, envVars, TypeOK, InTable, Callers, Watchers,
     Tasks, Ended, Subscribed, Looping, Waiting, None
<1>4. ASSUME NEW c \in Calls, CallerChunk(c) PROVE TypeOK'
  BY <1>4 DEF CallerChunk, taskVars, queueVars, deadlineVars, ctxVars,
     hintVars, settingVars, envVars, TypeOK, InTable, Callers, Watchers,
     Tasks, Ended, Subscribed, Looping, Waiting, None
<1>5. ASSUME NEW c \in Calls, CallerStreamClosed(c) PROVE TypeOK'
  BY <1>5 DEF CallerStreamClosed, taskVars, queueVars, deadlineVars,
     ctxVars, hintVars, settingVars, envVars, TypeOK, InTable, Callers,
     Watchers, Tasks, Ended, Subscribed, Looping, Waiting, None
<1>6. ASSUME NEW c \in Calls, CallerSeesCancel(c) PROVE TypeOK'
  BY <1>6 DEF CallerSeesCancel, AfterGraceCall, taskVars, queueVars,
     deadlineVars, ctxVars, hintVars, settingVars, envVars, TypeOK,
     InTable, Callers, Watchers, Tasks, Ended, Subscribed, Looping,
     Waiting, None
<1>7. ASSUME NEW c \in Calls, CallerSeesChange(c) PROVE TypeOK'
  BY <1>7 DEF CallerSeesChange, taskVars, queueVars, deadlineVars,
     ctxVars, hintVars, settingVars, envVars, TypeOK, InTable, Callers,
     Watchers, Tasks, Ended, Subscribed, Looping, Waiting, None
<1>8. ASSUME NEW c \in Calls, CallerTimeout(c) PROVE TypeOK'
  BY <1>8 DEF CallerTimeout, taskVars, queueVars, deadlineVars, ctxVars,
     hintVars, settingVars, envVars, TypeOK, InTable, Callers, Watchers,
     Tasks, Ended, Subscribed, Looping, Waiting, None
<1>9. ASSUME NEW c \in Calls, CallerFired(c) PROVE TypeOK'
  BY <1>9 DEF CallerFired, DeadlineEvent, DeadlineReached,
     CancelForTimeout, SeedKill, CanBound, BeginOffload, WantsOffload,
     AfterGraceCall, taskVars, queueVars, deadlineVars, ctxVars, hintVars,
     settingVars, envVars, TypeOK, InTable, Callers, Watchers, Tasks,
     Ended, Subscribed, Looping, Waiting, None
<1>10. ASSUME NEW c \in Calls, CallerGraceEnds(c) PROVE TypeOK'
  BY <1>10 DEF CallerGraceEnds, taskVars, queueVars, deadlineVars,
     ctxVars, hintVars, settingVars, envVars, TypeOK, InTable, Callers,
     Watchers, Tasks, Ended, Subscribed, Looping, Waiting, None
<1>11. ASSUME NEW c \in Calls, CallerGraceTimeout(c) PROVE TypeOK'
  BY <1>11 DEF CallerGraceTimeout, ForceCancel, taskVars, queueVars,
     deadlineVars, ctxVars, hintVars, settingVars, envVars, TypeOK,
     InTable, Callers, Watchers, Tasks, Ended, Subscribed, Looping,
     Waiting, None
<1>12. ASSUME NEW c \in Calls, CallerFinishes(c) PROVE TypeOK'
  BY <1>12 DEF CallerFinishes, taskVars, queueVars, deadlineVars, ctxVars,
     hintVars, settingVars, envVars, TypeOK, InTable, Callers, Watchers,
     Tasks, Ended, Subscribed, Looping, Waiting, None
<1>13. ASSUME NEW c \in Calls, CallerGone(c) PROVE TypeOK'
  BY <1>13 DEF CallerGone, taskVars, queueVars, deadlineVars, ctxVars,
     hintVars, settingVars, envVars, TypeOK, InTable, Callers, Watchers,
     Tasks, Ended, Subscribed, Looping, Waiting, None
<1>14. ASSUME NEW c \in Calls, WatcherKill(c) PROVE TypeOK'
  BY <1>14 DEF WatcherKill, AfterGraceCall, taskVars, queueVars,
     deadlineVars, ctxVars, hintVars, settingVars, envVars, TypeOK,
     InTable, Callers, Watchers, Tasks, Ended, Subscribed, Looping,
     Waiting, None
<1>15. ASSUME NEW c \in Calls, WatcherSeesCancel(c) PROVE TypeOK'
  BY <1>15 DEF WatcherSeesCancel, AfterGraceCall, taskVars, queueVars,
     deadlineVars, ctxVars, hintVars, settingVars, envVars, TypeOK,
     InTable, Callers, Watchers, Tasks, Ended, Subscribed, Looping,
     Waiting, None
<1>16. ASSUME NEW c \in Calls, WatcherSeesEnd(c) PROVE TypeOK'
  BY <1>16 DEF WatcherSeesEnd, taskVars, queueVars, deadlineVars, ctxVars,
     hintVars, settingVars, envVars, TypeOK, InTable, Callers, Watchers,
     Tasks, Ended, Subscribed, Looping, Waiting, None
<1>17. ASSUME NEW c \in Calls, WatcherSeesChange(c) PROVE TypeOK'
  BY <1>17 DEF WatcherSeesChange, taskVars, queueVars, deadlineVars,
     ctxVars, hintVars, settingVars, envVars, TypeOK, InTable, Callers,
     Watchers, Tasks, Ended, Subscribed, Looping, Waiting, None
<1>18. ASSUME NEW c \in Calls, WatcherGraceEnds(c) PROVE TypeOK'
  BY <1>18 DEF WatcherGraceEnds, taskVars, queueVars, deadlineVars,
     ctxVars, hintVars, settingVars, envVars, TypeOK, InTable, Callers,
     Watchers, Tasks, Ended, Subscribed, Looping, Waiting, None
<1>19. ASSUME NEW c \in Calls, WatcherGraceTimeout(c) PROVE TypeOK'
  BY <1>19 DEF WatcherGraceTimeout, ForceCancel, taskVars, queueVars,
     deadlineVars, ctxVars, hintVars, settingVars, envVars, TypeOK,
     InTable, Callers, Watchers, Tasks, Ended, Subscribed, Looping,
     Waiting, None
<1>20. ASSUME NEW c \in Calls, WatcherFinishes(c) PROVE TypeOK'
  BY <1>20 DEF WatcherFinishes, taskVars, queueVars, deadlineVars,
     ctxVars, hintVars, settingVars, envVars, TypeOK, InTable, Callers,
     Watchers, Tasks, Ended, Subscribed, Looping, Waiting, None
<1>21. ASSUME NEW c \in Calls, WatcherReports(c) PROVE TypeOK'
  BY <1>21 DEF WatcherReports, taskVars, queueVars, deadlineVars, ctxVars,
     hintVars, settingVars, envVars, TypeOK, InTable, Callers, Watchers,
     Tasks, Ended, Subscribed, Looping, Waiting, None
<1>22. ASSUME NEW c \in Calls, BgStart(c) PROVE TypeOK'
  BY <1>22 DEF BgStart, taskVars, queueVars, deadlineVars, ctxVars,
     hintVars, settingVars, envVars, TypeOK, InTable, Callers, Watchers,
     Tasks, Ended, Subscribed, Looping, Waiting, None
<1>23. ASSUME NEW c \in Calls, BgChunk(c) PROVE TypeOK'
  BY <1>23 DEF BgChunk, taskVars, queueVars, deadlineVars, ctxVars,
     hintVars, settingVars, envVars, TypeOK, InTable, Callers, Watchers,
     Tasks, Ended, Subscribed, Looping, Waiting, None
<1>24. ASSUME NEW c \in Calls, BgResponds(c) PROVE TypeOK'
  BY <1>24 DEF BgResponds, taskVars, queueVars, deadlineVars, ctxVars,
     hintVars, settingVars, envVars, TypeOK, InTable, Callers, Watchers,
     Tasks, Ended, Subscribed, Looping, Waiting, None
<1>25. ASSUME NEW c \in Calls, BgRaises(c) PROVE TypeOK'
  BY <1>25 DEF BgRaises, taskVars, queueVars, deadlineVars, ctxVars,
     hintVars, settingVars, envVars, TypeOK, InTable, Callers, Watchers,
     Tasks, Ended, Subscribed, Looping, Waiting, None
<1>26. ASSUME NEW c \in Calls, BgCooperates(c) PROVE TypeOK'
  BY <1>26 DEF BgCooperates, taskVars, queueVars, deadlineVars, ctxVars,
     hintVars, settingVars, envVars, TypeOK, InTable, Callers, Watchers,
     Tasks, Ended, Subscribed, Looping, Waiting, None
<1>27. ASSUME NEW c \in Calls, BgStopped(c) PROVE TypeOK'
  BY <1>27 DEF BgStopped, taskVars, queueVars, deadlineVars, ctxVars,
     hintVars, settingVars, envVars, TypeOK, InTable, Callers, Watchers,
     Tasks, Ended, Subscribed, Looping, Waiting, None
<1>28. ASSUME NEW c \in Calls, BgPutsSentinel(c) PROVE TypeOK'
  BY <1>28 DEF BgPutsSentinel, taskVars, queueVars, deadlineVars, ctxVars,
     hintVars, settingVars, envVars, TypeOK, InTable, Callers, Watchers,
     Tasks, Ended, Subscribed, Looping, Waiting, None
<1>29. ASSUME NEW c \in Calls, BgEnds(c) PROVE TypeOK'
  BY <1>29 DEF BgEnds, taskVars, queueVars, deadlineVars, ctxVars,
     hintVars, settingVars, envVars, TypeOK, InTable, Callers, Watchers,
     Tasks, Ended, Subscribed, Looping, Waiting, None
<1>30. ASSUME NEW c \in Calls, RequestOffload(c) PROVE TypeOK'
  BY <1>30 DEF RequestOffload, Ask, Outdate, CanBound, taskVars,
     queueVars, deadlineVars, ctxVars, hintVars, settingVars, envVars,
     TypeOK, InTable, Callers, Watchers, Tasks, Ended, Subscribed,
     Looping, Waiting, None
<1>31. ASSUME NEW c \in Calls, ExtendOffload(c) PROVE TypeOK'
  BY <1>31 DEF ExtendOffload, Ask, Outdate, taskVars, queueVars,
     deadlineVars, ctxVars, hintVars, settingVars, envVars, TypeOK,
     InTable, Callers, Watchers, Tasks, Ended, Subscribed, Looping,
     Waiting, None
<1>32. ASSUME NEW c \in Calls, ExtendKill(c) PROVE TypeOK'
  BY <1>32 DEF ExtendKill, Ask, Outdate, InTable, taskVars, queueVars,
     deadlineVars, ctxVars, hintVars, settingVars, envVars, TypeOK,
     Callers, Watchers, Tasks, Ended, Subscribed, Looping, Waiting, None
<1>33. ASSUME NEW c \in Calls, OffloadPasses(c) PROVE TypeOK'
  BY <1>33 DEF OffloadPasses, taskVars, queueVars, deadlineVars, ctxVars,
     hintVars, settingVars, envVars, TypeOK, InTable, Callers, Watchers,
     Tasks, Ended, Subscribed, Looping, Waiting, None
<1>34. ASSUME NEW c \in Calls, KillNears(c) PROVE TypeOK'
  BY <1>34 DEF KillNears, taskVars, queueVars, deadlineVars, ctxVars,
     hintVars, settingVars, envVars, TypeOK, InTable, Callers, Watchers,
     Tasks, Ended, Subscribed, Looping, Waiting, None
<1>35. ASSUME NEW c \in Calls, ShutdownWaits(c) PROVE TypeOK'
  BY <1>35 DEF ShutdownWaits, taskVars, queueVars, deadlineVars, ctxVars,
     hintVars, settingVars, envVars, TypeOK, InTable, Callers, Watchers,
     Tasks, Ended, Subscribed, Looping, Waiting, None
<1>36. ASSUME NEW c \in Calls, NEW force \in BOOLEAN, Cancel(c, force) PROVE TypeOK'
  BY <1>36 DEF Cancel, Ask, taskVars, queueVars, deadlineVars, ctxVars,
     hintVars, settingVars, envVars, TypeOK, InTable, Callers, Watchers,
     Tasks, Ended, Subscribed, Looping, Waiting, None
<1>37. ASSUME NEW s \in Sessions, PopPendingHints(s) PROVE TypeOK'
  BY <1>37 DEF PopPendingHints, taskVars, queueVars, deadlineVars,
     ctxVars, hintVars, settingVars, envVars, TypeOK, InTable, Callers,
     Watchers, Tasks, Ended, Subscribed, Looping, Waiting, None
<1>38. ASSUME ChangeSettings PROVE TypeOK'
  <2>1. offloadOnDeadline' \in BOOLEAN /\ bounded' \in BOOLEAN
    BY <1>38, Zenon DEF ChangeSettings, TypeOK
  <2>2. asks' \in 0 .. MaxAsks
    BY <1>38 DEF ChangeSettings, Ask, TypeOK
  <2>. QED
    BY <1>38, <2>1, <2>2 DEF ChangeSettings, taskVars, queueVars, deadlineVars,
       ctxVars, hintVars, TypeOK, InTable, Callers, Watchers, Tasks,
       Ended, Subscribed, Looping, Waiting, None
<1>39. ASSUME Shutdown PROVE TypeOK'
  BY <1>39 DEF Shutdown, Ask, taskVars, queueVars, deadlineVars, ctxVars,
     hintVars, settingVars, envVars, TypeOK, InTable, Callers, Watchers,
     Tasks, Ended, Subscribed, Looping, Waiting, None
<1>. QED
  BY <1>1, <1>2, <1>3, <1>4, <1>5, <1>6, <1>7, <1>8, <1>9, <1>10, <1>11,
     <1>12, <1>13, <1>14, <1>15, <1>16, <1>17, <1>18, <1>19, <1>20, <1>21,
     <1>22, <1>23, <1>24, <1>25, <1>26, <1>27, <1>28, <1>29, <1>30, <1>31,
     <1>32, <1>33, <1>34, <1>35, <1>36, <1>37, <1>38, <1>39 DEF Next,
     CallerStep, WatcherStep, TaskStep, ToolStep, TimePasses, Intervention

LEMMA ShapeStep ==
    ASSUME TypeOK, Shape, Next
    PROVE  Shape'
<1>1. ASSUME NEW c \in Calls, Execute(c) PROVE Shape'
  BY <1>1 DEF Execute, taskVars, queueVars, deadlineVars, ctxVars,
     hintVars, settingVars, envVars, TypeOK, InTable, Callers, Watchers,
     Tasks, Ended, Subscribed, Looping, Waiting, None, Shape
<1>2. ASSUME NEW c \in Calls, CallerFindsDeadline(c) PROVE Shape'
  BY <1>2 DEF CallerFindsDeadline, DeadlineEvent, DeadlineReached,
     CancelForTimeout, SeedKill, CanBound, BeginOffload, WantsOffload,
     AfterGraceCall, Looping, Subscribed, taskVars, queueVars,
     deadlineVars, ctxVars, hintVars, settingVars, envVars, TypeOK,
     InTable, Callers, Watchers, Tasks, Ended, Waiting, None, Shape
<1>3. ASSUME NEW c \in Calls, CallerWaits(c) PROVE Shape'
  BY <1>3 DEF CallerWaits, taskVars, queueVars, deadlineVars, ctxVars,
     hintVars, settingVars, envVars, TypeOK, InTable, Callers, Watchers,
     Tasks, Ended, Subscribed, Looping, Waiting, None, Shape
<1>4. ASSUME NEW c \in Calls, CallerChunk(c) PROVE Shape'
  BY <1>4 DEF CallerChunk, taskVars, queueVars, deadlineVars, ctxVars,
     hintVars, settingVars, envVars, TypeOK, InTable, Callers, Watchers,
     Tasks, Ended, Subscribed, Looping, Waiting, None, Shape
<1>5. ASSUME NEW c \in Calls, CallerStreamClosed(c) PROVE Shape'
  BY <1>5 DEF CallerStreamClosed, taskVars, queueVars, deadlineVars,
     ctxVars, hintVars, settingVars, envVars, TypeOK, InTable, Callers,
     Watchers, Tasks, Ended, Subscribed, Looping, Waiting, None, Shape
<1>6. ASSUME NEW c \in Calls, CallerSeesCancel(c) PROVE Shape'
  BY <1>6 DEF CallerSeesCancel, AfterGraceCall, taskVars, queueVars,
     deadlineVars, ctxVars, hintVars, settingVars, envVars, TypeOK,
     InTable, Callers, Watchers, Tasks, Ended, Subscribed, Looping,
     Waiting, None, Shape
<1>7. ASSUME NEW c \in Calls, CallerSeesChange(c) PROVE Shape'
  BY <1>7 DEF CallerSeesChange, taskVars, queueVars, deadlineVars,
     ctxVars, hintVars, settingVars, envVars, TypeOK, InTable, Callers,
     Watchers, Tasks, Ended, Subscribed, Looping, Waiting, None, Shape
<1>8. ASSUME NEW c \in Calls, CallerTimeout(c) PROVE Shape'
  BY <1>8 DEF CallerTimeout, taskVars, queueVars, deadlineVars, ctxVars,
     hintVars, settingVars, envVars, TypeOK, InTable, Callers, Watchers,
     Tasks, Ended, Subscribed, Looping, Waiting, None, Shape
<1>9. ASSUME NEW c \in Calls, CallerFired(c) PROVE Shape'
  BY <1>9 DEF CallerFired, DeadlineEvent, DeadlineReached,
     CancelForTimeout, SeedKill, CanBound, BeginOffload, WantsOffload,
     AfterGraceCall, taskVars, queueVars, deadlineVars, ctxVars, hintVars,
     settingVars, envVars, TypeOK, InTable, Callers, Watchers, Tasks,
     Ended, Subscribed, Looping, Waiting, None, Shape
<1>10. ASSUME NEW c \in Calls, CallerGraceEnds(c) PROVE Shape'
  BY <1>10 DEF CallerGraceEnds, taskVars, queueVars, deadlineVars,
     ctxVars, hintVars, settingVars, envVars, TypeOK, InTable, Callers,
     Watchers, Tasks, Ended, Subscribed, Looping, Waiting, None, Shape
<1>11. ASSUME NEW c \in Calls, CallerGraceTimeout(c) PROVE Shape'
  BY <1>11 DEF CallerGraceTimeout, ForceCancel, taskVars, queueVars,
     deadlineVars, ctxVars, hintVars, settingVars, envVars, TypeOK,
     InTable, Callers, Watchers, Tasks, Ended, Subscribed, Looping,
     Waiting, None, Shape
<1>12. ASSUME NEW c \in Calls, CallerFinishes(c) PROVE Shape'
  BY <1>12 DEF CallerFinishes, taskVars, queueVars, deadlineVars, ctxVars,
     hintVars, settingVars, envVars, TypeOK, InTable, Callers, Watchers,
     Tasks, Ended, Subscribed, Looping, Waiting, None, Shape
<1>13. ASSUME NEW c \in Calls, CallerGone(c) PROVE Shape'
  BY <1>13 DEF CallerGone, taskVars, queueVars, deadlineVars, ctxVars,
     hintVars, settingVars, envVars, TypeOK, InTable, Callers, Watchers,
     Tasks, Ended, Subscribed, Looping, Waiting, None, Shape
<1>14. ASSUME NEW c \in Calls, WatcherKill(c) PROVE Shape'
  BY <1>14 DEF WatcherKill, AfterGraceCall, taskVars, queueVars,
     deadlineVars, ctxVars, hintVars, settingVars, envVars, TypeOK,
     InTable, Callers, Watchers, Tasks, Ended, Subscribed, Looping,
     Waiting, None, Shape
<1>15. ASSUME NEW c \in Calls, WatcherSeesCancel(c) PROVE Shape'
  BY <1>15 DEF WatcherSeesCancel, AfterGraceCall, taskVars, queueVars,
     deadlineVars, ctxVars, hintVars, settingVars, envVars, TypeOK,
     InTable, Callers, Watchers, Tasks, Ended, Subscribed, Looping,
     Waiting, None, Shape
<1>16. ASSUME NEW c \in Calls, WatcherSeesEnd(c) PROVE Shape'
  BY <1>16 DEF WatcherSeesEnd, taskVars, queueVars, deadlineVars, ctxVars,
     hintVars, settingVars, envVars, TypeOK, InTable, Callers, Watchers,
     Tasks, Ended, Subscribed, Looping, Waiting, None, Shape
<1>17. ASSUME NEW c \in Calls, WatcherSeesChange(c) PROVE Shape'
  BY <1>17 DEF WatcherSeesChange, taskVars, queueVars, deadlineVars,
     ctxVars, hintVars, settingVars, envVars, TypeOK, InTable, Callers,
     Watchers, Tasks, Ended, Subscribed, Looping, Waiting, None, Shape
<1>18. ASSUME NEW c \in Calls, WatcherGraceEnds(c) PROVE Shape'
  BY <1>18 DEF WatcherGraceEnds, taskVars, queueVars, deadlineVars,
     ctxVars, hintVars, settingVars, envVars, TypeOK, InTable, Callers,
     Watchers, Tasks, Ended, Subscribed, Looping, Waiting, None, Shape
<1>19. ASSUME NEW c \in Calls, WatcherGraceTimeout(c) PROVE Shape'
  BY <1>19 DEF WatcherGraceTimeout, ForceCancel, taskVars, queueVars,
     deadlineVars, ctxVars, hintVars, settingVars, envVars, TypeOK,
     InTable, Callers, Watchers, Tasks, Ended, Subscribed, Looping,
     Waiting, None, Shape
<1>20. ASSUME NEW c \in Calls, WatcherFinishes(c) PROVE Shape'
  BY <1>20 DEF WatcherFinishes, taskVars, queueVars, deadlineVars,
     ctxVars, hintVars, settingVars, envVars, TypeOK, InTable, Callers,
     Watchers, Tasks, Ended, Subscribed, Looping, Waiting, None, Shape
<1>21. ASSUME NEW c \in Calls, WatcherReports(c) PROVE Shape'
  BY <1>21 DEF WatcherReports, taskVars, queueVars, deadlineVars, ctxVars,
     hintVars, settingVars, envVars, TypeOK, InTable, Callers, Watchers,
     Tasks, Ended, Subscribed, Looping, Waiting, None, Shape
<1>22. ASSUME NEW c \in Calls, BgStart(c) PROVE Shape'
  BY <1>22 DEF BgStart, taskVars, queueVars, deadlineVars, ctxVars,
     hintVars, settingVars, envVars, TypeOK, InTable, Callers, Watchers,
     Tasks, Ended, Subscribed, Looping, Waiting, None, Shape
<1>23. ASSUME NEW c \in Calls, BgChunk(c) PROVE Shape'
  BY <1>23 DEF BgChunk, taskVars, queueVars, deadlineVars, ctxVars,
     hintVars, settingVars, envVars, TypeOK, InTable, Callers, Watchers,
     Tasks, Ended, Subscribed, Looping, Waiting, None, Shape
<1>24. ASSUME NEW c \in Calls, BgResponds(c) PROVE Shape'
  BY <1>24 DEF BgResponds, taskVars, queueVars, deadlineVars, ctxVars,
     hintVars, settingVars, envVars, TypeOK, InTable, Callers, Watchers,
     Tasks, Ended, Subscribed, Looping, Waiting, None, Shape
<1>25. ASSUME NEW c \in Calls, BgRaises(c) PROVE Shape'
  BY <1>25 DEF BgRaises, taskVars, queueVars, deadlineVars, ctxVars,
     hintVars, settingVars, envVars, TypeOK, InTable, Callers, Watchers,
     Tasks, Ended, Subscribed, Looping, Waiting, None, Shape
<1>26. ASSUME NEW c \in Calls, BgCooperates(c) PROVE Shape'
  BY <1>26 DEF BgCooperates, taskVars, queueVars, deadlineVars, ctxVars,
     hintVars, settingVars, envVars, TypeOK, InTable, Callers, Watchers,
     Tasks, Ended, Subscribed, Looping, Waiting, None, Shape
<1>27. ASSUME NEW c \in Calls, BgStopped(c) PROVE Shape'
  BY <1>27 DEF BgStopped, taskVars, queueVars, deadlineVars, ctxVars,
     hintVars, settingVars, envVars, TypeOK, InTable, Callers, Watchers,
     Tasks, Ended, Subscribed, Looping, Waiting, None, Shape
<1>28. ASSUME NEW c \in Calls, BgPutsSentinel(c) PROVE Shape'
  BY <1>28 DEF BgPutsSentinel, taskVars, queueVars, deadlineVars, ctxVars,
     hintVars, settingVars, envVars, TypeOK, InTable, Callers, Watchers,
     Tasks, Ended, Subscribed, Looping, Waiting, None, Shape
<1>29. ASSUME NEW c \in Calls, BgEnds(c) PROVE Shape'
  BY <1>29 DEF BgEnds, taskVars, queueVars, deadlineVars, ctxVars,
     hintVars, settingVars, envVars, TypeOK, InTable, Callers, Watchers,
     Tasks, Ended, Subscribed, Looping, Waiting, None, Shape
<1>30. ASSUME NEW c \in Calls, RequestOffload(c) PROVE Shape'
  BY <1>30 DEF RequestOffload, Ask, Outdate, CanBound, taskVars,
     queueVars, deadlineVars, ctxVars, hintVars, settingVars, envVars,
     TypeOK, InTable, Callers, Watchers, Tasks, Ended, Subscribed,
     Looping, Waiting, None, Shape
<1>31. ASSUME NEW c \in Calls, ExtendOffload(c) PROVE Shape'
  BY <1>31 DEF ExtendOffload, Ask, Outdate, taskVars, queueVars,
     deadlineVars, ctxVars, hintVars, settingVars, envVars, TypeOK,
     InTable, Callers, Watchers, Tasks, Ended, Subscribed, Looping,
     Waiting, None, Shape
<1>32. ASSUME NEW c \in Calls, ExtendKill(c) PROVE Shape'
  BY <1>32 DEF ExtendKill, Ask, Outdate, InTable, taskVars, queueVars,
     deadlineVars, ctxVars, hintVars, settingVars, envVars, TypeOK,
     Callers, Watchers, Tasks, Ended, Subscribed, Looping, Waiting, None,
     Shape
<1>33. ASSUME NEW c \in Calls, OffloadPasses(c) PROVE Shape'
  BY <1>33 DEF OffloadPasses, taskVars, queueVars, deadlineVars, ctxVars,
     hintVars, settingVars, envVars, TypeOK, InTable, Callers, Watchers,
     Tasks, Ended, Subscribed, Looping, Waiting, None, Shape
<1>34. ASSUME NEW c \in Calls, KillNears(c) PROVE Shape'
  BY <1>34 DEF KillNears, taskVars, queueVars, deadlineVars, ctxVars,
     hintVars, settingVars, envVars, TypeOK, InTable, Callers, Watchers,
     Tasks, Ended, Subscribed, Looping, Waiting, None, Shape
<1>35. ASSUME NEW c \in Calls, ShutdownWaits(c) PROVE Shape'
  BY <1>35 DEF ShutdownWaits, taskVars, queueVars, deadlineVars, ctxVars,
     hintVars, settingVars, envVars, TypeOK, InTable, Callers, Watchers,
     Tasks, Ended, Subscribed, Looping, Waiting, None, Shape
<1>36. ASSUME NEW c \in Calls, NEW force \in BOOLEAN, Cancel(c, force) PROVE Shape'
  BY <1>36 DEF Cancel, Ask, taskVars, queueVars, deadlineVars, ctxVars,
     hintVars, settingVars, envVars, TypeOK, InTable, Callers, Watchers,
     Tasks, Ended, Subscribed, Looping, Waiting, None, Shape
<1>37. ASSUME NEW s \in Sessions, PopPendingHints(s) PROVE Shape'
  BY <1>37 DEF PopPendingHints, taskVars, queueVars, deadlineVars,
     ctxVars, hintVars, settingVars, envVars, TypeOK, InTable, Callers,
     Watchers, Tasks, Ended, Subscribed, Looping, Waiting, None, Shape
<1>38. ASSUME ChangeSettings PROVE Shape'
  BY <1>38 DEF ChangeSettings, Ask, taskVars, queueVars, deadlineVars,
     ctxVars, hintVars, settingVars, envVars, TypeOK, InTable, Callers,
     Watchers, Tasks, Ended, Subscribed, Looping, Waiting, None, Shape
<1>39. ASSUME Shutdown PROVE Shape'
  BY <1>39 DEF Shutdown, Ask, taskVars, queueVars, deadlineVars, ctxVars,
     hintVars, settingVars, envVars, TypeOK, InTable, Callers, Watchers,
     Tasks, Ended, Subscribed, Looping, Waiting, None, Shape
<1>. QED
  BY <1>1, <1>2, <1>3, <1>4, <1>5, <1>6, <1>7, <1>8, <1>9, <1>10, <1>11,
     <1>12, <1>13, <1>14, <1>15, <1>16, <1>17, <1>18, <1>19, <1>20, <1>21,
     <1>22, <1>23, <1>24, <1>25, <1>26, <1>27, <1>28, <1>29, <1>30, <1>31,
     <1>32, <1>33, <1>34, <1>35, <1>36, <1>37, <1>38, <1>39 DEF Next,
     CallerStep, WatcherStep, TaskStep, ToolStep, TimePasses, Intervention

LEMMA SignalsStep ==
    ASSUME TypeOK, Shape, Signals, Next
    PROVE  Signals'
<1>1. ASSUME NEW c \in Calls, Execute(c) PROVE Signals'
  BY <1>1 DEF Execute, taskVars, queueVars, deadlineVars, ctxVars,
     hintVars, settingVars, envVars, TypeOK, InTable, Callers, Watchers,
     Tasks, Ended, Subscribed, Looping, Waiting, None, Shape, Signals
<1>2. ASSUME NEW c \in Calls, CallerFindsDeadline(c) PROVE Signals'
  BY <1>2 DEF CallerFindsDeadline, DeadlineEvent, DeadlineReached,
     CancelForTimeout, SeedKill, CanBound, BeginOffload, WantsOffload,
     AfterGraceCall, Looping, Subscribed, taskVars, queueVars,
     deadlineVars, ctxVars, hintVars, settingVars, envVars, TypeOK,
     InTable, Callers, Watchers, Tasks, Ended, Waiting, None, Shape,
     Signals
<1>3. ASSUME NEW c \in Calls, CallerWaits(c) PROVE Signals'
  BY <1>3 DEF CallerWaits, taskVars, queueVars, deadlineVars, ctxVars,
     hintVars, settingVars, envVars, TypeOK, InTable, Callers, Watchers,
     Tasks, Ended, Subscribed, Looping, Waiting, None, Shape, Signals
<1>4. ASSUME NEW c \in Calls, CallerChunk(c) PROVE Signals'
  BY <1>4 DEF CallerChunk, taskVars, queueVars, deadlineVars, ctxVars,
     hintVars, settingVars, envVars, TypeOK, InTable, Callers, Watchers,
     Tasks, Ended, Subscribed, Looping, Waiting, None, Shape, Signals
<1>5. ASSUME NEW c \in Calls, CallerStreamClosed(c) PROVE Signals'
  BY <1>5 DEF CallerStreamClosed, taskVars, queueVars, deadlineVars,
     ctxVars, hintVars, settingVars, envVars, TypeOK, InTable, Callers,
     Watchers, Tasks, Ended, Subscribed, Looping, Waiting, None, Shape,
     Signals
<1>6. ASSUME NEW c \in Calls, CallerSeesCancel(c) PROVE Signals'
  BY <1>6 DEF CallerSeesCancel, AfterGraceCall, taskVars, queueVars,
     deadlineVars, ctxVars, hintVars, settingVars, envVars, TypeOK,
     InTable, Callers, Watchers, Tasks, Ended, Subscribed, Looping,
     Waiting, None, Shape, Signals
<1>7. ASSUME NEW c \in Calls, CallerSeesChange(c) PROVE Signals'
  BY <1>7 DEF CallerSeesChange, taskVars, queueVars, deadlineVars,
     ctxVars, hintVars, settingVars, envVars, TypeOK, InTable, Callers,
     Watchers, Tasks, Ended, Subscribed, Looping, Waiting, None, Shape,
     Signals
<1>8. ASSUME NEW c \in Calls, CallerTimeout(c) PROVE Signals'
  BY <1>8 DEF CallerTimeout, taskVars, queueVars, deadlineVars, ctxVars,
     hintVars, settingVars, envVars, TypeOK, InTable, Callers, Watchers,
     Tasks, Ended, Subscribed, Looping, Waiting, None, Shape, Signals
<1>9. ASSUME NEW c \in Calls, CallerFired(c) PROVE Signals'
  BY <1>9 DEF CallerFired, DeadlineEvent, DeadlineReached,
     CancelForTimeout, SeedKill, CanBound, BeginOffload, WantsOffload,
     AfterGraceCall, taskVars, queueVars, deadlineVars, ctxVars, hintVars,
     settingVars, envVars, TypeOK, InTable, Callers, Watchers, Tasks,
     Ended, Subscribed, Looping, Waiting, None, Shape, Signals
<1>10. ASSUME NEW c \in Calls, CallerGraceEnds(c) PROVE Signals'
  BY <1>10 DEF CallerGraceEnds, taskVars, queueVars, deadlineVars,
     ctxVars, hintVars, settingVars, envVars, TypeOK, InTable, Callers,
     Watchers, Tasks, Ended, Subscribed, Looping, Waiting, None, Shape,
     Signals
<1>11. ASSUME NEW c \in Calls, CallerGraceTimeout(c) PROVE Signals'
  BY <1>11 DEF CallerGraceTimeout, ForceCancel, taskVars, queueVars,
     deadlineVars, ctxVars, hintVars, settingVars, envVars, TypeOK,
     InTable, Callers, Watchers, Tasks, Ended, Subscribed, Looping,
     Waiting, None, Shape, Signals
<1>12. ASSUME NEW c \in Calls, CallerFinishes(c) PROVE Signals'
  BY <1>12 DEF CallerFinishes, taskVars, queueVars, deadlineVars, ctxVars,
     hintVars, settingVars, envVars, TypeOK, InTable, Callers, Watchers,
     Tasks, Ended, Subscribed, Looping, Waiting, None, Shape, Signals
<1>13. ASSUME NEW c \in Calls, CallerGone(c) PROVE Signals'
  BY <1>13 DEF CallerGone, taskVars, queueVars, deadlineVars, ctxVars,
     hintVars, settingVars, envVars, TypeOK, InTable, Callers, Watchers,
     Tasks, Ended, Subscribed, Looping, Waiting, None, Shape, Signals
<1>14. ASSUME NEW c \in Calls, WatcherKill(c) PROVE Signals'
  BY <1>14 DEF WatcherKill, AfterGraceCall, taskVars, queueVars,
     deadlineVars, ctxVars, hintVars, settingVars, envVars, TypeOK,
     InTable, Callers, Watchers, Tasks, Ended, Subscribed, Looping,
     Waiting, None, Shape, Signals
<1>15. ASSUME NEW c \in Calls, WatcherSeesCancel(c) PROVE Signals'
  BY <1>15 DEF WatcherSeesCancel, AfterGraceCall, taskVars, queueVars,
     deadlineVars, ctxVars, hintVars, settingVars, envVars, TypeOK,
     InTable, Callers, Watchers, Tasks, Ended, Subscribed, Looping,
     Waiting, None, Shape, Signals
<1>16. ASSUME NEW c \in Calls, WatcherSeesEnd(c) PROVE Signals'
  BY <1>16 DEF WatcherSeesEnd, taskVars, queueVars, deadlineVars, ctxVars,
     hintVars, settingVars, envVars, TypeOK, InTable, Callers, Watchers,
     Tasks, Ended, Subscribed, Looping, Waiting, None, Shape, Signals
<1>17. ASSUME NEW c \in Calls, WatcherSeesChange(c) PROVE Signals'
  BY <1>17 DEF WatcherSeesChange, taskVars, queueVars, deadlineVars,
     ctxVars, hintVars, settingVars, envVars, TypeOK, InTable, Callers,
     Watchers, Tasks, Ended, Subscribed, Looping, Waiting, None, Shape,
     Signals
<1>18. ASSUME NEW c \in Calls, WatcherGraceEnds(c) PROVE Signals'
  BY <1>18 DEF WatcherGraceEnds, taskVars, queueVars, deadlineVars,
     ctxVars, hintVars, settingVars, envVars, TypeOK, InTable, Callers,
     Watchers, Tasks, Ended, Subscribed, Looping, Waiting, None, Shape,
     Signals
<1>19. ASSUME NEW c \in Calls, WatcherGraceTimeout(c) PROVE Signals'
  BY <1>19 DEF WatcherGraceTimeout, ForceCancel, taskVars, queueVars,
     deadlineVars, ctxVars, hintVars, settingVars, envVars, TypeOK,
     InTable, Callers, Watchers, Tasks, Ended, Subscribed, Looping,
     Waiting, None, Shape, Signals
<1>20. ASSUME NEW c \in Calls, WatcherFinishes(c) PROVE Signals'
  BY <1>20 DEF WatcherFinishes, taskVars, queueVars, deadlineVars,
     ctxVars, hintVars, settingVars, envVars, TypeOK, InTable, Callers,
     Watchers, Tasks, Ended, Subscribed, Looping, Waiting, None, Shape,
     Signals
<1>21. ASSUME NEW c \in Calls, WatcherReports(c) PROVE Signals'
  BY <1>21 DEF WatcherReports, taskVars, queueVars, deadlineVars, ctxVars,
     hintVars, settingVars, envVars, TypeOK, InTable, Callers, Watchers,
     Tasks, Ended, Subscribed, Looping, Waiting, None, Shape, Signals
<1>22. ASSUME NEW c \in Calls, BgStart(c) PROVE Signals'
  BY <1>22 DEF BgStart, taskVars, queueVars, deadlineVars, ctxVars,
     hintVars, settingVars, envVars, TypeOK, InTable, Callers, Watchers,
     Tasks, Ended, Subscribed, Looping, Waiting, None, Shape, Signals
<1>23. ASSUME NEW c \in Calls, BgChunk(c) PROVE Signals'
  BY <1>23 DEF BgChunk, taskVars, queueVars, deadlineVars, ctxVars,
     hintVars, settingVars, envVars, TypeOK, InTable, Callers, Watchers,
     Tasks, Ended, Subscribed, Looping, Waiting, None, Shape, Signals
<1>24. ASSUME NEW c \in Calls, BgResponds(c) PROVE Signals'
  BY <1>24 DEF BgResponds, taskVars, queueVars, deadlineVars, ctxVars,
     hintVars, settingVars, envVars, TypeOK, InTable, Callers, Watchers,
     Tasks, Ended, Subscribed, Looping, Waiting, None, Shape, Signals
<1>25. ASSUME NEW c \in Calls, BgRaises(c) PROVE Signals'
  BY <1>25 DEF BgRaises, taskVars, queueVars, deadlineVars, ctxVars,
     hintVars, settingVars, envVars, TypeOK, InTable, Callers, Watchers,
     Tasks, Ended, Subscribed, Looping, Waiting, None, Shape, Signals
<1>26. ASSUME NEW c \in Calls, BgCooperates(c) PROVE Signals'
  BY <1>26 DEF BgCooperates, taskVars, queueVars, deadlineVars, ctxVars,
     hintVars, settingVars, envVars, TypeOK, InTable, Callers, Watchers,
     Tasks, Ended, Subscribed, Looping, Waiting, None, Shape, Signals
<1>27. ASSUME NEW c \in Calls, BgStopped(c) PROVE Signals'
  BY <1>27 DEF BgStopped, taskVars, queueVars, deadlineVars, ctxVars,
     hintVars, settingVars, envVars, TypeOK, InTable, Callers, Watchers,
     Tasks, Ended, Subscribed, Looping, Waiting, None, Shape, Signals
<1>28. ASSUME NEW c \in Calls, BgPutsSentinel(c) PROVE Signals'
  BY <1>28 DEF BgPutsSentinel, taskVars, queueVars, deadlineVars, ctxVars,
     hintVars, settingVars, envVars, TypeOK, InTable, Callers, Watchers,
     Tasks, Ended, Subscribed, Looping, Waiting, None, Shape, Signals
<1>29. ASSUME NEW c \in Calls, BgEnds(c) PROVE Signals'
  BY <1>29 DEF BgEnds, taskVars, queueVars, deadlineVars, ctxVars,
     hintVars, settingVars, envVars, TypeOK, InTable, Callers, Watchers,
     Tasks, Ended, Subscribed, Looping, Waiting, None, Shape, Signals
<1>30. ASSUME NEW c \in Calls, RequestOffload(c) PROVE Signals'
  BY <1>30 DEF RequestOffload, Ask, Outdate, CanBound, taskVars,
     queueVars, deadlineVars, ctxVars, hintVars, settingVars, envVars,
     TypeOK, InTable, Callers, Watchers, Tasks, Ended, Subscribed,
     Looping, Waiting, None, Shape, Signals
<1>31. ASSUME NEW c \in Calls, ExtendOffload(c) PROVE Signals'
  BY <1>31 DEF ExtendOffload, Ask, Outdate, taskVars, queueVars,
     deadlineVars, ctxVars, hintVars, settingVars, envVars, TypeOK,
     InTable, Callers, Watchers, Tasks, Ended, Subscribed, Looping,
     Waiting, None, Shape, Signals
<1>32. ASSUME NEW c \in Calls, ExtendKill(c) PROVE Signals'
  BY <1>32 DEF ExtendKill, Ask, Outdate, InTable, taskVars, queueVars,
     deadlineVars, ctxVars, hintVars, settingVars, envVars, TypeOK,
     Callers, Watchers, Tasks, Ended, Subscribed, Looping, Waiting, None,
     Shape, Signals
<1>33. ASSUME NEW c \in Calls, OffloadPasses(c) PROVE Signals'
  BY <1>33 DEF OffloadPasses, taskVars, queueVars, deadlineVars, ctxVars,
     hintVars, settingVars, envVars, TypeOK, InTable, Callers, Watchers,
     Tasks, Ended, Subscribed, Looping, Waiting, None, Shape, Signals
<1>34. ASSUME NEW c \in Calls, KillNears(c) PROVE Signals'
  BY <1>34 DEF KillNears, taskVars, queueVars, deadlineVars, ctxVars,
     hintVars, settingVars, envVars, TypeOK, InTable, Callers, Watchers,
     Tasks, Ended, Subscribed, Looping, Waiting, None, Shape, Signals
<1>35. ASSUME NEW c \in Calls, ShutdownWaits(c) PROVE Signals'
  BY <1>35 DEF ShutdownWaits, taskVars, queueVars, deadlineVars, ctxVars,
     hintVars, settingVars, envVars, TypeOK, InTable, Callers, Watchers,
     Tasks, Ended, Subscribed, Looping, Waiting, None, Shape, Signals
<1>36. ASSUME NEW c \in Calls, NEW force \in BOOLEAN, Cancel(c, force) PROVE Signals'
  BY <1>36 DEF Cancel, Ask, taskVars, queueVars, deadlineVars, ctxVars,
     hintVars, settingVars, envVars, TypeOK, InTable, Callers, Watchers,
     Tasks, Ended, Subscribed, Looping, Waiting, None, Shape, Signals
<1>37. ASSUME NEW s \in Sessions, PopPendingHints(s) PROVE Signals'
  BY <1>37 DEF PopPendingHints, taskVars, queueVars, deadlineVars,
     ctxVars, hintVars, settingVars, envVars, TypeOK, InTable, Callers,
     Watchers, Tasks, Ended, Subscribed, Looping, Waiting, None, Shape,
     Signals
<1>38. ASSUME ChangeSettings PROVE Signals'
  BY <1>38 DEF ChangeSettings, Ask, taskVars, queueVars, deadlineVars,
     ctxVars, hintVars, settingVars, envVars, TypeOK, InTable, Callers,
     Watchers, Tasks, Ended, Subscribed, Looping, Waiting, None, Shape,
     Signals
<1>39. ASSUME Shutdown PROVE Signals'
  BY <1>39 DEF Shutdown, Ask, taskVars, queueVars, deadlineVars, ctxVars,
     hintVars, settingVars, envVars, TypeOK, InTable, Callers, Watchers,
     Tasks, Ended, Subscribed, Looping, Waiting, None, Shape, Signals
<1>. QED
  BY <1>1, <1>2, <1>3, <1>4, <1>5, <1>6, <1>7, <1>8, <1>9, <1>10, <1>11,
     <1>12, <1>13, <1>14, <1>15, <1>16, <1>17, <1>18, <1>19, <1>20, <1>21,
     <1>22, <1>23, <1>24, <1>25, <1>26, <1>27, <1>28, <1>29, <1>30, <1>31,
     <1>32, <1>33, <1>34, <1>35, <1>36, <1>37, <1>38, <1>39 DEF Next,
     CallerStep, WatcherStep, TaskStep, ToolStep, TimePasses, Intervention

LEMMA JoinStep ==
    ASSUME TypeOK, Shape, Signals, JoinIsShort, Next
    PROVE  JoinIsShort'
<1>1. ASSUME NEW c \in Calls, Execute(c) PROVE JoinIsShort'
  BY <1>1 DEF Execute, taskVars, queueVars, deadlineVars, ctxVars,
     hintVars, settingVars, envVars, TypeOK, InTable, Callers, Watchers,
     Tasks, Ended, Subscribed, Looping, Waiting, None, Shape, Signals,
     JoinIsShort
<1>2. ASSUME NEW c \in Calls, CallerFindsDeadline(c) PROVE JoinIsShort'
  BY <1>2 DEF CallerFindsDeadline, DeadlineEvent, DeadlineReached,
     CancelForTimeout, SeedKill, CanBound, BeginOffload, WantsOffload,
     AfterGraceCall, Looping, Subscribed, taskVars, queueVars,
     deadlineVars, ctxVars, hintVars, settingVars, envVars, TypeOK,
     InTable, Callers, Watchers, Tasks, Ended, Waiting, None, Shape,
     Signals, JoinIsShort
<1>3. ASSUME NEW c \in Calls, CallerWaits(c) PROVE JoinIsShort'
  BY <1>3 DEF CallerWaits, taskVars, queueVars, deadlineVars, ctxVars,
     hintVars, settingVars, envVars, TypeOK, InTable, Callers, Watchers,
     Tasks, Ended, Subscribed, Looping, Waiting, None, Shape, Signals,
     JoinIsShort
<1>4. ASSUME NEW c \in Calls, CallerChunk(c) PROVE JoinIsShort'
  BY <1>4 DEF CallerChunk, taskVars, queueVars, deadlineVars, ctxVars,
     hintVars, settingVars, envVars, TypeOK, InTable, Callers, Watchers,
     Tasks, Ended, Subscribed, Looping, Waiting, None, Shape, Signals,
     JoinIsShort
<1>5. ASSUME NEW c \in Calls, CallerStreamClosed(c) PROVE JoinIsShort'
  BY <1>5 DEF CallerStreamClosed, taskVars, queueVars, deadlineVars,
     ctxVars, hintVars, settingVars, envVars, TypeOK, InTable, Callers,
     Watchers, Tasks, Ended, Subscribed, Looping, Waiting, None, Shape,
     Signals, JoinIsShort
<1>6. ASSUME NEW c \in Calls, CallerSeesCancel(c) PROVE JoinIsShort'
  BY <1>6 DEF CallerSeesCancel, AfterGraceCall, taskVars, queueVars,
     deadlineVars, ctxVars, hintVars, settingVars, envVars, TypeOK,
     InTable, Callers, Watchers, Tasks, Ended, Subscribed, Looping,
     Waiting, None, Shape, Signals, JoinIsShort
<1>7. ASSUME NEW c \in Calls, CallerSeesChange(c) PROVE JoinIsShort'
  BY <1>7 DEF CallerSeesChange, taskVars, queueVars, deadlineVars,
     ctxVars, hintVars, settingVars, envVars, TypeOK, InTable, Callers,
     Watchers, Tasks, Ended, Subscribed, Looping, Waiting, None, Shape,
     Signals, JoinIsShort
<1>8. ASSUME NEW c \in Calls, CallerTimeout(c) PROVE JoinIsShort'
  BY <1>8 DEF CallerTimeout, taskVars, queueVars, deadlineVars, ctxVars,
     hintVars, settingVars, envVars, TypeOK, InTable, Callers, Watchers,
     Tasks, Ended, Subscribed, Looping, Waiting, None, Shape, Signals,
     JoinIsShort
<1>9. ASSUME NEW c \in Calls, CallerFired(c) PROVE JoinIsShort'
  BY <1>9 DEF CallerFired, DeadlineEvent, DeadlineReached,
     CancelForTimeout, SeedKill, CanBound, BeginOffload, WantsOffload,
     AfterGraceCall, taskVars, queueVars, deadlineVars, ctxVars, hintVars,
     settingVars, envVars, TypeOK, InTable, Callers, Watchers, Tasks,
     Ended, Subscribed, Looping, Waiting, None, Shape, Signals,
     JoinIsShort
<1>10. ASSUME NEW c \in Calls, CallerGraceEnds(c) PROVE JoinIsShort'
  BY <1>10 DEF CallerGraceEnds, taskVars, queueVars, deadlineVars,
     ctxVars, hintVars, settingVars, envVars, TypeOK, InTable, Callers,
     Watchers, Tasks, Ended, Subscribed, Looping, Waiting, None, Shape,
     Signals, JoinIsShort
<1>11. ASSUME NEW c \in Calls, CallerGraceTimeout(c) PROVE JoinIsShort'
  BY <1>11 DEF CallerGraceTimeout, ForceCancel, taskVars, queueVars,
     deadlineVars, ctxVars, hintVars, settingVars, envVars, TypeOK,
     InTable, Callers, Watchers, Tasks, Ended, Subscribed, Looping,
     Waiting, None, Shape, Signals, JoinIsShort
<1>12. ASSUME NEW c \in Calls, CallerFinishes(c) PROVE JoinIsShort'
  BY <1>12 DEF CallerFinishes, taskVars, queueVars, deadlineVars, ctxVars,
     hintVars, settingVars, envVars, TypeOK, InTable, Callers, Watchers,
     Tasks, Ended, Subscribed, Looping, Waiting, None, Shape, Signals,
     JoinIsShort
<1>13. ASSUME NEW c \in Calls, CallerGone(c) PROVE JoinIsShort'
  BY <1>13 DEF CallerGone, taskVars, queueVars, deadlineVars, ctxVars,
     hintVars, settingVars, envVars, TypeOK, InTable, Callers, Watchers,
     Tasks, Ended, Subscribed, Looping, Waiting, None, Shape, Signals,
     JoinIsShort
<1>14. ASSUME NEW c \in Calls, WatcherKill(c) PROVE JoinIsShort'
  BY <1>14 DEF WatcherKill, AfterGraceCall, taskVars, queueVars,
     deadlineVars, ctxVars, hintVars, settingVars, envVars, TypeOK,
     InTable, Callers, Watchers, Tasks, Ended, Subscribed, Looping,
     Waiting, None, Shape, Signals, JoinIsShort
<1>15. ASSUME NEW c \in Calls, WatcherSeesCancel(c) PROVE JoinIsShort'
  BY <1>15 DEF WatcherSeesCancel, AfterGraceCall, taskVars, queueVars,
     deadlineVars, ctxVars, hintVars, settingVars, envVars, TypeOK,
     InTable, Callers, Watchers, Tasks, Ended, Subscribed, Looping,
     Waiting, None, Shape, Signals, JoinIsShort
<1>16. ASSUME NEW c \in Calls, WatcherSeesEnd(c) PROVE JoinIsShort'
  BY <1>16 DEF WatcherSeesEnd, taskVars, queueVars, deadlineVars, ctxVars,
     hintVars, settingVars, envVars, TypeOK, InTable, Callers, Watchers,
     Tasks, Ended, Subscribed, Looping, Waiting, None, Shape, Signals,
     JoinIsShort
<1>17. ASSUME NEW c \in Calls, WatcherSeesChange(c) PROVE JoinIsShort'
  BY <1>17 DEF WatcherSeesChange, taskVars, queueVars, deadlineVars,
     ctxVars, hintVars, settingVars, envVars, TypeOK, InTable, Callers,
     Watchers, Tasks, Ended, Subscribed, Looping, Waiting, None, Shape,
     Signals, JoinIsShort
<1>18. ASSUME NEW c \in Calls, WatcherGraceEnds(c) PROVE JoinIsShort'
  BY <1>18 DEF WatcherGraceEnds, taskVars, queueVars, deadlineVars,
     ctxVars, hintVars, settingVars, envVars, TypeOK, InTable, Callers,
     Watchers, Tasks, Ended, Subscribed, Looping, Waiting, None, Shape,
     Signals, JoinIsShort
<1>19. ASSUME NEW c \in Calls, WatcherGraceTimeout(c) PROVE JoinIsShort'
  BY <1>19 DEF WatcherGraceTimeout, ForceCancel, taskVars, queueVars,
     deadlineVars, ctxVars, hintVars, settingVars, envVars, TypeOK,
     InTable, Callers, Watchers, Tasks, Ended, Subscribed, Looping,
     Waiting, None, Shape, Signals, JoinIsShort
<1>20. ASSUME NEW c \in Calls, WatcherFinishes(c) PROVE JoinIsShort'
  BY <1>20 DEF WatcherFinishes, taskVars, queueVars, deadlineVars,
     ctxVars, hintVars, settingVars, envVars, TypeOK, InTable, Callers,
     Watchers, Tasks, Ended, Subscribed, Looping, Waiting, None, Shape,
     Signals, JoinIsShort
<1>21. ASSUME NEW c \in Calls, WatcherReports(c) PROVE JoinIsShort'
  BY <1>21 DEF WatcherReports, taskVars, queueVars, deadlineVars, ctxVars,
     hintVars, settingVars, envVars, TypeOK, InTable, Callers, Watchers,
     Tasks, Ended, Subscribed, Looping, Waiting, None, Shape, Signals,
     JoinIsShort
<1>22. ASSUME NEW c \in Calls, BgStart(c) PROVE JoinIsShort'
  BY <1>22 DEF BgStart, taskVars, queueVars, deadlineVars, ctxVars,
     hintVars, settingVars, envVars, TypeOK, InTable, Callers, Watchers,
     Tasks, Ended, Subscribed, Looping, Waiting, None, Shape, Signals,
     JoinIsShort
<1>23. ASSUME NEW c \in Calls, BgChunk(c) PROVE JoinIsShort'
  BY <1>23 DEF BgChunk, taskVars, queueVars, deadlineVars, ctxVars,
     hintVars, settingVars, envVars, TypeOK, InTable, Callers, Watchers,
     Tasks, Ended, Subscribed, Looping, Waiting, None, Shape, Signals,
     JoinIsShort
<1>24. ASSUME NEW c \in Calls, BgResponds(c) PROVE JoinIsShort'
  BY <1>24 DEF BgResponds, taskVars, queueVars, deadlineVars, ctxVars,
     hintVars, settingVars, envVars, TypeOK, InTable, Callers, Watchers,
     Tasks, Ended, Subscribed, Looping, Waiting, None, Shape, Signals,
     JoinIsShort
<1>25. ASSUME NEW c \in Calls, BgRaises(c) PROVE JoinIsShort'
  BY <1>25 DEF BgRaises, taskVars, queueVars, deadlineVars, ctxVars,
     hintVars, settingVars, envVars, TypeOK, InTable, Callers, Watchers,
     Tasks, Ended, Subscribed, Looping, Waiting, None, Shape, Signals,
     JoinIsShort
<1>26. ASSUME NEW c \in Calls, BgCooperates(c) PROVE JoinIsShort'
  BY <1>26 DEF BgCooperates, taskVars, queueVars, deadlineVars, ctxVars,
     hintVars, settingVars, envVars, TypeOK, InTable, Callers, Watchers,
     Tasks, Ended, Subscribed, Looping, Waiting, None, Shape, Signals,
     JoinIsShort
<1>27. ASSUME NEW c \in Calls, BgStopped(c) PROVE JoinIsShort'
  BY <1>27 DEF BgStopped, taskVars, queueVars, deadlineVars, ctxVars,
     hintVars, settingVars, envVars, TypeOK, InTable, Callers, Watchers,
     Tasks, Ended, Subscribed, Looping, Waiting, None, Shape, Signals,
     JoinIsShort
<1>28. ASSUME NEW c \in Calls, BgPutsSentinel(c) PROVE JoinIsShort'
  BY <1>28 DEF BgPutsSentinel, taskVars, queueVars, deadlineVars, ctxVars,
     hintVars, settingVars, envVars, TypeOK, InTable, Callers, Watchers,
     Tasks, Ended, Subscribed, Looping, Waiting, None, Shape, Signals,
     JoinIsShort
<1>29. ASSUME NEW c \in Calls, BgEnds(c) PROVE JoinIsShort'
  BY <1>29 DEF BgEnds, taskVars, queueVars, deadlineVars, ctxVars,
     hintVars, settingVars, envVars, TypeOK, InTable, Callers, Watchers,
     Tasks, Ended, Subscribed, Looping, Waiting, None, Shape, Signals,
     JoinIsShort
<1>30. ASSUME NEW c \in Calls, RequestOffload(c) PROVE JoinIsShort'
  BY <1>30 DEF RequestOffload, Ask, Outdate, CanBound, taskVars,
     queueVars, deadlineVars, ctxVars, hintVars, settingVars, envVars,
     TypeOK, InTable, Callers, Watchers, Tasks, Ended, Subscribed,
     Looping, Waiting, None, Shape, Signals, JoinIsShort
<1>31. ASSUME NEW c \in Calls, ExtendOffload(c) PROVE JoinIsShort'
  BY <1>31 DEF ExtendOffload, Ask, Outdate, taskVars, queueVars,
     deadlineVars, ctxVars, hintVars, settingVars, envVars, TypeOK,
     InTable, Callers, Watchers, Tasks, Ended, Subscribed, Looping,
     Waiting, None, Shape, Signals, JoinIsShort
<1>32. ASSUME NEW c \in Calls, ExtendKill(c) PROVE JoinIsShort'
  BY <1>32 DEF ExtendKill, Ask, Outdate, InTable, taskVars, queueVars,
     deadlineVars, ctxVars, hintVars, settingVars, envVars, TypeOK,
     Callers, Watchers, Tasks, Ended, Subscribed, Looping, Waiting, None,
     Shape, Signals, JoinIsShort
<1>33. ASSUME NEW c \in Calls, OffloadPasses(c) PROVE JoinIsShort'
  BY <1>33 DEF OffloadPasses, taskVars, queueVars, deadlineVars, ctxVars,
     hintVars, settingVars, envVars, TypeOK, InTable, Callers, Watchers,
     Tasks, Ended, Subscribed, Looping, Waiting, None, Shape, Signals,
     JoinIsShort
<1>34. ASSUME NEW c \in Calls, KillNears(c) PROVE JoinIsShort'
  BY <1>34 DEF KillNears, taskVars, queueVars, deadlineVars, ctxVars,
     hintVars, settingVars, envVars, TypeOK, InTable, Callers, Watchers,
     Tasks, Ended, Subscribed, Looping, Waiting, None, Shape, Signals,
     JoinIsShort
<1>35. ASSUME NEW c \in Calls, ShutdownWaits(c) PROVE JoinIsShort'
  BY <1>35 DEF ShutdownWaits, taskVars, queueVars, deadlineVars, ctxVars,
     hintVars, settingVars, envVars, TypeOK, InTable, Callers, Watchers,
     Tasks, Ended, Subscribed, Looping, Waiting, None, Shape, Signals,
     JoinIsShort
<1>36. ASSUME NEW c \in Calls, NEW force \in BOOLEAN, Cancel(c, force) PROVE JoinIsShort'
  BY <1>36 DEF Cancel, Ask, taskVars, queueVars, deadlineVars, ctxVars,
     hintVars, settingVars, envVars, TypeOK, InTable, Callers, Watchers,
     Tasks, Ended, Subscribed, Looping, Waiting, None, Shape, Signals,
     JoinIsShort
<1>37. ASSUME NEW s \in Sessions, PopPendingHints(s) PROVE JoinIsShort'
  BY <1>37 DEF PopPendingHints, taskVars, queueVars, deadlineVars,
     ctxVars, hintVars, settingVars, envVars, TypeOK, InTable, Callers,
     Watchers, Tasks, Ended, Subscribed, Looping, Waiting, None, Shape,
     Signals, JoinIsShort
<1>38. ASSUME ChangeSettings PROVE JoinIsShort'
  BY <1>38 DEF ChangeSettings, Ask, taskVars, queueVars, deadlineVars,
     ctxVars, hintVars, settingVars, envVars, TypeOK, InTable, Callers,
     Watchers, Tasks, Ended, Subscribed, Looping, Waiting, None, Shape,
     Signals, JoinIsShort
<1>39. ASSUME Shutdown PROVE JoinIsShort'
  BY <1>39 DEF Shutdown, Ask, taskVars, queueVars, deadlineVars, ctxVars,
     hintVars, settingVars, envVars, TypeOK, InTable, Callers, Watchers,
     Tasks, Ended, Subscribed, Looping, Waiting, None, Shape, Signals,
     JoinIsShort
<1>. QED
  BY <1>1, <1>2, <1>3, <1>4, <1>5, <1>6, <1>7, <1>8, <1>9, <1>10, <1>11,
     <1>12, <1>13, <1>14, <1>15, <1>16, <1>17, <1>18, <1>19, <1>20, <1>21,
     <1>22, <1>23, <1>24, <1>25, <1>26, <1>27, <1>28, <1>29, <1>30, <1>31,
     <1>32, <1>33, <1>34, <1>35, <1>36, <1>37, <1>38, <1>39 DEF Next,
     CallerStep, WatcherStep, TaskStep, ToolStep, TimePasses, Intervention

LEMMA BoundedStep ==
    ASSUME TypeOK, BackgroundBounded, Next
    PROVE  BackgroundBounded'
<1>1. ASSUME NEW c \in Calls, Execute(c) PROVE BackgroundBounded'
  BY <1>1 DEF Execute, taskVars, queueVars, deadlineVars, ctxVars,
     hintVars, settingVars, envVars, TypeOK, InTable, Callers, Watchers,
     Tasks, Ended, Subscribed, Looping, Waiting, None, BackgroundBounded
<1>2. ASSUME NEW c \in Calls, CallerFindsDeadline(c) PROVE BackgroundBounded'
  BY <1>2 DEF CallerFindsDeadline, DeadlineEvent, DeadlineReached,
     CancelForTimeout, SeedKill, CanBound, BeginOffload, WantsOffload,
     AfterGraceCall, Looping, Subscribed, taskVars, queueVars,
     deadlineVars, ctxVars, hintVars, settingVars, envVars, TypeOK,
     InTable, Callers, Watchers, Tasks, Ended, Waiting, None,
     BackgroundBounded
<1>3. ASSUME NEW c \in Calls, CallerWaits(c) PROVE BackgroundBounded'
  BY <1>3 DEF CallerWaits, taskVars, queueVars, deadlineVars, ctxVars,
     hintVars, settingVars, envVars, TypeOK, InTable, Callers, Watchers,
     Tasks, Ended, Subscribed, Looping, Waiting, None, BackgroundBounded
<1>4. ASSUME NEW c \in Calls, CallerChunk(c) PROVE BackgroundBounded'
  BY <1>4 DEF CallerChunk, taskVars, queueVars, deadlineVars, ctxVars,
     hintVars, settingVars, envVars, TypeOK, InTable, Callers, Watchers,
     Tasks, Ended, Subscribed, Looping, Waiting, None, BackgroundBounded
<1>5. ASSUME NEW c \in Calls, CallerStreamClosed(c) PROVE BackgroundBounded'
  BY <1>5 DEF CallerStreamClosed, taskVars, queueVars, deadlineVars,
     ctxVars, hintVars, settingVars, envVars, TypeOK, InTable, Callers,
     Watchers, Tasks, Ended, Subscribed, Looping, Waiting, None,
     BackgroundBounded
<1>6. ASSUME NEW c \in Calls, CallerSeesCancel(c) PROVE BackgroundBounded'
  BY <1>6 DEF CallerSeesCancel, AfterGraceCall, taskVars, queueVars,
     deadlineVars, ctxVars, hintVars, settingVars, envVars, TypeOK,
     InTable, Callers, Watchers, Tasks, Ended, Subscribed, Looping,
     Waiting, None, BackgroundBounded
<1>7. ASSUME NEW c \in Calls, CallerSeesChange(c) PROVE BackgroundBounded'
  BY <1>7 DEF CallerSeesChange, taskVars, queueVars, deadlineVars,
     ctxVars, hintVars, settingVars, envVars, TypeOK, InTable, Callers,
     Watchers, Tasks, Ended, Subscribed, Looping, Waiting, None,
     BackgroundBounded
<1>8. ASSUME NEW c \in Calls, CallerTimeout(c) PROVE BackgroundBounded'
  BY <1>8 DEF CallerTimeout, taskVars, queueVars, deadlineVars, ctxVars,
     hintVars, settingVars, envVars, TypeOK, InTable, Callers, Watchers,
     Tasks, Ended, Subscribed, Looping, Waiting, None, BackgroundBounded
<1>9. ASSUME NEW c \in Calls, CallerFired(c) PROVE BackgroundBounded'
  BY <1>9 DEF CallerFired, DeadlineEvent, DeadlineReached,
     CancelForTimeout, SeedKill, CanBound, BeginOffload, WantsOffload,
     AfterGraceCall, taskVars, queueVars, deadlineVars, ctxVars, hintVars,
     settingVars, envVars, TypeOK, InTable, Callers, Watchers, Tasks,
     Ended, Subscribed, Looping, Waiting, None, BackgroundBounded
<1>10. ASSUME NEW c \in Calls, CallerGraceEnds(c) PROVE BackgroundBounded'
  BY <1>10 DEF CallerGraceEnds, taskVars, queueVars, deadlineVars,
     ctxVars, hintVars, settingVars, envVars, TypeOK, InTable, Callers,
     Watchers, Tasks, Ended, Subscribed, Looping, Waiting, None,
     BackgroundBounded
<1>11. ASSUME NEW c \in Calls, CallerGraceTimeout(c) PROVE BackgroundBounded'
  BY <1>11 DEF CallerGraceTimeout, ForceCancel, taskVars, queueVars,
     deadlineVars, ctxVars, hintVars, settingVars, envVars, TypeOK,
     InTable, Callers, Watchers, Tasks, Ended, Subscribed, Looping,
     Waiting, None, BackgroundBounded
<1>12. ASSUME NEW c \in Calls, CallerFinishes(c) PROVE BackgroundBounded'
  BY <1>12 DEF CallerFinishes, taskVars, queueVars, deadlineVars, ctxVars,
     hintVars, settingVars, envVars, TypeOK, InTable, Callers, Watchers,
     Tasks, Ended, Subscribed, Looping, Waiting, None, BackgroundBounded
<1>13. ASSUME NEW c \in Calls, CallerGone(c) PROVE BackgroundBounded'
  BY <1>13 DEF CallerGone, taskVars, queueVars, deadlineVars, ctxVars,
     hintVars, settingVars, envVars, TypeOK, InTable, Callers, Watchers,
     Tasks, Ended, Subscribed, Looping, Waiting, None, BackgroundBounded
<1>14. ASSUME NEW c \in Calls, WatcherKill(c) PROVE BackgroundBounded'
  BY <1>14 DEF WatcherKill, AfterGraceCall, taskVars, queueVars,
     deadlineVars, ctxVars, hintVars, settingVars, envVars, TypeOK,
     InTable, Callers, Watchers, Tasks, Ended, Subscribed, Looping,
     Waiting, None, BackgroundBounded
<1>15. ASSUME NEW c \in Calls, WatcherSeesCancel(c) PROVE BackgroundBounded'
  BY <1>15 DEF WatcherSeesCancel, AfterGraceCall, taskVars, queueVars,
     deadlineVars, ctxVars, hintVars, settingVars, envVars, TypeOK,
     InTable, Callers, Watchers, Tasks, Ended, Subscribed, Looping,
     Waiting, None, BackgroundBounded
<1>16. ASSUME NEW c \in Calls, WatcherSeesEnd(c) PROVE BackgroundBounded'
  BY <1>16 DEF WatcherSeesEnd, taskVars, queueVars, deadlineVars, ctxVars,
     hintVars, settingVars, envVars, TypeOK, InTable, Callers, Watchers,
     Tasks, Ended, Subscribed, Looping, Waiting, None, BackgroundBounded
<1>17. ASSUME NEW c \in Calls, WatcherSeesChange(c) PROVE BackgroundBounded'
  BY <1>17 DEF WatcherSeesChange, taskVars, queueVars, deadlineVars,
     ctxVars, hintVars, settingVars, envVars, TypeOK, InTable, Callers,
     Watchers, Tasks, Ended, Subscribed, Looping, Waiting, None,
     BackgroundBounded
<1>18. ASSUME NEW c \in Calls, WatcherGraceEnds(c) PROVE BackgroundBounded'
  BY <1>18 DEF WatcherGraceEnds, taskVars, queueVars, deadlineVars,
     ctxVars, hintVars, settingVars, envVars, TypeOK, InTable, Callers,
     Watchers, Tasks, Ended, Subscribed, Looping, Waiting, None,
     BackgroundBounded
<1>19. ASSUME NEW c \in Calls, WatcherGraceTimeout(c) PROVE BackgroundBounded'
  BY <1>19 DEF WatcherGraceTimeout, ForceCancel, taskVars, queueVars,
     deadlineVars, ctxVars, hintVars, settingVars, envVars, TypeOK,
     InTable, Callers, Watchers, Tasks, Ended, Subscribed, Looping,
     Waiting, None, BackgroundBounded
<1>20. ASSUME NEW c \in Calls, WatcherFinishes(c) PROVE BackgroundBounded'
  BY <1>20 DEF WatcherFinishes, taskVars, queueVars, deadlineVars,
     ctxVars, hintVars, settingVars, envVars, TypeOK, InTable, Callers,
     Watchers, Tasks, Ended, Subscribed, Looping, Waiting, None,
     BackgroundBounded
<1>21. ASSUME NEW c \in Calls, WatcherReports(c) PROVE BackgroundBounded'
  BY <1>21 DEF WatcherReports, taskVars, queueVars, deadlineVars, ctxVars,
     hintVars, settingVars, envVars, TypeOK, InTable, Callers, Watchers,
     Tasks, Ended, Subscribed, Looping, Waiting, None, BackgroundBounded
<1>22. ASSUME NEW c \in Calls, BgStart(c) PROVE BackgroundBounded'
  BY <1>22 DEF BgStart, taskVars, queueVars, deadlineVars, ctxVars,
     hintVars, settingVars, envVars, TypeOK, InTable, Callers, Watchers,
     Tasks, Ended, Subscribed, Looping, Waiting, None, BackgroundBounded
<1>23. ASSUME NEW c \in Calls, BgChunk(c) PROVE BackgroundBounded'
  BY <1>23 DEF BgChunk, taskVars, queueVars, deadlineVars, ctxVars,
     hintVars, settingVars, envVars, TypeOK, InTable, Callers, Watchers,
     Tasks, Ended, Subscribed, Looping, Waiting, None, BackgroundBounded
<1>24. ASSUME NEW c \in Calls, BgResponds(c) PROVE BackgroundBounded'
  BY <1>24 DEF BgResponds, taskVars, queueVars, deadlineVars, ctxVars,
     hintVars, settingVars, envVars, TypeOK, InTable, Callers, Watchers,
     Tasks, Ended, Subscribed, Looping, Waiting, None, BackgroundBounded
<1>25. ASSUME NEW c \in Calls, BgRaises(c) PROVE BackgroundBounded'
  BY <1>25 DEF BgRaises, taskVars, queueVars, deadlineVars, ctxVars,
     hintVars, settingVars, envVars, TypeOK, InTable, Callers, Watchers,
     Tasks, Ended, Subscribed, Looping, Waiting, None, BackgroundBounded
<1>26. ASSUME NEW c \in Calls, BgCooperates(c) PROVE BackgroundBounded'
  BY <1>26 DEF BgCooperates, taskVars, queueVars, deadlineVars, ctxVars,
     hintVars, settingVars, envVars, TypeOK, InTable, Callers, Watchers,
     Tasks, Ended, Subscribed, Looping, Waiting, None, BackgroundBounded
<1>27. ASSUME NEW c \in Calls, BgStopped(c) PROVE BackgroundBounded'
  BY <1>27 DEF BgStopped, taskVars, queueVars, deadlineVars, ctxVars,
     hintVars, settingVars, envVars, TypeOK, InTable, Callers, Watchers,
     Tasks, Ended, Subscribed, Looping, Waiting, None, BackgroundBounded
<1>28. ASSUME NEW c \in Calls, BgPutsSentinel(c) PROVE BackgroundBounded'
  BY <1>28 DEF BgPutsSentinel, taskVars, queueVars, deadlineVars, ctxVars,
     hintVars, settingVars, envVars, TypeOK, InTable, Callers, Watchers,
     Tasks, Ended, Subscribed, Looping, Waiting, None, BackgroundBounded
<1>29. ASSUME NEW c \in Calls, BgEnds(c) PROVE BackgroundBounded'
  BY <1>29 DEF BgEnds, taskVars, queueVars, deadlineVars, ctxVars,
     hintVars, settingVars, envVars, TypeOK, InTable, Callers, Watchers,
     Tasks, Ended, Subscribed, Looping, Waiting, None, BackgroundBounded
<1>30. ASSUME NEW c \in Calls, RequestOffload(c) PROVE BackgroundBounded'
  BY <1>30 DEF RequestOffload, Ask, Outdate, CanBound, taskVars,
     queueVars, deadlineVars, ctxVars, hintVars, settingVars, envVars,
     TypeOK, InTable, Callers, Watchers, Tasks, Ended, Subscribed,
     Looping, Waiting, None, BackgroundBounded
<1>31. ASSUME NEW c \in Calls, ExtendOffload(c) PROVE BackgroundBounded'
  BY <1>31 DEF ExtendOffload, Ask, Outdate, taskVars, queueVars,
     deadlineVars, ctxVars, hintVars, settingVars, envVars, TypeOK,
     InTable, Callers, Watchers, Tasks, Ended, Subscribed, Looping,
     Waiting, None, BackgroundBounded
<1>32. ASSUME NEW c \in Calls, ExtendKill(c) PROVE BackgroundBounded'
  BY <1>32 DEF ExtendKill, Ask, Outdate, InTable, taskVars, queueVars,
     deadlineVars, ctxVars, hintVars, settingVars, envVars, TypeOK,
     Callers, Watchers, Tasks, Ended, Subscribed, Looping, Waiting, None,
     BackgroundBounded
<1>33. ASSUME NEW c \in Calls, OffloadPasses(c) PROVE BackgroundBounded'
  BY <1>33 DEF OffloadPasses, taskVars, queueVars, deadlineVars, ctxVars,
     hintVars, settingVars, envVars, TypeOK, InTable, Callers, Watchers,
     Tasks, Ended, Subscribed, Looping, Waiting, None, BackgroundBounded
<1>34. ASSUME NEW c \in Calls, KillNears(c) PROVE BackgroundBounded'
  BY <1>34 DEF KillNears, taskVars, queueVars, deadlineVars, ctxVars,
     hintVars, settingVars, envVars, TypeOK, InTable, Callers, Watchers,
     Tasks, Ended, Subscribed, Looping, Waiting, None, BackgroundBounded
<1>35. ASSUME NEW c \in Calls, ShutdownWaits(c) PROVE BackgroundBounded'
  BY <1>35 DEF ShutdownWaits, taskVars, queueVars, deadlineVars, ctxVars,
     hintVars, settingVars, envVars, TypeOK, InTable, Callers, Watchers,
     Tasks, Ended, Subscribed, Looping, Waiting, None, BackgroundBounded
<1>36. ASSUME NEW c \in Calls, NEW force \in BOOLEAN, Cancel(c, force) PROVE BackgroundBounded'
  BY <1>36 DEF Cancel, Ask, taskVars, queueVars, deadlineVars, ctxVars,
     hintVars, settingVars, envVars, TypeOK, InTable, Callers, Watchers,
     Tasks, Ended, Subscribed, Looping, Waiting, None, BackgroundBounded
<1>37. ASSUME NEW s \in Sessions, PopPendingHints(s) PROVE BackgroundBounded'
  BY <1>37 DEF PopPendingHints, taskVars, queueVars, deadlineVars,
     ctxVars, hintVars, settingVars, envVars, TypeOK, InTable, Callers,
     Watchers, Tasks, Ended, Subscribed, Looping, Waiting, None,
     BackgroundBounded
<1>38. ASSUME ChangeSettings PROVE BackgroundBounded'
  BY <1>38 DEF ChangeSettings, Ask, taskVars, queueVars, deadlineVars,
     ctxVars, hintVars, settingVars, envVars, TypeOK, InTable, Callers,
     Watchers, Tasks, Ended, Subscribed, Looping, Waiting, None,
     BackgroundBounded
<1>39. ASSUME Shutdown PROVE BackgroundBounded'
  BY <1>39 DEF Shutdown, Ask, taskVars, queueVars, deadlineVars, ctxVars,
     hintVars, settingVars, envVars, TypeOK, InTable, Callers, Watchers,
     Tasks, Ended, Subscribed, Looping, Waiting, None, BackgroundBounded
<1>. QED
  BY <1>1, <1>2, <1>3, <1>4, <1>5, <1>6, <1>7, <1>8, <1>9, <1>10, <1>11,
     <1>12, <1>13, <1>14, <1>15, <1>16, <1>17, <1>18, <1>19, <1>20, <1>21,
     <1>22, <1>23, <1>24, <1>25, <1>26, <1>27, <1>28, <1>29, <1>30, <1>31,
     <1>32, <1>33, <1>34, <1>35, <1>36, <1>37, <1>38, <1>39 DEF Next,
     CallerStep, WatcherStep, TaskStep, ToolStep, TimePasses, Intervention

LEMMA HintStep ==
    ASSUME TypeOK, Shape, HintOnce, Next
    PROVE  HintOnce'
<1>1. ASSUME NEW c \in Calls, Execute(c) PROVE HintOnce'
  BY <1>1 DEF Execute, taskVars, queueVars, deadlineVars, ctxVars,
     hintVars, settingVars, envVars, TypeOK, InTable, Callers, Watchers,
     Tasks, Ended, Subscribed, Looping, Waiting, None, Shape, HintOnce
<1>2. ASSUME NEW c \in Calls, CallerFindsDeadline(c) PROVE HintOnce'
  BY <1>2 DEF CallerFindsDeadline, DeadlineEvent, DeadlineReached,
     CancelForTimeout, SeedKill, CanBound, BeginOffload, WantsOffload,
     AfterGraceCall, Looping, Subscribed, taskVars, queueVars,
     deadlineVars, ctxVars, hintVars, settingVars, envVars, TypeOK,
     InTable, Callers, Watchers, Tasks, Ended, Waiting, None, Shape,
     HintOnce
<1>3. ASSUME NEW c \in Calls, CallerWaits(c) PROVE HintOnce'
  BY <1>3 DEF CallerWaits, taskVars, queueVars, deadlineVars, ctxVars,
     hintVars, settingVars, envVars, TypeOK, InTable, Callers, Watchers,
     Tasks, Ended, Subscribed, Looping, Waiting, None, Shape, HintOnce
<1>4. ASSUME NEW c \in Calls, CallerChunk(c) PROVE HintOnce'
  BY <1>4 DEF CallerChunk, taskVars, queueVars, deadlineVars, ctxVars,
     hintVars, settingVars, envVars, TypeOK, InTable, Callers, Watchers,
     Tasks, Ended, Subscribed, Looping, Waiting, None, Shape, HintOnce
<1>5. ASSUME NEW c \in Calls, CallerStreamClosed(c) PROVE HintOnce'
  BY <1>5 DEF CallerStreamClosed, taskVars, queueVars, deadlineVars,
     ctxVars, hintVars, settingVars, envVars, TypeOK, InTable, Callers,
     Watchers, Tasks, Ended, Subscribed, Looping, Waiting, None, Shape,
     HintOnce
<1>6. ASSUME NEW c \in Calls, CallerSeesCancel(c) PROVE HintOnce'
  BY <1>6 DEF CallerSeesCancel, AfterGraceCall, taskVars, queueVars,
     deadlineVars, ctxVars, hintVars, settingVars, envVars, TypeOK,
     InTable, Callers, Watchers, Tasks, Ended, Subscribed, Looping,
     Waiting, None, Shape, HintOnce
<1>7. ASSUME NEW c \in Calls, CallerSeesChange(c) PROVE HintOnce'
  BY <1>7 DEF CallerSeesChange, taskVars, queueVars, deadlineVars,
     ctxVars, hintVars, settingVars, envVars, TypeOK, InTable, Callers,
     Watchers, Tasks, Ended, Subscribed, Looping, Waiting, None, Shape,
     HintOnce
<1>8. ASSUME NEW c \in Calls, CallerTimeout(c) PROVE HintOnce'
  BY <1>8 DEF CallerTimeout, taskVars, queueVars, deadlineVars, ctxVars,
     hintVars, settingVars, envVars, TypeOK, InTable, Callers, Watchers,
     Tasks, Ended, Subscribed, Looping, Waiting, None, Shape, HintOnce
<1>9. ASSUME NEW c \in Calls, CallerFired(c) PROVE HintOnce'
  BY <1>9 DEF CallerFired, DeadlineEvent, DeadlineReached,
     CancelForTimeout, SeedKill, CanBound, BeginOffload, WantsOffload,
     AfterGraceCall, taskVars, queueVars, deadlineVars, ctxVars, hintVars,
     settingVars, envVars, TypeOK, InTable, Callers, Watchers, Tasks,
     Ended, Subscribed, Looping, Waiting, None, Shape, HintOnce
<1>10. ASSUME NEW c \in Calls, CallerGraceEnds(c) PROVE HintOnce'
  BY <1>10 DEF CallerGraceEnds, taskVars, queueVars, deadlineVars,
     ctxVars, hintVars, settingVars, envVars, TypeOK, InTable, Callers,
     Watchers, Tasks, Ended, Subscribed, Looping, Waiting, None, Shape,
     HintOnce
<1>11. ASSUME NEW c \in Calls, CallerGraceTimeout(c) PROVE HintOnce'
  BY <1>11 DEF CallerGraceTimeout, ForceCancel, taskVars, queueVars,
     deadlineVars, ctxVars, hintVars, settingVars, envVars, TypeOK,
     InTable, Callers, Watchers, Tasks, Ended, Subscribed, Looping,
     Waiting, None, Shape, HintOnce
<1>12. ASSUME NEW c \in Calls, CallerFinishes(c) PROVE HintOnce'
  BY <1>12 DEF CallerFinishes, taskVars, queueVars, deadlineVars, ctxVars,
     hintVars, settingVars, envVars, TypeOK, InTable, Callers, Watchers,
     Tasks, Ended, Subscribed, Looping, Waiting, None, Shape, HintOnce
<1>13. ASSUME NEW c \in Calls, CallerGone(c) PROVE HintOnce'
  BY <1>13 DEF CallerGone, taskVars, queueVars, deadlineVars, ctxVars,
     hintVars, settingVars, envVars, TypeOK, InTable, Callers, Watchers,
     Tasks, Ended, Subscribed, Looping, Waiting, None, Shape, HintOnce
<1>14. ASSUME NEW c \in Calls, WatcherKill(c) PROVE HintOnce'
  BY <1>14 DEF WatcherKill, AfterGraceCall, taskVars, queueVars,
     deadlineVars, ctxVars, hintVars, settingVars, envVars, TypeOK,
     InTable, Callers, Watchers, Tasks, Ended, Subscribed, Looping,
     Waiting, None, Shape, HintOnce
<1>15. ASSUME NEW c \in Calls, WatcherSeesCancel(c) PROVE HintOnce'
  BY <1>15 DEF WatcherSeesCancel, AfterGraceCall, taskVars, queueVars,
     deadlineVars, ctxVars, hintVars, settingVars, envVars, TypeOK,
     InTable, Callers, Watchers, Tasks, Ended, Subscribed, Looping,
     Waiting, None, Shape, HintOnce
<1>16. ASSUME NEW c \in Calls, WatcherSeesEnd(c) PROVE HintOnce'
  BY <1>16 DEF WatcherSeesEnd, taskVars, queueVars, deadlineVars, ctxVars,
     hintVars, settingVars, envVars, TypeOK, InTable, Callers, Watchers,
     Tasks, Ended, Subscribed, Looping, Waiting, None, Shape, HintOnce
<1>17. ASSUME NEW c \in Calls, WatcherSeesChange(c) PROVE HintOnce'
  BY <1>17 DEF WatcherSeesChange, taskVars, queueVars, deadlineVars,
     ctxVars, hintVars, settingVars, envVars, TypeOK, InTable, Callers,
     Watchers, Tasks, Ended, Subscribed, Looping, Waiting, None, Shape,
     HintOnce
<1>18. ASSUME NEW c \in Calls, WatcherGraceEnds(c) PROVE HintOnce'
  BY <1>18 DEF WatcherGraceEnds, taskVars, queueVars, deadlineVars,
     ctxVars, hintVars, settingVars, envVars, TypeOK, InTable, Callers,
     Watchers, Tasks, Ended, Subscribed, Looping, Waiting, None, Shape,
     HintOnce
<1>19. ASSUME NEW c \in Calls, WatcherGraceTimeout(c) PROVE HintOnce'
  BY <1>19 DEF WatcherGraceTimeout, ForceCancel, taskVars, queueVars,
     deadlineVars, ctxVars, hintVars, settingVars, envVars, TypeOK,
     InTable, Callers, Watchers, Tasks, Ended, Subscribed, Looping,
     Waiting, None, Shape, HintOnce
<1>20. ASSUME NEW c \in Calls, WatcherFinishes(c) PROVE HintOnce'
  BY <1>20 DEF WatcherFinishes, taskVars, queueVars, deadlineVars,
     ctxVars, hintVars, settingVars, envVars, TypeOK, InTable, Callers,
     Watchers, Tasks, Ended, Subscribed, Looping, Waiting, None, Shape,
     HintOnce
<1>21. ASSUME NEW c \in Calls, WatcherReports(c) PROVE HintOnce'
  BY <1>21 DEF WatcherReports, taskVars, queueVars, deadlineVars, ctxVars,
     hintVars, settingVars, envVars, TypeOK, InTable, Callers, Watchers,
     Tasks, Ended, Subscribed, Looping, Waiting, None, Shape, HintOnce
<1>22. ASSUME NEW c \in Calls, BgStart(c) PROVE HintOnce'
  BY <1>22 DEF BgStart, taskVars, queueVars, deadlineVars, ctxVars,
     hintVars, settingVars, envVars, TypeOK, InTable, Callers, Watchers,
     Tasks, Ended, Subscribed, Looping, Waiting, None, Shape, HintOnce
<1>23. ASSUME NEW c \in Calls, BgChunk(c) PROVE HintOnce'
  BY <1>23 DEF BgChunk, taskVars, queueVars, deadlineVars, ctxVars,
     hintVars, settingVars, envVars, TypeOK, InTable, Callers, Watchers,
     Tasks, Ended, Subscribed, Looping, Waiting, None, Shape, HintOnce
<1>24. ASSUME NEW c \in Calls, BgResponds(c) PROVE HintOnce'
  BY <1>24 DEF BgResponds, taskVars, queueVars, deadlineVars, ctxVars,
     hintVars, settingVars, envVars, TypeOK, InTable, Callers, Watchers,
     Tasks, Ended, Subscribed, Looping, Waiting, None, Shape, HintOnce
<1>25. ASSUME NEW c \in Calls, BgRaises(c) PROVE HintOnce'
  BY <1>25 DEF BgRaises, taskVars, queueVars, deadlineVars, ctxVars,
     hintVars, settingVars, envVars, TypeOK, InTable, Callers, Watchers,
     Tasks, Ended, Subscribed, Looping, Waiting, None, Shape, HintOnce
<1>26. ASSUME NEW c \in Calls, BgCooperates(c) PROVE HintOnce'
  BY <1>26 DEF BgCooperates, taskVars, queueVars, deadlineVars, ctxVars,
     hintVars, settingVars, envVars, TypeOK, InTable, Callers, Watchers,
     Tasks, Ended, Subscribed, Looping, Waiting, None, Shape, HintOnce
<1>27. ASSUME NEW c \in Calls, BgStopped(c) PROVE HintOnce'
  BY <1>27 DEF BgStopped, taskVars, queueVars, deadlineVars, ctxVars,
     hintVars, settingVars, envVars, TypeOK, InTable, Callers, Watchers,
     Tasks, Ended, Subscribed, Looping, Waiting, None, Shape, HintOnce
<1>28. ASSUME NEW c \in Calls, BgPutsSentinel(c) PROVE HintOnce'
  BY <1>28 DEF BgPutsSentinel, taskVars, queueVars, deadlineVars, ctxVars,
     hintVars, settingVars, envVars, TypeOK, InTable, Callers, Watchers,
     Tasks, Ended, Subscribed, Looping, Waiting, None, Shape, HintOnce
<1>29. ASSUME NEW c \in Calls, BgEnds(c) PROVE HintOnce'
  BY <1>29 DEF BgEnds, taskVars, queueVars, deadlineVars, ctxVars,
     hintVars, settingVars, envVars, TypeOK, InTable, Callers, Watchers,
     Tasks, Ended, Subscribed, Looping, Waiting, None, Shape, HintOnce
<1>30. ASSUME NEW c \in Calls, RequestOffload(c) PROVE HintOnce'
  BY <1>30 DEF RequestOffload, Ask, Outdate, CanBound, taskVars,
     queueVars, deadlineVars, ctxVars, hintVars, settingVars, envVars,
     TypeOK, InTable, Callers, Watchers, Tasks, Ended, Subscribed,
     Looping, Waiting, None, Shape, HintOnce
<1>31. ASSUME NEW c \in Calls, ExtendOffload(c) PROVE HintOnce'
  BY <1>31 DEF ExtendOffload, Ask, Outdate, taskVars, queueVars,
     deadlineVars, ctxVars, hintVars, settingVars, envVars, TypeOK,
     InTable, Callers, Watchers, Tasks, Ended, Subscribed, Looping,
     Waiting, None, Shape, HintOnce
<1>32. ASSUME NEW c \in Calls, ExtendKill(c) PROVE HintOnce'
  BY <1>32 DEF ExtendKill, Ask, Outdate, InTable, taskVars, queueVars,
     deadlineVars, ctxVars, hintVars, settingVars, envVars, TypeOK,
     Callers, Watchers, Tasks, Ended, Subscribed, Looping, Waiting, None,
     Shape, HintOnce
<1>33. ASSUME NEW c \in Calls, OffloadPasses(c) PROVE HintOnce'
  BY <1>33 DEF OffloadPasses, taskVars, queueVars, deadlineVars, ctxVars,
     hintVars, settingVars, envVars, TypeOK, InTable, Callers, Watchers,
     Tasks, Ended, Subscribed, Looping, Waiting, None, Shape, HintOnce
<1>34. ASSUME NEW c \in Calls, KillNears(c) PROVE HintOnce'
  BY <1>34 DEF KillNears, taskVars, queueVars, deadlineVars, ctxVars,
     hintVars, settingVars, envVars, TypeOK, InTable, Callers, Watchers,
     Tasks, Ended, Subscribed, Looping, Waiting, None, Shape, HintOnce
<1>35. ASSUME NEW c \in Calls, ShutdownWaits(c) PROVE HintOnce'
  BY <1>35 DEF ShutdownWaits, taskVars, queueVars, deadlineVars, ctxVars,
     hintVars, settingVars, envVars, TypeOK, InTable, Callers, Watchers,
     Tasks, Ended, Subscribed, Looping, Waiting, None, Shape, HintOnce
<1>36. ASSUME NEW c \in Calls, NEW force \in BOOLEAN, Cancel(c, force) PROVE HintOnce'
  BY <1>36 DEF Cancel, Ask, taskVars, queueVars, deadlineVars, ctxVars,
     hintVars, settingVars, envVars, TypeOK, InTable, Callers, Watchers,
     Tasks, Ended, Subscribed, Looping, Waiting, None, Shape, HintOnce
<1>37. ASSUME NEW s \in Sessions, PopPendingHints(s) PROVE HintOnce'
  BY <1>37 DEF PopPendingHints, taskVars, queueVars, deadlineVars,
     ctxVars, hintVars, settingVars, envVars, TypeOK, InTable, Callers,
     Watchers, Tasks, Ended, Subscribed, Looping, Waiting, None, Shape,
     HintOnce
<1>38. ASSUME ChangeSettings PROVE HintOnce'
  BY <1>38 DEF ChangeSettings, Ask, taskVars, queueVars, deadlineVars,
     ctxVars, hintVars, settingVars, envVars, TypeOK, InTable, Callers,
     Watchers, Tasks, Ended, Subscribed, Looping, Waiting, None, Shape,
     HintOnce
<1>39. ASSUME Shutdown PROVE HintOnce'
  BY <1>39 DEF Shutdown, Ask, taskVars, queueVars, deadlineVars, ctxVars,
     hintVars, settingVars, envVars, TypeOK, InTable, Callers, Watchers,
     Tasks, Ended, Subscribed, Looping, Waiting, None, Shape, HintOnce
<1>. QED
  BY <1>1, <1>2, <1>3, <1>4, <1>5, <1>6, <1>7, <1>8, <1>9, <1>10, <1>11,
     <1>12, <1>13, <1>14, <1>15, <1>16, <1>17, <1>18, <1>19, <1>20, <1>21,
     <1>22, <1>23, <1>24, <1>25, <1>26, <1>27, <1>28, <1>29, <1>30, <1>31,
     <1>32, <1>33, <1>34, <1>35, <1>36, <1>37, <1>38, <1>39 DEF Next,
     CallerStep, WatcherStep, TaskStep, ToolStep, TimePasses, Intervention

LEMMA Stutter == ASSUME IInv, UNCHANGED vars PROVE IInv'
BY DEF IInv, vars, taskVars, queueVars, deadlineVars, ctxVars, hintVars,
   settingVars, envVars, TypeOK, Shape, Signals, JoinIsShort,
   BackgroundBounded, HintOnce

THEOREM Inductive == Spec => []IInv
<1>1. Init => IInv
  <2>. SUFFICES ASSUME Init PROVE IInv
    OBVIOUS
  <2>1. TypeOK
    BY TypeInit
  <2>. QED
    BY <2>1 DEF Init, IInv, Shape, Signals, JoinIsShort, BackgroundBounded,
       HintOnce, Ended
<1>2. ASSUME IInv, [Next]_vars PROVE IInv'
  <2>1. CASE Next
    BY <1>2, <2>1, TypeStep, ShapeStep, SignalsStep, JoinStep, BoundedStep,
       HintStep DEF IInv
  <2>2. CASE UNCHANGED vars
    BY <1>2, <2>2, Stutter
  <2>. QED
    BY <1>2, <2>1, <2>2
<1>. QED
  BY <1>1, <1>2, PTL DEF Spec

\* The type invariant of ToolCoordinator, for every number of calls.
THEOREM TypeCorrect == Spec => []TypeOK
BY Inductive, PTL DEF IInv

\* Work in the background always has a kill deadline.
THEOREM OffloadIsBounded == Spec => []BackgroundBounded
BY Inductive, PTL DEF IInv

\* A caller that waits for a task that is over has something that wakes it.
THEOREM CallersAreWoken == Spec => []CallerIsWoken
<1>1. IInv => CallerIsWoken
  BY DEF IInv, Signals, CallerIsWoken
<1>. QED
  BY <1>1, Inductive, PTL

\* Nobody joins a tool that still runs and was not told to stop.
THEOREM JoinsAreShort == Spec => []JoinIsShort
BY Inductive, PTL DEF IInv

\* A call moved to the background leaves exactly one hint.
THEOREM OneHint == Spec => []HintOnce
BY Inductive, PTL DEF IInv

\* How the outcome of one call may change in a step.
Moves(from, to) ==
    \/ to = from
    \/ from = "none" /\ to = "open"
    \/ from = "open" /\ to \in {"answered", "background", "lost"}
    \/ from = "background" /\ to \in {"reported", "lost"}

\* A step touches one call, and moves its outcome as CallOutcome says.
StepOf(c) ==
    /\ Moves(Outcome(c), Outcome(c)')
    /\ \A d \in Calls \ {c} : Outcome(d)' = Outcome(d)
Quiet == \A d \in Calls : Outcome(d)' = Outcome(d)

LEMMA OutcomeStep ==
    ASSUME TypeOK, Shape, Next
    PROVE  Quiet \/ \E c \in Calls : StepOf(c)
<1>1. ASSUME NEW c \in Calls, Execute(c) PROVE StepOf(c)
  BY <1>1 DEF Execute, taskVars, queueVars, deadlineVars, ctxVars,
     hintVars, settingVars, envVars, StepOf, Moves, Quiet, Outcome, Lost,
     Shape, TypeOK, InTable, Callers, Watchers, Tasks, Ended, Subscribed,
     Looping, Waiting, None
<1>2. ASSUME NEW c \in Calls, CallerFindsDeadline(c) PROVE StepOf(c)
  BY <1>2 DEF CallerFindsDeadline, DeadlineEvent, DeadlineReached,
     CancelForTimeout, SeedKill, CanBound, BeginOffload, WantsOffload,
     AfterGraceCall, Looping, Subscribed, taskVars, queueVars,
     deadlineVars, ctxVars, hintVars, settingVars, envVars, StepOf, Moves,
     Quiet, Outcome, Lost, Shape, TypeOK, InTable, Callers, Watchers,
     Tasks, Ended, Waiting, None
<1>3. ASSUME NEW c \in Calls, CallerWaits(c) PROVE Quiet
  BY <1>3 DEF CallerWaits, taskVars, queueVars, deadlineVars, ctxVars,
     hintVars, settingVars, envVars, StepOf, Moves, Quiet, Outcome, Lost,
     Shape, TypeOK, InTable, Callers, Watchers, Tasks, Ended, Subscribed,
     Looping, Waiting, None
<1>4. ASSUME NEW c \in Calls, CallerChunk(c) PROVE Quiet
  BY <1>4 DEF CallerChunk, taskVars, queueVars, deadlineVars, ctxVars,
     hintVars, settingVars, envVars, StepOf, Moves, Quiet, Outcome, Lost,
     Shape, TypeOK, InTable, Callers, Watchers, Tasks, Ended, Subscribed,
     Looping, Waiting, None
<1>5. ASSUME NEW c \in Calls, CallerStreamClosed(c) PROVE Quiet
  BY <1>5 DEF CallerStreamClosed, taskVars, queueVars, deadlineVars,
     ctxVars, hintVars, settingVars, envVars, StepOf, Moves, Quiet,
     Outcome, Lost, Shape, TypeOK, InTable, Callers, Watchers, Tasks,
     Ended, Subscribed, Looping, Waiting, None
<1>6. ASSUME NEW c \in Calls, CallerSeesCancel(c) PROVE Quiet
  BY <1>6 DEF CallerSeesCancel, AfterGraceCall, taskVars, queueVars,
     deadlineVars, ctxVars, hintVars, settingVars, envVars, StepOf, Moves,
     Quiet, Outcome, Lost, Shape, TypeOK, InTable, Callers, Watchers,
     Tasks, Ended, Subscribed, Looping, Waiting, None
<1>7. ASSUME NEW c \in Calls, CallerSeesChange(c) PROVE Quiet
  BY <1>7 DEF CallerSeesChange, taskVars, queueVars, deadlineVars,
     ctxVars, hintVars, settingVars, envVars, StepOf, Moves, Quiet,
     Outcome, Lost, Shape, TypeOK, InTable, Callers, Watchers, Tasks,
     Ended, Subscribed, Looping, Waiting, None
<1>8. ASSUME NEW c \in Calls, CallerTimeout(c) PROVE Quiet
  BY <1>8 DEF CallerTimeout, taskVars, queueVars, deadlineVars, ctxVars,
     hintVars, settingVars, envVars, StepOf, Moves, Quiet, Outcome, Lost,
     Shape, TypeOK, InTable, Callers, Watchers, Tasks, Ended, Subscribed,
     Looping, Waiting, None
<1>9. ASSUME NEW c \in Calls, CallerFired(c) PROVE StepOf(c)
  BY <1>9 DEF CallerFired, DeadlineEvent, DeadlineReached,
     CancelForTimeout, SeedKill, CanBound, BeginOffload, WantsOffload,
     AfterGraceCall, taskVars, queueVars, deadlineVars, ctxVars, hintVars,
     settingVars, envVars, StepOf, Moves, Quiet, Outcome, Lost, Shape,
     TypeOK, InTable, Callers, Watchers, Tasks, Ended, Subscribed,
     Looping, Waiting, None
<1>10. ASSUME NEW c \in Calls, CallerGraceEnds(c) PROVE StepOf(c)
  BY <1>10 DEF CallerGraceEnds, taskVars, queueVars, deadlineVars,
     ctxVars, hintVars, settingVars, envVars, StepOf, Moves, Quiet,
     Outcome, Lost, Shape, TypeOK, InTable, Callers, Watchers, Tasks,
     Ended, Subscribed, Looping, Waiting, None
<1>11. ASSUME NEW c \in Calls, CallerGraceTimeout(c) PROVE Quiet
  BY <1>11 DEF CallerGraceTimeout, ForceCancel, taskVars, queueVars,
     deadlineVars, ctxVars, hintVars, settingVars, envVars, StepOf, Moves,
     Quiet, Outcome, Lost, Shape, TypeOK, InTable, Callers, Watchers,
     Tasks, Ended, Subscribed, Looping, Waiting, None
<1>12. ASSUME NEW c \in Calls, CallerFinishes(c) PROVE StepOf(c)
  BY <1>12 DEF CallerFinishes, taskVars, queueVars, deadlineVars, ctxVars,
     hintVars, settingVars, envVars, StepOf, Moves, Quiet, Outcome, Lost,
     Shape, TypeOK, InTable, Callers, Watchers, Tasks, Ended, Subscribed,
     Looping, Waiting, None
<1>13. ASSUME NEW c \in Calls, CallerGone(c) PROVE StepOf(c)
  BY <1>13 DEF CallerGone, taskVars, queueVars, deadlineVars, ctxVars,
     hintVars, settingVars, envVars, StepOf, Moves, Quiet, Outcome, Lost,
     Shape, TypeOK, InTable, Callers, Watchers, Tasks, Ended, Subscribed,
     Looping, Waiting, None
<1>14. ASSUME NEW c \in Calls, WatcherKill(c) PROVE Quiet
  BY <1>14 DEF WatcherKill, AfterGraceCall, taskVars, queueVars,
     deadlineVars, ctxVars, hintVars, settingVars, envVars, StepOf, Moves,
     Quiet, Outcome, Lost, Shape, TypeOK, InTable, Callers, Watchers,
     Tasks, Ended, Subscribed, Looping, Waiting, None
<1>15. ASSUME NEW c \in Calls, WatcherSeesCancel(c) PROVE Quiet
  BY <1>15 DEF WatcherSeesCancel, AfterGraceCall, taskVars, queueVars,
     deadlineVars, ctxVars, hintVars, settingVars, envVars, StepOf, Moves,
     Quiet, Outcome, Lost, Shape, TypeOK, InTable, Callers, Watchers,
     Tasks, Ended, Subscribed, Looping, Waiting, None
<1>16. ASSUME NEW c \in Calls, WatcherSeesEnd(c) PROVE Quiet
  BY <1>16 DEF WatcherSeesEnd, taskVars, queueVars, deadlineVars, ctxVars,
     hintVars, settingVars, envVars, StepOf, Moves, Quiet, Outcome, Lost,
     Shape, TypeOK, InTable, Callers, Watchers, Tasks, Ended, Subscribed,
     Looping, Waiting, None
<1>17. ASSUME NEW c \in Calls, WatcherSeesChange(c) PROVE Quiet
  BY <1>17 DEF WatcherSeesChange, taskVars, queueVars, deadlineVars,
     ctxVars, hintVars, settingVars, envVars, StepOf, Moves, Quiet,
     Outcome, Lost, Shape, TypeOK, InTable, Callers, Watchers, Tasks,
     Ended, Subscribed, Looping, Waiting, None
<1>18. ASSUME NEW c \in Calls, WatcherGraceEnds(c) PROVE StepOf(c)
  BY <1>18 DEF WatcherGraceEnds, taskVars, queueVars, deadlineVars,
     ctxVars, hintVars, settingVars, envVars, StepOf, Moves, Quiet,
     Outcome, Lost, Shape, TypeOK, InTable, Callers, Watchers, Tasks,
     Ended, Subscribed, Looping, Waiting, None
<1>19. ASSUME NEW c \in Calls, WatcherGraceTimeout(c) PROVE Quiet
  BY <1>19 DEF WatcherGraceTimeout, ForceCancel, taskVars, queueVars,
     deadlineVars, ctxVars, hintVars, settingVars, envVars, StepOf, Moves,
     Quiet, Outcome, Lost, Shape, TypeOK, InTable, Callers, Watchers,
     Tasks, Ended, Subscribed, Looping, Waiting, None
<1>20. ASSUME NEW c \in Calls, WatcherFinishes(c) PROVE Quiet
  BY <1>20 DEF WatcherFinishes, taskVars, queueVars, deadlineVars,
     ctxVars, hintVars, settingVars, envVars, StepOf, Moves, Quiet,
     Outcome, Lost, Shape, TypeOK, InTable, Callers, Watchers, Tasks,
     Ended, Subscribed, Looping, Waiting, None
<1>21. ASSUME NEW c \in Calls, WatcherReports(c) PROVE StepOf(c)
  BY <1>21 DEF WatcherReports, taskVars, queueVars, deadlineVars, ctxVars,
     hintVars, settingVars, envVars, StepOf, Moves, Quiet, Outcome, Lost,
     Shape, TypeOK, InTable, Callers, Watchers, Tasks, Ended, Subscribed,
     Looping, Waiting, None
<1>22. ASSUME NEW c \in Calls, BgStart(c) PROVE Quiet
  BY <1>22 DEF BgStart, taskVars, queueVars, deadlineVars, ctxVars,
     hintVars, settingVars, envVars, StepOf, Moves, Quiet, Outcome, Lost,
     Shape, TypeOK, InTable, Callers, Watchers, Tasks, Ended, Subscribed,
     Looping, Waiting, None
<1>23. ASSUME NEW c \in Calls, BgChunk(c) PROVE Quiet
  BY <1>23 DEF BgChunk, taskVars, queueVars, deadlineVars, ctxVars,
     hintVars, settingVars, envVars, StepOf, Moves, Quiet, Outcome, Lost,
     Shape, TypeOK, InTable, Callers, Watchers, Tasks, Ended, Subscribed,
     Looping, Waiting, None
<1>24. ASSUME NEW c \in Calls, BgResponds(c) PROVE Quiet
  BY <1>24 DEF BgResponds, taskVars, queueVars, deadlineVars, ctxVars,
     hintVars, settingVars, envVars, StepOf, Moves, Quiet, Outcome, Lost,
     Shape, TypeOK, InTable, Callers, Watchers, Tasks, Ended, Subscribed,
     Looping, Waiting, None
<1>25. ASSUME NEW c \in Calls, BgRaises(c) PROVE Quiet
  BY <1>25 DEF BgRaises, taskVars, queueVars, deadlineVars, ctxVars,
     hintVars, settingVars, envVars, StepOf, Moves, Quiet, Outcome, Lost,
     Shape, TypeOK, InTable, Callers, Watchers, Tasks, Ended, Subscribed,
     Looping, Waiting, None
<1>26. ASSUME NEW c \in Calls, BgCooperates(c) PROVE Quiet
  BY <1>26 DEF BgCooperates, taskVars, queueVars, deadlineVars, ctxVars,
     hintVars, settingVars, envVars, StepOf, Moves, Quiet, Outcome, Lost,
     Shape, TypeOK, InTable, Callers, Watchers, Tasks, Ended, Subscribed,
     Looping, Waiting, None
<1>27. ASSUME NEW c \in Calls, BgStopped(c) PROVE Quiet
  BY <1>27 DEF BgStopped, taskVars, queueVars, deadlineVars, ctxVars,
     hintVars, settingVars, envVars, StepOf, Moves, Quiet, Outcome, Lost,
     Shape, TypeOK, InTable, Callers, Watchers, Tasks, Ended, Subscribed,
     Looping, Waiting, None
<1>28. ASSUME NEW c \in Calls, BgPutsSentinel(c) PROVE Quiet
  BY <1>28 DEF BgPutsSentinel, taskVars, queueVars, deadlineVars, ctxVars,
     hintVars, settingVars, envVars, StepOf, Moves, Quiet, Outcome, Lost,
     Shape, TypeOK, InTable, Callers, Watchers, Tasks, Ended, Subscribed,
     Looping, Waiting, None
<1>29. ASSUME NEW c \in Calls, BgEnds(c) PROVE Quiet
  BY <1>29 DEF BgEnds, taskVars, queueVars, deadlineVars, ctxVars,
     hintVars, settingVars, envVars, StepOf, Moves, Quiet, Outcome, Lost,
     Shape, TypeOK, InTable, Callers, Watchers, Tasks, Ended, Subscribed,
     Looping, Waiting, None
<1>30. ASSUME NEW c \in Calls, RequestOffload(c) PROVE Quiet
  BY <1>30 DEF RequestOffload, Ask, Outdate, CanBound, taskVars,
     queueVars, deadlineVars, ctxVars, hintVars, settingVars, envVars,
     StepOf, Moves, Quiet, Outcome, Lost, Shape, TypeOK, InTable, Callers,
     Watchers, Tasks, Ended, Subscribed, Looping, Waiting, None
<1>31. ASSUME NEW c \in Calls, ExtendOffload(c) PROVE Quiet
  BY <1>31 DEF ExtendOffload, Ask, Outdate, taskVars, queueVars,
     deadlineVars, ctxVars, hintVars, settingVars, envVars, StepOf, Moves,
     Quiet, Outcome, Lost, Shape, TypeOK, InTable, Callers, Watchers,
     Tasks, Ended, Subscribed, Looping, Waiting, None
<1>32. ASSUME NEW c \in Calls, ExtendKill(c) PROVE Quiet
  BY <1>32 DEF ExtendKill, Ask, Outdate, InTable, taskVars, queueVars,
     deadlineVars, ctxVars, hintVars, settingVars, envVars, StepOf, Moves,
     Quiet, Outcome, Lost, Shape, TypeOK, Callers, Watchers, Tasks, Ended,
     Subscribed, Looping, Waiting, None
<1>33. ASSUME NEW c \in Calls, OffloadPasses(c) PROVE Quiet
  BY <1>33 DEF OffloadPasses, taskVars, queueVars, deadlineVars, ctxVars,
     hintVars, settingVars, envVars, StepOf, Moves, Quiet, Outcome, Lost,
     Shape, TypeOK, InTable, Callers, Watchers, Tasks, Ended, Subscribed,
     Looping, Waiting, None
<1>34. ASSUME NEW c \in Calls, KillNears(c) PROVE Quiet
  BY <1>34 DEF KillNears, taskVars, queueVars, deadlineVars, ctxVars,
     hintVars, settingVars, envVars, StepOf, Moves, Quiet, Outcome, Lost,
     Shape, TypeOK, InTable, Callers, Watchers, Tasks, Ended, Subscribed,
     Looping, Waiting, None
<1>35. ASSUME NEW c \in Calls, ShutdownWaits(c) PROVE Quiet
  BY <1>35 DEF ShutdownWaits, taskVars, queueVars, deadlineVars, ctxVars,
     hintVars, settingVars, envVars, StepOf, Moves, Quiet, Outcome, Lost,
     Shape, TypeOK, InTable, Callers, Watchers, Tasks, Ended, Subscribed,
     Looping, Waiting, None
<1>36. ASSUME NEW c \in Calls, NEW force \in BOOLEAN, Cancel(c, force) PROVE Quiet
  BY <1>36 DEF Cancel, taskVars, queueVars, deadlineVars, ctxVars,
     hintVars, settingVars, envVars, Quiet, Outcome, Lost, Shape, TypeOK,
     InTable, Callers, Watchers, Tasks, Ended, Subscribed, Looping,
     Waiting, None
<1>37. ASSUME NEW s \in Sessions, PopPendingHints(s) PROVE Quiet
  BY <1>37 DEF PopPendingHints, taskVars, queueVars, deadlineVars,
     ctxVars, hintVars, settingVars, envVars, Quiet, Outcome, Lost, Shape,
     TypeOK, InTable, Callers, Watchers, Tasks, Ended, Subscribed,
     Looping, Waiting, None
<1>38. ASSUME ChangeSettings PROVE Quiet
  BY <1>38 DEF ChangeSettings, taskVars, queueVars, deadlineVars, ctxVars,
     hintVars, settingVars, envVars, Quiet, Outcome, Lost, Shape, TypeOK,
     InTable, Callers, Watchers, Tasks, Ended, Subscribed, Looping,
     Waiting, None
<1>39. ASSUME Shutdown PROVE Quiet
  BY <1>39 DEF Shutdown, taskVars, queueVars, deadlineVars, ctxVars,
     hintVars, settingVars, envVars, Quiet, Outcome, Lost, Shape, TypeOK,
     InTable, Callers, Watchers, Tasks, Ended, Subscribed, Looping,
     Waiting, None
<1>. QED
  BY <1>1, <1>2, <1>3, <1>4, <1>5, <1>6, <1>7, <1>8, <1>9, <1>10, <1>11,
     <1>12, <1>13, <1>14, <1>15, <1>16, <1>17, <1>18, <1>19, <1>20, <1>21,
     <1>22, <1>23, <1>24, <1>25, <1>26, <1>27, <1>28, <1>29, <1>30, <1>31,
     <1>32, <1>33, <1>34, <1>35, <1>36, <1>37, <1>38, <1>39 DEF Next,
     CallerStep, WatcherStep, TaskStep, ToolStep, TimePasses, Intervention

\* Every step of the code is a step of CallOutcome, or stutters: a call is
\* answered, or moved to the background and reported, once.
THEOREM Refinement == Spec => OneOutcome
<1>1. Init => Abstract!Init
  <2>. SUFFICES ASSUME Init PROVE Abstract!Init
    OBVIOUS
  <2>1. ASSUME NEW c \in Calls PROVE Outcome(c) = "none"
    <3>1. status[c] = "new" /\ caller[c] = "idle" /\ watcher[c] = "idle"
      BY DEF Init
    <3>. QED
      BY <3>1, ZenonT(20) DEF Outcome, Subscribed, Looping, Waiting, Lost
  <2>. QED
    BY <2>1 DEF Abstract!Init
<1>2. ASSUME IInv, [Next]_vars
      PROVE  [Abstract!Next]_([c \in Calls |-> Outcome(c)])
  <2>1. CASE Next
    <3>1. CASE Quiet
      BY <3>1 DEF Quiet
    <3>2. ASSUME NEW c \in Calls, StepOf(c)
          PROVE  [Abstract!Next]_([d \in Calls |-> Outcome(d)])
      <4>1. [d \in Calls |-> Outcome(d)]' =
              [[d \in Calls |-> Outcome(d)] EXCEPT ![c] = Outcome(c)']
        BY <3>2 DEF StepOf
      <4>. QED
        BY <3>2, <4>1 DEF StepOf, Moves, Abstract!Next, Abstract!Begin,
           Abstract!Answer, Abstract!Background, Abstract!Report,
           Abstract!Lose, Abstract!Move
    <3>. QED
      BY <1>2, <2>1, <3>1, <3>2, OutcomeStep DEF IInv
  <2>2. CASE UNCHANGED vars
    BY <2>2 DEF vars, Outcome, Lost
  <2>. QED
    BY <1>2, <2>1, <2>2
<1>. QED
  BY <1>1, <1>2, Inductive, PTL DEF Spec, OneOutcome, Abstract!Spec
=============================================================================

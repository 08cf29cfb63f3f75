-------------------------- MODULE ApprovalsProofs --------------------------
(***************************************************************************)
(* Proofs about Approvals, for any number of requests, sessions and calls  *)
(* and any limit of the table.  Shape says how the table, a record's       *)
(* status, its future and its waiter go together: a listed record is one   *)
(* that is pending, its future is open or was cancelled by its own waiter, *)
(* and what a user was told is what the future holds.                      *)
(***************************************************************************)
EXTENDS Approvals, FiniteSetTheorems, TLAPS

\* How a record, its future and its waiter go together.
ShapeOf(r) ==
    /\ r \in table <=> status[r] = "pending"
    /\ status[r] = "none" =>
         /\ wait[r] = "idle" /\ told[r] = "none"
         /\ future[r] = "none" /\ rule[r] = "none"
    /\ status[r] # "none" => wait[r] # "idle" /\ future[r] # "none"
    /\ r \in table => future[r] \in {"pending", "cancelled"} /\ told[r] = "none"
    /\ future[r] = "pending" => wait[r] = "waiting" /\ r \in table
    /\ future[r] = "cancelled" => wait[r] \in {"woken", "expired", "broken"}
    /\ wait[r] \in Results => wait[r] = future[r]
    /\ future[r] = "approved" =>
         told[r] = RuleScope(scope[r]) /\ status[r] = "approved"
    /\ told[r] \in {"exact", "similar"} => future[r] \in {"approved", "cancelled"}
    /\ rule[r] # "none" => wait[r] = "approved" /\ rule[r] = told[r]

Shape == \A r \in Requests : ShapeOf(r)

IInv == TypeOK /\ Shape /\ OneRecordPerCall /\ OnlyWhatWasGranted

LEMMA TypeInit == Init => TypeOK
  BY RequestsAssumption DEF Init, TypeOK, Scopes, Decisions, Statuses,
     Results, Futures, Over, Waits

LEMMA TypeStep ==
    ASSUME TypeOK, Next
    PROVE  TypeOK'
<1>1. ASSUME NEW r \in Requests, NEW s \in Scopes, Approve(r, s) PROVE TypeOK'
  BY <1>1 DEF Approve, Resolve, Settle, originVars, recordVars, waiterVars,
     TypeOK, Scopes, Decisions, Statuses, Results, Futures, Over, Waits
<1>2. ASSUME NEW r \in Requests, Deny(r) PROVE TypeOK'
  BY <1>2 DEF Deny, Resolve, Settle, originVars, recordVars, waiterVars,
     TypeOK, Scopes, Decisions, Statuses, Results, Futures, Over, Waits
<1>3. ASSUME NEW s \in Sessions, CancelAll(s) PROVE TypeOK'
  BY <1>3 DEF CancelAll, Settle, originVars, recordVars, waiterVars, TypeOK,
     Scopes, Decisions, Statuses, Results, Futures, Over, Waits
<1>4. ASSUME NEW s \in Sessions, CancelRun(s) PROVE TypeOK'
  BY <1>4 DEF CancelRun, Break, Settle, originVars, recordVars, waiterVars,
     TypeOK, Scopes, Decisions, Statuses, Results, Futures, Over, Waits
<1>5. ASSUME NEW r \in Requests, Resumes(r) PROVE TypeOK'
  BY <1>5 DEF Resumes, RuleScope, originVars, recordVars, waiterVars,
     TypeOK, Scopes, Decisions, Statuses, Results, Futures, Over, Waits
<1>6. ASSUME NEW r \in Requests, TimerFires(r) PROVE TypeOK'
  BY <1>6 DEF TimerFires, Settle, originVars, recordVars, waiterVars,
     TypeOK, Scopes, Decisions, Statuses, Results, Futures, Over, Waits
<1>7. ASSUME NEW r \in Requests, Expires(r) PROVE TypeOK'
  BY <1>7 DEF Expires, Resolve, originVars, recordVars, waiterVars, TypeOK,
     Scopes, Decisions, Statuses, Results, Futures, Over, Waits
<1>8. ASSUME NEW r \in Requests, Ask(r) PROVE TypeOK'
  <2>1. Cardinality(Asked) \in Nat
    <3>1. IsFiniteSet(Asked)
      BY FS_Subset, RequestsAssumption DEF Asked
    <3>. QED
      BY <3>1, FS_CardinalityType
  <2>2. born' \in [Requests -> Nat]
    BY <1>8, <2>1 DEF Ask, TypeOK
  <2>3. table' \in SUBSET Requests /\ aged' \in SUBSET table'
    BY <1>8 DEF Ask, Stale, TypeOK
  <2>4. status' \in [Requests -> Statuses]
    BY <1>8 DEF Ask, TypeOK, Statuses, Decisions
  <2>5. future' \in [Requests -> Futures]
    BY <1>8 DEF Ask, Settle, TypeOK, Futures, Results, Decisions
  <2>. QED
    BY <1>8, <2>2, <2>3, <2>4, <2>5 DEF Ask, originVars, TypeOK, Waits
<1>9. ASSUME NEW r \in Requests, CancelTool(r) PROVE TypeOK'
  BY <1>9 DEF CancelTool, Break, Settle, originVars, recordVars, waiterVars,
     TypeOK, Scopes, Decisions, Statuses, Results, Futures, Over, Waits
<1>10. ASSUME NEW r \in Requests, Ages(r) PROVE TypeOK'
  BY <1>10 DEF Ages, originVars, recordVars, waiterVars, TypeOK, Scopes,
     Decisions, Statuses, Results, Futures, Over, Waits
<1>. QED
  BY <1>1, <1>2, <1>3, <1>4, <1>5, <1>6, <1>7, <1>8, <1>9, <1>10 DEF Next,
     UserStep, WaiterStep

LEMMA ShapeStep ==
    ASSUME TypeOK, Shape, Next
    PROVE  Shape'
<1>1. ASSUME NEW r \in Requests, NEW s \in Scopes, Approve(r, s) PROVE Shape'
  BY <1>1 DEF Approve, Resolve, Settle, originVars, recordVars, waiterVars,
     ShapeOf, TypeOK, Shape, Scopes, Decisions, Statuses, Results, Futures,
     Over, Waits, RuleScope
<1>2. ASSUME NEW r \in Requests, Deny(r) PROVE Shape'
  BY <1>2 DEF Deny, Resolve, Settle, originVars, recordVars, waiterVars,
     ShapeOf, TypeOK, Shape, Scopes, Decisions, Statuses, Results, Futures,
     Over, Waits, RuleScope
<1>3. ASSUME NEW s \in Sessions, CancelAll(s) PROVE Shape'
  BY <1>3 DEF CancelAll, Settle, originVars, recordVars, waiterVars,
     ShapeOf, TypeOK, Shape, Scopes, Decisions, Statuses, Results, Futures,
     Over, Waits, RuleScope
<1>4. ASSUME NEW s \in Sessions, CancelRun(s) PROVE Shape'
  BY <1>4 DEF CancelRun, Break, Settle, originVars, recordVars, waiterVars,
     ShapeOf, TypeOK, Shape, Scopes, Decisions, Statuses, Results, Futures,
     Over, Waits, RuleScope
<1>5. ASSUME NEW r \in Requests, Resumes(r) PROVE Shape'
  BY <1>5 DEF Resumes, RuleScope, originVars, recordVars, waiterVars,
     ShapeOf, TypeOK, Shape, Scopes, Decisions, Statuses, Results, Futures,
     Over, Waits
<1>6. ASSUME NEW r \in Requests, TimerFires(r) PROVE Shape'
  BY <1>6 DEF TimerFires, Settle, originVars, recordVars, waiterVars,
     ShapeOf, TypeOK, Shape, Scopes, Decisions, Statuses, Results, Futures,
     Over, Waits, RuleScope
<1>7. ASSUME NEW r \in Requests, Expires(r) PROVE Shape'
  BY <1>7 DEF Expires, Resolve, originVars, recordVars, waiterVars, ShapeOf,
     TypeOK, Shape, Scopes, Decisions, Statuses, Results, Futures, Over,
     Waits, RuleScope
<1>8. ASSUME NEW r \in Requests, Ask(r) PROVE Shape'
  <2>1. PICK stale \in SUBSET table, collected \in SUBSET table :
          /\ stale = Stale(r) /\ collected \subseteq table \ stale
          /\ table' = (table \ (stale \cup collected)) \cup {r}
          /\ status' = [[q \in Requests |-> IF q \in collected THEN "timeout"
                                   ELSE IF q \in stale THEN "superseded"
                                   ELSE status[q]] EXCEPT ![r] = "pending"]
          /\ future' = [Settle(stale \cup collected, "timeout")
                            EXCEPT ![r] = "pending"]
    <3>1. Collected(table \ Stale(r)) \in SUBSET (table \ Stale(r))
      BY DEF Collected
    <3>2. Stale(r) \in SUBSET table
      BY DEF Stale
    <3>. QED
      BY <1>8, <3>1, <3>2 DEF Ask
  <2>2. /\ scope' = scope /\ rule' = rule /\ told' = told
        /\ wait' = [wait EXCEPT ![r] = "waiting"] /\ status[r] = "none"
    BY <1>8 DEF Ask
  <2>3. ASSUME NEW p \in Requests PROVE ShapeOf(p)'
    <3>1. CASE p = r
      BY <2>1, <2>2, <3>1 DEF ShapeOf, Shape, Settle, TypeOK, Results,
         Decisions
    <3>2. CASE p # r /\ p \in stale \cup collected
      <4>1. /\ p \in table /\ p \notin table'
            /\ status'[p] \in {"timeout", "superseded"} /\ wait'[p] = wait[p]
        BY <2>1, <2>2, <3>2 DEF TypeOK
      <4>2. future'[p] = IF future[p] = "pending" THEN "timeout" ELSE future[p]
        BY <2>1, <3>2 DEF Settle
      <4>3. ShapeOf(p)
        BY DEF Shape
      <4>4. wait[p] \notin Results
        BY <4>1, <4>3 DEF ShapeOf, Results, Decisions
      <4>. QED
        BY <2>2, <4>1, <4>2, <4>3, <4>4 DEF ShapeOf, RuleScope
    <3>3. CASE p # r /\ p \notin stale \cup collected
      BY <2>1, <2>2, <3>3 DEF ShapeOf, Shape, Settle, TypeOK, RuleScope,
         Results, Decisions
    <3>. QED
      BY <3>1, <3>2, <3>3
  <2>. QED
    BY <2>3 DEF Shape
<1>9. ASSUME NEW r \in Requests, CancelTool(r) PROVE Shape'
  BY <1>9 DEF CancelTool, Break, Settle, originVars, recordVars, waiterVars,
     ShapeOf, TypeOK, Shape, Scopes, Decisions, Statuses, Results, Futures,
     Over, Waits, RuleScope
<1>10. ASSUME NEW r \in Requests, Ages(r) PROVE Shape'
  BY <1>10 DEF Ages, originVars, recordVars, waiterVars, ShapeOf, TypeOK,
     Shape, Scopes, Decisions, Statuses, Results, Futures, Over, Waits,
     RuleScope
<1>. QED
  BY <1>1, <1>2, <1>3, <1>4, <1>5, <1>6, <1>7, <1>8, <1>9, <1>10 DEF Next,
     UserStep, WaiterStep

LEMMA OneStep ==
    ASSUME TypeOK, Shape, OneRecordPerCall, Next
    PROVE  OneRecordPerCall'
<1>1. ASSUME NEW r \in Requests, NEW s \in Scopes, Approve(r, s) PROVE OneRecordPerCall'
  BY <1>1 DEF Approve, Resolve, Settle, originVars, recordVars, waiterVars,
     OneRecordPerCall, TypeOK
<1>2. ASSUME NEW r \in Requests, Deny(r) PROVE OneRecordPerCall'
  BY <1>2 DEF Deny, Resolve, Settle, originVars, recordVars, waiterVars,
     OneRecordPerCall, TypeOK
<1>3. ASSUME NEW s \in Sessions, CancelAll(s) PROVE OneRecordPerCall'
  BY <1>3 DEF CancelAll, Settle, originVars, recordVars, waiterVars,
     OneRecordPerCall, TypeOK
<1>4. ASSUME NEW s \in Sessions, CancelRun(s) PROVE OneRecordPerCall'
  BY <1>4 DEF CancelRun, Break, Settle, originVars, recordVars, waiterVars,
     OneRecordPerCall, TypeOK
<1>5. ASSUME NEW r \in Requests, Resumes(r) PROVE OneRecordPerCall'
  BY <1>5 DEF Resumes, RuleScope, originVars, recordVars, waiterVars,
     OneRecordPerCall, TypeOK
<1>6. ASSUME NEW r \in Requests, TimerFires(r) PROVE OneRecordPerCall'
  BY <1>6 DEF TimerFires, Settle, originVars, recordVars, waiterVars,
     OneRecordPerCall, TypeOK
<1>7. ASSUME NEW r \in Requests, Expires(r) PROVE OneRecordPerCall'
  BY <1>7 DEF Expires, Resolve, originVars, recordVars, waiterVars,
     OneRecordPerCall, TypeOK
<1>8. ASSUME NEW r \in Requests, Ask(r) PROVE OneRecordPerCall'
  <2>1. PICK stale \in SUBSET table, collected \in SUBSET table :
          /\ stale = Stale(r) /\ collected \subseteq table \ stale
          /\ table' = (table \ (stale \cup collected)) \cup {r}
          /\ status' = [[q \in Requests |-> IF q \in collected THEN "timeout"
                                   ELSE IF q \in stale THEN "superseded"
                                   ELSE status[q]] EXCEPT ![r] = "pending"]
          /\ future' = [Settle(stale \cup collected, "timeout")
                            EXCEPT ![r] = "pending"]
    <3>1. Collected(table \ Stale(r)) \in SUBSET (table \ Stale(r))
      BY DEF Collected
    <3>2. Stale(r) \in SUBSET table
      BY DEF Stale
    <3>. QED
      BY <1>8, <3>1, <3>2 DEF Ask
  <2>. QED
    BY <1>8, <2>1 DEF Ask, originVars, Stale, OneRecordPerCall, TypeOK
<1>9. ASSUME NEW r \in Requests, CancelTool(r) PROVE OneRecordPerCall'
  BY <1>9 DEF CancelTool, Break, Settle, originVars, recordVars, waiterVars,
     OneRecordPerCall, TypeOK
<1>10. ASSUME NEW r \in Requests, Ages(r) PROVE OneRecordPerCall'
  BY <1>10 DEF Ages, originVars, recordVars, waiterVars, OneRecordPerCall,
     TypeOK
<1>. QED
  BY <1>1, <1>2, <1>3, <1>4, <1>5, <1>6, <1>7, <1>8, <1>9, <1>10 DEF Next,
     UserStep, WaiterStep

LEMMA GrantStep ==
    ASSUME TypeOK, Shape, OnlyWhatWasGranted, Next
    PROVE  OnlyWhatWasGranted'
<1>1. ASSUME NEW r \in Requests, NEW s \in Scopes, Approve(r, s) PROVE OnlyWhatWasGranted'
  BY <1>1 DEF Approve, Resolve, Settle, originVars, recordVars, waiterVars,
     OnlyWhatWasGranted, ShapeOf, TypeOK, Shape, Scopes, Decisions,
     Statuses, Results, Futures, Over, Waits, RuleScope
<1>2. ASSUME NEW r \in Requests, Deny(r) PROVE OnlyWhatWasGranted'
  BY <1>2 DEF Deny, Resolve, Settle, originVars, recordVars, waiterVars,
     OnlyWhatWasGranted, ShapeOf, TypeOK, Shape, Scopes, Decisions,
     Statuses, Results, Futures, Over, Waits, RuleScope
<1>3. ASSUME NEW s \in Sessions, CancelAll(s) PROVE OnlyWhatWasGranted'
  BY <1>3 DEF CancelAll, Settle, originVars, recordVars, waiterVars,
     OnlyWhatWasGranted, ShapeOf, TypeOK, Shape, Scopes, Decisions,
     Statuses, Results, Futures, Over, Waits, RuleScope
<1>4. ASSUME NEW s \in Sessions, CancelRun(s) PROVE OnlyWhatWasGranted'
  BY <1>4 DEF CancelRun, Break, Settle, originVars, recordVars, waiterVars,
     OnlyWhatWasGranted, ShapeOf, TypeOK, Shape, Scopes, Decisions,
     Statuses, Results, Futures, Over, Waits, RuleScope
<1>5. ASSUME NEW r \in Requests, Resumes(r) PROVE OnlyWhatWasGranted'
  BY <1>5 DEF Resumes, RuleScope, originVars, recordVars, waiterVars,
     OnlyWhatWasGranted, ShapeOf, TypeOK, Shape, Scopes, Decisions,
     Statuses, Results, Futures, Over, Waits
<1>6. ASSUME NEW r \in Requests, TimerFires(r) PROVE OnlyWhatWasGranted'
  BY <1>6 DEF TimerFires, Settle, originVars, recordVars, waiterVars,
     OnlyWhatWasGranted, ShapeOf, TypeOK, Shape, Scopes, Decisions,
     Statuses, Results, Futures, Over, Waits, RuleScope
<1>7. ASSUME NEW r \in Requests, Expires(r) PROVE OnlyWhatWasGranted'
  BY <1>7 DEF Expires, Resolve, originVars, recordVars, waiterVars,
     OnlyWhatWasGranted, ShapeOf, TypeOK, Shape, Scopes, Decisions,
     Statuses, Results, Futures, Over, Waits, RuleScope
<1>8. ASSUME NEW r \in Requests, Ask(r) PROVE OnlyWhatWasGranted'
  BY <1>8 DEF Ask, OnlyWhatWasGranted, ShapeOf, TypeOK, Shape, Scopes,
     Decisions, Statuses, Results, Futures, Over, Waits, RuleScope
<1>9. ASSUME NEW r \in Requests, CancelTool(r) PROVE OnlyWhatWasGranted'
  BY <1>9 DEF CancelTool, Break, Settle, originVars, recordVars, waiterVars,
     OnlyWhatWasGranted, ShapeOf, TypeOK, Shape, Scopes, Decisions,
     Statuses, Results, Futures, Over, Waits, RuleScope
<1>10. ASSUME NEW r \in Requests, Ages(r) PROVE OnlyWhatWasGranted'
  BY <1>10 DEF Ages, originVars, recordVars, waiterVars, OnlyWhatWasGranted,
     ShapeOf, TypeOK, Shape, Scopes, Decisions, Statuses, Results, Futures,
     Over, Waits, RuleScope
<1>. QED
  BY <1>1, <1>2, <1>3, <1>4, <1>5, <1>6, <1>7, <1>8, <1>9, <1>10 DEF Next,
     UserStep, WaiterStep

LEMMA DecisionStep ==
    ASSUME TypeOK, Shape, Next
    PROVE  \A q \in Requests : status[q] \notin {"none", "pending"}
                              => status'[q] = status[q]
<1>1. ASSUME NEW r \in Requests, NEW s \in Scopes, Approve(r, s) PROVE \A q \in Requests : status[q] \notin {"none", "pending"}
                              => status'[q] = status[q]
  BY <1>1 DEF Approve, Resolve, Settle, originVars, recordVars, waiterVars,
     TypeOK, Shape, ShapeOf
<1>2. ASSUME NEW r \in Requests, Deny(r) PROVE \A q \in Requests : status[q] \notin {"none", "pending"}
                              => status'[q] = status[q]
  BY <1>2 DEF Deny, Resolve, Settle, originVars, recordVars, waiterVars,
     TypeOK, Shape, ShapeOf
<1>3. ASSUME NEW s \in Sessions, CancelAll(s) PROVE \A q \in Requests : status[q] \notin {"none", "pending"}
                              => status'[q] = status[q]
  BY <1>3 DEF CancelAll, Settle, originVars, recordVars, waiterVars, TypeOK,
     Shape, ShapeOf
<1>4. ASSUME NEW s \in Sessions, CancelRun(s) PROVE \A q \in Requests : status[q] \notin {"none", "pending"}
                              => status'[q] = status[q]
  BY <1>4 DEF CancelRun, Break, Settle, originVars, recordVars, waiterVars,
     TypeOK, Shape, ShapeOf
<1>5. ASSUME NEW r \in Requests, Resumes(r) PROVE \A q \in Requests : status[q] \notin {"none", "pending"}
                              => status'[q] = status[q]
  BY <1>5 DEF Resumes, RuleScope, originVars, recordVars, waiterVars,
     TypeOK, Shape, ShapeOf
<1>6. ASSUME NEW r \in Requests, TimerFires(r) PROVE \A q \in Requests : status[q] \notin {"none", "pending"}
                              => status'[q] = status[q]
  BY <1>6 DEF TimerFires, Settle, originVars, recordVars, waiterVars,
     TypeOK, Shape, ShapeOf
<1>7. ASSUME NEW r \in Requests, Expires(r) PROVE \A q \in Requests : status[q] \notin {"none", "pending"}
                              => status'[q] = status[q]
  BY <1>7 DEF Expires, Resolve, originVars, recordVars, waiterVars, TypeOK,
     Shape, ShapeOf
<1>8. ASSUME NEW r \in Requests, Ask(r) PROVE \A q \in Requests : status[q] \notin {"none", "pending"}
                              => status'[q] = status[q]
  <2>1. PICK stale \in SUBSET table, collected \in SUBSET table :
          /\ stale = Stale(r) /\ collected \subseteq table \ stale
          /\ table' = (table \ (stale \cup collected)) \cup {r}
          /\ status' = [[q \in Requests |-> IF q \in collected THEN "timeout"
                                   ELSE IF q \in stale THEN "superseded"
                                   ELSE status[q]] EXCEPT ![r] = "pending"]
          /\ future' = [Settle(stale \cup collected, "timeout")
                            EXCEPT ![r] = "pending"]
    <3>1. Collected(table \ Stale(r)) \in SUBSET (table \ Stale(r))
      BY DEF Collected
    <3>2. Stale(r) \in SUBSET table
      BY DEF Stale
    <3>. QED
      BY <1>8, <3>1, <3>2 DEF Ask
  <2>. QED
    BY <1>8, <2>1 DEF Ask, TypeOK, Shape, ShapeOf
<1>9. ASSUME NEW r \in Requests, CancelTool(r) PROVE \A q \in Requests : status[q] \notin {"none", "pending"}
                              => status'[q] = status[q]
  BY <1>9 DEF CancelTool, Break, Settle, originVars, recordVars, waiterVars,
     TypeOK, Shape, ShapeOf
<1>10. ASSUME NEW r \in Requests, Ages(r) PROVE \A q \in Requests : status[q] \notin {"none", "pending"}
                              => status'[q] = status[q]
  BY <1>10 DEF Ages, originVars, recordVars, waiterVars, TypeOK, Shape,
     ShapeOf
<1>. QED
  BY <1>1, <1>2, <1>3, <1>4, <1>5, <1>6, <1>7, <1>8, <1>9, <1>10 DEF Next,
     UserStep, WaiterStep

THEOREM Inductive == Spec => []IInv
<1>1. Init => IInv
  <2>1. Init => TypeOK
    BY TypeInit
  <2>2. Init => Shape
    BY DEF Init, Shape, ShapeOf, Results, Decisions
  <2>3. Init => OneRecordPerCall /\ OnlyWhatWasGranted
    BY DEF Init, OneRecordPerCall, OnlyWhatWasGranted
  <2>. QED
    BY <2>1, <2>2, <2>3 DEF IInv
<1>2. IInv /\ [Next]_vars => IInv'
  <2>1. ASSUME IInv, Next PROVE IInv'
    BY <2>1, TypeStep, ShapeStep, OneStep, GrantStep DEF IInv
  <2>2. ASSUME IInv, UNCHANGED vars PROVE IInv'
    BY <2>2 DEF IInv, TypeOK, Shape, ShapeOf, OneRecordPerCall,
       OnlyWhatWasGranted, vars, originVars, recordVars, waiterVars, RuleScope
  <2>. QED
    BY <2>1, <2>2
<1>. QED
  BY <1>1, <1>2, PTL DEF Spec

\* The type invariant holds for any number of requests.
THEOREM TypeCorrect == Spec => []TypeOK
BY Inductive, PTL DEF IInv

\* Only what a user granted is let through, with the scope the user chose.
THEOREM Granted == Spec => []OnlyWhatWasGranted
BY Inductive, PTL DEF IInv

\* Whoever waits on an open future is listed and can be answered.
THEOREM Answerable == Spec => []StillAnswerable
<1>1. IInv => StillAnswerable
  BY DEF IInv, Shape, ShapeOf, StillAnswerable
<1>. QED
  BY <1>1, Inductive, PTL

\* A session's tool call has at most one record in the table.
THEOREM OneRecord == Spec => []OneRecordPerCall
BY Inductive, PTL DEF IInv

\* A user told that the tool is approved was told the truth, but for a wait
\* that had run out or was cancelled.
THEOREM Promises == Spec => []PromisesKept
<1>1. IInv => PromisesKept
  <2>. SUFFICES ASSUME IInv, NEW r \in Requests, told[r] \in {"exact", "similar"}
                PROVE  wait[r] \in {"waiting", "woken", "approved", "expired",
                                    "broken"}
    BY DEF PromisesKept
  <2>1. future[r] \in {"approved", "cancelled"} /\ status[r] # "none"
    BY DEF IInv, Shape, ShapeOf
  <2>. QED
    BY <2>1 DEF IInv, TypeOK, Shape, ShapeOf, Waits, Over, Results, Decisions
<1>. QED
  BY <1>1, Inductive, PTL

\* No record that was decided is decided again.
THEOREM DecisionsStand == Spec => FirstDecisionStands
<1>1. IInv /\ [Next]_vars =>
        [\A r \in Requests : status[r] \notin {"none", "pending"}
                              => status'[r] = status[r]]_vars
  BY DecisionStep DEF IInv
<1>. QED
  BY <1>1, Inductive, PTL DEF Spec, FirstDecisionStands
=============================================================================

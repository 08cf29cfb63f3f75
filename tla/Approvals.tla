----------------------------- MODULE Approvals -----------------------------
(***************************************************************************)
(* The approval service (app/approvals/service.py) with the code that asks *)
(* (governance/tool_adapter.py, runtime/tool_guard.py, driver_gate.py) and *)
(* the code that answers (routers/approval.py, the /approval command, the  *)
(* ACP server).  A request stands for one PendingApproval record and the   *)
(* one wait_for_approval on it.                                            *)
(*                                                                         *)
(* All of it runs on one event loop.  The lock is never held across an     *)
(* await, so it is free whenever it is taken and taking it does not yield: *)
(* looking a record up and resolving it is one step, and so is creating a  *)
(* record and starting to wait.  What does take steps of its own is a      *)
(* waiter that its future, its timer or a cancellation has woken.          *)
(***************************************************************************)
EXTENDS Naturals, FiniteSets

CONSTANTS
    Requests,    \* requests for approval
    Sessions,    \* sessions; the spawned child of a session is one too
    ToolCalls,   \* ids of tool calls; a replayed call keeps its id
    NoCall,      \* the empty id, of a request made outside a tool call
    RootOf,      \* session -> root_session_id
    MaxLimit     \* bound: values of _GC_MAX_PENDING looked at

ASSUME RequestsAssumption ==
    /\ RootOf \in [Sessions -> Sessions]
    /\ MaxLimit \in Nat
    /\ IsFiniteSet(Requests)

VARIABLES
    limit,    \* _GC_MAX_PENDING; does not change
    session,  \* request -> its session_id; does not change
    call,     \* request -> the id in its extra["tool_call"]; does not change
    table,    \* the requests in _pending
    born,     \* request -> created_at: 0 before, then the order of creation
    aged,     \* those of them older than _GC_PENDING_MAX_AGE_SECONDS
    status,   \* request -> PendingApproval.status; "none" before creation
    future,   \* request -> state of its future
    scope,    \* request -> PendingApproval.scope
    wait,     \* request -> where its waiter is, or how the wait ended
    rule,     \* request -> scope of the approved rule recorded for it
    told      \* request -> what a user who answered was told

originVars == <<limit, session, call>>
recordVars == <<table, born, aged, status, future, scope>>
waiterVars == <<wait, rule>>
vars == <<originVars, recordVars, waiterVars, told>>

Scopes == {"none", "exact", "similar"}
Decisions == {"approved", "denied"}
Statuses == Decisions \cup {"none", "pending", "timeout", "superseded", "cancelled"}
Results == Decisions \cup {"timeout"}
Futures == Results \cup {"none", "pending", "cancelled"}
\* expired: the waiter's own timer ended the wait; broken: a cancellation did.
Over == Results \cup {"expired", "broken"}
Waits == Over \cup {"idle", "waiting", "woken"}

TypeOK ==
    /\ limit \in 1 .. MaxLimit
    /\ session \in [Requests -> Sessions] /\ call \in [Requests -> ToolCalls \cup {NoCall}]
    /\ table \in SUBSET Requests /\ aged \in SUBSET table
    /\ born \in [Requests -> Nat]
    /\ status \in [Requests -> Statuses]
    /\ future \in [Requests -> Futures]
    /\ scope \in [Requests -> Scopes]
    /\ wait \in [Requests -> Waits]
    /\ rule \in [Requests -> Scopes]
    /\ told \in [Requests -> {"none", "denied", "exact", "similar"}]

Init ==
    /\ limit \in 1 .. MaxLimit
    /\ session \in [Requests -> Sessions] /\ call \in [Requests -> ToolCalls \cup {NoCall}]
    /\ table = {} /\ aged = {}
    /\ born = [r \in Requests |-> 0]
    /\ status = [r \in Requests |-> "none"]
    /\ future = [r \in Requests |-> "none"]
    /\ scope = [r \in Requests |-> "none"]
    /\ wait = [r \in Requests |-> "idle"]
    /\ rule = [r \in Requests |-> "none"]
    /\ told = [r \in Requests |-> "none"]

-----------------------------------------------------------------------------
(* Asking: supersede, create, collect, wait. *)

Asked == {r \in Requests : status[r] # "none"}

\* mutant: only supersedes records that nobody waits on any more
StaleUnwaited(r) ==
    {q \in table : /\ session[q] = session[r] /\ call[q] = call[r]
                   /\ call[r] # NoCall /\ wait[q] \in Over}

\* cancel_stale_pending_for_tool_call: records of the same call, session too.
Stale(r) ==
    {q \in table : /\ session[q] = session[r] /\ call[q] = call[r]
                   /\ call[r] # NoCall}

\* What _gc_pending_locked removes from the table S, to which the record being
\* created, the newest, is added: the aged and the oldest beyond the limit.
Collected(S) ==
    LET fresh == S \ aged
    IN  (S \cap aged) \cup
        {q \in fresh :
            Cardinality({p \in fresh : born[p] > born[q]}) + 1 >= limit}

\* mutant: the waiters of the removed records are not woken
SettleNone(R, v) == future

\* set_result(v) on the futures of R that are not done.
Settle(R, v) ==
    [r \in Requests |-> IF r \in R /\ future[r] = "pending" THEN v ELSE future[r]]

\* mutant: awaits the notification before the wait; a user who is quicker has
\* taken the record away, the lookup fails and the guard denies
AskAfterNotice(r) ==
    /\ status[r] = "none"
    /\ born' = [born EXCEPT ![r] = Cardinality(Asked) + 1]
    /\ \/ /\ table' = table \cup {r}
          /\ status' = [status EXCEPT ![r] = "pending"]
          /\ future' = [future EXCEPT ![r] = "pending"]
          /\ wait' = [wait EXCEPT ![r] = "waiting"]
          /\ UNCHANGED told
       \/ /\ status' = [status EXCEPT ![r] = "approved"]
          /\ future' = [future EXCEPT ![r] = "approved"]
          /\ wait' = [wait EXCEPT ![r] = "denied"]
          /\ told' = [told EXCEPT ![r] = "exact"]
          /\ UNCHANGED table
    /\ UNCHANGED <<originVars, aged, scope, rule>>

\* A tool needs approval: its guard supersedes, creates the record and waits.
Ask(r) ==
    /\ status[r] = "none"
    /\ born' = [born EXCEPT ![r] = Cardinality(Asked) + 1]
    /\ LET stale == Stale(r)
           collected == Collected(table \ stale)
           gone == stale \cup collected
           ended == [q \in Requests |-> IF q \in collected THEN "timeout"
                                        ELSE IF q \in stale THEN "superseded"
                                        ELSE status[q]]
       IN  /\ table' = (table \ gone) \cup {r}
           /\ aged' = aged \ gone
           /\ status' = [ended EXCEPT ![r] = "pending"]
           /\ future' = [Settle(gone, "timeout") EXCEPT ![r] = "pending"]
    /\ wait' = [wait EXCEPT ![r] = "waiting"]
    /\ UNCHANGED <<originVars, scope, rule, told>>

-----------------------------------------------------------------------------
(* Answering. *)

\* mutant: the scope nobody chose is the wide one
WideByDefault(s) == IF s = "none" THEN "similar" ELSE s

\* How widely an approval with scope s is remembered: EXACT unless chosen.
RuleScope(s) == IF s = "none" THEN "exact" ELSE s

\* resolve_request for a record that is there.
Resolve(r, d, s) ==
    /\ table' = table \ {r}
    /\ status' = [status EXCEPT ![r] = d]
    /\ scope' = [scope EXCEPT ![r] = s]
    /\ aged' = aged \ {r}
    /\ UNCHANGED <<originVars, born>>

\* A user answers, by id or as the head of a queue; the ACP client too.
Approve(r, s) ==
    /\ r \in table
    /\ Resolve(r, "approved", s)
    /\ future' = Settle({r}, "approved")
    /\ told' = [told EXCEPT ![r] = IF s = "similar" THEN "similar" ELSE "exact"]
    /\ UNCHANGED waiterVars

Deny(r) ==
    /\ r \in table
    /\ Resolve(r, "denied", "none")
    /\ future' = Settle({r}, "denied")
    /\ told' = [told EXCEPT ![r] = "denied"]
    /\ UNCHANGED waiterVars

\* cancel_all_pending_by_root_session: the cleanup hook of a cancelled run, or
\* an ACP session that is cancelled or closed.
CancelAll(root) ==
    LET these == {r \in table : RootOf[session[r]] = root}
    IN  /\ these # {}
        /\ table' = table \ these
        /\ status' = [r \in Requests |->
                        IF r \in these THEN "cancelled" ELSE status[r]]
        /\ future' = Settle(these, "denied")
        /\ aged' = aged \ these
        /\ UNCHANGED <<originVars, born, scope, waiterVars, told>>

\* Time passes: records grow old, the oldest first.
Ages(r) ==
    /\ r \in table \ aged
    /\ \A q \in table : born[q] < born[r] => q \in aged
    /\ aged' = aged \cup {r}
    /\ UNCHANGED <<originVars, table, born, status, future, scope, waiterVars,
                   told>>

-----------------------------------------------------------------------------
(* Waiting: wait_for_approval and what its caller does with the decision. *)

\* The future is done and the waiter runs.  On approval the tool is let
\* through; the governed tools, modelled here, record a rule as well.
Resumes(r) ==
    /\ wait[r] = "waiting" /\ future[r] \in Results
    /\ wait' = [wait EXCEPT ![r] = future[r]]
    /\ rule' = IF future[r] = "approved"
               THEN [rule EXCEPT ![r] = RuleScope(scope[r])] ELSE rule
    /\ UNCHANGED <<originVars, recordVars, told>>

\* The timer of wait_for fires; the future, if not done, is cancelled.  From
\* Python 3.12 on a waiter whose future was done but which has not run yet
\* times out all the same; 3.11 lets it have the result (Resumes).
TimerFires(r) ==
    /\ wait[r] = "waiting"
    /\ wait' = [wait EXCEPT ![r] = "woken"]
    /\ future' = Settle({r}, "cancelled")
    /\ UNCHANGED <<originVars, table, born, aged, status, scope, rule, told>>

\* mutant: the late waiter marks its record whether or not it still has one
ExpiresRegardless(r) ==
    /\ wait[r] = "woken"
    /\ wait' = [wait EXCEPT ![r] = "expired"]
    /\ Resolve(r, "timeout", "none")
    /\ UNCHANGED <<future, rule, told>>

\* The waiter runs after its timer: it resolves its own record, if it is there.
Expires(r) ==
    /\ wait[r] = "woken"
    /\ wait' = [wait EXCEPT ![r] = "expired"]
    /\ \/ r \in table /\ Resolve(r, "timeout", "none")
       \/ r \notin table
          /\ UNCHANGED <<originVars, table, born, aged, status, scope>>
    /\ UNCHANGED <<future, rule, told>>

\* The task that waits is cancelled: nothing takes the record out.
Break(R) ==
    /\ wait' = [r \in Requests |-> IF r \in R THEN "broken" ELSE wait[r]]
    /\ future' = Settle(R, "cancelled")
    /\ UNCHANGED <<originVars, table, born, aged, status, scope, rule, told>>

\* The tool coordinator force-cancels a tool that asks while it runs.
CancelTool(r) ==
    /\ wait[r] \in {"waiting", "woken"}
    /\ Break({r})

\* A session's run is cancelled; in 3.11 a waiter with a result swallows it.
CancelRun(s) ==
    LET waiting == {r \in Requests : session[r] = s
                                     /\ wait[r] \in {"waiting", "woken"}}
        served == {r \in waiting : wait[r] = "waiting" /\ future[r] \in Results}
    IN  /\ waiting # {}
        /\ \E R \in {waiting, waiting \ served} : Break(R)

UserStep ==
    \/ \E r \in Requests, s \in Scopes : Approve(r, s)
    \/ \E r \in Requests : Deny(r)
    \/ \E s \in Sessions : CancelAll(s) \/ CancelRun(s)

WaiterStep ==
    \E r \in Requests : Resumes(r) \/ TimerFires(r) \/ Expires(r)

Next ==
    \/ UserStep
    \/ WaiterStep
    \/ \E r \in Requests : Ask(r) \/ CancelTool(r) \/ Ages(r)

Spec == Init /\ [][Next]_vars

-----------------------------------------------------------------------------
(* Properties. *)

\* A tool is let through, and a rule recorded, only for a request that a user
\* approved, and with the scope the user chose (tool_adapter.py 712-740): no
\* collection, replay, cancellation or timeout in between turns into consent.
OnlyWhatWasGranted ==
    \A r \in Requests :
        /\ wait[r] = "approved" <=> rule[r] # "none"
        /\ rule[r] # "none" => told[r] = rule[r]

\* Whoever waits on an open future can be answered: its record is listed, so
\* a record never leaves _pending without its waiter being woken.
StillAnswerable ==
    \A r \in Requests :
        wait[r] = "waiting" /\ future[r] = "pending" =>
            r \in table /\ status[r] = "pending"

\* Replays leave one record for a tool call of a session, so an answer to the
\* call reaches the wait that is current (cancel_stale_pending_for_tool_call).
OneRecordPerCall ==
    \A q, r \in table :
        (/\ session[q] = session[r]
         /\ call[q] = call[r] /\ call[q] # NoCall) => q = r

\* A user who was told "approved, executing" was told the truth, unless the
\* wait had run into its timer or was cancelled: never a denial, and no wait
\* that ended because the record was superseded or collected.
PromisesKept ==
    \A r \in Requests :
        told[r] \in {"exact", "similar"} =>
            wait[r] \in {"waiting", "woken", "approved", "expired", "broken"}

\* The first decision on a record stands: what a late waiter, a collection or
\* another answer does to the service never rewrites it.
FirstDecisionStands ==
    [][\A r \in Requests :
         status[r] \notin {"none", "pending"} => status'[r] = status[r]]_vars

=============================================================================

------------------------------ MODULE Members ------------------------------
(***************************************************************************)
(* How the service changes a project's members, lead and assignees: one    *)
(* transaction per call, several at a time. A call checks its caller's     *)
(* role, waits for the lock of the project row (LockProject), checks the   *)
(* role again and decides under the lock (lockProjectAs, lockMember), and  *)
(* commits. Reads see committed rows only; at any point before it commits  *)
(* a call may fail and be rolled back.                                     *)
(*                                                                         *)
(* Every write of issues, sprints and statuses goes through lockProjectAs  *)
(* the same way: that it refines the atomic Roster is why Issues takes an  *)
(* operation for one step.                                                 *)
(***************************************************************************)
EXTENDS Roster

CONSTANT Call    \* the calls in progress, an identity being free again once one ends

VARIABLES
    pc,      \* where a call is
    req,     \* what it is to do
    seen,    \* the value in the row it read that its UPDATE writes back
    lock     \* who holds the project row, NULL if nobody

callVars == <<pc, req, seen, lock>>
vars == <<rosterVars, callVars>>

(* editProject and editIssue change other columns than lead and assignee,   *)
(* but their UPDATE writes these too.                                       *)
Requests ==
    [op : {"addMember", "updateMember"}, caller : User, user : User, role : Roles]
        \cup [op : {"removeMember"}, caller : User, user : User]
        \cup [op : {"updateProject"}, caller : User, user : User \cup {NULL}]
        \cup [op : {"assignIssue"}, caller : User, user : User \cup {NULL}, issue : Issue]
        \cup [op : {"editIssue"}, caller : User, issue : Issue]
        \cup [op : {"editProject", "deleteProject"}, caller : User]

ASSUME CallAssumption == NULL \notin Call \cup Requests

TypeOK ==
    /\ RosterTypeOK
    /\ pc \in [Call -> {"idle", "waiting", "locked", "decided"}]
    /\ req \in [Call -> Requests \cup {NULL}]
    /\ \A r \in Call : req[r] = NULL <=> pc[r] = "idle"
    /\ seen \in [Call -> User \cup {NULL}]
    /\ lock \in Call \cup {NULL}

MembersInit ==
    /\ Init
    /\ pc = [r \in Call |-> "idle"]
    /\ req = [r \in Call |-> NULL]
    /\ seen = [r \in Call |-> NULL]
    /\ lock = NULL

---------------------------------------------------------------------------
MinRole(q) ==
    IF q.op \in {"assignIssue", "editIssue"} THEN "member"
    ELSE IF q.op = "removeMember" /\ q.user = q.caller THEN "viewer"
    ELSE "admin"

(* requireRole, on the committed rows: the caller of a deleted project has  *)
(* no role in it.                                                           *)
MayCall(q) == AtLeast(role[q.caller], MinRole(q))

(* What lockProjectAs and lockIssue read of the row a call will write.      *)
RowValue(q) ==
    CASE q.op \in {"editProject", "updateProject"} -> lead
      [] q.op \in {"editIssue", "assignIssue"}     -> assignee[q.issue]
      [] OTHER                                     -> NULL

(* requireMember is asked about a value that changes only.                  *)
NewValueBelongs(q) == q.user \notin {NULL, RowValue(q)} => Belongs(q.user)

(* What a call checks under the lock besides the role of its caller.        *)
Acceptable(q) ==
    CASE q.op = "addMember"    -> ~Belongs(q.user)
      [] q.op = "updateMember" -> Belongs(q.user) /\ (q.role = role[q.user] \/ AnotherAdmin(q.user))
      [] q.op = "removeMember" -> Belongs(q.user) /\ AnotherAdmin(q.user)
      [] q.op \in {"updateProject", "assignIssue"} -> NewValueBelongs(q)
      [] OTHER -> TRUE

(* Mutant: the removed member's issues stay assigned.                       *)
RemoveRowOnly(u) ==
    /\ lead' = IF lead = u THEN NULL ELSE lead
    /\ role' = [role EXCEPT ![u] = "none"]
    /\ UNCHANGED <<exists, assignee>>

(* UnassignMemberIssues, ClearProjectLead and DeleteMember.                 *)
Remove(u) ==
    /\ assignee' = [i \in Issue |-> IF assignee[i] = u THEN NULL ELSE assignee[i]]
    /\ lead' = IF lead = u THEN NULL ELSE lead
    /\ role' = [role EXCEPT ![u] = "none"]
    /\ UNCHANGED exists

(* The rows the statements of a call write; value is what it read of its row.*)
Write(q, value) ==
    \/ /\ q.op \in {"addMember", "updateMember"}
       /\ role' = [role EXCEPT ![q.user] = q.role]
       /\ UNCHANGED <<exists, lead, assignee>>
    \/ q.op = "removeMember" /\ Remove(q.user)
    \/ /\ q.op \in {"editProject", "updateProject"}
       /\ lead' = IF q.op = "updateProject" THEN q.user ELSE value
       /\ UNCHANGED <<exists, role, assignee>>
    \/ /\ q.op \in {"editIssue", "assignIssue"}
       /\ assignee' = [assignee EXCEPT ![q.issue] =
                            IF q.op = "assignIssue" THEN q.user ELSE value]
       /\ UNCHANGED <<exists, role, lead>>
    \/ /\ q.op = "deleteProject"
       /\ exists' = FALSE
       /\ role' = [u \in User |-> "none"]
       /\ lead' = NULL
       /\ assignee' = [i \in Issue |-> NULL]

---------------------------------------------------------------------------
(* The steps of a call.                                                     *)

(* projectByKey or issueByKey: what it read of its row may be stale later.  *)
Begin(r, q) ==
    /\ pc[r] = "idle"
    /\ MayCall(q)
    /\ pc' = [pc EXCEPT ![r] = "waiting"]
    /\ req' = [req EXCEPT ![r] = q]
    /\ seen' = [seen EXCEPT ![r] = RowValue(q)]
    /\ UNCHANGED <<rosterVars, lock>>

LockProject(r) ==
    /\ pc[r] = "waiting"
    /\ exists
    /\ lock = NULL
    /\ lock' = r
    /\ pc' = [pc EXCEPT ![r] = "locked"]
    /\ UNCHANGED <<rosterVars, req, seen>>

(* Mutant: what was read and allowed before the wait is taken for granted.  *)
DecideOnFirstRead(r) ==
    /\ pc[r] = "locked"
    /\ Acceptable(req[r])
    /\ pc' = [pc EXCEPT ![r] = "decided"]
    /\ UNCHANGED <<rosterVars, req, seen, lock>>

(* Under the lock: the role and the row are read again.                     *)
Decide(r) ==
    /\ pc[r] = "locked"
    /\ MayCall(req[r])
    /\ Acceptable(req[r])
    /\ seen' = [seen EXCEPT ![r] = RowValue(req[r])]
    /\ pc' = [pc EXCEPT ![r] = "decided"]
    /\ UNCHANGED <<rosterVars, req, lock>>

(* The end of a call, one way or the other, ends its transaction and with   *)
(* it the lock.                                                             *)
End(r) ==
    /\ pc' = [pc EXCEPT ![r] = "idle"]
    /\ req' = [req EXCEPT ![r] = NULL]
    /\ seen' = [seen EXCEPT ![r] = NULL]
    /\ lock' = IF lock = r THEN NULL ELSE lock

Commit(r) ==
    /\ pc[r] = "decided"
    /\ Write(req[r], seen[r])
    /\ End(r)

(* Mutant: an early return leaves the transaction open.                     *)
RefuseWithoutRollback(r) ==
    /\ pc[r] = "locked"
    /\ ~(MayCall(req[r]) /\ Acceptable(req[r]))
    /\ pc' = [pc EXCEPT ![r] = "idle"]
    /\ req' = [req EXCEPT ![r] = NULL]
    /\ seen' = [seen EXCEPT ![r] = NULL]
    /\ UNCHANGED <<rosterVars, lock>>

(* 403, 404, 409 or 422: the deferred Rollback.                             *)
Refuse(r) ==
    /\ pc[r] = "locked"
    /\ ~(MayCall(req[r]) /\ Acceptable(req[r]))
    /\ End(r)
    /\ UNCHANGED rosterVars

(* The project was deleted meanwhile: LockProject locks no row, and         *)
(* projectByID finds none.                                                  *)
NotFound(r) ==
    /\ pc[r] = "waiting"
    /\ ~exists
    /\ End(r)
    /\ UNCHANGED rosterVars

(* A statement or the commit fails, the client hangs up, or the server dies *)
(* and PostgreSQL rolls back what it left open.                             *)
Fail(r) ==
    /\ pc[r] # "idle"
    /\ End(r)
    /\ UNCHANGED rosterVars

Step(r) ==
    \/ \E q \in Requests : Begin(r, q)
    \/ LockProject(r)
    \/ Decide(r)
    \/ Refuse(r)
    \/ NotFound(r)
    \/ Commit(r)
    \/ Fail(r)

MembersNext == \E r \in Call : Step(r)

(* A call that has the lock runs its statements to the end; PostgreSQL      *)
(* queues the waiters of a row, so none is passed over for ever.            *)
Proceed(r) == LockProject(r) \/ NotFound(r) \/ Decide(r) \/ Refuse(r) \/ Commit(r)
Fairness == \A r \in Call : SF_vars(Proceed(r))

MembersSpec == MembersInit /\ [][MembersNext]_vars
FairSpec == MembersSpec /\ Fairness

---------------------------------------------------------------------------
(* What the steps add up to is an atomic call by someone who, at the moment *)
(* of the commit, still has the role for it.                                *)
ImplementsRoster == Spec

(* An admin remains, and the lead and the assignees are members, while the  *)
(* calls are at any of their steps.                                         *)
RosterHolds == TypeOK /\ SomeAdmin /\ LeadBelongs /\ AssigneesBelong

(* Every call ends, whatever the others do, so that none keeps the lock for *)
(* good: each is idle again and again.                                      *)
EveryCallEnds == \A r \in Call : []<>(pc[r] = "idle")
=============================================================================

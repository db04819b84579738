--------------------------- MODULE MembersProofs ---------------------------
(***************************************************************************)
(* Roster keeps its promises, and Members implements Roster, for any       *)
(* number of users, issues and concurrent calls.                           *)
(***************************************************************************)
EXTENDS Members, TLAPS

---------------------------------------------------------------------------
(* The abstract specification.                                              *)

RosterInv ==
    /\ RosterTypeOK
    /\ SomeAdmin
    /\ LeadBelongs
    /\ AssigneesBelong

LEMMA InitRosterInv == Init => RosterInv
BY RosterAssumption
DEF Init, RosterInv, RosterTypeOK, SomeAdmin, LeadBelongs, AssigneesBelong, Admins, Belongs,
    Roles

(* A change of one role keeps an admin unless it is the last one's.         *)
LEMMA RoleChange ==
    ASSUME RosterTypeOK, SomeAdmin, NEW u \in User, NEW k \in Roles \cup {"none"},
           k = "admin" \/ AnotherAdmin(u), role' = [role EXCEPT ![u] = k], exists' = exists
    PROVE  /\ SomeAdmin'
           /\ role' \in [User -> Roles \cup {"none"}]
           /\ \A v \in User : Belongs(v) /\ (v = u => k # "none") => Belongs(v)'
<1>1. role' \in [User -> Roles \cup {"none"}]
      /\ \A v \in User : role'[v] = IF v = u THEN k ELSE role[v]
  BY DEF RosterTypeOK
<1>2. SomeAdmin'
  <2>1. CASE k = "admin"
    BY <1>1, <2>1 DEF SomeAdmin, Admins
  <2>2. CASE AnotherAdmin(u)
    <3> SUFFICES ASSUME exists PROVE Admins' # {}
      BY DEF SomeAdmin
    <3>1. PICK v \in User : role[v] = "admin" /\ v # u
      BY <2>2 DEF AnotherAdmin, SomeAdmin, Admins
    <3>2. QED
      BY <1>1, <3>1 DEF Admins
  <2>3. QED
    BY <2>1, <2>2
<1>3. QED
  BY <1>1, <1>2 DEF Belongs

LEMMA NextRosterInv == RosterInv /\ [Next]_rosterVars => RosterInv'
<1> SUFFICES ASSUME RosterInv, [Next]_rosterVars PROVE RosterInv'
  OBVIOUS
<1>0. RosterTypeOK /\ SomeAdmin /\ LeadBelongs /\ AssigneesBelong
  BY DEF RosterInv
<1>1. ASSUME NEW caller \in User, NEW u \in User, NEW k \in Roles,
             AddMember(caller, u, k) \/ UpdateMember(caller, u, k)
      PROVE  RosterInv'
  <2>1. /\ k = "admin" \/ AnotherAdmin(u)
        /\ role' = [role EXCEPT ![u] = k]
        /\ UNCHANGED <<exists, lead, assignee>>
        /\ k # "none"
    BY <1>1 DEF AddMember, UpdateMember, AnotherAdmin, Belongs, Roles
  <2>2. SomeAdmin' /\ role' \in [User -> Roles \cup {"none"}]
        /\ \A v \in User : Belongs(v) => Belongs(v)'
    BY <1>0, <2>1, RoleChange
  <2>3. QED
    BY <1>0, <2>1, <2>2 DEF RosterInv, RosterTypeOK, LeadBelongs, AssigneesBelong
<1>2. ASSUME NEW caller \in User, NEW u \in User, RemoveMember(caller, u)
      PROVE  RosterInv'
  <2>1. /\ AnotherAdmin(u)
        /\ role' = [role EXCEPT ![u] = "none"]
        /\ lead' = IF lead = u THEN NULL ELSE lead
        /\ assignee' = [i \in Issue |-> IF assignee[i] = u THEN NULL ELSE assignee[i]]
        /\ UNCHANGED exists
    BY <1>2 DEF RemoveMember
  <2>2. SomeAdmin' /\ role' \in [User -> Roles \cup {"none"}]
        /\ \A v \in User : Belongs(v) /\ v # u => Belongs(v)'
    BY <1>0, <2>1, RoleChange
  <2>3. RosterTypeOK' /\ LeadBelongs'
    BY <1>0, <2>1, <2>2 DEF RosterTypeOK, LeadBelongs
  <2>4. AssigneesBelong'
    BY <1>0, <2>1, <2>2 DEF RosterTypeOK, AssigneesBelong
  <2>5. QED
    BY <2>2, <2>3, <2>4 DEF RosterInv
<1>3. ASSUME NEW caller \in User, NEW u \in User \cup {NULL}, UpdateProject(caller, u)
      PROVE  RosterInv'
  BY <1>0, <1>3
  DEF UpdateProject, RosterInv, RosterTypeOK, SomeAdmin, Admins, LeadBelongs,
      AssigneesBelong, Belongs
<1>4. ASSUME NEW caller \in User, NEW u \in User \cup {NULL}, NEW i \in Issue,
             AssignIssue(caller, i, u)
      PROVE  RosterInv'
  <2>1. RosterTypeOK' /\ SomeAdmin' /\ LeadBelongs'
    BY <1>0, <1>4
    DEF AssignIssue, RosterTypeOK, SomeAdmin, Admins, LeadBelongs, Belongs
  <2>2. AssigneesBelong'
    BY <1>0, <1>4 DEF AssignIssue, RosterTypeOK, AssigneesBelong, Belongs
  <2>3. QED
    BY <2>1, <2>2 DEF RosterInv
<1>5. ASSUME NEW caller \in User, DeleteProject(caller)
      PROVE  RosterInv'
  BY <1>0, <1>5
  DEF DeleteProject, RosterInv, RosterTypeOK, SomeAdmin, LeadBelongs, AssigneesBelong
<1>6. CASE UNCHANGED rosterVars
  BY <1>0, <1>6
  DEF rosterVars, RosterInv, RosterTypeOK, SomeAdmin, Admins, LeadBelongs, AssigneesBelong,
      Belongs
<1>7. QED
  BY <1>1, <1>2, <1>3, <1>4, <1>5, <1>6 DEF Next

(* A project has an admin for as long as it exists.                         *)
THEOREM RosterKeepsAdmin == Spec => []SomeAdmin
<1>1. RosterInv => SomeAdmin
  BY DEF RosterInv
<1>2. QED
  BY <1>1, InitRosterInv, NextRosterInv, PTL DEF Spec

---------------------------------------------------------------------------
(* The protocol.                                                            *)

(* Whoever decides holds the lock, and what it decided on is still so: no   *)
(* one else can have written since.                                         *)
DecidedStands(r) ==
    /\ MayCall(req[r])
    /\ Acceptable(req[r])
    /\ seen[r] = RowValue(req[r])

CallInv ==
    /\ TypeOK
    /\ \A r \in Call : pc[r] \in {"locked", "decided"} <=> lock = r
    /\ \A r \in Call : pc[r] = "decided" => DecidedStands(r)

IInv == RosterInv /\ CallInv

LEMMA RequestLemma ==
    ASSUME NEW q \in Requests
    PROVE  /\ q.caller \in User
           /\ q.op \in {"addMember", "updateMember"} => q.user \in User /\ q.role \in Roles
           /\ q.op = "removeMember" => q.user \in User
           /\ q.op \in {"updateProject", "assignIssue"} => q.user \in User \cup {NULL}
           /\ q.op \in {"editIssue", "assignIssue"} => q.issue \in Issue
           /\ q.op \in {"addMember", "updateMember", "removeMember", "updateProject",
                        "assignIssue", "editIssue", "editProject", "deleteProject"}
BY DEF Requests

LEMMA RowValueType ==
    ASSUME RosterTypeOK, NEW q \in Requests
    PROVE  RowValue(q) \in User \cup {NULL}
BY RequestLemma DEF RosterTypeOK, RowValue

(* A commit is one atomic call of the roster, or changes nothing of it.     *)
LEMMA CommitRefines ==
    ASSUME IInv, NEW r \in Call, Commit(r)
    PROVE  [Next]_rosterVars
<1> DEFINE q == req[r]
<1>1. /\ pc[r] = "decided" /\ q \in Requests
      /\ MayCall(q) /\ Acceptable(q) /\ seen[r] = RowValue(q)
      /\ Write(q, seen[r])
  BY DEF Commit, IInv, CallInv, TypeOK, DecidedStands
<1>2. RosterTypeOK /\ LeadBelongs /\ AssigneesBelong
  BY DEF IInv, RosterInv
<1>3. /\ q.caller \in User
      /\ q.op \in {"addMember", "updateMember"} => q.user \in User /\ q.role \in Roles
      /\ q.op = "removeMember" => q.user \in User
      /\ q.op \in {"updateProject", "assignIssue"} => q.user \in User \cup {NULL}
      /\ q.op \in {"editIssue", "assignIssue"} => q.issue \in Issue
      /\ q.op \in {"addMember", "updateMember", "removeMember", "updateProject",
                   "assignIssue", "editIssue", "editProject", "deleteProject"}
  BY <1>1, RequestLemma
<1>4. AtLeast(role[q.caller], MinRole(q))
  BY <1>1 DEF MayCall
<1> HIDE DEF q
<1>5. CASE q.op = "addMember"
  BY <1>1, <1>3, <1>4, <1>5 DEF Write, MinRole, Acceptable, AddMember, Next
<1>6. CASE q.op = "updateMember"
  <2>1. Belongs(q.user) /\ (q.role = role[q.user] \/ AnotherAdmin(q.user))
    BY <1>1, <1>6 DEF Acceptable
  <2>2. role' = [role EXCEPT ![q.user] = q.role] /\ UNCHANGED <<exists, lead, assignee>>
    BY <1>1, <1>6 DEF Write
  <2>3. AtLeast(role[q.caller], "admin")
    BY <1>4, <1>6 DEF MinRole
  <2>4. CASE q.role = role[q.user]
    BY <1>2, <1>3, <1>6, <2>2, <2>4 DEF RosterTypeOK, rosterVars
  <2>5. CASE q.role # role[q.user]
    <3>1. UpdateMember(q.caller, q.user, q.role)
      BY <2>1, <2>2, <2>3, <2>5 DEF UpdateMember
    <3>2. QED
      BY <1>3, <1>6, <3>1 DEF Next
  <2>6. QED
    BY <2>4, <2>5
<1>7. CASE q.op = "removeMember"
  <2>1. RemoveMember(q.caller, q.user)
    BY <1>1, <1>4, <1>7 DEF Write, Remove, MinRole, Acceptable, RemoveMember
  <2>2. QED
    BY <1>3, <1>7, <2>1 DEF Next
<1>8. CASE q.op = "updateProject"
  <2>1. q.user # NULL => Belongs(q.user)
    BY <1>1, <1>2, <1>8 DEF Acceptable, NewValueBelongs, RowValue, LeadBelongs
  <2>2. UpdateProject(q.caller, q.user)
    BY <1>1, <1>4, <1>8, <2>1 DEF Write, MinRole, UpdateProject
  <2>3. QED
    BY <1>3, <1>8, <2>2 DEF Next
<1>9. CASE q.op = "assignIssue"
  <2>1. q.user # NULL => Belongs(q.user)
    BY <1>1, <1>2, <1>3, <1>9 DEF Acceptable, NewValueBelongs, RowValue, AssigneesBelong
  <2>2. AssignIssue(q.caller, q.issue, q.user)
    BY <1>1, <1>4, <1>9, <2>1 DEF Write, MinRole, AssignIssue
  <2>3. QED
    BY <1>3, <1>9, <2>2 DEF Next
<1>10. CASE q.op = "editProject"
  BY <1>1, <1>2, <1>10 DEF Write, RowValue, rosterVars
<1>11. CASE q.op = "editIssue"
  <2>1. assignee' = [assignee EXCEPT ![q.issue] = assignee[q.issue]]
        /\ UNCHANGED <<exists, role, lead>>
    BY <1>1, <1>11 DEF Write, RowValue
  <2>2. assignee' = assignee
    BY <1>2, <1>3, <1>11, <2>1 DEF RosterTypeOK
  <2>3. QED
    BY <2>1, <2>2 DEF rosterVars
<1>12. CASE q.op = "deleteProject"
  <2>1. DeleteProject(q.caller)
    BY <1>1, <1>4, <1>12 DEF Write, MinRole, DeleteProject
  <2>2. QED
    BY <1>3, <2>1 DEF Next
<1>13. QED
  BY <1>3, <1>5, <1>6, <1>7, <1>8, <1>9, <1>10, <1>11, <1>12

LEMMA StepRefines ==
    ASSUME IInv, [MembersNext]_vars
    PROVE  [Next]_rosterVars
<1>1. CASE UNCHANGED vars
  BY <1>1 DEF vars
<1>2. CASE MembersNext
  <2>1. PICK r \in Call : Step(r)
    BY <1>2 DEF MembersNext
  <2>2. CASE Commit(r)
    BY <2>2, CommitRefines
  <2>3. CASE ~Commit(r)
    BY <2>1, <2>3
    DEF Step, Begin, LockProject, Decide, Refuse, NotFound, Fail, rosterVars
  <2>4. QED
    BY <2>2, <2>3
<1>3. QED
  BY <1>1, <1>2

---------------------------------------------------------------------------
(* The invariant of the protocol.                                           *)

LEMMA InitIInv == MembersInit => IInv
<1> SUFFICES ASSUME MembersInit PROVE IInv
  OBVIOUS
<1>1. RosterInv
  BY InitRosterInv DEF MembersInit
<1>2. TypeOK
  BY <1>1 DEF MembersInit, TypeOK, RosterInv
<1>3. QED
  BY <1>1, <1>2, CallAssumption DEF MembersInit, IInv, CallInv

LEMMA EndCallInv ==
    ASSUME IInv, NEW r \in Call, End(r), RosterTypeOK',
           UNCHANGED rosterVars \/ lock = r
    PROVE  CallInv'
<1>0. TypeOK /\ (\A c \in Call : pc[c] \in {"locked", "decided"} <=> lock = c)
      /\ (\A c \in Call : pc[c] = "decided" => DecidedStands(c))
  BY DEF IInv, CallInv
<1>1. \A c \in Call : c # r => pc'[c] = pc[c] /\ req'[c] = req[c] /\ seen'[c] = seen[c]
  BY <1>0 DEF End, TypeOK
<1>2. pc'[r] = "idle" /\ req'[r] = NULL /\ lock' = IF lock = r THEN NULL ELSE lock
  BY <1>0 DEF End, TypeOK
<1>3. TypeOK'
  <2>1. /\ pc' \in [Call -> {"idle", "waiting", "locked", "decided"}]
        /\ req' \in [Call -> Requests \cup {NULL}]
        /\ seen' \in [Call -> User \cup {NULL}]
        /\ lock' \in Call \cup {NULL}
    BY <1>0 DEF End, TypeOK
  <2>2. QED
    BY <1>0, <1>1, <1>2, <2>1 DEF TypeOK
<1>4. \A c \in Call : pc'[c] \in {"locked", "decided"} <=> lock' = c
  BY <1>0, <1>1, <1>2, CallAssumption
<1>5. ASSUME NEW c \in Call, pc'[c] = "decided"
      PROVE  DecidedStands(c)'
  <2>1. c # r /\ lock = c /\ DecidedStands(c)
    BY <1>0, <1>1, <1>2, <1>5
  <2>2. UNCHANGED rosterVars
    BY <2>1
  <2>3. QED
    BY <1>1, <2>1, <2>2
    DEF DecidedStands, MayCall, Acceptable, RowValue, MinRole, NewValueBelongs, Belongs,
        AnotherAdmin, Admins, AtLeast, rosterVars
<1>6. QED
  BY <1>3, <1>4, <1>5 DEF CallInv

(* The steps that write none of the rows.                                   *)
LEMMA QuietStepCallInv ==
    ASSUME IInv, NEW r \in Call, UNCHANGED rosterVars,
           (\E q \in Requests : Begin(r, q)) \/ LockProject(r) \/ Decide(r)
    PROVE  CallInv'
<1>0. TypeOK /\ (\A c \in Call : pc[c] \in {"locked", "decided"} <=> lock = c)
      /\ (\A c \in Call : pc[c] = "decided" => DecidedStands(c))
  BY DEF IInv, CallInv
<1>1. \A c \in Call : c # r => pc'[c] = pc[c] /\ req'[c] = req[c] /\ seen'[c] = seen[c]
  BY <1>0 DEF Begin, LockProject, Decide, TypeOK
<1>2. ASSUME NEW c \in Call, DecidedStands(c), req'[c] = req[c], seen'[c] = seen[c]
      PROVE  DecidedStands(c)'
  BY <1>2 DEF DecidedStands, MayCall, Acceptable, RowValue, MinRole, NewValueBelongs, Belongs,
     AnotherAdmin, Admins, AtLeast, rosterVars
<1>3. RosterTypeOK /\ RosterTypeOK'
  BY DEF IInv, RosterInv, RosterTypeOK, rosterVars
<1>4. CASE \E q \in Requests : Begin(r, q)
  <2>1. PICK q \in Requests : Begin(r, q)
    BY <1>4
  <2>2. /\ pc[r] = "idle" /\ pc' = [pc EXCEPT ![r] = "waiting"]
        /\ req' = [req EXCEPT ![r] = q] /\ seen' = [seen EXCEPT ![r] = RowValue(q)]
        /\ lock' = lock /\ q # NULL /\ RowValue(q) \in User \cup {NULL}
    BY <1>3, <2>1, RowValueType, CallAssumption DEF Begin
  <2>3. TypeOK'
    BY <1>0, <1>3, <2>2 DEF TypeOK
  <2>4. \A c \in Call : pc'[c] \in {"locked", "decided"} <=> lock' = c
    BY <1>0, <1>1, <2>2 DEF TypeOK
  <2>5. ASSUME NEW c \in Call, pc'[c] = "decided" PROVE DecidedStands(c)'
    BY <1>0, <1>1, <1>2, <2>2, <2>5 DEF TypeOK
  <2>6. QED
    BY <2>3, <2>4, <2>5 DEF CallInv
<1>5. CASE LockProject(r)
  <2>1. /\ pc[r] = "waiting" /\ pc' = [pc EXCEPT ![r] = "locked"]
        /\ lock = NULL /\ lock' = r /\ UNCHANGED <<req, seen>>
    BY <1>5 DEF LockProject
  <2>2. TypeOK'
    BY <1>0, <1>3, <2>1 DEF TypeOK
  <2>3. \A c \in Call : pc'[c] \in {"locked", "decided"} <=> lock' = c
    BY <1>0, <1>1, <2>1, CallAssumption DEF TypeOK
  <2>4. ASSUME NEW c \in Call, pc'[c] = "decided" PROVE DecidedStands(c)'
    BY <1>0, <1>1, <1>2, <2>1, <2>4 DEF TypeOK
  <2>5. QED
    BY <2>2, <2>3, <2>4 DEF CallInv
<1>6. CASE Decide(r)
  <2>1. /\ pc[r] = "locked" /\ pc' = [pc EXCEPT ![r] = "decided"]
        /\ MayCall(req[r]) /\ Acceptable(req[r])
        /\ seen' = [seen EXCEPT ![r] = RowValue(req[r])]
        /\ req' = req /\ lock' = lock /\ req[r] \in Requests
    BY <1>0, <1>6 DEF Decide, TypeOK
  <2>2. TypeOK'
    BY <1>0, <1>3, <2>1, RowValueType DEF TypeOK
  <2>3. \A c \in Call : pc'[c] \in {"locked", "decided"} <=> lock' = c
    BY <1>0, <1>1, <2>1 DEF TypeOK
  <2>4. DecidedStands(r)'
    <3>1. seen'[r] = RowValue(req[r])
      BY <1>0, <2>1 DEF TypeOK
    <3>2. QED
      BY <2>1, <3>1
      DEF DecidedStands, MayCall, Acceptable, RowValue, MinRole, NewValueBelongs, Belongs,
          AnotherAdmin, Admins, AtLeast, rosterVars
  <2>5. ASSUME NEW c \in Call, c # r, pc'[c] = "decided" PROVE DecidedStands(c)'
    BY <1>0, <1>1, <1>2, <2>5
  <2>6. QED
    BY <2>2, <2>3, <2>4, <2>5 DEF CallInv
<1>7. QED
  BY <1>4, <1>5, <1>6

LEMMA NextIInv == IInv /\ [MembersNext]_vars => IInv'
<1> SUFFICES ASSUME IInv, [MembersNext]_vars PROVE IInv'
  OBVIOUS
<1>1. RosterInv'
  BY StepRefines, NextRosterInv DEF IInv
<1>2. RosterTypeOK'
  BY <1>1 DEF RosterInv
<1>3. CASE MembersNext
  <2>1. PICK r \in Call : Step(r)
    BY <1>3 DEF MembersNext
  <2>2. CASE (\E q \in Requests : Begin(r, q)) \/ LockProject(r) \/ Decide(r)
    <3>1. UNCHANGED rosterVars
      BY <2>2 DEF Begin, LockProject, Decide
    <3>2. QED
      BY <1>1, <2>2, <3>1, QuietStepCallInv DEF IInv
  <2>3. CASE Refuse(r) \/ NotFound(r) \/ Fail(r)
    BY <1>1, <1>2, <2>3, EndCallInv DEF Refuse, NotFound, Fail, IInv
  <2>4. CASE Commit(r)
    <3>1. lock = r /\ End(r)
      BY <2>4 DEF Commit, IInv, CallInv
    <3>2. QED
      BY <1>1, <1>2, <3>1, EndCallInv DEF IInv
  <2>5. QED
    BY <2>1, <2>2, <2>3, <2>4 DEF Step
<1>4. CASE UNCHANGED vars
  <2>1. CallInv'
    BY <1>4 DEF vars, callVars, rosterVars, IInv, CallInv, TypeOK, RosterTypeOK, DecidedStands,
       MayCall, Acceptable, RowValue, MinRole, NewValueBelongs, Belongs, AnotherAdmin, Admins,
       AtLeast
  <2>2. QED
    BY <1>1, <2>1 DEF IInv
<1>5. QED
  BY <1>3, <1>4

---------------------------------------------------------------------------
(* The theorems.                                                            *)

(* The inductive invariant of the protocol: only the holder of the lock     *)
(* decides, and what it decided on stands until it commits.                 *)
THEOREM Invariance == MembersSpec => []IInv
BY InitIInv, NextIInv, PTL DEF MembersSpec

(* Transactions that check twice and lock once amount to atomic calls, each *)
(* by someone who has the role at the moment it takes effect.               *)
THEOREM Refinement == MembersSpec => ImplementsRoster
<1>1. MembersInit => Init
  BY DEF MembersInit
<1>2. IInv /\ [MembersNext]_vars => [Next]_rosterVars
  BY StepRefines
<1>3. QED
  BY <1>1, <1>2, Invariance, PTL DEF MembersSpec, ImplementsRoster, Spec

(* Type correctness of the protocol.                                        *)
THEOREM TypeCorrect == MembersSpec => []TypeOK
<1>1. IInv => TypeOK
  BY DEF IInv, CallInv
<1>2. QED
  BY <1>1, Invariance, PTL

(* Concurrent demotions, removals and departures leave an admin.            *)
THEOREM AlwaysSomeAdmin == MembersSpec => []SomeAdmin
<1>1. IInv => SomeAdmin
  BY DEF IInv, RosterInv
<1>2. QED
  BY <1>1, Invariance, PTL

(* No write puts back the lead or the assignee a removal has cleared.       *)
THEOREM AlwaysBelong == MembersSpec => [](LeadBelongs /\ AssigneesBelong)
<1>1. IInv => LeadBelongs /\ AssigneesBelong
  BY DEF IInv, RosterInv
<1>2. QED
  BY <1>1, Invariance, PTL

(* All of it together, as the run checks it.                                *)
THEOREM RosterAlwaysHolds == MembersSpec => []RosterHolds
BY TypeCorrect, AlwaysSomeAdmin, AlwaysBelong, PTL DEF RosterHolds
=============================================================================

------------------------------- MODULE Roster -------------------------------
(***************************************************************************)
(* Who belongs to a project and what that entitles them to be: the roles,  *)
(* the project lead and the assignees of its issues. Abstract: a call      *)
(* happens at one instant, in which its caller has the role it needs.      *)
(* Members implements it with transactions and a row lock.                 *)
(***************************************************************************)
EXTENDS Naturals

CONSTANTS
    User,
    Issue,     \* the issues of the project
    Creator,   \* the user who creates the project
    NULL

ASSUME RosterAssumption == Creator \in User /\ NULL \notin User

VARIABLES
    exists,    \* whether the project still does
    role,      \* project_members.role, "none" where there is no row
    lead,      \* projects.lead_id
    assignee   \* issues.assignee_id

rosterVars == <<exists, role, lead, assignee>>

Roles == {"viewer", "member", "admin"}

RosterTypeOK ==
    /\ exists \in BOOLEAN
    /\ role \in [User -> Roles \cup {"none"}]
    /\ lead \in User \cup {NULL}
    /\ assignee \in [Issue -> User \cup {NULL}]

(* CreateProject: the creator is its only admin and its lead.               *)
Init ==
    /\ exists = TRUE
    /\ role = [u \in User |-> IF u = Creator THEN "admin" ELSE "none"]
    /\ lead = Creator
    /\ assignee = [i \in Issue |-> NULL]

Level == [none |-> 0, viewer |-> 1, member |-> 2, admin |-> 3]
AtLeast(have, min) == Level[have] >= Level[min]

Belongs(u) == role[u] # "none"
Admins == {u \in User : role[u] = "admin"}
AnotherAdmin(u) == role[u] = "admin" => Admins # {u}

AddMember(caller, u, k) ==
    /\ AtLeast(role[caller], "admin")
    /\ ~Belongs(u)
    /\ role' = [role EXCEPT ![u] = k]
    /\ UNCHANGED <<exists, lead, assignee>>

(* The last admin cannot be demoted.                                        *)
UpdateMember(caller, u, k) ==
    /\ AtLeast(role[caller], "admin")
    /\ Belongs(u)
    /\ k # role[u]
    /\ AnotherAdmin(u)
    /\ role' = [role EXCEPT ![u] = k]
    /\ UNCHANGED <<exists, lead, assignee>>

(* An admin removes anyone, and every member may leave; but not the last    *)
(* admin. The removed user stops being assignee and lead.                   *)
RemoveMember(caller, u) ==
    /\ AtLeast(role[caller], IF caller = u THEN "viewer" ELSE "admin")
    /\ Belongs(u)
    /\ AnotherAdmin(u)
    /\ role' = [role EXCEPT ![u] = "none"]
    /\ lead' = IF lead = u THEN NULL ELSE lead
    /\ assignee' = [i \in Issue |-> IF assignee[i] = u THEN NULL ELSE assignee[i]]
    /\ UNCHANGED exists

UpdateProject(caller, u) ==
    /\ AtLeast(role[caller], "admin")
    /\ u # NULL => Belongs(u)
    /\ lead' = u
    /\ UNCHANGED <<exists, role, assignee>>

AssignIssue(caller, i, u) ==
    /\ AtLeast(role[caller], "member")
    /\ u # NULL => Belongs(u)
    /\ assignee' = [assignee EXCEPT ![i] = u]
    /\ UNCHANGED <<exists, role, lead>>

DeleteProject(caller) ==
    /\ AtLeast(role[caller], "admin")
    /\ exists' = FALSE
    /\ role' = [u \in User |-> "none"]
    /\ lead' = NULL
    /\ assignee' = [i \in Issue |-> NULL]

Next ==
    \E caller \in User :
        \/ \E u \in User :
            \/ \E k \in Roles : AddMember(caller, u, k) \/ UpdateMember(caller, u, k)
            \/ RemoveMember(caller, u)
        \/ \E u \in User \cup {NULL} :
            \/ UpdateProject(caller, u)
            \/ \E i \in Issue : AssignIssue(caller, i, u)
        \/ DeleteProject(caller)

Spec == Init /\ [][Next]_rosterVars

(* A project always keeps at least one admin (SPEC section 2).              *)
SomeAdmin == exists => Admins # {}

(* The lead and the assignees are members of the project.                   *)
LeadBelongs == lead # NULL => Belongs(lead)
AssigneesBelong == \A i \in Issue : assignee[i] # NULL => Belongs(assignee[i])
=============================================================================

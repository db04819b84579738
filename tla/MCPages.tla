------------------------------ MODULE MCPages ------------------------------
(* Pages with the boards, backlogs, forms and lists that TLC checks: see README.md for the
   bounds. *)
EXTENDS Pages, TLC

CONSTANTS todo, done, s1, s2, a, b, c,    \* statuses, sprints, texts or options
          p1, p2, bob                     \* projects, a teammate

-----------------------------------------------------------------------------
(* Boards of one to three cards in one or two columns, with cards the filters hide, one or two
   moves, and a teammate's card. *)
BoardScene(status, hides, moves, strangers) ==
  [status |-> status, hides |-> hides, moves |-> moves, strangers |-> strangers]
SomeBoardScenes ==
  {BoardScene(<<todo>>, {}, 2, {bob}),
   BoardScene(<<todo, todo>>, {}, 2, {}),
   BoardScene(<<todo, done>>, {}, 2, {}),
   BoardScene(<<todo, todo, todo>>, {}, 1, {bob}),
   BoardScene(<<todo, done, todo>>, {2}, 1, {}),
   BoardScene(<<todo, todo, todo>>, {2}, 1, {})}

(* A board with an epic, a story of it with a subtask and another story, before and after the
   first story and every assignee have left. *)
BoardIssue(type, assignee, parent, named) ==
  [type |-> type, assignee |-> assignee, parent |-> parent, named |-> named]
Content(issues, assignee) ==
  [issues |-> issues,
   byId |-> 10 :> BoardIssue("epic", None, None, FALSE) @@ 1 :> BoardIssue("story", Me, 10, TRUE)
            @@ 2 :> BoardIssue("subtask", assignee, 1, FALSE)
            @@ 3 :> BoardIssue("story", assignee, None, FALSE)]
SomeContents == {Content({1, 2, 3}, bob), Content({2, 3}, None)}

(* Backlogs of two or three issues, planned in a sprint or not, hidden rows, a Kanban list. *)
BacklogScene(sprint, hides, moves, strangers) ==
  [sprint |-> sprint, kanban |-> FALSE, hides |-> hides, moves |-> moves, strangers |-> strangers]
SomeBacklogScenes ==
  {BacklogScene(<<s1, None>>, {}, 2, 0),
   BacklogScene(<<s1, None>>, {}, 1, 1),
   BacklogScene(<<s1, None, s1>>, {3}, 1, 0),
   [BacklogScene(<<None, None, None>>, {2}, 1, 0) EXCEPT !.kanban = TRUE]}

(* The create dialog opened plainly, or for a child of a story, of an epic with another project
   listed, or where the preferred project is not known. *)
Parent(kind, known) == [project |-> p1, kind |-> kind, known |-> known]
Opening(preferred, project, parent, sprint, status, type) ==
  [preferred |-> preferred, project |-> project, parent |-> parent, sprint |-> sprint,
   status |-> status, type |-> type]
SomeOpenings ==
  {Opening(<<p2>>, None, None, None, None, None),
   Opening(<<p1>>, p1, Parent("standard", FALSE), None, None, None),
   Opening(<<p1>>, p1, Parent("epic", FALSE), p1, None, None),
   Opening(<<p1, p2>>, p1, Parent("epic", TRUE), p1, p1, "standard")}

IssueStatuses == <<"open", "shipped", "open">>
StatusCategories == [open |-> "todo", shipped |-> "done", closed |-> "done"]
SomeMenus == {[categories |-> {"done"}, statuses |-> {"open"}], [categories |-> {}, statuses |-> {}]}

(* What each picker lists, at different moments. *)
PickerLists ==
  [status |-> {<<a>>, <<a, b>>, <<b, a>>}, type |-> {<<a, b>>}, sprint |-> {<<>>, <<a>>, <<b>>},
   assignee |-> {<<Me>>, <<Me, b>>, <<b>>}, reporter |-> {<<a>>, <<a, b>>},
   parent |-> {<<>>, <<a>>, <<b, a>>}, labels |-> {<<>>, <<a>>, <<b>>, <<a, b>>}]

(* A planned sprint with a start date only, and an active one. *)
SprintOf(state, start, end) ==
  [state |-> state, name |-> "n1", goal |-> "g1", startDate |-> start, endDate |-> end]
SomeSprints ==
  {SprintOf("planned", 1, None), SprintOf("active", 1, 3)}

SomeOrders == {<<"c1", "c2">>, <<"c1", "c2", "c3">>}
CategoriesOfColumns == [c1 |-> "todo", c2 |-> "todo", c3 |-> "done"]

SomeDetails ==
  [name |-> {"n1", "n2", ""}, description |-> {"d1"}, type |-> {"scrum", "kanban"}, lead |-> {"u1"}]
=============================================================================

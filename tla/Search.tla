------------------------------- MODULE Search -------------------------------
(***************************************************************************)
(* The issue search's filters, which live in the URL (useIssueFilters,     *)
(* issueFilters), with the browser's history around them, and the text box *)
(* that writes to the URL a while after the typing stops (SearchBox). The  *)
(* global route: a search may be narrowed to a project, and then by that   *)
(* project's statuses, members, labels, epics and sprints.                 *)
(***************************************************************************)
EXTENDS Naturals, Sequences

CONSTANTS Texts,      \* what may be searched for, trimmed
          Empty,      \* no text
          Projects,   \* the projects a search may be narrowed to
          Kanban,     \* those without sprints
          None, Lost, \* no project, no timer; a history the user went through
          MaxEntries  \* bounds the browser's history

(* The filters: `ids` are those of one project (statuses, members, labels, an epic, a sprint),
   `sprint` the active sprints, which the sprint menu asks for across projects too. *)
Searches == [q : Texts, project : Projects \cup {None}, ids : Projects \cup {None}, sprint : BOOLEAN]

(* The box: a text, and whether a space follows it. What its timer commits. *)
Drafts == [text : Texts, spaced : BOOLEAN]
Timers == [text : Drafts, value : Texts]

SearchAssumption ==
  /\ Empty \in Texts /\ Kanban \subseteq Projects /\ MaxEntries \in Nat
  /\ None # Lost /\ {None, Lost} \cap (Searches \cup Timers) = {}

VARIABLES entries, \* the browser's history: the filters of each entry
          here,    \* the entry shown
          draft,   \* the box: its text, and whether a space follows it
          timer,   \* the commit that is due: the text, and the value when it was typed
          pushed,  \* pushedThisSession
          focused, \* the box has the focus
          before,  \* history: what was searched when the box first wrote since it has the focus
          resumed  \* history: it got the focus while a session was still open

vars == <<entries, here, draft, timer, pushed, focused, before, resumed>>

Filters(q, project, ids, sprint) == [q |-> q, project |-> project, ids |-> ids, sprint |-> sprint]
EmptyFilters == Filters(Empty, None, None, FALSE)

(* parseFilters ignores a project's ids without the project; the URL holds what was written. *)
ParseFilters(url) == IF url.project = None THEN [url EXCEPT !.ids = None] ELSE url
Current == ParseFilters(entries[here])

(* withoutProjectScopedFilters, for the project picked next. *)
WithoutProjectScoped(filters, next) ==
  [filters EXCEPT !.ids = None, !.sprint = @ /\ next \notin Kanban]

Trim(text) == text.text
Text(q) == [text |-> q, spaced |-> FALSE]

-----------------------------------------------------------------------------
Init ==
  /\ \E q \in Texts, project \in Projects \cup {None}, narrowed \in BOOLEAN :
       /\ entries = <<Filters(q, project, IF narrowed THEN project ELSE None, FALSE)>>
       /\ draft = Text(q)
  /\ here = 1
  /\ timer = None /\ pushed = FALSE /\ focused = FALSE
  /\ before = None /\ resumed = FALSE

(* SearchBox: the URL's text changed from outside, so the box shows it; what it wrote itself
   leaves the box as it is, with the space just typed. *)
Synced(text, was, q) == IF q # was /\ q # Trim(text) THEN Text(q) ELSE text

(* useIssueFilters commit: nothing for the URL there is; else a new entry, or this one's. *)
Commit(filters, replace) ==
  LET same == filters = entries[here]
      kept == IF replace THEN here - 1 ELSE here
  IN /\ same \/ replace \/ here < MaxEntries
     /\ entries' = IF same THEN entries
                   ELSE SubSeq(entries, 1, kept) \o <<filters>>
                        \o (IF replace THEN SubSeq(entries, here + 1, Len(entries)) ELSE <<>>)
     /\ here' = IF same THEN here ELSE kept + 1

(* A menu of the filter bar; the box has lost the focus. *)
Update(filters) ==
  /\ ~focused
  /\ Commit(filters, FALSE)
  /\ draft' = Synced(draft, Current.q, filters.q)
  /\ UNCHANGED <<timer, pushed, focused, before, resumed>>

ProjectFilter ==
  \E next \in Projects \cup {None} :
    Update([WithoutProjectScoped(Current, next) EXCEPT !.project = next])
(* A status, a member, a label, an epic or a sprint of the project, or none. *)
ProjectMenu ==
  /\ Current.project # None
  /\ \E ids \in {None, Current.project} : Update([Current EXCEPT !.ids = ids])
(* Offered on a Kanban project only while it narrows the search. *)
SprintFilterMenu ==
  /\ Current.sprint \/ Current.project \notin Kanban
  /\ Update([Current EXCEPT !.sprint = ~@])
ClearFilters == Current # EmptyFilters /\ Update(EmptyFilters)

(* The search of the top bar. *)
TopNavSearch == \E q \in Texts : Update([EmptyFilters EXCEPT !.q = q])

(* Back and forward: from the keyboard the box keeps the focus. *)
Traverse ==
  \E to \in 1..Len(entries) :
    /\ to # here
    /\ here' = to
    /\ draft' = Synced(draft, Current.q, ParseFilters(entries[to]).q)
    /\ before' = IF focused THEN Lost ELSE before
    /\ UNCHANGED <<entries, timer, pushed, focused, resumed>>

-----------------------------------------------------------------------------
(* SearchBox *)

(* commit(text), in the render that knew `value`: the first write of a session pushes. *)
Write(text, value) ==
  /\ timer' = None
  /\ IF Trim(text) = value
     THEN UNCHANGED <<entries, here, pushed, before>>
     ELSE /\ Commit([Current EXCEPT !.q = Trim(text)], pushed)
          /\ pushed' = TRUE
          /\ before' = IF before = None /\ Trim(text) # Current.q THEN entries[here] ELSE before

Focus ==
  /\ ~focused
  /\ focused' = TRUE
  /\ before' = None /\ resumed' = pushed
  /\ UNCHANGED <<entries, here, draft, timer, pushed>>

(* onChange restarts the timer. *)
Type(text) ==
  /\ focused /\ text # draft
  /\ draft' = text
  /\ timer' = [text |-> text, value |-> Current.q]
  /\ UNCHANGED <<entries, here, pushed, focused, before, resumed>>

(* 350 ms after the typing stopped. *)
TimerFires ==
  /\ timer # None
  /\ Write(timer.text, timer.value)
  /\ draft' = Synced(draft, Current.q, entries'[here'].q)
  /\ UNCHANGED <<focused, resumed>>

Enter ==
  /\ focused
  /\ Write(draft, Current.q)
  /\ UNCHANGED <<draft, focused, resumed>>

(* Escape in the box, or its button, which has taken the focus. *)
Clear ==
  /\ draft # Text(Empty)
  /\ Write(Text(Empty), Current.q)
  /\ draft' = Text(Empty)
  /\ UNCHANGED <<focused, resumed>>

(* onBlur writes, then ends the session. *)
Blur ==
  /\ focused
  /\ focused' = FALSE
  /\ timer' = None
  /\ IF Trim(draft) = Current.q
     THEN UNCHANGED <<entries, here>>
     ELSE Commit([Current EXCEPT !.q = Trim(draft)], pushed)
  /\ pushed' = FALSE
  /\ before' = None
  /\ UNCHANGED <<draft, resumed>>

Next ==
  \/ ProjectFilter \/ ProjectMenu \/ SprintFilterMenu \/ ClearFilters \/ TopNavSearch \/ Traverse
  \/ Focus \/ TimerFires \/ Enter \/ Clear \/ Blur
  \/ \E text \in Drafts : Type(text)

Spec == Init /\ [][Next]_vars

-----------------------------------------------------------------------------
(* Properties *)

(* When no text waits to be written, the box shows the text that is searched for: the search
   is never for a text the box does not show. *)
BoxShowsSearch == timer = None => Trim(draft) = Current.q

(* "Back returns to the search before the user started typing": the entry below the one the
   box writes to is what was searched when it first wrote since it has the focus, unless the
   user went through the history meanwhile. *)
BackRestoresTyping ==
  focused /\ before \notin {None, Lost} => here > 1 /\ entries[here - 1] = before

(* So it is, except in a session the clear button left open: the button writes after the blur
   that ends a session, and pushedThisSession stays set until the next blur. *)
BackRestoresSearch == ~resumed => BackRestoresTyping

(* No entry of the history searches a project, or all of them, for the ids of another one. *)
IdsAreOfProject == \A i \in DOMAIN entries : entries[i].ids \in {None, entries[i].project}
=============================================================================

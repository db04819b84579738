------------------------------- MODULE Picker -------------------------------
(***************************************************************************)
(* One picker of the issue's details panel while teammates change the same *)
(* field and the options it offers: the Combobox every picker is built on, *)
(* the single-value pickers over it (status, type, priority, sprint,       *)
(* reporter and assignee, parent), and the labels' picker, which collects  *)
(* the user's picks and saves once when it closes.  A value is the set of  *)
(* what is selected, and a text typed is the name of the one option it     *)
(* matches.                                                                *)
(***************************************************************************)
EXTENDS Integers, Sequences

CONSTANTS Kinds,   \* the fields: among Fields
          Listing, \* for each of them, the lists of options the server may answer with
          Me,      \* the user, an option of "assignee"
          Blank,   \* an empty search
          Create,  \* the option that creates a label
          None     \* no value, and no request

Fields == {"status", "type", "priority", "sprint", "assignee", "reporter", "parent", "labels"}

PickerAssumption ==
  /\ Kinds \subseteq Fields /\ Kinds \subseteq DOMAIN Listing
  /\ \A k \in Kinds : \A list \in Listing[k] : \A i \in DOMAIN list : list[i] \notin {Blank, Create, None}

VARIABLES kind,     \* the field
          saved,    \* what is selected at the server
          value,    \* what is selected in the cache
          request,  \* the PATCH under way
          listed,   \* the list of options in the cache
          open,     \* Combobox (LabelMultiSelect): whether its popover is open
          query,    \* the search
          active,   \* the position of the highlighted option
          picks,    \* LabelMultiSelect: the labels picked or unpicked, with from and to
          creating, \* the label being created, and the value of the render it was asked in
          toggled   \* history: the labels toggled an odd number of times since the popover
                    \* opened, and whether they then showed as selected

vars == <<kind, saved, value, request, listed, open, query, active, picks, creating, toggled>>

Labels == kind = "labels"
(* TypeSelect and PrioritySelect offer what never changes. *)
Fixed == kind \in {"type", "priority"}
(* People and labels are searched in their list, which a short list has no search for; *)
Searchable == kind \in {"assignee", "reporter", "parent", "labels"}
(* IssuePicker searches at the server. *)
ServerSearch == kind = "parent"
(* The sprint, the assignee and the epic may be cleared. *)
Clearable == kind \in {"sprint", "assignee", "parent"}

Elements(list) == {list[i] : i \in DOMAIN list}
(* What may be listed: for labels, those not created yet as well. *)
Listable == UNION {Elements(list) : list \in Listing[kind]}
(* A single value, or the ids of the labels. *)
Values == IF Labels THEN SUBSET Listable
          ELSE {{n} : n \in Listable \cup (IF Clearable THEN {None} ELSE {})}
(* The options: "None" is the last of the sprints, and the first of the others. *)
Options ==
  IF ~Clearable THEN listed ELSE IF kind = "sprint" THEN Append(listed, None) ELSE <<None>> \o listed

IsPending == request # None
(* useOptimisticField shows the pending value. *)
Display == IF IsPending THEN request.ids ELSE value

(* lockedOpen: while the field saves, the picker is closed. *)
Locked == IsPending
IsOpen == open /\ ~Locked

-----------------------------------------------------------------------------
(* LabelMultiSelect *)

NoPicks == [label \in {} |-> TRUE]

WithPicks(ids, p) ==
  {id \in ids : id \in DOMAIN p => p[id].to} \cup {id \in DOMAIN p : p[id].to}

Without(p, label) == [id \in DOMAIN p \ {label} |-> p[id]]
With(p, label, pick) == [id \in DOMAIN p \cup {label} |-> IF id = label THEN pick ELSE p[id]]

(* Mutant: a pick the user undoes is kept. *)
PickKept(p, ids, label) ==
  With(p, label, [from |-> label \in ids, to |-> label \notin WithPicks(ids, p)])
TogglePick(p, ids, label) ==
  LET from == IF label \in DOMAIN p THEN p[label].from ELSE label \in ids
      to == label \notin WithPicks(ids, p)
  IN  IF to = from THEN Without(p, label) ELSE With(p, label, [from |-> from, to |-> to])

SelectedIds == IF Labels THEN WithPicks(Display, picks) ELSE Display

(* The labels the search matches, and "Create label" for a name there is none of. *)
CanCreate == Labels /\ query # Blank /\ query \notin Elements(listed)
Filtered ==
  IF ServerSearch \/ query = Blank THEN Options
  ELSE SelectSeq(Options, LAMBDA o : o = query) \o (IF CanCreate THEN <<Create>> ELSE <<>>)
Enabled(option) == option = Create => creating = None

-----------------------------------------------------------------------------
(* Combobox *)

(* The highlight when it opens: the first selected option, else the first one. *)
FirstSelected ==
  LET at == {i \in DOMAIN Options : Options[i] \in SelectedIds}
  IN  IF at = {} THEN 1 ELSE CHOOSE i \in at : \A j \in at : i <= j
(* The highlight stays inside the list. *)
Clamped(a, length) == IF a <= length THEN a ELSE IF length = 0 THEN 1 ELSE length

Stepped(a, delta, length) == ((a - 1 + delta + length) % length) + 1
(* ArrowDown and ArrowUp (delta 1 and -1): the next enabled option, around the ends. *)
Moved(delta) ==
  LET n == Len(Filtered)
      step[k \in 0..n] == IF k = 0 THEN active ELSE Stepped(step[k - 1], delta, n)
      good == {k \in 1..n : Enabled(Filtered[step[k]])}
  IN  IF good = {} THEN active ELSE step[CHOOSE k \in good : \A j \in good : k <= j]

Init ==
  /\ kind \in Kinds
  /\ saved \in Values /\ value = saved
  /\ listed \in Listing[kind]
  /\ request = None /\ creating = None
  /\ open = FALSE /\ query = Blank /\ active = 1
  /\ picks = NoPicks /\ toggled = NoPicks

(* One PATCH of the field, shown at once. *)
Commit(ids) == request' = [ids |-> ids, answer |-> "none"]

(* The trigger; of a locked picker, only the labels' search and picks are cleared. *)
Open ==
  /\ ~IsOpen
  /\ open' = ~Locked
  /\ query' = Blank
  /\ active' = IF Locked THEN active ELSE FirstSelected
  /\ picks' = NoPicks /\ toggled' = NoPicks
  /\ UNCHANGED <<kind, saved, value, request, listed, creating>>

(* Escape, Tab, the trigger, or a click elsewhere: the labels' picker now saves, once. *)
Close ==
  /\ IsOpen
  /\ open' = FALSE
  /\ IF Labels /\ SelectedIds # value THEN Commit(SelectedIds) ELSE UNCHANGED request
  /\ picks' = NoPicks /\ toggled' = NoPicks
  /\ UNCHANGED <<kind, saved, value, listed, query, active, creating>>

(* The search, of the server's issues or of the options listed. *)
Type(text) ==
  /\ IsOpen /\ Searchable
  /\ query' = text
  /\ active' = 1
  /\ UNCHANGED <<kind, saved, value, request, listed, open, picks, creating, toggled>>

Move(delta) ==
  /\ IsOpen /\ Filtered # <<>>
  /\ active' = Moved(delta)
  /\ UNCHANGED <<kind, saved, value, request, listed, open, query, picks, creating, toggled>>

(* Home and End, where there is no search. *)
MoveTo(i) ==
  /\ IsOpen /\ ~Searchable /\ i \in {1, Len(Filtered)}
  /\ active' = i
  /\ UNCHANGED <<kind, saved, value, request, listed, open, query, picks, creating, toggled>>

(* History of a toggle that makes the picks "next". *)
Toggled(label, next) ==
  toggled' = IF label \in DOMAIN toggled THEN Without(toggled, label)
             ELSE With(toggled, label, label \in WithPicks(value, next))

(* A new label is asked for, with the labels selected in this render. *)
CreateLabel ==
  /\ creating' = [label |-> query, ids |-> Display, answer |-> "none"]
  /\ UNCHANGED <<request, open, picks, toggled>>

ToggleLabel(label) ==
  /\ picks' = TogglePick(picks, Display, label)
  /\ Toggled(label, picks')
  /\ UNCHANGED <<request, open, creating>>

(* The single-value pickers: another value is saved, and the popover closes. *)
SelectValue(option) ==
  /\ IF option \in Display THEN UNCHANGED request ELSE Commit({option})
  /\ open' = FALSE
  /\ UNCHANGED <<picks, creating, toggled>>

(* Choose the option at position i: Enter on the highlighted one, or a click on any. *)
ChooseAt(i) ==
  /\ IsOpen /\ i \in DOMAIN Filtered /\ Enabled(Filtered[i])
  /\ \/ Filtered[i] = Create /\ CreateLabel
     \/ Filtered[i] # Create /\ Labels /\ ToggleLabel(Filtered[i])
     \/ ~Labels /\ SelectValue(Filtered[i])
  /\ UNCHANGED <<kind, saved, value, listed, query, active>>

Enter == ChooseAt(active)
Click(i) == ChooseAt(i)

(* AssigneeField's shortcut, disabled while saving. *)
AssignToMe ==
  /\ kind = "assignee" /\ ~open /\ ~IsPending /\ Me \notin Display
  /\ Commit({Me})
  /\ UNCHANGED <<kind, saved, value, listed, open, query, active, picks, creating, toggled>>

-----------------------------------------------------------------------------
(* A label is created: the answer puts it into the list, ... *)
LabelCreated ==
  /\ creating # None /\ creating.answer = "none"
  /\ creating' = [creating EXCEPT !.answer = "created"]
  /\ listed' = IF creating.label \in Elements(listed) THEN listed
               ELSE CHOOSE list \in Listing[kind] : Elements(list) = Elements(listed) \cup {creating.label}
  /\ UNCHANGED <<kind, saved, value, request, open, query, active, picks, toggled>>

(* ... and once the project's queries have been loaded again it is toggled, open or not. *)
LabelSettled ==
  /\ creating # None /\ creating.answer = "created"
  /\ creating' = None
  /\ query' = Blank
  /\ picks' = TogglePick(picks, creating.ids, creating.label)
  /\ IF IsOpen THEN Toggled(creating.label, picks') ELSE UNCHANGED toggled
  /\ UNCHANGED <<kind, saved, value, request, listed, open, active>>

LabelRefused ==
  /\ creating # None /\ creating.answer = "none"
  /\ creating' = None
  /\ UNCHANGED <<kind, saved, value, request, listed, open, query, active, picks, toggled>>

(* The PATCH: saved or refused by the server, ... *)
Save ==
  /\ IsPending /\ request.answer = "none"
  /\ \/ saved' = request.ids /\ request' = [request EXCEPT !.answer = "saved"]
     \/ request' = [request EXCEPT !.answer = "failed"] /\ UNCHANGED saved
  /\ UNCHANGED <<kind, value, listed, open, query, active, picks, creating, toggled>>

(* ... its answer put into the cache, ... *)
Answered ==
  /\ IsPending /\ request.answer = "saved"
  /\ value' = request.ids
  /\ request' = [request EXCEPT !.answer = "refetching"]
  /\ UNCHANGED <<kind, saved, listed, open, query, active, picks, creating, toggled>>

(* ... and the issue loaded again; a failed save shows the field's value again. *)
Settled ==
  /\ IsPending /\ request.answer \in {"refetching", "failed"}
  /\ value' = IF request.answer = "failed" THEN value ELSE saved
  /\ request' = None
  /\ UNCHANGED <<kind, saved, listed, open, query, active, picks, creating, toggled>>

(* Teammates change the field, which is loaded again later, ... *)
Teammate(ids) ==
  /\ saved # ids
  /\ saved' = ids
  /\ UNCHANGED <<kind, value, request, listed, open, query, active, picks, creating, toggled>>

Reload ==
  /\ value # saved
  /\ value' = saved
  /\ UNCHANGED <<kind, saved, request, listed, open, query, active, picks, creating, toggled>>

(* ... and the options, or the answer to a search arrives. *)
Relist(list) ==
  /\ ~Fixed /\ list \in Listing[kind] /\ list # listed
  /\ listed' = list
  /\ UNCHANGED <<kind, saved, value, request, open, query, picks, creating, toggled>>
  /\ active' = Clamped(active, Len(Filtered'))

Next ==
  \/ Open \/ Close \/ Enter \/ AssignToMe
  \/ LabelCreated \/ LabelSettled \/ LabelRefused
  \/ Save \/ Answered \/ Settled \/ Reload
  \/ \E text \in Listable \cup {Blank} : Type(text)
  \/ \E delta \in {1, -1} : Move(delta)
  \/ \E i \in 1..Len(Filtered) : MoveTo(i) \/ Click(i)
  \/ \E ids \in Values : Teammate(ids)
  \/ \E list \in Listing[kind] : Relist(list)

Spec == Init /\ [][Next]_vars

-----------------------------------------------------------------------------
(* Properties: of every state, and of every step. *)

(* A field has one save at a time, and each would change it.  A single-value picker saves one
   of the options its list then shows, or its user by the shortcut.  Saved labels differ from the
   live ones exactly in those toggled an odd number of times while the picker was open, which
   are sent as they then showed: "a label someone else added or removed meanwhile stays that
   way", and one toggled twice "takes whatever someone else did to it meanwhile". *)
SendsTheChoice ==
  request' # None /\ (request = None \/ request'.answer = "none") /\ request' # request =>
       /\ request = None
       /\ request'.ids # value
       /\ ~Labels => \/ \E option \in Elements(Filtered) : request'.ids = {option}
                     \/ ~open /\ request'.ids = {Me}
       /\ Labels =>
            /\ \A label \in Listable \ DOMAIN toggled : label \in request'.ids <=> label \in value
            /\ \A label \in DOMAIN toggled : label \in request'.ids <=> toggled[label]
=============================================================================

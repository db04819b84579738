---------------------------- MODULE FormsProofs ----------------------------
(***************************************************************************)
(* Proofs about the pages (Pages) that send what their user enters: the    *)
(* dialogs of a sprint, the form that creates an issue, pickers, inline    *)
(* editors, the project's details.  For each of them an invariant of its   *)
(* own module, which holds while the page is on screen.                    *)
(***************************************************************************)
EXTENDS Pages, TLAPS

-----------------------------------------------------------------------------
(* The dialogs that start and edit a sprint (SprintForms). *)

(* What a request may carry. *)
SfInput(input) ==
  /\ DOMAIN input \subseteq Sf!Fields
  /\ "name" \in DOMAIN input => input["name"] \in Names
  /\ "goal" \in DOMAIN input => input["goal"] \in Goals
  /\ "startDate" \in DOMAIN input => input["startDate"] \in Sf!Days
  /\ "endDate" \in DOMAIN input => input["endDate"] \in Sf!Days

SfInv ==
  /\ v1 \in Sf!SprintRecords
  /\ v3.sprint \in Sf!SprintRecords
  /\ v4 # None => v4 \in Sf!Dialogs
  /\ v5 # None => SfInput(v5.input)
  /\ Sf!PresetIsTheLength

LEMMA SfInit == Sf!Init => SfInv
<1>1. SUFFICES ASSUME Sf!Init PROVE SfInv
  OBVIOUS
<1>2. ListedSprints \subseteq Sf!SprintRecords
  BY PagesAssumption DEF PagesAssumption, Sf!SprintFormsAssumption, Sf!SprintRecords, Sf!Days
<1>3. v1 \in Sf!SprintRecords /\ v3.sprint = v1
  BY <1>1, <1>2 DEF Sf!Init, Sf!Listed
<1>4. QED
  BY <1>1, <1>3 DEF SfInv, Sf!Init, Sf!PresetIsTheLength

(* The form begins with dates of the length it shows, ... *)
LEMMA SfInitialValues ==
  ASSUME NEW s \in Sf!SprintRecords, NEW startToday \in BOOLEAN
  PROVE  LET v == Sf!InitialValues(s, startToday)
         IN  /\ v \in Sf!Forms
             /\ \/ v.duration = Custom \/ None \in {v.startDate, v.endDate}
                \/ v.endDate = v.startDate + v.duration
                \/ s.startDate = None /\ s.endDate # None
<1> DEFINE start == IF s.startDate = None /\ startToday THEN Today ELSE s.startDate
           duration == Sf!InferDuration(s.startDate, s.endDate)
           end == IF s.endDate = None THEN Sf!EndForDuration(start, duration) ELSE s.endDate
<1>1. /\ s.name \in Names /\ s.goal \in Goals
      /\ s.startDate \in Sf!Days /\ s.endDate \in Sf!Days
  BY DEF Sf!SprintRecords
<1>2. /\ None \notin Nat /\ Presets \subseteq Nat
      /\ Today \in Nat /\ Default \in Presets
  BY PagesAssumption DEF PagesAssumption, Sf!SprintFormsAssumption
<1>3. start \in Sf!Days /\ duration \in (Presets \cup {Custom}) /\ end \in Sf!Days
  BY <1>1, <1>2 DEF Sf!Days, Sf!InferDuration, Sf!EndForDuration
<1>4. \/ duration = Custom \/ None \in {start, end} \/ end = start + duration
      \/ s.startDate = None /\ s.endDate # None
  BY <1>1, <1>2 DEF Sf!Days, Sf!InferDuration, Sf!EndForDuration
<1>5. Sf!InitialValues(s, startToday) =
        [name |-> s.name, goal |-> s.goal, duration |-> duration, startDate |-> start, endDate |-> end]
  BY DEF Sf!InitialValues
<1> HIDE DEF start, duration, end
<1>6. QED
  BY <1>1, <1>3, <1>4, <1>5 DEF Sf!Forms

LEMMA SfOpens ==
  ASSUME SfInv, NEW type \in {"start", "edit"}, Sf!OpenDialog(type)
  PROVE  SfInv'
<1> DEFINE values == Sf!InitialValues(v3.sprint, type = "start")
<1>1. v4' = [type |-> type, sprint |-> v3.sprint, values |-> values]
  BY DEF Sf!OpenDialog
<1>2. v3.sprint \in Sf!SprintRecords /\ (type = "start") \in BOOLEAN
  BY DEF SfInv
<1>3. /\ values \in Sf!Forms
      /\ \/ values.duration = Custom \/ None \in {values.startDate, values.endDate}
         \/ values.endDate = values.startDate + values.duration
         \/ v3.sprint.startDate = None /\ v3.sprint.endDate # None
  BY <1>2, SfInitialValues
<1>4. v1' = v1 /\ v3' = v3 /\ v5' = v5
  BY DEF Sf!OpenDialog
<1> HIDE DEF values
<1>5. v4' \in Sf!Dialogs
  BY <1>1, <1>2, <1>3 DEF Sf!Dialogs
<1>6. Sf!PresetIsTheLength'
  BY <1>1, <1>3 DEF Sf!PresetIsTheLength
<1>7. QED
  BY <1>4, <1>5, <1>6 DEF SfInv

(* The steps that leave the dialog as it is, or close it. *)
LEMMA SfKeeps ==
  ASSUME SfInv, v1' \in Sf!SprintRecords, v3'.sprint \in Sf!SprintRecords,
         v4' \in {v4, None}, v5' # None => SfInput(v5'.input)
  PROVE  SfInv'
BY DEF SfInv, Sf!PresetIsTheLength, SfInput

(* The form takes what the user changes. *)
LEMMA SfUpdates ==
  ASSUME SfInv, v4 # None, NEW values \in Sf!Forms, v4' = [v4 EXCEPT !.values = values],
         \/ values.duration = Custom \/ None \in {values.startDate, values.endDate}
         \/ values.endDate = values.startDate + values.duration
         \/ v4.sprint.startDate = None /\ v4.sprint.endDate # None,
         v1' = v1, v3' = v3, v5' = v5
  PROVE  SfInv' /\ v4' \in Sf!Dialogs
<1>1. v4 \in Sf!Dialogs
  BY DEF SfInv
<1>2. v4' \in Sf!Dialogs /\ v4'.values = values /\ v4'.sprint = v4.sprint
  BY <1>1 DEF Sf!Dialogs
<1>3. Sf!PresetIsTheLength'
  BY <1>2 DEF Sf!PresetIsTheLength
<1>4. QED
  BY <1>2, <1>3 DEF SfInv

(* The values of the form with those of the patch. *)
LEMMA SfPatched ==
  ASSUME SfInv, v4 # None, NEW patch, Sf!Update(patch)
  PROVE  /\ v4' = [v4 EXCEPT !.values =
                     [f \in {"name", "goal", "duration", "startDate", "endDate"} |->
                        IF f \in DOMAIN patch THEN patch[f] ELSE v4.values[f]]]
         /\ v4.values \in Sf!Forms
         /\ v1' = v1 /\ v3' = v3 /\ v5' = v5
<1>1. v4 \in Sf!Dialogs
  BY DEF SfInv
<1>2. v4.values \in Sf!Forms
  BY <1>1 DEF Sf!Dialogs
<1>3. DOMAIN v4.values = {"name", "goal", "duration", "startDate", "endDate"}
  BY <1>2 DEF Sf!Forms
<1>4. QED
  BY <1>1, <1>2, <1>3 DEF Sf!Update, Sf!Dialogs

LEMMA SfSetsText ==
  ASSUME SfInv, v4 # None,
         \/ \E name \in Names : Sf!SetName(name)
         \/ \E goal \in Goals : Sf!SetGoal(goal)
  PROVE  SfInv' /\ v4' \in Sf!Dialogs
<1>1. CASE \E name \in Names : Sf!SetName(name)
  <2>1. PICK name \in Names : Sf!Update([name |-> name])
    BY <1>1 DEF Sf!SetName
  <2> DEFINE values == [f \in {"name", "goal", "duration", "startDate", "endDate"} |->
                          IF f \in DOMAIN [name |-> name] THEN [name |-> name][f] ELSE v4.values[f]]
  <2>2. v4' = [v4 EXCEPT !.values = values] /\ v4.values \in Sf!Forms
        /\ v1' = v1 /\ v3' = v3 /\ v5' = v5
    BY <2>1, SfPatched
  <2>3. values = [v4.values EXCEPT !.name = name]
    BY <2>2 DEF Sf!Forms
  <2>4. values \in Sf!Forms
    BY <2>2, <2>3 DEF Sf!Forms
  <2>5. /\ values.duration = v4.values.duration /\ values.startDate = v4.values.startDate
        /\ values.endDate = v4.values.endDate
    BY <2>2, <2>3 DEF Sf!Forms
  <2> HIDE DEF values
  <2>6. QED
    BY <2>2, <2>4, <2>5, SfUpdates DEF SfInv, Sf!PresetIsTheLength
<1>2. CASE \E goal \in Goals : Sf!SetGoal(goal)
  <2>1. PICK goal \in Goals : Sf!Update([goal |-> goal])
    BY <1>2 DEF Sf!SetGoal
  <2> DEFINE values == [f \in {"name", "goal", "duration", "startDate", "endDate"} |->
                          IF f \in DOMAIN [goal |-> goal] THEN [goal |-> goal][f] ELSE v4.values[f]]
  <2>2. v4' = [v4 EXCEPT !.values = values] /\ v4.values \in Sf!Forms
        /\ v1' = v1 /\ v3' = v3 /\ v5' = v5
    BY <2>1, SfPatched
  <2>3. values = [v4.values EXCEPT !.goal = goal]
    BY <2>2 DEF Sf!Forms
  <2>4. values \in Sf!Forms
    BY <2>2, <2>3 DEF Sf!Forms
  <2>5. /\ values.duration = v4.values.duration /\ values.startDate = v4.values.startDate
        /\ values.endDate = v4.values.endDate
    BY <2>2, <2>3 DEF Sf!Forms
  <2> HIDE DEF values
  <2>6. QED
    BY <2>2, <2>4, <2>5, SfUpdates DEF SfInv, Sf!PresetIsTheLength
<1>3. QED
  BY <1>1, <1>2

(* A patch of two fields, on the values. *)
LEMMA SfTwoFields ==
  ASSUME NEW v \in Sf!Forms, NEW p, NEW w,
         NEW field \in {"startDate", "duration"}, NEW x, NEW y,
         DOMAIN p = {field, "endDate"}, p[field] = x, p["endDate"] = y,
         w = [v EXCEPT ![field] = x, !.endDate = y]
  PROVE  [f \in {"name", "goal", "duration", "startDate", "endDate"} |->
            IF f \in DOMAIN p THEN p[f] ELSE v[f]] = w
<1> DEFINE names == {"name", "goal", "duration", "startDate", "endDate"}
<1>1. DOMAIN v = names
  BY DEF Sf!Forms
<1>2. w = [f \in names |-> w[f]]
  BY <1>1
<1>3. \A f \in names : w[f] = IF f = field THEN x ELSE IF f = "endDate" THEN y ELSE v[f]
  BY <1>1
<1>4. \A f \in names : (IF f \in DOMAIN p THEN p[f] ELSE v[f]) = w[f]
  BY <1>3
<1>5. QED
  BY <1>2, <1>4

(* A new start date or duration puts the end date where it belongs, ... *)
LEMMA SfSetsStart ==
  ASSUME SfInv, NEW start \in Sf!Days, Sf!SetStart(start)
  PROVE  SfInv' /\ v4' \in Sf!Dialogs
<1> DEFINE end == Sf!EndForDuration(start, v4.values.duration)
           values == IF end = None THEN [v4.values EXCEPT !.startDate = start]
                     ELSE [v4.values EXCEPT !.startDate = start, !.endDate = end]
<1>1. v4 # None /\ v4 \in Sf!Dialogs /\ v4.values \in Sf!Forms
  BY DEF Sf!SetStart, SfInv, Sf!Dialogs
<1>2. /\ None \notin Nat /\ Presets \subseteq Nat
      /\ Today \in Nat /\ Default \in Presets
  BY PagesAssumption DEF PagesAssumption, Sf!SprintFormsAssumption
<1>3. /\ v4' = [v4 EXCEPT !.values = values]
      /\ v1' = v1 /\ v3' = v3 /\ v5' = v5
  <2>1. CASE end = None
    <3>1. Sf!Update([startDate |-> start])
      BY <2>1, <1>1 DEF Sf!SetStart
    <3>2. [f \in {"name", "goal", "duration", "startDate", "endDate"} |->
             IF f \in DOMAIN [startDate |-> start] THEN [startDate |-> start][f] ELSE v4.values[f]] = values
      BY <1>1, <2>1 DEF Sf!Forms
    <3>3. QED
      BY <1>1, <3>1, <3>2, SfPatched
  <2>2. CASE end # None
    <3>1. Sf!Update([startDate |-> start, endDate |-> end])
      BY <2>2, <1>1 DEF Sf!SetStart
    <3> DEFINE patch == [startDate |-> start, endDate |-> end]
    <3>2. [f \in {"name", "goal", "duration", "startDate", "endDate"} |->
             IF f \in DOMAIN patch THEN patch[f] ELSE v4.values[f]] = values
      <4>1. DOMAIN patch = {"startDate", "endDate"} /\ patch["startDate"] = start /\ patch["endDate"] = end
        OBVIOUS
      <4> HIDE DEF patch
      <4>2. QED
        BY <1>1, <2>2, <4>1, SfTwoFields
    <3> HIDE DEF patch, values
    <3>3. QED
      BY <1>1, <3>1, <3>2, SfPatched DEF patch
  <2>3. QED
    BY <2>1, <2>2
<1>4. /\ end \in Sf!Days
      /\ \/ v4.values.duration = Custom \/ start = None
         \/ end = start + v4.values.duration /\ end # None
  <2>1. v4.values.duration = Custom \/ v4.values.duration \in Nat
    <3>1. v4.values.duration \in Presets \cup {Custom}
      BY <1>1 DEF Sf!Forms
    <3>2. QED
      BY <1>2, <3>1
  <2>2. start = None \/ start \in Nat
    BY DEF Sf!Days
  <2> DEFINE duration == v4.values.duration
  <2> HIDE DEF duration
  <2>3. duration = Custom \/ duration \in Nat
    BY <2>1 DEF duration
  <2>4. end = IF duration = Custom \/ start = None THEN None ELSE start + duration
    BY DEF Sf!EndForDuration, duration
  <2> HIDE DEF end
  <2>5. QED
    BY <1>2, <2>2, <2>3, <2>4 DEF Sf!Days, duration
<1>5. values \in Sf!Forms
  BY <1>1, <1>4 DEF Sf!Forms
<1>6. \/ values.duration = Custom \/ None \in {values.startDate, values.endDate}
      \/ values.endDate = values.startDate + values.duration
  <2>1. /\ values.duration = v4.values.duration /\ values.startDate = start
        /\ end # None => values.endDate = end
    BY <1>1 DEF Sf!Forms
  <2> HIDE DEF values, end
  <2>2. QED
    BY <1>4, <2>1
<1> HIDE DEF values
<1>7. QED
  BY <1>1, <1>3, <1>5, <1>6, SfUpdates

LEMMA SfSetsDuration ==
  ASSUME SfInv, NEW duration \in (Presets \cup {Custom}), Sf!SetDuration(duration)
  PROVE  SfInv' /\ v4' \in Sf!Dialogs
<1> DEFINE end == Sf!EndForDuration(v4.values.startDate, duration)
           values == IF end = None THEN [v4.values EXCEPT !.duration = duration]
                     ELSE [v4.values EXCEPT !.duration = duration, !.endDate = end]
<1>1. v4 # None /\ v4 \in Sf!Dialogs /\ v4.values \in Sf!Forms
  BY DEF Sf!SetDuration, SfInv, Sf!Dialogs
<1>2. /\ None \notin Nat /\ Presets \subseteq Nat
      /\ Today \in Nat /\ Default \in Presets
  BY PagesAssumption DEF PagesAssumption, Sf!SprintFormsAssumption
<1>3. /\ v4' = [v4 EXCEPT !.values = values]
      /\ v1' = v1 /\ v3' = v3 /\ v5' = v5
  <2>1. CASE end = None
    <3>1. Sf!Update([duration |-> duration])
      BY <2>1, <1>1 DEF Sf!SetDuration
    <3>2. [f \in {"name", "goal", "duration", "startDate", "endDate"} |->
             IF f \in DOMAIN [duration |-> duration] THEN [duration |-> duration][f] ELSE v4.values[f]] = values
      BY <1>1, <2>1 DEF Sf!Forms
    <3>3. QED
      BY <1>1, <3>1, <3>2, SfPatched
  <2>2. CASE end # None
    <3>1. Sf!Update([duration |-> duration, endDate |-> end])
      BY <2>2, <1>1 DEF Sf!SetDuration
    <3> DEFINE patch == [duration |-> duration, endDate |-> end]
    <3>2. [f \in {"name", "goal", "duration", "startDate", "endDate"} |->
             IF f \in DOMAIN patch THEN patch[f] ELSE v4.values[f]] = values
      <4>1. DOMAIN patch = {"duration", "endDate"} /\ patch["duration"] = duration /\ patch["endDate"] = end
        OBVIOUS
      <4> HIDE DEF patch
      <4>2. QED
        BY <1>1, <2>2, <4>1, SfTwoFields
    <3> HIDE DEF patch, values
    <3>3. QED
      BY <1>1, <3>1, <3>2, SfPatched DEF patch
  <2>3. QED
    BY <2>1, <2>2
<1>4. end \in Sf!Days
  BY <1>1, <1>2 DEF Sf!Days, Sf!Forms, Sf!EndForDuration
<1>5. values \in Sf!Forms
  BY <1>1, <1>4 DEF Sf!Forms
<1>6. \/ values.duration = Custom \/ None \in {values.startDate, values.endDate}
      \/ values.endDate = values.startDate + values.duration
  BY <1>1, <1>2 DEF Sf!Days, Sf!Forms, Sf!EndForDuration
<1> HIDE DEF values
<1>7. QED
  BY <1>1, <1>3, <1>5, <1>6, SfUpdates

(* ... and a new end date makes the duration that of the dates. *)
LEMMA SfSetsEnd ==
  ASSUME SfInv, NEW end \in Sf!Days, v4 # None, Sf!SetEnd(end)
  PROVE  SfInv' /\ v4' \in Sf!Dialogs
<1> DEFINE start == v4.values.startDate
           duration == IF None \in {start, end} THEN Custom ELSE Sf!InferDuration(start, end)
           values == [v4.values EXCEPT !.duration = duration, !.endDate = end]
<1>1. v4 \in Sf!Dialogs /\ v4.values \in Sf!Forms
  BY DEF SfInv, Sf!Dialogs
<1>2. /\ None \notin Nat /\ Presets \subseteq Nat
      /\ Today \in Nat /\ Default \in Presets
  BY PagesAssumption DEF PagesAssumption, Sf!SprintFormsAssumption
<1>3. Sf!Update([endDate |-> end, duration |-> duration])
  BY DEF Sf!SetEnd
<1>4. duration \in (Presets \cup {Custom})
  BY DEF Sf!InferDuration
<1>5. duration # Custom => start \in Nat /\ end \in Nat /\ end - start = duration
  BY <1>1, <1>2 DEF Sf!InferDuration, Sf!Days, Sf!Forms
<1> HIDE DEF duration
<1> DEFINE patch == [endDate |-> end, duration |-> duration]
<1>6. [f \in {"name", "goal", "duration", "startDate", "endDate"} |->
         IF f \in DOMAIN patch THEN patch[f] ELSE v4.values[f]] = values
  <2>1. DOMAIN patch = {"duration", "endDate"} /\ patch["duration"] = duration /\ patch["endDate"] = end
    OBVIOUS
  <2> HIDE DEF patch
  <2>2. QED
    BY <1>1, <2>1, SfTwoFields
<1>7. /\ v4' = [v4 EXCEPT !.values = values]
      /\ v1' = v1 /\ v3' = v3 /\ v5' = v5
  BY <1>3, <1>6, SfPatched
<1>8. values \in Sf!Forms
  BY <1>1, <1>4 DEF Sf!Forms
<1>9. \/ values.duration = Custom \/ None \in {values.startDate, values.endDate}
      \/ values.endDate = values.startDate + values.duration
  BY <1>1, <1>4, <1>5 DEF Sf!Forms
<1> HIDE DEF values
<1>10. QED
  BY <1>7, <1>8, <1>9, SfUpdates

(* What a dialog sends are values of its form. *)
LEMMA SfSends ==
  ASSUME SfInv, v4 # None, NEW fields \in SUBSET Sf!Fields, Sf!Send(fields)
  PROVE  SfInput(v5'.input)
<1>1. v4 \in Sf!Dialogs /\ v4.values \in Sf!Forms
  BY DEF SfInv, Sf!Dialogs
<1>2. v5'.input = [f \in fields |-> v4.values[f]]
  BY DEF Sf!Send
<1>3. QED
  BY <1>1, <1>2 DEF SfInput, Sf!Forms, Sf!Fields

LEMMA SfSubmits ==
  ASSUME SfInv, Sf!SubmitStart \/ Sf!SubmitEdit
  PROVE  SfInv'
<1>1. v4 # None /\ v1' = v1 /\ v3' = v3
  BY DEF Sf!SubmitStart, Sf!SubmitEdit
<1>2. v4' \in {v4, None}
  BY DEF Sf!SubmitStart, Sf!SubmitEdit, Sf!Closes
<1>3. v5' # None => SfInput(v5'.input)
  <2>1. CASE Sf!SubmitStart
    <3>1. Sf!Changed({"name", "goal"}) \cup {"startDate", "endDate"} \in SUBSET Sf!Fields
      BY DEF Sf!Changed, Sf!Fields
    <3>2. Sf!Send(Sf!Changed({"name", "goal"}) \cup {"startDate", "endDate"})
      BY <2>1 DEF Sf!SubmitStart
    <3>3. QED
      BY <1>1, <3>1, <3>2, SfSends
  <2>2. CASE Sf!SubmitEdit
    <3>1. Sf!Changed(Sf!Fields) \in SUBSET Sf!Fields
      BY DEF Sf!Changed
    <3>2. Sf!Send(Sf!Changed(Sf!Fields)) \/ v5' = v5
      BY <2>2 DEF Sf!SubmitEdit
    <3>3. QED
      BY <1>1, <3>1, <3>2, SfSends DEF SfInv
  <2>3. QED
    BY <2>1, <2>2
<1>4. QED
  BY <1>1, <1>2, <1>3, SfKeeps DEF SfInv

(* The sprint the server saves is one. *)
LEMMA SfApplies ==
  ASSUME SfInv, Sf!Apply
  PROVE  SfInv'
<1>1. v5 # None /\ SfInput(v5.input) /\ v1 \in Sf!SprintRecords
  BY DEF SfInv, Sf!Apply, Sf!IsPending
<1>2. v1' = Sf!Patched(v5.input) /\ v3' = v3 /\ v4' = v4 /\ v5' = [v5 EXCEPT !.answer = "saved"]
  BY DEF Sf!Apply
<1>3. DOMAIN v1 = {"state", "name", "goal", "startDate", "endDate"}
  BY <1>1 DEF Sf!SprintRecords
<1>4. v1' = [f \in DOMAIN v1 |-> v1'[f]] /\ DOMAIN v1' = DOMAIN v1
  BY <1>2 DEF Sf!Patched
<1>5. /\ v1'["state"] \in {"planned", "active", "completed", "gone"}
      /\ v1'["name"] \in Names /\ v1'["goal"] \in Goals
      /\ v1'["startDate"] \in Sf!Days /\ v1'["endDate"] \in Sf!Days
  BY <1>1, <1>2, <1>3 DEF Sf!Patched, Sf!SprintRecords, SfInput, Sf!Fields
<1>6. v1' \in Sf!SprintRecords
  BY <1>3, <1>4, <1>5 DEF Sf!SprintRecords
<1>7. SfInput(v5'.input)
  <2>1. v5'.input = v5.input \/ v5' = v5
    BY <1>2
  <2>2. QED
    BY <1>1, <2>1 DEF SfInput
<1>8. QED
  BY <1>2, <1>6, <1>7, SfKeeps DEF SfInv

LEMMA SfTeammates ==
  ASSUME SfInv,
         \/ \E f \in {"name"}, to \in Names : Sf!TeammateEdits(f, to)
         \/ \E to \in Goals : Sf!TeammateEdits("goal", to)
         \/ \E f \in {"startDate", "endDate"}, to \in Sf!Days : Sf!TeammateEdits(f, to)
         \/ \E state \in {"active", "completed", "gone"} : Sf!TeammateMoves(state)
  PROVE  SfInv'
<1>1. v3' = v3 /\ v4' = v4 /\ v5' = v5
  BY DEF Sf!TeammateEdits, Sf!TeammateMoves
<1>2. v1' \in Sf!SprintRecords
  BY DEF Sf!TeammateEdits, Sf!TeammateMoves, SfInv, Sf!SprintRecords
<1>3. QED
  BY <1>1, <1>2, SfKeeps DEF SfInv

LEMMA SfOthers ==
  ASSUME SfInv,
         \/ Sf!CloseDialog \/ Sf!Refuse \/ Sf!Saved \/ Sf!Fail
         \/ Sf!TeammateMovesOther \/ Sf!Reload \/ UNCHANGED <<v1, v2, v3, v4, v5, v6, v7, v8>>
  PROVE  SfInv'
<1>1. v1' = v1 /\ v4' \in {v4, None}
  BY DEF Sf!CloseDialog, Sf!Refuse, Sf!Saved, Sf!Fail, Sf!TeammateMovesOther, Sf!Reload, Sf!Closes
<1>2. v3'.sprint \in Sf!SprintRecords
  BY <1>1 DEF SfInv, Sf!CloseDialog, Sf!Refuse, Sf!Saved, Sf!Fail, Sf!TeammateMovesOther,
              Sf!Reload, Sf!Closes, Sf!Listed
<1>3. v5' # None => SfInput(v5'.input)
  <2>1. v5' = None \/ v5' = v5 \/ (v5 # None /\ v5'.input = v5.input)
    <3>1. CASE Sf!Refuse
      <4>1. v5 # None /\ v5' = [v5 EXCEPT !.answer = "failed"]
        BY <3>1 DEF Sf!Refuse, Sf!IsPending
      <4>2. v5'.input = v5.input \/ v5' = v5
        BY <4>1
      <4>3. QED
        BY <4>1, <4>2
    <3>2. CASE ~Sf!Refuse
      BY <3>2 DEF Sf!CloseDialog, Sf!Saved, Sf!Fail, Sf!TeammateMovesOther, Sf!Reload
    <3>3. QED
      BY <3>1, <3>2
  <2>2. QED
    BY <2>1 DEF SfInv
<1>4. QED
  BY <1>1, <1>2, <1>3, SfKeeps DEF SfInv

LEMMA SfStep ==
  ASSUME SfInv, shown = "sprintForms", [Next]_vars
  PROVE  SfInv'
<1>1. CASE Sf!Next
  <2>1. Dates \cup {None} \subseteq Sf!Days
    BY PagesAssumption DEF PagesAssumption, Sf!SprintFormsAssumption, Sf!Days
  <2>2. CASE Sf!StartSprint \/ Sf!EditSprint
    BY <2>2, SfOpens DEF Sf!StartSprint, Sf!EditSprint
  <2>3. CASE Sf!SubmitStart \/ Sf!SubmitEdit
    BY <2>3, SfSubmits
  <2>4. CASE Sf!Apply
    BY <2>4, SfApplies
  <2>5. CASE Sf!CloseDialog \/ Sf!Refuse \/ Sf!Saved \/ Sf!Fail \/ Sf!TeammateMovesOther \/ Sf!Reload
    BY <2>5, SfOthers
  <2>6. CASE \/ \E state \in {"active", "completed", "gone"} : Sf!TeammateMoves(state)
             \/ \E to \in Names : Sf!TeammateEdits("name", to)
             \/ \E to \in Goals : Sf!TeammateEdits("goal", to)
             \/ \E to \in Dates \cup {None} :
                  Sf!TeammateEdits("startDate", to) \/ Sf!TeammateEdits("endDate", to)
    BY <2>1, <2>6, SfTeammates
  <2>7. CASE (\E name \in Names : Sf!SetName(name)) \/ \E goal \in Goals : Sf!SetGoal(goal)
    <3>1. v4 # None
      BY <2>7 DEF Sf!SetName, Sf!SetGoal, Sf!Update
    <3>2. QED
      BY <2>7, <3>1, SfSetsText
  <2>8. CASE \E date \in Dates \cup {None} : Sf!SetStart(date) \/ Sf!SetEnd(date)
    <3>1. PICK date \in Sf!Days : Sf!SetStart(date) \/ Sf!SetEnd(date)
      BY <2>1, <2>8
    <3>2. Sf!SetEnd(date) => v4 # None
      BY DEF Sf!SetEnd, Sf!Update
    <3>3. QED
      BY <3>1, <3>2, SfSetsStart, SfSetsEnd
  <2>9. CASE \E duration \in Presets \cup {Custom} : Sf!SetDuration(duration)
    BY <2>9, SfSetsDuration
  <2>10. QED
    BY <1>1, <2>2, <2>3, <2>4, <2>5, <2>6, <2>7, <2>8, <2>9 DEF Sf!Next
<1>2. CASE UNCHANGED vars
  BY <1>2, SfOthers DEF vars
<1>3. QED
  BY <1>1, <1>2 DEF Next

(* The duration a sprint form shows is that of its dates, whatever the user enters and whatever
   teammates do to the sprint. *)
THEOREM PresetIsAlwaysTheLength == Spec => []PresetIsTheLength
<1> DEFINE I == shown = "sprintForms" => SfInv
<1>1. Init => I
  BY SfInit DEF Init
<1>2. I /\ [Next]_vars => I'
  <2>1. [Next]_vars => shown' = shown
    BY DEF Next, vars
  <2>2. QED
    BY <2>1, SfStep
<1>3. I => PresetIsTheLength
  BY DEF SfInv, PresetIsTheLength
<1>4. QED
  BY <1>1, <1>2, <1>3, PTL DEF Spec

-----------------------------------------------------------------------------
(* The form that creates an issue (CreateIssue). *)

(* Assignee, labels, parent, sprint and status are of the project they are kept for; a parent
   whose kind is not known is the one the form was opened for. *)
OneProject(f) ==
  /\ f = [project |-> f.project, assignee |-> f.assignee, labels |-> f.labels, parent |-> f.parent,
          sprint |-> f.sprint, status |-> f.status]
  /\ f.assignee \in {None, f.project} /\ f.labels \in {None, f.project}
  /\ f.sprint \in {None, f.project} /\ f.status \in {None, f.project}
  /\ f.parent # None =>
       /\ f.parent = [project |-> f.project, kind |-> f.parent.kind, known |-> f.parent.known]
       /\ f.parent.known = TRUE \/ (f.parent.known = FALSE /\ v1.parent # None)

CiInv ==
  /\ OneProject(v6)
  /\ v5 \in Ci!Types \cup {None}
  /\ v7 \in {"pending", "loaded", "failed", "off"}

LEMMA CiInit == Ci!Init => CiInv
<1>1. SUFFICES ASSUME Ci!Init PROVE CiInv
  OBVIOUS
<1>2. /\ v1.parent # None => v1.parent \in [project : {v1.project}, kind : Ci!Types, known : BOOLEAN]
      /\ v1.sprint \in {None, v1.project} /\ v1.status \in {None, v1.project}
      /\ v1.type \in Ci!Types \cup {None}
  BY <1>1, PagesAssumption DEF PagesAssumption, Ci!CreateIssueAssumption, Ci!Init
<1>3. v6 = [project |-> v1.project, assignee |-> None, labels |-> None, parent |-> v1.parent,
            sprint |-> v1.sprint, status |-> v1.status]
  BY <1>1 DEF Ci!Init, Ci!ScopedFieldsFromDefaults, Ci!ScopedFields
<1>4. OneProject(v6)
  BY <1>2, <1>3 DEF OneProject
<1>5. QED
  BY <1>1, <1>2, <1>4 DEF CiInv, Ci!Init

(* So are the fields the form shows. *)
LEMMA CiFields ==
  ASSUME CiInv
  PROVE  OneProject(Ci!Fields) /\ Ci!Fields.project = Ci!ProjectKey
BY DEF CiInv, OneProject, Ci!Fields, Ci!EmptyScopedFields, Ci!ScopedFields

LEMMA CiUpdates ==
  ASSUME CiInv, v1' = v1, NEW w,
         \/ Ci!UpdateScoped("assignee", w) /\ w \in {None, Ci!ProjectKey}
         \/ Ci!UpdateScoped("labels", w) /\ w \in {None, Ci!ProjectKey}
         \/ Ci!UpdateScoped("sprint", w) /\ w \in {None, Ci!ProjectKey}
         \/ /\ Ci!UpdateScoped("parent", w)
            /\ \/ w = None
               \/ \E kind \in Ci!Types : w = [project |-> Ci!ProjectKey, kind |-> kind, known |-> TRUE]
  PROVE  OneProject(v6)'
<1> DEFINE f == Ci!Fields
<1>1. OneProject(f) /\ f.project = Ci!ProjectKey
  BY CiFields
<1>2. f = [project |-> f.project, assignee |-> f.assignee, labels |-> f.labels, parent |-> f.parent,
           sprint |-> f.sprint, status |-> f.status]
  BY <1>1 DEF OneProject
<1>3. \/ v6' = [f EXCEPT !.assignee = w] /\ w \in {None, f.project}
      \/ v6' = [f EXCEPT !.labels = w] /\ w \in {None, f.project}
      \/ v6' = [f EXCEPT !.sprint = w] /\ w \in {None, f.project}
      \/ v6' = [f EXCEPT !.parent = w] /\ w = None
      \/ v6' = [f EXCEPT !.parent = w]
         /\ \E kind \in Ci!Types : w = [project |-> f.project, kind |-> kind, known |-> TRUE]
  BY <1>1 DEF Ci!UpdateScoped
<1> HIDE DEF f
<1>4. CASE v6' = [f EXCEPT !.assignee = w] /\ w \in {None, f.project}
  BY <1>1, <1>2, <1>4 DEF OneProject
<1>5. CASE \/ v6' = [f EXCEPT !.sprint = w] /\ w \in {None, f.project}
           \/ v6' = [f EXCEPT !.labels = w] /\ w \in {None, f.project}
  BY <1>1, <1>2, <1>5 DEF OneProject
<1>6. CASE v6' = [f EXCEPT !.parent = w] /\ w = None
  BY <1>1, <1>2, <1>6 DEF OneProject
<1>7. CASE v6' = [f EXCEPT !.parent = w]
           /\ \E kind \in Ci!Types : w = [project |-> f.project, kind |-> kind, known |-> TRUE]
  <2>1. PICK kind \in Ci!Types : w = [project |-> f.project, kind |-> kind, known |-> TRUE]
    BY <1>7
  <2>2. v6' = [project |-> f.project, assignee |-> f.assignee, labels |-> f.labels, parent |-> w,
               sprint |-> f.sprint, status |-> f.status]
    BY <1>2, <1>7
  <2>3. w = [project |-> f.project, kind |-> w.kind, known |-> w.known] /\ w.known = TRUE
    BY <2>1
  <2>4. QED
    BY <1>1, <2>2, <2>3 DEF OneProject
<1>8. QED
  BY <1>3, <1>4, <1>5, <1>6, <1>7

LEMMA CiStep ==
  ASSUME CiInv, shown = "createIssue", [Next]_vars
  PROVE  CiInv'
<1>1. CASE \E p \in Projects : Ci!ChangeProject(p)
  <2>1. PICK p \in Projects : Ci!ChangeProject(p)
    BY <1>1
  <2>2. v6' = [project |-> p, assignee |-> None, labels |-> None, parent |-> None,
               sprint |-> None, status |-> None]
    BY <2>1 DEF Ci!ChangeProject, Ci!EmptyScopedFields, Ci!ScopedFields
  <2>3. OneProject(v6)'
    BY <2>2 DEF OneProject
  <2>4. QED
    BY <2>1, <2>3 DEF CiInv, Ci!ChangeProject
<1>2. CASE \E type \in Ci!Types : Ci!ChangeType(type)
  <2>1. PICK type \in Ci!Types : Ci!ChangeType(type)
    BY <1>2
  <2>2. v1' = v1 /\ v5' = type /\ v7' = v7
    BY <2>1 DEF Ci!ChangeType
  <2>3. Ci!UpdateScoped("parent", None) \/ v6' = v6
    BY <2>1 DEF Ci!ChangeType
  <2>4. OneProject(v6)'
    BY <2>2, <2>3, CiUpdates DEF CiInv, OneProject
  <2>5. QED
    BY <2>1, <2>2, <2>4 DEF CiInv
<1>3. CASE Ci!ChooseScoped
  <2>1. v1' = v1 /\ v5' = v5 /\ v7' = v7
    BY <1>3 DEF Ci!ChooseScoped
  <2>2. OneProject(v6)'
    <3>1. CASE \/ \E field \in {"assignee", "labels"} : Ci!UpdateScoped(field, Ci!ProjectKey)
               \/ Ci!UpdateScoped("sprint", Ci!ProjectKey)
      BY <2>1, <3>1, CiUpdates
    <3>2. CASE \E kind \in Ci!AllowedParentTypes(Ci!Type) :
                 Ci!UpdateScoped("parent", Ci!ParentOf(Ci!ProjectKey, kind, TRUE))
      <4>1. PICK kind \in Ci!AllowedParentTypes(Ci!Type) :
                   Ci!UpdateScoped("parent", Ci!ParentOf(Ci!ProjectKey, kind, TRUE))
        BY <3>2
      <4>2. kind \in Ci!Types
        BY DEF Ci!AllowedParentTypes, Ci!Types
      <4>3. Ci!ParentOf(Ci!ProjectKey, kind, TRUE) = [project |-> Ci!ProjectKey, kind |-> kind, known |-> TRUE]
        BY DEF Ci!ParentOf
      <4>4. QED
        BY <2>1, <4>1, <4>2, <4>3, CiUpdates
    <3>3. QED
      BY <1>3, <3>1, <3>2 DEF Ci!ChooseScoped
  <2>3. QED
    BY <2>1, <2>2 DEF CiInv
<1>4. CASE \E result \in {"loaded", "failed"} : Ci!LookedUp(result)
  BY <1>4 DEF CiInv, OneProject, Ci!LookedUp
<1>5. CASE \/ Ci!TypeSummary \/ Ci!Submit \/ Ci!Created \/ Ci!CreateFailed \/ Ci!Close \/ Ci!LoadProjects
           \/ \E p \in Projects, role \in {"viewer", "member"} : Ci!ChangeRole(p, role)
           \/ UNCHANGED vars
  <2>1. v1' = v1 /\ v5' = v5 /\ v6' = v6 /\ v7' = v7
    BY <1>5 DEF Ci!TypeSummary, Ci!Submit, Ci!Created, Ci!CreateFailed, Ci!Close, Ci!LoadProjects,
                Ci!ChangeRole, vars
  <2>2. QED
    BY <2>1 DEF CiInv, OneProject
<1>6. QED
  BY <1>1, <1>2, <1>3, <1>4, <1>5 DEF Next, Ci!Next

(* What is submitted is of one project, and the parent fits the type. *)
LEMMA CiSubmits ==
  ASSUME CiInv, Ci!Submit
  PROVE  Ci!CreatesInOneProject
<1> DEFINE f == Ci!Fields
           input == v9'.input
<1>1. OneProject(f) /\ f.project = Ci!ProjectKey
  BY CiFields
<1>2. v9'.input = Ci!CreateInput /\ v7' = v7
  BY DEF Ci!Submit
<1>3. /\ input.project = f.project
      /\ input.assignee = f.assignee /\ input.labels = f.labels /\ input.status = f.status
      /\ input.sprint \in {None, f.sprint}
      /\ input.type = Ci!Type
      /\ input.parent # None => Ci!Type # "epic" /\ input.parent = Ci!Parent
  BY <1>1, <1>2 DEF Ci!CreateInput
<1> HIDE DEF input
<1>4. CASE input.parent = None
  BY <1>1, <1>3, <1>4 DEF Ci!CreatesInOneProject, OneProject, input
<1>5. CASE input.parent # None
  <2>1. Ci!Parent # None /\ Ci!Type # "epic" /\ input.parent = Ci!Parent
    BY <1>3, <1>5
  <2>2. f.parent # None
    BY <2>1 DEF Ci!Parent
  <2>3. /\ f.parent = [project |-> f.project, kind |-> f.parent.kind, known |-> f.parent.known]
        /\ f.parent.known = TRUE \/ (f.parent.known = FALSE /\ v1.parent # None)
    BY <1>1, <2>2 DEF OneProject
  <2> HIDE DEF f
  <2>4. /\ Ci!Parent.project = f.project
        /\ Ci!Parent.known = TRUE \/ (Ci!Parent.known = FALSE /\ v7 # "loaded" /\ v1.parent # None)
    BY <2>2, <2>3 DEF Ci!Parent, f
  <2>5. Ci!Type \in {"standard", "subtask"}
    BY <2>1 DEF CiInv, Ci!Type, Ci!InferredType, Ci!Types
  <2>6. Ci!Parent.kind \in Ci!AllowedParentTypes(Ci!Type) \/ v7 \in {"failed", "off"}
    <3>1. CASE Ci!Parent.known = TRUE
      <4>1. Ci!KindKnown
        BY <2>1, <3>1 DEF Ci!KindKnown
      <4>2. Ci!AllowedParentTypes(Ci!Type) # {}
        BY <2>5 DEF Ci!AllowedParentTypes
      <4>3. QED
        BY <4>1, <4>2 DEF Ci!Submit, Ci!Valid
    <3>2. CASE Ci!Parent.known = FALSE /\ v7 # "loaded" /\ v1.parent # None
      <4>1. v7 # "pending"
        BY <2>1, <3>2 DEF Ci!Submit, Ci!ParentTypePending
      <4>2. QED
        BY <3>2, <4>1 DEF CiInv
    <3>3. QED
      BY <2>4, <3>1, <3>2
  <2>7. QED
    BY <1>1, <1>3, <2>1, <2>4, <2>6 DEF Ci!CreatesInOneProject, OneProject, input, f
<1>6. QED
  BY <1>4, <1>5

(* Whatever becomes of the projects while the form is filled in, an issue is created with an
   assignee, labels, a parent, a sprint and a status of its own project. *)
THEOREM AlwaysCreatesInOneProject == Spec => CreatesInOneProject
<1> DEFINE I == shown = "createIssue" => CiInv
<1>1. Init => I
  BY CiInit DEF Init
<1>2. I /\ [Next]_vars => I'
  <2>1. [Next]_vars => shown' = shown
    BY DEF Next, vars
  <2>2. QED
    BY <2>1, CiStep
<1>3. I /\ [Next]_vars => [shown = "createIssue" => Ci!CreatesInOneProject]_vars
  <2>1. SUFFICES ASSUME I, Next, shown = "createIssue" PROVE Ci!CreatesInOneProject
    OBVIOUS
  <2>2. Ci!Next
    BY <2>1 DEF Next
  <2>3. CASE Ci!Submit
    BY <2>1, <2>3, CiSubmits
  <2>4. CASE ~Ci!Submit
    <3>1. v9' = v9 \/ v9' = None
      BY <2>2, <2>4 DEF Ci!Next, Ci!ChangeProject, Ci!ChangeType, Ci!ChooseScoped, Ci!TypeSummary,
           Ci!Created, Ci!CreateFailed, Ci!Close, Ci!LoadProjects, Ci!LookedUp, Ci!ChangeRole
    <3>2. QED
      BY <3>1 DEF Ci!CreatesInOneProject
  <2>5. QED
    BY <2>3, <2>4
<1>4. QED
  BY <1>1, <1>2, <1>3, PTL DEF Spec, CreatesInOneProject

-----------------------------------------------------------------------------
(* The pickers of the issue's details panel (Picker). *)

(* A pick changes what it found. *)
PicksOK(p) ==
  \A l \in DOMAIN p : p[l].from \in BOOLEAN /\ p[l].to \in BOOLEAN /\ p[l].from # p[l].to

(* An open picker saves nothing, and its picks are the labels toggled an odd number of times. *)
PiInv ==
  /\ v6 \in BOOLEAN /\ (v6 => v4 = None)
  /\ v4 # None => v4 = [ids |-> v4.ids, answer |-> v4.answer]
  /\ PicksOK(v9)
  /\ v6 => /\ DOMAIN v9 = DOMAIN v11
           /\ \A l \in DOMAIN v9 : v11[l] = v9[l].to

LEMMA PiInit == Pi!Init => PiInv
BY DEF Pi!Init, PiInv, PicksOK, Pi!NoPicks

(* A label is shown as selected as its pick says, and one that is not picked as it is saved. *)
LEMMA PiWithPicks ==
  ASSUME NEW ids, NEW p, PicksOK(p), NEW label
  PROVE  /\ label \in DOMAIN p => (label \in Pi!WithPicks(ids, p) <=> p[label].to = TRUE)
         /\ label \notin DOMAIN p => (label \in Pi!WithPicks(ids, p) <=> label \in ids)
<1>1. label \in DOMAIN p => p[label].to \in BOOLEAN
  BY DEF PicksOK
<1>2. QED
  BY <1>1 DEF Pi!WithPicks

(* Toggling a label takes its pick back, or adds one. *)
LEMMA PiToggles ==
  ASSUME NEW ids, NEW p, PicksOK(p), NEW label
  PROVE  LET q == Pi!TogglePick(p, ids, label)
         IN  /\ label \in DOMAIN p => q = Pi!Without(p, label)
             /\ label \notin DOMAIN p =>
                  /\ q = Pi!With(p, label, q[label]) /\ label \in DOMAIN q
                  /\ q[label].from \in BOOLEAN /\ q[label].to \in BOOLEAN
                  /\ q[label].from # q[label].to
<1> DEFINE from == IF label \in DOMAIN p THEN p[label].from ELSE label \in ids
           to == label \notin Pi!WithPicks(ids, p)
<1>1. Pi!TogglePick(p, ids, label) =
        IF to = from THEN Pi!Without(p, label) ELSE Pi!With(p, label, [from |-> from, to |-> to])
  BY DEF Pi!TogglePick
<1>2. to \in BOOLEAN
  OBVIOUS
<1>3. CASE label \in DOMAIN p
  <2>1. to <=> p[label].to = FALSE
    BY <1>3, PiWithPicks DEF PicksOK
  <2>2. from = p[label].from
    BY <1>3
  <2> HIDE DEF from, to
  <2>3. to = from
    BY <1>2, <1>3, <2>1, <2>2 DEF PicksOK
  <2>4. QED
    BY <1>1, <1>3, <2>3
<1>4. CASE label \notin DOMAIN p
  <2> DEFINE selected == label \in ids
  <2>1. to <=> ~selected
    BY <1>4, PiWithPicks
  <2>2. from = selected /\ selected \in BOOLEAN
    BY <1>4
  <2> HIDE DEF from, to, selected
  <2>3. to # from /\ from \in BOOLEAN
    BY <1>2, <2>1, <2>2
  <2> DEFINE pick == [from |-> from, to |-> to]
  <2>4. Pi!TogglePick(p, ids, label) = Pi!With(p, label, pick)
    BY <1>1, <2>3
  <2>5. Pi!With(p, label, pick)[label] = pick /\ label \in DOMAIN Pi!With(p, label, pick)
    BY DEF Pi!With
  <2>6. pick.from = from /\ pick.to = to
    OBVIOUS
  <2> HIDE DEF pick
  <2>7. QED
    BY <1>2, <1>4, <2>3, <2>4, <2>5, <2>6
<1>5. QED
  BY <1>3, <1>4

LEMMA PiTogglesOK ==
  ASSUME NEW ids, NEW p, PicksOK(p), NEW label
  PROVE  PicksOK(Pi!TogglePick(p, ids, label))
<1> DEFINE q == Pi!TogglePick(p, ids, label)
<1>1. /\ label \in DOMAIN p => q = Pi!Without(p, label)
      /\ label \notin DOMAIN p =>
           /\ q = Pi!With(p, label, q[label])
           /\ q[label].from \in BOOLEAN /\ q[label].to \in BOOLEAN /\ q[label].from # q[label].to
  BY PiToggles
<1> HIDE DEF q
<1>2. CASE label \in DOMAIN p
  <2>1. \A l \in DOMAIN q : l \in DOMAIN p /\ q[l] = p[l]
    BY <1>1, <1>2 DEF Pi!Without
  <2>2. QED
    BY <2>1 DEF PicksOK, q
<1>3. CASE label \notin DOMAIN p
  <2> DEFINE pick == q[label]
  <2>1. q = Pi!With(p, label, pick)
    BY <1>1, <1>3
  <2> HIDE DEF pick
  <2>2. \A l \in DOMAIN q : l = label \/ (l \in DOMAIN p /\ q[l] = p[l])
    BY <2>1 DEF Pi!With
  <2>3. QED
    BY <1>1, <1>3, <2>2 DEF PicksOK, q
<1>4. QED
  BY <1>2, <1>3

(* The history of toggled labels says the same as the picks. *)
LEMMA PiTogglesAgree ==
  ASSUME PiInv, v6 = TRUE, NEW ids, NEW label,
         v9' = Pi!TogglePick(v9, ids, label), Pi!Toggled(label, v9')
  PROVE  /\ DOMAIN v9' = DOMAIN v11'
         /\ \A l \in DOMAIN v9' : v11'[l] = v9'[l].to
<1>1. PicksOK(v9) /\ PicksOK(v9')
  BY PiTogglesOK DEF PiInv
<1>2. DOMAIN v9 = DOMAIN v11 /\ \A l \in DOMAIN v9 : v11[l] = v9[l].to
  BY DEF PiInv
<1>3. CASE label \in DOMAIN v9
  <2>1. v9' = Pi!Without(v9, label)
    BY <1>1, <1>3, PiToggles
  <2>2. v11' = Pi!Without(v11, label)
    BY <1>2, <1>3 DEF Pi!Toggled
  <2>3. QED
    BY <1>2, <2>1, <2>2 DEF Pi!Without
<1>4. CASE label \notin DOMAIN v9
  <2> DEFINE pick == v9'[label]
             shows == label \in Pi!WithPicks(v3, v9')
  <2>1. v9' = Pi!With(v9, label, pick) /\ label \in DOMAIN v9' /\ pick.to \in BOOLEAN
    BY <1>1, <1>4, PiToggles
  <2>2. v11' = Pi!With(v11, label, shows)
    BY <1>2, <1>4 DEF Pi!Toggled
  <2>3. shows <=> pick.to = TRUE
    BY <1>1, <2>1, PiWithPicks
  <2>4. shows \in BOOLEAN
    OBVIOUS
  <2> HIDE DEF pick, shows
  <2>5. shows = pick.to
    BY <2>1, <2>3, <2>4
  <2>6. QED
    BY <1>2, <1>4, <2>1, <2>2, <2>5 DEF Pi!With, pick
<1>5. QED
  BY <1>3, <1>4

LEMMA PiChooses ==
  ASSUME PiInv, NEW i, Pi!ChooseAt(i)
  PROVE  PiInv' /\ Pi!SendsTheChoice
<1>1. v6 = TRUE /\ v4 = None /\ v1' = v1 /\ v3' = v3 /\ i \in DOMAIN Pi!Filtered
  BY DEF PiInv, Pi!ChooseAt, Pi!IsOpen, Pi!Locked
<1>2. CASE Pi!CreateLabel
  <2>1. v4' = v4 /\ v6' = v6 /\ v9' = v9 /\ v11' = v11
    BY <1>2 DEF Pi!CreateLabel
  <2>2. QED
    BY <1>1, <2>1 DEF PiInv, PicksOK, Pi!SendsTheChoice
<1>3. CASE Pi!ToggleLabel(Pi!Filtered[i])
  <2> DEFINE label == Pi!Filtered[i]
  <2>1. /\ v9' = Pi!TogglePick(v9, Pi!Display, label) /\ Pi!Toggled(label, v9')
        /\ v4' = v4 /\ v6' = v6
    BY <1>3 DEF Pi!ToggleLabel
  <2> HIDE DEF label
  <2>2. PicksOK(v9')
    BY <2>1, PiTogglesOK DEF PiInv
  <2>3. DOMAIN v9' = DOMAIN v11' /\ \A l \in DOMAIN v9' : v11'[l] = v9'[l].to
    BY <1>1, <2>1, PiTogglesAgree
  <2>4. QED
    BY <1>1, <2>1, <2>2, <2>3 DEF PiInv, PicksOK, Pi!SendsTheChoice
<1>4. CASE ~Pi!Labels /\ Pi!SelectValue(Pi!Filtered[i])
  <2> DEFINE option == Pi!Filtered[i]
  <2>1. /\ v6' = FALSE /\ v9' = v9
        /\ IF option \in v3 THEN v4' = v4 ELSE v4' = [ids |-> {option}, answer |-> "none"]
        /\ option \in Pi!Elements(Pi!Filtered)
    BY <1>1, <1>4 DEF Pi!SelectValue, Pi!Display, Pi!IsPending, Pi!Commit, Pi!Elements
  <2> HIDE DEF option
  <2>2. PiInv'
    <3>1. v4' = v4 \/ v4' = [ids |-> v4'.ids, answer |-> v4'.answer]
      BY <2>1
    <3>2. QED
      BY <1>1, <2>1, <3>1 DEF PiInv, PicksOK
  <2>3. v4' # None /\ v4' # v4 =>
          v4'.ids # v3 /\ \E o \in Pi!Elements(Pi!Filtered) : v4'.ids = {o}
    BY <2>1
  <2>4. Pi!SendsTheChoice
    BY <1>1, <1>4, <2>3 DEF Pi!SendsTheChoice, Pi!Labels
  <2>5. QED
    BY <2>2, <2>4
<1>5. QED
  BY <1>2, <1>3, <1>4 DEF Pi!ChooseAt

(* The labels' picker saves its picks when it closes. *)
LEMMA PiCloses ==
  ASSUME PiInv, Pi!Close
  PROVE  PiInv' /\ Pi!SendsTheChoice
<1>1. v6 = TRUE /\ v4 = None /\ PicksOK(v9) /\ v3' = v3
  BY DEF PiInv, Pi!Close, Pi!IsOpen, Pi!Locked
<1>2. v6' = FALSE /\ PicksOK(v9')
  BY DEF Pi!Close, Pi!NoPicks, PicksOK
<1>3. PiInv'
  <2>1. v4' = v4 \/ Pi!Commit(Pi!SelectedIds)
    BY DEF Pi!Close
  <2>2. v4' = v4 \/ v4' = [ids |-> v4'.ids, answer |-> v4'.answer]
    BY <2>1 DEF Pi!Commit
  <2>3. QED
    BY <1>1, <1>2, <2>2 DEF PiInv
<1>4. CASE v4' = v4
  BY <1>3, <1>4 DEF Pi!SendsTheChoice
<1>5. CASE Pi!Labels /\ Pi!SelectedIds # v3 /\ Pi!Commit(Pi!SelectedIds)
  <2>1. v4'.ids = Pi!WithPicks(v3, v9)
    BY <1>1, <1>5 DEF Pi!Commit, Pi!SelectedIds, Pi!Display, Pi!IsPending
  <2>2. v4'.ids # v3
    BY <1>5 DEF Pi!Commit
  <2>3. DOMAIN v9 = DOMAIN v11 /\ \A l \in DOMAIN v9 : v11[l] = v9[l].to
    BY <1>1 DEF PiInv
  <2>4. \A label : label \notin DOMAIN v11 => (label \in v4'.ids <=> label \in v3)
    BY <1>1, <2>1, <2>3, PiWithPicks
  <2>5. \A label \in DOMAIN v11 : label \in v4'.ids <=> v11[label]
    <3>1. TAKE label \in DOMAIN v11
    <3> DEFINE ids == v4'.ids
    <3>2. label \in DOMAIN v9 /\ ids = Pi!WithPicks(v3, v9)
      BY <2>1, <2>3
    <3> HIDE DEF ids
    <3>3. label \in Pi!WithPicks(v3, v9) <=> v9[label].to = TRUE
      BY <1>1, <3>2, PiWithPicks
    <3>4. v11[label] = v9[label].to /\ v9[label].to \in BOOLEAN
      BY <1>1, <2>3 DEF PicksOK
    <3>5. QED
      BY <3>2, <3>3, <3>4 DEF ids
  <2>6. QED
    BY <1>1, <1>3, <1>5, <2>2, <2>4, <2>5 DEF Pi!SendsTheChoice
<1>6. QED
  BY <1>4, <1>5 DEF Pi!Close

LEMMA PiSettlesLabel ==
  ASSUME PiInv, Pi!LabelSettled
  PROVE  PiInv'
<1>1. v4' = v4 /\ v6' = v6 /\ v9' = Pi!TogglePick(v9, v10.ids, v10.label)
  BY DEF Pi!LabelSettled
<1>2. PicksOK(v9')
  BY <1>1, PiTogglesOK DEF PiInv
<1>3. CASE v6 = TRUE
  <2>1. Pi!Toggled(v10.label, v9')
    BY <1>3 DEF PiInv, Pi!LabelSettled, Pi!IsOpen, Pi!Locked, Pi!IsPending
  <2>2. DOMAIN v9' = DOMAIN v11' /\ \A l \in DOMAIN v9' : v11'[l] = v9'[l].to
    BY <1>1, <1>3, <2>1, PiTogglesAgree
  <2>3. QED
    BY <1>1, <1>2, <2>2 DEF PiInv
<1>4. CASE v6 = FALSE
  BY <1>1, <1>2, <1>4 DEF PiInv
<1>5. QED
  BY <1>3, <1>4 DEF PiInv

LEMMA PiStep ==
  ASSUME PiInv, shown = "picker", Pi!Next
  PROVE  PiInv' /\ Pi!SendsTheChoice
<1>1. CASE Pi!Open
  <2>1. v6' \in BOOLEAN /\ (v6' => v4 = None) /\ v4' = v4
    BY <1>1 DEF Pi!Open, Pi!Locked, Pi!IsPending
  <2>2. DOMAIN v9' = {} /\ DOMAIN v11' = {}
    BY <1>1 DEF Pi!Open, Pi!NoPicks
  <2>3. QED
    BY <2>1, <2>2 DEF PiInv, PicksOK, Pi!SendsTheChoice
<1>2. CASE Pi!Close
  BY <1>2, PiCloses
<1>3. CASE Pi!Enter \/ \E i \in 1..Len(Pi!Filtered) : Pi!Click(i)
  BY <1>3, PiChooses DEF Pi!Enter, Pi!Click
<1>4. CASE Pi!AssignToMe
  <2>1. v4 = None /\ v4' = [ids |-> {Me}, answer |-> "none"] /\ v4'.ids = {Me} /\ Me \notin v3
    BY <1>4 DEF Pi!AssignToMe, Pi!IsPending, Pi!Display, Pi!Commit
  <2>2. v1 = "assignee" /\ v6' = v6 /\ v6 = FALSE /\ v9' = v9 /\ v11' = v11
    BY <1>4 DEF PiInv, Pi!AssignToMe
  <2>3. QED
    BY <2>1, <2>2 DEF PiInv, PicksOK, Pi!SendsTheChoice, Pi!Labels
<1>5. CASE Pi!LabelSettled
  <2>1. v4' = v4
    BY <1>5 DEF Pi!LabelSettled
  <2>2. QED
    BY <1>5, <2>1, PiSettlesLabel DEF Pi!SendsTheChoice
<1>6. CASE Pi!Save \/ Pi!Answered \/ Pi!Settled
  <2>1. v4 # None /\ v6' = v6 /\ v9' = v9 /\ v11' = v11
    BY <1>6 DEF Pi!Save, Pi!Answered, Pi!Settled, Pi!IsPending
  <2>2. v4' = None \/ (v4' = [ids |-> v4.ids, answer |-> v4'.answer] /\ v4'.answer # "none")
    BY <1>6, <2>1 DEF PiInv, Pi!Save, Pi!Answered, Pi!Settled
  <2>3. QED
    BY <2>1, <2>2 DEF PiInv, PicksOK, Pi!SendsTheChoice
<1>7. CASE \/ Pi!LabelCreated \/ Pi!LabelRefused \/ Pi!Reload
           \/ \E text \in Pi!Listable \cup {Empty} : Pi!Type(text)
           \/ \E delta \in {1, -1} : Pi!Move(delta)
           \/ \E i \in 1..Len(Pi!Filtered) : Pi!MoveTo(i)
           \/ \E ids \in Pi!Values : Pi!Teammate(ids)
           \/ \E list \in Lists[v1] : Pi!Relist(list)
  <2>1. v4' = v4 /\ v6' = v6 /\ v9' = v9 /\ v11' = v11
    BY <1>7 DEF Pi!LabelCreated, Pi!LabelRefused, Pi!Reload, Pi!Type, Pi!Move, Pi!MoveTo,
                Pi!Teammate, Pi!Relist
  <2>2. QED
    BY <2>1 DEF PiInv, PicksOK, Pi!SendsTheChoice
<1>8. QED
  BY <1>1, <1>2, <1>3, <1>4, <1>5, <1>6, <1>7 DEF Pi!Next

(* A picker sends one of the options it lists, or what its user's clicks make of the labels live
   then, whatever teammates do to the field and to the options. *)
THEOREM AlwaysSendsTheChoice == Spec => SendsTheChoice
<1> DEFINE I == shown = "picker" => PiInv
<1>1. Init => I
  BY PiInit DEF Init
<1>2. I /\ [Next]_vars => I'
  <2>1. [Next]_vars => shown' = shown
    BY DEF Next, vars
  <2>2. [Next]_vars /\ shown = "picker" => Pi!Next \/ UNCHANGED vars
    BY DEF Next
  <2>3. UNCHANGED vars /\ PiInv => PiInv'
    BY DEF vars, PiInv, PicksOK
  <2>4. QED
    BY <2>1, <2>2, <2>3, PiStep
<1>3. I /\ [Next]_vars => [shown = "picker" => Pi!SendsTheChoice]_vars
  <2>1. Next /\ shown = "picker" => Pi!Next
    BY DEF Next
  <2>2. QED
    BY <2>1, PiStep
<1>4. QED
  BY <1>1, <1>2, <1>3, PTL DEF Spec, SendsTheChoice

-----------------------------------------------------------------------------
(* One click-to-edit field (InlineEdit). *)

IeEdits ==
  [editing : BOOLEAN, draft : FieldTexts, touched : BOOLEAN, base : FieldTexts,
   badInput : BOOLEAN, pickerValue : FieldTexts]
IeRequests == [text : FieldTexts, answer : {"none", "saved", "refetching", "failed"}]

IeTypes ==
  /\ v2 \in FieldTexts /\ v3 \in FieldTexts
  /\ v4 \in IeEdits
  /\ v5 # None => v5 \in IeRequests

(* The base of an open editor is the value shown, while the draft is that value, or what the
   user knew of when beginning to type; and the draft is what the user typed. *)
IeDraftOK(e, live, typedText, knownText, refetching) ==
  e.editing = TRUE =>
    /\ e.draft = live => e.base = live
    /\ e.touched = FALSE => e.draft = live
    /\ e.touched = TRUE /\ e.badInput = FALSE => e.draft = typedText
    /\ e.touched = TRUE /\ ~refetching => knownText = e.base
    /\ e.badInput = TRUE => Ie!Parsed

Refetching == v5 # None /\ v5.answer = "refetching"

IeInv == IeTypes /\ IeDraftOK(v4, v3, v6, v7, Refetching)

LEMMA IeInit == Ie!Init => IeInv
BY DEF Ie!Init, IeInv, IeTypes, IeDraftOK, IeEdits, Ie!Editor, Ie!Stopped, Refetching

(* A draft nothing conflicts with moves along with the value. *)
LEMMA IeRebases ==
  ASSUME NEW e \in IeEdits, NEW live \in FieldTexts
  PROVE  LET r == Ie!Rebased(e, live)
         IN  /\ r \in IeEdits
             /\ r.editing = e.editing /\ r.touched = e.touched /\ r.badInput = e.badInput
             /\ e.editing = TRUE =>
                  /\ r.base = IF e.touched = FALSE \/ e.draft = live THEN live ELSE e.base
                  /\ r.draft = IF e.touched = FALSE THEN live ELSE e.draft
<1>1. CASE e.editing = FALSE
  BY <1>1 DEF Ie!Rebased
<1>2. CASE e.editing = TRUE /\ e.touched = FALSE
  BY <1>2 DEF Ie!Rebased, IeEdits
<1>3. CASE e.editing = TRUE /\ e.touched = TRUE
  BY <1>3 DEF Ie!Rebased, IeEdits
<1>4. QED
  BY <1>1, <1>2, <1>3 DEF IeEdits

LEMMA IeStops ==
  ASSUME NEW e \in IeEdits
  PROVE  Ie!Stopped(e) \in IeEdits /\ Ie!Stopped(e).editing = FALSE
BY DEF Ie!Stopped, IeEdits

(* The user types. *)
LEMMA IeTyped ==
  ASSUME IeInv, NEW text \in FieldTexts, NEW input, NEW bad \in BOOLEAN,
         Ie!SetDraft(text, input, bad), bad = FALSE => input = text, bad = TRUE => Ie!Parsed
  PROVE  IeInv'
<1> DEFINE e == [v4 EXCEPT !.draft = text, !.touched = TRUE, !.badInput = bad]
<1>1. /\ v4.editing = TRUE /\ v5 = None
      /\ v4' = Ie!Rebased(e, v3) /\ v6' = input
      /\ v7' = IF v4.touched = FALSE \/ text = v3 THEN v3 ELSE v7
      /\ v1' = v1 /\ v2' = v2 /\ v3' = v3 /\ v5' = v5
  BY DEF IeInv, IeTypes, IeEdits, Ie!SetDraft, Ie!IsPending
<1>2. /\ e \in IeEdits /\ e.editing = TRUE /\ e.touched = TRUE /\ e.badInput = bad
      /\ e.draft = text /\ e.base = v4.base
  BY <1>1 DEF IeInv, IeTypes, IeEdits
<1> HIDE DEF e
<1>3. /\ v4' \in IeEdits /\ v4'.touched = TRUE /\ v4'.badInput = bad /\ v4'.draft = text
      /\ v4'.base = IF text = v3 THEN v3 ELSE v4.base
  BY <1>1, <1>2, IeRebases DEF IeInv, IeTypes
<1>4. v4.touched = FALSE => v4.base = v3
  BY <1>1 DEF IeInv, IeDraftOK
<1>5. v4.touched = TRUE => v7 = v4.base
  BY <1>1 DEF IeInv, IeDraftOK, Refetching
<1>6. v4.touched \in BOOLEAN
  BY DEF IeInv, IeTypes, IeEdits
<1>7. v7' = v4'.base
  BY <1>1, <1>3, <1>4, <1>5, <1>6
<1>8. Ie!Parsed' = Ie!Parsed
  BY <1>1 DEF Ie!Parsed, Ie!Inline
<1>9. QED
  BY <1>1, <1>3, <1>7, <1>8 DEF IeInv, IeTypes, IeDraftOK

(* The value changes, and the editor follows. *)
LEMMA IeFollows ==
  ASSUME IeInv, v1' = v1, v6' = v6, v3' \in FieldTexts, v2' \in FieldTexts,
         v5' # None => v5' \in IeRequests,
         v4' = Ie!Rebased(v4, v3') \/ v4' = Ie!Stopped(Ie!Rebased(v4, v3')),
         \/ Refetching'
         \/ v4'.editing = FALSE
         \/ v7' = (IF v4.touched = FALSE \/ v4.draft = v3' THEN v3' ELSE v7) /\ (Refetching => Refetching')
  PROVE  IeInv'
<1> DEFINE r == Ie!Rebased(v4, v3')
<1>1. /\ v4 \in IeEdits /\ r \in IeEdits
      /\ r.editing = v4.editing /\ r.touched = v4.touched /\ r.badInput = v4.badInput
      /\ v4.editing = TRUE =>
           /\ r.base = IF v4.touched = FALSE \/ v4.draft = v3' THEN v3' ELSE v4.base
           /\ r.draft = IF v4.touched = FALSE THEN v3' ELSE v4.draft
  BY IeRebases DEF IeInv, IeTypes
<1> HIDE DEF r
<1>2. Ie!Parsed' = Ie!Parsed
  BY DEF Ie!Parsed, Ie!Inline
<1>3. /\ v4' = r \/ v4'.editing = FALSE
      /\ v4' \in IeEdits
  BY <1>1, IeStops DEF r
<1>4. IeTypes'
  BY <1>3 DEF IeTypes
<1>5. CASE v4'.editing = FALSE
  BY <1>4, <1>5 DEF IeInv, IeDraftOK
<1>6. CASE v4'.editing = TRUE
  <2>1. v4' = r /\ v4.editing = TRUE
    BY <1>1, <1>3, <1>6
  <2>2. v4.touched \in BOOLEAN
    BY <1>1 DEF IeEdits
  <2>3. v4.touched = TRUE /\ ~Refetching' => v7' = v4'.base
    BY <1>1, <1>6, <2>1, <2>2 DEF IeInv, IeDraftOK
  <2>4. QED
    BY <1>1, <1>2, <1>4, <1>6, <2>1, <2>2, <2>3 DEF IeInv, IeDraftOK
<1>7. QED
  BY <1>3, <1>5, <1>6 DEF IeEdits

(* A save: it is what the user typed and changes the field, and an editor whose user did not
   know of the value said so. *)
LEMMA IeSends ==
  ASSUME IeInv, v5 = None, NEW text \in FieldTexts, v3' = v3, v1' = v1, v2' = v2,
         v5' = [text |-> text, answer |-> "none"], v6' = text,
         text # v3, v3 # v7' => Ie!ChangedElsewhere,
         v4' = v4 \/ v4' = Ie!Stopped(v4) \/ (v4' \in IeEdits /\ v4'.editing = FALSE),
         v4' = v4 => v6' = v6 /\ v7' = v7
  PROVE  IeInv' /\ Ie!SavesAreEdits
<1>1. /\ v4' = v4 \/ v4'.editing = FALSE
      /\ v4' \in IeEdits
  BY IeStops DEF IeInv, IeTypes
<1>2. v5' \in IeRequests
  BY DEF IeRequests
<1>3. Ie!Parsed' = Ie!Parsed
  BY DEF Ie!Parsed, Ie!Inline
<1>4. IeInv'
  <2>1. IeTypes'
    BY <1>1, <1>2 DEF IeInv, IeTypes
  <2>2. CASE v4'.editing = FALSE
    BY <2>1, <2>2 DEF IeInv, IeDraftOK
  <2>3. CASE v4' = v4 /\ v6' = v6 /\ v7' = v7
    BY <1>3, <2>1, <2>3 DEF IeInv, IeDraftOK, Refetching
  <2>4. QED
    BY <1>1, <2>2, <2>3
<1>5. Ie!SavesAreEdits
  BY DEF Ie!SavesAreEdits
<1>6. QED
  BY <1>4, <1>5

(* What an editor saves as it stands. *)
LEMMA IeSendsDraft ==
  ASSUME IeInv, v5 = None, v4.editing = TRUE, v4.badInput = FALSE, v4.draft # v4.base,
         Ie!Send(v4.draft), v4' = v4 \/ v4' = Ie!Stopped(v4), UNCHANGED <<v1, v2, v3, v6, v7>>
  PROVE  IeInv' /\ Ie!SavesAreEdits
<1>1. v4 \in IeEdits /\ v4.draft \in FieldTexts /\ v4.touched \in BOOLEAN
  BY DEF IeInv, IeTypes, IeEdits
<1>2. /\ v4.draft = v3 => v4.base = v3
      /\ v4.touched = FALSE => v4.draft = v3
      /\ v4.touched = TRUE => v4.draft = v6 /\ v7 = v4.base
  BY DEF IeInv, IeDraftOK, Refetching
<1>3. v4.touched = TRUE /\ v4.draft # v3 /\ v4.draft = v6 /\ v7 = v4.base
  BY <1>1, <1>2
<1>4. Ie!Display = v3
  BY DEF Ie!Display, Ie!IsPending
<1>5. v3 # v7' => Ie!ChangedElsewhere
  BY <1>3, <1>4 DEF Ie!ChangedElsewhere
<1>6. v5' = [text |-> v4.draft, answer |-> "none"]
  BY DEF Ie!Send
<1>7. QED
  BY <1>1, <1>3, <1>5, <1>6, IeSends

(* Steps that send nothing, and leave the value as it is. *)
LEMMA IeKeeps ==
  ASSUME IeInv, UNCHANGED <<v1, v3, v6, v7>>, v2' \in FieldTexts,
         v5' = None \/ v5' = v5 \/ (v5 # None /\ v5' \in IeRequests),
         v4' = v4 \/ (v4' \in IeEdits /\ v4'.editing = FALSE),
         Refetching => Refetching' \/ v4'.editing = FALSE
  PROVE  IeInv' /\ Ie!SavesAreEdits
<1>1. v4 \in IeEdits /\ v4' \in IeEdits
  BY DEF IeInv, IeTypes
<1>2. IeTypes'
  BY <1>1 DEF IeInv, IeTypes
<1>3. Ie!Parsed' = Ie!Parsed
  BY DEF Ie!Parsed, Ie!Inline
<1>4. Ie!SavesAreEdits
  BY DEF Ie!SavesAreEdits
<1>5. CASE v4'.editing = FALSE
  BY <1>2, <1>4, <1>5 DEF IeInv, IeDraftOK
<1>6. CASE v4' = v4 /\ ~(v4'.editing = FALSE)
  <2>1. IeDraftOK(v4, v3, v6, v7, Refetching) /\ (Refetching => Refetching')
    BY <1>6 DEF IeInv
  <2>2. QED
    BY <1>2, <1>3, <1>4, <1>6, <2>1 DEF IeInv, IeDraftOK
<1>7. QED
  BY <1>5, <1>6

LEMMA IeEditorSteps ==
  ASSUME IeInv, Ie!Commit \/ Ie!Submit \/ Ie!Finish \/ Ie!CommitLimit \/ Ie!Cancel
  PROVE  IeInv' /\ Ie!SavesAreEdits
<1>1. v4.editing = TRUE /\ v4 \in IeEdits /\ v2 \in FieldTexts /\ UNCHANGED <<v1, v2, v3, v6, v7>>
  BY DEF IeInv, IeTypes, IeEdits, Ie!Commit, Ie!Submit, Ie!Finish, Ie!CommitLimit, Ie!Cancel
<1>2. Ie!Stopped(v4) \in IeEdits /\ Ie!Stopped(v4).editing = FALSE
  BY <1>1, IeStops
<1>3. CASE v4' = Ie!Stopped(v4) /\ v5' = v5
  BY <1>1, <1>2, <1>3, IeKeeps
<1>4. CASE /\ v5 = None /\ v4.badInput = FALSE /\ v4.draft # v4.base /\ Ie!Send(v4.draft)
           /\ v4' = v4 \/ v4' = Ie!Stopped(v4)
  BY <1>1, <1>4, IeSendsDraft
<1>5. CASE v5 # None /\ v4' = Ie!Stopped(v4) /\ Ie!Send(v4.draft)
  <2>1. v5' \in IeRequests
    BY <1>1, <1>5 DEF Ie!Send, IeRequests, IeEdits
  <2>2. QED
    BY <1>1, <1>2, <1>5, <2>1, IeKeeps
<1>6. v4.badInput \in BOOLEAN /\ (v4.badInput = TRUE => Ie!Parsed)
  BY <1>1 DEF IeInv, IeDraftOK, IeEdits
<1>7. CASE Ie!Commit \/ Ie!Submit
  <2>1. v5 = None /\ ~Ie!Parsed
    BY <1>7 DEF Ie!Commit, Ie!Submit, Ie!IsPending, Ie!Parsed, Ie!Inline, Ie!Required
  <2>2. v4.badInput = FALSE
    BY <1>6, <2>1
  <2>3. \/ v4' = Ie!Stopped(v4) /\ v5' = v5
        \/ v4.draft # v4.base /\ Ie!Send(v4.draft) /\ v4' = v4
    BY <1>7 DEF Ie!Commit, Ie!Submit, Ie!Unchanged, Ie!Dirty
  <2>4. QED
    BY <1>3, <1>4, <2>1, <2>2, <2>3
<1>8. CASE Ie!Finish \/ Ie!CommitLimit
  <2>1. \/ v4' = Ie!Stopped(v4) /\ v5' = v5
        \/ /\ Ie!Saves(v4.draft) /\ Ie!Send(v4.draft)
           /\ v4' = Ie!Stopped(v4) \/ (v4' = v4 /\ v5 = None)
    BY <1>8 DEF Ie!Finish, Ie!CommitLimit, Ie!IsPending
  <2>2. Ie!Saves(v4.draft) => v4.badInput = FALSE /\ v4.draft # v4.base
    BY <1>6 DEF Ie!Saves, Ie!IsEdit
  <2>3. QED
    BY <1>3, <1>4, <1>5, <2>1, <2>2
<1>9. CASE Ie!Cancel
  BY <1>3, <1>9 DEF Ie!Cancel
<1>10. QED
  BY <1>7, <1>8, <1>9

LEMMA IePicks ==
  ASSUME IeInv, NEW day \in FieldTexts, Ie!Pick(day)
  PROVE  IeInv' /\ Ie!SavesAreEdits
<1> DEFINE e == [v4 EXCEPT !.draft = day, !.touched = TRUE, !.badInput = FALSE]
<1>1. /\ v4 \in IeEdits /\ v4.editing = TRUE /\ v4.touched \in BOOLEAN
      /\ v2 \in FieldTexts /\ v3 \in FieldTexts
      /\ v4' = Ie!Stopped(e) /\ v6' = day /\ UNCHANGED <<v1, v2, v3>>
      /\ v7' = IF v4.touched = FALSE \/ day = v3 THEN v3 ELSE v7
  BY DEF IeInv, IeTypes, IeEdits, Ie!Pick
<1>2. e \in IeEdits
  BY <1>1 DEF IeEdits
<1> HIDE DEF e
<1>3. v4' \in IeEdits /\ v4'.editing = FALSE
  BY <1>1, <1>2, IeStops
<1>4. v5' = v5 \/ (Ie!IsEdit(day) /\ v5' = [text |-> day, answer |-> "none"])
  BY DEF Ie!Pick, Ie!Send
<1>5. CASE v5 = None /\ v5' # v5
  <2>1. Ie!Display = v3
    BY <1>5 DEF Ie!Display, Ie!IsPending
  <2>2. day # v3 /\ v5' = [text |-> day, answer |-> "none"]
    BY <1>4, <1>5, <2>1 DEF Ie!IsEdit
  <2>3. v3 # v7' => v4.touched = TRUE /\ v3 # v4.base
    BY <1>1, <1>5 DEF IeInv, IeDraftOK, Refetching
  <2>4. v3 # v7' => Ie!ChangedElsewhere
    BY <1>1, <2>1, <2>3 DEF Ie!ChangedElsewhere
  <2>5. v4' = v4 => v6' = v6 /\ v7' = v7
    BY <1>1, <1>3
  <2>6. QED
    BY <1>1, <1>3, <1>5, <2>2, <2>4, <2>5, IeSends
<1>6. CASE ~(v5 = None /\ v5' # v5)
  <2>1. v5' = v5 \/ (v5 # None /\ v5' \in IeRequests)
    BY <1>4, <1>6 DEF IeRequests
  <2>2. IeTypes'
    BY <1>1, <1>3, <2>1 DEF IeInv, IeTypes
  <2>3. QED
    BY <1>3, <2>1, <2>2 DEF IeInv, IeDraftOK, Ie!SavesAreEdits
<1>7. QED
  BY <1>5, <1>6

LEMMA IeStep ==
  ASSUME IeInv, Ie!Next
  PROVE  IeInv' /\ Ie!SavesAreEdits
<1>1. v2 \in FieldTexts /\ v3 \in FieldTexts /\ v4 \in IeEdits /\ (v5 # None => v5 \in IeRequests)
  BY DEF IeInv, IeTypes
<1>2. CASE Ie!Start
  <2>1. /\ v4' = [editing |-> TRUE, draft |-> v3, touched |-> FALSE, base |-> v3,
                  badInput |-> FALSE, pickerValue |-> v3]
        /\ UNCHANGED <<v1, v2, v3, v5>>
    BY <1>2 DEF Ie!Start, Ie!Editor
  <2>2. IeTypes'
    BY <1>1, <2>1 DEF IeTypes, IeEdits
  <2>3. IeDraftOK(v4, v3, v6, v7, Refetching)'
    BY <2>1 DEF IeDraftOK
  <2>4. QED
    BY <2>1, <2>2, <2>3 DEF IeInv, Ie!SavesAreEdits
<1>3. CASE Ie!TypeUnparsed \/ \E text \in FieldTexts : Ie!Type(text)
  <2>1. Empty \in FieldTexts
    BY PagesAssumption DEF PagesAssumption, Ie!InlineEditAssumption
  <2>2. v5' = v5
    BY <1>3 DEF Ie!TypeUnparsed, Ie!Type, Ie!SetDraft
  <2>3. IeInv'
    BY <1>3, <2>1, IeTyped DEF Ie!TypeUnparsed, Ie!Type
  <2>4. QED
    BY <2>2, <2>3 DEF Ie!SavesAreEdits
<1>4. CASE Ie!Commit \/ Ie!Submit \/ Ie!Finish \/ Ie!CommitLimit \/ Ie!Cancel
  BY <1>4, IeEditorSteps
<1>5. CASE \E day \in FieldTexts : Ie!Pick(day)
  BY <1>5, IePicks
<1>6. CASE Ie!Clear
  <2>1. /\ v5 = None /\ v3 # Empty /\ v5' = [text |-> Empty, answer |-> "none"]
        /\ v6' = Empty /\ v7' = v3 /\ UNCHANGED <<v1, v2, v3, v4>>
        /\ v4.editing = FALSE
    BY <1>1, <1>6 DEF Ie!Clear, Ie!Send, Ie!IsPending, IeEdits
  <2>2. Empty \in FieldTexts
    BY PagesAssumption DEF PagesAssumption, Ie!InlineEditAssumption
  <2>3. v5' \in IeRequests
    BY <2>1, <2>2 DEF IeRequests
  <2>4. IeTypes'
    BY <1>1, <2>1, <2>3 DEF IeTypes
  <2>5. IeDraftOK(v4, v3, v6, v7, Refetching)'
    BY <2>1 DEF IeDraftOK
  <2>6. QED
    BY <2>1, <2>4, <2>5 DEF IeInv, Ie!SavesAreEdits
<1>7. CASE Ie!Save
  <2>1. v5 # None /\ v5 \in IeRequests /\ v5.answer = "none" /\ UNCHANGED <<v1, v3, v4, v6, v7>>
    BY <1>1, <1>7 DEF Ie!Save, Ie!IsPending
  <2>2. v2' \in FieldTexts /\ v5' \in IeRequests
    BY <1>1, <1>7, <2>1 DEF Ie!Save, IeRequests
  <2>3. QED
    BY <2>1, <2>2, IeKeeps DEF Refetching
<1>8. CASE Ie!Answered
  <2>1. v5 # None /\ v5 \in IeRequests /\ UNCHANGED <<v1, v2, v6, v7>>
    BY <1>1, <1>8 DEF Ie!Answered, Ie!IsPending
  <2>2. v3' \in FieldTexts /\ v5' \in IeRequests /\ v5'.answer = "refetching"
    BY <1>1, <1>8, <2>1 DEF Ie!Answered, IeRequests
  <2>3. v5' # None => Refetching'
    BY <2>2 DEF Refetching
  <2>4. v5' # None
    BY <2>2, PagesAssumption DEF PagesAssumption, Ie!InlineEditAssumption, IeRequests
  <2>5. QED
    BY <1>1, <1>8, <2>1, <2>2, <2>3, <2>4, IeFollows DEF Ie!Answered, Ie!SavesAreEdits
<1>9. CASE Ie!Settled
  <2>1. v5 # None /\ v5' = None /\ UNCHANGED <<v1, v2, v6, v7>> /\ v3' \in FieldTexts
    BY <1>1, <1>9 DEF Ie!Settled, Ie!IsPending
  <2>2. v4' = Ie!Stopped(Ie!Rebased(v4, v3'))
    BY <1>9 DEF Ie!Settled
  <2>3. v4'.editing = FALSE
    BY <1>1, <2>1, <2>2, IeRebases, IeStops
  <2>4. QED
    BY <1>1, <2>1, <2>2, <2>3, IeFollows DEF Ie!SavesAreEdits
<1>10. CASE Ie!Failed
  <2>1. /\ v5.answer = "failed" /\ v5' = None /\ UNCHANGED <<v1, v2, v3, v6, v7>>
        /\ v4' = v4 \/ v4' = Ie!Stopped(v4)
    BY <1>10 DEF Ie!Failed
  <2>2. QED
    BY <1>1, <2>1, IeStops, IeKeeps DEF Refetching
<1>11. CASE \E text \in FieldTexts : Ie!Teammate(text)
  <2>1. v2' \in FieldTexts /\ UNCHANGED <<v1, v3, v4, v5, v6, v7>>
    BY <1>11 DEF Ie!Teammate
  <2>2. QED
    BY <2>1, IeKeeps DEF Refetching
<1>12. CASE Ie!Reload
  <2>1. /\ v3' \in FieldTexts /\ v4' = Ie!Rebased(v4, v3') /\ UNCHANGED <<v1, v2, v5, v6>>
        /\ v7' = IF v4.editing /\ (~v4.touched \/ v4.draft = v3') THEN v3' ELSE v7
    BY <1>1, <1>12 DEF Ie!Reload
  <2>2. v4'.editing = v4.editing
    BY <1>1, <2>1, IeRebases
  <2>3. \/ v4'.editing = FALSE
        \/ v7' = IF v4.touched = FALSE \/ v4.draft = v3' THEN v3' ELSE v7
    BY <1>1, <2>1, <2>2 DEF IeEdits
  <2>4. QED
    BY <1>1, <2>1, <2>3, IeFollows DEF Ie!SavesAreEdits, Refetching
<1>13. QED
  BY <1>2, <1>3, <1>4, <1>5, <1>6, <1>7, <1>8, <1>9, <1>10, <1>11, <1>12 DEF Ie!Next

-----------------------------------------------------------------------------
(* What the dialogs of a sprint send is the user's (SprintForms). *)

(* Fields of the dialog that it may send. *)
SfOwn(f) ==
  \/ f \in v6
  \/ v4.type = "start" /\ f \in {"startDate", "endDate"}
  \/ Sf!FilledIn(f)

SfKept ==
  /\ v4 # None => \A f \in Sf!Fields : v4.values[f] # v4.sprint[f] => SfOwn(f)
  /\ v5 # None => v4 # None /\ \A f \in DOMAIN v5.input : SfOwn(f)

LEMMA SfKeptInit == Sf!Init => SfKept
BY DEF Sf!Init, SfKept

LEMMA SfKeptOpens ==
  ASSUME SfInv, SfKept, NEW type \in {"start", "edit"}, Sf!OpenDialog(type)
  PROVE  SfKept'
<1> DEFINE s == v3.sprint
           values == Sf!InitialValues(s, type = "start")
<1>1. /\ v4 = None /\ v4' = [type |-> type, sprint |-> s, values |-> values]
      /\ v5' = v5
  BY DEF Sf!OpenDialog
<1>2. v5 = None
  BY <1>1 DEF SfKept
<1>3. s \in Sf!SprintRecords
  BY DEF SfInv
<1>4. ASSUME NEW f \in Sf!Fields, values[f] # s[f]
      PROVE  \/ type = "start" /\ f \in {"startDate", "endDate"}
             \/ f = "endDate" /\ s.startDate # None /\ s.endDate = None
  <2> HIDE DEF s
  <2>1. values["name"] = s["name"] /\ values["goal"] = s["goal"]
    BY DEF Sf!InitialValues
  <2>2. CASE type = "start"
    BY <1>4, <2>1, <2>2 DEF Sf!Fields
  <2>3. CASE type = "edit"
    <3>1. values["startDate"] = s["startDate"]
      BY <2>3 DEF Sf!InitialValues
    <3>2. s.startDate = None \/ s.endDate # None => values["endDate"] = s["endDate"]
      BY <2>3 DEF Sf!InitialValues, Sf!EndForDuration
    <3>3. QED
      BY <1>4, <2>1, <3>1, <3>2 DEF Sf!Fields
  <2>4. QED
    BY <2>2, <2>3
<1> HIDE DEF s, values
<1>5. QED
  BY <1>1, <1>2, <1>4 DEF SfKept, SfOwn, Sf!FilledIn

(* A field the user changes is the user's. *)
LEMMA SfKeptUpdates ==
  ASSUME SfInv, SfKept, NEW patch, Sf!Update(patch), v4' \in Sf!Dialogs
  PROVE  SfKept'
<1> DEFINE names == {"name", "goal", "duration", "startDate", "endDate"}
           values == [f \in names |-> IF f \in DOMAIN patch THEN patch[f] ELSE v4.values[f]]
<1>1. /\ v4 # None /\ v4 \in Sf!Dialogs
      /\ v6' = v6 \cup (DOMAIN patch \cap Sf!Fields) /\ v5' = v5
  BY DEF Sf!Update, SfInv
<1>2. v4' = [v4 EXCEPT !.values = values]
  BY <1>1, SfPatched
<1>3. \A f \in Sf!Fields : values[f] = IF f \in DOMAIN patch THEN patch[f] ELSE v4.values[f]
  BY DEF Sf!Fields
<1> HIDE DEF values
<1>4. v4'.values = values /\ v4'.sprint = v4.sprint /\ v4'.type = v4.type
  BY <1>1, <1>2 DEF Sf!Dialogs
<1>5. \A f : SfOwn(f) => SfOwn(f)'
  BY <1>1, <1>4 DEF SfOwn, Sf!FilledIn
<1>6. ASSUME NEW f \in Sf!Fields, v4'.values[f] # v4'.sprint[f]
      PROVE  SfOwn(f)'
  <2>1. CASE f \in DOMAIN patch
    BY <1>1, <2>1 DEF SfOwn
  <2>2. CASE f \notin DOMAIN patch
    BY <1>1, <1>3, <1>4, <1>5, <1>6, <2>2 DEF SfKept
  <2>3. QED
    BY <2>1, <2>2
<1>7. v5' # None => v4' # None /\ \A f \in DOMAIN v5'.input : SfOwn(f)'
  <2>1. v5 # None => \A f \in DOMAIN v5.input : SfOwn(f)
    BY DEF SfKept
  <2>2. v4' # None
    BY PagesAssumption DEF PagesAssumption, Sf!SprintFormsAssumption
  <2>3. QED
    BY <1>1, <1>5, <2>1, <2>2
<1>8. QED
  BY <1>6, <1>7 DEF SfKept

(* The steps that change neither the dialog nor what was entered. *)
LEMMA SfKeptKeeps ==
  ASSUME SfKept, v4' = v4, v6' = v6,
         v5' # None => v4 # None /\ \A f \in DOMAIN v5'.input : SfOwn(f)
  PROVE  SfKept'
BY DEF SfKept, SfOwn, Sf!FilledIn

LEMMA SfKeptSubmits ==
  ASSUME SfInv, SfKept, Sf!SubmitStart \/ Sf!SubmitEdit
  PROVE  SfKept'
<1>1. v4 # None /\ v5 = None
  BY DEF Sf!SubmitStart, Sf!SubmitEdit, Sf!IsPending
<1>2. CASE Sf!SubmitStart
  <2> DEFINE fields == Sf!Changed({"name", "goal"}) \cup {"startDate", "endDate"}
  <2>1. /\ v4.type = "start" /\ v5' = [input |-> [f \in fields |-> v4.values[f]], answer |-> "none"]
        /\ v4' = v4 /\ v6' = v6
    BY <1>2 DEF Sf!SubmitStart, Sf!Send
  <2>2. \A f \in fields : SfOwn(f)
    BY <1>1, <2>1 DEF SfKept, SfOwn, Sf!Changed, Sf!Fields
  <2> HIDE DEF fields
  <2>3. DOMAIN v5'.input = fields
    BY <2>1
  <2>4. QED
    BY <1>1, <2>1, <2>2, <2>3, SfKeptKeeps
<1>3. CASE Sf!SubmitEdit /\ Sf!Changed(Sf!Fields) = {}
  BY <1>1, <1>3 DEF SfKept, Sf!SubmitEdit, Sf!Closes
<1>4. CASE Sf!SubmitEdit /\ Sf!Changed(Sf!Fields) # {}
  <2> DEFINE fields == Sf!Changed(Sf!Fields)
  <2>1. /\ v5' = [input |-> [f \in fields |-> v4.values[f]], answer |-> "none"]
        /\ v4' = v4 /\ v6' = v6
    BY <1>4 DEF Sf!SubmitEdit, Sf!Send
  <2>2. \A f \in fields : SfOwn(f)
    BY <1>1 DEF SfKept, Sf!Changed
  <2> HIDE DEF fields
  <2>3. DOMAIN v5'.input = fields
    BY <2>1
  <2>4. QED
    BY <1>1, <2>1, <2>2, <2>3, SfKeptKeeps
<1>5. QED
  BY <1>2, <1>3, <1>4

(* The server saves the fields sent, and no others. *)
LEMMA SfKeptApplies ==
  ASSUME SfInv, SfKept, Sf!Apply
  PROVE  SfKept' /\ Sf!TeammatesEditsKept
<1>1. v5 # None /\ v4 # None /\ v1 \in Sf!SprintRecords /\ \A f \in DOMAIN v5.input : SfOwn(f)
  BY DEF SfInv, SfKept, Sf!Apply, Sf!IsPending
<1>2. /\ v1' = Sf!Patched(v5.input) /\ v4' = v4 /\ v6' = v6
      /\ v5' = [v5 EXCEPT !.answer = "saved"]
  BY DEF Sf!Apply
<1>3. v5'.input = v5.input \/ v5' = v5
  BY <1>2
<1>4. SfKept'
  BY <1>1, <1>2, <1>3, SfKeptKeeps
<1>5. \A f \in Sf!Fields : v1'[f] # v1[f] => f \in DOMAIN v5.input
  BY <1>1, <1>2 DEF Sf!Patched, Sf!Fields, Sf!SprintRecords
<1>6. QED
  BY <1>1, <1>4, <1>5 DEF Sf!TeammatesEditsKept, SfOwn

LEMMA SfKeptOthers ==
  ASSUME SfInv, SfKept,
         \/ Sf!CloseDialog \/ Sf!Refuse \/ Sf!Saved \/ Sf!Fail
         \/ Sf!TeammateMovesOther \/ Sf!Reload
         \/ \E f, to : Sf!TeammateEdits(f, to)
         \/ \E state : Sf!TeammateMoves(state)
  PROVE  SfKept' /\ Sf!TeammatesEditsKept
<1>1. CASE Sf!CloseDialog \/ Sf!Saved
  BY <1>1 DEF SfKept, Sf!CloseDialog, Sf!Saved, Sf!Closes, Sf!IsPending, Sf!TeammatesEditsKept
<1>2. CASE Sf!Refuse
  <2>1. /\ v5 # None /\ v5' = [v5 EXCEPT !.answer = "failed"]
        /\ v1' = v1 /\ v4' = v4 /\ v6' = v6
    BY <1>2 DEF Sf!Refuse, Sf!IsPending
  <2>2. v5'.input = v5.input \/ v5' = v5
    BY <2>1
  <2>3. v4 # None /\ \A f \in DOMAIN v5.input : SfOwn(f)
    BY <2>1 DEF SfKept
  <2>4. SfKept'
    BY <2>1, <2>2, <2>3, SfKeptKeeps
  <2>5. QED
    BY <2>1, <2>4 DEF Sf!TeammatesEditsKept
<1>3. CASE \/ Sf!Fail \/ Sf!TeammateMovesOther \/ Sf!Reload
           \/ \E f, to : Sf!TeammateEdits(f, to)
           \/ \E state : Sf!TeammateMoves(state)
  <2>1. v4' = v4 /\ v6' = v6 /\ (v5' = v5 \/ (v5' = None /\ v1' = v1))
    BY <1>3 DEF Sf!Fail, Sf!TeammateMovesOther, Sf!Reload, Sf!TeammateEdits, Sf!TeammateMoves
  <2>2. SfKept'
    BY <2>1, SfKeptKeeps DEF SfKept
  <2>3. QED
    BY <2>1, <2>2 DEF Sf!TeammatesEditsKept
<1>4. QED
  BY <1>1, <1>2, <1>3

LEMMA SfKeptStep ==
  ASSUME SfInv, SfKept, Sf!Next
  PROVE  SfKept' /\ Sf!TeammatesEditsKept
<1>1. Dates \cup {None} \subseteq Sf!Days
  BY PagesAssumption DEF PagesAssumption, Sf!SprintFormsAssumption, Sf!Days
<1>2. CASE Sf!StartSprint \/ Sf!EditSprint
  <2>1. PICK type \in {"start", "edit"} : Sf!OpenDialog(type)
    BY <1>2 DEF Sf!StartSprint, Sf!EditSprint
  <2>2. v1' = v1
    BY <2>1 DEF Sf!OpenDialog
  <2>3. QED
    BY <2>1, <2>2, SfKeptOpens DEF Sf!TeammatesEditsKept
<1>3. CASE Sf!SubmitStart \/ Sf!SubmitEdit
  <2>1. v1' = v1
    BY <1>3 DEF Sf!SubmitStart, Sf!SubmitEdit
  <2>2. QED
    BY <1>3, <2>1, SfKeptSubmits DEF Sf!TeammatesEditsKept
<1>4. CASE Sf!Apply
  BY <1>4, SfKeptApplies
<1>5. CASE \/ Sf!CloseDialog \/ Sf!Refuse \/ Sf!Saved \/ Sf!Fail
           \/ Sf!TeammateMovesOther \/ Sf!Reload
           \/ \E state \in {"active", "completed", "gone"} : Sf!TeammateMoves(state)
           \/ \E to \in Names : Sf!TeammateEdits("name", to)
           \/ \E to \in Goals : Sf!TeammateEdits("goal", to)
           \/ \E to \in Dates \cup {None} :
                Sf!TeammateEdits("startDate", to) \/ Sf!TeammateEdits("endDate", to)
  BY <1>5, SfKeptOthers
<1>6. CASE \/ \E name \in Names : Sf!SetName(name)
           \/ \E goal \in Goals : Sf!SetGoal(goal)
           \/ \E date \in Dates \cup {None} : Sf!SetStart(date) \/ Sf!SetEnd(date)
           \/ \E duration \in Presets \cup {Custom} : Sf!SetDuration(duration)
  <2>1. PICK patch : Sf!Update(patch)
    BY <1>6 DEF Sf!SetName, Sf!SetGoal, Sf!SetStart, Sf!SetEnd, Sf!SetDuration
  <2>2. v4 # None /\ v1' = v1
    BY <2>1 DEF Sf!Update
  <2>3. v4' \in Sf!Dialogs
    BY <1>1, <1>6, <2>2, SfSetsText, SfSetsStart, SfSetsEnd, SfSetsDuration
  <2>4. SfKept'
    BY <2>1, <2>3, SfKeptUpdates
  <2>5. QED
    BY <2>2, <2>4 DEF Sf!TeammatesEditsKept
<1>7. QED
  BY <1>2, <1>3, <1>4, <1>5, <1>6 DEF Sf!Next

-----------------------------------------------------------------------------
(* The form of a project's details (ProjectDetails). *)

PdTypes ==
  /\ v1 \in [Pd!Fields -> Pd!Texts] /\ v2 \in [Pd!Fields -> Pd!Texts]
  /\ v3 \in [Pd!Fields -> Pd!Texts] /\ v7 \in Pd!Patches /\ v8 \in Nat
  /\ v6 # None => v6 \in Pd!Requests

(* A submit that waits has what the admin entered, which the form shows, or what others saved. *)
PdWaiting ==
  v5 # None =>
    /\ v6 = None
    /\ v5.patch \in Pd!Patches
    /\ \A f \in Pd!Fields : v5.patch[f] # Keep =>
         v5.patch[f] = v7[f] /\ (v5.patch[f] = v3[f] \/ v3[f] = v2[f])

(* What the form changes, the admin entered. *)
PdOwn == \A f \in Pd!Fields : v3[f] # v2[f] => v3[f] = v7[f]

PdInv == PdTypes /\ PdWaiting /\ PdOwn

LEMMA PdInit == Pd!Init => PdInv
<1>1. SUFFICES ASSUME Pd!Init PROVE PdInv
  OBVIOUS
<1>2. v1 \in [Pd!Fields -> Pd!Texts] /\ v2 = v1 /\ v3 = v1 /\ v5 = None /\ v6 = None /\ v8 = 0
  BY <1>1 DEF Pd!Init, Pd!Project
<1>3. v7 \in Pd!Patches
  BY <1>1 DEF Pd!Init, Pd!NothingEntered, Pd!Patches
<1>4. QED
  BY <1>2, <1>3 DEF PdInv, PdTypes, PdWaiting, PdOwn

(* The changes of the form are a patch of what the admin entered. *)
LEMMA PdPatch ==
  ASSUME PdInv
  PROVE  /\ Pd!Patch \in Pd!Patches
         /\ \A f \in Pd!Fields : Pd!Patch[f] # Keep => Pd!Patch[f] = v7[f] /\ Pd!Patch[f] = v3[f]
<1>1. Pd!Patch = [f \in Pd!Fields |-> IF v3[f] # v2[f] THEN v3[f] ELSE Keep]
  BY DEF Pd!Patch, Pd!ChangesOf
<1>2. v3 \in [Pd!Fields -> Pd!Texts]
  BY DEF PdInv, PdTypes
<1>3. QED
  BY <1>1, <1>2 DEF PdInv, PdOwn, Pd!Patches

(* The form is rendered with another project. *)
LEMMA PdRenders ==
  ASSUME PdInv, NEW p \in [Pd!Fields -> Pd!Texts], Pd!Render(p),
         UNCHANGED <<v1, v5, v7, v8>>, v6' # None => v6' \in Pd!Requests,
         v5 # None => v6' = v6
  PROVE  PdInv'
<1>1. v2' = p /\ v3' = [f \in Pd!Fields |-> IF v3[f] = v2[f] THEN p[f] ELSE v3[f]]
  BY DEF Pd!Render, Pd!Rebase
<1>2. PdTypes'
  BY <1>1 DEF PdInv, PdTypes
<1>3. PdOwn'
  BY <1>1 DEF PdInv, PdOwn
<1>4. PdWaiting'
  BY <1>1 DEF PdInv, PdWaiting
<1>5. QED
  BY <1>2, <1>3, <1>4 DEF PdInv

LEMMA PdMutates ==
  ASSUME PdInv, v6 = None, NEW patch \in Pd!Patches, Pd!Mutate(patch), v5' = None,
         UNCHANGED <<v1, v2, v3, v7, v8>>,
         \A f \in Pd!Fields : patch[f] # Keep =>
           patch[f] = v7[f] /\ (patch[f] = v3[f] \/ (v5 # None /\ v3[f] = v2[f]))
  PROVE  PdInv' /\ Pd!SendsOwnEdits
<1>1. v6' = [patch |-> patch, answer |-> "none", project |-> v1]
  BY DEF Pd!Mutate
<1>2. v6' \in Pd!Requests /\ v6'.patch = patch /\ v6'.answer = "none"
  BY <1>1 DEF PdInv, PdTypes, Pd!Requests
<1>3. PdTypes' /\ PdWaiting' /\ PdOwn'
  BY <1>2 DEF PdInv, PdTypes, PdWaiting, PdOwn
<1>4. Pd!SendsOwnEdits
  BY <1>2 DEF Pd!SendsOwnEdits
<1>5. QED
  BY <1>3, <1>4 DEF PdInv

LEMMA PdSubmits ==
  ASSUME PdInv, Pd!Submit
  PROVE  PdInv' /\ Pd!SendsOwnEdits
<1>1. v5 = None /\ v6 = None /\ UNCHANGED <<v1, v2, v3, v7, v8>>
  BY DEF Pd!Submit
<1>2. CASE Pd!Mutate(Pd!Patch) /\ v5' = v5
  BY <1>1, <1>2, PdPatch, PdMutates
<1>3. CASE v6' = v6 /\ \E step : Pd!Waits(step)
  <2>1. v5'.patch = Pd!Patch
    BY <1>3 DEF Pd!Waits
  <2>2. PdWaiting'
    BY <1>1, <1>3, <2>1, PdPatch DEF PdWaiting
  <2>3. QED
    BY <1>1, <1>3, <2>2 DEF PdInv, PdTypes, PdOwn, Pd!SendsOwnEdits
<1>4. QED
  BY <1>1, <1>2, <1>3 DEF Pd!Submit

LEMMA PdGoesOn ==
  ASSUME PdInv, v5 # None, Pd!Mutate(v5.patch), v5' = None, UNCHANGED <<v1, v2, v3, v7, v8>>
  PROVE  PdInv' /\ Pd!SendsOwnEdits
<1>1. /\ v6 = None /\ v5.patch \in Pd!Patches
      /\ \A f \in Pd!Fields : v5.patch[f] # Keep =>
           v5.patch[f] = v7[f] /\ (v5.patch[f] = v3[f] \/ v3[f] = v2[f])
  BY DEF PdInv, PdWaiting
<1>2. QED
  BY <1>1, PdMutates

(* Steps that change at most the switch's step. *)
LEMMA PdKeeps ==
  ASSUME PdInv, UNCHANGED <<v1, v2, v3, v6, v7, v8>>,
         v5' = None \/ (v5 # None /\ v5'.patch = v5.patch) \/ v5' = v5
  PROVE  PdInv' /\ Pd!SendsOwnEdits
<1>1. PdTypes' /\ PdOwn' /\ Pd!SendsOwnEdits
  BY DEF PdInv, PdTypes, PdOwn, Pd!SendsOwnEdits
<1>2. PdWaiting'
  BY DEF PdInv, PdWaiting
<1>3. QED
  BY <1>1, <1>2 DEF PdInv

LEMMA PdLooks ==
  ASSUME PdInv, NEW result, Pd!Looked(result)
  PROVE  PdInv' /\ Pd!SendsOwnEdits
<1>1. UNCHANGED <<v1, v2, v3, v7, v8>>
  BY DEF Pd!Looked
<1>2. CASE v5' = v5 /\ v6' = v6
  BY <1>1, <1>2, PdKeeps
<1>3. CASE v5 # None /\ Pd!Mutate(v5.patch) /\ v5' = None
  BY <1>1, <1>3, PdGoesOn
<1>4. CASE v5 # None /\ v5' = [v5 EXCEPT !.step = "confirming"] /\ v6' = v6
  <2>1. v5'.patch = v5.patch \/ v5' = v5
    BY <1>4
  <2>2. QED
    BY <1>1, <1>4, <2>1, PdKeeps
<1>5. QED
  BY <1>2, <1>3, <1>4 DEF Pd!Looked, Pd!Checking

LEMMA PdSets ==
  ASSUME PdInv, NEW field \in Pd!Fields, NEW text \in DetailValues[field], Pd!Set(field, text)
  PROVE  PdInv' /\ Pd!SendsOwnEdits
<1>1. /\ v3' = [v3 EXCEPT ![field] = text] /\ v7' = [v7 EXCEPT ![field] = text]
      /\ v5 = None /\ UNCHANGED <<v1, v2, v5, v6, v8>>
  BY DEF Pd!Set
<1>2. text \in Pd!Texts
  BY DEF Pd!Texts
<1>3. PdTypes'
  BY <1>1, <1>2 DEF PdInv, PdTypes, Pd!Patches
<1>4. PdOwn'
  BY <1>1 DEF PdInv, PdTypes, PdOwn, Pd!Patches
<1>5. QED
  BY <1>1, <1>3, <1>4 DEF PdInv, PdWaiting, Pd!SendsOwnEdits

LEMMA PdOthersSave ==
  ASSUME PdInv, NEW field \in Pd!Fields, NEW text, Pd!OtherSaves(field, text)
  PROVE  PdInv' /\ Pd!SendsOwnEdits
<1>1. v1' \in Pd!Project /\ v8' = v8 + 1 /\ UNCHANGED <<v2, v3, v5, v6, v7>>
  BY DEF Pd!OtherSaves
<1>2. v8' \in Nat
  BY <1>1 DEF PdInv, PdTypes
<1>3. v1' \in [Pd!Fields -> Pd!Texts]
  BY <1>1 DEF Pd!Project
<1>4. PdTypes' /\ PdOwn'
  BY <1>1, <1>2, <1>3 DEF PdInv, PdTypes, PdOwn
<1>5. PdWaiting'
  BY <1>1 DEF PdInv, PdWaiting
<1>6. QED
  BY <1>1, <1>4, <1>5 DEF PdInv, Pd!SendsOwnEdits

LEMMA PdStep ==
  ASSUME PdInv, Pd!Next
  PROVE  PdInv' /\ Pd!SendsOwnEdits
<1>1. /\ v1 \in [Pd!Fields -> Pd!Texts] /\ v2 \in [Pd!Fields -> Pd!Texts]
      /\ v6 # None => v6 \in Pd!Requests /\ v5 = None
  BY DEF PdInv, PdTypes, PdWaiting
<1>2. None \notin Pd!Requests
  BY PagesAssumption DEF PagesAssumption, Pd!ProjectDetailsAssumption
<1>3. CASE Pd!Discard
  <2>1. v3' = v2 /\ v7' = Pd!NothingEntered /\ v5 = None /\ UNCHANGED <<v1, v2, v5, v6, v8>>
    BY <1>3 DEF Pd!Discard
  <2>2. v7' \in Pd!Patches
    BY <2>1 DEF Pd!NothingEntered, Pd!Patches
  <2>3. QED
    BY <2>1, <2>2 DEF PdInv, PdTypes, PdOwn, PdWaiting, Pd!SendsOwnEdits
<1>4. CASE Pd!Submit
  BY <1>4, PdSubmits
<1>5. CASE Pd!Confirm
  BY <1>5, PdGoesOn DEF Pd!Confirm, Pd!Confirming
<1>6. CASE Pd!Decline
  BY <1>6, PdKeeps DEF Pd!Decline
<1>7. CASE Pd!Save
  <2>1. /\ v6 \in Pd!Requests /\ v6 # None /\ v5 = None /\ v6.answer = "none"
        /\ UNCHANGED <<v2, v3, v5, v7, v8>>
    BY <1>1, <1>7 DEF Pd!Save
  <2>2. CASE v1' = Pd!Applied(v6.patch, v1) /\ v6' = [v6 EXCEPT !.answer = "saved", !.project = v1']
    <3>1. v6.patch \in Pd!Patches
      BY <2>1 DEF Pd!Requests
    <3>2. v1' \in [Pd!Fields -> Pd!Texts]
      BY <1>1, <2>2, <3>1 DEF Pd!Applied, Pd!Patches
    <3>3. v6' \in Pd!Requests /\ v6'.answer = "saved" /\ v6'.project = v1'
      BY <2>1, <2>2, <3>2 DEF Pd!Requests
    <3>4. v6' # None
      BY <1>2, <3>3
    <3>5. QED
      BY <2>1, <3>2, <3>3, <3>4 DEF PdInv, PdTypes, PdOwn, PdWaiting, Pd!SendsOwnEdits
  <2>3. CASE v1' = v1 /\ v6' = [v6 EXCEPT !.answer = "failed"]
    <3>1. v6' \in Pd!Requests /\ v6'.answer = "failed"
      BY <2>1, <2>3 DEF Pd!Requests
    <3>2. QED
      BY <2>1, <2>3, <3>1 DEF PdInv, PdTypes, PdOwn, PdWaiting, Pd!SendsOwnEdits
  <2>4. QED
    BY <1>7, <2>2, <2>3 DEF Pd!Save
<1>8. CASE Pd!Answered
  <2>1. /\ v6 \in Pd!Requests /\ v6 # None /\ v5 = None /\ v6.answer = "saved"
        /\ UNCHANGED <<v1, v5, v7, v8>> /\ Pd!Render(v6.project)
        /\ v6' = [v6 EXCEPT !.answer = "refetching"]
    BY <1>1, <1>8 DEF Pd!Answered
  <2>2. v6.project \in [Pd!Fields -> Pd!Texts] /\ v6' \in Pd!Requests /\ v6'.answer = "refetching"
    BY <2>1 DEF Pd!Requests
  <2>3. PdInv'
    BY <2>1, <2>2, PdRenders
  <2>4. QED
    BY <2>1, <2>3 DEF Pd!SendsOwnEdits
<1>9. CASE Pd!Settled
  <2>1. /\ v6 # None /\ v5 = None /\ UNCHANGED <<v1, v5, v7, v8>> /\ Pd!Render(v1) /\ v6' = None
    BY <1>1, <1>9 DEF Pd!Settled
  <2>2. PdInv'
    BY <1>1, <2>1, PdRenders
  <2>3. QED
    BY <2>1, <2>2 DEF Pd!SendsOwnEdits
<1>10. CASE Pd!Failed
  BY <1>1, <1>10 DEF PdInv, PdTypes, PdOwn, PdWaiting, Pd!SendsOwnEdits, Pd!Failed
<1>11. CASE Pd!Reload
  <2>1. UNCHANGED <<v1, v5, v6, v7, v8>> /\ Pd!Render(v1)
    BY <1>11 DEF Pd!Reload
  <2>2. PdInv'
    BY <1>1, <2>1, PdRenders
  <2>3. QED
    BY <2>1, <2>2 DEF Pd!SendsOwnEdits
<1>12. CASE \E result \in {"some", "no", "failed"} : Pd!Looked(result)
  BY <1>12, PdLooks
<1>13. CASE \E field \in Pd!Fields : \E text \in DetailValues[field] :
              Pd!Set(field, text) \/ Pd!OtherSaves(field, text)
  BY <1>13, PdSets, PdOthersSave
<1>14. QED
  BY <1>3, <1>4, <1>5, <1>6, <1>7, <1>8, <1>9, <1>10, <1>11, <1>12, <1>13 DEF Pd!Next

(* An inline editor and the details form send only what their user entered; what a sprint dialog
   sends undoes nothing teammates saved of the fields its user left alone, but for the dates that
   Sf!TeammatesEditsKept exempts. *)
THEOREM AlwaysSendsOwnEdits == Spec => SendsOwnEdits
<1> DEFINE I == /\ shown = "inlineEdit" => IeInv
                /\ shown = "sprintForms" => SfInv /\ SfKept
                /\ shown = "projectDetails" => PdInv
           A == /\ shown = "inlineEdit" => Ie!SavesAreEdits
                /\ shown = "sprintForms" => Sf!TeammatesEditsKept
                /\ shown = "projectDetails" => Pd!SendsOwnEdits
<1>1. Init => I
  BY IeInit, SfInit, SfKeptInit, PdInit DEF Init
<1>2. I /\ Next => I' /\ A
  <2>1. SUFFICES ASSUME I, Next PROVE I' /\ A
    OBVIOUS
  <2>2. shown' = shown
    BY <2>1 DEF Next
  <2>3. CASE shown = "inlineEdit"
    BY <2>1, <2>2, <2>3, IeStep DEF Next
  <2>4. CASE shown = "sprintForms"
    <3>1. Sf!Next
      BY <2>1, <2>4 DEF Next
    <3>2. SfInv'
      BY <2>1, <2>4, SfStep
    <3>3. QED
      BY <2>1, <2>2, <2>4, <3>1, <3>2, SfKeptStep
  <2>5. CASE shown = "projectDetails"
    BY <2>1, <2>2, <2>5, PdStep DEF Next
  <2>6. QED
    BY <2>2, <2>3, <2>4, <2>5
<1>3. I /\ UNCHANGED vars => I'
  BY DEF vars, IeInv, IeTypes, IeDraftOK, Refetching, Ie!Parsed, Ie!Inline, SfInv, SfInput,
         Sf!PresetIsTheLength, SfKept, SfOwn, Sf!FilledIn, PdInv, PdTypes, PdWaiting, PdOwn
<1>4. QED
  BY <1>1, <1>2, <1>3, PTL DEF Spec, SendsOwnEdits
=============================================================================

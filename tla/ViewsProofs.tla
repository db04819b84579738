---------------------------- MODULE ViewsProofs ----------------------------
(***************************************************************************)
(* Proofs about the pages (Pages) that show lists and dialogs: for each of *)
(* them an invariant of its own module, which holds while the page is on   *)
(* screen.                                                                 *)
(***************************************************************************)
EXTENDS Pages, TLAPS, WellFoundedInduction, FiniteSetTheorems

-----------------------------------------------------------------------------
(* The filters of the board (BoardFilters). *)

(* The choices of the toolbar. *)
BfInv ==
  /\ DOMAIN v2 = {"text", "assignees", "onlyMine", "types", "epics", "hideSubtasks"}
  /\ v2.text \in BOOLEAN /\ v2.onlyMine \in BOOLEAN /\ v2.hideSubtasks \in BOOLEAN

LEMMA BfInit == Bf!Init => BfInv
BY DEF Bf!Init, Bf!EmptyFilters, BfInv

LEMMA BfStep ==
  ASSUME BfInv, shown = "boardFilters", [Next]_vars
  PROVE  BfInv'
<1>1. CASE Bf!ToggleFilter
  <2>1. PICK f : v2' = f /\ BfInv /\
                 \/ f = [v2 EXCEPT !.text = ~@]
                 \/ f = [v2 EXCEPT !.onlyMine = ~@]
                 \/ f = [v2 EXCEPT !.hideSubtasks = ~@]
                 \/ \E x : f = [v2 EXCEPT !.assignees = x]
                 \/ \E x : f = [v2 EXCEPT !.epics = x]
                 \/ \E x : f = [v2 EXCEPT !.types = x]
    BY <1>1 DEF Bf!ToggleFilter, Bf!Choose
  <2>2. QED
    BY <2>1 DEF BfInv
<1>2. CASE Bf!ClearFilters
  BY <1>2 DEF Bf!ClearFilters, Bf!Choose, Bf!EmptyFilters, BfInv
<1>3. CASE (\E board \in Contents : Bf!Reload(board)) \/ UNCHANGED vars
  <2>1. v2' = v2
    BY <1>3 DEF Bf!Reload, vars
  <2>2. QED
    BY <2>1 DEF BfInv
<1>4. QED
  BY <1>1, <1>2, <1>3 DEF Next, Bf!Next

(* What is hidden fails one of the choices that are offered. *)
LEMMA BfHidden ==
  ASSUME BfInv
  PROVE  Bf!HiddenByAControl
<1> DEFINE f == Bf!Effective(v1)
           offered == Bf!Options(v1)
<1>1. /\ f.text = v2.text /\ f.onlyMine = v2.onlyMine /\ f.hideSubtasks = v2.hideSubtasks
      /\ f.types = v2.types
      /\ f.assignees = v2.assignees \cap offered.assignees
      /\ f.epics = v2.epics \cap offered.epics
  BY DEF BfInv, Bf!Effective, Bf!PruneFilters
<1>2. SUFFICES ASSUME NEW i \in v1.issues, ~Bf!Matches(f, i, v1.byId)
               PROVE  Bf!ControlsOn(v1, i)
  BY DEF Bf!HiddenByAControl, Bf!Visible
<1> HIDE DEF f
<1>3. CASE f.assignees # {} /\ v1.byId[i].assignee \notin f.assignees
  BY <1>1, <1>3 DEF Bf!ControlsOn
<1>4. CASE f.epics # {} /\ Bf!EpicOf(i, v1.byId) \notin f.epics
  BY <1>1, <1>4 DEF Bf!ControlsOn
<1>5. QED
  BY <1>1, <1>2, <1>3, <1>4 DEF Bf!Matches, Bf!ControlsOn

-----------------------------------------------------------------------------
(* Creation in the filtered backlog (QuickCreate). *)

(* The filter and the list of epics; what is on its way passes the filter it was sent under. *)
QcInv ==
  /\ v1 \subseteq Epics /\ v2 \subseteq Epics
  /\ v3 \in Epics \cup {None, All}
  /\ Qc!NewIssuePassesEpicFilter

LEMMA QcInit == Qc!Init => QcInv
BY DEF Qc!Init, QcInv, Qc!NewIssuePassesEpicFilter

LEMMA QcSubmit ==
  ASSUME QcInv, Qc!Submit
  PROVE  QcInv'
<1>1. PICK r : v6' = [q \in DOMAIN v6 \cup {r} |->
                 IF q = r THEN [text |-> v5, parent |-> Qc!SelectedEpic, filter |-> Qc!Effective,
                                answer |-> "none"]
                 ELSE v6[q]]
  BY DEF Qc!Submit
<1>2. Qc!MatchesEpic(Qc!Effective, Qc!SelectedEpic)
  BY DEF QcInv, Qc!MatchesEpic, Qc!Effective, Qc!SelectedEpic
<1>3. \A q \in DOMAIN v6' : Qc!MatchesEpic(v6'[q].filter, v6'[q].parent)
  <2>1. TAKE q \in DOMAIN v6'
  <2>2. CASE q = r
    BY <1>1, <1>2, <2>2
  <2>3. CASE q # r
    BY <1>1, <2>1, <2>3 DEF QcInv, Qc!NewIssuePassesEpicFilter
  <2>4. QED
    BY <2>2, <2>3
<1>4. QED
  BY <1>3 DEF QcInv, Qc!Submit, Qc!NewIssuePassesEpicFilter

LEMMA QcStep ==
  ASSUME QcInv, shown = "quickCreate", [Next]_vars
  PROVE  QcInv'
<1>1. CASE Qc!SetFilter
  BY <1>1 DEF QcInv, Qc!SetFilter, Qc!NewIssuePassesEpicFilter
<1>2. CASE Qc!ClearFilter
  BY <1>2 DEF QcInv, Qc!ClearFilter, Qc!NewIssuePassesEpicFilter
<1>3. CASE \/ Qc!Open \/ Qc!Close \/ UNCHANGED vars
           \/ \E text \in Titles \cup {Empty} : Qc!Type(text)
  <2>1. UNCHANGED <<v1, v2, v3, v6>>
    BY <1>3 DEF Qc!Open, Qc!Close, Qc!Type, vars
  <2>2. QED
    BY <2>1 DEF QcInv, Qc!NewIssuePassesEpicFilter
<1>4. CASE Qc!Reload
  BY <1>4 DEF QcInv, Qc!Reload, Qc!NewIssuePassesEpicFilter
<1>5. CASE \E epic \in Epics : Qc!Teammate(epic)
  BY <1>5 DEF QcInv, Qc!Teammate, Qc!NewIssuePassesEpicFilter
<1>6. CASE \E r \in DOMAIN v6 : Qc!Answer(r)
  <2>1. PICK r \in DOMAIN v6 : \E answer : v6' = [v6 EXCEPT ![r].answer = answer]
    BY <1>6 DEF Qc!Answer
  <2>2. UNCHANGED <<v1, v2, v3>>
    BY <1>6 DEF Qc!Answer
  <2>3. \A q \in DOMAIN v6' : /\ q \in DOMAIN v6
                              /\ v6'[q].filter = v6[q].filter /\ v6'[q].parent = v6[q].parent
    BY <2>1
  <2>4. QED
    BY <2>2, <2>3 DEF QcInv, Qc!NewIssuePassesEpicFilter
<1>7. CASE \E r \in DOMAIN v6 : Qc!Created(r) \/ Qc!Failed(r)
  <2>1. PICK r \in DOMAIN v6 : v6' = [q \in DOMAIN v6 \ {r} |-> v6[q]]
    BY <1>7 DEF Qc!Created, Qc!Failed, Qc!Landed
  <2>2. UNCHANGED <<v1, v2, v3>>
    BY <1>7 DEF Qc!Created, Qc!Failed
  <2>3. \A q \in DOMAIN v6' : q \in DOMAIN v6 /\ v6'[q] = v6[q]
    BY <2>1
  <2>4. QED
    BY <2>2, <2>3 DEF QcInv, Qc!NewIssuePassesEpicFilter
<1>8. QED
  BY <1>1, <1>2, <1>3, <1>4, <1>5, <1>6, <1>7, QcSubmit DEF Next, Qc!Next

(* No choice hides an issue unseen, on the board and where issues are created, whatever the
   contents of the board become and whichever epics are deleted. *)
THEOREM FiltersAlwaysShowThemselves == Spec => []FiltersShowThemselves
<1> DEFINE I == /\ shown = "boardFilters" => BfInv
                /\ shown = "quickCreate" => QcInv
<1>1. Init => I
  BY BfInit, QcInit DEF Init
<1>2. I /\ [Next]_vars => I'
  <2>1. [Next]_vars => shown' = shown
    BY DEF Next, vars
  <2>2. QED
    BY <2>1, BfStep, QcStep
<1>3. I => FiltersShowThemselves
  BY BfHidden DEF QcInv, FiltersShowThemselves
<1>4. QED
  BY <1>1, <1>2, <1>3, PTL DEF Spec

-----------------------------------------------------------------------------
(* The modal of an issue over a page (IssueModal). *)

(* What a section of entries pushed by openIssue rests on: the entry it was opened over is
   there, is of the same page, and if it has the parameter the section knows. *)
HistoryOK(entries) ==
  /\ entries \in Seq(Im!Entries)
  /\ \A i \in DOMAIN entries :
       LET e == entries[i]
           below == entries[i - e.depth]
       IN  e.depth > 0 => /\ e.depth < i
                          /\ below.depth = 0 /\ below.path = e.path
                          /\ below.issue = None \/ e.based = TRUE

(* No draft without an issue, none beside a deletion under way but of the issue that is deleted;
   leaving is settled only for the step that leaves; the question is about leaving. *)
ImInv ==
  /\ HistoryOK(v1) /\ v2 \in DOMAIN v1
  /\ v7 = FALSE
  /\ Im!Modal = None => v3 = {}
  /\ v5 # None => v6 = TRUE \/ v3 = {}
  /\ v8 # None => /\ HistoryOK(v8.history) /\ v8.at \in DOMAIN v8.history
                  /\ \/ v8.close = TRUE
                     \/ v8.close = FALSE /\ v8.history[v8.at].issue # Im!Modal

LEMMA ImEntry ==
  ASSUME NEW path \in Paths, NEW issue \in Keys \cup {None}
  PROVE  LET e == Im!Entry(path, issue, 0, FALSE)
         IN  e \in Im!Entries /\ e.path = path /\ e.issue = issue /\ e.depth = 0
BY DEF Im!Entry, Im!Entries

LEMMA ImInit == Im!Init => ImInv
<1>1. SUFFICES ASSUME Im!Init PROVE ImInv
  OBVIOUS
<1>2. PICK path \in Paths, issue \in Keys \cup {None} : v1 = <<Im!Entry(path, issue, 0, FALSE)>>
  BY <1>1 DEF Im!Init
<1> DEFINE e == Im!Entry(path, issue, 0, FALSE)
<1>6. v1 = <<e>> /\ e \in Im!Entries /\ e.depth = 0
  BY <1>2, ImEntry
<1> HIDE DEF e
<1>3. /\ v1 \in Seq(Im!Entries) /\ DOMAIN v1 = {1} /\ v1[1].depth = 0
  BY <1>6
<1>4. HistoryOK(v1)
  BY <1>3 DEF HistoryOK
<1>5. QED
  BY <1>1, <1>3, <1>4 DEF ImInv, Im!Init

(* An entry at the bottom of its section may lose its parameter. *)
LEMMA ImWithout ==
  ASSUME NEW entries, HistoryOK(entries), NEW a \in DOMAIN entries, entries[a].depth = 0
  PROVE  LET without == [entries EXCEPT ![a] = Im!WithoutIssueParam(@)]
         IN  /\ HistoryOK(without) /\ DOMAIN without = DOMAIN entries
             /\ without[a].issue = None /\ without[a].path = entries[a].path /\ without[a].depth = 0
<1> DEFINE e == Im!WithoutIssueParam(entries[a])
           without == [entries EXCEPT ![a] = Im!WithoutIssueParam(@)]
<1>1. entries \in Seq(Im!Entries) /\ entries[a] \in Im!Entries
  BY DEF HistoryOK
<1>2. /\ e \in Im!Entries /\ e.issue = None /\ e.path = entries[a].path /\ e.depth = 0
  <2>1. entries[a].path \in Paths
    BY <1>1 DEF Im!Entries
  <2>2. QED
    BY <2>1, ImEntry DEF Im!WithoutIssueParam
<1>3. without = [entries EXCEPT ![a] = e]
  OBVIOUS
<1> HIDE DEF e, without
<1>4. /\ without \in Seq(Im!Entries) /\ DOMAIN without = DOMAIN entries
      /\ without[a] = e /\ \A i \in DOMAIN entries : i # a => without[i] = entries[i]
  BY <1>1, <1>2, <1>3
<1>5. ASSUME NEW i \in DOMAIN without, without[i].depth > 0
      PROVE  /\ without[i].depth < i
             /\ without[i - without[i].depth].depth = 0
             /\ without[i - without[i].depth].path = without[i].path
             /\ without[i - without[i].depth].issue = None \/ without[i].based = TRUE
  <2>1. i # a /\ without[i] = entries[i]
    BY <1>2, <1>4, <1>5
  <2> DEFINE b == i - entries[i].depth
  <2>2. /\ entries[i].depth < i /\ entries[b].depth = 0 /\ entries[b].path = entries[i].path
        /\ entries[b].issue = None \/ entries[i].based = TRUE
    BY <1>4, <1>5, <2>1 DEF HistoryOK
  <2>3. i \in 1..Len(entries) /\ entries[i].depth \in Nat
    <3>1. i \in 1..Len(entries)
      BY <1>1, <1>4
    <3>2. entries[i] \in Im!Entries
      BY <1>1, <3>1
    <3>3. QED
      BY <3>1, <3>2 DEF Im!Entries
  <2>4. b \in DOMAIN entries
    BY <1>1, <1>5, <2>1, <2>2, <2>3
  <2>5. CASE b = a
    BY <1>2, <1>4, <2>1, <2>2, <2>5
  <2>6. CASE b # a
    BY <1>4, <2>1, <2>2, <2>4, <2>6
  <2>7. QED
    BY <2>5, <2>6
<1>6. QED
  BY <1>2, <1>4, <1>5 DEF HistoryOK, without

LEMMA ImStripped ==
  ASSUME NEW entries, HistoryOK(entries), NEW a \in DOMAIN entries, NEW strip \in BOOLEAN
  PROVE  LET landed == Im!Stripped(entries, a, strip)
         IN  /\ HistoryOK(landed) /\ a \in DOMAIN landed
             /\ landed[a].path = entries[a].path /\ landed[a].depth = entries[a].depth
             /\ landed[a].issue \in {None, entries[a].issue}
             /\ entries[a].depth = 0 /\ strip => landed[a].issue = None
<1>1. CASE strip /\ entries[a].depth = 0
  <2>1. Im!Stripped(entries, a, strip) = [entries EXCEPT ![a] = Im!WithoutIssueParam(@)]
    BY <1>1 DEF Im!Stripped
  <2>2. QED
    BY <1>1, <2>1, ImWithout
<1>2. CASE ~(strip /\ entries[a].depth = 0)
  BY <1>2 DEF Im!Stripped
<1>3. QED
  BY <1>1, <1>2

(* A new entry, of the page or of the section it is pushed onto. *)
LEMMA ImPushed ==
  ASSUME ImInv, NEW e \in Im!Entries,
         \/ e.depth = 0
         \/ /\ e.depth = Im!Here.depth + 1 /\ e.path = Im!Here.path
            /\ e.based = IF Im!Here.depth = 0 THEN Im!Modal # None ELSE Im!Here.based
  PROVE  LET pushed == Append(SubSeq(v1, 1, v2), e)
         IN  HistoryOK(pushed) /\ v2 + 1 \in DOMAIN pushed /\ pushed[v2 + 1] = e
<1> DEFINE pushed == Append(SubSeq(v1, 1, v2), e)
           here == v1[v2]
<1>1. /\ v1 \in Seq(Im!Entries) /\ v2 \in 1..Len(v1) /\ v2 \in Nat /\ v2 > 0
      /\ \A i \in 1..v2 : v1[i] \in Im!Entries
  BY DEF ImInv, HistoryOK
<1>2. /\ pushed \in Seq(Im!Entries) /\ Len(pushed) = v2 + 1 /\ DOMAIN pushed = 1..(v2 + 1)
      /\ pushed[v2 + 1] = e /\ \A i \in 1..v2 : pushed[i] = v1[i]
  BY <1>1
<1> HIDE DEF pushed
<1>3. ASSUME NEW i \in DOMAIN pushed, pushed[i].depth > 0
      PROVE  /\ pushed[i].depth < i
             /\ pushed[i - pushed[i].depth].depth = 0
             /\ pushed[i - pushed[i].depth].path = pushed[i].path
             /\ pushed[i - pushed[i].depth].issue = None \/ pushed[i].based = TRUE
  <2> DEFINE b == i - pushed[i].depth
  <2>1. CASE i \in 1..v2
    <3>1. /\ pushed[i] = v1[i] /\ i \in DOMAIN v1 /\ v1[i].depth \in Nat
      BY <1>1, <1>2, <2>1 DEF Im!Entries
    <3>2. /\ v1[i].depth < i /\ v1[b].depth = 0 /\ v1[b].path = v1[i].path
          /\ v1[b].issue = None \/ v1[i].based = TRUE
      BY <1>3, <3>1 DEF ImInv, HistoryOK
    <3>3. b \in 1..v2
      BY <1>1, <2>1, <3>1, <3>2
    <3>4. QED
      BY <1>2, <3>1, <3>2, <3>3
  <2>2. CASE i = v2 + 1
    <3>1. pushed[i] = e /\ e.depth = here.depth + 1 /\ e.path = here.path
      BY <1>2, <1>3, <2>2 DEF Im!Here, Im!Entries
    <3>2. here.depth \in Nat
      BY <1>1 DEF Im!Entries
    <3>3. CASE here.depth = 0
      <4>1. b = v2 /\ pushed[b] = here /\ pushed[i].depth < i
        BY <1>1, <1>2, <2>2, <3>1, <3>3
      <4>2. here.issue = None \/ e.based = TRUE
        <5>1. e.depth # 0
          BY <3>1, <3>3
        <5>2. e.based = (here.issue # None)
          BY <3>3, <5>1 DEF Im!Here, Im!Modal
        <5>3. QED
          BY <5>2
      <4>3. QED
        BY <3>1, <3>3, <4>1, <4>2
    <3>4. CASE here.depth > 0
      <4>1. /\ here.depth < v2 /\ v1[v2 - here.depth].depth = 0 /\ v1[v2 - here.depth].path = here.path
            /\ v1[v2 - here.depth].issue = None \/ here.based = TRUE
        BY <1>1, <3>4 DEF ImInv, HistoryOK
      <4>2. b = v2 - here.depth /\ b \in 1..v2 /\ pushed[i].depth < i
        BY <1>1, <2>2, <3>1, <3>2, <4>1
      <4>3. e.based = here.based
        BY <1>2, <1>3, <2>2, <3>2, <3>4 DEF Im!Here
      <4>4. QED
        BY <1>2, <3>1, <4>1, <4>2, <4>3
    <3>5. here.depth = 0 \/ here.depth > 0
      BY <3>2
    <3>6. QED
      BY <3>3, <3>4, <3>5
  <2>3. i \in 1..v2 \/ i = v2 + 1
    BY <1>1, <1>2
  <2>4. QED
    BY <2>1, <2>2, <2>3
<1>4. HistoryOK(pushed)
  BY <1>2, <1>3 DEF HistoryOK
<1>5. v2 + 1 \in DOMAIN pushed
  BY <1>1, <1>2
<1>6. QED
  BY <1>2, <1>4, <1>5 DEF pushed

LEMMA ImNavigate ==
  ASSUME ImInv, NEW entries, HistoryOK(entries), NEW a \in DOMAIN entries,
         NEW settled \in BOOLEAN, NEW strip \in BOOLEAN,
         \/ settled = FALSE /\ strip = FALSE
         \/ settled = TRUE /\ Im!Stripped(entries, a, strip)[a].issue # Im!Modal,
         Im!Navigate(entries, a, settled, strip), v5' = v5 \/ v5' = None
  PROVE  /\ ImInv'
         /\ settled = TRUE => /\ v8' = None /\ v2' = a
                              /\ v1' = Im!Stripped(entries, a, strip)
         /\ v3 \subseteq v3' \/ settled = TRUE \/ v6 = TRUE
<1> DEFINE landed == Im!Stripped(entries, a, strip)
<1>1. HistoryOK(landed) /\ a \in DOMAIN landed
  BY ImStripped
<1>2. CASE ~settled /\ Im!Modal # None /\ Im!AnyUnsaved /\ entries[a].issue # Im!Modal
  <2>1. /\ v8' = [history |-> entries, at |-> a, close |-> FALSE]
        /\ UNCHANGED <<v1, v2, v3, v4, v6, v7>>
    BY <1>2 DEF Im!Navigate
  <2>2. Im!Modal' = Im!Modal
    BY <2>1 DEF Im!Modal, Im!Here
  <2>3. v8'.history = entries /\ v8'.at = a
    BY <2>1
  <2>4. QED
    BY <1>2, <2>1, <2>2, <2>3 DEF ImInv
<1>3. CASE ~(~settled /\ Im!Modal # None /\ Im!AnyUnsaved /\ entries[a].issue # Im!Modal)
  <2> DEFINE next == landed[a].issue
  <2>1. /\ v1' = landed /\ v2' = a /\ v8' = None
        /\ v7' = (settled /\ next = Im!Modal)
        /\ IF next = Im!Modal THEN UNCHANGED <<v3, v4, v6>>
           ELSE v3' = {} /\ v4' = None /\ v6' = FALSE
    BY <1>3 DEF Im!Navigate, Im!LeavingAfter
  <2>2. Im!Modal' = next
    BY <2>1 DEF Im!Modal, Im!Here
  <2>3. v7' = FALSE
    BY <2>1
  <2>4. settled = FALSE => next = entries[a].issue
    BY DEF Im!Stripped
  <2> HIDE DEF landed, next
  <2>5. ImInv'
    <3>1. CASE next = Im!Modal
      BY <1>1, <2>1, <2>2, <2>3, <3>1 DEF ImInv
    <3>2. CASE next # Im!Modal
      BY <1>1, <2>1, <2>2, <2>3, <3>2 DEF ImInv
    <3>3. QED
      BY <3>1, <3>2
  <2>6. v3 \subseteq v3' \/ settled = TRUE \/ v6 = TRUE
    <3>1. SUFFICES ASSUME settled = FALSE, v6 # TRUE, next # Im!Modal
                   PROVE  v3 = {}
      BY <2>1
    <3>2. CASE entries[a].issue # Im!Modal
      BY <1>3, <3>1, <3>2 DEF ImInv, Im!AnyUnsaved
    <3>3. CASE entries[a].issue = Im!Modal
      BY <2>4, <3>1, <3>3 DEF ImInv
    <3>4. QED
      BY <3>2, <3>3
  <2>7. QED
    BY <2>1, <2>5, <2>6 DEF landed
<1>4. QED
  BY <1>2, <1>3

(* Closing lands below the section, without the parameter. *)
LEMMA ImCloses ==
  ASSUME ImInv, Im!Modal # None, Im!CloseIssue, v5' = v5 \/ v5' = None
  PROVE  /\ ImInv' /\ v8' = None
         /\ Im!Modal' = None /\ Im!Here'.path = Im!Here.path /\ Im!Here'.depth = 0
<1> DEFINE here == v1[v2]
<1>1. /\ here = Im!Here /\ v2 \in 1..Len(v1) /\ here \in Im!Entries
      /\ here.depth \in Nat /\ here.based \in BOOLEAN
  <2>1. v1 \in Seq(Im!Entries) /\ v2 \in 1..Len(v1)
    BY DEF ImInv, HistoryOK
  <2>2. here \in Im!Entries
    BY <2>1
  <2>3. QED
    BY <2>1, <2>2 DEF Im!Here, Im!Entries
<1>2. CASE here.depth > 0
  <2> DEFINE a == v2 - here.depth
             landed == Im!Stripped(v1, a, here.based)
  <2>1. /\ here.depth < v2 /\ v1[a].depth = 0 /\ v1[a].path = here.path
        /\ v1[a].issue = None \/ here.based = TRUE
    BY <1>1, <1>2 DEF ImInv, HistoryOK
  <2>2. a \in DOMAIN v1
    BY <1>1, <2>1 DEF ImInv, HistoryOK
  <2>3. Im!Navigate(v1, a, TRUE, here.based)
    BY <1>1, <1>2 DEF Im!CloseIssue
  <2>4. HistoryOK(v1)
    BY DEF ImInv
  <2> HIDE DEF a
  <2>5. landed[a].issue = None /\ landed[a].path = here.path /\ landed[a].depth = 0
    BY <1>1, <2>1, <2>2, <2>4, ImStripped
  <2>6. ImInv' /\ v8' = None /\ v2' = a /\ v1' = landed
    BY <1>1, <2>2, <2>3, <2>4, <2>5, ImNavigate
  <2>7. QED
    BY <1>1, <2>5, <2>6 DEF Im!Modal, Im!Here
<1>3. CASE here.depth = 0
  <2> DEFINE entries == [v1 EXCEPT ![v2] = Im!WithoutIssueParam(@)]
  <2>1. Im!Navigate(entries, v2, TRUE, FALSE)
    <3>1. ~(Im!Here.depth > 0)
      BY <1>1, <1>3
    <3>2. QED
      BY <3>1, Zenon DEF Im!CloseIssue, Im!Here
  <2>2. HistoryOK(v1) /\ v2 \in DOMAIN v1
    BY DEF ImInv
  <2>3. /\ HistoryOK(entries) /\ v2 \in DOMAIN entries
        /\ entries[v2].issue = None /\ entries[v2].path = here.path /\ entries[v2].depth = 0
    BY <1>3, <2>2, ImWithout
  <2> HIDE DEF entries
  <2>4. Im!Stripped(entries, v2, FALSE) = entries
    BY DEF Im!Stripped
  <2>5. ImInv' /\ v8' = None /\ v2' = v2 /\ v1' = entries
    BY <2>1, <2>3, <2>4, ImNavigate
  <2>6. QED
    BY <1>1, <2>3, <2>5 DEF Im!Modal, Im!Here
<1>4. QED
  BY <1>1, <1>2, <1>3

(* Links, Back and Forward, and an issue opened: the drafts of the issue that is left are gone
   only when it is being deleted. *)
LEMMA ImLeaves ==
  ASSUME ImInv,
         \/ \E path \in Paths : Im!FollowLink(path)
         \/ \E a \in 1..MaxHistory : Im!Traverse(a)
         \/ \E key \in Keys : Im!OpenIssue(key)
  PROVE  ImInv' /\ (v3 \subseteq v3' \/ v6 = TRUE)
<1>1. /\ v7 = FALSE /\ v1 \in Seq(Im!Entries) /\ v2 \in 1..Len(v1) /\ Im!Here = v1[v2]
      /\ Im!Modal = Im!Here.issue
  BY DEF ImInv, HistoryOK, Im!Here, Im!Modal
<1>2. Im!Here \in Im!Entries
  BY <1>1
<1>3. ASSUME NEW e \in Im!Entries,
             \/ e.depth = 0
             \/ /\ e.depth = Im!Here.depth + 1 /\ e.path = Im!Here.path
                /\ e.based = IF Im!Here.depth = 0 THEN Im!Modal # None ELSE Im!Here.based,
             Im!Push(e), v5' = v5
      PROVE  ImInv' /\ (v3 \subseteq v3' \/ v6 = TRUE)
  <2> DEFINE pushed == Append(SubSeq(v1, 1, v2), e)
  <2>1. HistoryOK(pushed) /\ v2 + 1 \in DOMAIN pushed
    BY <1>3, ImPushed
  <2>2. Im!Navigate(pushed, v2 + 1, FALSE, FALSE)
    BY <1>1, <1>3 DEF Im!Push
  <2> HIDE DEF pushed
  <2>3. QED
    BY <1>3, <2>1, <2>2, ImNavigate
<1>4. CASE \E path \in Paths : Im!FollowLink(path)
  <2>1. PICK path \in Paths : Im!FollowLink(path)
    BY <1>4
  <2>2. /\ Im!Entry(path, None, 0, FALSE) \in Im!Entries
        /\ Im!Entry(path, None, 0, FALSE).depth = 0
    BY ImEntry
  <2>3. Im!Push(Im!Entry(path, None, 0, FALSE)) /\ v5' = v5
    BY <2>1 DEF Im!FollowLink
  <2>4. QED
    BY <1>3, <2>2, <2>3
<1>5. CASE \E a \in 1..MaxHistory : Im!Traverse(a)
  <2>1. PICK a \in DOMAIN v1 : Im!Navigate(v1, a, FALSE, FALSE) /\ v5' = v5
    BY <1>1, <1>5 DEF Im!Traverse
  <2>2. QED
    BY <2>1, ImNavigate DEF ImInv
<1>6. CASE \E key \in Keys : Im!OpenIssue(key)
  <2>1. PICK key \in Keys : Im!OpenIssue(key)
    BY <1>6
  <2> DEFINE e == [path |-> Im!Here.path, issue |-> key, depth |-> Im!Here.depth + 1,
                   based |-> IF Im!Here.depth = 0 THEN Im!Modal # None ELSE Im!Here.based]
  <2>2. Im!Push(e) /\ v5' = v5
    BY <2>1 DEF Im!OpenIssue, Im!Entry
  <2>3. /\ Im!Here.path \in Paths /\ Im!Here.depth + 1 \in Nat
        /\ (IF Im!Here.depth = 0 THEN Im!Modal # None ELSE Im!Here.based) \in BOOLEAN
    <3>1. Im!Here.path \in Paths /\ Im!Here.depth \in Nat /\ Im!Here.based \in BOOLEAN
      BY <1>2 DEF Im!Entries
    <3>2. (Im!Modal # None) \in BOOLEAN
      OBVIOUS
    <3>3. CASE Im!Here.depth = 0
      BY <3>1, <3>2, <3>3
    <3>4. CASE Im!Here.depth # 0
      BY <3>1, <3>4
    <3>5. QED
      BY <3>3, <3>4
  <2>4. /\ e \in Im!Entries
        /\ e.depth = Im!Here.depth + 1 /\ e.path = Im!Here.path
        /\ e.based = IF Im!Here.depth = 0 THEN Im!Modal # None ELSE Im!Here.based
    BY <2>3 DEF Im!Entries
  <2> HIDE DEF e
  <2>5. QED
    BY <1>3, <2>2, <2>4
<1>7. QED
  BY <1>4, <1>5, <1>6

LEMMA ImDraft ==
  ASSUME ImInv, NEW set, Im!Drafts(set),
         set \subseteq v3 \/ (Im!Modal # None /\ v5 = None)
  PROVE  ImInv'
BY DEF ImInv, Im!Drafts, Im!Modal, Im!Here

LEMMA ImStep ==
  ASSUME ImInv, shown = "issueModal", [Next]_vars
  PROVE  ImInv'
<1>1. CASE \/ \E path \in Paths : Im!FollowLink(path)
           \/ \E a \in 1..MaxHistory : Im!Traverse(a)
           \/ \E key \in Keys : Im!OpenIssue(key)
  BY <1>1, ImLeaves
<1>2. CASE \/ \E e \in Im!Editors : Im!Type(e) \/ Im!CancelDraft(e)
           \/ \E lost \in {{"comment"}, Im!Editors} : Im!TeammateDeletes(lost)
           \/ Im!Saved
  <2>1. PICK set : Im!Drafts(set) /\ (set \subseteq v3 \/ (Im!Modal # None /\ v5 = None))
    BY <1>2 DEF Im!Type, Im!CancelDraft, Im!TeammateDeletes, Im!Saved, Im!Free
  <2>2. QED
    BY <2>1, ImDraft
<1>3. CASE (\E e \in Im!Editors : Im!Save(e)) \/ Im!SaveFailed \/ UNCHANGED vars
  <2>1. UNCHANGED <<v1, v2, v3, v5, v6, v7, v8>>
    BY <1>3 DEF Im!Save, Im!SaveFailed, vars
  <2>2. QED
    BY <2>1 DEF ImInv, Im!Modal, Im!Here
<1>4. CASE Im!Stay
  BY <1>4 DEF ImInv, Im!Stay, Im!Modal, Im!Here
<1>5. CASE Im!DeleteIssue
  BY <1>5 DEF ImInv, Im!DeleteIssue, Im!Modal, Im!Here
<1>6. CASE Im!DeleteFailed
  BY <1>6 DEF ImInv, Im!DeleteFailed, Im!Modal, Im!Here
<1>7. CASE Im!RequestClose
  <2>1. CASE Im!AnyUnsaved
    <3>1. /\ UNCHANGED <<v1, v2, v3, v5, v6, v7>>
          /\ v8' = [history |-> v1, at |-> v2, close |-> TRUE]
      BY <1>7, <2>1 DEF Im!RequestClose
    <3>2. v8'.history = v1 /\ v8'.at = v2 /\ v8'.close = TRUE
      BY <3>1
    <3>3. QED
      BY <3>1, <3>2 DEF ImInv, Im!Modal, Im!Here
  <2>2. CASE ~Im!AnyUnsaved
    BY <1>7, <2>2, ImCloses DEF Im!RequestClose
  <2>3. QED
    BY <2>1, <2>2
<1>8. CASE Im!Discard
  <2>1. CASE v8.close = TRUE
    <3>1. Im!CloseIssue /\ v5' = v5
      BY <1>8, <2>1 DEF Im!Discard
    <3>2. CASE Im!Modal = None
      BY <3>1, <3>2 DEF Im!CloseIssue, ImInv, Im!Modal, Im!Here
    <3>3. QED
      BY <3>1, <3>2, ImCloses
  <2>2. CASE v8.close = FALSE
    <3>1. /\ HistoryOK(v8.history) /\ v8.at \in DOMAIN v8.history
          /\ v8.history[v8.at].issue # Im!Modal
      BY <1>8, <2>2 DEF ImInv, Im!Discard
    <3>2. Im!Navigate(v8.history, v8.at, TRUE, FALSE) /\ v5' = v5
      BY <1>8, <2>2 DEF Im!Discard
    <3>3. Im!Stripped(v8.history, v8.at, FALSE) = v8.history
      BY DEF Im!Stripped
    <3>4. QED
      BY <3>1, <3>2, <3>3, ImNavigate
  <2>3. QED
    BY <1>8, <2>1, <2>2 DEF ImInv, Im!Discard
<1>9. CASE Im!Deleted
  <2>1. Im!CloseIssue /\ v5' = None
    BY <1>9 DEF Im!Deleted
  <2>2. CASE Im!Modal = None
    BY <2>1, <2>2 DEF Im!CloseIssue, ImInv, Im!Modal, Im!Here
  <2>3. QED
    BY <2>1, <2>2, ImCloses
<1>10. QED
  BY <1>1, <1>2, <1>3, <1>4, <1>5, <1>6, <1>7, <1>8, <1>9 DEF Next, Im!Next

(* Typed text goes only as its user lets it, ... *)
LEMMA ImKeepsDrafts ==
  ASSUME ImInv, Im!Next
  PROVE  Im!DraftsAreKept
<1>1. CASE \/ \E path \in Paths : Im!FollowLink(path)
           \/ \E a \in 1..MaxHistory : Im!Traverse(a)
           \/ \E key \in Keys : Im!OpenIssue(key)
  BY <1>1, ImLeaves DEF Im!DraftsAreKept
<1>2. CASE \E e \in Im!Editors : Im!Type(e) \/ Im!Save(e)
  BY <1>2 DEF Im!DraftsAreKept, Im!Type, Im!Save, Im!Drafts
<1>3. CASE Im!RequestClose
  BY <1>3 DEF Im!DraftsAreKept, Im!RequestClose, Im!AnyUnsaved
<1>4. CASE Im!Stay \/ Im!SaveFailed \/ Im!DeleteFailed
  BY <1>4 DEF Im!DraftsAreKept, Im!Stay, Im!SaveFailed, Im!DeleteFailed
<1>5. CASE Im!DeleteIssue
  BY <1>5 DEF Im!DraftsAreKept, Im!DeleteIssue
<1>6. CASE Im!Deleted
  BY <1>6 DEF Im!DraftsAreKept, Im!Deleted, ImInv
<1>7. CASE \/ \E e \in Im!Editors : Im!CancelDraft(e)
           \/ \E lost \in {{"comment"}, Im!Editors} : Im!TeammateDeletes(lost)
           \/ Im!Saved \/ Im!Discard
  BY <1>7 DEF Im!DraftsAreKept
<1>8. QED
  BY <1>1, <1>2, <1>3, <1>4, <1>5, <1>6, <1>7 DEF Im!Next

(* ... and closing the modal shows the page below it. *)
LEMMA ImClosesToPage ==
  ASSUME ImInv
  PROVE  Im!ClosesToPage
<1>1. SUFFICES ASSUME v8' = None, Im!Closing
               PROVE  Im!Modal' = None /\ Im!Here'.path = Im!Here.path /\ Im!Here'.depth = 0
  BY DEF Im!ClosesToPage
<1>2. CASE Im!RequestClose
  <2>1. ~Im!AnyUnsaved
    <3>1. SUFFICES ASSUME Im!AnyUnsaved PROVE FALSE
      OBVIOUS
    <3>2. v8' = [history |-> v1, at |-> v2, close |-> TRUE]
      BY <1>2, <3>1 DEF Im!RequestClose
    <3>3. v1 \in Seq(Im!Entries) /\ v2 \in Nat
      BY DEF ImInv, HistoryOK
    <3>4. v8' \in Im!Questions
      BY <3>2, <3>3 DEF Im!Questions
    <3>5. QED
      BY <1>1, <3>4, PagesAssumption DEF PagesAssumption, Im!IssueModalAssumption
  <2>2. QED
    BY <1>2, <2>1, ImCloses DEF Im!RequestClose
<1>3. CASE Im!Discard /\ v8.close
  <2>1. Im!CloseIssue /\ v5' = v5 /\ v8 # None
    BY <1>3 DEF Im!Discard
  <2>2. Im!Modal # None
    BY <1>1, <2>1 DEF Im!CloseIssue
  <2>3. QED
    BY <2>1, <2>2, ImCloses
<1>4. QED
  BY <1>1, <1>2, <1>3 DEF Im!Closing

(* The answers to earlier creations leave the box as it is typed in. *)
LEMMA QcKeepsTyped ==
  ASSUME Qc!Next
  PROVE  Qc!TypedIsKept
<1>1. CASE \E r \in DOMAIN v6 : Qc!Answer(r)
  <2>1. DOMAIN v6' = DOMAIN v6
    BY <1>1 DEF Qc!Answer
  <2>2. QED
    BY <2>1 DEF Qc!TypedIsKept
<1>2. CASE \E r \in DOMAIN v6 : Qc!Created(r)
  BY <1>2 DEF Qc!Created, Qc!TypedIsKept
<1>3. CASE \E r \in DOMAIN v6 : Qc!Failed(r)
  <2>1. PICK r \in DOMAIN v6 : Qc!Failed(r)
    BY <1>3
  <2>2. /\ DOMAIN v6' = DOMAIN v6 \ {r} /\ v6[r].answer = "failed"
        /\ v5 # Empty => v5' = v5
    BY <2>1 DEF Qc!Failed, Qc!Landed, Qc!PutBack
  <2>3. QED
    BY <2>2 DEF Qc!TypedIsKept
<1>4. CASE Qc!Submit
  <2>1. DOMAIN v6 \subseteq DOMAIN v6'
    BY <1>4 DEF Qc!Submit
  <2>2. QED
    BY <2>1 DEF Qc!TypedIsKept
<1>5. CASE \/ Qc!SetFilter \/ Qc!ClearFilter \/ Qc!Open \/ Qc!Close \/ Qc!Reload
           \/ \E text \in Titles \cup {Empty} : Qc!Type(text)
           \/ \E epic \in Epics : Qc!Teammate(epic)
  <2>1. v6' = v6
    BY <1>5 DEF Qc!SetFilter, Qc!ClearFilter, Qc!Open, Qc!Close, Qc!Reload, Qc!Type, Qc!Teammate
  <2>2. QED
    BY <2>1 DEF Qc!TypedIsKept
<1>6. QED
  BY <1>1, <1>2, <1>3, <1>4, <1>5 DEF Qc!Next

(* The drafts of an issue and what is typed for the next issue go only as their user lets them. *)
THEOREM DraftsAreAlwaysKept == Spec => DraftsAreKept
<1> DEFINE I == shown = "issueModal" => ImInv
           Kept == /\ shown = "issueModal" => Im!DraftsAreKept
                   /\ shown = "quickCreate" => Qc!TypedIsKept
<1>1. Init => I
  BY ImInit DEF Init
<1>2. I /\ [Next]_vars => I'
  <2>1. [Next]_vars => shown' = shown
    BY DEF Next, vars
  <2>2. QED
    BY <2>1, ImStep
<1>3. I /\ [Next]_vars => [Kept]_vars
  <2>1. SUFFICES ASSUME I, Next PROVE Kept
    OBVIOUS
  <2>2. shown = "issueModal" => Im!Next
    BY <2>1 DEF Next
  <2>3. shown = "quickCreate" => Qc!Next
    BY <2>1 DEF Next
  <2>4. QED
    BY <2>1, <2>2, <2>3, ImKeepsDrafts, QcKeepsTyped
<1>4. QED
  BY <1>1, <1>2, <1>3, PTL DEF Spec, DraftsAreKept

(* The modal closes to the page it was opened over, however many issues were opened from each
   other and whatever Back and Forward did; the search goes back to its own last page. *)
THEOREM AlwaysNavigatesAsMeant == Spec => NavigatesAsMeant
<1> DEFINE I == shown = "issueModal" => ImInv
           Meant == /\ shown = "issueModal" => Im!ClosesToPage
                    /\ shown = "searchResults" => Sr!SnapsToOwnLastPage
<1>1. Init => I
  BY ImInit DEF Init
<1>2. I /\ [Next]_vars => I'
  <2>1. [Next]_vars => shown' = shown
    BY DEF Next, vars
  <2>2. QED
    BY <2>1, ImStep
<1>3. I /\ [Next]_vars => [Meant]_vars
  <2>1. SUFFICES ASSUME I PROVE Meant
    OBVIOUS
  <2>2. Sr!SnapsToOwnLastPage
    BY DEF Sr!SnapsToOwnLastPage, Sr!SnapBack, Sr!Settled, Sr!IsPlaceholder
  <2>3. QED
    BY <2>1, <2>2, ImClosesToPage
<1>4. QED
  BY <1>1, <1>2, <1>3, PTL DEF Spec, NavigatesAsMeant

-----------------------------------------------------------------------------
(* The dialog that completes a sprint (BoardPage). *)

(* A dialog is asked for by a click. *)
BpInv ==
  /\ v4 # None => v4 \in v9
  /\ v2 # None => v2.open \in BOOLEAN

LEMMA BpInit == Bp!Init => BpInv
BY DEF Bp!Init, BpInv

LEMMA BpStep ==
  ASSUME BpInv, shown = "boardPage", [Next]_vars
  PROVE  BpInv'
<1>1. CASE Bp!Load
  <2>1. PICK s \in Sprints \cup {None}, open \in BOOLEAN : v2' = [sprint |-> s, open |-> open]
    BY <1>1 DEF Bp!Load
  <2>2. v4' = v4 /\ v9' = v9 /\ v2'.open = open
    BY <1>1, <2>1 DEF Bp!Load
  <2>3. QED
    BY <2>2 DEF BpInv
<1>2. CASE Bp!OpenCompleteSprint
  BY <1>2 DEF BpInv, Bp!OpenCompleteSprint
<1>3. CASE Bp!CloseDialog \/ Bp!Answered
  <2>1. v2' = v2 /\ v9' = v9 /\ v4' \in {v4, None}
    BY <1>3 DEF Bp!CloseDialog, Bp!Answered, Bp!CloseCompleteSprint
  <2>2. QED
    BY <2>1 DEF BpInv
<1>4. CASE \/ Bp!LoadPlanned \/ Bp!Submit \/ Bp!CompleteSprint \/ UNCHANGED vars
           \/ \E r \in {"editor", "viewer"} : Bp!LoadRole(r)
           \/ \E t \in {"backlog", "new"} \cup Sprints : Bp!ChooseTarget(t)
           \/ \E s \in Sprints : \/ Bp!Teammate(s, "active", "completed")
                                 \/ Bp!Teammate(s, "planned", "active")
                                 \/ Bp!Teammate(s, "planned", "deleted")
  <2>1. v2' = v2 /\ v4' = v4 /\ v9' = v9
    BY <1>4 DEF Bp!LoadPlanned, Bp!Submit, Bp!CompleteSprint, Bp!LoadRole, Bp!ChooseTarget,
                Bp!Teammate, vars
  <2>2. QED
    BY <2>1 DEF BpInv
<1>5. QED
  BY <1>1, <1>2, <1>3, <1>4 DEF Next, Bp!Next

LEMMA BpAsked ==
  ASSUME BpInv
  PROVE  Bp!OnlyForAskedSprint
BY DEF BpInv, Bp!OnlyForAskedSprint, Bp!DialogOpen

(* A request starts only as the dialog is submitted, with one of its options. *)
LEMMA BpSends ==
  ASSUME BpInv, Bp!Next
  PROVE  Bp!SendsAnOption
<1>1. CASE Bp!Submit
  <2>1. PICK t \in IF v2.open THEN Bp!Target ELSE {"backlog"} :
               v8' = [sprint |-> Bp!ShownSprint, target |-> t, answer |-> "none",
                      mounted |-> TRUE, parameter |-> v5]
    BY <1>1 DEF Bp!Submit
  <2>2. v8'.target = t
    BY <2>1
  <2>3. v2.open \in BOOLEAN
    BY <1>1 DEF BpInv, Bp!Submit, Bp!DialogOpen, Bp!ShownSprint
  <2>4. CASE v2.open
    <3>1. t \in Bp!Target
      BY <2>1, <2>4
    <3>2. t \in Bp!Targets /\ (v7 \in Bp!Targets => t = v7)
      BY <3>1 DEF Bp!Target, Bp!Targets
    <3>3. QED
      BY <2>2, <3>2 DEF Bp!SendsAnOption
  <2>5. CASE ~v2.open
    BY <2>1, <2>2, <2>5 DEF Bp!SendsAnOption, Bp!Targets
  <2>6. QED
    BY <2>4, <2>5
<1>2. CASE ~Bp!Submit
  <2>1. v8 = None => v8' = None
    BY <1>2 DEF Bp!Next, Bp!Load, Bp!LoadPlanned, Bp!LoadRole, Bp!Rendered, Bp!OpenCompleteSprint,
                Bp!CloseDialog, Bp!CompleteSprint, Bp!Answered, Bp!ChooseTarget, Bp!Teammate
  <2>2. QED
    BY <2>1 DEF Bp!SendsAnOption
<1>3. QED
  BY <1>1, <1>2

-----------------------------------------------------------------------------
(* The dialog that deletes a column (DeleteColumn). *)

(* The columns; issues are moved only if the dialog showed where, or was still counting. *)
DcInv ==
  /\ v1 \in Seq(Columns)
  /\ v6 # None => /\ DOMAIN v6 = {"moveTo", "answer"}
                  /\ v6.moveTo = None \/ v7.shown = TRUE \/ v7.counting = TRUE

LEMMA DcInit == Dc!Init => DcInv
BY PagesAssumption DEF PagesAssumption, Dc!DeleteColumnAssumption, Dc!Init, DcInv

LEMMA DcRemoveAt ==
  ASSUME NEW seq \in Seq(Columns), NEW i \in DOMAIN seq
  PROVE  Dc!RemoveAt(seq, i) \in Seq(Columns) /\ Len(Dc!RemoveAt(seq, i)) = Len(seq) - 1
<1> DEFINE left == SubSeq(seq, 1, i - 1)
           right == SubSeq(seq, i + 1, Len(seq))
<1>1. i \in 1..Len(seq) /\ Len(seq) \in Nat
  OBVIOUS
<1>2. /\ left \in Seq(Columns) /\ Len(left) = i - 1
      /\ right \in Seq(Columns) /\ Len(right) = Len(seq) - i
  BY <1>1
<1> HIDE DEF left, right
<1>3. left \o right \in Seq(Columns) /\ Len(left \o right) = Len(seq) - 1
  BY <1>1, <1>2
<1>4. QED
  BY <1>3 DEF Dc!RemoveAt, left, right

LEMMA DcWithout ==
  ASSUME NEW seq \in Seq(Columns), NEW c \in Dc!Range(seq)
  PROVE  Dc!Without(seq, c) \in Seq(Columns)
<1>1. (CHOOSE i \in DOMAIN seq : seq[i] = c) \in DOMAIN seq
  BY DEF Dc!Range
<1>2. QED
  BY <1>1, DcRemoveAt DEF Dc!Without

LEMMA DcArrayMove ==
  ASSUME NEW seq \in Seq(Columns), NEW i \in DOMAIN seq, NEW j \in DOMAIN seq
  PROVE  Dc!ArrayMove(seq, i, j) \in Seq(Columns)
<1> DEFINE rest == Dc!RemoveAt(seq, i)
<1>1. rest \in Seq(Columns) /\ Len(rest) = Len(seq) - 1 /\ seq[i] \in Columns /\ j \in 1..Len(seq)
  BY DcRemoveAt
<1> HIDE DEF rest
<1>2. SubSeq(rest, 1, j - 1) \in Seq(Columns) /\ SubSeq(rest, j, Len(rest)) \in Seq(Columns)
  BY <1>1
<1>3. SubSeq(rest, 1, j - 1) \o <<seq[i]>> \o SubSeq(rest, j, Len(rest)) \in Seq(Columns)
  BY <1>1, <1>2
<1>4. QED
  BY <1>3 DEF Dc!ArrayMove, Dc!InsertAt, rest

LEMMA DcStep ==
  ASSUME DcInv, shown = "deleteColumn", [Next]_vars
  PROVE  DcInv'
<1>1. CASE Dc!Submit
  <2>1. /\ v1' = v1 /\ v6' = [moveTo |-> Dc!MoveTo, answer |-> "none"]
        /\ v7' = [shown |-> Dc!TargetShown, counting |-> v5 = "loading"]
    BY <1>1 DEF Dc!Submit
  <2>2. Dc!TargetShown \in BOOLEAN /\ (v5 = "loading") \in BOOLEAN
    BY DEF Dc!TargetShown
  <2>3. Dc!MoveTo = None \/ Dc!TargetShown \/ v5 = "loading"
    BY DEF Dc!MoveTo, Dc!TargetShown
  <2>4. v6'.moveTo = None \/ v7'.shown = TRUE \/ v7'.counting = TRUE
    BY <2>1, <2>2, <2>3
  <2>5. DOMAIN v6' = {"moveTo", "answer"}
    BY <2>1
  <2>6. QED
    BY <2>1, <2>4, <2>5 DEF DcInv
<1>2. CASE Dc!Delete
  <2>1. /\ v6 # None /\ v6' = [v6 EXCEPT !.answer = "deleted"] /\ v7' = v7
        /\ v1' = Dc!Without(v1, v4.column) /\ v4.column \in Dc!Range(v1)
    BY <1>2 DEF Dc!Delete, Dc!Deletable
  <2>2. v1' \in Seq(Columns)
    BY <2>1, DcWithout DEF DcInv
  <2>3. QED
    BY <2>1, <2>2 DEF DcInv
<1>3. CASE Dc!Refuse
  <2>1. PICK answer : v6' = [v6 EXCEPT !.answer = answer]
    BY <1>3 DEF Dc!Refuse
  <2>2. v1' = v1 /\ v7' = v7 /\ v6 # None
    BY <1>3 DEF Dc!Refuse
  <2>3. QED
    BY <2>1, <2>2 DEF DcInv
<1>4. CASE Dc!Deleted \/ Dc!NotDeleted
  BY <1>4 DEF DcInv, Dc!Deleted, Dc!NotDeleted
<1>5. CASE \E i, j \in DOMAIN v1 : Dc!AdminReorders(i, j)
  <2>1. PICK i \in DOMAIN v1, j \in DOMAIN v1 : v1' = Dc!ArrayMove(v1, i, j)
    BY <1>5 DEF Dc!AdminReorders
  <2>2. v6' = v6 /\ v7' = v7
    BY <1>5 DEF Dc!AdminReorders
  <2>3. QED
    BY <2>1, <2>2, DcArrayMove DEF DcInv
<1>6. CASE \E c \in Columns : Dc!AdminDeletes(c)
  <2>1. PICK c \in Dc!Range(v1) : v1' = Dc!Without(v1, c)
    BY <1>6 DEF Dc!AdminDeletes
  <2>2. v6' = v6 /\ v7' = v7
    BY <1>6 DEF Dc!AdminDeletes
  <2>3. QED
    BY <2>1, <2>2, DcWithout DEF DcInv
<1>7. CASE \E c \in Columns : Dc!AdminAdds(c)
  BY <1>7 DEF DcInv, Dc!AdminAdds
<1>8. CASE \/ Dc!CloseDialog \/ Dc!Reload \/ Dc!Count \/ UNCHANGED vars
           \/ \E c \in Columns : Dc!OpenDialog(c) \/ Dc!SetChoice(c) \/ Dc!IssuesMove(c)
  <2>1. v1' = v1 /\ v6' = v6 /\ v7' = v7
    BY <1>8 DEF Dc!CloseDialog, Dc!Reload, Dc!Count, Dc!OpenDialog, Dc!SetChoice, Dc!IssuesMove, vars
  <2>2. QED
    BY <2>1 DEF DcInv
<1>9. QED
  BY <1>1, <1>2, <1>3, <1>4, <1>5, <1>6, <1>7, <1>8 DEF Next, Dc!Next

LEMMA DcMoves ==
  ASSUME DcInv, Dc!Next
  PROVE  Dc!MovesAreShown
<1>1. SUFFICES ASSUME NEW c \in v2, v6 # None, c \notin v2', Dc!Range(v1') # Dc!Range(v1)
               PROVE  v7.shown \/ v7.counting
  BY DEF Dc!MovesAreShown
<1>2. Dc!Delete
  BY <1>1 DEF Dc!Next, Dc!CloseDialog, Dc!Submit, Dc!Refuse, Dc!Deleted, Dc!NotDeleted, Dc!Reload, Dc!Count,
              Dc!AdminReorders, Dc!OpenDialog, Dc!SetChoice, Dc!AdminDeletes, Dc!AdminAdds, Dc!IssuesMove
<1>3. v4.column \in v2
  BY <1>1, <1>2 DEF Dc!Delete
<1>4. v6.moveTo \in Dc!Range(v1)
  BY <1>2, <1>3 DEF Dc!Delete, Dc!Deletable
<1>5. v6.moveTo \in Columns
  BY <1>4 DEF DcInv, Dc!Range
<1>6. v6.moveTo # None
  BY <1>5, PagesAssumption DEF PagesAssumption, Dc!DeleteColumnAssumption
<1>7. QED
  BY <1>1, <1>6 DEF DcInv

(* The dialogs do what they show: a sprint is completed only by the dialog that was asked for,
   with a target it offers, and issues move out of a deleted column only where it was shown,
   whatever teammates do to sprints and columns meanwhile. *)
THEOREM DialogsAlwaysDoAsShown == Spec => DialogsDoAsShown
<1> DEFINE I == /\ shown = "boardPage" => BpInv
                /\ shown = "deleteColumn" => DcInv
           Shown == /\ shown = "boardPage" => Bp!OnlyForAskedSprint /\ Bp!SendsAnOption
                    /\ shown = "deleteColumn" => Dc!MovesAreShown
<1>1. Init => I
  BY BpInit, DcInit DEF Init
<1>2. I /\ [Next]_vars => I'
  <2>1. [Next]_vars => shown' = shown
    BY DEF Next, vars
  <2>2. QED
    BY <2>1, BpStep, DcStep
<1>3. I /\ [Next]_vars => [Shown]_vars
  <2>1. SUFFICES ASSUME I, Next PROVE Shown
    OBVIOUS
  <2>2. shown = "boardPage" => Bp!Next
    BY <2>1 DEF Next
  <2>3. shown = "deleteColumn" => Dc!Next
    BY <2>1 DEF Next
  <2>4. QED
    BY <2>1, <2>2, <2>3, BpAsked, BpSends, DcMoves
<1>4. QED
  BY <1>1, <1>2, <1>3, PTL DEF Spec, DialogsDoAsShown

-----------------------------------------------------------------------------
(* Induction, from the well-founded order of the natural numbers: the theorems of the library
   that take a predicate cannot be used. *)
LEMMA LeastNatural ==
  ASSUME NEW T \in SUBSET Nat, T # {}
  PROVE  \E x \in T : \A y \in T : x <= y
<1> DEFINE R == OpToRel(<, Nat)
<1>1. IsWellFoundedOn(R, Nat)
  BY NatLessThanWellFounded, Zenon DEF R
<1> HIDE DEF R
<1>2. PICK x \in T : \A y \in T : ~ (<<y, x>> \in R)
  BY <1>1, WFMin
<1>3. \A y \in T : y < x => <<y, x>> \in R
  <2>1. R = {p \in Nat \X Nat : p[1] < p[2]}
    BY DEF R, OpToRel
  <2>2. QED
    BY <2>1
<1>4. \A y \in T : x <= y
  <2>1. SUFFICES ASSUME NEW y \in T PROVE x <= y
    OBVIOUS
  <2>2. x \in Nat /\ y \in Nat /\ ~(y < x)
    BY <1>2, <1>3
  <2>3. QED
    BY <2>2
<1>5. QED
  BY <1>4

(* A function that repeats its value is constant. *)
LEMMA Repeats ==
  ASSUME NEW n \in Nat, NEW data, NEW f,
         f = [m \in {0} \cup 1..n |-> IF m = 0 THEN data ELSE f[m - 1]]
  PROVE  f[n] = data
<1> DEFINE T == {k \in 0..n : f[k] # data}
<1>1. SUFFICES ASSUME T # {} PROVE FALSE
  OBVIOUS
<1>a. T \in SUBSET Nat
  OBVIOUS
<1>b. \A k : k \in T <=> k \in 0..n /\ f[k] # data
  OBVIOUS
<1> HIDE DEF T
<1>2. PICK x \in T : \A y \in T : x <= y
  BY <1>1, <1>a, LeastNatural
<1>3. x \in 0..n /\ f[x] # data
  BY <1>2, <1>b
<1>4. x # 0
  BY <1>3
<1>5. f[x] = f[x - 1] /\ x - 1 \in 0..n
  BY <1>3, <1>4
<1>6. x - 1 \in T
  BY <1>b, <1>3, <1>5
<1>7. QED
  BY <1>2, <1>3, <1>6

(* The length of a sequence of unknown elements. *)
LEMMA LenIs ==
  ASSUME NEW n \in Nat, NEW s, s = [i \in 1..n |-> s[i]]
  PROVE  Len(s) = n
<1>1. s \in Seq({s[i] : i \in 1..n})
  OBVIOUS
<1>2. QED
  BY <1>1

-----------------------------------------------------------------------------
(* The board (Board) *)

(* Without a move in flight the overlay shows the data. *)
LEMMA BdNoOverlay ==
  ASSUME NEW n \in Nat, NEW data, NEW moves, moves = [i \in 1..n |-> moves[i]],
         \A m \in 1..n : moves[m].at \notin Bd!Pending
  PROVE  Bd!Overlaid(data, moves) = data
<1> DEFINE F(f) == [m \in {0} \cup 1..n |-> IF m = 0 THEN data ELSE f[m - 1]]
           upTo == CHOOSE f : f = [m \in {0} \cup DOMAIN moves |->
             IF m = 0 THEN data
             ELSE IF moves[m].at \in Bd!Pending THEN Bd!ApplyMove(f[m - 1], moves[m]) ELSE f[m - 1]]
           same == [m \in {0} \cup 1..n |-> data]
<1>1. DOMAIN moves = 1..n /\ Len(moves) = n
  BY LenIs
<1>2. Bd!Overlaid(data, moves) = upTo[n]
  BY <1>1 DEF Bd!Overlaid
<1>3. \A f : [m \in {0} \cup DOMAIN moves |->
                IF m = 0 THEN data
                ELSE IF moves[m].at \in Bd!Pending THEN Bd!ApplyMove(f[m - 1], moves[m]) ELSE f[m - 1]]
             = F(f)
  BY <1>1
<1>4. same = F(same)
  OBVIOUS
<1> HIDE DEF same, F
<1>5. upTo = F(upTo)
  BY <1>3, <1>4
<1> HIDE DEF upTo
<1>6. upTo[n] = data
  BY <1>5, Repeats DEF F
<1>7. QED
  BY <1>2, <1>6

(* Something that will have the board fetched again: a move not yet answered, an event not yet
   acted on, or whose refresh has joined a fetch that was under way and will run again. *)
Unanswered(moves) == \E m \in DOMAIN moves : moves[m].at \in {"sent", "committed"}
BdAwaited(events) ==
  \E w \in DOMAIN events : events[w].at = "event" \/ (events[w].at = "joined" /\ events[w].ran = TRUE)
BdRuns(events) == \E w \in DOMAIN events : events[w].at = "first" /\ events[w].ran = TRUE
BdOwes == Unanswered(v4) \/ BdAwaited(v5)

BdEvent == [at : {"none", "event"}] \cup [at : {"joined", "first"}, ran : BOOLEAN]

Numbered(moves) ==
  /\ \E n \in Nat : moves = [m \in 1..n |-> moves[m]]
  /\ \A m \in DOMAIN moves : "at" \in DOMAIN moves[m]

(* A fetch brings, and without one the cache has, what the server holds, unless another fetch
   is to come. *)
BdInv ==
  /\ Numbered(v4)
  /\ v5 \in [DOMAIN v5 -> BdEvent]
  /\ v3.at = "answered" => v3.brings = v1 \/ BdOwes
  /\ v2 = v1 \/ v3 # Bd!NoFetch \/ BdOwes \/ BdRuns(v5)

LEMMA BdInit == Bd!Init => BdInv
<1>1. SUFFICES ASSUME Bd!Init PROVE BdInv
  OBVIOUS
<1>2. PICK scene \in BoardScenes : /\ v4 = [m \in 1..scene.moves |-> [at |-> "unused"]]
                                   /\ v5 = [w \in scene.strangers |-> [at |-> "none"]]
  BY <1>1 DEF Bd!Init
<1>3. scene.moves \in Nat
  BY PagesAssumption DEF PagesAssumption, Bd!BoardAssumption
<1>4. v4 = [m \in 1..scene.moves |-> v4[m]] /\ v5 \in [DOMAIN v5 -> BdEvent]
  BY <1>2 DEF BdEvent
<1>5. v2 = v1 /\ v3.at = "none"
  BY <1>1 DEF Bd!Init, Bd!NoFetch
<1>6. Numbered(v4)
  BY <1>2, <1>3, <1>4 DEF Numbered
<1>7. QED
  BY <1>4, <1>5, <1>6 DEF BdInv

(* A step that leaves or makes an answer outstanding. *)
LEMMA BdReleased ==
  ASSUME BdInv
  PROVE  /\ DOMAIN Bd!ReleasedMoves = DOMAIN v4
         /\ Unanswered(v4) => Unanswered(Bd!ReleasedMoves)
         /\ DOMAIN Bd!Released = DOMAIN v5
         /\ BdAwaited(v5) => BdAwaited(Bd!Released) \/ BdRuns(Bd!Released)
<1>1. DOMAIN Bd!ReleasedMoves = DOMAIN v4 /\ DOMAIN Bd!Released = DOMAIN v5
  BY DEF Bd!ReleasedMoves, Bd!Moves, Bd!Released
<1>2. \A m \in DOMAIN v4 : v4[m].at # "refetching" => Bd!ReleasedMoves[m] = v4[m]
  BY DEF Bd!ReleasedMoves, Bd!Moves
<1>3. Unanswered(v4) => Unanswered(Bd!ReleasedMoves)
  <2>1. SUFFICES ASSUME NEW m \in DOMAIN v4, v4[m].at \in {"sent", "committed"}
                 PROVE  Unanswered(Bd!ReleasedMoves)
    BY DEF Unanswered
  <2>2. Bd!ReleasedMoves[m] = v4[m]
    BY <1>2, <2>1
  <2>3. QED
    BY <1>1, <2>1, <2>2 DEF Unanswered
<1>4. ASSUME NEW w \in DOMAIN v5, v5[w].at = "event" PROVE BdAwaited(Bd!Released)
  <2>1. Bd!Released[w] = v5[w]
    BY <1>4 DEF Bd!Released
  <2>2. QED
    BY <1>1, <1>4, <2>1 DEF BdAwaited
<1>5. ASSUME NEW w \in DOMAIN v5, v5[w].at = "joined", v5[w].ran = TRUE PROVE BdRuns(Bd!Released)
  <2>1. Bd!Released[w] = [v5[w] EXCEPT !.at = "first"]
    BY <1>5 DEF Bd!Released
  <2>2. v5[w] \in [at : {"joined", "first"}, ran : BOOLEAN]
    BY <1>5 DEF BdInv, BdEvent
  <2>3. Bd!Released[w].at = "first" /\ Bd!Released[w].ran = TRUE
    BY <1>5, <2>1, <2>2
  <2>4. QED
    BY <1>1, <2>3 DEF BdRuns
<1>6. QED
  BY <1>1, <1>3, <1>4, <1>5 DEF BdAwaited

LEMMA BdReleasedType ==
  ASSUME BdInv
  PROVE  /\ Numbered(Bd!ReleasedMoves)
         /\ Bd!Released \in [DOMAIN v5 -> BdEvent]
<1>1. Numbered(Bd!ReleasedMoves)
  <2>1. PICK n \in Nat : v4 = [m \in 1..n |-> v4[m]]
    BY DEF BdInv, Numbered
  <2>2. Bd!ReleasedMoves = [m \in 1..n |-> Bd!ReleasedMoves[m]]
    BY <2>1 DEF Bd!ReleasedMoves, Bd!Moves
  <2>3. ASSUME NEW m \in 1..n PROVE "at" \in DOMAIN Bd!ReleasedMoves[m]
    <3>1. m \in DOMAIN v4 /\ "at" \in DOMAIN v4[m]
      BY <2>1 DEF BdInv, Numbered
    <3>2. Bd!ReleasedMoves[m] = v4[m] \/ Bd!ReleasedMoves[m] = [v4[m] EXCEPT !.at = "refetched"]
      BY <3>1 DEF Bd!ReleasedMoves, Bd!Moves
    <3>3. QED
      BY <3>1, <3>2
  <2>4. QED
    BY <2>2, <2>3 DEF Numbered
<1>2. ASSUME NEW w \in DOMAIN v5 PROVE Bd!Released[w] \in BdEvent
  <2>1. CASE v5[w].at = "joined"
    <3>1. v5[w] \in [at : {"joined", "first"}, ran : BOOLEAN]
      BY <2>1 DEF BdInv, BdEvent
    <3>2. Bd!Released[w] = [v5[w] EXCEPT !.at = "first"]
      BY <2>1 DEF Bd!Released
    <3>3. QED
      BY <3>1, <3>2 DEF BdEvent
  <2>2. CASE v5[w].at # "joined"
    <3>1. Bd!Released[w] = v5[w]
      BY <2>2 DEF Bd!Released
    <3>2. QED
      BY <3>1 DEF BdInv
  <2>3. QED
    BY <2>1, <2>2
<1>3. Bd!Released = [w \in DOMAIN v5 |-> Bd!Released[w]]
  BY DEF Bd!Released
<1>4. QED
  BY <1>1, <1>2, <1>3

(* A change of one move. *)
LEMMA MoveChanged ==
  ASSUME NEW moves, Numbered(moves), NEW k \in DOMAIN moves, NEW new, "at" \in DOMAIN new
  PROVE  /\ Numbered([moves EXCEPT ![k] = new])
         /\ DOMAIN [moves EXCEPT ![k] = new] = DOMAIN moves
         /\ [moves EXCEPT ![k] = new][k] = new
         /\ \A m \in DOMAIN moves : m # k => [moves EXCEPT ![k] = new][m] = moves[m]
<1> DEFINE after == [moves EXCEPT ![k] = new]
<1>1. PICK n \in Nat : moves = [m \in 1..n |-> moves[m]]
  BY DEF Numbered
<1>2. k \in 1..n /\ DOMAIN moves = 1..n
  BY <1>1
<1>3. /\ after = [m \in 1..n |-> after[m]]
      /\ DOMAIN after = 1..n
      /\ after[k] = new
      /\ \A m \in 1..n : m # k => after[m] = moves[m]
  BY <1>1, <1>2
<1> HIDE DEF after
<1>4. \A m \in 1..n : "at" \in DOMAIN after[m]
  BY <1>2, <1>3 DEF Numbered
<1>5. Numbered(after)
  BY <1>3, <1>4 DEF Numbered
<1>6. QED
  BY <1>2, <1>3, <1>5 DEF after

(* A drop that sends a move owes its answer. *)
LEMMA BdSends ==
  ASSUME BdInv, NEW k \in DOMAIN v4, NEW new, "at" \in DOMAIN new, new.at = "sent",
         v4' = [Bd!ReleasedMoves EXCEPT ![k] = new], v5' = Bd!Released
  PROVE  BdInv'
<1>1. Numbered(v4') /\ v4'[k] = new /\ k \in DOMAIN v4'
  BY BdReleased, BdReleasedType, MoveChanged
<1>2. Unanswered(v4')
  BY <1>1 DEF Unanswered
<1>3. v5' \in [DOMAIN v5' -> BdEvent]
  BY BdReleasedType, BdReleased
<1>4. QED
  BY <1>1, <1>2, <1>3 DEF BdInv, BdOwes

(* A fetch that begins owes its answer. *)
LEMMA BdFetches ==
  ASSUME BdInv, v3' = Bd!Started, Numbered(v4'), v5' \in [DOMAIN v5' -> BdEvent]
  PROVE  BdInv'
<1>1. v3'.at = "sent" /\ v3' # Bd!NoFetch
  <2>1. Bd!Started.at = "sent" /\ Bd!NoFetch.at = "none"
    BY DEF Bd!Started, Bd!NoFetch
  <2>2. QED
    BY <2>1
<1>2. QED
  BY <1>1 DEF BdInv

LEMMA BdStep ==
  ASSUME BdInv, shown = "board", [Next]_vars
  PROVE  BdInv'
<1>0. Numbered(v4) /\ v5 \in [DOMAIN v5 -> BdEvent]
  BY DEF BdInv
<1>1. CASE /\ v1' = v1 /\ v2' = v2 /\ v3' = v3 /\ v4' = v4 /\ v5' = v5
  <2>1. BdOwes' = BdOwes
    BY <1>1 DEF BdOwes
  <2>2. QED
    BY <1>1, <2>1 DEF BdInv
<1>2. ASSUME NEW s \in Statuses, NEW i, Bd!DragEnd(s, i) PROVE BdInv'
  <2>1. CASE \E m \in Bd!Moves : \E card, target : Bd!MoveIssue(m, card, target)
    <3>0. PICK k \in Bd!Moves : \E card, target : Bd!MoveIssue(k, card, target)
      BY <2>1
    <3>1. PICK card, target : Bd!MoveIssue(k, card, target)
      BY <3>0
    <3> DEFINE new == [at |-> "sent", card |-> card, status |-> target.status, prev |-> target.prev,
                       next |-> target.next, from |-> Bd!Shown[card],
                       sends |-> IF target.status = Bd!Shown[card].status THEN Nobody ELSE target.status]
    <3>2. v4' = [Bd!ReleasedMoves EXCEPT ![k] = new] /\ v5' = Bd!Released
      BY <3>1 DEF Bd!MoveIssue
    <3>3. "at" \in DOMAIN new /\ new.at = "sent"
      OBVIOUS
    <3> HIDE DEF new
    <3>4. QED
      BY <3>2, <3>3, BdSends DEF Bd!Moves
  <2>2. CASE UNCHANGED <<v2, v3, v4, v5, v8>>
    BY <1>1, <1>2, <2>2 DEF Bd!DragEnd
  <2>3. QED
    BY <1>2, <2>1, <2>2 DEF Bd!DragEnd
<1>3. ASSUME NEW k \in Bd!Moves, Bd!Commit(k) PROVE BdInv'
  <2> DEFINE new == [v4[k] EXCEPT !.at = "committed"]
  <2>1. v4' = [v4 EXCEPT ![k] = new] /\ v5' = v5 /\ k \in DOMAIN v4
    BY <1>3 DEF Bd!Commit, Bd!Moves
  <2>2. "at" \in DOMAIN new /\ new.at = "committed"
    BY <1>0, <2>1 DEF Numbered
  <2> HIDE DEF new
  <2>3. Numbered(v4') /\ v4'[k] = new /\ k \in DOMAIN v4'
    BY <1>0, <2>1, <2>2, MoveChanged
  <2>4. Unanswered(v4')
    BY <2>2, <2>3 DEF Unanswered
  <2>5. QED
    BY <1>0, <2>1, <2>3, <2>4 DEF BdInv, BdOwes
<1>4. ASSUME NEW k \in Bd!Moves, Bd!Succeed(k) \/ Bd!Fail(k) PROVE BdInv'
  <2>1. v3' = Bd!Started /\ v5' = Bd!Released /\ k \in DOMAIN Bd!ReleasedMoves
    BY <1>4, BdReleased DEF Bd!Succeed, Bd!Fail, Bd!Moves
  <2>2. Numbered(v4')
    <3>1. CASE Bd!Succeed(k)
      <4> DEFINE new == [Bd!ReleasedMoves[k] EXCEPT !.at = "refetching"]
      <4>1. v4' = [Bd!ReleasedMoves EXCEPT ![k] = new]
        BY <3>1 DEF Bd!Succeed
      <4>2. "at" \in DOMAIN new
        BY <2>1, BdReleasedType DEF Numbered
      <4> HIDE DEF new
      <4>3. QED
        BY <2>1, <4>1, <4>2, BdReleasedType, MoveChanged
    <3>2. CASE Bd!Fail(k)
      <4>1. v4' = [Bd!ReleasedMoves EXCEPT ![k] = [at |-> "done"]]
        BY <3>2 DEF Bd!Fail
      <4>2. QED
        BY <2>1, <4>1, BdReleasedType, MoveChanged
    <3>3. QED
      BY <1>4, <3>1, <3>2
  <2>3. v5' \in [DOMAIN v5' -> BdEvent]
    BY <2>1, BdReleasedType, BdReleased
  <2>4. QED
    BY <2>1, <2>2, <2>3, BdFetches
<1>5. ASSUME NEW k \in Bd!Moves, Bd!Settle(k) PROVE BdInv'
  <2>1. /\ v4' = [v4 EXCEPT ![k] = [at |-> "done"]] /\ k \in DOMAIN v4 /\ v4[k].at = "refetched"
        /\ v1' = v1 /\ v2' = v2 /\ v3' = v3 /\ v5' = v5
    BY <1>5 DEF Bd!Settle, Bd!Moves
  <2>2. /\ Numbered(v4') /\ DOMAIN v4' = DOMAIN v4
        /\ \A m \in DOMAIN v4 : m # k => v4'[m] = v4[m]
    BY <1>0, <2>1, MoveChanged
  <2>3. Unanswered(v4) => Unanswered(v4')
    BY <2>1, <2>2 DEF Unanswered
  <2>4. QED
    BY <2>1, <2>2, <2>3 DEF BdInv, BdOwes
<1>6. ASSUME NEW w \in DOMAIN v5, Bd!ForeignWrite(w) PROVE BdInv'
  <2>1. v4' = v4 /\ v5' = [v5 EXCEPT ![w] = [at |-> "event"]]
    BY <1>6 DEF Bd!ForeignWrite
  <2>2. v5' \in [DOMAIN v5' -> BdEvent] /\ w \in DOMAIN v5' /\ v5'[w].at = "event"
    BY <1>0, <2>1 DEF BdEvent
  <2>3. BdAwaited(v5')
    BY <2>2 DEF BdAwaited
  <2>4. QED
    BY <1>0, <2>1, <2>2, <2>3 DEF BdInv, BdOwes
<1>7. ASSUME NEW w \in DOMAIN v5, Bd!Refresh(w) PROVE BdInv'
  <2> DEFINE runs == v3 # Bd!NoFetch
             new == [at |-> "joined", ran |-> runs]
  <2>1. v5' = [v5 EXCEPT ![w] = new] /\ v4' = v4 /\ new \in BdEvent /\ new.at = "joined" /\ new.ran = runs
    BY <1>7 DEF Bd!Refresh, BdEvent
  <2> HIDE DEF new
  <2>2. v5' \in [DOMAIN v5' -> BdEvent] /\ w \in DOMAIN v5' /\ v5'[w] = new
    BY <1>0, <2>1
  <2>3. CASE v3 = Bd!NoFetch
    <3>1. v3' = Bd!Started
      BY <1>7, <2>3 DEF Bd!Refresh
    <3>2. QED
      BY <1>0, <2>1, <2>2, <3>1, BdFetches
  <2>4. CASE v3 # Bd!NoFetch
    <3>1. v5'[w].ran = TRUE /\ v5'[w].at = "joined"
      BY <2>1, <2>2, <2>4
    <3>2. BdAwaited(v5')
      BY <2>2, <3>1 DEF BdAwaited
    <3>3. QED
      BY <1>0, <2>1, <2>2, <3>2 DEF BdInv, BdOwes
  <2>5. QED
    BY <2>3, <2>4
<1>8. ASSUME NEW w \in DOMAIN v5, Bd!RefreshAgain(w) PROVE BdInv'
  <2>1. /\ v5[w].at = "first" /\ v5' = [v5 EXCEPT ![w] = [at |-> "none"]] /\ v4' = v4
        /\ v1' = v1 /\ v2' = v2
        /\ v3' = IF v5[w].ran /\ v3 = Bd!NoFetch THEN Bd!Started ELSE v3
    BY <1>8 DEF Bd!RefreshAgain
  <2>2. /\ v5' \in [DOMAIN v5' -> BdEvent] /\ DOMAIN v5' = DOMAIN v5
        /\ \A x \in DOMAIN v5 : x # w => v5'[x] = v5[x]
    BY <1>0, <2>1 DEF BdEvent
  <2>3. CASE v5[w].ran = TRUE /\ v3 = Bd!NoFetch
    <3>1. v3' = Bd!Started
      BY <2>1, <2>3
    <3>2. QED
      BY <1>0, <2>1, <2>2, <3>1, BdFetches
  <2>4. CASE ~(v5[w].ran = TRUE /\ v3 = Bd!NoFetch)
    <3>1. v5[w].ran \in BOOLEAN
      BY <1>0, <2>1 DEF BdEvent
    <3>2. v3' = v3
      BY <2>1, <2>4, <3>1
    <3>3. BdAwaited(v5) => BdAwaited(v5')
      BY <2>1, <2>2 DEF BdAwaited
    <3>4. BdRuns(v5) => BdRuns(v5') \/ v5[w].ran = TRUE
      BY <2>1, <2>2 DEF BdRuns
    <3>5. QED
      BY <2>1, <2>2, <2>4, <3>2, <3>3, <3>4 DEF BdInv, BdOwes
  <2>5. QED
    BY <2>3, <2>4
<1>9. CASE Bd!Refocus
  BY <1>0, <1>9, BdFetches DEF Bd!Refocus
<1>10. CASE Bd!Serve
  <2>1. v3' = [at |-> "answered", brings |-> v1] /\ v1' = v1 /\ v4' = v4 /\ v5' = v5
    BY <1>10 DEF Bd!Serve
  <2>2. v3'.brings = v1' /\ v3'.at = "answered" /\ Bd!NoFetch.at = "none"
    BY <2>1 DEF Bd!NoFetch
  <2>3. v3' # Bd!NoFetch
    BY <2>2
  <2>4. QED
    BY <1>0, <2>1, <2>2, <2>3 DEF BdInv
<1>11. CASE Bd!Arrive
  <2>1. /\ v3.at = "answered" /\ v2' = v3.brings /\ v3' = Bd!NoFetch /\ v1' = v1
        /\ v4' = Bd!ReleasedMoves /\ v5' = Bd!Released
    BY <1>11 DEF Bd!Arrive
  <2>2. v2' = v1' \/ Unanswered(v4') \/ BdAwaited(v5') \/ BdRuns(v5')
    BY <2>1, BdReleased DEF BdInv, BdOwes
  <2>3. v3'.at # "answered"
    BY <2>1 DEF Bd!NoFetch
  <2>4. Numbered(v4') /\ v5' \in [DOMAIN v5' -> BdEvent]
    BY <2>1, BdReleasedType, BdReleased
  <2>5. QED
    BY <2>2, <2>3, <2>4 DEF BdInv, BdOwes
<1>12. CASE UNCHANGED vars \/ Bd!DragCancel \/ \E c \in DOMAIN v2 : Bd!DragStart(c)
  BY <1>1, <1>12 DEF vars, Bd!DragCancel, Bd!DragStart
<1>13. QED
  BY <1>2, <1>3, <1>4, <1>5, <1>6, <1>7, <1>8, <1>9, <1>10, <1>11, <1>12 DEF Next, Bd!Next

(* With nothing under way nothing is owed, and nothing is laid over the cache. *)
LEMMA BdSettled ==
  ASSUME BdInv
  PROVE  Bd!SettledIsServer
<1>1. SUFFICES ASSUME Bd!Quiet PROVE Bd!Shown = v1
  BY DEF Bd!SettledIsServer
<1>2. PICK n \in Nat : v4 = [m \in 1..n |-> v4[m]]
  BY DEF BdInv, Numbered
<1>3. \A m \in 1..n : v4[m].at \notin Bd!Pending
  BY <1>1, <1>2 DEF Bd!Quiet, Bd!InFlight, Bd!Moves
<1>4. Bd!Shown = v2
  BY <1>2, <1>3, BdNoOverlay DEF Bd!Shown
<1>5. ~Unanswered(v4)
  BY <1>2, <1>3 DEF Unanswered, Bd!Pending
<1>6. ~BdAwaited(v5) /\ ~BdRuns(v5)
  BY <1>1 DEF Bd!Quiet, BdAwaited, BdRuns
<1>7. v3 = Bd!NoFetch
  BY <1>1 DEF Bd!Quiet
<1>8. QED
  BY <1>4, <1>5, <1>6, <1>7 DEF BdInv, BdOwes

-----------------------------------------------------------------------------
(* The backlog (Backlog) *)

(* Without a move under way the replay leaves the lists as they are. *)
LEMMA BlNoReplay ==
  ASSUME NEW n \in Nat, NEW lists, NEW moves, moves = [i \in 1..n |-> moves[i]],
         \A m \in 1..n : moves[m].at \notin Bl!UnderWay
  PROVE  Bl!ApplyPendingMoves(lists, moves) = lists
<1> DEFINE F(f) == [m \in {0} \cup 1..n |-> IF m = 0 THEN lists ELSE f[m - 1]]
           upTo == CHOOSE f : f = [m \in {0} \cup DOMAIN moves |->
             IF m = 0 THEN lists
             ELSE IF moves[m].at \in Bl!UnderWay THEN Bl!Replay(f[m - 1], moves[m]) ELSE f[m - 1]]
           same == [m \in {0} \cup 1..n |-> lists]
<1>1. DOMAIN moves = 1..n /\ Len(moves) = n
  BY LenIs
<1>2. Bl!ApplyPendingMoves(lists, moves) = upTo[n]
  BY <1>1 DEF Bl!ApplyPendingMoves
<1>3. \A f : [m \in {0} \cup DOMAIN moves |->
                IF m = 0 THEN lists
                ELSE IF moves[m].at \in Bl!UnderWay THEN Bl!Replay(f[m - 1], moves[m]) ELSE f[m - 1]]
             = F(f)
  BY <1>1
<1>4. same = F(same)
  OBVIOUS
<1> HIDE DEF same, F
<1>5. upTo = F(upTo)
  BY <1>3, <1>4
<1> HIDE DEF upTo
<1>6. upTo[n] = lists
  BY <1>5, Repeats DEF F
<1>7. QED
  BY <1>2, <1>6

(* What will have the backlog fetched again: an event, or a move not yet answered. *)
BlOwes == v5 = TRUE \/ Unanswered(v6)

(* A fetch brings, and without one the page has, what the server holds, unless another fetch
   is to come. *)
BlInv ==
  /\ Numbered(v6)
  /\ v3.at = "answered" => v3.brings = v1 \/ BlOwes
  /\ v2 = v1 \/ v3 # Bl!NoFetch \/ BlOwes

LEMMA BlInit == Bl!Init => BlInv
<1>1. SUFFICES ASSUME Bl!Init PROVE BlInv
  OBVIOUS
<1>2. PICK scene \in BacklogScenes : v6 = [m \in 1..scene.moves |-> [at |-> "unused"]]
  BY <1>1 DEF Bl!Init
<1>3. scene.moves \in Nat
  BY PagesAssumption DEF PagesAssumption, Bl!BacklogAssumption
<1>4. Numbered(v6)
  BY <1>2, <1>3 DEF Numbered
<1>5. v2 = v1 /\ v3.at = "none"
  BY <1>1 DEF Bl!Init, Bl!NoFetch
<1>6. QED
  BY <1>4, <1>5 DEF BlInv

LEMMA BlReleased ==
  ASSUME BlInv
  PROVE  /\ DOMAIN Bl!ReleasedMoves = DOMAIN v6
         /\ Unanswered(v6) => Unanswered(Bl!ReleasedMoves)
         /\ Numbered(Bl!ReleasedMoves)
<1>1. DOMAIN Bl!ReleasedMoves = DOMAIN v6
  BY DEF Bl!ReleasedMoves, Bl!Moves
<1>2. \A m \in DOMAIN v6 : v6[m].at # "refetching" => Bl!ReleasedMoves[m] = v6[m]
  BY DEF Bl!ReleasedMoves, Bl!Moves
<1>3. Unanswered(v6) => Unanswered(Bl!ReleasedMoves)
  <2>1. SUFFICES ASSUME NEW m \in DOMAIN v6, v6[m].at \in {"sent", "committed"}
                 PROVE  Unanswered(Bl!ReleasedMoves)
    BY DEF Unanswered
  <2>2. Bl!ReleasedMoves[m] = v6[m]
    BY <1>2, <2>1
  <2>3. QED
    BY <1>1, <2>1, <2>2 DEF Unanswered
<1>4. Numbered(Bl!ReleasedMoves)
  <2>1. PICK n \in Nat : v6 = [m \in 1..n |-> v6[m]]
    BY DEF BlInv, Numbered
  <2>2. Bl!ReleasedMoves = [m \in 1..n |-> Bl!ReleasedMoves[m]]
    BY <2>1 DEF Bl!ReleasedMoves, Bl!Moves
  <2>3. ASSUME NEW m \in 1..n PROVE "at" \in DOMAIN Bl!ReleasedMoves[m]
    <3>1. m \in DOMAIN v6 /\ "at" \in DOMAIN v6[m]
      BY <2>1 DEF BlInv, Numbered
    <3>2. Bl!ReleasedMoves[m] = v6[m] \/ Bl!ReleasedMoves[m] = [v6[m] EXCEPT !.at = "refetched"]
      BY <3>1 DEF Bl!ReleasedMoves, Bl!Moves
    <3>3. QED
      BY <3>1, <3>2
  <2>4. QED
    BY <2>2, <2>3 DEF Numbered
<1>5. QED
  BY <1>1, <1>3, <1>4

LEMMA BlStep ==
  ASSUME BlInv, shown = "backlog", [Next]_vars
  PROVE  BlInv'
<1>0. Numbered(v6) /\ Bl!Started.at = "sent" /\ Bl!NoFetch.at = "none"
  BY DEF BlInv, Bl!Started, Bl!NoFetch
<1>1. CASE v1' = v1 /\ v2' = v2 /\ v3' = v3 /\ v5' = v5 /\ v6' = v6
  <2>1. BlOwes' = BlOwes
    BY <1>1 DEF BlOwes
  <2>2. QED
    BY <1>1, <2>1 DEF BlInv
<1>2. CASE Bl!Drag
  <2>1. CASE v6' = v6
    BY <1>1, <1>2, <2>1 DEF Bl!Drag, Bl!DragOver, Bl!DragEnd, Bl!Cancelled
  <2>2. CASE v6' # v6
    <3>1. PICK to, above, below : Bl!HandleDrop(to, above, below)
      BY <1>2, <2>2 DEF Bl!Drag, Bl!DragOver, Bl!DragEnd, Bl!Cancelled
    <3>2. PICK k \in Bl!Moves : \E found, from :
                 v6' = [v6 EXCEPT ![k] =
                   [at |-> "sent", issue |-> v9.issue, to |-> to, prev |-> found.prev, next |-> found.next,
                    sends |-> IF from = to THEN Nobody ELSE Bl!ContainerSprintId(to)]]
      BY <2>2, <3>1 DEF Bl!HandleDrop
    <3>a. PICK found, from :
                 v6' = [v6 EXCEPT ![k] =
                   [at |-> "sent", issue |-> v9.issue, to |-> to, prev |-> found.prev, next |-> found.next,
                    sends |-> IF from = to THEN Nobody ELSE Bl!ContainerSprintId(to)]]
      BY <3>2
    <3> DEFINE new == [at |-> "sent", issue |-> v9.issue, to |-> to, prev |-> found.prev, next |-> found.next,
                       sends |-> IF from = to THEN Nobody ELSE Bl!ContainerSprintId(to)]
    <3>3. "at" \in DOMAIN new /\ new.at = "sent" /\ k \in DOMAIN v6
      BY DEF Bl!Moves
    <3>4. v6' = [v6 EXCEPT ![k] = new]
      BY <3>a
    <3> HIDE DEF new
    <3>5. Numbered(v6') /\ v6'[k] = new /\ k \in DOMAIN v6'
      BY <1>0, <3>3, <3>4, MoveChanged
    <3>6. Unanswered(v6')
      BY <3>3, <3>5 DEF Unanswered
    <3>7. QED
      BY <3>5, <3>6 DEF BlInv, BlOwes
  <2>3. QED
    BY <2>1, <2>2
<1>3. ASSUME NEW k \in Bl!Moves, Bl!Commit(k) PROVE BlInv'
  <2> DEFINE new == [v6[k] EXCEPT !.at = "committed"]
  <2>1. v6' = [v6 EXCEPT ![k] = new] /\ k \in DOMAIN v6
    BY <1>3 DEF Bl!Commit, Bl!Moves
  <2>2. "at" \in DOMAIN new /\ new.at = "committed"
    BY <1>0, <2>1 DEF Numbered
  <2> HIDE DEF new
  <2>3. Numbered(v6') /\ v6'[k] = new /\ k \in DOMAIN v6'
    BY <1>0, <2>1, <2>2, MoveChanged
  <2>4. Unanswered(v6')
    BY <2>2, <2>3 DEF Unanswered
  <2>5. QED
    BY <2>3, <2>4 DEF BlInv, BlOwes
<1>4. ASSUME NEW k \in Bl!Moves, Bl!Succeed(k) \/ Bl!Fail(k) PROVE BlInv'
  <2>1. v3' = Bl!Started /\ k \in DOMAIN Bl!ReleasedMoves /\ Numbered(Bl!ReleasedMoves)
    BY <1>4, BlReleased DEF Bl!Succeed, Bl!Fail, Bl!Moves
  <2>2. Numbered(v6')
    <3>1. CASE Bl!Succeed(k)
      <4> DEFINE new == [Bl!ReleasedMoves[k] EXCEPT !.at = "refetching"]
      <4>1. v6' = [Bl!ReleasedMoves EXCEPT ![k] = new]
        BY <3>1 DEF Bl!Succeed
      <4>2. "at" \in DOMAIN new
        BY <2>1 DEF Numbered
      <4> HIDE DEF new
      <4>3. QED
        BY <2>1, <4>1, <4>2, MoveChanged
    <3>2. CASE Bl!Fail(k)
      <4>1. v6' = [Bl!ReleasedMoves EXCEPT ![k] = [at |-> "done"]]
        BY <3>2 DEF Bl!Fail
      <4>2. QED
        BY <2>1, <4>1, MoveChanged
    <3>3. QED
      BY <1>4, <3>1, <3>2
  <2>3. v3'.at = "sent" /\ v3' # Bl!NoFetch
    BY <1>0, <2>1
  <2>4. QED
    BY <2>2, <2>3 DEF BlInv
<1>5. ASSUME NEW k \in Bl!Moves, Bl!Settle(k) PROVE BlInv'
  <2>1. /\ v6' = [v6 EXCEPT ![k] = [at |-> "done"]] /\ k \in DOMAIN v6 /\ v6[k].at = "refetched"
        /\ v1' = v1 /\ v2' = v2 /\ v3' = v3 /\ v5' = v5
    BY <1>5 DEF Bl!Settle, Bl!Moves
  <2>2. /\ Numbered(v6') /\ DOMAIN v6' = DOMAIN v6
        /\ \A m \in DOMAIN v6 : m # k => v6'[m] = v6[m]
    BY <1>0, <2>1, MoveChanged
  <2>3. Unanswered(v6) => Unanswered(v6')
    BY <2>1, <2>2 DEF Unanswered
  <2>4. QED
    BY <2>1, <2>2, <2>3 DEF BlInv, BlOwes
<1>6. CASE Bl!ForeignWrite
  <2>1. v5' = TRUE /\ v6' = v6
    BY <1>6 DEF Bl!ForeignWrite
  <2>2. QED
    BY <1>0, <2>1 DEF BlInv, BlOwes
<1>7. CASE Bl!Refetch
  <2>1. v3' = Bl!Started /\ v6' = v6
    BY <1>7 DEF Bl!Refetch
  <2>2. v3'.at = "sent" /\ v3' # Bl!NoFetch
    BY <1>0, <2>1
  <2>3. QED
    BY <1>0, <2>1, <2>2 DEF BlInv
<1>8. CASE Bl!Serve
  <2>1. v3' = [at |-> "answered", brings |-> v1] /\ v1' = v1 /\ v6' = v6
    BY <1>8 DEF Bl!Serve
  <2>2. v3'.brings = v1' /\ v3'.at = "answered"
    BY <2>1
  <2>3. v3' # Bl!NoFetch
    BY <1>0, <2>2
  <2>4. QED
    BY <1>0, <2>1, <2>2, <2>3 DEF BlInv
<1>9. CASE Bl!Arrive
  <2>1. /\ v3.at = "answered" /\ v2' = v3.brings /\ v3' = Bl!NoFetch /\ v1' = v1
        /\ v6' = Bl!ReleasedMoves /\ v5' = v5
    BY <1>9 DEF Bl!Arrive
  <2>2. v2' = v1' \/ v5' = TRUE \/ Unanswered(v6')
    BY <2>1, BlReleased DEF BlInv, BlOwes
  <2>3. QED
    BY <1>0, <2>1, <2>2, BlReleased DEF BlInv, BlOwes
<1>10. CASE UNCHANGED vars \/ Bl!DragCancel \/ \E i \in Bl!Range(v2.order) : Bl!DragStart(i)
  BY <1>1, <1>10 DEF vars, Bl!DragCancel, Bl!Cancelled, Bl!DragStart
<1>11. QED
  BY <1>2, <1>3, <1>4, <1>5, <1>6, <1>7, <1>8, <1>9, <1>10 DEF Next, Bl!Next

LEMMA BlSettled ==
  ASSUME BlInv
  PROVE  Bl!ListsSettle
<1>1. SUFFICES ASSUME Bl!Quiet PROVE Bl!Containers = Bl!BuildContainers(v1)
  BY DEF Bl!ListsSettle
<1>2. PICK n \in Nat : v6 = [m \in 1..n |-> v6[m]]
  BY DEF BlInv, Numbered
<1>3. \A m \in 1..n : v6[m].at \notin Bl!UnderWay
  BY <1>1, <1>2 DEF Bl!Quiet, Bl!Moves
<1>4. Bl!Containers = Bl!BuildContainers(v2)
  BY <1>2, <1>3, BlNoReplay DEF Bl!Containers
<1>5. ~Unanswered(v6)
  BY <1>2, <1>3 DEF Unanswered, Bl!UnderWay
<1>6. v3 = Bl!NoFetch /\ ~(v5 = TRUE)
  BY <1>1 DEF Bl!Quiet
<1>7. v2 = v1
  BY <1>5, <1>6 DEF BlInv, BlOwes
<1>8. QED
  BY <1>4, <1>7

(* Once nothing is under way, the board and the backlog show what the server holds, whatever
   moves failed, lost their answer or crossed a teammate's: every step that puts something over
   the data, or leaves it behind the server, owes a fetch that begins after it. *)
THEOREM OptimismAlwaysSettles == Spec => []OptimismSettles
<1> DEFINE I == /\ shown = "board" => BdInv
                /\ shown = "backlog" => BlInv
<1>1. Init => I
  BY BdInit, BlInit DEF Init
<1>2. I /\ [Next]_vars => I'
  <2>1. [Next]_vars => shown' = shown
    BY DEF Next, vars
  <2>2. QED
    BY <2>1, BdStep, BlStep
<1>3. I => OptimismSettles
  BY BdSettled, BlSettled DEF OptimismSettles
<1>4. QED
  BY <1>1, <1>2, <1>3, PTL DEF Spec

-----------------------------------------------------------------------------
(* Cards stay where they are shown (Board) *)

(* The moves in flight, and the cards that none of them moves. *)
Flying(moves) == {m \in DOMAIN moves : moves[m].at \in Bd!Pending}
FreeOf(moves, c) == \A m \in Flying(moves) : moves[m].card # c

(* One move at a time, of a card there is. *)
MoveFields == {"at", "card", "status", "prev", "next", "from", "sends"}
OneMove(data, moves) ==
  /\ \A m, n \in Flying(moves) : m = n
  /\ \A m \in Flying(moves) : moves[m].card \in DOMAIN data /\ DOMAIN moves[m] = MoveFields

(* The status a card is shown in: that of the move in flight, else that of the data. *)
SeenIn(data, moves, c, s) ==
  \/ \E m \in Flying(moves) : moves[m].card = c /\ moves[m].status = s
  \/ FreeOf(moves, c) /\ data[c].status = s

(* With one move in flight, the overlay is that move, wherever it is among the others. *)
LEMMA BdOneOverlay ==
  ASSUME NEW n \in Nat, NEW data, NEW moves, moves = [i \in 1..n |-> moves[i]],
         NEW k \in 1..n, moves[k].at \in Bd!Pending,
         \A m \in 1..n : m # k => moves[m].at \notin Bd!Pending
  PROVE  Bd!Overlaid(data, moves) = Bd!ApplyMove(data, moves[k])
<1> DEFINE moved == Bd!ApplyMove(data, moves[k])
           F(f) == [m \in 0..n |-> IF m = 0 THEN data
                                   ELSE IF m = k THEN Bd!ApplyMove(f[m - 1], moves[m]) ELSE f[m - 1]]
           upTo == CHOOSE f : f = [m \in {0} \cup DOMAIN moves |->
             IF m = 0 THEN data
             ELSE IF moves[m].at \in Bd!Pending THEN Bd!ApplyMove(f[m - 1], moves[m]) ELSE f[m - 1]]
           steps == [m \in 0..n |-> IF m < k THEN data ELSE moved]
           T == {m \in 0..n : upTo[m] # steps[m]}
<1>1. DOMAIN moves = 1..n /\ Len(moves) = n /\ {0} \cup 1..n = 0..n
  BY LenIs
<1>2. Bd!Overlaid(data, moves) = upTo[n]
  BY <1>1 DEF Bd!Overlaid
<1>3. \A f : [m \in {0} \cup DOMAIN moves |->
                IF m = 0 THEN data
                ELSE IF moves[m].at \in Bd!Pending THEN Bd!ApplyMove(f[m - 1], moves[m]) ELSE f[m - 1]]
             = F(f)
  <2>1. \A m \in 0..n : m # 0 => (moves[m].at \in Bd!Pending <=> m = k)
    OBVIOUS
  <2>2. QED
    BY <1>1, <2>1
<1>4. steps = F(steps)
  <2>1. ASSUME NEW m \in 0..n
        PROVE  steps[m] = IF m = 0 THEN data
                          ELSE IF m = k THEN Bd!ApplyMove(steps[m - 1], moves[m]) ELSE steps[m - 1]
    <3>1. CASE m = 0
      BY <3>1
    <3>2. CASE m = k
      <4>1. m - 1 \in 0..n /\ m - 1 < k /\ steps[m - 1] = data /\ steps[m] = moved /\ m # 0
        BY <3>2
      <4>2. QED
        BY <3>2, <4>1
    <3>3. CASE m # 0 /\ m # k
      <4>1. m - 1 \in 0..n /\ (m - 1 < k <=> m < k)
        BY <3>3
      <4> HIDE DEF moved
      <4>2. QED
        BY <3>3, <4>1
    <3>4. QED
      BY <3>1, <3>2, <3>3
  <2> HIDE DEF moved
  <2>2. steps = [m \in 0..n |-> steps[m]]
    OBVIOUS
  <2> HIDE DEF steps
  <2>3. QED
    BY <2>1, <2>2
<1>5. upTo = F(upTo)
  <2> HIDE DEF steps, F
  <2>1. QED
    BY <1>3, <1>4
<1>6. steps[n] = moved
  OBVIOUS
<1> HIDE DEF moved, steps, upTo
<1>7. T \in SUBSET Nat /\ \A m : m \in T <=> m \in 0..n /\ upTo[m] # steps[m]
  OBVIOUS
<1>8. T = {}
  <2>1. SUFFICES ASSUME T # {} PROVE FALSE
    OBVIOUS
  <2> HIDE DEF T
  <2>2. PICK x \in T : \A y \in T : x <= y
    BY <1>7, <2>1, LeastNatural
  <2>3. x \in 0..n /\ upTo[x] # steps[x]
    BY <1>7, <2>2
  <2>4. x # 0
    BY <1>4, <1>5, <2>3
  <2>5. x - 1 \in 0..n /\ ~(x <= x - 1)
    BY <2>3, <2>4
  <2>6. upTo[x - 1] = steps[x - 1]
    BY <1>7, <2>2, <2>5
  <2>7. upTo[x] = steps[x]
    <3>1. upTo[x] = IF x = k THEN Bd!ApplyMove(upTo[x - 1], moves[x]) ELSE upTo[x - 1]
      BY <1>5, <2>3, <2>4
    <3>2. steps[x] = IF x = k THEN Bd!ApplyMove(steps[x - 1], moves[x]) ELSE steps[x - 1]
      BY <1>4, <2>3, <2>4
    <3>3. QED
      BY <2>6, <3>1, <3>2
  <2>8. QED
    BY <2>3, <2>7
<1>9. n \in 0..n
  OBVIOUS
<1> HIDE DEF T
<1>10. QED
  BY <1>2, <1>6, <1>7, <1>8, <1>9 DEF moved

LEMMA CsShown ==
  ASSUME NEW data, NEW moves, Numbered(moves), OneMove(data, moves)
  PROVE  /\ DOMAIN Bd!Overlaid(data, moves) = DOMAIN data
         /\ \A c \in DOMAIN data : \A s : SeenIn(data, moves, c, s) <=> Bd!Overlaid(data, moves)[c].status = s
<1>1. PICK n \in Nat : moves = [m \in 1..n |-> moves[m]]
  BY DEF Numbered
<1>2. DOMAIN moves = 1..n
  BY <1>1
<1>3. CASE Flying(moves) = {}
  <2>1. \A m \in 1..n : moves[m].at \notin Bd!Pending
    BY <1>2, <1>3 DEF Flying
  <2>2. Bd!Overlaid(data, moves) = data
    BY <1>1, <2>1, BdNoOverlay
  <2>3. QED
    BY <1>3, <2>2 DEF SeenIn, FreeOf
<1>4. CASE Flying(moves) # {}
  <2>1. PICK k \in Flying(moves) : \A m \in Flying(moves) : m = k
    BY <1>4 DEF OneMove
  <2>2. k \in 1..n /\ moves[k].at \in Bd!Pending /\ \A m \in 1..n : m # k => moves[m].at \notin Bd!Pending
    BY <1>2, <2>1 DEF Flying
  <2>3. Bd!Overlaid(data, moves) = Bd!ApplyMove(data, moves[k])
    BY <1>1, <2>2, BdOneOverlay
  <2>4. moves[k].card \in DOMAIN data
    BY <2>1 DEF OneMove
  <2> DEFINE after == Bd!ApplyMove(data, moves[k])
  <2>5. /\ DOMAIN after = DOMAIN data
        /\ after[moves[k].card].status = moves[k].status
        /\ \A c \in DOMAIN data : c # moves[k].card => after[c] = data[c]
    BY <2>4 DEF Bd!ApplyMove
  <2> HIDE DEF after
  <2>6. ASSUME NEW c \in DOMAIN data, NEW s PROVE SeenIn(data, moves, c, s) <=> after[c].status = s
    <3>1. CASE c = moves[k].card
      BY <2>1, <2>5, <3>1 DEF SeenIn, FreeOf
    <3>2. CASE c # moves[k].card
      BY <2>1, <2>5, <3>2 DEF SeenIn, FreeOf
    <3>3. QED
      BY <3>1, <3>2
  <2>7. QED
    BY <2>3, <2>5, <2>6 DEF after
<1>5. QED
  BY <1>3, <1>4

(* What a move in flight has done to its card: sent, it will put it into the column unless it
   is there; once committed the server has it there, and so has what a fetch brings that began
   after the answer; the cache, once that fetch has ended. *)
CsMove(m) ==
  LET card == v4[m].card
      status == v4[m].status
  IN  /\ v4[m].at = "sent" => IF v4[m].sends = Nobody THEN v1[card].status = status ELSE v4[m].sends = status
      /\ v4[m].at # "sent" => v1[card].status = status
      /\ v4[m].at \in {"refetching", "refetched"} /\ v3.at = "answered" => v3.brings[card].status = status
      /\ v4[m].at = "refetched" => v2[card].status = status

(* As long as no move failed, none met another, and nobody else wrote: server, cache and what
   a fetch brings differ in the one card that is moved alone. *)
CsAgree ==
  /\ DOMAIN v1 = DOMAIN v2
  /\ v3.at = "answered" => DOMAIN v3.brings = DOMAIN v2
  /\ OneMove(v2, v4)
  /\ \A c \in DOMAIN v2 : FreeOf(v4, c) =>
       /\ v1[c].status = v2[c].status
       /\ v3.at = "answered" => v3.brings[c].status = v2[c].status
  /\ \A m \in Flying(v4) : CsMove(m)

Undisturbed == ~v8.foreign /\ ~v8.failed /\ ~v8.overlap
CsInv ==
  /\ Numbered(v4)
  /\ v8 \in [foreign : BOOLEAN, failed : BOOLEAN, overlap : BOOLEAN]
  /\ Undisturbed => CsAgree

LEMMA CsInit == Bd!Init => CsInv
<1>1. SUFFICES ASSUME Bd!Init PROVE CsInv
  OBVIOUS
<1>2. BdInv
  BY <1>1, BdInit
<1>3. PICK scene \in BoardScenes : v4 = [m \in 1..scene.moves |-> [at |-> "unused"]]
  BY <1>1 DEF Bd!Init
<1>4. v2 = v1 /\ v3.at = "none" /\ v8 = [foreign |-> FALSE, failed |-> FALSE, overlap |-> FALSE]
  BY <1>1 DEF Bd!Init, Bd!NoFetch
<1>5. Flying(v4) = {}
  BY <1>3 DEF Flying, Bd!Pending
<1>6. CsAgree
  BY <1>4, <1>5 DEF CsAgree, OneMove
<1>7. QED
  BY <1>2, <1>4, <1>6 DEF CsInv, BdInv

(* A move that goes on: in flight as before, with the same card and column. *)
GoesOn(moves, k, at) == [moves EXCEPT ![k] = [moves[k] EXCEPT !.at = at]]

LEMMA CsGoesOn ==
  ASSUME NEW moves, Numbered(moves), NEW k \in Flying(moves), DOMAIN moves[k] = MoveFields,
         NEW at \in Bd!Pending, NEW after, after = GoesOn(moves, k, at)
  PROVE  /\ DOMAIN after = DOMAIN moves /\ Flying(after) = Flying(moves)
         /\ \A m \in DOMAIN moves : m # k => after[m] = moves[m]
         /\ after[k].at = at
         /\ DOMAIN after[k] = MoveFields
         /\ after[k].card = moves[k].card /\ after[k].status = moves[k].status
         /\ after[k].sends = moves[k].sends
<1> DEFINE new == [moves[k] EXCEPT !.at = at]
<1>1. k \in DOMAIN moves /\ after = [moves EXCEPT ![k] = new]
  BY DEF Flying, GoesOn
<1>2. /\ new.at = at /\ DOMAIN new = MoveFields /\ "at" \in DOMAIN new
      /\ new.card = moves[k].card /\ new.status = moves[k].status /\ new.sends = moves[k].sends
  BY DEF MoveFields
<1> HIDE DEF new
<1>3. DOMAIN after = DOMAIN moves /\ after[k] = new /\ \A m \in DOMAIN moves : m # k => after[m] = moves[m]
  BY <1>1, <1>2, MoveChanged
<1>4. Flying(after) = Flying(moves)
  BY <1>2, <1>3 DEF Flying
<1>5. QED
  BY <1>2, <1>3, <1>4

(* A fetch that ends lets a move that waits for it go on. *)
LEMMA CsReleased ==
  ASSUME CsInv, CsAgree
  PROVE  /\ DOMAIN Bd!ReleasedMoves = DOMAIN v4 /\ Flying(Bd!ReleasedMoves) = Flying(v4)
         /\ \A m \in Flying(v4) :
              /\ DOMAIN Bd!ReleasedMoves[m] = MoveFields
              /\ Bd!ReleasedMoves[m].card = v4[m].card
              /\ Bd!ReleasedMoves[m].status = v4[m].status
              /\ Bd!ReleasedMoves[m].sends = v4[m].sends
              /\ Bd!ReleasedMoves[m].at = IF v4[m].at = "refetching" THEN "refetched" ELSE v4[m].at
         /\ \A m \in DOMAIN v4 : v4[m].at # "refetching" => Bd!ReleasedMoves[m] = v4[m]
<1>1. DOMAIN Bd!ReleasedMoves = DOMAIN v4
      /\ \A m \in DOMAIN v4 : Bd!ReleasedMoves[m] = IF v4[m].at = "refetching"
                                                    THEN [v4[m] EXCEPT !.at = "refetched"] ELSE v4[m]
  BY DEF Bd!ReleasedMoves, Bd!Moves
<1>2. ASSUME NEW m \in Flying(v4)
      PROVE  /\ DOMAIN Bd!ReleasedMoves[m] = MoveFields
             /\ Bd!ReleasedMoves[m].card = v4[m].card
             /\ Bd!ReleasedMoves[m].status = v4[m].status
             /\ Bd!ReleasedMoves[m].sends = v4[m].sends
             /\ Bd!ReleasedMoves[m].at = IF v4[m].at = "refetching" THEN "refetched" ELSE v4[m].at
  <2>1. m \in DOMAIN v4 /\ DOMAIN v4[m] = MoveFields
    BY DEF Flying, CsAgree, OneMove
  <2>2. CASE v4[m].at = "refetching"
    BY <1>1, <2>1, <2>2 DEF MoveFields
  <2>3. CASE v4[m].at # "refetching"
    BY <1>1, <2>1, <2>3
  <2>4. QED
    BY <2>2, <2>3
<1>3. Flying(Bd!ReleasedMoves) = Flying(v4)
  <2>1. ASSUME NEW m \in DOMAIN v4
        PROVE  Bd!ReleasedMoves[m].at \in Bd!Pending <=> v4[m].at \in Bd!Pending
    <3>1. CASE m \in Flying(v4)
      BY <1>2, <3>1 DEF Flying, Bd!Pending
    <3>2. CASE m \notin Flying(v4)
      <4>1. v4[m].at # "refetching"
        BY <3>2 DEF Flying, Bd!Pending
      <4>2. QED
        BY <1>1, <4>1
    <3>3. QED
      BY <3>1, <3>2
  <2>2. QED
    BY <1>1, <2>1 DEF Flying
<1>4. QED
  BY <1>1, <1>2, <1>3

(* Every card is still seen in the column it was seen in. *)
SameSeen ==
  /\ DOMAIN v2' = DOMAIN v2
  /\ \A c \in DOMAIN v2 : \A s : SeenIn(v2, v4, c, s) => SeenIn(v2', v4', c, s)

(* A fetch begins, or nothing happens to the board. *)
LEMMA CsFetches ==
  ASSUME CsAgree, v1' = v1, v2' = v2, v4' = v4, v3' = v3 \/ v3' = Bd!Started
  PROVE  CsAgree' /\ SameSeen
<1>1. v3' = v3 \/ v3'.at = "sent"
  BY DEF Bd!Started
<1>2. \A m \in Flying(v4) : CsMove(m)'
  <2>1. SUFFICES ASSUME NEW m \in Flying(v4) PROVE CsMove(m)'
    OBVIOUS
  <2>2. CsMove(m)
    BY DEF CsAgree
  <2>3. QED
    BY <1>1, <2>2 DEF CsMove
<1>3. CsAgree'
  BY <1>1, <1>2 DEF CsAgree
<1>4. QED
  BY <1>3 DEF SameSeen

(* The server answers the fetch: what it holds of other cards than the moved one is shown. *)
LEMMA CsServe ==
  ASSUME CsAgree, Bd!Serve
  PROVE  CsAgree' /\ SameSeen
<1>1. v3' = [at |-> "answered", brings |-> v1] /\ v1' = v1 /\ v2' = v2 /\ v4' = v4
  BY DEF Bd!Serve
<1>2. v3'.brings = v1
  BY <1>1
<1>3. \A m \in Flying(v4) : CsMove(m)'
  <2>1. SUFFICES ASSUME NEW m \in Flying(v4) PROVE CsMove(m)'
    OBVIOUS
  <2>2. CsMove(m)
    BY DEF CsAgree
  <2>3. QED
    BY <1>1, <1>2, <2>2 DEF CsMove
<1>4. CsAgree'
  BY <1>1, <1>2, <1>3 DEF CsAgree
<1>5. QED
  BY <1>1, <1>4 DEF SameSeen

(* A move that waited for the fetch has its card where it belongs in what it brings. *)
LEMMA CsArrive ==
  ASSUME CsInv, CsAgree, Bd!Arrive
  PROVE  CsAgree' /\ SameSeen
<1>1. /\ v3.at = "answered" /\ v2' = v3.brings /\ v3' = Bd!NoFetch /\ v4' = Bd!ReleasedMoves
      /\ v1' = v1
  BY DEF Bd!Arrive
<1>2. v3'.at = "none"
  BY <1>1 DEF Bd!NoFetch
<1>3. DOMAIN v2' = DOMAIN v2 /\ DOMAIN v1' = DOMAIN v2'
  BY <1>1 DEF CsAgree
<1>4. /\ Flying(v4') = Flying(v4)
      /\ \A m \in Flying(v4) :
           /\ DOMAIN v4'[m] = MoveFields
           /\ v4'[m].card = v4[m].card /\ v4'[m].status = v4[m].status /\ v4'[m].sends = v4[m].sends
           /\ v4'[m].at = IF v4[m].at = "refetching" THEN "refetched" ELSE v4[m].at
  BY <1>1, CsReleased
<1>5. OneMove(v2', v4')
  BY <1>3, <1>4 DEF CsAgree, OneMove
<1>6. \A c : FreeOf(v4', c) <=> FreeOf(v4, c)
  BY <1>4 DEF FreeOf
<1>7. ASSUME NEW c \in DOMAIN v2, FreeOf(v4, c)
      PROVE  v1'[c].status = v2'[c].status /\ v2'[c].status = v2[c].status
  BY <1>1, <1>7 DEF CsAgree
<1>8. ASSUME NEW m \in Flying(v4) PROVE CsMove(m)'
  <2>1. CsMove(m)
    BY DEF CsAgree
  <2>2. v4[m].at = "refetching" => v4'[m].at = "refetched"
    BY <1>4
  <2>3. v4[m].at \in {"refetching", "refetched"} => v2'[v4[m].card].status = v4[m].status
    BY <1>1, <2>1 DEF CsMove
  <2>4. QED
    BY <1>1, <1>2, <1>4, <2>1, <2>3 DEF CsMove
<1>9. CsAgree'
  BY <1>2, <1>3, <1>4, <1>5, <1>6, <1>7, <1>8 DEF CsAgree
<1>10. SameSeen
  <2>1. ASSUME NEW c \in DOMAIN v2, NEW s, SeenIn(v2, v4, c, s) PROVE SeenIn(v2', v4', c, s)
    <3>1. CASE FreeOf(v4, c)
      BY <1>6, <1>7, <2>1, <3>1 DEF SeenIn, FreeOf
    <3>2. CASE ~FreeOf(v4, c)
      BY <1>4, <2>1, <3>2 DEF SeenIn
    <3>3. QED
      BY <3>1, <3>2
  <2>2. QED
    BY <1>3, <2>1 DEF SameSeen
<1>11. QED
  BY <1>9, <1>10

(* A move goes on, with its card where it belongs at the server and in the cache. *)
LEMMA CsMoveGoes ==
  ASSUME CsAgree, NEW k \in Flying(v4), v2' = v2,
         Flying(v4') = Flying(v4), DOMAIN v4'[k] = MoveFields,
         v4'[k].card = v4[k].card, v4'[k].status = v4[k].status,
         DOMAIN v1' = DOMAIN v1,
         \A c \in DOMAIN v1 : c # v4[k].card => v1'[c] = v1[c],
         v3' = v3 \/ v3'.at = "sent",
         CsMove(k)'
  PROVE  CsAgree' /\ SameSeen
<1>1. \A m \in Flying(v4) : m = k
  BY DEF CsAgree, OneMove
<1>2. \A c : (FreeOf(v4', c) <=> c # v4[k].card) /\ (FreeOf(v4, c) <=> c # v4[k].card)
  BY <1>1 DEF FreeOf
<1>3. OneMove(v2', v4')
  BY <1>1 DEF CsAgree, OneMove
<1>4. ASSUME NEW c \in DOMAIN v2, c # v4[k].card
      PROVE  v1'[c].status = v2[c].status /\ (v3'.at = "answered" => v3'.brings[c].status = v2[c].status)
  BY <1>2, <1>4 DEF CsAgree
<1>5. \A m \in Flying(v4') : CsMove(m)'
  BY <1>1
<1>6. DOMAIN v1' = DOMAIN v2' /\ (v3'.at = "answered" => DOMAIN v3'.brings = DOMAIN v2')
  BY DEF CsAgree
<1>7. CsAgree'
  BY <1>2, <1>3, <1>4, <1>5, <1>6 DEF CsAgree
<1>8. SameSeen
  BY <1>1, <1>2 DEF SameSeen, SeenIn
<1>9. QED
  BY <1>7, <1>8

LEMMA CsCommit ==
  ASSUME CsInv, CsAgree, NEW k \in Bd!Moves, Bd!Commit(k)
  PROVE  CsAgree' /\ SameSeen
<1> DEFINE card == v4[k].card
<1>1. /\ v4[k].at = "sent" /\ card \in DOMAIN v1 /\ v2' = v2 /\ v3' = v3
      /\ v1' = Bd!Moved(v1, card, v4[k].sends, v4[k].prev, v4[k].next)
      /\ v4' = [v4 EXCEPT ![k].at = "committed"]
  BY DEF Bd!Commit
<1>2. k \in Flying(v4) /\ "committed" \in Bd!Pending
  BY <1>1 DEF Flying, Bd!Moves, Bd!Pending
<1>3. CsMove(k) /\ DOMAIN v4[k] = MoveFields
  BY <1>2 DEF CsAgree, OneMove
<1>4. /\ Flying(v4') = Flying(v4) /\ v4'[k].at = "committed" /\ DOMAIN v4'[k] = MoveFields
      /\ v4'[k].card = card /\ v4'[k].status = v4[k].status /\ v4'[k].sends = v4[k].sends
  <2>1. v4' = GoesOn(v4, k, "committed") /\ Numbered(v4)
    BY <1>1 DEF GoesOn, CsInv
  <2>2. QED
    BY <1>2, <1>3, <2>1, CsGoesOn
<1> HIDE DEF card
<1>5. /\ DOMAIN v1' = DOMAIN v1 /\ \A c \in DOMAIN v1 : c # card => v1'[c] = v1[c]
      /\ v1'[card].status = IF v4[k].sends = Nobody THEN v1[card].status ELSE v4[k].sends
  BY <1>1 DEF Bd!Moved
<1>6. v1'[card].status = v4[k].status
  BY <1>1, <1>3, <1>5 DEF CsMove, card
<1>7. CsMove(k)'
  BY <1>4, <1>6 DEF CsMove
<1>8. QED
  BY <1>1, <1>2, <1>4, <1>5, <1>7, CsMoveGoes DEF card

LEMMA CsSucceed ==
  ASSUME BdInv, CsInv, CsAgree, NEW k \in Bd!Moves, Bd!Succeed(k)
  PROVE  CsAgree' /\ SameSeen
<1>1. /\ v4[k].at = "committed" /\ v2' = v2 /\ v3' = Bd!Started /\ v1' = v1
      /\ v4' = [Bd!ReleasedMoves EXCEPT ![k].at = "refetching"]
  BY DEF Bd!Succeed
<1>2. k \in Flying(v4) /\ "refetching" \in Bd!Pending /\ k \in DOMAIN v4
  BY <1>1 DEF Flying, Bd!Moves, Bd!Pending
<1>3. CsMove(k) /\ DOMAIN v4[k] = MoveFields
  BY <1>2 DEF CsAgree, OneMove
<1>4. /\ Flying(Bd!ReleasedMoves) = Flying(v4) /\ Bd!ReleasedMoves[k] = v4[k] /\ Numbered(Bd!ReleasedMoves)
  BY <1>1, <1>2, CsReleased, BdReleasedType
<1>5. /\ Flying(v4') = Flying(v4) /\ v4'[k].at = "refetching" /\ DOMAIN v4'[k] = MoveFields
      /\ v4'[k].card = v4[k].card /\ v4'[k].status = v4[k].status /\ v4'[k].sends = v4[k].sends
  <2> DEFINE before == Bd!ReleasedMoves
  <2>1. v4' = GoesOn(before, k, "refetching")
    BY <1>1 DEF GoesOn
  <2>2. Numbered(before) /\ k \in Flying(before) /\ before[k] = v4[k]
    BY <1>2, <1>4
  <2> HIDE DEF before
  <2>3. DOMAIN before[k] = MoveFields
    BY <1>3, <2>2
  <2>4. /\ Flying(v4') = Flying(before) /\ v4'[k].at = "refetching" /\ DOMAIN v4'[k] = MoveFields
        /\ v4'[k].card = before[k].card /\ v4'[k].status = before[k].status
        /\ v4'[k].sends = before[k].sends
    BY <1>2, <2>1, <2>2, <2>3, CsGoesOn
  <2>5. QED
    BY <1>4, <2>2, <2>4 DEF before
<1>6. v3'.at = "sent"
  BY <1>1 DEF Bd!Started
<1>7. CsMove(k)'
  BY <1>1, <1>3, <1>5, <1>6 DEF CsMove
<1>8. QED
  BY <1>1, <1>2, <1>5, <1>6, <1>7, CsMoveGoes

(* A move that is settled is in the data. *)
LEMMA CsSettle ==
  ASSUME CsInv, CsAgree, NEW k \in Bd!Moves, Bd!Settle(k)
  PROVE  CsAgree' /\ SameSeen
<1>1. /\ v4[k].at = "refetched" /\ v4' = [v4 EXCEPT ![k] = [at |-> "done"]]
      /\ v1' = v1 /\ v2' = v2 /\ v3' = v3
  BY DEF Bd!Settle
<1>2. k \in Flying(v4) /\ k \in DOMAIN v4
  BY <1>1 DEF Flying, Bd!Moves, Bd!Pending
<1>3. CsMove(k) /\ \A m \in Flying(v4) : m = k
  BY <1>2 DEF CsAgree, OneMove
<1>4. DOMAIN v4' = DOMAIN v4 /\ v4'[k].at = "done" /\ \A m \in DOMAIN v4 : m # k => v4'[m] = v4[m]
  BY <1>1, <1>2, MoveChanged DEF CsInv
<1>5. Flying(v4') = {}
  BY <1>3, <1>4 DEF Flying, Bd!Pending
<1>6. \A c : (FreeOf(v4, c) <=> c # v4[k].card) /\ FreeOf(v4', c)
  BY <1>2, <1>3, <1>5 DEF FreeOf
<1>7. ASSUME NEW c \in DOMAIN v2
      PROVE  /\ v1[c].status = v2[c].status
             /\ v3.at = "answered" => v3.brings[c].status = v2[c].status
  <2>1. CASE c = v4[k].card
    BY <1>1, <1>3, <2>1 DEF CsMove
  <2>2. CASE c # v4[k].card
    BY <1>6, <2>2 DEF CsAgree
  <2>3. QED
    BY <2>1, <2>2
<1>8. CsAgree'
  BY <1>1, <1>5, <1>7 DEF CsAgree, OneMove
<1>9. SameSeen
  BY <1>1, <1>3, <1>6 DEF SameSeen, SeenIn, CsMove
<1>10. QED
  BY <1>8, <1>9

(* A drop, with no other move in flight: the card's column is the one thing that changes. *)
LEMMA CsDrop ==
  ASSUME BdInv, CsInv, CsAgree, Flying(v4) = {}, v1' = v1,
         NEW k \in Bd!Moves, NEW card \in DOMAIN Bd!Shown, NEW target, target.status \in Statuses,
         Bd!MoveIssue(k, card, target)
  PROVE  CsAgree'
<1> DEFINE new == [at |-> "sent", card |-> card, status |-> target.status, prev |-> target.prev,
                   next |-> target.next, from |-> Bd!Shown[card],
                   sends |-> IF target.status = Bd!Shown[card].status THEN Nobody ELSE target.status]
<1>1. /\ v2' = Bd!ApplyMove(v2, new) /\ v3'.at = "none"
      /\ v4' = [Bd!ReleasedMoves EXCEPT ![k] = new]
  BY DEF Bd!MoveIssue, Bd!NoFetch
<1>2. DOMAIN new = MoveFields /\ "at" \in DOMAIN new
  BY DEF MoveFields
<1>3. new.at = "sent" /\ new.card = card /\ new.status = target.status
  OBVIOUS
<1>4. new.sends = IF target.status = Bd!Shown[card].status THEN Nobody ELSE target.status
  OBVIOUS
<1> HIDE DEF new
<1>5. DOMAIN Bd!Shown = DOMAIN v2 /\ \A s : SeenIn(v2, v4, card, s) <=> Bd!Shown[card].status = s
  BY CsShown DEF CsInv, CsAgree, Bd!Shown
<1>6. Bd!Shown[card].status = v2[card].status
  BY <1>5 DEF SeenIn, FreeOf
<1>7. v1[card].status = v2[card].status
  BY <1>5 DEF CsAgree, FreeOf
<1>8. Nobody \notin Statuses
  BY PagesAssumption DEF PagesAssumption, Bd!BoardAssumption
<1>9. DOMAIN v4' = DOMAIN v4 /\ v4'[k] = new /\ \A m \in DOMAIN v4 : m # k => v4'[m] = Bd!ReleasedMoves[m]
  BY <1>1, <1>2, CsReleased, BdReleasedType, MoveChanged DEF Bd!Moves
<1>10. Flying(Bd!ReleasedMoves) = {} /\ DOMAIN Bd!ReleasedMoves = DOMAIN v4
  BY CsReleased
<1>11. Flying(v4') = {k}
  <2>1. \A m \in DOMAIN v4 : Bd!ReleasedMoves[m].at \notin Bd!Pending
    BY <1>10 DEF Flying
  <2>2. k \in DOMAIN v4 /\ "sent" \in Bd!Pending
    BY DEF Bd!Moves, Bd!Pending
  <2>3. QED
    BY <1>3, <1>9, <2>1, <2>2 DEF Flying
<1>12. DOMAIN v2' = DOMAIN v2 /\ \A c \in DOMAIN v2 : c # card => v2'[c] = v2[c]
  BY <1>1, <1>3, <1>5 DEF Bd!ApplyMove
<1>13. OneMove(v2', v4')
  BY <1>2, <1>3, <1>5, <1>9, <1>11, <1>12 DEF OneMove
<1>14. CsMove(k)'
  <2>1. v4'[k].at = "sent" /\ v4'[k].card = card /\ v4'[k].status = target.status /\ v4'[k].sends = new.sends
    BY <1>3, <1>9
  <2>2. CASE target.status = Bd!Shown[card].status
    BY <1>4, <1>6, <1>7, <2>1, <2>2 DEF CsMove
  <2>3. CASE target.status # Bd!Shown[card].status
    <3>1. new.sends = target.status /\ new.sends # Nobody
      BY <1>4, <1>8, <2>3
    <3>2. QED
      BY <2>1, <3>1 DEF CsMove
  <2>4. QED
    BY <2>2, <2>3
<1>15. ASSUME NEW c \in DOMAIN v2, FreeOf(v4', c) PROVE v1'[c].status = v2'[c].status
  <2>1. c # card
    BY <1>3, <1>9, <1>11, <1>15 DEF FreeOf
  <2>2. QED
    BY <1>12, <2>1 DEF CsAgree, FreeOf
<1>16. DOMAIN v1' = DOMAIN v2'
  BY <1>12 DEF CsAgree
<1>17. QED
  BY <1>1, <1>11, <1>12, <1>13, <1>14, <1>15, <1>16 DEF CsAgree

(* What has happened does not unhappen. *)
CsKept == v8' \in [foreign : BOOLEAN, failed : BOOLEAN, overlap : BOOLEAN] /\ (Undisturbed' => Undisturbed)

LEMMA CsSame ==
  ASSUME CsInv, v8' = v8
  PROVE  CsKept
BY DEF CsKept, CsInv, Undisturbed

(* Every step of the board but a drop keeps the cards where they are seen. *)
LEMMA CsStep ==
  ASSUME BdInv, CsInv, shown = "board", [Next]_vars
  PROVE  CsInv' /\ (v7' = v7 /\ Undisturbed' => CsAgree /\ SameSeen)
<1>0. Numbered(v4) /\ Numbered(v4') /\ v8 \in [foreign : BOOLEAN, failed : BOOLEAN, overlap : BOOLEAN]
  BY BdStep DEF BdInv, CsInv
<1>1. SUFFICES CsKept /\ (Undisturbed' /\ CsAgree => CsAgree' /\ (v7' = v7 => SameSeen))
  BY <1>0 DEF CsKept, CsInv
<1>2. CASE \/ v1' = v1 /\ v2' = v2 /\ v4' = v4 /\ v8' = v8 /\ (v3' = v3 \/ v3' = Bd!Started)
  BY <1>2, CsSame, CsFetches
<1>3. ASSUME NEW s \in Statuses, NEW i \in Bd!Spots(s), Bd!DragEnd(s, i)
      PROVE  CsKept /\ (Undisturbed' /\ CsAgree => CsAgree' /\ (v7' = v7 => SameSeen))
  <2>1. v7' # v7
    BY <1>3 DEF Bd!DragEnd, Bd!Spots
  <2>2. CASE UNCHANGED <<v2, v3, v4, v5, v8>>
    BY <1>2, <1>3, <2>2 DEF Bd!DragEnd
  <2>3. CASE ~UNCHANGED <<v2, v3, v4, v5, v8>>
    <3> DEFINE crosses == \E n \in Bd!Moves : Bd!InFlight(n)
    <3>1. PICK k \in Bd!Moves : \E target :
            /\ Bd!MoveIssue(k, v7.card, target) /\ target.status = s
            /\ v8' = [v8 EXCEPT !.overlap = @ \/ crosses]
      <4> DEFINE found == Bd!Anchors(Bd!Column(Bd!Shown, s, {}), Bd!Dropped(s, i), v7.card)
                 there == [status |-> s, prev |-> found.prev, next |-> found.next]
      <4>1. PICK k \in Bd!Moves : /\ Bd!MoveIssue(k, v7.card, there)
                                  /\ v8' = [v8 EXCEPT !.overlap = @ \/ crosses]
        BY <1>3, <2>3 DEF Bd!DragEnd
      <4>2. there.status = s
        OBVIOUS
      <4> HIDE DEF there, crosses
      <4>3. QED
        BY <4>1, <4>2
    <3>2. v7.card \in DOMAIN Bd!Shown /\ v1' = v1
      BY <1>3, <2>3 DEF Bd!DragEnd
    <3>3. crosses \in BOOLEAN /\ (~crosses => Flying(v4) = {})
      BY DEF Flying, Bd!Moves, Bd!InFlight
    <3> HIDE DEF crosses
    <3>4. CsKept /\ (Undisturbed' => ~crosses)
      <4>1. /\ v8' \in [foreign : BOOLEAN, failed : BOOLEAN, overlap : BOOLEAN]
            /\ v8'.foreign = v8.foreign /\ v8'.failed = v8.failed /\ v8'.overlap = (v8.overlap \/ crosses)
        BY <1>0, <3>1, <3>3
      <4>2. QED
        BY <4>1 DEF CsKept, Undisturbed
    <3>5. ASSUME Undisturbed', CsAgree PROVE CsAgree'
      <4>1. PICK target : Bd!MoveIssue(k, v7.card, target) /\ target.status \in Statuses
        BY <3>1
      <4>2. QED
        BY <3>2, <3>3, <3>4, <3>5, <4>1, CsDrop
    <3>6. QED
      BY <2>1, <3>4, <3>5
  <2>4. QED
    BY <2>2, <2>3
<1>4. ASSUME NEW k \in Bd!Moves, Bd!Commit(k) \/ Bd!Succeed(k) \/ Bd!Settle(k)
      PROVE  CsKept /\ (Undisturbed' /\ CsAgree => CsAgree' /\ (v7' = v7 => SameSeen))
  <2>1. v8' = v8
    BY <1>4 DEF Bd!Commit, Bd!Succeed, Bd!Settle
  <2>2. QED
    BY <1>4, <2>1, CsSame, CsCommit, CsSucceed, CsSettle
<1>5. ASSUME NEW k \in Bd!Moves, Bd!Fail(k) PROVE CsKept /\ ~Undisturbed'
  <2>1. v8' = [v8 EXCEPT !.failed = TRUE]
    BY <1>5 DEF Bd!Fail
  <2>2. QED
    BY <1>0, <2>1 DEF CsKept, Undisturbed
<1>6. ASSUME NEW w \in DOMAIN v5, Bd!ForeignWrite(w) PROVE CsKept /\ ~Undisturbed'
  <2>1. v8' = [v8 EXCEPT !.foreign = TRUE]
    BY <1>6 DEF Bd!ForeignWrite
  <2>2. QED
    BY <1>0, <2>1 DEF CsKept, Undisturbed
<1>7. CASE \E w \in DOMAIN v5 : Bd!Refresh(w) \/ Bd!RefreshAgain(w)
  BY <1>2, <1>7 DEF Bd!Refresh, Bd!RefreshAgain
<1>8. CASE Bd!Refocus \/ Bd!DragCancel \/ \E c \in DOMAIN v2 : Bd!DragStart(c)
  BY <1>2, <1>8 DEF Bd!Refocus, Bd!DragCancel, Bd!DragStart
<1>9. CASE Bd!Serve
  BY <1>9, CsSame, CsServe DEF Bd!Serve
<1>10. CASE Bd!Arrive
  BY <1>10, CsSame, CsArrive DEF Bd!Arrive
<1>11. CASE UNCHANGED vars
  BY <1>2, <1>11 DEF vars
<1>12. QED
  BY <1>3, <1>4, <1>5, <1>6, <1>7, <1>8, <1>9, <1>10, <1>11 DEF Next, Bd!Next

(* A card that is still seen in its column is shown there. *)
LEMMA CsStays ==
  ASSUME BdInv, CsInv, shown = "board", [Next]_vars
  PROVE  Bd!CardStays
<1>1. SUFFICES ASSUME ~v8'.foreign, ~v8'.failed, ~v8'.overlap, v7' = v7
               PROVE  Bd!NoneJumps
  BY DEF Bd!CardStays, Bd!Sure
<1>2. CsInv' /\ CsAgree /\ SameSeen
  BY <1>1, CsStep DEF Undisturbed
<1>3. Numbered(v4) /\ OneMove(v2, v4) /\ Numbered(v4') /\ OneMove(v2', v4')
  BY <1>1, <1>2 DEF CsInv, CsAgree, Undisturbed
<1> DEFINE after == Bd!Overlaid(v2', v4')
<1>4. Bd!Shown' = after
  BY DEF Bd!Shown
<1>5. /\ DOMAIN Bd!Shown = DOMAIN v2
      /\ \A c \in DOMAIN v2 : \A s : SeenIn(v2, v4, c, s) <=> Bd!Shown[c].status = s
  BY <1>3, CsShown DEF Bd!Shown
<1>6. \A c \in DOMAIN v2' : \A s : SeenIn(v2', v4', c, s) <=> after[c].status = s
  BY <1>3, CsShown
<1> HIDE DEF after
<1>7. ASSUME NEW c \in DOMAIN v2 PROVE Bd!Shown[c].status = after[c].status
  <2>1. SeenIn(v2, v4, c, Bd!Shown[c].status)
    BY <1>5
  <2>2. SeenIn(v2', v4', c, Bd!Shown[c].status) /\ c \in DOMAIN v2'
    BY <1>2, <2>1 DEF SameSeen
  <2>3. QED
    BY <1>6, <2>2
<1>8. QED
  BY <1>4, <1>5, <1>7 DEF Bd!NoneJumps

(* Cards stay: as long as nobody else writes, no move fails and the user waits for a move to be
   confirmed before the next, the one move in flight explains every difference between the
   server, the cache and what a fetch brings, so that the board shows each card in its column
   throughout (useOptimisticBoard). *)
THEOREM CardsAlwaysStay == Spec => CardsStay
<1> DEFINE I == shown = "board" => BdInv /\ CsInv
<1>1. Init => I
  BY BdInit, CsInit DEF Init
<1>2. I /\ [Next]_vars => I'
  <2>1. [Next]_vars => shown' = shown
    BY DEF Next, vars
  <2>2. QED
    BY <2>1, BdStep, CsStep
<1>3. I /\ [Next]_vars => [shown = "board" => Bd!CardStays]_vars
  BY CsStays
<1>4. QED
  BY <1>1, <1>2, <1>3, PTL DEF Spec, CardsStay

-----------------------------------------------------------------------------
(* Folds: the functions behind them exist, by induction on the size of the set. *)

LEMMA GreatestNatural ==
  ASSUME NEW n \in Nat, NEW S \in SUBSET (1..n), S # {}
  PROVE  Sr!Max(S) \in S
<1> DEFINE T == {n - x : x \in S}
<1>0. \A x \in S : n - x \in Nat
  OBVIOUS
<1>1. T \in SUBSET Nat /\ T # {}
  BY <1>0
<1>2. PICK y \in T : \A z \in T : y <= z
  BY <1>1, LeastNatural
<1>3. PICK x \in S : y = n - x
  BY <1>2
<1>4. \A z \in S : x >= z
  <2>1. SUFFICES ASSUME NEW z \in S PROVE x >= z
    OBVIOUS
  <2>2. n - z \in T
    OBVIOUS
  <2>3. n - x <= n - z
    BY <1>2, <1>3, <2>2
  <2>4. QED
    BY <2>3
<1>5. QED
  BY <1>4 DEF Sr!Max

FoldBody(f, s, base, pick, step) ==
  IF s = {} THEN base ELSE step[<<pick[s], f[s \ {pick[s]}]>>]

IsFold(f, D, X, base, pick, step) ==
  f \in [SUBSET D -> X] /\ \A s \in SUBSET D : f[s] = FoldBody(f, s, base, pick, step)
Picks(pick, D) == \A s \in SUBSET D : s # {} => pick[s] \in s

LEMMA FoldExists ==
  ASSUME NEW D, IsFiniteSet(D), NEW X, NEW base \in X,
         NEW pick, Picks(pick, D),
         NEW step \in [D \X X -> X]
  PROVE  \E f : IsFold(f, D, X, base, pick, step)
<1> DEFINE Upto(f, k) == \A s \in SUBSET D : Cardinality(s) <= k => f[s] = FoldBody(f, s, base, pick, step)
           T == {k \in Nat : ~ \E f \in [SUBSET D -> X] : Upto(f, k)}
<1>0. \A s \in SUBSET D : s # {} => pick[s] \in s
  BY DEF Picks
<1>1. \A s \in SUBSET D : IsFiniteSet(s) /\ Cardinality(s) \in Nat /\ Cardinality(s) <= Cardinality(D)
  BY FS_Subset, FS_CardinalityType
<1>2. Cardinality(D) \in Nat
  BY FS_CardinalityType
<1>3. ASSUME NEW f \in [SUBSET D -> X], NEW s \in SUBSET D
      PROVE  FoldBody(f, s, base, pick, step) \in X
  <2>1. CASE s = {}
    BY <2>1 DEF FoldBody
  <2>2. CASE s # {}
    <3>1. pick[s] \in D /\ f[s \ {pick[s]}] \in X
      BY <1>0, <2>2
    <3>2. QED
      BY <2>2, <3>1 DEF FoldBody
  <2>3. QED
    BY <2>1, <2>2
<1>4. \E f \in [SUBSET D -> X] : Upto(f, 0)
  <2> DEFINE g == [s \in SUBSET D |-> base]
  <2>1. g \in [SUBSET D -> X]
    OBVIOUS
  <2>2. ASSUME NEW s \in SUBSET D, Cardinality(s) <= 0 PROVE g[s] = FoldBody(g, s, base, pick, step)
    <3>1. s = {}
      BY <1>1, <2>2, FS_EmptySet
    <3>2. QED
      BY <3>1 DEF FoldBody
  <2>3. QED
    BY <2>1, <2>2
<1>5. ASSUME NEW k \in Nat, NEW f \in [SUBSET D -> X], Upto(f, k)
      PROVE  \E g \in [SUBSET D -> X] : Upto(g, k + 1)
  <2> DEFINE g == [s \in SUBSET D |-> FoldBody(f, s, base, pick, step)]
  <2>1. g \in [SUBSET D -> X]
    BY <1>3
  <2>2. ASSUME NEW s \in SUBSET D, Cardinality(s) <= k + 1 PROVE g[s] = FoldBody(g, s, base, pick, step)
    <3>1. CASE s = {}
      BY <3>1 DEF FoldBody
    <3>2. CASE s # {}
      <4> DEFINE t == s \ {pick[s]}
      <4>1. pick[s] \in s /\ t \in SUBSET D
        BY <1>0, <3>2
      <4>2. Cardinality(t) = Cardinality(s) - 1
        BY <1>1, <4>1, FS_RemoveElement
      <4>3. Cardinality(t) <= k
        BY <1>1, <2>2, <4>1, <4>2
      <4>4. f[t] = FoldBody(f, t, base, pick, step)
        BY <1>5, <4>1, <4>3
      <4>5. g[t] = f[t]
        BY <4>1, <4>4
      <4>6. g[s] = FoldBody(f, s, base, pick, step)
        OBVIOUS
      <4> HIDE DEF g
      <4>7. QED
        BY <3>2, <4>5, <4>6 DEF FoldBody
    <3>3. QED
      BY <3>1, <3>2
  <2> HIDE DEF g
  <2>3. QED
    BY <2>1, <2>2
<1> HIDE DEF Upto
<1>6. T = {}
  <2>1. SUFFICES ASSUME T # {} PROVE FALSE
    OBVIOUS
  <2>2. T \in SUBSET Nat /\ \A k \in Nat : k \in T <=> ~ \E f \in [SUBSET D -> X] : Upto(f, k)
    OBVIOUS
  <2> HIDE DEF T
  <2>3. PICK k \in T : \A j \in T : k <= j
    BY <2>1, <2>2, LeastNatural
  <2>4. k \in Nat /\ k # 0
    BY <1>4, <2>2, <2>3
  <2>5. k - 1 \in Nat /\ k - 1 \notin T
    BY <2>3, <2>4
  <2>6. PICK f \in [SUBSET D -> X] : Upto(f, k - 1)
    BY <2>2, <2>5
  <2>7. \E g \in [SUBSET D -> X] : Upto(g, (k - 1) + 1)
    BY <1>5, <2>5, <2>6
  <2>8. (k - 1) + 1 = k
    BY <2>4
  <2>9. QED
    BY <2>2, <2>3, <2>7, <2>8
<1>7. PICK f \in [SUBSET D -> X] : Upto(f, Cardinality(D))
  BY <1>2, <1>6
<1>8. IsFold(f, D, X, base, pick, step)
  BY <1>1, <1>7 DEF Upto, IsFold
<1>9. QED
  BY <1>8

LEMMA FoldIn ==
  ASSUME NEW D, IsFiniteSet(D), NEW X, NEW f, f[{}] \in X,
         NEW pick, Picks(pick, D),
         \A s \in SUBSET D : s # {} /\ f[s \ {pick[s]}] \in X => f[s] \in X
  PROVE  f[D] \in X
<1> DEFINE Size == {Cardinality(s) : s \in {r \in SUBSET D : f[r] \notin X}}
<1>0. \A s \in SUBSET D : s # {} => pick[s] \in s
  BY DEF Picks
<1>1. \A s \in SUBSET D : IsFiniteSet(s) /\ Cardinality(s) \in Nat
  BY FS_Subset, FS_CardinalityType
<1>2. SUFFICES ASSUME f[D] \notin X PROVE FALSE
  OBVIOUS
<1>3. Size \in SUBSET Nat /\ Size # {}
  BY <1>1, <1>2
<1>4. \A s \in SUBSET D : f[s] \notin X => Cardinality(s) \in Size
  OBVIOUS
<1>5. PICK k \in Size : \A j \in Size : k <= j
  BY <1>3, LeastNatural
<1>6. PICK s \in SUBSET D : f[s] \notin X /\ k = Cardinality(s)
  BY <1>5
<1> HIDE DEF Size
<1>7. s # {}
  BY <1>6
<1> DEFINE t == s \ {pick[s]}
<1>8. pick[s] \in s /\ t \in SUBSET D
  BY <1>7 DEF Picks
<1>9. Cardinality(t) = Cardinality(s) - 1
  BY <1>1, <1>8, FS_RemoveElement
<1>10. f[t] \in X
  <2>1. SUFFICES ASSUME f[t] \notin X PROVE FALSE
    OBVIOUS
  <2>2. Cardinality(t) \in Size
    BY <1>4, <1>8, <2>1
  <2>3. k <= Cardinality(t) /\ k \in Nat
    BY <1>1, <1>5, <1>6, <2>2
  <2>4. QED
    BY <1>6, <1>9, <2>3
<1>11. QED
  BY <1>6, <1>7, <1>10

-----------------------------------------------------------------------------
(* The table of the search (SearchResults) *)

(* Rows without a repetition. *)
SrDistinct(V) == {rows \in Seq(V) : Sr!IsInjective(rows)}

LEMMA SrPut ==
  ASSUME NEW V, NEW rows \in SrDistinct(V), NEW i \in V
  PROVE  Sr!Put(rows, i) \in SrDistinct(V)
<1>1. CASE i \in Sr!Range(rows) \/ Len(rows) >= SortCap
  BY <1>1 DEF Sr!Put
<1>2. CASE ~(i \in Sr!Range(rows) \/ Len(rows) >= SortCap)
  <2>1. Sr!Put(rows, i) = Append(rows, i) /\ rows \in Seq(V)
    BY <1>2 DEF Sr!Put, SrDistinct
  <2>2. \A k \in 1..Len(rows) : rows[k] # i
    BY <1>2, <2>1 DEF Sr!Range
  <2>3. \A j, k \in 1..Len(rows) : rows[j] = rows[k] => j = k
    BY <2>1 DEF SrDistinct, Sr!IsInjective
  <2>4. Sr!IsInjective(Append(rows, i))
    BY <2>1, <2>2, <2>3 DEF Sr!IsInjective
  <2>5. QED
    BY <2>1, <2>4 DEF SrDistinct
<1>3. QED
  BY <1>1, <1>2

LEMMA SrPutAll ==
  ASSUME NEW V, NEW rows \in SrDistinct(V), NEW n \in Nat, NEW piece, DOMAIN piece = 1..n,
         \A k \in 1..n : piece[k] \in V
  PROVE  Sr!PutAll(rows, piece) \in SrDistinct(V)
<1> DEFINE X == SrDistinct(V)
           D == 1..n
           pick == [s \in SUBSET D |-> Sr!Max(s)]
           step == [p \in D \X X |-> Sr!Put(p[2], piece[p[1]])]
           F(f) == [s \in SUBSET D |-> IF s = {} THEN rows ELSE Sr!Put(f[s \ {Sr!Max(s)}], piece[Sr!Max(s)])]
           iter == CHOOSE f : f = F(f)
<1>1. Sr!PutAll(rows, piece) = iter[D]
  BY DEF Sr!PutAll, Sr!FoldLeft, Sr!MapThenFoldSet
<1>2. IsFiniteSet(D) /\ rows \in X
  BY FS_Interval
<1>3. Picks(pick, D)
  BY GreatestNatural DEF Picks
<1>4. step \in [D \X X -> X]
  BY SrPut
<1>5. \A d \in D, x \in X : step[<<d, x>>] = Sr!Put(x, piece[d])
  OBVIOUS
<1>6. \A s \in SUBSET D : pick[s] = Sr!Max(s)
  OBVIOUS
<1> HIDE DEF X, D, step, pick
<1> HIDE DEF F, iter
<1>7. PICK g : IsFold(g, D, X, rows, pick, step)
  BY <1>2, <1>3, <1>4, FoldExists
<1> USE DEF F
<1>8. ASSUME NEW f \in [SUBSET D -> X], NEW s \in SUBSET D
      PROVE  FoldBody(f, s, rows, pick, step) =
               IF s = {} THEN rows ELSE Sr!Put(f[s \ {Sr!Max(s)}], piece[Sr!Max(s)])
  <2>1. CASE s = {}
    BY <2>1 DEF FoldBody
  <2>2. CASE s # {}
    <3>1. pick[s] \in D /\ s \ {pick[s]} \in SUBSET D
      BY <1>3, <2>2 DEF Picks
    <3>2. f[s \ {pick[s]}] \in X
      BY <3>1
    <3>3. QED
      BY <1>5, <1>6, <2>2, <3>1, <3>2 DEF FoldBody
  <2>3. QED
    BY <2>1, <2>2
<1>9. g = F(g)
  <2>1. \A s \in SUBSET D : g[s] = F(g)[s]
    BY <1>7, <1>8 DEF IsFold
  <2>2. DOMAIN g = SUBSET D /\ g = [s \in SUBSET D |-> g[s]]
    BY <1>7 DEF IsFold
  <2>3. QED
    BY <2>1, <2>2
<1>10. iter = F(iter)
  BY <1>9 DEF iter
<1>11. iter[{}] = rows /\ \A s \in SUBSET D : s # {} => iter[s] = Sr!Put(iter[s \ {pick[s]}], piece[pick[s]])
  BY <1>6, <1>10
<1>12. ASSUME NEW s \in SUBSET D, s # {}, iter[s \ {pick[s]}] \in X PROVE iter[s] \in X
  <2>1. pick[s] \in D
    BY <1>3, <1>12 DEF Picks
  <2>2. Sr!Put(iter[s \ {pick[s]}], piece[pick[s]]) \in X
    BY <1>12, <2>1, SrPut DEF X, D
  <2>3. QED
    BY <1>11, <1>12, <2>2
<1>13. iter[D] \in X
  BY <1>2, <1>3, <1>11, <1>12, FoldIn
<1>14. QED
  BY <1>1, <1>13 DEF X

LEMMA SrAssembled ==
  ASSUME NEW m \in Nat, NEW pieces, DOMAIN pieces = 1..m,
         \A k \in 1..m : \E n \in Nat : DOMAIN pieces[k] = 1..n
  PROVE  \E V : Sr!Assembled(pieces) \in SrDistinct(V)
<1> DEFINE V == {pieces[k][i] : k \in 1..m, i \in Nat}
           X == SrDistinct(V)
           D == 1..m
           pick == [s \in SUBSET D |-> Sr!Max(s)]
           step == [p \in D \X X |-> Sr!PutAll(p[2], pieces[p[1]])]
           F(f) == [s \in SUBSET D |-> IF s = {} THEN <<>> ELSE Sr!PutAll(f[s \ {Sr!Max(s)}], pieces[Sr!Max(s)])]
           iter == CHOOSE f : f = F(f)
<1>1. Sr!Assembled(pieces) = iter[D]
  BY DEF Sr!Assembled, Sr!FoldLeft, Sr!MapThenFoldSet
<1>2. IsFiniteSet(D) /\ <<>> \in X
  <2>1. <<>> \in Seq(V) /\ DOMAIN <<>> = {}
    OBVIOUS
  <2>2. Sr!IsInjective(<<>>)
    BY <2>1 DEF Sr!IsInjective
  <2>3. QED
    BY <2>1, <2>2, FS_Interval DEF SrDistinct
<1>3. Picks(pick, D)
  BY GreatestNatural DEF Picks
<1>a. ASSUME NEW k \in D, NEW rows \in X PROVE Sr!PutAll(rows, pieces[k]) \in X
  <2>1. PICK n \in Nat : DOMAIN pieces[k] = 1..n
    OBVIOUS
  <2>2. \A i \in 1..n : pieces[k][i] \in V
    OBVIOUS
  <2> HIDE DEF V
  <2>3. QED
    BY <2>1, <2>2, SrPutAll
<1>4. step \in [D \X X -> X]
  BY <1>a
<1>5. \A d \in D, x \in X : step[<<d, x>>] = Sr!PutAll(x, pieces[d])
  OBVIOUS
<1>6. \A s \in SUBSET D : pick[s] = Sr!Max(s)
  OBVIOUS
<1> HIDE DEF X, D, step, pick, F, iter
<1>7. PICK g : IsFold(g, D, X, <<>>, pick, step)
  BY <1>2, <1>3, <1>4, FoldExists
<1> USE DEF F
<1>8. ASSUME NEW f \in [SUBSET D -> X], NEW s \in SUBSET D
      PROVE  FoldBody(f, s, <<>>, pick, step) =
               IF s = {} THEN <<>> ELSE Sr!PutAll(f[s \ {Sr!Max(s)}], pieces[Sr!Max(s)])
  <2>1. CASE s = {}
    BY <2>1 DEF FoldBody
  <2>2. CASE s # {}
    <3>1. pick[s] \in D /\ s \ {pick[s]} \in SUBSET D
      BY <1>3, <2>2 DEF Picks
    <3>2. f[s \ {pick[s]}] \in X
      BY <3>1
    <3>3. QED
      BY <1>5, <1>6, <2>2, <3>1, <3>2 DEF FoldBody
  <2>3. QED
    BY <2>1, <2>2
<1>9. g = F(g)
  <2>1. \A s \in SUBSET D : g[s] = F(g)[s]
    BY <1>7, <1>8 DEF IsFold
  <2>2. DOMAIN g = SUBSET D /\ g = [s \in SUBSET D |-> g[s]]
    BY <1>7 DEF IsFold
  <2>3. QED
    BY <2>1, <2>2
<1>10. iter = F(iter)
  BY <1>9 DEF iter
<1>11. iter[{}] = <<>> /\ \A s \in SUBSET D : s # {} => iter[s] = Sr!PutAll(iter[s \ {pick[s]}], pieces[pick[s]])
  BY <1>6, <1>10
<1>12. ASSUME NEW s \in SUBSET D, s # {}, iter[s \ {pick[s]}] \in X PROVE iter[s] \in X
  <2>1. pick[s] \in D
    BY <1>3, <1>12 DEF Picks
  <2>2. Sr!PutAll(iter[s \ {pick[s]}], pieces[pick[s]]) \in X
    BY <1>a, <1>12, <2>1
  <2>3. QED
    BY <1>11, <1>12, <2>2
<1>13. iter[D] \in X
  BY <1>2, <1>3, <1>11, <1>12, FoldIn
<1>14. QED
  BY <1>1, <1>13 DEF X

LEMMA SrReverse ==
  ASSUME NEW V, NEW rows \in SrDistinct(V)
  PROVE  Sr!IsInjective(Sr!Reverse(rows))
<1> DEFINE n == Len(rows)
           back == Sr!Reverse(rows)
<1>1. n \in Nat /\ DOMAIN rows = 1..n /\ back = [i \in 1..n |-> rows[(n - i) + 1]]
  BY DEF Sr!Reverse, SrDistinct
<1> HIDE DEF n, back
<1>2. ASSUME NEW i \in 1..n, NEW j \in 1..n, back[i] = back[j] PROVE i = j
  <2>1. (n - i) + 1 \in 1..n /\ (n - j) + 1 \in 1..n
    BY <1>1
  <2>2. rows[(n - i) + 1] = rows[(n - j) + 1]
    BY <1>1, <1>2
  <2>3. (n - i) + 1 = (n - j) + 1
    BY <1>1, <2>1, <2>2 DEF SrDistinct, Sr!IsInjective
  <2>4. QED
    BY <1>1, <2>3
<1>3. QED
  BY <1>1, <1>2 DEF Sr!IsInjective, back

(* The instance's own names for what FiniteSets defines. *)
LEMMA SrFinite == ASSUME NEW S PROVE Sr!IsFiniteSet(S) <=> IsFiniteSet(S)
BY DEF Sr!IsFiniteSet, IsFiniteSet

LEMMA SrCardinality == ASSUME NEW S PROVE Sr!Cardinality(S) = Cardinality(S)
BY DEF Sr!Cardinality, Cardinality

(* What a search finds is a sequence, and so is a piece of it. *)
LEMMA SrFound ==
  ASSUME v1 \in SUBSET Issues, NEW params
  PROVE  Len(Sr!Search(params)) \in Nat /\ \E V : Sr!Search(params) \in Seq(V)
<1> DEFINE S == {i \in v1 : Sr!Selects(params, i)}
           found == Sr!Search(params)
           n == Cardinality(S)
<1>1. IsFiniteSet(Issues)
  BY PagesAssumption, SrFinite DEF PagesAssumption, Sr!SearchResultsAssumption
<1>2. n \in Nat
  BY <1>1, FS_Subset, FS_CardinalityType
<1> HIDE DEF S
<1>3. found = [k \in 1..n |-> found[k]]
  <2>1. found = Sr!Sorted(S)
    BY DEF Sr!Search, S
  <2> HIDE DEF found
  <2> DEFINE place(k) == CHOOSE i \in S : Sr!Cardinality({j \in S : j < i}) = k - 1
  <2>2. Sr!Sorted(S) = [k \in 1..Sr!Cardinality(S) |-> place(k)]
    BY DEF Sr!Sorted
  <2> HIDE DEF place
  <2>3. Sr!Cardinality(S) = n
    BY SrCardinality
  <2> HIDE DEF n
  <2>4. found = [k \in 1..n |-> place(k)]
    BY <2>1, <2>2, <2>3
  <2>5. QED
    BY <2>4
<1> HIDE DEF found, n
<1>4. Len(found) = n /\ found \in Seq({found[k] : k \in 1..n})
  BY <1>2, <1>3, LenIs
<1>5. QED
  BY <1>2, <1>4 DEF found

LEMMA SrPiece ==
  ASSUME v1 \in SUBSET Issues, NEW params, NEW offset \in Nat
  PROVE  \E n \in Nat : DOMAIN Sr!Piece(Sr!Search(params), offset, ApiLimit) = 1..n
<1> DEFINE found == Sr!Search(params)
           bound == {offset + ApiLimit, Len(found)}
           upto == Sr!Min(bound)
<1>1. ApiLimit \in Nat
  BY PagesAssumption DEF PagesAssumption, Sr!SearchResultsAssumption
<1>2. PICK V : found \in Seq(V)
  BY SrFound
<1> HIDE DEF found
<1>3. upto \in Nat /\ upto <= Len(found)
  <2>1. offset + ApiLimit \in Nat /\ Len(found) \in Nat
    BY <1>1, <1>2
  <2>2. \E x \in bound : \A y \in bound : x <= y
    BY <2>1
  <2>3. upto \in bound /\ \A y \in bound : upto <= y
    BY <2>2 DEF Sr!Min
  <2>4. QED
    BY <2>1, <2>3
<1> HIDE DEF upto
<1>4. SubSeq(found, offset + 1, upto) \in Seq(V)
  BY <1>1, <1>2, <1>3
<1>5. QED
  BY <1>4 DEF Sr!Piece, found, upto

(* Pieces that have come, or are awaited. *)
SrPieces(pieces) ==
  \E m \in Nat : /\ pieces = [k \in 1..m |-> pieces[k]]
                 /\ \A k \in 1..m : pieces[k] # None => \E n \in Nat : DOMAIN pieces[k] = 1..n

(* What was loaded was asked for as the user means it; a search under way may be asked for; the
   rows of an assembled table are distinct. *)
SrInv ==
  /\ v1 \in SUBSET Issues
  /\ DOMAIN v2 = {"choice", "server", "page"} /\ v2.server \in BOOLEAN
  /\ v3 \in BOOLEAN
  /\ v4 # None => ~Sr!MixesStatusFilters(v4.key.params)
  /\ v5 # None => ~Sr!MixesStatusFilters(v5.key) /\ Sr!IsInjective(v5.rows)
  /\ v6 # None => DOMAIN v6 = {"pieces"} /\ SrPieces(v6.pieces) /\ Sr!Ready

LEMMA SrInit == Sr!Init => SrInv
BY DEF Sr!Init, SrInv

LEMMA SrParams ==
  ASSUME v3 \in BOOLEAN, Sr!Ready
  PROVE  ~Sr!MixesStatusFilters(Sr!ToSearchParams(v2.choice))
<1>1. CASE Sr!MixesStatusFilters(v2.choice)
  <2>1. Sr!ToSearchParams(v2.choice).categories = {}
    BY <1>1 DEF Sr!Ready, Sr!ToSearchParams
  <2>2. QED
    BY <2>1 DEF Sr!MixesStatusFilters
<1>2. CASE ~Sr!MixesStatusFilters(v2.choice)
  BY <1>2 DEF Sr!ToSearchParams
<1>3. QED
  BY <1>1, <1>2

LEMMA SrMeans ==
  ASSUME v3 \in BOOLEAN, ~Sr!MixesStatusFilters(Sr!ToSearchParams(v2.choice)), NEW i \in Issues
  PROVE  Sr!Selects(Sr!ToSearchParams(v2.choice), i) <=> Sr!Wanted(v2.choice, i)
<1>1. StatusOf[i] \in DOMAIN CategoryOf
  BY PagesAssumption DEF PagesAssumption, Sr!SearchResultsAssumption
<1> DEFINE params == Sr!ToSearchParams(v2.choice)
           more == {s \in DOMAIN CategoryOf : CategoryOf[s] \in v2.choice.categories}
<1>2. CASE Sr!MixesStatusFilters(v2.choice)
  <2>1. v3 = TRUE
    BY <1>2 DEF Sr!ToSearchParams
  <2>2. params.categories = {} /\ params.statuses = v2.choice.statuses \cup more
    BY <1>2, <2>1 DEF Sr!ToSearchParams
  <2>3. params.statuses # {}
    BY <1>2, <2>2 DEF Sr!MixesStatusFilters
  <2>4. StatusOf[i] \in more <=> CategoryOf[StatusOf[i]] \in v2.choice.categories
    BY <1>1
  <2> HIDE DEF params, more
  <2>5. Sr!Selects(params, i) <=> StatusOf[i] \in v2.choice.statuses \/ StatusOf[i] \in more
    BY <2>2, <2>3 DEF Sr!Selects
  <2>6. v2.choice.categories # {}
    BY <1>2 DEF Sr!MixesStatusFilters
  <2>7. QED
    BY <2>4, <2>5, <2>6 DEF Sr!Wanted, params
<1>3. CASE ~Sr!MixesStatusFilters(v2.choice)
  <2>1. params = v2.choice
    BY <1>3 DEF Sr!ToSearchParams
  <2>2. v2.choice.categories = {} \/ v2.choice.statuses = {}
    BY <1>3 DEF Sr!MixesStatusFilters
  <2> HIDE DEF params
  <2>3. QED
    BY <2>1, <2>2 DEF Sr!Selects, Sr!Wanted, params
<1>4. QED
  BY <1>2, <1>3

LEMMA SrRows ==
  ASSUME SrInv
  PROVE  Sr!RowsAreMatches
<1>1. SUFFICES ASSUME Sr!Settled PROVE Sr!RowsAreMatches
  BY DEF Sr!RowsAreMatches
<1>2. CASE v2.server
  <2>1. v4 # None /\ v4.key = Sr!PagedKey
    BY <1>1, <1>2 DEF Sr!Settled, Sr!IsPending, Sr!IsPlaceholder
  <2>2. v4.key.params = Sr!ToSearchParams(v2.choice)
    BY <2>1 DEF Sr!PagedKey
  <2>3. QED
    BY <1>2, <2>1, <2>2, SrMeans DEF SrInv, Sr!RowsAreMatches
<1>3. CASE ~v2.server
  <2>1. v5 # None /\ v5.key = Sr!ToSearchParams(v2.choice)
    BY <1>1, <1>3 DEF Sr!Settled, Sr!IsPending, Sr!IsPlaceholder, Sr!AllKey
  <2>2. QED
    BY <1>3, <2>1, SrMeans DEF SrInv, Sr!RowsAreMatches
<1>4. QED
  BY <1>2, <1>3

(* Another search, page or column. *)
LEMMA SrAsk ==
  ASSUME SrInv, NEW next, DOMAIN next = {"choice", "server", "page"}, next.server \in BOOLEAN,
         Sr!Ask(next)
  PROVE  SrInv'
<1>1. v2' = next /\ UNCHANGED <<v1, v3, v4, v5>>
  BY DEF Sr!Ask
<1>2. v6' # None => v6' = v6 /\ next.choice = v2.choice
  BY DEF Sr!Ask
<1>3. v6' # None => Sr!Ready'
  BY <1>1, <1>2 DEF SrInv, Sr!Ready
<1>4. QED
  BY <1>1, <1>2, <1>3 DEF SrInv

LEMMA SrFirst ==
  ASSUME SrInv, Sr!LoadFirst
  PROVE  SrInv'
<1> DEFINE found == Sr!Search(Sr!AllKey)
           target == Sr!Min({Len(found), SortCap})
           ceiling == (target + ApiLimit - 1) \div ApiLimit
           count == Sr!Max({1, ceiling})
           pieces == [n \in 1..count |-> IF n = 1 THEN Sr!Piece(found, 0, ApiLimit) ELSE None]
<1>1. v6' = [pieces |-> pieces] /\ Sr!Ready /\ UNCHANGED <<v1, v2, v3, v4, v5>>
  BY DEF Sr!LoadFirst
<1>2. count \in Nat
  <2>1. ApiLimit \in Nat \ {0} /\ SortCap \in Nat \ {0}
    BY PagesAssumption DEF PagesAssumption, Sr!SearchResultsAssumption
  <2>2. Len(found) \in Nat
    BY SrFound DEF SrInv
  <2>3. target \in Nat
    <3> DEFINE bound == {Len(found), SortCap}
    <3>1. \E x \in bound : \A y \in bound : x <= y
      BY <2>1, <2>2
    <3>2. target \in bound
      BY <3>1 DEF Sr!Min
    <3>3. QED
      BY <2>1, <2>2, <3>2
  <2> HIDE DEF target
  <2>4. ceiling \in Int
    BY <2>1, <2>3
  <2> HIDE DEF ceiling
  <2>5. \E x \in {1, ceiling} : \A y \in {1, ceiling} : x >= y
    BY <2>4
  <2>6. count \in {1, ceiling} /\ count >= 1
    BY <2>5 DEF Sr!Max
  <2>7. QED
    BY <2>4, <2>6
<1>3. \E n \in Nat : DOMAIN Sr!Piece(found, 0, ApiLimit) = 1..n
  BY SrPiece DEF SrInv
<1> HIDE DEF found, count
<1>4. SrPieces(pieces)
  BY <1>2, <1>3 DEF SrPieces
<1> HIDE DEF pieces
<1>5. DOMAIN v6' = {"pieces"} /\ v6'.pieces = pieces
  BY <1>1
<1>6. Sr!Ready'
  BY <1>1 DEF Sr!Ready
<1>7. QED
  BY <1>1, <1>4, <1>5, <1>6 DEF SrInv

LEMMA SrStep ==
  ASSUME SrInv, shown = "searchResults", [Next]_vars
  PROVE  SrInv'
<1>1. CASE Sr!Update \/ Sr!SortBy \/ Sr!SetPage \/ Sr!SnapBack \/ Sr!FollowLink
  <2>1. CASE Sr!FollowLink
    <3>1. PICK next \in [choice : Menus, server : BOOLEAN, page : 1..LastPage] : Sr!Ask(next)
      BY <2>1 DEF Sr!FollowLink
    <3>2. DOMAIN next = {"choice", "server", "page"} /\ next.server \in BOOLEAN
      OBVIOUS
    <3>3. QED
      BY <3>1, <3>2, SrAsk
  <2>2. CASE Sr!Update
    <3>1. PICK choice \in Menus : Sr!Ask([v2 EXCEPT !.choice = choice, !.page = 1])
      BY <2>2 DEF Sr!Update
    <3> DEFINE next == [v2 EXCEPT !.choice = choice, !.page = 1]
    <3>2. DOMAIN next = {"choice", "server", "page"} /\ next.server \in BOOLEAN
      BY DEF SrInv
    <3> HIDE DEF next
    <3>3. QED
      BY <3>1, <3>2, SrAsk DEF next
  <2>3. CASE Sr!SortBy
    <3> DEFINE other == ~v2.server
               next == [v2 EXCEPT !.server = other, !.page = 1]
    <3>1. Sr!Ask(next)
      BY <2>3 DEF Sr!SortBy
    <3>2. other \in BOOLEAN
      OBVIOUS
    <3> HIDE DEF other
    <3>3. DOMAIN next = {"choice", "server", "page"} /\ next.server = other
      BY DEF SrInv
    <3> HIDE DEF next
    <3>4. QED
      BY <3>1, <3>2, <3>3, SrAsk
  <2>4. CASE Sr!SetPage \/ Sr!SnapBack
    <3>1. PICK page : Sr!Ask([v2 EXCEPT !.page = page])
      BY <2>4 DEF Sr!SetPage, Sr!SnapBack
    <3> DEFINE next == [v2 EXCEPT !.page = page]
    <3>2. DOMAIN next = {"choice", "server", "page"} /\ next.server \in BOOLEAN
      BY DEF SrInv
    <3> HIDE DEF next
    <3>3. QED
      BY <3>1, <3>2, SrAsk DEF next
  <2>5. QED
    BY <1>1, <2>1, <2>2, <2>3, <2>4
<1>2. CASE Sr!LoadStatuses
  <2>1. v3' = TRUE /\ UNCHANGED <<v1, v2, v4, v5, v6>>
    BY <1>2 DEF Sr!LoadStatuses
  <2>2. Sr!Ready'
    BY <2>1 DEF Sr!Ready
  <2>3. QED
    BY <2>1, <2>2 DEF SrInv
<1>3. CASE Sr!LoadPage
  <2>1. /\ v4' = [key |-> Sr!PagedKey, total |-> Len(Sr!Search(Sr!PagedKey.params))] /\ Sr!Ready
        /\ UNCHANGED <<v1, v2, v3, v5, v6>>
    BY <1>3 DEF Sr!LoadPage
  <2>2. v4'.key.params = Sr!ToSearchParams(v2.choice)
    BY <2>1 DEF Sr!PagedKey
  <2>3. ~Sr!MixesStatusFilters(v4'.key.params)
    BY <2>1, <2>2, SrParams DEF SrInv
  <2>4. Sr!Ready'
    BY <2>1 DEF Sr!Ready
  <2>5. QED
    BY <2>1, <2>3, <2>4 DEF SrInv
<1>4. CASE Sr!LoadFirst
  BY <1>4, SrFirst
<1>5. ASSUME v6 # None, NEW n \in DOMAIN v6.pieces, Sr!LoadPiece(n) PROVE SrInv'
  <2> DEFINE piece == Sr!Piece(Sr!Search(Sr!AllKey), (n - 1) * ApiLimit, ApiLimit)
             pieces == [v6.pieces EXCEPT ![n] = piece]
  <2>1. v6' = [v6 EXCEPT !.pieces[n] = piece] /\ UNCHANGED <<v1, v2, v3, v4, v5>>
    BY <1>5 DEF Sr!LoadPiece
  <2>2. PICK m \in Nat : /\ v6.pieces = [k \in 1..m |-> v6.pieces[k]]
                         /\ \A k \in 1..m : v6.pieces[k] # None => \E l \in Nat : DOMAIN v6.pieces[k] = 1..l
    BY <1>5 DEF SrInv, SrPieces
  <2>3. n \in 1..m /\ ApiLimit \in Nat
    BY <1>5, <2>2, PagesAssumption DEF PagesAssumption, Sr!SearchResultsAssumption
  <2>4. (n - 1) * ApiLimit \in Nat
    BY <2>3
  <2>5. \E l \in Nat : DOMAIN piece = 1..l
    BY <2>4, SrPiece DEF SrInv
  <2> HIDE DEF piece
  <2>6. SrPieces(pieces)
    <3>1. pieces = [k \in 1..m |-> pieces[k]]
      BY <2>2
    <3>2. \A k \in 1..m : pieces[k] = IF k = n THEN piece ELSE v6.pieces[k]
      BY <2>2, <2>3
    <3> HIDE DEF pieces
    <3>3. ASSUME NEW k \in 1..m, pieces[k] # None PROVE \E l \in Nat : DOMAIN pieces[k] = 1..l
      <4>1. CASE k = n
        BY <2>5, <3>2, <4>1
      <4>2. CASE k # n
        BY <2>2, <3>2, <3>3, <4>2
      <4>3. QED
        BY <4>1, <4>2
    <3>4. QED
      BY <3>1, <3>3 DEF SrPieces
  <2>7. DOMAIN v6' = {"pieces"} /\ v6'.pieces = pieces
    BY <1>5, <2>1 DEF SrInv
  <2>8. Sr!Ready'
    BY <1>5, <2>1 DEF SrInv, Sr!Ready
  <2> HIDE DEF pieces
  <2>9. QED
    BY <2>1, <2>6, <2>7, <2>8 DEF SrInv
<1>6. CASE Sr!LoadedAll
  <2>1. /\ v6 # None /\ v6' = None /\ UNCHANGED <<v1, v2, v3, v4>>
        /\ \A n \in DOMAIN v6.pieces : v6.pieces[n] # None
        /\ v5' = [key |-> Sr!AllKey, rows |-> Sr!Reverse(Sr!Assembled(v6.pieces))]
    BY <1>6 DEF Sr!LoadedAll
  <2>2. PICK m \in Nat : /\ v6.pieces = [k \in 1..m |-> v6.pieces[k]]
                         /\ \A k \in 1..m : v6.pieces[k] # None => \E l \in Nat : DOMAIN v6.pieces[k] = 1..l
    BY <2>1 DEF SrInv, SrPieces
  <2>3. DOMAIN v6.pieces = 1..m
    BY <2>2
  <2>4. PICK V : Sr!Assembled(v6.pieces) \in SrDistinct(V)
    BY <2>1, <2>2, <2>3, SrAssembled
  <2>5. Sr!IsInjective(Sr!Reverse(Sr!Assembled(v6.pieces)))
    BY <2>4, SrReverse
  <2>6. v5'.key = Sr!ToSearchParams(v2.choice) /\ Sr!IsInjective(v5'.rows)
    BY <2>1, <2>5 DEF Sr!AllKey
  <2>7. ~Sr!MixesStatusFilters(v5'.key)
    BY <2>1, <2>6, SrParams DEF SrInv
  <2>8. QED
    BY <2>1, <2>6, <2>7 DEF SrInv
<1>7. CASE Sr!Teammate
  <2>1. v1' \in SUBSET Issues /\ UNCHANGED <<v2, v3, v4, v5, v6>>
    BY <1>7 DEF SrInv, Sr!Teammate
  <2>2. Sr!Ready' <=> Sr!Ready
    BY <2>1 DEF Sr!Ready
  <2>3. QED
    BY <2>1, <2>2 DEF SrInv
<1>8. CASE UNCHANGED vars
  <2>1. UNCHANGED <<v1, v2, v3, v4, v5, v6>>
    BY <1>8 DEF vars
  <2>2. Sr!Ready' <=> Sr!Ready
    BY <2>1 DEF Sr!Ready
  <2>3. QED
    BY <2>1, <2>2 DEF SrInv
<1>9. QED
  BY <1>1, <1>2, <1>3, <1>4, <1>5, <1>6, <1>7, <1>8 DEF Next, Sr!Next

-----------------------------------------------------------------------------
(* The search box, the URL and the history (Search) *)

(* Where a text waits to be written, the box has the focus, and shows what waits or what is
   searched for. As long as a session was not left open by the clear button and the user did
   not go through the history: nothing was written yet, or what was searched for before is one
   entry back. *)
SeSession ==
  /\ v6 /\ ~v8 /\ v7 = None => ~v5 /\ (v4 # None => v4.value = v1[v2].q)
  /\ v6 /\ ~v8 /\ v7 \notin {None, Lost} => v5 /\ v2 > 1 /\ v1[v2 - 1] = v7

SeInv ==
  /\ v1 \in Seq(Se!Searches) /\ v2 \in 1..Len(v1)
  /\ v3 \in Se!Drafts
  /\ v4 \in {None} \cup Se!Timers
  /\ v5 \in BOOLEAN /\ v6 \in BOOLEAN /\ v8 \in BOOLEAN
  /\ Se!IdsAreOfProject
  /\ v4 # None => v6
  /\ v4 # None => (v3 = v4.text /\ v4.value = v1[v2].q) \/ v3.text = v1[v2].q
  /\ v4 = None => v3.text = v1[v2].q
  /\ SeSession

LEMMA SeAssumed ==
  /\ Empty \in SearchTexts /\ None # Lost /\ None \notin Se!Searches /\ Lost \notin Se!Searches
  /\ None \notin Se!Timers
BY PagesAssumption DEF PagesAssumption, Se!SearchAssumption

LEMMA SeInit == Se!Init => SeInv
<1>1. SUFFICES ASSUME Se!Init PROVE SeInv
  OBVIOUS
<1>2. PICK q \in SearchTexts, project \in Projects \cup {None}, narrowed \in BOOLEAN :
        /\ v1 = <<Se!Filters(q, project, IF narrowed THEN project ELSE None, FALSE)>>
        /\ v3 = Se!Text(q)
  BY <1>1 DEF Se!Init
<1> DEFINE ids == IF narrowed THEN project ELSE None
           entry == [q |-> q, project |-> project, ids |-> ids, sprint |-> FALSE]
<1>3. v1 = <<entry>>
  BY <1>2 DEF Se!Filters
<1>4. ids \in {None, project}
  OBVIOUS
<1> HIDE DEF ids
<1>5. entry \in Se!Searches /\ entry.q = q /\ entry.ids \in {None, entry.project}
  BY <1>4 DEF Se!Searches
<1>6. v3 \in Se!Drafts /\ v3.text = q
  BY <1>2 DEF Se!Text, Se!Drafts
<1> HIDE DEF entry
<1>7. v2 = 1 /\ v4 = None /\ v5 = FALSE /\ v6 = FALSE /\ v8 = FALSE
  BY <1>1 DEF Se!Init
<1>8. v1 \in Seq(Se!Searches) /\ Len(v1) = 1 /\ v1[1] = entry /\ DOMAIN v1 = {1}
  BY <1>3, <1>5
<1>9. Se!IdsAreOfProject
  BY <1>5, <1>8 DEF Se!IdsAreOfProject
<1>10. SeSession
  BY <1>7 DEF SeSession
<1>11. v2 \in 1..Len(v1) /\ v1[v2].q = v3.text
  BY <1>5, <1>6, <1>7, <1>8
<1>12. QED
  BY <1>6, <1>7, <1>8, <1>9, <1>10, <1>11 DEF SeInv

(* The URL of an entry is what was written: no entry has ids without their project. *)
LEMMA SeCurrent ==
  ASSUME NEW e \in Se!Searches, e.ids \in {None, e.project}
  PROVE  Se!ParseFilters(e) = e
<1>1. CASE e.project = None
  <2>1. e.ids = None
    BY <1>1
  <2>2. [e EXCEPT !.ids = None] = e
    BY <2>1 DEF Se!Searches
  <2>3. QED
    BY <1>1, <2>2 DEF Se!ParseFilters
<1>2. CASE e.project # None
  BY <1>2 DEF Se!ParseFilters
<1>3. QED
  BY <1>1, <1>2

LEMMA SeHere ==
  ASSUME SeInv
  PROVE  Se!Current = v1[v2] /\ v1[v2] \in Se!Searches /\ v1[v2].ids \in {None, v1[v2].project}
<1>1. v1[v2] \in Se!Searches /\ v2 \in DOMAIN v1
  BY DEF SeInv
<1>2. v1[v2].ids \in {None, v1[v2].project}
  BY <1>1 DEF SeInv, Se!IdsAreOfProject
<1>3. QED
  BY <1>1, <1>2, SeCurrent DEF Se!Current

(* What a write of the URL does to the history. *)
LEMMA SeCommit ==
  ASSUME SeInv, NEW filters \in Se!Searches, filters.ids \in {None, filters.project},
         NEW replace \in BOOLEAN, Se!Commit(filters, replace)
  PROVE  /\ v1' \in Seq(Se!Searches) /\ v2' \in 1..Len(v1') /\ v1'[v2'] = filters
         /\ Se!IdsAreOfProject'
         /\ filters = v1[v2] => v1' = v1 /\ v2' = v2
         /\ filters # v1[v2] /\ ~replace => v2' = v2 + 1 /\ v1'[v2] = v1[v2]
         /\ replace => v2' = v2 /\ (v2 > 1 => v1'[v2 - 1] = v1[v2 - 1])
<1>0. v1 \in Seq(Se!Searches) /\ v2 \in 1..Len(v1) /\ v2 \in Nat /\ v2 > 0 /\ Len(v1) \in Nat
  BY DEF SeInv
<1>1. CASE filters = v1[v2]
  <2>1. v1' = v1 /\ v2' = v2
    BY <1>1 DEF Se!Commit
  <2>2. QED
    BY <1>0, <1>1, <2>1 DEF SeInv, Se!IdsAreOfProject
<1>2. CASE filters # v1[v2]
  <2> DEFINE kept == IF replace THEN v2 - 1 ELSE v2
             left == SubSeq(v1, 1, kept)
             right == IF replace THEN SubSeq(v1, v2 + 1, Len(v1)) ELSE <<>>
  <2>1. v1' = left \o <<filters>> \o right /\ v2' = kept + 1
    BY <1>2 DEF Se!Commit
  <2>2. kept \in 0..Len(v1)
    BY <1>0
  <2>3. left \in Seq(Se!Searches) /\ Len(left) = kept /\ \A i \in 1..kept : left[i] = v1[i]
    <3> HIDE DEF kept
    <3>1. QED
      BY <1>0, <2>2
  <2>4. right \in Seq(Se!Searches) /\ \A i \in 1..Len(right) : \E j \in 1..Len(v1) : right[i] = v1[j]
    <3>1. CASE replace
      <4> DEFINE tail == SubSeq(v1, v2 + 1, Len(v1))
      <4>1. tail \in Seq(Se!Searches) /\ Len(tail) = Len(v1) - v2 /\ \A i \in 1..Len(tail) : tail[i] = v1[v2 + i]
        BY <1>0
      <4>2. right = tail
        BY <3>1
      <4> HIDE DEF tail, right
      <4>3. \A i \in 1..Len(tail) : v2 + i \in 1..Len(v1)
        BY <1>0, <4>1
      <4>4. QED
        BY <4>1, <4>2, <4>3
    <3>2. CASE ~replace
      BY <3>2
    <3>3. QED
      BY <3>1, <3>2
  <2>4a. Len(left) = kept /\ Len(right) \in Nat
    BY <2>3, <2>4
  <2> DEFINE most == left \o <<filters>>
  <2> HIDE DEF left, right, kept
  <2>4b. /\ most \in Seq(Se!Searches) /\ Len(most) = kept + 1
         /\ \A i \in 1..kept : most[i] = v1[i]
         /\ most[kept + 1] = filters
    BY <2>2, <2>3, <2>4a
  <2>4c. v1' = most \o right
    BY <2>1
  <2>4d. most \o right = [i \in 1..(Len(most) + Len(right)) |->
                          IF i <= Len(most) THEN most[i] ELSE right[i - Len(most)]]
    BY <2>4, <2>4b
  <2> HIDE DEF most
  <2>4e. v1' \in Seq(Se!Searches) /\ Len(v1') = kept + 1 + Len(right)
    <3>1. right \in Seq(Se!Searches)
      BY <2>4
    <3>2. most \in Seq(Se!Searches)
      BY <2>4b
    <3>3. most \o right \in Seq(Se!Searches) /\ Len(most \o right) = Len(most) + Len(right)
      BY <3>1, <3>2
    <3>4. QED
      BY <2>4b, <2>4c, <3>3
  <2>4f. \A i \in 1..(kept + 1) : v1'[i] = most[i]
    BY <2>2, <2>4a, <2>4b, <2>4c, <2>4d
  <2>4g. \A i \in 1..Len(right) : v1'[kept + 1 + i] = right[i]
    BY <2>2, <2>4a, <2>4b, <2>4c, <2>4d
  <2>5. /\ v1' \in Seq(Se!Searches) /\ Len(v1') = kept + 1 + Len(right)
        /\ \A i \in 1..kept : v1'[i] = v1[i]
        /\ v1'[kept + 1] = filters
        /\ \A i \in 1..Len(right) : v1'[kept + 1 + i] = right[i]
    BY <2>2, <2>4b, <2>4e, <2>4f, <2>4g
  <2>6. v2' \in 1..Len(v1') /\ v1'[v2'] = filters
    BY <2>1, <2>2, <2>4a, <2>5
  <2>7. \A i \in DOMAIN v1' : v1'[i] = filters \/ \E j \in DOMAIN v1 : v1'[i] = v1[j]
    <3>1. SUFFICES ASSUME NEW i \in 1..Len(v1') PROVE v1'[i] = filters \/ \E j \in 1..Len(v1) : v1'[i] = v1[j]
      BY <1>0, <2>5
    <3>2. CASE i <= kept
      BY <2>2, <2>5, <3>2
    <3>3. CASE i = kept + 1
      BY <2>5, <3>3
    <3>4. CASE i > kept + 1
      <4>1. i - (kept + 1) \in 1..Len(right) /\ i = kept + 1 + (i - (kept + 1))
        BY <2>2, <2>4a, <2>5, <3>4
      <4>2. QED
        BY <2>4, <2>5, <4>1
    <3>5. i <= kept \/ i = kept + 1 \/ i > kept + 1
      BY <2>2
    <3>6. QED
      BY <3>2, <3>3, <3>4, <3>5
  <2>8. Se!IdsAreOfProject'
    BY <2>7 DEF SeInv, Se!IdsAreOfProject
  <2>9. ~replace => v2' = v2 + 1 /\ v1'[v2] = v1[v2]
    <3>1. ~replace => kept = v2
      BY DEF kept
    <3>2. v2 \in 1..v2
      BY <1>0
    <3>3. ~replace => v1'[v2] = v1[v2]
      BY <2>5, <3>1, <3>2
    <3>4. QED
      BY <2>1, <3>1, <3>3
  <2>10. replace => v2' = v2 /\ (v2 > 1 => v1'[v2 - 1] = v1[v2 - 1])
    <3>1. replace => kept = v2 - 1
      BY DEF kept
    <3>2. v2 > 1 => v2 - 1 \in 1..(v2 - 1)
      BY <1>0
    <3>3. QED
      BY <1>0, <2>1, <2>5, <3>1, <3>2
  <2>11. QED
    BY <1>2, <2>5, <2>6, <2>8, <2>9, <2>10
<1>3. QED
  BY <1>1, <1>2

(* What a write of the box does, for a text and the value of the render that asks for it: the
   box shows what is then searched for, and the search before the session stays one back. *)
LEMMA SeWrite ==
  ASSUME SeInv, NEW text \in Se!Drafts, NEW value \in SearchTexts, Se!Write(text, value),
         v6 /\ ~v8 /\ v7 = None => value = v1[v2].q
  PROVE  /\ v1' \in Seq(Se!Searches) /\ v2' \in 1..Len(v1') /\ Se!IdsAreOfProject'
         /\ v4' = None /\ v5' \in BOOLEAN
         /\ v1'[v2'].q = IF text.text = value THEN v1[v2].q ELSE text.text
         /\ v6' = v6 /\ v8' = v8 => SeSession'
<1>0. text.text \in SearchTexts /\ Se!Trim(text) = text.text
  BY DEF Se!Drafts, Se!Trim
<1>1. v4' = None
  BY DEF Se!Write
<1>2. /\ Se!Current = v1[v2] /\ v1[v2] \in Se!Searches /\ v1[v2].ids \in {None, v1[v2].project}
      /\ v5 \in BOOLEAN /\ v2 \in Nat /\ v2 > 0
  <2>1. v2 \in Nat /\ v2 > 0 /\ v5 \in BOOLEAN
    BY DEF SeInv
  <2>2. QED
    BY <2>1, SeHere
<1>3. CASE text.text = value
  <2>1. v1' = v1 /\ v2' = v2 /\ v5' = v5 /\ v7' = v7
    BY <1>0, <1>3 DEF Se!Write
  <2>2. v6' = v6 /\ v8' = v8 => SeSession'
    BY <1>1, <2>1 DEF SeInv, SeSession
  <2>3. QED
    BY <1>1, <1>2, <1>3, <2>1, <2>2 DEF SeInv, Se!IdsAreOfProject
<1>4. CASE text.text # value
  <2> DEFINE filters == [v1[v2] EXCEPT !.q = text.text]
  <2>1. /\ Se!Commit(filters, v5) /\ v5' = TRUE
        /\ v7' = IF v7 = None /\ text.text # v1[v2].q THEN v1[v2] ELSE v7
    BY <1>0, <1>2, <1>4 DEF Se!Write
  <2>2. /\ filters \in Se!Searches /\ filters.ids \in {None, filters.project} /\ filters.q = text.text
        /\ text.text # v1[v2].q => filters # v1[v2]
        /\ text.text = v1[v2].q => filters = v1[v2]
    BY <1>0, <1>2 DEF Se!Searches
  <2> HIDE DEF filters
  <2>3. /\ v1' \in Seq(Se!Searches) /\ v2' \in 1..Len(v1') /\ v1'[v2'] = filters
        /\ Se!IdsAreOfProject'
        /\ filters = v1[v2] => v1' = v1 /\ v2' = v2
        /\ filters # v1[v2] /\ ~v5 => v2' = v2 + 1 /\ v1'[v2] = v1[v2]
        /\ v5 => v2' = v2 /\ (v2 > 1 => v1'[v2 - 1] = v1[v2 - 1])
    BY <1>2, <2>1, <2>2, SeCommit
  <2>4. v1[v2] # None /\ v1[v2] # Lost
    BY <1>2, SeAssumed
  <2>5. ASSUME v6, ~v8
        PROVE  v7' # None /\ (v7' # Lost => v2' > 1 /\ v1'[v2' - 1] = v7')
    <3>1. CASE v7 = None
      <4>1. ~v5 /\ text.text # v1[v2].q
        BY <1>4, <2>5, <3>1 DEF SeInv, SeSession
      <4>2. v7' = v1[v2] /\ v2' = v2 + 1 /\ v1'[v2] = v1[v2]
        BY <2>1, <2>2, <2>3, <3>1, <4>1
      <4>3. v2' > 1 /\ v2' - 1 = v2
        BY <1>2, <4>2
      <4>4. QED
        BY <2>4, <4>2, <4>3
    <3>2. CASE v7 = Lost
      BY <2>1, <3>2, SeAssumed
    <3>3. CASE v7 \notin {None, Lost}
      <4>1. v5 /\ v2 > 1 /\ v1[v2 - 1] = v7
        BY <2>5, <3>3 DEF SeInv, SeSession
      <4>2. v2' = v2 /\ v1'[v2 - 1] = v1[v2 - 1] /\ v7' = v7
        BY <2>1, <2>3, <3>3, <4>1
      <4>3. QED
        BY <3>3, <4>1, <4>2
    <3>4. QED
      BY <3>1, <3>2, <3>3
  <2>6. v6' = v6 /\ v8' = v8 => SeSession'
    BY <1>1, <2>1, <2>5 DEF SeSession
  <2>9. QED
    BY <1>1, <1>4, <2>1, <2>2, <2>3, <2>6
<1>5. QED
  BY <1>3, <1>4

LEMMA SeSynced ==
  ASSUME NEW text \in Se!Drafts, NEW was \in SearchTexts, NEW q \in SearchTexts
  PROVE  /\ Se!Synced(text, was, q) \in Se!Drafts
         /\ text.text = was \/ text.text = q => Se!Synced(text, was, q).text = q
         /\ text.text = q \/ q = was => Se!Synced(text, was, q) = text
<1>1. [text |-> q, spaced |-> FALSE] \in Se!Drafts
  BY DEF Se!Drafts
<1>2. QED
  BY <1>1 DEF Se!Synced, Se!Text, Se!Trim

(* A menu, or the search of the top bar: the box has lost the focus. *)
LEMMA SeUpdate ==
  ASSUME SeInv, NEW filters \in Se!Searches, filters.ids \in {None, filters.project}, Se!Update(filters)
  PROVE  SeInv'
<1>1. /\ ~v6 /\ Se!Commit(filters, FALSE) /\ v3' = Se!Synced(v3, Se!Current.q, filters.q)
      /\ v4' = v4 /\ v5' = v5 /\ v6' = v6 /\ v7' = v7 /\ v8' = v8
  BY DEF Se!Update
<1>2. v4 = None /\ v3 \in Se!Drafts /\ v3.text = v1[v2].q
  BY <1>1 DEF SeInv
<1>3. /\ v1' \in Seq(Se!Searches) /\ v2' \in 1..Len(v1') /\ v1'[v2'] = filters /\ Se!IdsAreOfProject'
  BY <1>1, SeCommit
<1>4. Se!Current = v1[v2] /\ v1[v2].q \in SearchTexts /\ filters.q \in SearchTexts
  BY SeHere DEF Se!Searches
<1>5. v3' \in Se!Drafts /\ v3'.text = filters.q
  BY <1>1, <1>2, <1>4, SeSynced
<1>6. SeSession'
  BY <1>1 DEF SeSession
<1>7. QED
  BY <1>1, <1>2, <1>3, <1>5, <1>6 DEF SeInv

LEMMA SeMenus ==
  ASSUME SeInv, Se!ProjectFilter \/ Se!ProjectMenu \/ Se!SprintFilterMenu \/ Se!ClearFilters \/ Se!TopNavSearch
  PROVE  SeInv'
<1> DEFINE now == v1[v2]
<1>1. Se!Current = now /\ now \in Se!Searches /\ now.ids \in {None, now.project}
  BY SeHere
<1>2. Empty \in SearchTexts
  BY SeAssumed
<1>3. now = [q |-> now.q, project |-> now.project, ids |-> now.ids, sprint |-> now.sprint]
      /\ now.q \in SearchTexts /\ now.project \in Projects \cup {None}
      /\ now.ids \in Projects \cup {None} /\ now.sprint \in BOOLEAN
  BY <1>1 DEF Se!Searches
<1> HIDE DEF now
<1>4. CASE Se!ProjectFilter
  <2>1. PICK next \in Projects \cup {None} :
          Se!Update([Se!WithoutProjectScoped(now, next) EXCEPT !.project = next])
    BY <1>1, <1>4 DEF Se!ProjectFilter
  <2> DEFINE sprint == now.sprint /\ next \notin (Projects \ Scrum)
             filters == [q |-> now.q, project |-> next, ids |-> None, sprint |-> sprint]
  <2>2. sprint \in BOOLEAN
    OBVIOUS
  <2>3. Se!WithoutProjectScoped(now, next)
          = [q |-> now.q, project |-> now.project, ids |-> None, sprint |-> sprint]
    <3>1. Se!WithoutProjectScoped(now, next) = [now EXCEPT !.ids = None, !.sprint = sprint]
      BY DEF Se!WithoutProjectScoped
    <3> HIDE DEF sprint
    <3>2. QED
      BY <1>3, <3>1
  <2> HIDE DEF sprint
  <2>4. [Se!WithoutProjectScoped(now, next) EXCEPT !.project = next] = filters
    BY <2>3
  <2>5. filters \in Se!Searches /\ filters.ids \in {None, filters.project}
    BY <1>3, <2>2 DEF Se!Searches
  <2> HIDE DEF filters
  <2>6. QED
    BY <2>1, <2>4, <2>5, SeUpdate
<1>5. CASE Se!ProjectMenu
  <2>1. PICK ids \in {None, now.project} : Se!Update([now EXCEPT !.ids = ids])
    BY <1>1, <1>5 DEF Se!ProjectMenu
  <2> DEFINE filters == [now EXCEPT !.ids = ids]
  <2>2. filters \in Se!Searches /\ filters.ids \in {None, filters.project}
    BY <1>3, <2>1 DEF Se!Searches
  <2> HIDE DEF filters
  <2>3. Se!Update(filters)
    BY <2>1 DEF filters
  <2>4. QED
    BY <2>2, <2>3, SeUpdate
<1>6. CASE Se!SprintFilterMenu
  <2> DEFINE filters == [now EXCEPT !.sprint = ~@]
  <2>1. filters \in Se!Searches /\ filters.ids \in {None, filters.project}
    <3>1. filters.ids = now.ids /\ filters.project = now.project
      BY <1>3
    <3>2. (~now.sprint) \in BOOLEAN
      OBVIOUS
    <3>3. filters \in Se!Searches
      BY <1>3, <3>2 DEF Se!Searches
    <3>4. QED
      BY <1>1, <3>1, <3>3
  <2>2. Se!Update(filters)
    BY <1>1, <1>6 DEF Se!SprintFilterMenu
  <2> HIDE DEF filters
  <2>3. QED
    BY <2>1, <2>2, SeUpdate
<1>7. CASE Se!ClearFilters
  <2>1. Se!EmptyFilters \in Se!Searches /\ Se!EmptyFilters.ids \in {None, Se!EmptyFilters.project}
    BY <1>2 DEF Se!EmptyFilters, Se!Filters, Se!Searches
  <2>2. Se!Update(Se!EmptyFilters)
    BY <1>7 DEF Se!ClearFilters
  <2>3. QED
    BY <2>1, <2>2, SeUpdate
<1>8. CASE Se!TopNavSearch
  <2>1. PICK q \in SearchTexts : Se!Update([Se!EmptyFilters EXCEPT !.q = q])
    BY <1>8 DEF Se!TopNavSearch
  <2> DEFINE filters == [Se!EmptyFilters EXCEPT !.q = q]
  <2>2. filters \in Se!Searches /\ filters.ids \in {None, filters.project}
    BY <1>2, <2>1 DEF Se!EmptyFilters, Se!Filters, Se!Searches
  <2> HIDE DEF filters
  <2>3. Se!Update(filters)
    BY <2>1 DEF filters
  <2>4. QED
    BY <2>2, <2>3, SeUpdate
<1>9. QED
  BY <1>4, <1>5, <1>6, <1>7, <1>8

(* The history and what types in the box. *)
LEMMA SeStep == ASSUME SeInv, [Se!Next]_Se!vars PROVE SeInv'
<1>0. /\ v1 \in Seq(Se!Searches) /\ v2 \in 1..Len(v1) /\ v3 \in Se!Drafts /\ v4 \in {None} \cup Se!Timers
      /\ v5 \in BOOLEAN /\ v6 \in BOOLEAN /\ v8 \in BOOLEAN
      /\ Se!Current = v1[v2] /\ v1[v2] \in Se!Searches /\ v1[v2].q \in SearchTexts
      /\ v3.text \in SearchTexts /\ Se!Trim(v3) = v3.text
  <2>1. /\ v1 \in Seq(Se!Searches) /\ v2 \in 1..Len(v1) /\ v3 \in Se!Drafts /\ v4 \in {None} \cup Se!Timers
        /\ v5 \in BOOLEAN /\ v6 \in BOOLEAN /\ v8 \in BOOLEAN
    BY DEF SeInv
  <2>2. QED
    BY <2>1, SeHere DEF Se!Searches, Se!Drafts, Se!Trim
<1>1. CASE Se!ProjectFilter \/ Se!ProjectMenu \/ Se!SprintFilterMenu \/ Se!ClearFilters \/ Se!TopNavSearch
  BY <1>1, SeMenus
<1>2. CASE Se!Traverse
  <2>1. PICK to \in 1..Len(v1) :
          /\ v2' = to /\ v3' = Se!Synced(v3, Se!Current.q, Se!ParseFilters(v1[to]).q)
          /\ v7' = IF v6 THEN Lost ELSE v7
          /\ v1' = v1 /\ v4' = v4 /\ v5' = v5 /\ v6' = v6 /\ v8' = v8
    BY <1>2 DEF Se!Traverse
  <2>2. v1[to] \in Se!Searches /\ v1[to].ids \in {None, v1[to].project} /\ to \in DOMAIN v1
    BY <1>0 DEF SeInv, Se!IdsAreOfProject
  <2>3. Se!ParseFilters(v1[to]) = v1[to] /\ v1[to].q \in SearchTexts
    BY <2>2, SeCurrent DEF Se!Searches
  <2>4. /\ v3' \in Se!Drafts
        /\ v3.text = v1[v2].q => v3'.text = v1[to].q
        /\ v1[to].q = v1[v2].q \/ v3.text = v1[to].q => v3' = v3
        /\ v3'.text = v1[to].q \/ v1[to].q = v1[v2].q
    BY <1>0, <2>1, <2>3, SeSynced DEF Se!Synced, Se!Text, Se!Trim
  <2>5. v4' # None => v6'
    BY <2>1 DEF SeInv
  <2>6. v4' # None => (v3' = v4'.text /\ v4'.value = v1'[v2'].q) \/ v3'.text = v1'[v2'].q
    BY <2>1, <2>4 DEF SeInv
  <2>7. v4' = None => v3'.text = v1'[v2'].q
    BY <2>1, <2>4 DEF SeInv
  <2>8. SeSession'
    BY <2>1, SeAssumed DEF SeSession
  <2>9. Se!IdsAreOfProject'
    BY <2>1 DEF SeInv, Se!IdsAreOfProject
  <2>10. QED
    BY <1>0, <2>1, <2>4, <2>5, <2>6, <2>7, <2>8, <2>9 DEF SeInv
<1>3. CASE Se!Focus
  <2>1. ~v6 /\ v6' = TRUE /\ v7' = None /\ v8' = v5
        /\ v1' = v1 /\ v2' = v2 /\ v3' = v3 /\ v4' = v4 /\ v5' = v5
    BY <1>3 DEF Se!Focus
  <2>2. v4 = None /\ v3.text = v1[v2].q
    BY <2>1 DEF SeInv
  <2>3. SeSession'
    BY <1>0, <2>1, <2>2 DEF SeSession
  <2>4. QED
    BY <1>0, <2>1, <2>2, <2>3 DEF SeInv, Se!IdsAreOfProject
<1>4. CASE \E text \in Se!Drafts : Se!Type(text)
  <2>1. PICK text \in Se!Drafts : Se!Type(text)
    BY <1>4
  <2>2. /\ v6 /\ v3' = text /\ v4' = [text |-> text, value |-> v1[v2].q]
        /\ v1' = v1 /\ v2' = v2 /\ v5' = v5 /\ v6' = v6 /\ v7' = v7 /\ v8' = v8
    BY <1>0, <2>1 DEF Se!Type
  <2>3. v4' \in Se!Timers /\ v4' # None /\ v4'.text = v3' /\ v4'.value = v1[v2].q
    BY <1>0, <2>2, SeAssumed DEF Se!Timers
  <2>4. SeSession'
    BY <2>2, <2>3 DEF SeInv, SeSession
  <2>5. QED
    BY <1>0, <2>2, <2>3, <2>4 DEF SeInv, Se!IdsAreOfProject
<1>5. CASE Se!TimerFires
  <2>1. v4 # None /\ Se!Write(v4.text, v4.value) /\ v3' = Se!Synced(v3, v1[v2].q, v1'[v2'].q)
        /\ v6' = v6 /\ v8' = v8
    BY <1>0, <1>5 DEF Se!TimerFires
  <2>2. v4.text \in Se!Drafts /\ v4.value \in SearchTexts /\ v4.text.text \in SearchTexts
    BY <1>0, <2>1 DEF Se!Timers, Se!Drafts
  <2>3. v6 /\ ~v8 /\ v7 = None => v4.value = v1[v2].q
    BY <2>1 DEF SeInv, SeSession
  <2>4. /\ v1' \in Seq(Se!Searches) /\ v2' \in 1..Len(v1') /\ Se!IdsAreOfProject'
        /\ v4' = None /\ v5' \in BOOLEAN
        /\ v1'[v2'].q = IF v4.text.text = v4.value THEN v1[v2].q ELSE v4.text.text
        /\ SeSession'
    BY <2>1, <2>2, <2>3, SeWrite
  <2>5. v1'[v2'].q \in SearchTexts
    BY <1>0, <2>2, <2>4
  <2>6. v3.text = v1[v2].q \/ v3.text = v1'[v2'].q
    BY <2>1, <2>4 DEF SeInv
  <2>7. v3' \in Se!Drafts /\ v3'.text = v1'[v2'].q
    BY <1>0, <2>1, <2>5, <2>6, SeSynced
  <2>8. QED
    BY <1>0, <2>1, <2>4, <2>7 DEF SeInv
<1>6. CASE Se!Enter
  <2>1. v6 /\ Se!Write(v3, v1[v2].q) /\ v3' = v3 /\ v6' = v6 /\ v8' = v8
    BY <1>0, <1>6 DEF Se!Enter
  <2>2. /\ v1' \in Seq(Se!Searches) /\ v2' \in 1..Len(v1') /\ Se!IdsAreOfProject'
        /\ v4' = None /\ v5' \in BOOLEAN
        /\ v1'[v2'].q = v3.text
        /\ SeSession'
    BY <1>0, <2>1, SeWrite
  <2>3. QED
    BY <1>0, <2>1, <2>2 DEF SeInv
<1>7. CASE Se!Clear
  <2> DEFINE none == [text |-> Empty, spaced |-> FALSE]
  <2>1. Se!Write(none, v1[v2].q) /\ v3' = none /\ v6' = v6 /\ v8' = v8
    BY <1>0, <1>7 DEF Se!Clear, Se!Text
  <2>2. none \in Se!Drafts /\ none.text = Empty
    BY SeAssumed DEF Se!Drafts
  <2> HIDE DEF none
  <2>3. /\ v1' \in Seq(Se!Searches) /\ v2' \in 1..Len(v1') /\ Se!IdsAreOfProject'
        /\ v4' = None /\ v5' \in BOOLEAN
        /\ v1'[v2'].q = none.text
        /\ SeSession'
    BY <1>0, <2>1, <2>2, SeWrite
  <2>4. QED
    BY <1>0, <2>1, <2>2, <2>3 DEF SeInv
<1>8. CASE Se!Blur
  <2>1. /\ v6' = FALSE /\ v4' = None /\ v5' = FALSE /\ v7' = None /\ v3' = v3 /\ v8' = v8
        /\ IF v3.text = v1[v2].q THEN v1' = v1 /\ v2' = v2
           ELSE Se!Commit([v1[v2] EXCEPT !.q = v3.text], v5)
    BY <1>0, <1>8 DEF Se!Blur
  <2>2. SeSession'
    BY <2>1 DEF SeSession
  <2>3. CASE v3.text = v1[v2].q
    BY <1>0, <2>1, <2>2, <2>3 DEF SeInv, Se!IdsAreOfProject
  <2>4. CASE v3.text # v1[v2].q
    <3> DEFINE filters == [v1[v2] EXCEPT !.q = v3.text]
    <3>1. filters \in Se!Searches /\ filters.ids \in {None, filters.project} /\ filters.q = v3.text
      BY <1>0, SeHere DEF Se!Searches
    <3>2. Se!Commit(filters, v5)
      BY <2>1, <2>4
    <3> HIDE DEF filters
    <3>3. v1' \in Seq(Se!Searches) /\ v2' \in 1..Len(v1') /\ v1'[v2'] = filters /\ Se!IdsAreOfProject'
      BY <1>0, <3>1, <3>2, SeCommit
    <3>4. QED
      BY <1>0, <2>1, <2>2, <3>1, <3>3 DEF SeInv
  <2>5. QED
    BY <2>3, <2>4
<1>9. CASE UNCHANGED Se!vars
  BY <1>0, <1>9 DEF Se!vars, SeInv, SeSession, Se!IdsAreOfProject
<1>10. QED
  BY <1>1, <1>2, <1>3, <1>4, <1>5, <1>6, <1>7, <1>8, <1>9 DEF Se!Next

LEMMA SeShows == ASSUME SeInv PROVE Se!BoxShowsSearch /\ Se!BackRestoresSearch /\ Se!IdsAreOfProject
<1>1. Se!BoxShowsSearch
  BY SeHere DEF SeInv, Se!BoxShowsSearch, Se!Trim
<1>2. v2 \in Nat
  BY DEF SeInv
<1>3. Se!BackRestoresSearch
  BY <1>2 DEF SeInv, SeSession, Se!BackRestoresSearch, Se!BackRestoresTyping
<1>4. QED
  BY <1>1, <1>3 DEF SeInv

(* The text box never lies about the search: with no text waiting to be written, what it shows
   is what is searched for. Back returns to the search before the typing, whatever was typed,
   cleared and blurred before. No search has the ids of another project. And the rows of a
   settled table are those of the search on screen: one request's page, or, where the scan
   serves, the sorted cut of the pieces' rows, none of them twice. *)
THEOREM SearchIsAlwaysShown == Spec => []SearchIsShown
<1> DEFINE I == /\ shown = "search" => SeInv
                /\ shown = "searchResults" => SrInv
<1>1. Init => I
  BY SeInit, SrInit DEF Init
<1>2. I /\ [Next]_vars => I'
  <2>1. [Next]_vars => shown' = shown
    BY DEF Next, vars
  <2>2. ASSUME I, [Next]_vars, shown = "search" PROVE SeInv'
    <3>1. [Se!Next]_Se!vars
      BY <2>2 DEF Next, vars, Se!vars
    <3>2. QED
      BY <2>2, <3>1, SeStep
  <2>3. ASSUME I, [Next]_vars, shown = "searchResults" PROVE SrInv'
    <3>1. [Sr!Next]_Sr!vars
      BY <2>3 DEF Next, vars, Sr!vars
    <3>2. QED
      BY <2>3, <3>1, SrStep
  <2>4. QED
    BY <2>1, <2>2, <2>3
<1>3. I => SearchIsShown
  BY SeShows, SrRows DEF SearchIsShown
<1>4. QED
  BY <1>1, <1>2, <1>3, PTL DEF Spec
=============================================================================

--------------------------- MODULE SettingsProofs ---------------------------
(***************************************************************************)
(* What Settings promises to the customers' pages and to the manager, for  *)
(* any forms, any number of them at a time, and any configuration file.    *)
(***************************************************************************)
EXTENDS Settings, SequenceTheorems, FiniteSetTheorems, TLAPS

-----------------------------------------------------------------------------
(***************************************************************************)
(* The rows of a form.                                                     *)
(***************************************************************************)

\* The keys, by their places.
LEMMA KeyPlaces ==
  /\ Len(Keys) = 6
  /\ \A i \in 1..Len(Keys) : Keys[i] \in Key
  /\ \A k \in Key : \E i \in 1..Len(Keys) : Keys[i] = k
  /\ "cafe_name" \in Key /\ "theme_color" \in Key
<1>1. Len(Keys) = 6 /\ DOMAIN Keys = 1..6
  BY DEF Keys
<1>2. Key = {Keys[i] : i \in 1..6}
  BY <1>1 DEF Key, Range
<1>3. Keys[1] = "cafe_name" /\ Keys[3] = "theme_color"
  BY DEF Keys
<1> QED
  BY <1>1, <1>2, <1>3

\* The file's name and colour were accepted.
LEMMA FileIsAccepted ==
  /\ File.cafe_name \notin {"", "long"}
  /\ File.theme_color \in Color
  /\ IsValidHexColor(File.theme_color)
BY SettingsAssumption, Zenon

\* What stands for no form is none.
LEMMA MarksApart ==
  /\ NoRow # "" /\ Mixed # NoRow
  /\ \A form \in Forms : form # NoRow /\ form # Mixed
<1>1. NoRow # "" /\ Mixed # NoRow /\ {NoRow, Mixed} \cap Forms = {}
  BY SettingsAssumption, Zenon
<1> QED
  BY <1>1

\* Each form has a colour, and a value for each key.
LEMMA FormShape ==
  \A form \in Forms : /\ form.theme_color \in Color
                       /\ \A k \in Key : form[k] # NoRow
BY SettingsAssumption

\* A form without the blanks has a value for each key.
LEMMA TrimmedForm ==
  ASSUME NEW form \in Forms
  PROVE  /\ Trimmed(form) = [k \in Key |-> Trimmed(form)[k]]
         /\ \A k \in Key : Trimmed(form)[k] # NoRow
         /\ Trimmed(form)["theme_color"] = form.theme_color
         /\ form.theme_color \in Color
         /\ form # NoRow /\ form # Mixed
<1>1. /\ form.theme_color \in Color /\ \A k \in Key : form[k] # NoRow
      /\ NoRow # ""
      /\ form # NoRow /\ form # Mixed
  BY FormShape, MarksApart
<1>2. \A k \in Key : Trimmed(form)[k] = ""
                     \/ Trimmed(form)[k] = form[k]
  BY DEF Trimmed
<1>3. Trimmed(form)["theme_color"] = form["theme_color"]
  BY KeyPlaces DEF Trimmed, TextKey
<1>4. Trimmed(form) = [k \in Key |-> Trimmed(form)[k]]
  BY DEF Trimmed
<1>5. \A k \in Key : Trimmed(form)[k] # NoRow
  BY <1>1, <1>2
<1> QED
  BY <1>1, <1>3, <1>4, <1>5

\* What a handler holds.
LEMMA HandlerShape ==
  ASSUME TypeOK, NEW h \in Handler
  PROVE  /\ h \in InFlight => /\ handler[h] \in Saving
                              /\ handler[h].pc = "save"
                              /\ handler[h].form \in Forms
                              /\ handler[h].next \in 1..Len(Keys)
                              /\ handler[h].alone \in BOOLEAN
         /\ h \in Toggles => /\ handler[h] \in Toggling
                             /\ handler[h].form \in PlanForms
                             /\ handler[h].active \in BOOLEAN
<1>1. handler[h] \in {Idle} \cup Saving \cup Toggling
  BY DEF TypeOK
<1>2. Idle.pc = "idle"
  BY DEF Idle
<1>3. h \in InFlight => handler[h].pc = "save"
  BY DEF InFlight
<1>4. h \in Toggles => handler[h].pc = "toggle"
  BY DEF Toggles
<1>5. handler[h].pc = "save" => handler[h] \in Saving
  BY <1>1, <1>2 DEF Toggling
<1>6. handler[h].pc = "toggle" => handler[h] \in Toggling
  BY <1>1, <1>2 DEF Saving
<1> QED
  BY <1>3, <1>4, <1>5, <1>6 DEF Saving, Toggling

\* What the actions of one handler leave alone.
LEMMA OneHandler ==
  ASSUME TypeOK, NEW h \in Handler, NEW state, Set(h, state)
  PROVE  /\ handler'[h] = state
         /\ \A g \in Handler \ {h} : handler'[g] = handler[g]
         /\ state \in {Idle} \cup Saving \cup Toggling =>
              handler' \in [Handler -> {Idle} \cup Saving \cup Toggling]
BY DEF TypeOK, Set

\* The forms in flight when one form starts.
LEMMA StartShape ==
  ASSUME TypeOK, NEW h \in Handler, SettingsStart(h)
  PROVE  \E form \in Forms :
           /\ FormAccepted(Trimmed(form))
           /\ h \notin InFlight /\ h \notin Toggles
           /\ handler'[h] = [pc |-> "save", form |-> form, next |-> 1,
                             alone |-> InFlight = {}]
           /\ \A g \in InFlight :
                handler'[g] = [handler[g] EXCEPT !.alone = FALSE]
           /\ \A g \in Handler \ (InFlight \cup {h}) :
                handler'[g] = handler[g]
           /\ DOMAIN handler' = Handler
           /\ handler' = [g \in Handler |-> handler'[g]]
<1>1. handler[h].pc = "idle"
  BY DEF SettingsStart, Idle
<1>2. h \notin InFlight /\ h \notin Toggles /\ InFlight \subseteq Handler
  BY <1>1 DEF InFlight, Toggles
<1>3. PICK form \in Forms :
        /\ FormAccepted(Trimmed(form))
        /\ handler' = [g \in Handler |->
             CASE g = h -> [pc |-> "save", form |-> form, next |-> 1,
                            alone |-> InFlight = {}]
               [] g \in InFlight -> [handler[g] EXCEPT !.alone = FALSE]
               [] OTHER -> handler[g]]
  BY DEF SettingsStart
<1>4. /\ DOMAIN handler' = Handler
      /\ handler' = [g \in Handler |-> handler'[g]]
  BY <1>3
<1>5. handler'[h] = [pc |-> "save", form |-> form, next |-> 1,
                     alone |-> InFlight = {}]
  BY <1>2, <1>3
<1>6. ASSUME NEW g \in InFlight
      PROVE  handler'[g] = [handler[g] EXCEPT !.alone = FALSE]
  BY <1>2, <1>3
<1>7. ASSUME NEW g \in Handler \ (InFlight \cup {h})
      PROVE  handler'[g] = handler[g]
  BY <1>3
<1> QED
  BY <1>2, <1>3, <1>4, <1>5, <1>6, <1>7

-----------------------------------------------------------------------------
(***************************************************************************)
(* Plans.                                                                  *)
(***************************************************************************)

\* What a toggle holds is a plan that was accepted, and after an edit that no
\* toggle overlapped the plan and what toggles hold are the edit's.
PlanInv ==
  /\ \A h \in Toggles : handler[h].form.duration \in 1..MaxDuration
  /\ ~edit.torn => /\ plan.form = edit.form
                   /\ \A h \in Toggles : handler[h].form = edit.form

\* The settings' steps keep the types and leave plans alone.
LEMMA SettingsTypeStep ==
  ASSUME TypeOK, NEW h \in Handler,
         SettingsStart(h) \/ SetSetting(h) \/ SetSettingFails(h)
  PROVE  /\ handler' \in [Handler -> {Idle} \cup Saving \cup Toggling]
         /\ DOMAIN setting' = Key
         /\ shown' \in Forms \cup {NoRow, Mixed}
         /\ UNCHANGED <<plan, edit>>
         /\ Toggles' = Toggles
         /\ \A g \in Toggles : handler'[g] = handler[g]
<1>1. CASE SettingsStart(h)
  <2>1. PICK form \in Forms :
          /\ h \notin InFlight /\ h \notin Toggles
          /\ handler'[h] = [pc |-> "save", form |-> form, next |-> 1,
                            alone |-> InFlight = {}]
          /\ \A g \in InFlight :
               handler'[g] = [handler[g] EXCEPT !.alone = FALSE]
          /\ \A g \in Handler \ (InFlight \cup {h}) :
               handler'[g] = handler[g]
          /\ handler' = [g \in Handler |-> handler'[g]]
    BY <1>1, StartShape
  <2>2. [pc |-> "save", form |-> form, next |-> 1, alone |-> InFlight = {}]
          \in Saving
    BY KeyPlaces DEF Saving
  <2>3. \A g \in InFlight : [handler[g] EXCEPT !.alone = FALSE] \in Saving
    <3>1. \A g \in InFlight : handler[g] \in Saving
      BY HandlerShape DEF InFlight
    <3> QED
      BY <3>1 DEF Saving
  <2>4. \A g \in Handler : handler[g] \in {Idle} \cup Saving \cup Toggling
    BY DEF TypeOK
  <2>5. \A g \in Handler : handler'[g] \in {Idle} \cup Saving \cup Toggling
    BY <2>1, <2>2, <2>3, <2>4
  <2>6. handler' \in [Handler -> {Idle} \cup Saving \cup Toggling]
    BY <2>1, <2>5
  <2>7. \A g \in Handler : g \in Toggles => g \notin InFlight
    BY DEF Toggles, InFlight
  <2>8. \A g \in Toggles : handler'[g] = handler[g]
    BY <2>1, <2>7 DEF Toggles
  <2>9. \A g \in InFlight : handler'[g].pc = "save"
    BY <2>1, HandlerShape DEF InFlight, Saving
  <2>10. \A g \in Handler : handler'[g].pc = "toggle" <=> g \in Toggles
    BY <2>1, <2>8, <2>9 DEF Toggles
  <2> QED
    BY <1>1, <2>6, <2>8, <2>10 DEF SettingsStart, TypeOK, Toggles
<1>2. CASE SetSetting(h) \/ SetSettingFails(h)
  <2>1. /\ h \in InFlight /\ handler[h] \in Saving
        /\ handler[h].form \in Forms /\ handler[h].next \in 1..Len(Keys)
    BY <1>2, HandlerShape DEF SetSetting, SetSettingFails, InFlight
  <2>2. PICK state \in {Idle} \cup Saving : Set(h, state)
    <3>1. CASE SetSetting(h) /\ handler[h].next < Len(Keys)
      <4>1. [handler[h] EXCEPT !.next = handler[h].next + 1] \in Saving
        <5>1. handler[h].next + 1 \in 1..Len(Keys)
          BY <2>1, <3>1, KeyPlaces
        <5> QED
          BY <2>1, <5>1 DEF Saving
      <4>2. Set(h, [handler[h] EXCEPT !.next = handler[h].next + 1])
        BY <3>1 DEF SetSetting
      <4> QED
        BY <4>1, <4>2
    <3>2. CASE SetSettingFails(h)
               \/ (SetSetting(h) /\ ~(handler[h].next < Len(Keys)))
      BY <3>2 DEF SetSetting, SetSettingFails
    <3> QED
      BY <1>2, <3>1, <3>2
  <2>3. /\ handler'[h] = state
        /\ \A g \in Handler \ {h} : handler'[g] = handler[g]
        /\ handler' \in [Handler -> {Idle} \cup Saving \cup Toggling]
    BY <2>2, OneHandler
  <2>4. handler'[h].pc # "toggle" /\ h \notin Toggles
    BY <2>1, <2>2, <2>3 DEF Idle, Saving, Toggles
  <2>5. Toggles' = Toggles /\ \A g \in Toggles : handler'[g] = handler[g]
    BY <2>3, <2>4 DEF Toggles
  <2>6. shown' \in Forms \cup {NoRow, Mixed}
    BY <1>2, <2>1 DEF SetSetting, SetSettingFails, TypeOK
  <2>7. DOMAIN setting' = Key
    BY <1>2 DEF SetSetting, SetSettingFails, TypeOK
  <2> QED
    BY <1>2, <2>3, <2>5, <2>6, <2>7 DEF SetSetting, SetSettingFails
<1> QED
  BY <1>1, <1>2

\* What edits and toggles do to plans.
LEMMA PlanActionStep ==
  ASSUME TypeOK, PlanInv,
         \/ UpdatePlan
         \/ \E h \in Handler : ToggleRead(h) \/ ToggleWrite(h) \/ ToggleFails(h)
  PROVE  /\ handler' \in [Handler -> {Idle} \cup Saving \cup Toggling]
         /\ plan'.form \in PlanForms /\ plan'.active \in BOOLEAN
         /\ plan'.form.duration \in 1..MaxDuration
         /\ edit'.form \in PlanForms /\ edit'.torn \in BOOLEAN
         /\ UNCHANGED <<setting, shown>>
         /\ PlanInv'
<1>1. CASE UpdatePlan
  <2>1. PICK form \in PlanForms, active \in BOOLEAN :
          /\ PlanAccepted(form)
          /\ plan' = [form |-> form, active |-> active]
          /\ edit' = [form |-> form, torn |-> Toggles # {}]
    BY <1>1 DEF UpdatePlan
  <2>2. UNCHANGED <<setting, handler, shown>>
    BY <1>1 DEF UpdatePlan
  <2>3. Toggles' = Toggles
    BY <2>2 DEF Toggles
  <2>4. PlanInv'
    <3>1. \A g \in Toggles' : handler'[g].form.duration \in 1..MaxDuration
      BY <2>2, <2>3 DEF PlanInv
    <3>2. plan'.form = edit'.form
      BY <2>1
    <3>3. CASE Toggles = {}
      BY <2>3, <3>1, <3>2, <3>3 DEF PlanInv
    <3>4. CASE Toggles # {}
      <4>1. edit'.torn = TRUE
        BY <2>1, <3>4
      <4> QED
        BY <3>1, <4>1 DEF PlanInv
    <3> QED
      BY <3>3, <3>4
  <2> QED
    BY <2>1, <2>2, <2>4 DEF TypeOK, PlanAccepted
<1>2. ASSUME NEW h \in Handler, ToggleRead(h)
      PROVE  /\ handler' \in [Handler -> {Idle} \cup Saving \cup Toggling]
             /\ UNCHANGED <<plan, edit, setting, shown>>
             /\ PlanInv'
  <2>1. PICK active \in BOOLEAN :
          Set(h, [pc |-> "toggle", form |-> plan.form, active |-> active])
    BY <1>2 DEF ToggleRead
  <2>2. [pc |-> "toggle", form |-> plan.form, active |-> active] \in Toggling
    BY DEF Toggling, TypeOK
  <2>3. UNCHANGED <<plan, edit, setting, shown>>
    BY <1>2 DEF ToggleRead
  <2>4. /\ handler'[h] = [pc |-> "toggle", form |-> plan.form,
                          active |-> active]
        /\ \A g \in Handler \ {h} : handler'[g] = handler[g]
        /\ handler' \in [Handler -> {Idle} \cup Saving \cup Toggling]
    BY <2>1, <2>2, OneHandler
  <2>5. Toggles' = Toggles \cup {h}
    BY <2>4 DEF Toggles
  <2>6. PlanInv'
    <3>1. /\ Toggles \subseteq Handler
          /\ plan.form.duration \in 1..MaxDuration
          /\ handler'[h].form = plan.form
      BY <2>4 DEF Toggles, TypeOK
    <3>2. \A g \in Toggles' :
            \/ handler'[g].form = plan.form
            \/ g \in Toggles /\ handler'[g] = handler[g]
      BY <2>4, <2>5, <3>1
    <3> QED
      BY <2>3, <3>1, <3>2 DEF PlanInv
  <2> QED
    BY <2>3, <2>4, <2>6
<1>3. ASSUME NEW h \in Handler, ToggleWrite(h) \/ ToggleFails(h)
      PROVE  /\ handler' \in [Handler -> {Idle} \cup Saving \cup Toggling]
             /\ plan'.form \in PlanForms /\ plan'.active \in BOOLEAN
             /\ plan'.form.duration \in 1..MaxDuration
             /\ UNCHANGED <<edit, setting, shown>>
             /\ PlanInv'
  <2>1. /\ h \in Toggles /\ handler[h].form \in PlanForms
        /\ handler[h].active \in BOOLEAN
        /\ handler[h].form.duration \in 1..MaxDuration
    BY <1>3, HandlerShape DEF ToggleWrite, ToggleFails, Toggles, PlanInv
  <2>2. /\ handler'[h] = Idle
        /\ \A g \in Handler \ {h} : handler'[g] = handler[g]
        /\ handler' \in [Handler -> {Idle} \cup Saving \cup Toggling]
    BY <1>3, OneHandler DEF ToggleWrite, ToggleFails
  <2>3. Toggles' = Toggles \ {h}
    BY <2>2 DEF Toggles, Idle
  <2>4. UNCHANGED <<edit, setting, shown>>
    BY <1>3 DEF ToggleWrite, ToggleFails
  <2>5. plan' = [form |-> handler[h].form, active |-> handler[h].active]
        \/ plan' = plan
    BY <1>3 DEF ToggleWrite, ToggleFails
  <2>6. PlanInv'
    <3>1. plan'.form = handler[h].form \/ plan'.form = plan.form
      BY <2>5
    <3>2. \A g \in Toggles' : g \in Toggles /\ handler'[g] = handler[g]
      BY <2>2, <2>3 DEF Toggles
    <3> QED
      BY <2>1, <2>4, <3>1, <3>2 DEF PlanInv
  <2> QED
    BY <2>1, <2>2, <2>4, <2>5, <2>6 DEF TypeOK
<1>4. CASE \E h \in Handler : ToggleRead(h)
  BY <1>2, <1>4 DEF TypeOK
<1>5. CASE \E h \in Handler : ToggleWrite(h) \/ ToggleFails(h)
  BY <1>3, <1>5 DEF TypeOK
<1> QED
  BY <1>1, <1>4, <1>5

\* Every step keeps the types and the plans.
LEMMA PlanStep ==
  TypeOK /\ PlanInv /\ [Next]_vars => TypeOK' /\ PlanInv'
<1> SUFFICES ASSUME TypeOK, PlanInv, [Next]_vars
             PROVE  TypeOK' /\ PlanInv'
  OBVIOUS
<1>1. CASE LoadConfig /\ UNCHANGED formVars
  BY <1>1 DEF LoadConfig, formVars, TypeOK, PlanInv, Toggles
<1>2. ASSUME NEW h \in Handler, UNCHANGED config,
             SettingsStart(h) \/ SetSetting(h) \/ SetSettingFails(h)
      PROVE  TypeOK' /\ PlanInv'
  <2>1. /\ handler' \in [Handler -> {Idle} \cup Saving \cup Toggling]
        /\ DOMAIN setting' = Key
        /\ shown' \in Forms \cup {NoRow, Mixed}
        /\ UNCHANGED <<plan, edit>>
        /\ Toggles' = Toggles
        /\ \A g \in Toggles : handler'[g] = handler[g]
    BY <1>2, SettingsTypeStep
  <2>2. TypeOK'
    BY <1>2, <2>1 DEF TypeOK
  <2>3. PlanInv'
    BY <2>1 DEF PlanInv
  <2> QED
    BY <2>2, <2>3
<1>3. CASE /\ UNCHANGED config
           /\ \/ UpdatePlan
              \/ \E h \in Handler :
                   ToggleRead(h) \/ ToggleWrite(h) \/ ToggleFails(h)
  BY <1>3, PlanActionStep DEF TypeOK
<1>4. CASE UNCHANGED vars
  BY <1>4 DEF vars, TypeOK, PlanInv, Toggles
<1> QED
  BY <1>1, <1>2, <1>3, <1>4 DEF Next, AdminStep

\* The first state has the types.
LEMMA PlanInit ==
  Init => TypeOK /\ PlanInv
<1> SUFFICES ASSUME Init
             PROVE  TypeOK /\ PlanInv
  OBVIOUS
<1>1. Toggles = {}
  BY DEF Init, Toggles, Idle
<1>2. plan.form = FirstPlan /\ edit.form = FirstPlan
  BY DEF Init
<1>3. plan.active \in BOOLEAN /\ edit.torn \in BOOLEAN
  BY DEF Init
<1>4. handler \in [Handler -> {Idle} \cup Saving \cup Toggling]
  BY DEF Init
<1>5. TypeOK
  <2>1. FirstPlan \in PlanForms /\ FirstPlan.duration \in 1..MaxDuration
    BY SettingsAssumption, Zenon
  <2> QED
    BY <1>2, <1>3, <1>4, <2>1 DEF Init, TypeOK
<1> QED
  BY <1>1, <1>2, <1>5 DEF PlanInv

(* All variables keep their types; in particular, however edits and        *)
(* toggles overlap, a plan lasts between a minute and a day, which the     *)
(* sessions rely on (validate_plan_input is not called by a toggle).       *)
THEOREM SettingsAreTyped ==
  Spec => []TypeOK
<1>1. Init => TypeOK /\ PlanInv
  BY PlanInit
<1>2. TypeOK /\ PlanInv /\ [Next]_vars => TypeOK' /\ PlanInv'
  BY PlanStep
<1> QED
  BY <1>1, <1>2, PTL DEF Spec

(* An edit of a plan is undone only by a toggle that had read the plan     *)
(* before the edit (api_plan_toggle's get_plan and update_plan).           *)
THEOREM EditsAreNotUndone ==
  Spec => []EditNotUndone
<1>1. Init => TypeOK /\ PlanInv
  BY PlanInit
<1>2. TypeOK /\ PlanInv /\ [Next]_vars => TypeOK' /\ PlanInv'
  BY PlanStep
<1>3. PlanInv => EditNotUndone
  BY DEF PlanInv, EditNotUndone
<1> QED
  BY <1>1, <1>2, <1>3, PTL DEF Spec

-----------------------------------------------------------------------------
(***************************************************************************)
(* The cafe's settings.                                                    *)
(***************************************************************************)

\* Forms that are stored; a form that is refused leaves nothing.
AcceptedForms == {form \in Forms : FormAccepted(Trimmed(form))}

\* What a form has that is being stored: it was checked, and if no other form
\* overlaps, what it has written so far is there.
SavingInv ==
  \A h \in InFlight : \E form \in AcceptedForms :
    /\ handler[h].form = form
    /\ handler[h].alone =>
         /\ InFlight = {h}
         /\ \A i \in 1..(handler[h].next - 1) :
              setting[Keys[i]] = Trimmed(form)[Keys[i]]

\* The rows come from forms that were accepted.
RowsInv ==
  /\ setting = [k \in Key |-> setting[k]]
  /\ \A k \in Key : setting[k] = NoRow
                    \/ \E form \in AcceptedForms : setting[k] = Trimmed(form)[k]

\* No form in flight has written a row yet.
Untouched == \A h \in InFlight : handler[h].next = 1

\* Until then, the rows are the shown form's.
ShownInv ==
  /\ shown \in AcceptedForms \cup {NoRow, Mixed}
  /\ Untouched =>
       /\ shown = NoRow => \A k \in Key : setting[k] = NoRow
       /\ \A form \in AcceptedForms :
            shown = form => \A k \in Key : setting[k] = Trimmed(form)[k]

SettingsInv == SavingInv /\ RowsInv /\ ShownInv

\* A form is accepted and starts.
LEMMA StartKeepsSettings ==
  ASSUME TypeOK, SettingsInv, NEW h \in Handler, SettingsStart(h)
  PROVE  SettingsInv'
<1>1. PICK form \in Forms :
        /\ FormAccepted(Trimmed(form))
        /\ h \notin InFlight
        /\ handler'[h] = [pc |-> "save", form |-> form, next |-> 1,
                          alone |-> InFlight = {}]
        /\ \A g \in InFlight :
             handler'[g] = [handler[g] EXCEPT !.alone = FALSE]
        /\ \A g \in Handler \ (InFlight \cup {h}) : handler'[g] = handler[g]
  BY StartShape
<1>2. UNCHANGED <<setting, shown>>
  BY DEF SettingsStart
<1>3. /\ handler'[h].pc = "save" /\ handler'[h].form = form
      /\ handler'[h].next = 1
      /\ handler'[h].alone => InFlight = {}
  <2>1. /\ handler'[h].pc = "save" /\ handler'[h].form = form
        /\ handler'[h].next = 1
    BY <1>1
  <2>2. ASSUME InFlight # {}
        PROVE  handler'[h].alone = FALSE
    <3>1. (InFlight = {}) = FALSE
      BY <2>2
    <3>2. handler'[h] = [pc |-> "save", form |-> form, next |-> 1,
                         alone |-> FALSE]
      BY <1>1, <3>1
    <3> QED
      BY <3>2
  <2> QED
    BY <2>1, <2>2
<1>4. \A g \in InFlight :
        /\ g \in Handler
        /\ handler'[g].pc = "save" /\ handler'[g].form = handler[g].form
        /\ handler'[g].next = handler[g].next /\ ~handler'[g].alone
  <2>1. \A g \in InFlight : g \in Handler /\ handler[g] \in Saving
    BY HandlerShape DEF InFlight
  <2>2. \A g \in InFlight : handler[g].pc = "save"
    BY DEF InFlight
  <2> QED
    BY <1>1, <2>1, <2>2 DEF Saving
<1>5. InFlight' = InFlight \cup {h}
  BY <1>1, <1>3, <1>4 DEF InFlight
<1>6. SavingInv'
  <2> SUFFICES ASSUME NEW g \in InFlight'
               PROVE  \E f \in AcceptedForms :
                        /\ handler'[g].form = f
                        /\ handler'[g].alone =>
                             /\ InFlight' = {g}
                             /\ \A i \in 1..(handler'[g].next - 1) :
                                  setting'[Keys[i]] = Trimmed(f)[Keys[i]]
    BY DEF SavingInv
  <2>1. CASE g = h
    BY <1>1, <1>3, <1>5, <2>1 DEF AcceptedForms
  <2>2. CASE g \in InFlight
    BY <1>4, <2>2 DEF SettingsInv, SavingInv
  <2> QED
    BY <1>5, <2>1, <2>2
<1>7. RowsInv'
  BY <1>2 DEF SettingsInv, RowsInv
<1>8. ShownInv'
  <2>1. Untouched' => Untouched
    BY <1>4, <1>5 DEF Untouched
  <2> QED
    BY <1>2, <2>1 DEF SettingsInv, ShownInv
<1> QED
  BY <1>6, <1>7, <1>8 DEF SettingsInv

\* A row is written, or cannot be.
LEMMA RowKeepsSettings ==
  ASSUME TypeOK, SettingsInv, NEW h \in Handler,
         SetSetting(h) \/ SetSettingFails(h)
  PROVE  SettingsInv'
<1>a. h \in InFlight
  BY DEF SetSetting, SetSettingFails, InFlight
<1>b. PICK form \in AcceptedForms :
        /\ handler[h].form = form
        /\ handler[h].alone =>
             /\ InFlight = {h}
             /\ \A i \in 1..(handler[h].next - 1) :
                  setting[Keys[i]] = Trimmed(form)[Keys[i]]
  BY <1>a DEF SettingsInv, SavingInv
<1>c. PICK next \in 1..6 : handler[h].next = next
  BY <1>a, HandlerShape, KeyPlaces
<1>1. /\ handler[h] \in Saving /\ handler[h].pc = "save"
      /\ handler[h].alone \in BOOLEAN
  BY <1>a, HandlerShape
<1>2. form \in Forms /\ form # NoRow /\ form # Mixed
  BY TrimmedForm DEF AcceptedForms
<1>3. PICK state :
        /\ Set(h, state)
        /\ \/ state = Idle
           \/ /\ SetSetting(h) /\ next < 6
              /\ state = [handler[h] EXCEPT !.next = next + 1]
  BY <1>c, KeyPlaces DEF SetSetting, SetSettingFails
<1>4. /\ handler'[h] = state
      /\ \A g \in Handler \ {h} : handler'[g] = handler[g]
  BY <1>3, OneHandler
<1>5. \A g \in InFlight : g # h => /\ handler[g].alone \in BOOLEAN
                                   /\ ~handler[g].alone
  <2> SUFFICES ASSUME NEW g \in InFlight, g # h
               PROVE  handler[g].alone \in BOOLEAN /\ ~handler[g].alone
    OBVIOUS
  <2>1. handler[g].alone \in BOOLEAN
    BY HandlerShape DEF InFlight
  <2>2. InFlight # {g}
    BY <1>a
  <2> QED
    BY <2>1, <2>2 DEF SettingsInv, SavingInv
<1>6. RowsInv'
  <2>1. CASE SetSetting(h)
    <3>1. Keys[next] \in Key
      BY KeyPlaces
    <3>2. setting' = [setting EXCEPT ![Keys[next]]
                                       = Trimmed(form)[Keys[next]]]
      BY <1>b, <1>c, <2>1 DEF SetSetting
    <3>3. /\ setting' = [k \in Key |-> setting'[k]]
          /\ \A k \in Key : setting'[k] = IF k = Keys[next]
                                            THEN Trimmed(form)[k]
                                            ELSE setting[k]
      BY <3>1, <3>2 DEF SettingsInv, RowsInv
    <3> QED
      BY <3>3 DEF SettingsInv, RowsInv
  <2>2. CASE SetSettingFails(h)
    BY <2>2 DEF SetSettingFails, SettingsInv, RowsInv
  <2> QED
    BY <2>1, <2>2
<1>7. CASE /\ SetSetting(h) /\ next < 6
           /\ state = [handler[h] EXCEPT !.next = next + 1]
  <2>1. /\ handler'[h].pc = "save" /\ handler'[h].form = form
        /\ handler'[h].next = next + 1
        /\ handler'[h].alone = handler[h].alone
    BY <1>1, <1>b, <1>4, <1>7 DEF Saving
  <2>2. InFlight' = InFlight
    BY <1>a, <1>4, <2>1 DEF InFlight
  <2>3. /\ setting' = [setting EXCEPT ![Keys[next]]
                                        = Trimmed(form)[Keys[next]]]
        /\ Keys[next] \in Key
        /\ UNCHANGED shown
    BY <1>b, <1>c, <1>7, KeyPlaces DEF SetSetting
  <2>4. handler[h].alone => \A i \in 1..next :
          setting'[Keys[i]] = Trimmed(form)[Keys[i]]
    <3> SUFFICES ASSUME handler[h].alone, NEW i \in 1..next
                 PROVE  setting'[Keys[i]] = Trimmed(form)[Keys[i]]
      OBVIOUS
    <3>1. CASE i = next
      BY <2>3, <3>1 DEF TypeOK
    <3>2. CASE i # next
      <4>1. i \in 1..(next - 1) /\ i \in 1..Len(Keys)
        BY <3>2, KeyPlaces
      <4>2. setting[Keys[i]] = Trimmed(form)[Keys[i]]
        BY <1>b, <1>c, <4>1
      <4>3. Keys[i] \in DOMAIN setting
        BY <4>1, KeyPlaces DEF TypeOK
      <4> QED
        BY <2>3, <4>2, <4>3
    <3> QED
      BY <3>1, <3>2
  <2>5. SavingInv'
    <3> SUFFICES ASSUME NEW g \in InFlight
                 PROVE  \E f \in AcceptedForms :
                          /\ handler'[g].form = f
                          /\ handler'[g].alone =>
                               /\ InFlight' = {g}
                               /\ \A i \in 1..(handler'[g].next - 1) :
                                    setting'[Keys[i]] = Trimmed(f)[Keys[i]]
      BY <2>2 DEF SavingInv
    <3>1. CASE g = h
      <4>1. handler'[h].next - 1 = next
        BY <2>1
      <4> QED
        BY <1>b, <2>1, <2>2, <2>4, <3>1, <4>1
    <3>2. CASE g # h
      <4>1. handler'[g] = handler[g] /\ ~handler[g].alone
        BY <1>4, <1>5, <3>2 DEF InFlight
      <4>2. PICK f \in AcceptedForms : handler[g].form = f
        BY DEF SettingsInv, SavingInv
      <4> QED
        BY <4>1, <4>2
    <3> QED
      BY <3>1, <3>2
  <2>6. ShownInv'
    <3>1. ~Untouched'
      BY <1>a, <2>1, <2>2 DEF Untouched
    <3> QED
      BY <2>3, <3>1 DEF SettingsInv, ShownInv
  <2> QED
    BY <1>6, <2>5, <2>6 DEF SettingsInv
<1>8. CASE state = Idle
  <2>1. InFlight' = InFlight \ {h}
    BY <1>4, <1>8 DEF InFlight, Idle
  <2>2. SavingInv'
    <3>1. \A g \in InFlight' : /\ g # h /\ g \in InFlight
                               /\ handler'[g] = handler[g]
      BY <1>4, <2>1 DEF InFlight
    <3>2. \A g \in InFlight' : \E f \in AcceptedForms : handler'[g].form = f
      BY <3>1 DEF SettingsInv, SavingInv
    <3>3. \A g \in InFlight' : ~handler'[g].alone
      BY <3>1, <1>5
    <3> QED
      BY <3>2, <3>3 DEF SavingInv
  <2>3. CASE SetSettingFails(h)
    <3>1. UNCHANGED setting /\ shown' = IF next > 1 THEN Mixed ELSE shown
      BY <1>c, <2>3 DEF SetSettingFails
    <3>2. ASSUME next > 1
          PROVE  ShownInv'
      <4>1. shown' = Mixed
        BY <3>1, <3>2
      <4> QED
        BY <4>1, MarksApart DEF ShownInv, AcceptedForms
    <3>3. ASSUME ~(next > 1)
          PROVE  ShownInv'
      <4>1. handler[h].next = 1 /\ shown' = shown
        BY <1>c, <3>1, <3>3
      <4>2. Untouched' => Untouched
        BY <1>4, <2>1, <4>1 DEF Untouched, InFlight
      <4> QED
        BY <3>1, <4>1, <4>2 DEF SettingsInv, ShownInv
    <3> QED
      BY <1>6, <2>2, <3>2, <3>3 DEF SettingsInv
  <2>4. CASE SetSetting(h)
    <3>1. next = 6
      <4>1. ASSUME next < 6
            PROVE  handler'[h] = [handler[h] EXCEPT !.next = next + 1]
        <5>1. Set(h, [handler[h] EXCEPT !.next = next + 1])
          BY <1>c, <2>4, <4>1, KeyPlaces DEF SetSetting
        <5> QED
          BY <5>1, OneHandler
      <4>2. [handler[h] EXCEPT !.next = next + 1].pc = "save"
        BY <1>1 DEF Saving
      <4>3. handler'[h].pc = "idle"
        BY <1>4, <1>8 DEF Idle
      <4>4. ~(next < 6)
        BY <4>1, <4>2, <4>3
      <4> QED
        BY <4>4
    <3>2. shown' = IF handler[h].alone THEN form ELSE Mixed
      BY <1>b, <1>c, <2>4, <3>1, KeyPlaces DEF SetSetting
    <3>3. ASSUME ~handler[h].alone
          PROVE  ShownInv'
      <4>1. shown' = Mixed
        BY <3>2, <3>3
      <4> QED
        BY <4>1, MarksApart DEF ShownInv, AcceptedForms
    <3>4. ASSUME handler[h].alone
          PROVE  ShownInv'
      <4>1. \A k \in Key : setting'[k] = Trimmed(form)[k]
        <5> SUFFICES ASSUME NEW k \in Key
                     PROVE  setting'[k] = Trimmed(form)[k]
          OBVIOUS
        <5>1. PICK i \in 1..6 : Keys[i] = k
          BY KeyPlaces
        <5>2. setting' = [setting EXCEPT ![Keys[6]] = Trimmed(form)[Keys[6]]]
          BY <1>b, <1>c, <2>4, <3>1 DEF SetSetting
        <5>3. k \in DOMAIN setting
          BY DEF TypeOK
        <5>4. CASE k = Keys[6]
          BY <5>2, <5>3, <5>4
        <5>5. CASE k # Keys[6]
          <6>1. i \in 1..(next - 1)
            BY <3>1, <5>1, <5>5
          <6>2. setting[Keys[i]] = Trimmed(form)[Keys[i]]
            BY <1>b, <1>c, <3>4, <6>1
          <6> QED
            BY <5>1, <5>2, <5>3, <5>5, <6>2
        <5> QED
          BY <5>4, <5>5
      <4>2. shown' = form
        BY <3>2, <3>4
      <4> QED
        BY <1>2, <4>1, <4>2 DEF ShownInv
    <3> QED
      BY <1>6, <2>2, <3>3, <3>4 DEF SettingsInv
  <2> QED
    BY <2>3, <2>4
<1> QED
  BY <1>3, <1>7, <1>8

\* What has to do with plans touches no settings.
LEMMA PlansKeepSettings ==
  ASSUME TypeOK, SettingsInv,
         UNCHANGED <<setting, shown>>, InFlight' = InFlight,
         \A g \in InFlight : handler'[g] = handler[g]
  PROVE  SettingsInv'
<1>1. SavingInv'
  <2>1. \A g \in InFlight : handler'[g] = handler[g]
    OBVIOUS
  <2> QED
    BY <2>1 DEF SettingsInv, SavingInv
<1>2. RowsInv'
  BY DEF SettingsInv, RowsInv
<1>3. ShownInv'
  <2>1. Untouched' => Untouched
    BY DEF Untouched
  <2> QED
    BY <2>1 DEF SettingsInv, ShownInv
<1> QED
  BY <1>1, <1>2, <1>3 DEF SettingsInv

\* Every step keeps the settings.
LEMMA SettingsStep ==
  TypeOK /\ PlanInv /\ SettingsInv /\ [Next]_vars => SettingsInv'
<1> SUFFICES ASSUME TypeOK, PlanInv, SettingsInv, [Next]_vars
             PROVE  SettingsInv'
  OBVIOUS
<1>1. ASSUME NEW h \in Handler, SettingsStart(h)
      PROVE  SettingsInv'
  BY <1>1, StartKeepsSettings
<1>2. ASSUME NEW h \in Handler, SetSetting(h) \/ SetSettingFails(h)
      PROVE  SettingsInv'
  BY <1>2, RowKeepsSettings
<1>3. ASSUME NEW h \in Handler,
             ToggleRead(h) \/ ToggleWrite(h) \/ ToggleFails(h)
      PROVE  SettingsInv'
  <2>1. PICK state : /\ Set(h, state)
                     /\ state.pc # "save" /\ handler[h].pc # "save"
    <3>1. CASE ToggleRead(h)
      <4>1. PICK active \in BOOLEAN :
              Set(h, [pc |-> "toggle", form |-> plan.form,
                      active |-> active])
        BY <3>1 DEF ToggleRead
      <4>2. /\ [pc |-> "toggle", form |-> plan.form,
                active |-> active].pc # "save"
            /\ handler[h].pc # "save"
        BY <3>1 DEF ToggleRead, Idle
      <4> QED
        BY <4>1, <4>2
    <3>2. CASE ToggleWrite(h) \/ ToggleFails(h)
      <4>1. /\ Set(h, Idle) /\ Idle.pc # "save" /\ handler[h].pc # "save"
        BY <3>2 DEF ToggleWrite, ToggleFails, Idle
      <4> QED
        BY <4>1
    <3> QED
      BY <1>3, <3>1, <3>2
  <2>2. /\ handler'[h] = state
        /\ \A g \in Handler \ {h} : handler'[g] = handler[g]
    BY <2>1, OneHandler
  <2>3. InFlight' = InFlight /\ \A g \in InFlight : handler'[g] = handler[g]
    BY <2>1, <2>2 DEF InFlight
  <2>4. UNCHANGED <<setting, shown>>
    BY <1>3 DEF ToggleRead, ToggleWrite, ToggleFails
  <2> QED
    BY <2>3, <2>4, PlansKeepSettings
<1>4. CASE UNCHANGED <<setting, shown, handler>>
  BY <1>4, PlansKeepSettings DEF InFlight
<1> QED
  BY <1>1, <1>2, <1>3, <1>4
     DEF Next, AdminStep, UpdatePlan, LoadConfig, formVars, vars

\* The first state has the file's settings.
LEMMA SettingsInit ==
  Init => SettingsInv
<1> SUFFICES ASSUME Init
             PROVE  SettingsInv
  OBVIOUS
<1>1. InFlight = {}
  BY DEF Init, InFlight, Idle
<1> QED
  <2>1. SavingInv
    BY <1>1 DEF SavingInv
  <2>2. RowsInv
    BY DEF Init, RowsInv
  <2>3. ShownInv
    BY MarksApart DEF Init, ShownInv, AcceptedForms
  <2> QED
    BY <2>1, <2>2, <2>3 DEF SettingsInv

(* The settings a page shows are those of the last form that was stored    *)
(* alone and as a whole (settings_submit's loop over set_setting).         *)
THEOREM SettingsAreOfOneForm ==
  Spec => []SettingsOfOneForm
<1>1. Init => TypeOK /\ PlanInv /\ SettingsInv
  BY PlanInit, SettingsInit
<1>2. TypeOK /\ PlanInv /\ SettingsInv /\ [Next]_vars
        => TypeOK' /\ PlanInv' /\ SettingsInv'
  BY PlanStep, SettingsStep
<1>3. TypeOK /\ SettingsInv => SettingsOfOneForm
  <2> SUFFICES ASSUME TypeOK, SettingsInv, InFlight = {}, shown # Mixed
               PROVE  Effective = IF shown = NoRow THEN [k \in Key |-> File[k]]
                                  ELSE Trimmed(shown)
    BY DEF SettingsOfOneForm
  <2>1. /\ shown = NoRow => \A k \in Key : setting[k] = NoRow
        /\ \A form \in AcceptedForms :
             shown = form => \A k \in Key : setting[k] = Trimmed(form)[k]
        /\ shown \in AcceptedForms \cup {NoRow}
    BY DEF SettingsInv, ShownInv, Untouched
  <2>2. CASE shown = NoRow
    <3>1. \A k \in Key : ~Overlay(k)
      BY <2>1, <2>2 DEF Overlay
    <3> QED
      BY <2>2, <3>1 DEF Effective
  <2>3. CASE shown # NoRow
    <3>1. PICK form \in AcceptedForms : shown = form
      BY <2>1, <2>3
    <3>2. /\ Trimmed(form) = [k \in Key |-> Trimmed(form)[k]]
          /\ \A k \in Key : Trimmed(form)[k] # NoRow
          /\ FormAccepted(Trimmed(form))
      BY TrimmedForm DEF AcceptedForms
    <3>3. \A k \in Key : setting[k] = Trimmed(form)[k]
      BY <2>1, <3>1
    <3>4. \A k \in Key : Overlay(k)
      BY <3>2, <3>3 DEF Overlay, FormAccepted
    <3>5. Effective = [k \in Key |-> Trimmed(form)[k]]
      BY <3>3, <3>4 DEF Effective
    <3> QED
      BY <2>3, <3>1, <3>2, <3>5
  <2> QED
    BY <2>2, <2>3
<1> QED
  BY <1>1, <1>2, <1>3, PTL DEF Spec

-----------------------------------------------------------------------------
(***************************************************************************)
(* Colours.                                                                *)
(***************************************************************************)

\* Each tone is darker than the next one.
LEMMA TonesInOrder ==
  ASSUME NEW x \in 0..255
  PROVE  /\ Darken(x) \in Int /\ 0 <= Darken(x) /\ Darken(x) <= x
         /\ Lighten(x, 85) \in Int /\ x <= Lighten(x, 85)
         /\ Lighten(x, 93) \in Int /\ Lighten(x, 85) <= Lighten(x, 93)
         /\ Lighten(x, 93) <= 255
BY DEF Darken, Lighten

\* A colour that is accepted has three parts of a byte each.
LEMMA ColorParts ==
  ASSUME NEW color \in Color, IsValidHexColor(color)
  PROVE  /\ color.digits \in Seq(0..16)
         /\ Len(color.digits) = 3 \/ Len(color.digits) = 6
         /\ \A i \in 1..Len(color.digits) : color.digits[i] \in 0..15
         /\ Rgb(color) = [i \in 1..3 |-> Rgb(color)[i]]
         /\ \A i \in 1..3 : Rgb(color)[i] \in 0..255
<1>1. /\ color.digits \in Seq(0..16)
      /\ Len(color.digits) = 3 \/ Len(color.digits) = 6
      /\ 16 \notin Range(color.digits)
  BY DEF Color, IsValidHexColor
<1>2. \A i \in 1..Len(color.digits) : color.digits[i] \in 0..15
  <2> SUFFICES ASSUME NEW i \in 1..Len(color.digits)
               PROVE  color.digits[i] \in 0..15
    OBVIOUS
  <2>1. i \in DOMAIN color.digits /\ color.digits[i] \in 0..16
    BY <1>1, ElementOfSeq, LenProperties
  <2>2. color.digits[i] # 16
    BY <1>1, <2>1 DEF Range
  <2> QED
    BY <2>1, <2>2
<1> DEFINE d == color.digits
<1>3. Rgb(color) = IF Len(d) = 3 THEN [i \in 1..3 |-> d[i] * 17]
                   ELSE [i \in 1..3 |-> 16 * d[2 * i - 1] + d[2 * i]]
  BY DEF Rgb
<1>4. CASE Len(d) = 3
  <2>1. \A i \in 1..3 : d[i] \in 0..15
    BY <1>2, <1>4
  <2>2. Rgb(color) = [i \in 1..3 |-> d[i] * 17]
    BY <1>3, <1>4
  <2>3. \A i \in 1..3 : d[i] * 17 \in 0..255
    BY <2>1
  <2> QED
    BY <1>1, <1>2, <2>2, <2>3
<1>5. CASE Len(d) = 6
  <2>1. \A i \in 1..3 : d[2 * i - 1] \in 0..15 /\ d[2 * i] \in 0..15
    <3>1. \A i \in 1..3 : 2 * i - 1 \in 1..6 /\ 2 * i \in 1..6
      OBVIOUS
    <3> QED
      BY <1>2, <1>5, <3>1
  <2>2. Rgb(color) = [i \in 1..3 |-> 16 * d[2 * i - 1] + d[2 * i]]
    BY <1>3, <1>5
  <2>3. \A i \in 1..3 : 16 * d[2 * i - 1] + d[2 * i] \in 0..255
    BY <2>1
  <2>4. \A i \in 1..3 : Rgb(color)[i] \in 0..255
    BY <2>2, <2>3, Zenon
  <2>5. Rgb(color) = [i \in 1..3 |-> Rgb(color)[i]]
    BY <2>2, Zenon
  <2> QED
    BY <1>1, <1>2, <2>4, <2>5, Zenon
<1> QED
  BY <1>1, <1>4, <1>5

\* The palette of a colour that is accepted.
LEMMA PaletteInOrder ==
  ASSUME NEW color \in Color, IsValidHexColor(color)
  PROVE  LET tones == Palette(color)
         IN \A i \in 1..3 :
              /\ tones[1][i] >= 0 /\ tones[4][i] <= 255
              /\ \A n \in 1..3 : tones[n][i] <= tones[n + 1][i]
<1> SUFFICES ASSUME NEW i \in 1..3
             PROVE  LET tones == Palette(color)
                    IN /\ tones[1][i] >= 0 /\ tones[4][i] <= 255
                       /\ \A n \in 1..3 : tones[n][i] <= tones[n + 1][i]
  OBVIOUS
<1> DEFINE tones == Palette(color)
           x == Rgb(color)[i]
<1>1. x \in 0..255
  BY ColorParts, ZenonT(60)
<1>2. /\ tones[1][i] = Darken(x) /\ tones[2][i] = x
      /\ tones[3][i] = Lighten(x, 85) /\ tones[4][i] = Lighten(x, 93)
  BY DEF Palette
<1>3. /\ 0 <= Darken(x) /\ Darken(x) <= x /\ x <= Lighten(x, 85)
      /\ Lighten(x, 85) <= Lighten(x, 93) /\ Lighten(x, 93) <= 255
      /\ Darken(x) \in Int
  BY <1>1, TonesInOrder
<1>4. tones[1][i] >= 0 /\ tones[4][i] <= 255
  BY <1>2, <1>3
<1>5. /\ tones[1][i] <= tones[1 + 1][i] /\ tones[2][i] <= tones[2 + 1][i]
      /\ tones[3][i] <= tones[3 + 1][i]
  BY <1>2, <1>3
<1>6. \A n \in 1..3 : n = 1 \/ n = 2 \/ n = 3
  OBVIOUS
<1> HIDE DEF tones
<1>7. \A n \in 1..3 : tones[n][i] <= tones[n + 1][i]
  BY <1>5, <1>6
<1> QED
  BY <1>4, <1>7 DEF tones

\* A short colour is the long one with each digit twice.
LEMMA ShortColor ==
  ASSUME NEW color \in Color, IsValidHexColor(color), Len(color.digits) = 3
  PROVE  Rgb([color EXCEPT !.digits = [i \in 1..6 |->
                color.digits[(i + 1) \div 2]]]) = Palette(color)[2]
<1> DEFINE d == color.digits
           e == [i \in 1..6 |-> d[(i + 1) \div 2]]
           twice == [color EXCEPT !.digits = e]
<1>1. \A i \in 1..3 : d[i] \in 0..15
  BY ColorParts, SMTT(60)
<1>2. \A i \in 1..6 : (i + 1) \div 2 \in 1..3
  OBVIOUS
<1>3. e \in [1..6 -> 0..15]
  BY <1>1, <1>2
<1>4. Len(e) = 6
  <2>1. e \in Seq(0..15)
    BY <1>3, SeqDef
  <2> QED
    BY <1>3, <2>1, LenProperties
<1>5. twice.digits = e
  BY DEF Color
<1>6. Rgb(twice) = [i \in 1..3 |-> 16 * e[2 * i - 1] + e[2 * i]]
  <2>1. Len(twice.digits) # 3
    BY <1>4, <1>5
  <2> HIDE DEF e, twice
  <2> QED
    BY <1>5, <2>1 DEF Rgb
<1>7. \A i \in 1..3 : 16 * e[2 * i - 1] + e[2 * i] = d[i] * 17
  <2> SUFFICES ASSUME NEW i \in 1..3
               PROVE  16 * e[2 * i - 1] + e[2 * i] = d[i] * 17
    OBVIOUS
  <2>1. /\ 2 * i - 1 \in 1..6 /\ 2 * i \in 1..6
        /\ (2 * i - 1 + 1) \div 2 = i /\ (2 * i + 1) \div 2 = i
    OBVIOUS
  <2>2. e[2 * i - 1] = d[i] /\ e[2 * i] = d[i]
    BY <2>1
  <2> HIDE DEF e, d
  <2>3. d[i] \in 0..15
    BY <1>1
  <2> QED
    BY <2>2, <2>3
<1>8. Palette(color)[2] = [i \in 1..3 |-> d[i] * 17]
  BY DEF Palette, Rgb
<1> HIDE DEF e, d
<1> QED
  BY <1>6, <1>7, <1>8 DEF e, d

(* Whatever forms overlap, fail half-way or cannot be read back, the pages *)
(* have a name that fits and a palette from dark to light, for any colour  *)
(* that is accepted (is_valid_hex_color, generate_theme_css).              *)
THEOREM PagesArePresentable ==
  Spec => []PagesPresentable
<1>1. Init => TypeOK /\ PlanInv /\ SettingsInv
  BY PlanInit, SettingsInit
<1>2. TypeOK /\ PlanInv /\ SettingsInv /\ [Next]_vars
        => TypeOK' /\ PlanInv' /\ SettingsInv'
  BY PlanStep, SettingsStep
<1>3. SettingsInv => PagesPresentable
  <2> SUFFICES ASSUME SettingsInv, NEW portal \in Portals
               PROVE
                 /\ portal.cafe_name \notin {"", "long"}
                 /\ IsValidHexColor(portal.theme_color)
                 /\ portal.theme_color \in Color
    BY PaletteInOrder, ShortColor DEF PagesPresentable
  <2>1. ASSUME NEW form \in AcceptedForms
        PROVE  /\ Trimmed(form)["cafe_name"] \notin {"", "long"}
               /\ IsValidHexColor(Trimmed(form)["theme_color"])
               /\ Trimmed(form)["theme_color"] \in Color
    BY TrimmedForm, KeyPlaces DEF AcceptedForms, FormAccepted, TextKey
  <2>2. CASE portal = File
    BY <2>2, FileIsAccepted
  <2>3. CASE portal = Effective
    <3>1. \A k \in Key : \/ Effective[k] = File[k]
                         \/ \E form \in AcceptedForms :
                              Effective[k] = Trimmed(form)[k]
      BY DEF SettingsInv, RowsInv, Effective, Overlay
    <3>2. Effective["cafe_name"] \notin {"", "long"}
      <4>1. \/ Effective["cafe_name"] = File["cafe_name"]
            \/ \E form \in AcceptedForms :
                 Effective["cafe_name"] = Trimmed(form)["cafe_name"]
        BY <3>1, KeyPlaces
      <4>2. CASE Effective["cafe_name"] = File["cafe_name"]
        BY <4>2, FileIsAccepted
      <4>3. ASSUME NEW form \in AcceptedForms,
                   Effective["cafe_name"] = Trimmed(form)["cafe_name"]
            PROVE  Effective["cafe_name"] \notin {"", "long"}
        BY <2>1, <4>3
      <4> QED
        BY <4>1, <4>2, <4>3
    <3>3. /\ IsValidHexColor(Effective["theme_color"])
          /\ Effective["theme_color"] \in Color
      <4>1. \/ Effective["theme_color"] = File["theme_color"]
            \/ \E form \in AcceptedForms :
                 Effective["theme_color"] = Trimmed(form)["theme_color"]
        BY <3>1, KeyPlaces
      <4>2. CASE Effective["theme_color"] = File["theme_color"]
        BY <4>2, FileIsAccepted
      <4>3. ASSUME NEW form \in AcceptedForms,
                   Effective["theme_color"] = Trimmed(form)["theme_color"]
            PROVE  /\ IsValidHexColor(Effective["theme_color"])
                   /\ Effective["theme_color"] \in Color
        BY <2>1, <4>3
      <4> QED
        BY <4>1, <4>2, <4>3
    <3> QED
      BY <2>3, <3>2, <3>3
  <2> QED
    BY <2>2, <2>3 DEF Portals
<1> QED
  BY <1>1, <1>2, <1>3, PTL DEF Spec

-----------------------------------------------------------------------------
(***************************************************************************)
(* Who may reach the admin's pages.                                        *)
(***************************************************************************)

\* The shift by Width - len keeps the first len bits, unless len is 0.
LEMMA MaskOfPrefix ==
  ASSUME NEW len \in 1..Width
  PROVE  HighBits(Width - len) = (Width - len)..(Width - 1)
<1>1. Width - len \in Nat /\ Width - len < Width
  BY ConfigurationAssumption
<1>2. (Width - len) % Width = Width - len
  <2>1. ASSUME NEW a \in Nat, a < Width
        PROVE  a % Width = a
    <3>1. a \div Width = 0
      BY <2>1, ConfigurationAssumption
    <3> QED
      BY <2>1, <3>1, ConfigurationAssumption
  <2> QED
    BY <1>1, <2>1
<1>3. \A bit \in 0..(Width - 1) :
        bit >= Width - len <=> bit \in (Width - len)..(Width - 1)
  BY <1>1, ConfigurationAssumption
<1>4. (Width - len)..(Width - 1) \subseteq 0..(Width - 1)
  BY <1>1, ConfigurationAssumption
<1> QED
  BY <1>2, <1>3, <1>4 DEF HighBits

\* An address is in a network if their first bits agree (ip_in_cidr).
LEMMA CidrComparesThePrefix ==
  ASSUME NEW ip, NEW cidr, cidr.len \in Nat, ParsesAsCidr(cidr)
  PROVE  InCidr(ip, cidr)
           <=> \A bit \in (Width - cidr.len)..(Width - 1) :
                 bit \in ip <=> bit \in cidr.net
<1>1. CASE cidr.len = 0
  <2>1. (Width - cidr.len)..(Width - 1) = {}
    BY <1>1, ConfigurationAssumption
  <2> QED
    BY <1>1, <2>1 DEF InCidr
<1>2. CASE cidr.len # 0
  <2>1. cidr.len \in 1..Width
    BY <1>2, ConfigurationAssumption DEF ParsesAsCidr
  <2> DEFINE mask == HighBits(Width - cidr.len)
  <2>2. mask = (Width - cidr.len)..(Width - 1)
    BY <2>1, MaskOfPrefix
  <2>3. InCidr(ip, cidr) <=> ip \cap mask = cidr.net \cap mask
    BY <1>2 DEF InCidr
  <2> HIDE DEF mask
  <2>4. ip \cap mask = cidr.net \cap mask
          <=> \A bit \in mask : bit \in ip <=> bit \in cidr.net
    OBVIOUS
  <2> QED
    BY <2>2, <2>3, <2>4
<1> QED
  BY <1>1, <1>2

\* What a file that the daemon starts with is known to be.
LEMMA StartingFile ==
  ASSUME TypeOK, NEW c \in Starting
  PROVE  /\ c \in Files /\ Accepted(c)
         /\ \A n \in c.networks : n.len \in Nat /\ ParsesAsCidr(n)
<1>1. c \in Files /\ Accepted(c)
  BY DEF Starting, TypeOK
<1> QED
  BY <1>1, ConfigurationAssumption DEF Accepted

-----------------------------------------------------------------------------
(***************************************************************************)
(* Routes.                                                                 *)
(***************************************************************************)

Listener == {"portal", "admin", "combined"}

\* The answer to a GET of a path that one route has.
LEMMA GetAnswers ==
  ASSUME NEW c, NEW l, NEW ip, NEW path, NEW get, NEW post,
         l # "admin" \/ LetsThrough(c, ip),
         {r \in RoutesOf(l) : r.path = path} = {Route(path, get, post)}
  PROVE  Answers(c, l, path, "GET", ip) = AnswersOf(c, l, path, get)
<1> DEFINE route == Route(path, get, post)
<1>1. Answers(c, l, path, "GET", ip)
        = UNION {AnswersOf(c, l, path, r.get) : r \in {route}}
  BY DEF Answers
<1>2. route.get = get
  BY DEF Route
<1> HIDE DEF route
<1> QED
  BY <1>1, <1>2

\* The pages that customers are sent to, with the admin's pages beside them
\* or not.
LEMMA PortalPages ==
  ASSUME NEW l \in {"portal", "combined"}
  PROVE  /\ \A path \in {"/portal", "/portal/plans", "/api/captive"} :
              {r \in RoutesOf(l) : r.path = path}
                = {Route(path, "client", "none")}
         /\ {r \in RoutesOf(l) : r.path = "/portal/success"}
              = {Route("/portal/success", "success", "none")}
         /\ \A path \in {r.path : r \in ProbeRoutes} :
              {r \in RoutesOf(l) : r.path = path}
                = {Route(path, "probe", "none")}
         /\ {r \in RoutesOf(l) : r.path = "/unknown"} = {}
<1>1. /\ PortalRoutes \cup ProbeRoutes \subseteq RoutesOf(l)
      /\ RoutesOf(l) \subseteq PortalRoutes \cup ProbeRoutes \cup AdminRoutes
  BY DEF RoutesOf
<1>2. \A r \in AdminRoutes :
        /\ r.path \notin {"/portal", "/portal/plans", "/api/captive",
                          "/portal/success", "/unknown"}
        /\ r.path \notin {"/hotspot-detect.html", "/generate_204",
                          "/connecttest.txt", "/check_network_status.txt"}
  BY DEF AdminRoutes, Route
<1>3. \A r \in ProbeRoutes :
        /\ r.path \in {"/hotspot-detect.html", "/generate_204",
                       "/connecttest.txt", "/check_network_status.txt"}
        /\ r = Route(r.path, "probe", "none")
  BY DEF ProbeRoutes, Route
<1>4. \A r \in PortalRoutes :
        /\ r.path \notin {"/hotspot-detect.html", "/generate_204",
                          "/connecttest.txt", "/check_network_status.txt",
                          "/unknown"}
        /\ r.path \in {"/portal", "/portal/plans", "/api/captive"}
             => r = Route(r.path, "client", "none")
        /\ r.path = "/portal/success"
             => r = Route("/portal/success", "success", "none")
  BY DEF PortalRoutes, Route
<1>5. /\ \A path \in {"/portal", "/portal/plans", "/api/captive"} :
           /\ Route(path, "client", "none") \in PortalRoutes
           /\ Route(path, "client", "none").path = path
      /\ Route("/portal/success", "success", "none") \in PortalRoutes
      /\ Route("/portal/success", "success", "none").path = "/portal/success"
  BY DEF PortalRoutes, Route
<1>6. \A path \in {"/hotspot-detect.html", "/generate_204",
                   "/connecttest.txt", "/check_network_status.txt"} :
        /\ Route(path, "probe", "none") \in ProbeRoutes
        /\ Route(path, "probe", "none").path = path
  BY DEF ProbeRoutes, Route
<1>7. ASSUME NEW path \in {"/portal", "/portal/plans", "/api/captive"}
      PROVE  {r \in RoutesOf(l) : r.path = path}
               = {Route(path, "client", "none")}
  BY <1>1, <1>2, <1>3, <1>4, <1>5, Zenon
<1>8. {r \in RoutesOf(l) : r.path = "/portal/success"}
        = {Route("/portal/success", "success", "none")}
  BY <1>1, <1>2, <1>3, <1>4, <1>5
<1>9. ASSUME NEW path \in {r.path : r \in ProbeRoutes}
      PROVE  {r \in RoutesOf(l) : r.path = path}
               = {Route(path, "probe", "none")}
  BY <1>1, <1>2, <1>3, <1>4, <1>6
<1>10. {r \in RoutesOf(l) : r.path = "/unknown"} = {}
  BY <1>1, <1>2, <1>3, <1>4
<1> QED
  BY <1>7, <1>8, <1>9, <1>10

\* The pages that the admin is sent to.
LEMMA AdminPages ==
  ASSUME NEW l \in {"admin", "combined"}
  PROVE  /\ {r \in RoutesOf(l) : r.path = "/admin/login"}
              = {Route("/admin/login", "client", "login")}
         /\ {r \in RoutesOf(l) : r.path = "/admin"}
              = {Route("/admin", "session", "none")}
<1>1. /\ AdminRoutes \subseteq RoutesOf(l)
      /\ RoutesOf(l) \subseteq PortalRoutes \cup ProbeRoutes \cup AdminRoutes
  BY DEF RoutesOf
<1>2. \A r \in AdminRoutes :
        /\ r.path = "/admin/login"
             => r = Route("/admin/login", "client", "login")
        /\ r.path = "/admin" => r = Route("/admin", "session", "none")
  BY DEF AdminRoutes, Route
<1>3. \A r \in ProbeRoutes : r.path # "/admin/login" /\ r.path # "/admin"
  BY DEF ProbeRoutes, Route
<1>4. \A r \in PortalRoutes : r.path # "/admin/login" /\ r.path # "/admin"
  BY DEF PortalRoutes, Route
<1>5. /\ Route("/admin/login", "client", "login") \in AdminRoutes
      /\ Route("/admin/login", "client", "login").path = "/admin/login"
      /\ Route("/admin", "session", "none") \in AdminRoutes
      /\ Route("/admin", "session", "none").path = "/admin"
  BY DEF AdminRoutes, Route
<1> QED
  BY <1>1, <1>2, <1>3, <1>4, <1>5

(* With TLS the admin's pages are for the allowed networks only, for any   *)
(* width of an address, any networks and any file that is accepted         *)
(* (admin_network_filter, ip_in_cidr).                                     *)
THEOREM AdminPagesStayInside ==
  Spec => []AdminForAllowedNetworks
<1>1. Init => TypeOK /\ PlanInv /\ SettingsInv
  BY PlanInit, SettingsInit
<1>2. TypeOK /\ PlanInv /\ SettingsInv /\ [Next]_vars
        => TypeOK' /\ PlanInv' /\ SettingsInv'
  BY PlanStep, SettingsStep
<1>3. TypeOK => AdminForAllowedNetworks
  <2> SUFFICES ASSUME TypeOK, NEW c \in Starting, NEW ip \in Address
               PROVE
                 (\/ c.networks = {}
                  \/ \E n \in c.networks :
                       \A bit \in (Width - n.len)..(Width - 1) :
                         bit \in ip <=> bit \in n.net)
                   <=> Answers(c, "admin", "/admin/login", "GET", ip)
                         = {Page("admin", "/admin/login")}
    BY DEF AdminForAllowedNetworks
  <2>1. LetsThrough(c, ip)
          <=> \/ c.networks = {}
              \/ \E n \in c.networks :
                   \A bit \in (Width - n.len)..(Width - 1) :
                     bit \in ip <=> bit \in n.net
    BY StartingFile, CidrComparesThePrefix DEF LetsThrough
  <2>2. LetsThrough(c, ip)
          => Answers(c, "admin", "/admin/login", "GET", ip)
               = {Page("admin", "/admin/login")}
    <3>1. AnswersOf(c, "admin", "/admin/login", "client")
            = {Page("admin", "/admin/login")}
      BY DEF AnswersOf
    <3> QED
      BY <3>1, AdminPages, GetAnswers
  <2>3. ~LetsThrough(c, ip)
          => Answers(c, "admin", "/admin/login", "GET", ip)
               # {Page("admin", "/admin/login")}
    <3>1. Forbidden("admin") # Page("admin", "/admin/login")
      BY DEF Forbidden, Page
    <3> QED
      BY <3>1 DEF Answers
  <2> QED
    BY <2>1, <2>2, <2>3
<1> QED
  BY <1>1, <1>2, <1>3, PTL DEF Spec

\* Where an answer can lead: to its end, to a page that redirects nowhere, or
\* to one that may redirect to such a page.
Ended(a, l) == (a.is = "page" \/ a = Forbidden("admin")) /\ a.listener = l
Direct(a, l) == \/ a = Redirect(l, "/portal") /\ l # "admin"
                \/ a = Redirect(l, "/admin/login") /\ l # "portal"
Indirect(a, l) == \/ a = Redirect(l, "/portal/success") /\ l # "admin"
                  \/ a = Redirect(l, "/admin") /\ l # "portal"

\* The three exclude each other.
LEMMA EndsApart ==
  ASSUME NEW a, NEW l
  PROVE  /\ Ended(a, l) => a.is # "redirect"
         /\ Direct(a, l) => /\ a.is = "redirect" /\ a.listener = l
                            /\ \/ a.path = "/portal" /\ l # "admin"
                               \/ a.path = "/admin/login" /\ l # "portal"
         /\ Indirect(a, l) => /\ a.is = "redirect" /\ a.listener = l
                              /\ \/ a.path = "/portal/success" /\ l # "admin"
                                 \/ a.path = "/admin" /\ l # "portal"
         /\ Ended(Forbidden("admin"), "admin")
         /\ \A path : Ended(Page(l, path), l)
<1>1. Ended(a, l) => a.is # "redirect"
  <2>1. Forbidden("admin").is = "forbidden"
    BY DEF Forbidden
  <2> QED
    BY <2>1 DEF Ended
<1>2. Direct(a, l) => /\ a.is = "redirect" /\ a.listener = l
                      /\ \/ a.path = "/portal" /\ l # "admin"
                         \/ a.path = "/admin/login" /\ l # "portal"
  BY DEF Direct, Redirect
<1>3. Indirect(a, l) => /\ a.is = "redirect" /\ a.listener = l
                        /\ \/ a.path = "/portal/success" /\ l # "admin"
                           \/ a.path = "/admin" /\ l # "portal"
  BY DEF Indirect, Redirect
<1>4. Ended(Forbidden("admin"), "admin")
  BY DEF Ended, Forbidden
<1>5. \A path : Ended(Page(l, path), l)
  BY DEF Ended, Page
<1> QED
  BY <1>1, <1>2, <1>3, <1>4, <1>5

\* The address that the daemon advertises is its own (build_portal_url).
LEMMA OwnAddress ==
  ASSUME NEW c, Accepted(c)
  PROVE  ListenerAt(c, UrlPort(c)) = IF c.tls THEN "portal" ELSE "combined"
<1>1. ServerAccepted(c)
  BY DEF Accepted
<1>2. c.port \in 1..MaxPort
  BY <1>1 DEF ServerAccepted
<1>3. (IF UrlPort(c) = 0 THEN 80 ELSE UrlPort(c)) = c.port
  BY <1>2 DEF UrlPort
<1>4. ListenerAt(c, UrlPort(c)) = IF c.tls THEN "portal" ELSE "combined"
  BY <1>3, Zenon DEF ListenerAt
<1> QED
  BY <1>4

\* Who answers at all.
LEMMA ListenersOf ==
  ASSUME NEW c, Accepted(c), NEW l \in Listeners(c)
  PROVE  /\ l \in Listener
         /\ l # "admin" => l = ListenerAt(c, UrlPort(c))
BY OwnAddress DEF Listeners, Listener

\* The first answer.
LEMMA FirstAnswers ==
  ASSUME NEW c, Accepted(c), NEW l \in Listeners(c), NEW ip, NEW path,
         NEW method, NEW a \in Answers(c, l, path, method, ip)
  PROVE  Ended(a, l) \/ Direct(a, l) \/ Indirect(a, l)
<1>1. l \in Listener /\ (l # "admin" => l = ListenerAt(c, UrlPort(c)))
  BY ListenersOf
<1>2. CASE l = "admin" /\ ~LetsThrough(c, ip)
  <2>1. a = Forbidden("admin")
    BY <1>2 DEF Answers
  <2> QED
    BY <1>2, <2>1, EndsApart
<1>3. CASE ~(l = "admin" /\ ~LetsThrough(c, ip))
  <2> DEFINE routes == {r \in RoutesOf(l) : r.path = path}
  <2>1. CASE routes = {}
    <3>1. a = Redirect(l, Fallback(l))
      BY <1>3, <2>1 DEF Answers
    <3> QED
      BY <3>1 DEF Fallback, Direct
  <2>2. CASE routes # {}
    <3>1. PICK r \in RoutesOf(l) :
            /\ r.path = path
            /\ a \in AnswersOf(c, l, path,
                               IF method = "GET" THEN r.get ELSE r.post)
      BY <1>3, <2>2 DEF Answers
    <3> DEFINE kind == IF method = "GET" THEN r.get ELSE r.post
    <3>2. CASE r \in PortalRoutes \cup ProbeRoutes /\ l # "admin"
      <4>1. kind \in {"client", "success", "none", "auth", "probe"}
        BY <3>2 DEF PortalRoutes, ProbeRoutes, Route
      <4>2. a \in AnswersOf(c, l, path, kind)
        BY <3>1
      <4> HIDE DEF kind
      <4>3. \/ a = Page(l, path) \/ a = Redirect(l, "/portal")
            \/ a = Redirect(l, "/portal/success")
        BY <1>1, <3>2, <4>1, <4>2 DEF AnswersOf
      <4> QED
        BY <3>2, <4>3, EndsApart DEF Direct, Indirect
    <3>3. CASE r \in AdminRoutes /\ l # "portal"
      <4>1. kind \in {"client", "session", "slash", "none", "login", "logout",
                      "api"}
        BY <3>3 DEF AdminRoutes, Route
      <4>2. a \in AnswersOf(c, l, path, kind)
        BY <3>1
      <4> HIDE DEF kind
      <4>3. \/ a = Page(l, path) \/ a = Redirect(l, "/admin")
            \/ a = Redirect(l, "/admin/login")
        BY <4>1, <4>2 DEF AnswersOf
      <4> QED
        BY <3>3, <4>3, EndsApart DEF Direct, Indirect
    <3> QED
      BY <1>1, <3>1, <3>2, <3>3 DEF RoutesOf, Listener
  <2> QED
    BY <2>1, <2>2
<1> QED
  BY <1>2, <1>3

\* The answer to a redirect that leads directly to a page.
LEMMA DirectAnswers ==
  ASSUME NEW c, NEW l \in Listener, NEW ip, NEW a, Direct(a, l),
         NEW b \in Answers(c, a.listener, a.path, "GET", ip)
  PROVE  Ended(b, l)
<1>1. CASE l = "admin" /\ ~LetsThrough(c, ip)
  <2>1. b = Forbidden("admin")
    BY <1>1, EndsApart DEF Answers
  <2> QED
    BY <1>1, <2>1, EndsApart
<1>2. CASE a.path = "/portal" /\ l # "admin"
  <2>1. b \in AnswersOf(c, l, "/portal", "client")
    BY <1>2, EndsApart, PortalPages, GetAnswers DEF Listener
  <2>2. b = Page(l, "/portal")
    BY <2>1 DEF AnswersOf
  <2> QED
    BY <2>2, EndsApart
<1>3. CASE /\ a.path = "/admin/login" /\ l # "portal"
           /\ ~(l = "admin" /\ ~LetsThrough(c, ip))
  <2>1. b \in AnswersOf(c, l, "/admin/login", "client")
    BY <1>3, EndsApart, AdminPages, GetAnswers DEF Listener
  <2>2. b = Page(l, "/admin/login")
    BY <2>1 DEF AnswersOf
  <2> QED
    BY <2>2, EndsApart
<1> QED
  BY <1>1, <1>2, <1>3, EndsApart

\* The answer to one that leads to a page which may redirect once more.
LEMMA IndirectAnswers ==
  ASSUME NEW c, NEW l \in Listener, NEW ip, NEW a, Indirect(a, l),
         NEW b \in Answers(c, a.listener, a.path, "GET", ip)
  PROVE  Ended(b, l) \/ Direct(b, l)
<1>1. CASE l = "admin" /\ ~LetsThrough(c, ip)
  <2>1. b = Forbidden("admin")
    BY <1>1, EndsApart DEF Answers
  <2> QED
    BY <1>1, <2>1, EndsApart
<1>2. CASE a.path = "/portal/success" /\ l # "admin"
  <2>1. b \in AnswersOf(c, l, "/portal/success", "success")
    BY <1>2, EndsApart, PortalPages, GetAnswers DEF Listener
  <2>2. b = Page(l, "/portal/success") \/ b = Redirect(l, "/portal")
    BY <2>1 DEF AnswersOf
  <2> QED
    BY <1>2, <2>2, EndsApart DEF Direct
<1>3. CASE /\ a.path = "/admin" /\ l # "portal"
           /\ ~(l = "admin" /\ ~LetsThrough(c, ip))
  <2>1. b \in AnswersOf(c, l, "/admin", "session")
    BY <1>3, EndsApart, AdminPages, GetAnswers DEF Listener
  <2>2. b = Page(l, "/admin") \/ b = Redirect(l, "/admin/login")
    BY <2>1 DEF AnswersOf
  <2> QED
    BY <1>3, <2>2, EndsApart DEF Direct
<1> QED
  BY <1>1, <1>2, <1>3, EndsApart

\* A redirect that is followed leads one step nearer to the end.
LEMMA FollowLeadsOn ==
  ASSUME NEW c, NEW l \in Listener, NEW ip, NEW answers
  PROVE  /\ (\A a \in answers : Ended(a, l) \/ Direct(a, l) \/ Indirect(a, l))
              => \A a \in Follow(c, answers, ip) : Ended(a, l) \/ Direct(a, l)
         /\ (\A a \in answers : Ended(a, l) \/ Direct(a, l))
              => \A a \in Follow(c, answers, ip) : Ended(a, l)
         /\ (\A a \in answers : Ended(a, l))
              => \A a \in Follow(c, answers, ip) : Ended(a, l)
<1>1. \A b \in Follow(c, answers, ip) : \E a \in answers :
        \/ a.is = "redirect" /\ b \in Answers(c, a.listener, a.path, "GET", ip)
        \/ a.is # "redirect" /\ b = a
  BY DEF Follow
<1>2. \A a \in answers : \A b : a.is = "redirect" /\ Direct(a, l)
        /\ b \in Answers(c, a.listener, a.path, "GET", ip) => Ended(b, l)
  BY DirectAnswers
<1>3. \A a \in answers : \A b : a.is = "redirect" /\ Indirect(a, l)
        /\ b \in Answers(c, a.listener, a.path, "GET", ip)
          => Ended(b, l) \/ Direct(b, l)
  BY IndirectAnswers
<1>4. \A a \in answers : /\ Ended(a, l) => a.is # "redirect"
                         /\ Direct(a, l) => a.is = "redirect"
                         /\ Indirect(a, l) => a.is = "redirect"
  BY EndsApart
<1>5. \A b \in Follow(c, answers, ip) : \E a \in answers :
        /\ Ended(a, l) => Ended(b, l)
        /\ Direct(a, l) => Ended(b, l)
        /\ Indirect(a, l) => Ended(b, l) \/ Direct(b, l)
  BY <1>1, <1>2, <1>3, <1>4
<1> QED
  BY <1>5

(* Whatever is asked of a listener, the redirects end at a page of its     *)
(* own, the daemon's own addresses are served, and the probes lead to the  *)
(* splash page, for any file that is accepted (portal_router, admin_router,*)
(* combined_router, build_portal_url).                                     *)
THEOREM RequestsComeToAPage ==
  Spec => []RequestsEnd
<1>1. Init => TypeOK /\ PlanInv /\ SettingsInv
  BY PlanInit, SettingsInit
<1>2. TypeOK /\ PlanInv /\ SettingsInv /\ [Next]_vars
        => TypeOK' /\ PlanInv' /\ SettingsInv'
  BY PlanStep, SettingsStep
<1>3. TypeOK => RequestsEnd
  <2> SUFFICES ASSUME TypeOK, NEW c \in Starting, NEW l \in Listeners(c),
                      NEW ip \in Address
               PROVE
                 /\ \A path \in Paths, method \in {"GET", "POST"} :
                      LET first == Answers(c, l, path, method, ip)
                          last == Follow(c, Follow(c, Follow(c, first, ip),
                                                   ip), ip)
                      IN \A a \in last : Ended(a, l)
                 /\ \A path \in {"/portal", "/portal/plans", "/api/captive"} :
                      LET at == ListenerAt(c, UrlPort(c))
                      IN Answers(c, at, path, "GET", ip) = {Page(at, path)}
                 /\ l # "admin" =>
                      \A path \in {r.path : r \in ProbeRoutes}
                                  \cup {"/unknown"} :
                        Follow(c, Answers(c, l, path, "GET", ip), ip)
                          = {Page(l, "/portal")}
    BY DEF RequestsEnd, Ended
  <2> DEFINE at == ListenerAt(c, UrlPort(c))
  <2>1. /\ Accepted(c) /\ l \in Listener /\ at \in {"portal", "combined"}
        /\ l # "admin" => l = at
    BY StartingFile, ListenersOf, OwnAddress
  <2>2. ASSUME NEW path, NEW method
        PROVE  LET first == Answers(c, l, path, method, ip)
                   last == Follow(c, Follow(c, Follow(c, first, ip), ip), ip)
               IN \A a \in last : Ended(a, l)
    <3> DEFINE first == Answers(c, l, path, method, ip)
               second == Follow(c, first, ip)
               third == Follow(c, second, ip)
    <3>1. \A a \in first : Ended(a, l) \/ Direct(a, l) \/ Indirect(a, l)
      BY <2>1, FirstAnswers
    <3> HIDE DEF first
    <3>2. \A a \in second : Ended(a, l) \/ Direct(a, l)
      BY <2>1, <3>1, FollowLeadsOn
    <3> HIDE DEF second
    <3>3. \A a \in third : Ended(a, l)
      BY <2>1, <3>2, FollowLeadsOn
    <3> HIDE DEF third
    <3>4. \A a \in Follow(c, third, ip) : Ended(a, l)
      BY <2>1, <3>3, FollowLeadsOn
    <3> QED
      BY <3>4 DEF third, second, first
  <2> HIDE DEF at
  <2>3. ASSUME NEW path \in {"/portal", "/portal/plans", "/api/captive"}
        PROVE  Answers(c, at, path, "GET", ip) = {Page(at, path)}
    <3>1. Answers(c, at, path, "GET", ip) = AnswersOf(c, at, path, "client")
      BY <2>1, PortalPages, GetAnswers
    <3> QED
      BY <3>1 DEF AnswersOf
  <2>4. ASSUME l # "admin",
               NEW path \in {r.path : r \in ProbeRoutes} \cup {"/unknown"}
        PROVE  Follow(c, Answers(c, l, path, "GET", ip), ip)
                 = {Page(l, "/portal")}
    <3>1. Answers(c, l, path, "GET", ip) = {Redirect(l, "/portal")}
      <4>1. CASE path = "/unknown"
        BY <2>1, <2>4, <4>1, PortalPages DEF Answers, Fallback
      <4>2. CASE path # "/unknown"
        <5>1. Answers(c, l, path, "GET", ip) = AnswersOf(c, l, path, "probe")
          BY <2>1, <2>4, <4>2, PortalPages, GetAnswers
        <5> QED
          BY <2>1, <2>4, <5>1 DEF AnswersOf, at
      <4> QED
        BY <4>1, <4>2
    <3>2. Follow(c, {Redirect(l, "/portal")}, ip)
            = Answers(c, l, "/portal", "GET", ip)
      BY DEF Follow, Redirect
    <3>3. Answers(c, l, "/portal", "GET", ip) = {Page(l, "/portal")}
      BY <2>1, <2>3, <2>4
    <3> QED
      BY <3>1, <3>2, <3>3
  <2> QED
    BY <2>2, <2>3, <2>4 DEF at
<1> QED
  BY <1>1, <1>2, <1>3, PTL DEF Spec

-----------------------------------------------------------------------------
(***************************************************************************)
(* Codes.  n characters of the prefix, a dash, h of the alphabet, a dash,  *)
(* h of the alphabet.                                                      *)
(***************************************************************************)

\* n characters are a text.
LEMMA CharactersAreText ==
  ASSUME NEW T, NEW n \in Nat, NEW f \in [1..n -> T]
  PROVE  f \in Seq(T) /\ Len(f) = n
<1>1. f \in Seq(T)
  BY SeqDef
<1> QED
  BY <1>1, LenProperties

\* The text r, of characters in T, is k characters s and then m characters t.
Joined(T, r, s, k, t, m) ==
  /\ r \in Seq(T) /\ Len(r) = k + m
  /\ \A i \in 1..k : r[i] = s[i]
  /\ \A i \in k+1..k+m : r[i] = t[i - k] /\ i - k \in 1..m

LEMMA Concatenated ==
  ASSUME NEW T, NEW s \in Seq(T), NEW t \in Seq(T),
         NEW k \in Nat, Len(s) = k, NEW m \in Nat, Len(t) = m,
         NEW r, r = s \o t
  PROVE  Joined(T, r, s, k, t, m)
<1>1. /\ s \o t \in Seq(T) /\ Len(s \o t) = k + m
      /\ \A i \in 1..k+m : (s \o t)[i] = IF i <= k THEN s[i] ELSE t[i - k]
  BY ConcatProperties
<1> QED
  BY <1>1 DEF Joined

\* The five parts of a code: n characters x, one y, h of p, y again, h of q.
Parts(T, code, n, x, y, h, p, q) ==
  /\ code \in Seq(T) /\ Len(code) = n + h + h + 2
  /\ \A i \in 1..n : code[i] = x[i]
  /\ code[n + 1] = y[1] /\ code[n + h + 2] = y[1]
  /\ \A i \in n+2..n+h+1 : /\ code[i] = p[i - (n + 1)]
                           /\ i - (n + 1) \in 1..h
  /\ \A i \in n+h+3..n+h+h+2 : /\ code[i] = q[i - (n + h + 2)]
                               /\ i - (n + h + 2) \in 1..h

LEMMA FiveParts ==
  ASSUME NEW T, NEW n \in Nat, NEW h \in Nat,
         NEW x \in Seq(T), Len(x) = n, NEW y \in Seq(T), Len(y) = 1,
         NEW p \in Seq(T), Len(p) = h, NEW q \in Seq(T), Len(q) = h,
         NEW code, code = x \o y \o p \o y \o q
  PROVE  Parts(T, code, n, x, y, h, p, q)
<1>1. PICK a : a = x \o y
  OBVIOUS
<1>2. PICK b : b = a \o p
  OBVIOUS
<1>3. PICK d : d = b \o y
  OBVIOUS
<1>4. code = d \o q
  BY <1>1, <1>2, <1>3
<1>n. 1 \in Nat /\ n + 1 \in Nat /\ n + 1 + h \in Nat /\ n + 1 + h + 1 \in Nat
  OBVIOUS
<1>5. Joined(T, a, x, n, y, 1)
  BY <1>1, <1>n, Concatenated, Zenon
<1>5a. a \in Seq(T) /\ Len(a) = n + 1
  BY <1>5 DEF Joined
<1>6. Joined(T, b, a, n + 1, p, h)
  BY <1>2, <1>5a, <1>n, Concatenated, Zenon
<1>6a. b \in Seq(T) /\ Len(b) = n + 1 + h
  BY <1>6 DEF Joined
<1>7. Joined(T, d, b, n + 1 + h, y, 1)
  BY <1>3, <1>6a, <1>n, Concatenated, Zenon
<1>7a. d \in Seq(T) /\ Len(d) = n + 1 + h + 1
  BY <1>7 DEF Joined
<1>8. Joined(T, code, d, n + 1 + h + 1, q, h)
  BY <1>4, <1>7a, <1>n, Concatenated, Zenon
<1>9. a[n + 1] = y[1] /\ d[n + h + 2] = y[1]
  <2>1. a[n + 1] = y[(n + 1) - n]
    BY <1>5 DEF Joined
  <2>2. d[n + h + 2] = y[(n + h + 2) - (n + 1 + h)]
    <3>1. n + h + 2 \in n+1+h+1..n+1+h+1
      OBVIOUS
    <3>2. \A i \in n+1+h+1..n+1+h+1 : d[i] = y[i - (n + 1 + h)]
      BY <1>7 DEF Joined
    <3> QED
      BY <3>1, <3>2
  <2>3. (n + 1) - n = 1 /\ (n + h + 2) - (n + 1 + h) = 1
    OBVIOUS
  <2> QED
    BY <2>1, <2>2, <2>3
<1>10. /\ \A i \in 1..n : code[i] = x[i]
       /\ code[n + 1] = y[1] /\ code[n + h + 2] = y[1]
  <2>1. \A i \in 1..n+1 : code[i] = a[i]
    BY <1>6, <1>7, <1>8 DEF Joined
  <2>2. \A i \in 1..n : code[i] = x[i]
    BY <1>5, <2>1 DEF Joined
  <2>3. code[n + h + 2] = d[n + h + 2]
    <3>1. n + h + 2 \in 1..n+1+h+1
      OBVIOUS
    <3>2. \A i \in 1..n+1+h+1 : code[i] = d[i]
      BY <1>8 DEF Joined
    <3> QED
      BY <3>1, <3>2
  <2>4. n + 1 \in 1..n+1
    OBVIOUS
  <2> QED
    BY <1>9, <2>1, <2>2, <2>3, <2>4
<1>11. \A i \in n+2..n+h+1 : /\ code[i] = p[i - (n + 1)]
                             /\ i - (n + 1) \in 1..h
  <2> TAKE i \in n+2..n+h+1
  <2>1. b[i] = p[i - (n + 1)] /\ i - (n + 1) \in 1..h
    BY <1>6 DEF Joined
  <2>2. i \in 1..n+1+h /\ i \in 1..n+1+h+1
    OBVIOUS
  <2>3. d[i] = b[i]
    BY <1>7, <2>2 DEF Joined
  <2>4. code[i] = d[i]
    BY <1>8, <2>2 DEF Joined
  <2> QED
    BY <2>1, <2>3, <2>4
<1>12. \A i \in n+h+3..n+h+h+2 : /\ code[i] = q[i - (n + h + 2)]
                                 /\ i - (n + h + 2) \in 1..h
  <2> TAKE i \in n+h+3..n+h+h+2
  <2>1. /\ code[i] = q[i - (n + 1 + h + 1)]
        /\ i - (n + 1 + h + 1) \in 1..h
    BY <1>8 DEF Joined
  <2>2. i - (n + 1 + h + 1) = i - (n + h + 2)
    OBVIOUS
  <2> QED
    BY <2>1, <2>2
<1>13. code \in Seq(T) /\ Len(code) = n + h + h + 2
  BY <1>8 DEF Joined
<1> QED
  BY <1>10, <1>11, <1>12, <1>13 DEF Parts

Characters(c) == Range(c.prefix) \cup {"-"} \cup c.charset

IsCode(c, code, n, h) ==
  /\ code \in Seq(Characters(c)) /\ Len(code) = n + h + h + 2
  /\ \A i \in 1..n : code[i] = c.prefix[i]
  /\ code[n + 1] = "-" /\ code[n + h + 2] = "-"
  /\ \A i \in n+2..n+h+1 : code[i] \in c.charset
  /\ \A i \in n+h+3..n+h+h+2 : code[i] \in c.charset

\* Half of an even length.
LEMMA HalfLength ==
  ASSUME NEW length \in Nat, length >= 6, length % 2 = 0
  PROVE  length \div 2 \in Nat /\ length \div 2 >= 3
OBVIOUS

\* The shape of a generated code.
LEMMA CodeShape ==
  ASSUME NEW c, c.prefix \in Seq(Range(c.prefix)),
         NEW h \in Nat, c.length \div 2 = h,
         NEW code \in Generated(c)
  PROVE  IsCode(c, code, Len(c.prefix), h)
<1>1. PICK p \in [1..h -> c.charset], q \in [1..h -> c.charset] :
        code = c.prefix \o <<"-">> \o p \o <<"-">> \o q
  <2> DEFINE half == c.length \div 2
  <2>1. Generated(c) = {c.prefix \o <<"-">> \o p \o <<"-">> \o q :
                          p \in [1..half -> c.charset],
                          q \in [1..half -> c.charset]}
    BY DEF Generated
  <2>2. half = h
    OBVIOUS
  <2> HIDE DEF half
  <2> DEFINE part == [1..half -> c.charset]
             code_of(p, q) == c.prefix \o <<"-">> \o p \o <<"-">> \o q
  <2>3. Generated(c) = {code_of(p, q) : p \in part, q \in part}
    BY <2>1
  <2> HIDE DEF part, code_of
  <2>4. \E p \in part, q \in part : code = code_of(p, q)
    BY <2>3
  <2> QED
    BY <2>2, <2>4, Zenon DEF part, code_of
<1> DEFINE T == Characters(c)
           y == <<"-">>
<1>2. /\ p \in Seq(T) /\ Len(p) = h
      /\ q \in Seq(T) /\ Len(q) = h
  <2>1. p \in [1..h -> T] /\ q \in [1..h -> T]
    BY DEF Characters
  <2> HIDE DEF T
  <2>2. p \in Seq(T) /\ q \in Seq(T)
    BY <2>1, SeqDef
  <2>3. Len(p) = h /\ Len(q) = h
    BY <2>1, <2>2, LenProperties
  <2> QED
    BY <2>2, <2>3
<1>3. c.prefix \in Seq(T) /\ Len(c.prefix) \in Nat
  BY SeqMonotonic, LenProperties DEF Characters
<1>4. y \in Seq(T) /\ Len(y) = 1 /\ y[1] = "-"
  BY DEF Characters
<1>5. PICK n \in Nat : n = Len(c.prefix)
  BY <1>3
<1>x. PICK x : x = c.prefix
  OBVIOUS
<1>y. code = c.prefix \o y \o p \o y \o q
  BY <1>1
<1>6. PICK z : z = y
  OBVIOUS
<1>7. PICK S : S = T
  OBVIOUS
<1> HIDE DEF T, y
<1>8. /\ x \in Seq(S) /\ Len(x) = n /\ z \in Seq(S) /\ Len(z) = 1
      /\ p \in Seq(S) /\ q \in Seq(S) /\ z[1] = "-"
      /\ code = x \o z \o p \o z \o q
  BY <1>y, <1>2, <1>3, <1>4, <1>5, <1>6, <1>7, <1>x, Zenon
<1>9. Parts(S, code, n, x, z, h, p, q)
  BY <1>2, <1>8, FiveParts, Zenon
<1>10. \A j \in 1..h : p[j] \in c.charset /\ q[j] \in c.charset
  OBVIOUS
<1>11. /\ code \in Seq(S) /\ Len(code) = n + h + h + 2
       /\ \A i \in 1..n : code[i] = c.prefix[i]
       /\ code[n + 1] = "-" /\ code[n + h + 2] = "-"
       /\ \A i \in n+2..n+h+1 : code[i] \in c.charset
       /\ \A i \in n+h+3..n+h+h+2 : code[i] \in c.charset
  BY <1>5, <1>x, <1>8, <1>9, <1>10, Zenon DEF Parts
<1> QED
  BY <1>5, <1>7, <1>11, Zenon DEF IsCode, T

\* What has the shape is what validate_token_format takes.
LEMMA ShapeIsValid ==
  ASSUME NEW c, c.prefix \in Seq(Range(c.prefix)),
         NEW h \in Nat, c.length \div 2 = h,
         NEW code, IsCode(c, code, Len(c.prefix), h)
  PROVE  ValidTokenFormat(c, code)
<1> DEFINE T == Characters(c)
           n == Len(c.prefix)
           expected == c.prefix \o <<"-">>
           body == SubSeq(code, n + 2, n + h + h + 2)
<1>1. n \in Nat /\ h \in Nat /\ 1 \in Nat
  BY LenProperties
<1>2. /\ code \in Seq(T) /\ Len(code) = n + h + h + 2
      /\ \A i \in 1..n : code[i] = c.prefix[i]
      /\ code[n + 1] = "-" /\ code[n + h + 2] = "-"
      /\ \A i \in n+2..n+h+1 : code[i] \in c.charset
      /\ \A i \in n+h+3..n+h+h+2 : code[i] \in c.charset
  BY DEF IsCode
<1>3. /\ expected \in Seq(T) /\ Len(expected) = n + 1
      /\ \A i \in 1..n : expected[i] = c.prefix[i]
      /\ expected[n + 1] = "-"
  <2> DEFINE dash == <<"-">>
  <2>1. dash \in Seq(T) /\ Len(dash) = 1 /\ dash[1] = "-"
    BY DEF Characters
  <2>2. c.prefix \in Seq(T)
    BY SeqMonotonic DEF Characters
  <2> HIDE DEF dash, T
  <2>3. expected = c.prefix \o dash /\ Len(c.prefix) = n
    BY DEF dash
  <2> HIDE DEF expected, n
  <2>4. Joined(T, expected, c.prefix, n, dash, 1)
    BY <1>1, <2>1, <2>2, <2>3, Concatenated, Zenon
  <2>5. /\ expected \in Seq(T) /\ Len(expected) = n + 1
        /\ \A i \in 1..n : expected[i] = c.prefix[i]
        /\ expected[n + 1] = dash[(n + 1) - n]
    BY <1>1, <2>4 DEF Joined
  <2>6. (n + 1) - n = 1
    BY <1>1
  <2> QED
    BY <2>1, <2>5, <2>6
<1> HIDE DEF T, expected, n
<1>4. IsPrefix(expected, code)
  <2> DEFINE e == SubSeq(expected, 1, n + 1)
             f == SubSeq(code, 1, n + 1)
  <2>1. e = expected
    BY <1>3, SubSeqFull
  <2>2. \A i \in 1..n+1 : code[i] \in T
    BY <1>1, <1>2, ElementOfSeq
  <2>3. /\ f \in Seq(T) /\ Len(f) = n + 1
        /\ \A i \in 1..n+1 : f[i] = code[i]
    BY <1>1, <2>2, SubSeqProperties
  <2> HIDE DEF f
  <2>4. \A i \in 1..n+1 : expected[i] = f[i]
    BY <1>1, <1>2, <1>3, <2>3
  <2>5. expected = f
    BY <1>3, <2>3, <2>4, SeqEqual
  <2> QED
    BY <1>1, <1>2, <1>3, <2>1, <2>5 DEF IsPrefix, f
<1>5. /\ Len(body) = h + 1 + h /\ body \in Seq(T)
      /\ \A i \in 1..h+1+h : body[i] = code[n + 1 + i]
  <2>1. \A i \in n+2..n+h+h+2 : code[i] \in T
    BY <1>1, <1>2, ElementOfSeq
  <2>2. /\ body \in Seq(T)
        /\ Len(body) = IF n + 2 <= n + h + h + 2
                       THEN (n + h + h + 2) - (n + 2) + 1 ELSE 0
        /\ \A i \in 1..(n + h + h + 2) - (n + 2) + 1 :
             body[i] = code[(n + 2) + i - 1]
    BY <1>1, <2>1, SubSeqProperties
  <2> HIDE DEF body
  <2>3. (n + h + h + 2) - (n + 2) + 1 = h + 1 + h
    BY <1>1
  <2>4. \A i \in 1..h+1+h : (n + 2) + i - 1 = n + 1 + i
    BY <1>1
  <2>5. n + 2 <= n + h + h + 2
    BY <1>1
  <2>6. Len(body) = h + 1 + h
    BY <2>2, <2>3, <2>5
  <2>7. \A i \in 1..h+1+h : body[i] = code[n + 1 + i]
    BY <2>2, <2>3, <2>4
  <2> QED
    BY <2>2, <2>6, <2>7
<1> HIDE DEF body
<1>6. body[h + 1] = "-"
  <2>1. h + 1 \in 1..h+1+h /\ n + 1 + (h + 1) = n + h + 2
    BY <1>1
  <2> QED
    BY <1>2, <1>5, <2>1
<1>7. \A i \in DOMAIN body \ {h + 1} : body[i] \in c.charset
  <2>1. DOMAIN body = 1..h+1+h
    BY <1>5, LenProperties
  <2>2. \A i \in 1..h+1+h : i # h + 1 =>
          \/ n + 1 + i \in n+2..n+h+1
          \/ n + 1 + i \in n+h+3..n+h+h+2
    BY <1>1
  <2> QED
    BY <1>2, <1>5, <2>1, <2>2
<1>8. body = SubSeq(code, Len(expected) + 1, Len(code))
  <2>1. Len(expected) + 1 = n + 2
    BY <1>1, <1>3
  <2> QED
    BY <1>2, <2>1 DEF body
<1> QED
  BY <1>4, <1>5, <1>6, <1>7, <1>8 DEF ValidTokenFormat, expected

IsInk(ch) == ch # " "

\* What is between blanks is left, if it neither begins nor ends with one.
LEMMA TrimLeaves ==
  ASSUME NEW T, NEW text \in Seq(T), NEW n \in 1..Len(text),
         IsInk(text[1]), IsInk(text[n]),
         \A i \in n+1..Len(text) : ~IsInk(text[i])
  PROVE  /\ Trim(text) \in Seq(T) /\ Len(Trim(text)) = n
         /\ \A i \in 1..n : Trim(text)[i] = text[i]
<1> DEFINE ink == {i \in DOMAIN text : IsInk(text[i])}
<1>1. Len(text) \in Nat /\ DOMAIN text = 1..Len(text)
  BY LenProperties
<1>2. 1 \in ink /\ n \in ink /\ ink \subseteq 1..n
  BY <1>1
<1> HIDE DEF ink
<1>3. Min(ink) = 1
  <2>1. \A y \in ink : 1 =< y
    BY <1>2
  <2>2. \A x \in ink : (\A y \in ink : x =< y) => x = 1
    BY <1>2
  <2> QED
    BY <1>2, <2>1, <2>2, Zenon DEF Min
<1>4. Max(ink) = n
  <2>1. \A y \in ink : n >= y
    BY <1>2
  <2>2. \A x \in ink : (\A y \in ink : x >= y) => x = n
    BY <1>2
  <2> QED
    BY <1>2, <2>1, <2>2, Zenon DEF Max
<1>5. Trim(text) = SubSeq(text, 1, n)
  <2>1. ink # {}
    BY <1>2
  <2> QED
    BY <1>3, <1>4, <2>1, Zenon DEF Trim, ink, IsInk
<1>6. \A i \in 1..n : text[i] \in T
  BY <1>1, ElementOfSeq
<1> DEFINE s == SubSeq(text, 1, n)
<1>7. /\ s \in Seq(T) /\ Len(s) = IF 1 <= n THEN n - 1 + 1 ELSE 0
      /\ \A i \in 1..n - 1 + 1 : s[i] = text[1 + i - 1]
  BY <1>6, SubSeqProperties
<1> HIDE DEF s
<1>8. n - 1 + 1 = n /\ 1 <= n /\ \A i \in 1..n : 1 + i - 1 = i
  OBVIOUS
<1>9. s \in Seq(T) /\ Len(s) = n /\ \A i \in 1..n : s[i] = text[i]
  BY <1>7, <1>8
<1> QED
  BY <1>5, <1>9 DEF s

\* How a customer may spell a code: as long as it, and a blank behind.
Spells(text, code) ==
  /\ \E T : text \in Seq(T)
  /\ Len(text) >= Len(code)
  /\ \A i \in 1..Len(code) : text[i] = code[i] \/ text[i] = ToLower(code[i])
  /\ \A i \in Len(code)+1..Len(text) : ~IsInk(text[i])

LEMMA SpellingsSpell ==
  ASSUME NEW T, NEW code \in Seq(T), NEW text \in Spellings(code)
  PROVE  Spells(text, code)
<1>1. Len(code) \in Nat /\ DOMAIN code = 1..Len(code)
  BY LenProperties
<1>2. CASE text = code
  <2>1. Len(text) >= Len(code) /\ Len(code)+1..Len(text) = {}
    BY <1>1, <1>2
  <2> QED
    BY <1>2, <2>1, Zenon DEF Spells
<1>3. CASE text = [i \in DOMAIN code |-> ToLower(code[i])]
  <2> DEFINE U == T \cup {"a"}
  <2>1. \A i \in 1..Len(code) : ToLower(code[i]) \in U
    BY ElementOfSeq DEF ToLower
  <2>2. text \in [1..Len(code) -> U]
    BY <1>1, <1>3, <2>1
  <2> HIDE DEF U
  <2>3. text \in Seq(U)
    BY <1>1, <2>2, SeqDef
  <2>4. Len(text) = Len(code)
    BY <1>1, <2>2, <2>3, LenProperties
  <2> QED
    <3>1. Len(text) >= Len(code) /\ Len(code)+1..Len(text) = {}
      BY <1>1, <2>4
    <3> QED
      BY <1>1, <1>3, <2>3, <3>1, Zenon DEF Spells
<1>4. CASE text = Append(code, " ")
  <2> DEFINE U == T \cup {" "}
             blank == " "
  <2>1. code \in Seq(U) /\ blank \in U
    BY SeqMonotonic
  <2> HIDE DEF U, blank
  <2>2. /\ Append(code, blank) \in Seq(U)
        /\ Len(Append(code, blank)) = Len(code) + 1
        /\ \A i \in 1..Len(code) : Append(code, blank)[i] = code[i]
        /\ Append(code, blank)[Len(code) + 1] = blank
    BY <2>1, AppendProperties
  <2>3. text = Append(code, blank)
    BY <1>4 DEF blank
  <2> QED
    <3>1. ~IsInk(blank)
      BY DEF IsInk, blank
    <3>2. \A i \in Len(code)+1..Len(text) : i = Len(code) + 1
      BY <1>1, <2>2, <2>3
    <3>3. Len(text) >= Len(code)
      BY <1>1, <2>2, <2>3
    <3> QED
      BY <2>2, <2>3, <3>1, <3>2, <3>3, Zenon DEF Spells
<1> QED
  BY <1>2, <1>3, <1>4 DEF Spellings

\* A code without small letters and blanks at the ends comes through
\* portal_auth as it was printed.
LEMMA SpelledIsEntered ==
  ASSUME NEW T, "a" \notin T, NEW code \in Seq(T), Len(code) >= 1,
         IsInk(code[1]), IsInk(code[Len(code)]),
         NEW text, Spells(text, code)
  PROVE  Entered(text) = code
<1> DEFINE n == Len(code)
<1>1. n \in Nat /\ n >= 1 /\ DOMAIN code = 1..n /\ \A i \in 1..n : code[i] \in T
  BY LenProperties, ElementOfSeq
<1>2. PICK U : text \in Seq(U)
  BY DEF Spells
<1>3. /\ n \in 1..Len(text)
      /\ \A i \in 1..n : text[i] = code[i] \/ text[i] = ToLower(code[i])
      /\ \A i \in n+1..Len(text) : ~IsInk(text[i])
  <2>1. Len(text) \in Nat
    BY <1>2, LenProperties
  <2> QED
    BY <1>1, <2>1 DEF Spells
<1>c. \A ch \in T : /\ ToUpper(ch) = ch /\ ToUpper(ToLower(ch)) = ch
                    /\ IsInk(ch) => IsInk(ToLower(ch))
  BY DEF ToUpper, ToLower, IsInk
<1>4. \A i \in 1..n : /\ ToUpper(text[i]) = code[i]
                      /\ IsInk(code[i]) => IsInk(text[i])
  BY <1>1, <1>3, <1>c
<1>5. IsInk(text[1]) /\ IsInk(text[n])
  BY <1>1, <1>4
<1> HIDE DEF n
<1>6. /\ Trim(text) \in Seq(U) /\ Len(Trim(text)) = n
      /\ \A i \in 1..n : Trim(text)[i] = text[i]
  BY <1>2, <1>3, <1>5, TrimLeaves
<1>7. DOMAIN Trim(text) = 1..n
  BY <1>6, LenProperties
<1>8. Entered(text) = [i \in 1..n |-> ToUpper(Trim(text)[i])]
  BY <1>7 DEF Entered
<1>9. Entered(text) = [i \in 1..n |-> code[i]]
  BY <1>4, <1>6, <1>8
<1>10. code = [i \in 1..n |-> code[i]]
  <2>1. code \in [1..n -> T]
    BY LenProperties DEF n
  <2> QED
    BY <2>1
<1> QED
  BY <1>9, <1>10

\* Places of a text have a first and a last.
LEMMA LeastPlace ==
  ASSUME NEW S, S \subseteq Nat, S # {}
  PROVE  \E x \in S : \A y \in S : x =< y
<1>1. PICK R : R = OpToRel(<, Nat)
  OBVIOUS
<1>2. IsWellFoundedOn(R, Nat)
  BY <1>1, NatLessThanWellFounded
<1>3. PICK x \in S : \A y \in S : ~ (<<y, x>> \in R)
  BY <1>2, WFMin
<1>4. \A i \in Nat, j \in Nat : <<i, j>> \in R <=> i < j
  BY <1>1 DEF OpToRel
<1>5. \A y \in S : ~(y < x)
  BY <1>3, <1>4
<1>6. \A y \in S : y \in Nat /\ x \in Nat
  BY <1>3
<1>7. \A y \in S : x =< y
  BY <1>5, <1>6
<1> QED
  BY <1>3, <1>7

LEMMA GreatestPlace ==
  ASSUME NEW n \in Nat, NEW S, S \subseteq 1..n, S # {}
  PROVE  \E x \in S : \A y \in S : x >= y
<1> DEFINE turned == {k \in Nat : n - k \in S}
<1>1. \A x \in S : x \in 1..n /\ n - x \in Nat /\ n - (n - x) = x
  OBVIOUS
<1>2. PICK i : i \in S
  OBVIOUS
<1>3. n - i \in turned /\ turned # {}
  BY <1>1, <1>2
<1>4. PICK k \in turned : \A m \in turned : k =< m
  <2> HIDE DEF turned
  <2>1. turned \subseteq Nat
    BY DEF turned
  <2> QED
    BY <1>3, <2>1, LeastPlace
<1>5. n - k \in S /\ k \in Nat
  BY <1>4
<1>6. ASSUME NEW y \in S
      PROVE  n - k >= y
  <2>1. k =< n - y
    BY <1>1, <1>4
  <2> QED
    BY <1>1, <1>5, <2>1
<1> QED
  BY <1>5, <1>6

\* What portal_auth makes of a text holds no small letter, and begins and ends
\* with no blank.
LEMMA EnteredHasNoBlankEnds ==
  ASSUME NEW U, NEW text \in Seq(U), NEW code, Entered(text) = code,
         NEW n \in Nat, n >= 1, DOMAIN code = 1..n
  PROVE  /\ \A i \in 1..n : code[i] # "a"
         /\ IsInk(code[1]) /\ IsInk(code[n])
<1> DEFINE ink == {i \in DOMAIN text : IsInk(text[i])}
<1>1. Len(text) \in Nat /\ DOMAIN text = 1..Len(text)
  BY LenProperties
<1>2. DOMAIN Trim(text) = 1..n
      /\ \A i \in 1..n : code[i] = ToUpper(Trim(text)[i])
  BY DEF Entered
<1>3. \A i \in 1..n : code[i] # "a"
  BY <1>2 DEF ToUpper
<1>4. ink \subseteq 1..Len(text)
  BY <1>1
<1>5. ink # {}
  <2> SUFFICES ASSUME ink = {} PROVE FALSE
    OBVIOUS
  <2>1. Trim(text) = << >>
    BY Zenon DEF Trim, IsInk
  <2> QED
    BY <1>2, <2>1
<1> HIDE DEF ink
<1>6. Min(ink) \in ink /\ \A y \in ink : Min(ink) =< y
  <2>1. \E x \in ink : \A y \in ink : x =< y
    <3>1. ink \subseteq Nat
      BY <1>4
    <3> QED
      BY <1>5, <3>1, LeastPlace
  <2> QED
    BY <2>1, Zenon DEF Min
<1>7. Max(ink) \in ink
  <2>1. \E x \in ink : \A y \in ink : x >= y
    BY <1>1, <1>4, <1>5, GreatestPlace
  <2> QED
    BY <2>1, Zenon DEF Max
<1>8. PICK a : a = Min(ink)
  OBVIOUS
<1>9. PICK b : b = Max(ink)
  OBVIOUS
<1>10. /\ a \in 1..Len(text) /\ b \in 1..Len(text) /\ a =< b
       /\ IsInk(text[a]) /\ IsInk(text[b])
  BY <1>4, <1>6, <1>7, <1>8, <1>9 DEF ink
<1>11. Trim(text) = SubSeq(text, a, b)
  BY <1>5, <1>8, <1>9, Zenon DEF Trim, ink, IsInk
<1>12. \A i \in a..b : text[i] \in U
  BY <1>1, <1>10, ElementOfSeq
<1> DEFINE s == SubSeq(text, a, b)
<1>13. /\ s \in Seq(U) /\ Len(s) = IF a <= b THEN b - a + 1 ELSE 0
       /\ \A i \in 1..b - a + 1 : s[i] = text[a + i - 1]
  <2>1. a \in Int /\ b \in Int
    BY <1>1, <1>10
  <2> QED
    BY <1>12, <2>1, SubSeqProperties
<1> HIDE DEF s
<1>14. n = b - a + 1
  <2>1. DOMAIN s = 1..Len(s) /\ Len(s) \in Nat
    BY <1>13, LenProperties
  <2>2. Len(s) = b - a + 1
    BY <1>10, <1>13
  <2>3. 1..n = 1..(b - a + 1)
    BY <1>2, <1>11, <2>1, <2>2 DEF s
  <2> QED
    BY <1>1, <1>10, <2>3
<1>15. s[1] = text[a] /\ s[n] = text[b]
  <2>1. a + 1 - 1 = a /\ a + n - 1 = b /\ 1 \in 1..n /\ n \in 1..n
    BY <1>1, <1>10, <1>14
  <2> QED
    BY <1>13, <1>14, <2>1
<1>16. code[1] = ToUpper(s[1]) /\ code[n] = ToUpper(s[n])
  <2>1. 1 \in 1..n /\ n \in 1..n
    OBVIOUS
  <2> QED
    BY <1>2, <1>11, <2>1 DEF s
<1>17. \A ch : IsInk(ch) => IsInk(ToUpper(ch))
  BY DEF IsInk, ToUpper
<1> QED
  BY <1>3, <1>10, <1>15, <1>16, <1>17

\* Where letters and digits are in a code of four, four and four.
Places == 1..14 \ {5, 10}
Place(k) == IF k <= 4 THEN k ELSE IF k <= 8 THEN k + 1 ELSE k + 2

\* How many places there are up to one.
LEMMA PlacesCounted ==
  /\ Cardinality(Places) = 12
  /\ \A i \in Places : Rank(i, Places) = IF i <= 4 THEN i
                                         ELSE IF i <= 9 THEN i - 1 ELSE i - 2
<1>1. ASSUME NEW i \in 1..14
      PROVE  Cardinality((1..i) \ {5, 10})
               = IF i <= 4 THEN i ELSE IF i <= 9 THEN i - 1 ELSE i - 2
  <2> DEFINE all == 1..i
             most == all \ {5}
  <2>1. IsFiniteSet(all) /\ Cardinality(all) = i
    <3>1. 1 \in Int /\ i \in Int /\ ~(1 > i) /\ i - 1 + 1 = i
      OBVIOUS
    <3>2. IsFiniteSet(1..i) /\ Cardinality(1..i) = i - 1 + 1
      BY <3>1, FS_Interval
    <3> QED
      BY <3>1, <3>2
  <2>2. 5 \in all <=> i >= 5
    OBVIOUS
  <2>3. 10 \in most <=> i >= 10
    OBVIOUS
  <2> HIDE DEF all
  <2>4. /\ IsFiniteSet(most)
        /\ Cardinality(most) = IF 5 \in all THEN Cardinality(all) - 1
                               ELSE Cardinality(all)
    BY <2>1, FS_RemoveElement, Zenon
  <2> HIDE DEF most
  <2>5. Cardinality(most \ {10}) = IF 10 \in most THEN Cardinality(most) - 1
                                   ELSE Cardinality(most)
    BY <2>4, FS_RemoveElement, Zenon
  <2>6. most \ {10} = (1..i) \ {5, 10}
    BY DEF most, all
  <2> QED
    BY <2>1, <2>2, <2>3, <2>4, <2>5, <2>6
<1>2. Cardinality(Places) = 12
  BY <1>1 DEF Places
<1>3. ASSUME NEW i \in Places
      PROVE  {j \in Places : j <= i} = (1..i) \ {5, 10} /\ i \in 1..14
  BY DEF Places
<1> QED
  BY <1>1, <1>2, <1>3 DEF Rank

\* What the formatter keeps of such a text.
LEMMA KeptPlaces ==
  ASSUME NEW text, KeptOf(text) = Places
  PROVE  Kept(text) = [k \in 1..12 |-> text[Place(k)]]
<1> DEFINE rank == [i \in Places |-> Rank(i, Places)]
<1>1. Kept(text) = [k \in 1..12 |-> text[CHOOSE i \in Places : rank[i] = k]]
  <2>1. Cardinality(Places) = 12
    BY PlacesCounted
  <2> QED
    BY <2>1 DEF Kept
<1>2. \A i \in Places : rank[i] = IF i <= 4 THEN i
                                  ELSE IF i <= 9 THEN i - 1 ELSE i - 2
  BY PlacesCounted
<1> HIDE DEF rank
<1>3. ASSUME NEW k \in 1..12
      PROVE  (CHOOSE i \in Places : rank[i] = k) = Place(k)
  <2>1. Place(k) \in Places /\ rank[Place(k)] = k
    <3>1. Place(k) \in Places
      BY DEF Place, Places
    <3> QED
      BY <1>2, <3>1 DEF Place
  <2>2. \A i \in Places : rank[i] = k => i = Place(k)
    BY <1>2 DEF Place, Places
  <2> QED
    BY <2>1, <2>2, Zenon
<1> QED
  BY <1>1, <1>3

\* The formatter's result for a code of four, four and four, and any blanks.
LEMMA FormatterRestores ==
  ASSUME NEW T, NEW text \in Seq(T), Len(text) >= 14, KeptOf(text) = Places,
         NEW dash, dash = "-", text[5] = dash, text[10] = dash
  PROVE  Formatted(text) = [i \in 1..14 |-> ToUpper(text[i])]
<1>1. PICK all : all = Kept(text)
  OBVIOUS
<1>2. all = [k \in 1..12 |-> text[Place(k)]]
  BY <1>1, KeptPlaces
<1>3. \A i \in 1..14 : text[i] \in T
  BY LenProperties, ElementOfSeq
<1>4. \A k \in 1..12 : Place(k) \in 1..14
  BY DEF Place
<1>5. /\ all \in Seq(T) /\ Len(all) = 12
      /\ \A k \in 1..12 : all[k] = text[Place(k)] /\ all[k] \in T
  <2>1. all \in [1..12 -> T]
    BY <1>2, <1>3, <1>4
  <2>2. PICK n \in Nat : n = 12
    OBVIOUS
  <2>3. all \in [1..n -> T]
    BY <2>1, <2>2, Zenon
  <2>4. all \in Seq(T) /\ Len(all) = n
    BY <2>3, CharactersAreText
  <2> QED
    BY <1>2, <2>1, <2>2, <2>4
<1>6. PICK raw : raw = SubSeq(all, 1, 12)
  OBVIOUS
<1>7. raw = all
  BY <1>5, <1>6, SubSeqFull
<1>8. PICK u : u = SubSeq(raw, 1, 4)
  OBVIOUS
<1>9. PICK v : v = SubSeq(raw, 5, 8)
  OBVIOUS
<1>10. PICK w : w = SubSeq(raw, 9, 12)
  OBVIOUS
<1>11. PICK y : y = <<dash>>
  OBVIOUS
<1>12. PICK plain : plain = u \o y \o v \o y \o w
  OBVIOUS
<1>13. Formatted(text) = [i \in DOMAIN plain |-> ToUpper(plain[i])]
  BY <1>1, <1>5, <1>6, <1>7, <1>8, <1>9, <1>10, <1>11, <1>12 DEF Formatted
<1>14. /\ u \in Seq(T) /\ Len(u) = 4 /\ \A i \in 1..4 : u[i] = all[i]
       /\ v \in Seq(T) /\ Len(v) = 4 /\ \A i \in 1..4 : v[i] = all[4 + i]
       /\ w \in Seq(T) /\ Len(w) = 4 /\ \A i \in 1..4 : w[i] = all[8 + i]
  <2>1. ASSUME NEW m \in {1, 5, 9}, NEW s, s = SubSeq(all, m, m + 3)
        PROVE  /\ s \in Seq(T) /\ Len(s) = 4
               /\ \A i \in 1..4 : s[i] = all[m - 1 + i]
    <3>1. m \in Int /\ m + 3 \in Int /\ m <= m + 3 /\ (m + 3) - m + 1 = 4
      OBVIOUS
    <3>2. \A i \in m..m+3 : all[i] \in T
      <4>1. \A i \in m..m+3 : i \in 1..12
        OBVIOUS
      <4> QED
        BY <1>5, <4>1
    <3>3. /\ s \in Seq(T)
          /\ Len(s) = IF m <= m + 3 THEN (m + 3) - m + 1 ELSE 0
          /\ \A i \in 1..(m + 3) - m + 1 : s[i] = all[m + i - 1]
      BY <2>1, <3>1, <3>2, SubSeqProperties
    <3>4. \A i \in 1..4 : m + i - 1 = m - 1 + i
      OBVIOUS
    <3> QED
      BY <3>1, <3>3, <3>4
  <2>2. 1 + 3 = 4 /\ 5 + 3 = 8 /\ 9 + 3 = 12
    OBVIOUS
  <2>3. /\ u = SubSeq(all, 1, 1 + 3) /\ v = SubSeq(all, 5, 5 + 3)
        /\ w = SubSeq(all, 9, 9 + 3)
    BY <1>7, <1>8, <1>9, <1>10, <2>2
  <2>4. /\ u \in Seq(T) /\ Len(u) = 4 /\ \A i \in 1..4 : u[i] = all[1 - 1 + i]
        /\ v \in Seq(T) /\ Len(v) = 4 /\ \A i \in 1..4 : v[i] = all[5 - 1 + i]
        /\ w \in Seq(T) /\ Len(w) = 4 /\ \A i \in 1..4 : w[i] = all[9 - 1 + i]
    BY <2>1, <2>3, Zenon
  <2>5. \A i \in 1..4 : /\ 1 - 1 + i = i /\ 5 - 1 + i = 4 + i
                        /\ 9 - 1 + i = 8 + i
    OBVIOUS
  <2> QED
    BY <2>4, <2>5
<1>15. y \in Seq(T) /\ Len(y) = 1 /\ y[1] = dash
  <2>1. dash \in T
    BY <1>3
  <2> QED
    BY <1>11, <2>1
<1>16. Parts(T, plain, 4, u, y, 4, v, w)
  <2>1. 4 \in Nat
    OBVIOUS
  <2> QED
    BY <1>12, <1>14, <1>15, <2>1, FiveParts, Zenon
<1>17. /\ plain \in Seq(T) /\ Len(plain) = 14
       /\ \A i \in 1..4 : plain[i] = u[i]
       /\ plain[5] = dash /\ plain[10] = dash
       /\ \A i \in 6..9 : plain[i] = v[i - 5]
       /\ \A i \in 11..14 : plain[i] = w[i - 10]
  BY <1>15, <1>16 DEF Parts
<1>18. \A i \in 1..14 : plain[i] = text[i]
  <2>1. ASSUME NEW i \in 1..4 PROVE plain[i] = text[i]
    <3>1. plain[i] = all[i]
      BY <1>14, <1>17
    <3>2. Place(i) = i /\ i \in 1..12
      BY DEF Place
    <3> QED
      BY <1>5, <3>1, <3>2, Zenon
  <2>2. ASSUME NEW i \in 6..9 PROVE plain[i] = text[i]
    <3>0. plain[i] = v[i - 5] /\ i - 5 \in 1..4
      BY <1>17
    <3>1. plain[i] = all[4 + (i - 5)]
      BY <1>14, <3>0, Zenon
    <3>2. /\ 4 + (i - 5) = i - 1 /\ Place(i - 1) = i
          /\ i - 1 \in 1..12
      BY DEF Place
    <3> QED
      BY <1>5, <3>1, <3>2, Zenon
  <2>3. ASSUME NEW i \in 11..14 PROVE plain[i] = text[i]
    <3>0. plain[i] = w[i - 10] /\ i - 10 \in 1..4
      BY <1>17
    <3>1. plain[i] = all[8 + (i - 10)]
      BY <1>14, <3>0, Zenon
    <3>2. /\ 8 + (i - 10) = i - 2 /\ Place(i - 2) = i
          /\ i - 2 \in 1..12
      BY DEF Place
    <3> QED
      BY <1>5, <3>1, <3>2, Zenon
  <2>4. plain[5] = text[5] /\ plain[10] = text[10]
    BY <1>17
  <2>5. \A i \in 1..14 : i \in 1..4 \/ i = 5 \/ i \in 6..9 \/ i = 10
                          \/ i \in 11..14
    OBVIOUS
  <2> QED
    BY <2>1, <2>2, <2>3, <2>4, <2>5, Zenon
<1>19. DOMAIN plain = 1..14
  BY <1>17, LenProperties
<1> QED
  BY <1>13, <1>18, <1>19

\* A code of four, four and four comes through the formatter as printed.
LEMMA SpelledIsFormatted ==
  ASSUME NEW T, T \subseteq Alphanumeric \cup {"-"}, "a" \notin T,
         NEW code \in Seq(T), Len(code) = 14,
         code[5] = "-", code[10] = "-",
         \A i \in Places : code[i] \in Alphanumeric,
         NEW text, Spells(text, code)
  PROVE  Formatted(text) = code
<1>1. PICK U : text \in Seq(U)
  BY DEF Spells
<1>2. Len(text) \in Nat /\ DOMAIN text = 1..Len(text)
  BY <1>1, LenProperties
<1>3. /\ Len(text) >= 14
      /\ \A i \in 1..14 : text[i] = code[i] \/ text[i] = ToLower(code[i])
      /\ \A i \in 15..Len(text) : ~IsInk(text[i])
  BY DEF Spells
<1>4. PICK dash : dash = "-"
  OBVIOUS
<1>5. /\ dash \notin Alphanumeric /\ ToLower(dash) = dash /\ IsInk(dash)
      /\ \A ch \in Alphanumeric : ToLower(ch) \in Alphanumeric
      /\ \A ch : ~IsInk(ch) => ch \notin Alphanumeric
      /\ \A ch \in T : ToUpper(ch) = ch /\ ToUpper(ToLower(ch)) = ch
  BY <1>4 DEF Alphanumeric, ToLower, ToUpper, IsInk
<1>6. code[5] = dash /\ code[10] = dash
  BY <1>4
<1>7. text[5] = dash /\ text[10] = dash
  BY <1>3, <1>5, <1>6
<1>8. KeptOf(text) = Places
  <2>1. ASSUME NEW i \in Places
        PROVE  i \in 1..Len(text) /\ text[i] \in Alphanumeric
    <3>1. i \in 1..14 /\ i \in 1..Len(text)
      BY <1>2, <1>3 DEF Places
    <3> QED
      BY <1>3, <1>5, <3>1
  <2>2. ASSUME NEW i \in 1..Len(text), text[i] \in Alphanumeric
        PROVE  i \in Places
    <3>1. i # 5 /\ i # 10
      BY <1>5, <1>7, <2>2
    <3>2. i \notin 15..Len(text)
      BY <1>3, <1>5, <2>2
    <3>3. i \in 1..14
      BY <1>2, <3>2
    <3> QED
      BY <3>1, <3>3 DEF Places
  <2>3. KeptOf(text) = {i \in 1..Len(text) : text[i] \in Alphanumeric}
    BY <1>2 DEF KeptOf
  <2> QED
    BY <2>1, <2>2, <2>3, Zenon
<1>9. Formatted(text) = [i \in 1..14 |-> ToUpper(text[i])]
  BY <1>1, <1>3, <1>4, <1>7, <1>8, FormatterRestores
<1>10. \A i \in 1..14 : ToUpper(text[i]) = code[i]
  <2>1. \A i \in 1..14 : code[i] \in T
    BY ElementOfSeq
  <2> QED
    BY <1>3, <1>5, <2>1
<1>11. code = [i \in 1..14 |-> code[i]]
  BY LenProperties
<1> QED
  BY <1>9, <1>10, <1>11

\* Where a letter or a digit comes among those that are kept, and that every
\* number up to their number is the place of one.
LEMMA RankIsOnto ==
  ASSUME NEW n \in Nat, NEW S, S \subseteq 1..n,
         NEW k \in 1..Cardinality(S)
  PROVE  \E i \in S : Rank(i, S) = k
<1> DEFINE rank == [i \in S |-> Rank(i, S)]
           upto(i) == {j \in S : j <= i}
           card == Cardinality(S)
<1>1. IsFiniteSet(S) /\ card \in Nat
  <2>1. IsFiniteSet(1..n)
    BY FS_Interval
  <2>2. IsFiniteSet(S)
    BY <2>1, FS_Subset
  <2> QED
    BY <2>2, FS_CardinalityType
<1>2. ASSUME NEW i \in S
      PROVE  /\ IsFiniteSet(upto(i)) /\ Cardinality(upto(i)) \in 1..card
             /\ rank[i] = Cardinality(upto(i)) /\ i \in upto(i)
  <2>1. upto(i) \in SUBSET S /\ i \in upto(i)
    OBVIOUS
  <2>2. IsFiniteSet(upto(i)) /\ Cardinality(upto(i)) <= card
    <3> HIDE DEF upto
    <3> QED
      BY <1>1, <2>1, FS_Subset
  <2>3. Cardinality(upto(i)) \in Nat /\ Cardinality(upto(i)) # 0
    <3> HIDE DEF upto
    <3>1. upto(i) # {}
      BY <2>1
    <3> QED
      BY <2>2, <3>1, FS_CardinalityType, FS_EmptySet
  <2>4. rank[i] = Cardinality(upto(i))
    BY DEF Rank
  <2> QED
    BY <1>1, <2>1, <2>2, <2>3, <2>4
<1>i. \A i \in S : i \in Nat
  OBVIOUS
<1>3. ASSUME NEW i \in S, NEW j \in S, i < j
      PROVE  rank[i] # rank[j]
  <2>1. upto(i) \in SUBSET upto(j) /\ j \notin upto(i)
    <3>1. i \in Nat /\ j \in Nat
      BY <1>i
    <3>2. ~(j <= i) /\ \A x \in Nat : x <= i => x <= j
      BY <1>3, <3>1
    <3> QED
      BY <1>i, <3>2, Zenon
  <2>2. IsFiniteSet(upto(j)) /\ j \in upto(j)
    BY <1>2
  <2>3. Cardinality(upto(i)) # Cardinality(upto(j))
    <3> HIDE DEF upto
    <3> QED
      BY <2>1, <2>2, FS_Subset
  <2> QED
    BY <1>2, <2>3
<1>4. \A i \in S, j \in S : i < j \/ j < i \/ i = j
  OBVIOUS
<1>5. rank \in [S -> 1..card]
  <2>1. \A i \in S : Rank(i, S) \in 1..card
    BY <1>2
  <2> QED
    BY <2>1
<1>6. \A i \in S, j \in S : rank[i] = rank[j] => i = j
  BY <1>3, <1>4
<1>7. IsFiniteSet(1..card) /\ Cardinality(1..card) = card
  BY <1>1, FS_Interval
<1>8. rank \in Injection(S, 1..card)
  <2> HIDE DEF rank, card
  <2> QED
    BY <1>5, <1>6 DEF Injection, IsInjective
<1>9. rank \in Surjection(S, 1..card)
  <2> HIDE DEF rank
  <2> QED
    BY <1>7, <1>8, FS_Injection
<1>10. \E i \in S : rank[i] = k
  <2> HIDE DEF rank
  <2> QED
    BY <1>9 DEF Surjection
<1> QED
  BY <1>10

\* What is kept of a text are letters and digits.
LEMMA KeptIsAlphanumeric ==
  ASSUME NEW U, NEW text \in Seq(U)
  PROVE  Kept(text) \in Seq(Alphanumeric)
<1>1. PICK kept : kept = KeptOf(text)
  OBVIOUS
<1>2. PICK n \in Nat : kept \subseteq 1..n
  <2>1. Len(text) \in Nat /\ kept \subseteq 1..Len(text)
    BY <1>1, LenProperties DEF KeptOf
  <2> QED
    BY <2>1
<1>3. PICK rank : rank = [i \in kept |-> Rank(i, kept)]
  OBVIOUS
<1>4. PICK m : m = Cardinality(kept)
  OBVIOUS
<1>5. Kept(text) = [k \in 1..m |-> text[CHOOSE i \in kept : rank[i] = k]]
  BY <1>1, <1>3, <1>4 DEF Kept
<1>6. ASSUME NEW k \in 1..m
      PROVE  text[CHOOSE i \in kept : rank[i] = k] \in Alphanumeric
  <2>1. \E i \in kept : Rank(i, kept) = k
    BY <1>2, <1>4, RankIsOnto
  <2>2. \E i \in kept : rank[i] = k
    BY <1>3, <2>1
  <2>3. (CHOOSE i \in kept : rank[i] = k) \in kept
    BY <2>2, Zenon
  <2> QED
    BY <1>1, <2>3 DEF KeptOf
<1>7. Kept(text) \in [1..m -> Alphanumeric]
  BY <1>5, <1>6
<1>8. m \in Nat
  <2>1. IsFiniteSet(1..n)
    BY FS_Interval
  <2>2. IsFiniteSet(kept)
    BY <1>2, <2>1, FS_Subset
  <2> QED
    BY <1>4, <2>2, FS_CardinalityType
<1> QED
  BY <1>7, <1>8, CharactersAreText

\* What the formatter makes of a text: capital letters and digits, and dashes
\* in the fifth and the tenth place only.
Printed == {"A", "2", "-"}
IsDash(i) == i = 5 \/ i = 10
Grouped(T, s, m) ==
  /\ s \in Seq(T) /\ Len(s) = m
  /\ \A i \in 1..m : IF IsDash(i) THEN s[i] = "-" ELSE s[i] \in Alphanumeric

\* A group of letters and digits behind what is grouped.
LEMMA GroupAppended ==
  ASSUME NEW T, NEW m \in Nat, NEW s, Grouped(T, s, m),
         NEW k \in Nat, NEW t \in Seq(T), Len(t) = k,
         \A i \in 1..k : t[i] \in Alphanumeric /\ ~IsDash(m + i)
  PROVE  Grouped(T, s \o t, m + k)
<1>1. PICK r : r = s \o t
  OBVIOUS
<1>2. s \in Seq(T) /\ Len(s) = m
  BY DEF Grouped
<1>3. Joined(T, r, s, m, t, k)
  BY <1>1, <1>2, Concatenated, Zenon
<1>4. ASSUME NEW i \in 1..m+k
      PROVE  IF IsDash(i) THEN r[i] = "-" ELSE r[i] \in Alphanumeric
  <2>1. CASE i \in 1..m
    BY <1>3, <2>1, Zenon DEF Joined, Grouped
  <2>2. CASE i \in m+1..m+k
    <3>1. r[i] = t[i - m] /\ i - m \in 1..k
      BY <1>3, <2>2 DEF Joined
    <3>2. m + (i - m) = i
      OBVIOUS
    <3>3. t[i - m] \in Alphanumeric /\ ~IsDash(m + (i - m))
      BY <3>1
    <3> QED
      BY <3>1, <3>2, <3>3
  <2> QED
    BY <2>1, <2>2
<1> QED
  BY <1>1, <1>3, <1>4 DEF Grouped, Joined

\* A dash behind it.
LEMMA DashAppended ==
  ASSUME NEW T, NEW m \in Nat, NEW s, Grouped(T, s, m),
         NEW dash, dash = "-", NEW t \in Seq(T), Len(t) = 1, t[1] = dash,
         IsDash(m + 1)
  PROVE  Grouped(T, s \o t, m + 1)
<1>1. PICK r : r = s \o t
  OBVIOUS
<1>2. s \in Seq(T) /\ Len(s) = m /\ 1 \in Nat
  BY DEF Grouped
<1>3. Joined(T, r, s, m, t, 1)
  BY <1>1, <1>2, Concatenated, Zenon
<1>4. ASSUME NEW i \in 1..m+1
      PROVE  IF IsDash(i) THEN r[i] = "-" ELSE r[i] \in Alphanumeric
  <2>1. CASE i \in 1..m
    BY <1>3, <2>1, Zenon DEF Joined, Grouped
  <2>2. CASE i = m + 1
    <3>1. m + 1 \in m+1..m+1 /\ (m + 1) - m = 1
      OBVIOUS
    <3>2. r[i] = t[1]
      BY <1>3, <2>2, <3>1, Zenon DEF Joined
    <3> QED
      BY <2>2, <3>2
  <2> QED
    BY <2>1, <2>2
<1> QED
  BY <1>1, <1>3, <1>4 DEF Grouped, Joined

\* Nothing behind it.
LEMMA NothingAppended ==
  ASSUME NEW T, NEW m \in Nat, NEW s, Grouped(T, s, m)
  PROVE  Grouped(T, s \o << >>, m)
<1>1. << >> \in Seq(T) /\ Len(<< >>) = 0 /\ 0 \in Nat /\ m + 0 = m
  BY EmptySeq
<1>2. \A i \in 1..0 : << >>[i] \in Alphanumeric /\ ~IsDash(m + i)
  OBVIOUS
<1>3. Grouped(T, s \o << >>, m + 0)
  BY <1>1, <1>2, GroupAppended
<1> QED
  BY <1>1, <1>3

\* Part of the letters and digits.
LEMMA PartOfKept ==
  ASSUME NEW T, Alphanumeric \subseteq T,
         NEW m \in Nat, NEW raw \in Seq(Alphanumeric), Len(raw) = m,
         NEW from \in Nat, from >= 1, NEW to \in Nat, to <= m,
         NEW k \in Nat, k = IF from <= to THEN to - from + 1 ELSE 0,
         NEW s, s = SubSeq(raw, from, to)
  PROVE  s \in Seq(T) /\ Len(s) = k /\ \A i \in 1..k : s[i] \in Alphanumeric
<1>1. \A i \in from..to : raw[i] \in Alphanumeric
  <2>1. \A i \in from..to : i \in 1..m
    OBVIOUS
  <2> QED
    BY <2>1, ElementOfSeq
<1>2. from \in Int /\ to \in Int
  OBVIOUS
<1>3. s \in Seq(Alphanumeric) /\ Len(s) = k
  <2>1. /\ SubSeq(raw, from, to) \in Seq(Alphanumeric)
        /\ Len(SubSeq(raw, from, to))
             = IF from <= to THEN to - from + 1 ELSE 0
    BY <1>1, <1>2, SubSeqProperties
  <2> QED
    BY <2>1
<1>4. s \in Seq(T)
  BY <1>3, SeqMonotonic
<1>5. \A i \in 1..k : s[i] \in Alphanumeric
  BY <1>3, ElementOfSeq
<1> QED
  BY <1>3, <1>4, <1>5

Least(m, n) == IF m < n THEN m ELSE n

LEMMA FormattedIsGrouped ==
  ASSUME NEW U, NEW text \in Seq(U)
  PROVE  \E m \in Nat : /\ Grouped(Printed, Formatted(text), m)
                        /\ "a" \notin Range(Formatted(text))
<1>1. PICK all : all = Kept(text)
  OBVIOUS
<1>2. all \in Seq(Alphanumeric) /\ Len(all) \in Nat
  BY <1>1, KeptIsAlphanumeric, LenProperties
<1>3. PICK m : m = Least(Len(all), 12)
  OBVIOUS
<1>4. m \in 0..12 /\ m <= Len(all)
  <2>1. PICK n \in Nat : n = Len(all)
    BY <1>2
  <2>2. m = IF n < 12 THEN n ELSE 12
    BY <1>3, <2>1, Zenon DEF Least
  <2>3. m \in 0..12 /\ m <= n
    <3>1. CASE n < 12
      <4>1. n \in 0..12 /\ n <= n
        BY <3>1
      <4> QED
        BY <2>2, <3>1, <4>1, Zenon
    <3>2. CASE ~(n < 12)
      <4>1. 12 \in 0..12 /\ 12 <= n
        BY <3>2
      <4> QED
        BY <2>2, <3>2, <4>1, Zenon
    <3> QED
      BY <3>1, <3>2
  <2> QED
    BY <2>1, <2>3, Zenon
<1>5. PICK raw : raw = SubSeq(all, 1, m)
  OBVIOUS
<1>6. raw \in Seq(Alphanumeric) /\ Len(raw) = m
  <2>1. 1 \in Nat /\ m \in Nat /\ m = IF 1 <= m THEN m - 1 + 1 ELSE 0
    BY <1>4
  <2>2. /\ raw \in Seq(Alphanumeric) /\ Len(raw) = m
        /\ \A i \in 1..m : raw[i] \in Alphanumeric
    BY <1>2, <1>4, <1>5, <2>1, PartOfKept
  <2> QED
    BY <2>2
<1>7. PICK T : T = Alphanumeric \cup {"-"}
  OBVIOUS
<1>8. Alphanumeric \subseteq T
  BY <1>7
<1>9. PICK u : u = SubSeq(raw, 1, Least(m, 4))
  OBVIOUS
<1>10. PICK v : v = SubSeq(raw, 5, Least(m, 8))
  OBVIOUS
<1>11. PICK w : w = SubSeq(raw, 9, Least(m, 12))
  OBVIOUS
<1>12. PICK y : y = <<"-">>
  OBVIOUS
<1>13. PICK d : d = IF m > 4 THEN y ELSE << >>
  OBVIOUS
<1>14. PICK e : e = IF m > 8 THEN y ELSE << >>
  OBVIOUS
<1>15. PICK plain : plain = u \o d \o v \o e \o w
  OBVIOUS
<1>16. Formatted(text) = [i \in DOMAIN plain |-> ToUpper(plain[i])]
  <2> DEFINE kept == Kept(text)
             first == SubSeq(kept, 1, Least(Len(kept), 12))
             part(from, to) == SubSeq(first, from, Least(Len(first), to))
             dash(n) == IF Len(first) > n THEN <<"-">> ELSE << >>
             five == part(1, 4) \o dash(4) \o part(5, 8) \o dash(8)
                       \o part(9, 12)
  <2>1. Formatted(text) = [i \in DOMAIN five |-> ToUpper(five[i])]
    BY Zenon DEF Formatted, Least
  <2>2. first = raw
    BY <1>1, <1>3, <1>5, Zenon
  <2> HIDE DEF first
  <2>3. part(1, 4) = u /\ part(5, 8) = v /\ part(9, 12) = w
    BY <1>6, <1>9, <1>10, <1>11, <2>2, Zenon
  <2>4. dash(4) = d /\ dash(8) = e
    BY <1>6, <1>12, <1>13, <1>14, <2>2, Zenon
  <2> HIDE DEF part, dash
  <2>5. five = plain
    BY <1>15, <2>3, <2>4, Zenon
  <2> QED
    BY <2>1, <2>5, Zenon
<1>17. PICK k1 \in 0..4 : /\ k1 = Least(m, 4)
                          /\ m > 4 => k1 = 4
  BY <1>4 DEF Least
<1>18. PICK k2 \in 0..4 :
         /\ k2 = IF 5 <= Least(m, 8) THEN Least(m, 8) - 5 + 1 ELSE 0
         /\ k2 > 0 => m > 4 /\ k1 = 4
         /\ m > 8 => k2 = 4 /\ m > 4 /\ k1 = 4
  BY <1>4, <1>17 DEF Least
<1>19. PICK k3 \in 0..4 :
         /\ k3 = IF 9 <= Least(m, 12) THEN Least(m, 12) - 9 + 1 ELSE 0
         /\ k3 > 0 => m > 8
  BY <1>4 DEF Least
<1>20. /\ u \in Seq(T) /\ Len(u) = k1 /\ \A i \in 1..k1 : u[i] \in Alphanumeric
       /\ v \in Seq(T) /\ Len(v) = k2 /\ \A i \in 1..k2 : v[i] \in Alphanumeric
       /\ w \in Seq(T) /\ Len(w) = k3 /\ \A i \in 1..k3 : w[i] \in Alphanumeric
  <2>1. \A n \in {4, 8, 12} : Least(m, n) \in Nat /\ Least(m, n) <= m
    BY <1>4 DEF Least
  <2>2. k1 \in Nat /\ k2 \in Nat /\ k3 \in Nat /\ m \in Nat
    BY <1>4
  <2>3. k1 = IF 1 <= Least(m, 4) THEN Least(m, 4) - 1 + 1 ELSE 0
    BY <1>17, <2>1
  <2>4. u \in Seq(T) /\ Len(u) = k1 /\ \A i \in 1..k1 : u[i] \in Alphanumeric
    BY <1>6, <1>8, <1>9, <2>1, <2>2, <2>3, PartOfKept
  <2>5. v \in Seq(T) /\ Len(v) = k2 /\ \A i \in 1..k2 : v[i] \in Alphanumeric
    <3>1. PICK to \in Nat : to = Least(m, 8) /\ to <= m
      BY <2>1
    <3>2. /\ v = SubSeq(raw, 5, to)
          /\ k2 = IF 5 <= to THEN to - 5 + 1 ELSE 0
      BY <1>10, <1>18, <3>1, Zenon
    <3>3. 5 \in Nat /\ 5 >= 1
      OBVIOUS
    <3> QED
      BY <1>6, <1>8, <2>2, <3>1, <3>2, <3>3, PartOfKept
  <2>6. w \in Seq(T) /\ Len(w) = k3 /\ \A i \in 1..k3 : w[i] \in Alphanumeric
    <3>1. PICK to \in Nat : to = Least(m, 12) /\ to <= m
      BY <2>1
    <3>2. /\ w = SubSeq(raw, 9, to)
          /\ k3 = IF 9 <= to THEN to - 9 + 1 ELSE 0
      BY <1>11, <1>19, <3>1, Zenon
    <3>3. 9 \in Nat /\ 9 >= 1
      OBVIOUS
    <3> QED
      BY <1>6, <1>8, <2>2, <3>1, <3>2, <3>3, PartOfKept
  <2> QED
    BY <2>4, <2>5, <2>6
<1>21. PICK dash : dash = "-"
  OBVIOUS
<1>22. y \in Seq(T) /\ Len(y) = 1 /\ y[1] = dash
  <2>1. dash \in T /\ y = <<dash>>
    BY <1>7, <1>12, <1>21
  <2> QED
    BY <2>1
<1>23. Grouped(T, u, k1)
  BY <1>20 DEF Grouped, IsDash
<1>24. \E l \in Nat : /\ Grouped(T, u \o d, l) /\ l <= 5
                      /\ m > 4 => l = 5
  <2>1. CASE m > 4
    <3>1. k1 = 4 /\ k1 \in Nat /\ k1 + 1 = 5 /\ IsDash(k1 + 1) /\ d = y
      BY <1>13, <1>17, <2>1 DEF IsDash
    <3>2. Grouped(T, u \o d, k1 + 1)
      BY <1>21, <1>22, <1>23, <3>1, DashAppended
    <3> QED
      BY <3>1, <3>2
  <2>2. CASE ~(m > 4)
    <3>1. d = << >> /\ k1 \in Nat /\ k1 <= 5
      BY <1>13, <2>2
    <3>2. Grouped(T, u \o d, k1)
      BY <1>23, <3>1, NothingAppended
    <3> QED
      BY <2>2, <3>1, <3>2
  <2> QED
    BY <2>1, <2>2
<1>25. PICK l1 \in Nat : /\ Grouped(T, u \o d, l1) /\ l1 <= 5
                         /\ m > 4 => l1 = 5
  BY <1>24
<1>26. PICK a : a = u \o d
  OBVIOUS
<1>27. PICK l2 \in Nat : /\ Grouped(T, a \o v, l2)
                         /\ m > 8 => l2 = 9
  <2>1. \A i \in 1..k2 : ~IsDash(l1 + i)
    BY <1>18, <1>25 DEF IsDash
  <2>2. Grouped(T, a \o v, l1 + k2)
    <3>1. Grouped(T, a, l1) /\ k2 \in Nat
      BY <1>25, <1>26
    <3> QED
      BY <1>20, <2>1, <3>1, GroupAppended
  <2>3. l1 + k2 \in Nat /\ (m > 8 => l1 + k2 = 9)
    BY <1>18, <1>25
  <2> QED
    BY <2>2, <2>3
<1>28. PICK b : b = a \o v
  OBVIOUS
<1>29. PICK l3 \in Nat : /\ Grouped(T, b \o e, l3)
                         /\ m > 8 => l3 = 10
  <2>1. CASE m > 8
    <3>1. l2 + 1 = 10 /\ IsDash(l2 + 1) /\ e = y /\ l2 + 1 \in Nat
      BY <1>14, <1>27, <2>1 DEF IsDash
    <3>2. Grouped(T, b, l2)
      BY <1>27, <1>28
    <3>3. Grouped(T, b \o e, l2 + 1)
      BY <1>21, <1>22, <3>1, <3>2, DashAppended
    <3> QED
      BY <3>1, <3>3
  <2>2. CASE ~(m > 8)
    <3>1. e = << >> /\ Grouped(T, b, l2)
      BY <1>14, <1>27, <1>28, <2>2
    <3>2. Grouped(T, b \o e, l2)
      BY <3>1, NothingAppended
    <3> QED
      BY <2>2, <3>2
  <2> QED
    BY <2>1, <2>2
<1>30. PICK f : f = b \o e
  OBVIOUS
<1>31. PICK l \in Nat : Grouped(T, plain, l)
  <2>1. \A i \in 1..k3 : ~IsDash(l3 + i)
    BY <1>19, <1>29 DEF IsDash
  <2>2. Grouped(T, f, l3) /\ k3 \in Nat
    BY <1>29, <1>30
  <2>3. Grouped(T, f \o w, l3 + k3)
    BY <1>20, <2>1, <2>2, GroupAppended
  <2>4. plain = f \o w
    BY <1>15, <1>26, <1>28, <1>30
  <2> QED
    BY <2>2, <2>3, <2>4
<1>32. DOMAIN plain = 1..l
  BY <1>31, LenProperties DEF Grouped
<1>33. ASSUME NEW i \in 1..l
       PROVE  /\ ToUpper(plain[i]) \in Printed
              /\ IsDash(i) => ToUpper(plain[i]) = "-"
              /\ ~IsDash(i) => ToUpper(plain[i]) \in Alphanumeric
              /\ ToUpper(plain[i]) # "a"
  <2>1. /\ IsDash(i) => plain[i] = "-"
        /\ ~IsDash(i) => plain[i] \in Alphanumeric
    BY <1>31 DEF Grouped
  <2> QED
    BY <2>1 DEF ToUpper, Alphanumeric, Printed
<1>34. PICK F : F = Formatted(text)
  OBVIOUS
<1>35. F = [i \in 1..l |-> ToUpper(plain[i])]
  BY <1>16, <1>32, <1>34
<1>36. F \in [1..l -> Printed]
  BY <1>33, <1>35
<1>37. F \in Seq(Printed) /\ Len(F) = l
  BY <1>36, CharactersAreText
<1>38. \A i \in 1..l : /\ IsDash(i) => F[i] = "-"
                       /\ ~IsDash(i) => F[i] \in Alphanumeric
                       /\ F[i] # "a"
  BY <1>33, <1>35
<1>39. "a" \notin Range(F)
  BY <1>35, <1>38 DEF Range
<1> QED
  BY <1>34, <1>37, <1>38, <1>39 DEF Grouped

\* What the two tests of CodesEnterable say of a code.
Plain(code) == "a" \notin Range(code) /\ code[1] # " " /\ code[Len(code)] # " "
FourFourFour(c, code) ==
  /\ Len(c.prefix) = 4 /\ c.length = 8
  /\ \A i \in DOMAIN code \ {5, 10} : code[i] \in {"A", "2"}

\* A code that was sold: n characters, and twice h.
Sold(c, code, n, h) ==
  /\ n >= 1 /\ n = Len(c.prefix) /\ h >= 3 /\ c.length = h + h
  /\ IsCode(c, code, n, h) /\ ValidTokenFormat(c, code)

LEMMA SoldCode ==
  ASSUME NEW c, c.length \in Nat, c.prefix \in Seq(Range(c.prefix)),
         TokenAccepted(c), NEW code \in Generated(c)
  PROVE  \E n \in Nat, h \in Nat : Sold(c, code, n, h)
<1>1. c.prefix # << >> /\ c.length >= 6 /\ c.length % 2 = 0
  BY DEF TokenAccepted
<1>2. PICK length \in Nat : length = c.length
  OBVIOUS
<1>3. PICK h \in Nat : length \div 2 = h /\ h >= 3 /\ length = h + h
  BY <1>1, <1>2, HalfLength
<1>4. c.length \div 2 = h
  BY <1>2, <1>3
<1>5. PICK n \in Nat : n = Len(c.prefix) /\ n >= 1
  BY <1>1, EmptySeq
<1>6. IsCode(c, code, n, h)
  BY <1>4, <1>5, CodeShape
<1>7. ValidTokenFormat(c, code)
  BY <1>4, <1>5, <1>6, ShapeIsValid
<1> QED
  BY <1>2, <1>3, <1>5, <1>6, <1>7 DEF Sold

\* In any spelling, a code is entered just if it is plain.
LEMMA EnteredExactly ==
  ASSUME NEW c, NEW code, NEW n \in Nat, NEW h \in Nat, Sold(c, code, n, h),
         NEW text, Spells(text, code)
  PROVE  Enters(c, text, code) <=> Plain(code)
<1>1. PICK l \in Nat : l = n + h + h + 2
  OBVIOUS
<1>2. /\ code \in Seq(Characters(c)) /\ Len(code) = l /\ l >= 1
      /\ DOMAIN code = 1..l
  BY <1>1, LenProperties DEF Sold, IsCode
<1>3. ASSUME Plain(code)
      PROVE  Enters(c, text, code)
  <2>1. code \in Seq(Characters(c) \ {"a"})
    <3>1. \A i \in 1..l : code[i] \in Characters(c) \ {"a"}
      BY <1>2, <1>3, ElementOfSeq DEF Plain, Range
    <3>2. code = [i \in 1..l |-> code[i]]
      BY <1>2, LenProperties
    <3>3. code \in [1..l -> Characters(c) \ {"a"}]
      BY <3>1, <3>2
    <3> QED
      BY <3>3, SeqDef
  <2>2. PICK T : T = Characters(c) \ {"a"}
    OBVIOUS
  <2>3. "a" \notin T /\ code \in Seq(T) /\ Len(code) >= 1
        /\ IsInk(code[1]) /\ IsInk(code[Len(code)])
    BY <1>2, <1>3, <2>1, <2>2 DEF Plain, IsInk
  <2>4. Entered(text) = code
    BY <2>3, SpelledIsEntered
  <2> QED
    BY <2>4 DEF Enters, Sold
<1>4. ASSUME Enters(c, text, code)
      PROVE  Plain(code)
  <2>1. Entered(text) = code
    BY <1>4 DEF Enters
  <2>2. PICK U : text \in Seq(U)
    BY DEF Spells
  <2>3. /\ \A i \in 1..l : code[i] # "a"
        /\ IsInk(code[1]) /\ IsInk(code[l])
    BY <1>2, <2>1, <2>2, EnteredHasNoBlankEnds
  <2> QED
    BY <1>2, <2>3 DEF Plain, IsInk, Range
<1> QED
  BY <1>3, <1>4

\* What is printed is entered as it is.
LEMMA PrintedIsEntered ==
  ASSUME NEW m \in Nat, NEW F, Grouped(Printed, F, m), "a" \notin Range(F)
  PROVE  \/ m >= 1 /\ Entered(F) = F
         \/ m = 0 /\ DOMAIN Entered(F) = {}
<1>1. F \in Seq(Printed) /\ Len(F) = m
  BY DEF Grouped
<1>2. CASE m >= 1
  <2>1. Spells(F, F)
    <3>1. m + 1..m = {} /\ m >= m
      OBVIOUS
    <3> QED
      BY <1>1, <3>1, Zenon DEF Spells
  <2>2. 1 \in 1..m /\ m \in 1..m
    BY <1>2
  <2>3. IsInk(F[1]) /\ IsInk(F[Len(F)])
    <3>1. F[1] \in Printed /\ F[m] \in Printed
      BY <1>1, <2>2, ElementOfSeq
    <3> QED
      BY <1>1, <3>1 DEF Printed, IsInk
  <2>4. "a" \notin Printed
    BY DEF Printed
  <2>5. Entered(F) = F
    BY <1>1, <1>2, <2>1, <2>3, <2>4, SpelledIsEntered
  <2> QED
    BY <1>2, <2>5
<1>3. CASE ~(m >= 1)
  <2>1. m = 0 /\ DOMAIN F = {}
    <3>1. m = 0 /\ 1..m = {}
      BY <1>3
    <3> QED
      BY <1>1, <3>1, LenProperties
  <2>2. {i \in DOMAIN F : F[i] # " "} = {}
    BY <2>1
  <2>3. Trim(F) = << >>
    BY <2>2, Zenon DEF Trim
  <2>4. DOMAIN Trim(F) = {}
    BY <2>3
  <2> QED
    BY <2>1, <2>4 DEF Entered
<1> QED
  BY <1>2, <1>3

\* Through the formatter, a code is entered just if its format is the one the
\* formatter is made for.
LEMMA FormattedExactly ==
  ASSUME NEW c, NEW code, NEW n \in Nat, NEW h \in Nat, Sold(c, code, n, h),
         NEW text, Spells(text, code)
  PROVE  Enters(c, Formatted(text), code) <=> FourFourFour(c, code)
<1>1. PICK l \in Nat : l = n + h + h + 2
  OBVIOUS
<1>2. /\ code \in Seq(Characters(c)) /\ Len(code) = l /\ l >= 1
      /\ DOMAIN code = 1..l /\ code = [i \in 1..l |-> code[i]]
      /\ code[n + 1] = "-" /\ code[n + h + 2] = "-"
  <2>1. /\ code \in Seq(Characters(c)) /\ Len(code) = n + h + h + 2
        /\ code[n + 1] = "-" /\ code[n + h + 2] = "-"
    BY Zenon DEF Sold, IsCode
  <2>2. Len(code) = l /\ l >= 1
    BY <1>1, <2>1
  <2>3. code \in [1..l -> Characters(c)]
    BY <2>1, <2>2, LenProperties
  <2> QED
    BY <2>1, <2>2, <2>3
<1>3. ASSUME FourFourFour(c, code)
      PROVE  Enters(c, Formatted(text), code)
  <2>1. n = 4 /\ h = 4
    BY <1>3 DEF FourFourFour, Sold
  <2>2. l = 14 /\ n + 1 = 5 /\ n + h + 2 = 10
    BY <1>1, <2>1
  <2>3. code[5] = "-" /\ code[10] = "-"
    BY <1>2, <2>2
  <2>4. \A i \in 1..14 \ {5, 10} : code[i] \in {"A", "2"}
    BY <1>2, <1>3, <2>2 DEF FourFourFour
  <2>5. \A i \in 1..14 : code[i] \in Printed
    <3>1. \A i \in 1..14 : i = 5 \/ i = 10 \/ i \in 1..14 \ {5, 10}
      OBVIOUS
    <3> QED
      BY <2>3, <2>4, <3>1 DEF Printed
  <2>6. code \in Seq(Printed)
    <3>1. code \in [1..l -> Printed]
      BY <1>2, <2>2, <2>5
    <3> QED
      BY <3>1, SeqDef
  <2>7. Printed \subseteq Alphanumeric \cup {"-"} /\ "a" \notin Printed
    BY DEF Printed, Alphanumeric
  <2>8. \A i \in Places : code[i] \in Alphanumeric
    BY <2>4 DEF Places, Alphanumeric
  <2>9. Len(code) = 14
    BY <1>2, <2>2
  <2>10. Formatted(text) = code
    BY <2>3, <2>6, <2>7, <2>8, <2>9, SpelledIsFormatted
  <2>11. Spells(code, code)
    <3>1. l + 1..l = {} /\ l >= l
      OBVIOUS
    <3> QED
      BY <1>2, <3>1, Zenon DEF Spells
  <2>12. IsInk(code[1]) /\ IsInk(code[Len(code)])
    <3>1. 1 \in 1..14 /\ 14 \in 1..14
      OBVIOUS
    <3>2. code[1] \in Printed /\ code[14] \in Printed
      BY <2>5, <3>1
    <3> QED
      BY <2>9, <3>2 DEF Printed, IsInk
  <2>13. Entered(code) = code
    BY <1>2, <2>6, <2>7, <2>11, <2>12, SpelledIsEntered
  <2> QED
    BY <2>10, <2>13 DEF Enters, Sold
<1>4. ASSUME Enters(c, Formatted(text), code)
      PROVE  FourFourFour(c, code)
  <2>1. PICK F : F = Formatted(text)
    OBVIOUS
  <2>2. PICK U : text \in Seq(U)
    BY DEF Spells
  <2>3. PICK m \in Nat : Grouped(Printed, F, m) /\ "a" \notin Range(F)
    BY <2>1, <2>2, FormattedIsGrouped
  <2>4. Entered(F) = code
    BY <1>4, <2>1 DEF Enters
  <2>5. code = F
    <3>1. 1 \in 1..l
      BY <1>2
    <3>2. DOMAIN Entered(F) # {}
      BY <1>2, <2>4, <3>1
    <3> QED
      BY <2>3, <2>4, <3>2, PrintedIsEntered
  <2>6. m = l
    BY <1>2, <2>3, <2>5 DEF Grouped
  <2>7. \A i \in 1..l : IF IsDash(i) THEN code[i] = "-"
                        ELSE code[i] \in Alphanumeric
    BY <2>3, <2>5, <2>6 DEF Grouped
  <2>8. "-" \notin Alphanumeric
    BY DEF Alphanumeric
  <2>9. /\ n >= 1 /\ h >= 3 /\ n = Len(c.prefix) /\ c.length = h + h
    BY DEF Sold
  <2>10. IsDash(n + 1) /\ IsDash(n + h + 2)
    <3>1. n + 1 \in 1..l /\ n + h + 2 \in 1..l
      BY <1>1
    <3> QED
      BY <1>2, <2>7, <2>8, <3>1
  <2>11. n = 4 /\ h = 4
    <3>1. n >= 1 /\ h >= 3 /\ n \in Nat /\ h \in Nat
      BY <2>9
    <3>2. (n + 1 = 5 \/ n + 1 = 10) /\ (n + h + 2 = 5 \/ n + h + 2 = 10)
      BY <2>10, Zenon DEF IsDash
    <3>3. n = 4 \/ n = 9
      BY <3>1, <3>2
    <3>4. n + h = 3 \/ n + h = 8
      BY <3>1, <3>2
    <3> QED
      BY <3>1, <3>3, <3>4
  <2>12. ASSUME NEW i \in 1..l \ {5, 10}
         PROVE  code[i] \in {"A", "2"}
    <3>1. code[i] \in Alphanumeric
      BY <2>7 DEF IsDash
    <3>2. code[i] # "a"
      <4>1. i \in DOMAIN F
        BY <1>2, <2>5
      <4> QED
        BY <2>3, <2>5, <4>1 DEF Range
    <3> QED
      BY <3>1, <3>2 DEF Alphanumeric
  <2> QED
    BY <1>2, <2>9, <2>11, <2>12 DEF FourFourFour
<1> QED
  BY <1>3, <1>4

(* Which of the codes that are sold can be entered is just what            *)
(* CodesEnterable says, whatever prefix, alphabet and length validate lets *)
(* the operator write into the file, blanks, small letters and formats the *)
(* page's formatter is not made for included: generate_tokens, portal_auth,*)
(* validate_token_format and portal.js.                                    *)
THEOREM CodesCanBeEntered == Spec => []CodesEnterable
<1>1. ASSUME TypeOK, NEW c \in Starting,
             NEW code \in Generated(c), NEW text \in Spellings(code)
      PROVE  /\ Enters(c, text, code) <=> Plain(code)
             /\ Enters(c, Formatted(text), code) <=> FourFourFour(c, code)
  <2>1. c \in Files /\ TokenAccepted(c)
    BY <1>1, StartingFile DEF Accepted
  <2>2. c.length \in Nat /\ c.prefix \in Seq(Range(c.prefix))
    BY <2>1, ConfigurationAssumption
  <2>3. PICK n \in Nat, h \in Nat : Sold(c, code, n, h)
    BY <2>1, <2>2, SoldCode
  <2>4. PICK T : code \in Seq(T)
    BY <2>3 DEF Sold, IsCode
  <2>5. Spells(text, code)
    BY <2>4, SpellingsSpell
  <2> QED
    BY <2>3, <2>5, EnteredExactly, FormattedExactly
<1>2. TypeOK => CodesEnterable
  BY <1>1, Zenon DEF CodesEnterable, Plain, FourFourFour
<1>3. Spec => []TypeOK
  BY SettingsAreTyped
<1> QED
  BY <1>2, <1>3, PTL
=============================================================================

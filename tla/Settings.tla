------------------------------ MODULE Settings ------------------------------
(***************************************************************************)
(* The admin's forms that change what others see: the cafe's settings,     *)
(* one row each, which overlay the configuration file, and a plan that is  *)
(* edited as a whole or switched on and off by a read and a write.         *)
(***************************************************************************)
EXTENDS Configuration

CONSTANTS
  Handler,    \* admin requests that may run at one time
  File,       \* the [portal] section of the configuration
  Forms,      \* settings forms that may be submitted
  PlanForms,  \* plan forms that may be submitted
  FirstPlan,  \* the plan's columns at first
  NoRow, Mixed

(* In the order in which settings_submit writes them. *)
Keys == <<"cafe_name", "welcome_message", "theme_color", "contact_name",
          "contact_phone", "contact_hours">>
Key == Range(Keys)

Color == [hash: BOOLEAN, digits: Seq(0..16)]

MaxDuration == 1440  \* minutes of a plan: a day

ASSUME SettingsAssumption ==
  /\ File.cafe_name \notin {"", "long"}
  /\ File.theme_color \in Color /\ IsValidHexColor(File.theme_color)
  /\ \A form \in Forms : /\ form = [k \in Key |-> form[k]]
                         /\ form.theme_color \in Color
                         /\ \A k \in Key : form[k] # NoRow
  /\ NoRow # "" /\ Mixed # NoRow /\ {NoRow, Mixed} \cap Forms = {}
  /\ FirstPlan \in PlanForms /\ FirstPlan.duration \in 1..MaxDuration

VARIABLES
  setting,  \* table setting: the value of each key, or NoRow
  plan,     \* a row of table plan
  handler,  \* the requests' program counters and locals
  shown,    \* history: the form the pages are to show (NoRow: the file), or
            \* Mixed
  edit      \* history: the last edit, and if a toggle overlapped it

formVars == <<setting, plan, handler, shown, edit>>
vars == <<config, setting, plan, handler, shown, edit>>

Idle == [pc |-> "idle"]
Saving == [pc: {"save"}, form: Forms, next: 1..Len(Keys), alone: BOOLEAN]
Toggling == [pc: {"toggle"}, form: PlanForms, active: BOOLEAN]

(* Every variable has its type; a plan lasts a minute at least, as Sessions *)
(* assumes, and a day at most.                                             *)
TypeOK ==
  /\ config = Loaded \/ config \in Files
  /\ DOMAIN setting = Key
  /\ plan.form \in PlanForms /\ plan.active \in BOOLEAN
  /\ plan.form.duration \in 1..MaxDuration
  /\ handler \in [Handler -> {Idle} \cup Saving \cup Toggling]
  /\ shown \in Forms \cup {NoRow, Mixed}
  /\ edit.form \in PlanForms /\ edit.torn \in BOOLEAN

Init ==
  /\ config \in Files
  /\ setting = [k \in Key |-> NoRow]
  /\ plan = [form |-> FirstPlan, active |-> TRUE]
  /\ handler = [h \in Handler |-> Idle]
  /\ shown = NoRow
  /\ edit = [form |-> FirstPlan, torn |-> FALSE]

Set(h, state) == handler' = [handler EXCEPT ![h] = state]

-----------------------------------------------------------------------------
(***************************************************************************)
(* What the pages show.                                                    *)
(***************************************************************************)

\* portal_config_from_db: a row counts if it is there and can be used.
Overlay(k) ==
  /\ setting[k] # NoRow
  /\ k = "cafe_name" => setting[k] # ""
  /\ k = "theme_color" => IsValidHexColor(setting[k])

Effective == [k \in Key |-> IF Overlay(k) THEN setting[k] ELSE File[k]]

\* A page whose read of the rows failed shows the file's values.
Portals == {Effective, File}

\* parse_hex_rgb of a colour that is one.
Rgb(color) ==
  LET d == color.digits
  IN IF Len(d) = 3 THEN [i \in 1..3 |-> d[i] * 17]
     ELSE [i \in 1..3 |-> 16 * d[2 * i - 1] + d[2 * i]]

\* round(85% of x), and round(x + percent of what is missing to 255)
Darken(x) == (85 * x + 50) \div 100
Lighten(x, percent) == (100 * x + (255 - x) * percent + 50) \div 100

\* generate_theme_css, from dark to light: hover, primary, light, 50.
Palette(color) ==
  LET rgb == Rgb(color)
  IN << [i \in 1..3 |-> Darken(rgb[i])], rgb,
        [i \in 1..3 |-> Lighten(rgb[i], 85)],
        [i \in 1..3 |-> Lighten(rgb[i], 93)] >>

-----------------------------------------------------------------------------
(***************************************************************************)
(* POST /admin/settings.  A text is "", "ok", "long" (for any of the       *)
(* fields) or " ", which trim makes empty.                                 *)
(***************************************************************************)

TextKey == Key \ {"theme_color"}
Trimmed(form) == [k \in Key |-> IF k \in TextKey /\ form[k] = " " THEN ""
                                ELSE form[k]]

\* Mutant: nobody looks at the length of the name.
FormAcceptedLong(form) ==
  /\ form.cafe_name # ""
  /\ IsValidHexColor(form.theme_color)

FormAccepted(form) ==
  /\ form.cafe_name # ""
  /\ IsValidHexColor(form.theme_color)
  /\ \A k \in TextKey : form[k] # "long"

InFlight == {h \in Handler : handler[h].pc = "save"}

\* Of two forms that overlap neither is alone.
SettingsStart(h) ==
  /\ handler[h] = Idle
  /\ \E form \in Forms :
       /\ FormAccepted(Trimmed(form))
       /\ handler' = [g \in Handler |->
            CASE g = h -> [pc |-> "save", form |-> form, next |-> 1,
                           alone |-> InFlight = {}]
              [] g \in InFlight -> [handler[g] EXCEPT !.alone = FALSE]
              [] OTHER -> handler[g]]
  /\ UNCHANGED <<setting, plan, shown, edit>>

\* set_setting: INSERT ... ON CONFLICT(key) DO UPDATE, the trimmed form row by
\* row.  After the last one the page says that everything is saved.
SetSetting(h) ==
  /\ handler[h].pc = "save"
  /\ LET k == Keys[handler[h].next]
     IN setting' = [setting EXCEPT ![k] = Trimmed(handler[h].form)[k]]
  /\ IF handler[h].next < Len(Keys)
       THEN Set(h, [handler[h] EXCEPT !.next = @ + 1]) /\ UNCHANGED shown
       ELSE /\ Set(h, Idle)
            /\ shown' = IF handler[h].alone THEN handler[h].form ELSE Mixed
  /\ UNCHANGED <<plan, edit>>

\* Mutant: a row that could not be written is passed over.
SetSettingFailsSilently(h) ==
  /\ handler[h].pc = "save"
  /\ handler[h].next < Len(Keys)
  /\ Set(h, [handler[h] EXCEPT !.next = @ + 1])
  /\ UNCHANGED <<setting, plan, shown, edit>>

\* A row cannot be written, or the client hangs up: the rows before it stay.
SetSettingFails(h) ==
  /\ handler[h].pc = "save"
  /\ shown' = IF handler[h].next > 1 THEN Mixed ELSE shown
  /\ Set(h, Idle)
  /\ UNCHANGED <<setting, plan, edit>>

-----------------------------------------------------------------------------
(***************************************************************************)
(* PUT /api/plans/{id} and PATCH /api/plans/{id}/active.                   *)
(***************************************************************************)

Toggles == {h \in Handler : handler[h].pc = "toggle"}

\* Mutant: not negative is taken for positive.
PlanAcceptedZero(form) ==
  /\ form.name = "ok"
  /\ form.duration \in 0..MaxDuration
  /\ form.price >= 0

\* validate_plan_input
PlanAccepted(form) ==
  /\ form.name = "ok"
  /\ form.duration \in 1..MaxDuration
  /\ form.price >= 0

\* UPDATE plan SET name, duration_minutes, price_ariary, active WHERE id = ?
UpdatePlan ==
  /\ \E form \in PlanForms, active \in BOOLEAN :
       /\ PlanAccepted(form)
       /\ plan' = [form |-> form, active |-> active]
       /\ edit' = [form |-> form, torn |-> Toggles # {}]
  /\ UNCHANGED <<setting, handler, shown>>

\* get_plan
ToggleRead(h) ==
  /\ handler[h] = Idle
  /\ \E active \in BOOLEAN :
       Set(h, [pc |-> "toggle", form |-> plan.form, active |-> active])
  /\ UNCHANGED <<setting, plan, shown, edit>>

\* Mutant: a plan is written back that was read before the daemon's start.
ToggleWriteFirst(h) ==
  /\ handler[h].pc = "toggle"
  /\ plan' = [form |-> FirstPlan, active |-> handler[h].active]
  /\ Set(h, Idle)
  /\ UNCHANGED <<setting, shown, edit>>

\* update_plan, with the columns that were read.
ToggleWrite(h) ==
  /\ handler[h].pc = "toggle"
  /\ plan' = [form |-> handler[h].form, active |-> handler[h].active]
  /\ Set(h, Idle)
  /\ UNCHANGED <<setting, shown, edit>>

ToggleFails(h) ==
  /\ handler[h].pc = "toggle"
  /\ Set(h, Idle)
  /\ UNCHANGED <<setting, plan, shown, edit>>

-----------------------------------------------------------------------------
AdminStep ==
  \/ \E h \in Handler :
       \/ SettingsStart(h) \/ SetSetting(h) \/ SetSettingFails(h)
       \/ ToggleRead(h) \/ ToggleWrite(h) \/ ToggleFails(h)
  \/ UpdatePlan

Next ==
  \/ LoadConfig /\ UNCHANGED formVars
  \/ config = Loaded /\ AdminStep /\ UNCHANGED config

Spec == Init /\ [][Next]_vars

-----------------------------------------------------------------------------
(* Whatever forms overlap, fail half-way or cannot be read back, a page    *)
(* has a name of a length that fits and a palette: its four tones go from  *)
(* dark to light, and a short colour is the long one with each digit twice.*)
PagesPresentable ==
  \A portal \in Portals :
    /\ portal.cafe_name \notin {"", "long"}
    /\ IsValidHexColor(portal.theme_color)
    /\ LET color == portal.theme_color
           tones == Palette(color)
           twice == [color EXCEPT !.digits = [i \in 1..6 |->
                       color.digits[(i + 1) \div 2]]]
       IN /\ \A i \in 1..3 :
               /\ tones[1][i] >= 0 /\ tones[4][i] <= 255
               /\ \A n \in 1..3 : tones[n][i] <= tones[n + 1][i]
          /\ Len(color.digits) = 3 => Rgb(twice) = tones[2]

(* The settings are those of one form: of the last that was stored alone   *)
(* and as a whole, or the file's; only forms that overlapped or stopped    *)
(* half-way leave a mixture, and the next one that is stored alone mends   *)
(* it.                                                                     *)
SettingsOfOneForm ==
  InFlight = {} /\ shown # Mixed =>
    Effective = IF shown = NoRow THEN [k \in Key |-> File[k]]
                ELSE Trimmed(shown)

(* An edit of a plan is not undone by a toggle, unless the toggle had read *)
(* the plan before the edit and wrote it back after it.                    *)
EditNotUndone ==
  ~edit.torn => plan.form = edit.form
=============================================================================

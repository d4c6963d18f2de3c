---------------------------- MODULE SettingsForms ----------------------------
(***************************************************************************)
(* The settings of an organization's prayer wall, of its contact and where *)
(* its visitors' questions go, of a campus's questions and of a widget.    *)
(* Several forms write the columns of one row, each with some that it does *)
(* not show: it passes these on as it read them when it began, leaves them *)
(* out, or empties them.                                                   *)
(***************************************************************************)
EXTENDS Naturals

CONSTANTS Editors  \* those whose tabs have an action under way

VARIABLES
  subject,   \* frozen: the row considered, one of the four of Columns
  onPlan,    \* does the plan have advancedWidgetCustomization?
  row,       \* its columns: "none", or "set" to something
  shownOn,   \* has a settings page been rendered with the wall on?
  wizard,    \* the prayer wizard's step, in the tab of whoever has it open
  saves,     \* each editor's action under way
  crossed,   \* history: those that another has written after they read
  intended   \* history: what each column was last chosen to be

formVars == <<subject, onPlan, row, shownOn, wizard, saves, crossed, intended>>

Values == {"none", "set"}

Columns == [wall         |-> {"enabled", "emails", "color", "logo", "testimonies"},
            organization |-> {"contact", "url", "forwarding"},
            campus       |-> {"forwarding"},
            widget       |-> {"texts", "color", "logo", "prompts", "library", "font"}]

(* What a form chooses, passes on and empties.                             *)
Form(chooses, keeps, empties) == [chooses |-> chooses, keeps |-> keeps, empties |-> empties]

(* A logo is chosen by a file, or by the box that removes it; neither      *)
(* touched, the one there is stays.                                        *)
WithLogo(chooses, empties) ==
  {Form(chooses, {"logo"}, empties), Form(chooses \cup {"logo"}, {}, empties)}

(* The settings page shows the testimonies of a wall that was on when it   *)
(* was rendered: the fields it may have, without the logo's.               *)
WallSends ==
  LET always == {"enabled", "emails", "color"} IN
  {always} \cup (IF shownOn THEN {always \cup {"testimonies"}} ELSE {})

WallForms == UNION {WithLogo(sent, {"testimonies"} \ sent) : sent \in WallSends}

WizardEnablePrayerWall == Form({"enabled", "emails", "color"}, {"logo"}, {})

(* Slip: what this step has no field for is empty.                         *)
WizardForgetsStepOne == Form({"enabled", "testimonies"}, {"logo"}, {"emails", "color"})

WizardEnableTestimonies == Form({"enabled", "testimonies"}, {"emails", "color", "logo"}, {})

(* Two forms of one page: what either leaves empty it empties.             *)
PublicContact == Form({"contact", "url"}, {}, {})
QuestionForwarding == Form({"forwarding"}, {}, {})

OrganizationForms == {PublicContact, QuestionForwarding}

(* The campus's list, which the organization's stands in for when empty.   *)
CampusForms == {QuestionForwarding}

(* The customize panel and the library's settings show the fields that the *)
(* plan has not as disabled, and disabled fields are not sent.             *)
PanelSends   == IF onPlan THEN {"texts", "color", "prompts"} ELSE {"texts"}
LibrarySends == IF onPlan THEN {"library", "font"} ELSE {"library"}

WidgetForms ==
  (IF onPlan THEN WithLogo(PanelSends, {}) ELSE {Form(PanelSends, {"color", "logo"}, {"prompts"})})
  \cup {Form(LibrarySends, {"font"} \ LibrarySends, {})}

(* What these forms are known to empty.                                    *)
Unshown == {"testimonies", "prompts"}

NoSave == [at |-> "no"]

FormsTypeOK ==
  /\ subject \in DOMAIN Columns
  /\ onPlan \in BOOLEAN /\ shownOn \in BOOLEAN
  /\ row \in [Columns[subject] -> Values]
  /\ intended \in [Columns[subject] -> Values]
  /\ wizard \in 0..2
  /\ DOMAIN saves = Editors /\ crossed \subseteq Editors

FormsInit ==
  /\ subject \in DOMAIN Columns
  /\ onPlan \in BOOLEAN
  /\ row = [c \in Columns[subject] |-> "none"]
  /\ shownOn = FALSE
  /\ wizard = 0
  /\ saves = [e \in Editors |-> NoSave]
  /\ crossed = {}
  /\ intended = row

Reads(e, form, sets) ==
  /\ saves[e] = NoSave
  /\ saves' = [saves EXCEPT ![e] = [at |-> "saving", form |-> form, sets |-> sets,
                                    read |-> [c \in form.keeps |-> row[c]]]]
  /\ UNCHANGED <<subject, onPlan, row, shownOn, crossed, intended>>

(* enablePrayerWallAction, updatePublicContactAction and so on.            *)
StartSave(e) ==
  /\ \/ subject = "wall" /\ \E form \in WallForms : Reads(e, form, {})
     \/ subject = "organization" /\ \E form \in OrganizationForms : Reads(e, form, {})
     \/ subject = "campus" /\ \E form \in CampusForms : Reads(e, form, {})
     \/ subject = "widget" /\ \E form \in WidgetForms : Reads(e, form, {})
  /\ UNCHANGED wizard

(* The wizard's steps turn on what they are about. *)
StartWizardWall(e) ==
  /\ subject = "wall" /\ wizard = 0
  /\ Reads(e, WizardEnablePrayerWall, {"enabled"})
  /\ UNCHANGED wizard

StartWizardTestimonies(e) ==
  /\ subject = "wall" /\ wizard = 1
  /\ Reads(e, WizardEnableTestimonies, {"enabled", "testimonies"})
  /\ UNCHANGED wizard

(* initialStepIndex; and the buttons that skip a step and go back. *)
OpenWizard ==
  /\ subject = "wall"
  /\ wizard' = IF row["enabled"] = "none" THEN 0 ELSE IF row["testimonies"] = "none" THEN 1 ELSE 2
  /\ UNCHANGED <<subject, onPlan, row, shownOn, saves, crossed, intended>>

SkipOrBack ==
  /\ wizard \in {1, 2} /\ wizard' = 3 - wizard
  /\ UNCHANGED <<subject, onPlan, row, shownOn, saves, crossed, intended>>

(* One statement writes all of a form's columns. *)
Save(e) ==
  LET s == saves[e]
      f == s.form
  IN /\ s.at = "saving"
     /\ \E choice \in [f.chooses -> Values] :
          /\ \A c \in s.sets : choice[c] = "set"
          /\ row' = [c \in Columns[subject] |->
                       IF c \in f.chooses THEN choice[c]
                       ELSE IF c \in f.keeps THEN s.read[c]
                       ELSE IF c \in f.empties THEN "none" ELSE row[c]]
          /\ intended' = [c \in Columns[subject] |->
                            IF \/ c \in f.chooses \/ c \in f.empties \cap Unshown
                               \/ c \in f.keeps /\ e \in crossed
                            THEN row'[c] ELSE intended[c]]
     /\ shownOn' = (shownOn \/ (subject = "wall" /\ row'["enabled"] = "set"))
     /\ wizard' \in {wizard, IF s.sets = {} THEN wizard ELSE IF "testimonies" \in s.sets THEN 2 ELSE 1}
     /\ saves' = [saves EXCEPT ![e] = NoSave]
     /\ crossed' = {o \in Editors \ {e} : saves[o] # NoSave}
     /\ UNCHANGED <<subject, onPlan>>

(* A value is not valid, the upload fails, or the database. *)
SaveThrows(e) ==
  /\ saves[e] # NoSave
  /\ saves' = [saves EXCEPT ![e] = NoSave]
  /\ crossed' = crossed \ {e}
  /\ UNCHANGED <<subject, onPlan, row, shownOn, wizard, intended>>

ChangePlan ==
  /\ subject = "widget" /\ onPlan' = ~onPlan
  /\ UNCHANGED <<subject, row, shownOn, wizard, saves, crossed, intended>>

FormsNext ==
  \/ OpenWizard \/ SkipOrBack \/ ChangePlan
  \/ \E e \in Editors : StartSave(e) \/ StartWizardWall(e) \/ StartWizardTestimonies(e)
                         \/ Save(e) \/ SaveThrows(e)

-----------------------------------------------------------------------------

(* Every column is as it was last chosen, by whichever form: one that does *)
(* not show it "must pass [it] through rather than risk clobbering step    *)
(* 1's choices" (prayer-wall/setup/page.tsx:42), unless another save came  *)
(* between its read and its write. The code empties two that its form does *)
(* not show: the testimonies of a wall that was off, and the prompts of a  *)
(* widget below the plan.                                                  *)
ChoicesKept == row = intended

=============================================================================

-------------------------------- MODULE Setup --------------------------------
(***************************************************************************)
(* The setup wizard of a new organization: website, widget, first resource, *)
(* install. Its forms do not wait for their own answers, and the browser   *)
(* sends their actions one after the other; a colleague adds websites and  *)
(* widgets on the pages of their own. Answers get lost, and a reload starts *)
(* the wizard over from what there is.                                     *)
(***************************************************************************)
EXTENDS Naturals, Sequences

CONSTANTS MaxWebsites, MaxWidgets,  \* the plan's caps
          MaxMishaps                \* bound on all that does not lead on: steps back,
                                    \* impatient clicks, trying again, customizing,
                                    \* reloads without need, a colleague's creations
                                    \* and failures

VARIABLES
  websites, widgets,  \* how many there are
  hasResource,        \* is there any resource?
  tab,                \* the wizard
  queue,              \* the actions it has asked for and not seen the end of
  serving,            \* how far the first of these is
  desk,               \* a colleague's action, on the websites or widgets page, or
                      \* one of the wizard's that nobody waits for any more
  mishaps             \* how many there have been

setupVars == <<websites, widgets, hasResource, tab, queue, serving, desk, mishaps>>

Actions == {"website", "widget", "import", "skip", "customize", "finish"}

(* step: 4 once the tab has left for the dashboard. error: is one shown?   *)
Tab == [step : 0..4, website : BOOLEAN, widget : BOOLEAN, error : BOOLEAN]

SetupTypeOK ==
  /\ websites \in Nat /\ widgets \in Nat
  /\ hasResource \in BOOLEAN
  /\ tab \in Tab
  /\ queue \in Seq(Actions)
  /\ serving \in {"no", "counted", "written"}
  /\ desk \in {"no", "website", "widget"}
  /\ mishaps \in 0..MaxMishaps

(* Slip: starts over. *)
InitialStepIndexZero(hasWebsite, hasWidget, hasAny) == 0

InitialStepIndex(hasWebsite, hasWidget, hasAny) ==
  IF ~hasWebsite THEN 0 ELSE IF ~hasWidget THEN 1 ELSE IF ~hasAny THEN 2 ELSE 3

Rendered ==
  [step |-> InitialStepIndex(websites > 0, widgets > 0, hasResource),
   website |-> websites > 0, widget |-> widgets > 0, error |-> FALSE]

SetupInit ==
  /\ websites = 0 /\ widgets = 0 /\ hasResource = FALSE
  /\ tab = Rendered
  /\ queue = <<>> /\ serving = "no" /\ desk = "no"
  /\ mishaps = 0

Mishap == mishaps < MaxMishaps /\ mishaps' = mishaps + 1

-----------------------------------------------------------------------------
(* The tab.                                                                *)

(* The form that leads on from each step. *)
Forward(step) ==
  CASE step = 0 -> {"website"}
    [] step = 1 -> {"widget"}
    [] step = 2 -> {"import", "skip"}
    [] step = 3 -> {"finish"}
    [] OTHER    -> {}

(* And what else there is: to skip the whole setup, and to customize. *)
FormsOn(step) ==
  Forward(step) \cup (IF step = 3 THEN {"customize"} ELSE {})
                \cup (IF step < 4 THEN {"finish"} ELSE {})

(* runStep clears the error. Continue stays enabled: useFormStatus knows   *)
(* nothing of a submit that was prevented.                                 *)
Submit(a) ==
  /\ a \in FormsOn(tab.step)
  /\ queue # <<>> => a \notin {"customize", "finish"}
  /\ IF queue = <<>> /\ a \in Forward(tab.step) /\ ~tab.error THEN UNCHANGED mishaps ELSE Mishap
  /\ queue' = Append(queue, a)
  /\ tab' = [tab EXCEPT !.error = FALSE]
  /\ UNCHANGED <<websites, widgets, hasResource, serving, desk>>

Back ==
  /\ tab.step \in 1..3 /\ Mishap
  /\ tab' = [tab EXCEPT !.step = @ - 1]
  /\ UNCHANGED <<websites, widgets, hasResource, queue, serving, desk>>

Load ==
  /\ tab.step < 4
  /\ tab' = Rendered
  /\ queue' = <<>> /\ serving' = "no"

(* The server may be about to create what nobody waits for any more.       *)
GivenUp ==
  \/ UNCHANGED desk
  \/ serving = "counted" /\ desk = "no" /\ desk' = Head(queue)

Reload ==
  /\ Load /\ Mishap /\ GivenUp
  /\ UNCHANGED <<websites, widgets, hasResource>>

(* After an error that trying again does not help. *)
ReloadAfterError ==
  /\ tab.error /\ queue = <<>>
  /\ Load
  /\ UNCHANGED <<websites, widgets, hasResource, desk, mishaps>>

-----------------------------------------------------------------------------
(* The actions.                                                            *)

Answered(step) ==
  /\ tab' = [tab EXCEPT !.step = step]
  /\ queue' = Tail(queue) /\ serving' = "no"

Refused ==
  /\ tab' = [tab EXCEPT !.error = TRUE]
  /\ queue' = Tail(queue) /\ serving' = "no"

First(a) == queue # <<>> /\ Head(queue) = a

(* countWebsites and assertUnderCap, then createWebsite. *)
CountWebsites ==
  /\ First("website") /\ serving = "no"
  /\ IF websites >= MaxWebsites THEN Refused
     ELSE serving' = "counted" /\ UNCHANGED <<tab, queue>>
  /\ UNCHANGED <<websites, widgets, hasResource, desk, mishaps>>

CreateWebsite ==
  /\ First("website") /\ serving = "counted"
  /\ websites' = websites + 1 /\ serving' = "written"
  /\ UNCHANGED <<widgets, hasResource, tab, queue, desk, mishaps>>

(* The widget is for the website the tab knows; without one it is refused. *)
CountWidgets ==
  /\ First("widget") /\ serving = "no"
  /\ IF ~tab.website \/ widgets >= MaxWidgets THEN Refused
     ELSE serving' = "counted" /\ UNCHANGED <<tab, queue>>
  /\ UNCHANGED <<websites, widgets, hasResource, desk, mishaps>>

CreateWidget ==
  /\ First("widget") /\ serving = "counted"
  /\ widgets' = widgets + 1 /\ serving' = "written"
  /\ UNCHANGED <<websites, hasResource, tab, queue, desk, mishaps>>

(* A link that cannot be imported is refused; leaving it out is not. *)
ImportResource ==
  /\ First("import") /\ serving = "no"
  /\ \/ hasResource' = TRUE /\ serving' = "written" /\ UNCHANGED <<tab, queue, mishaps>>
     \/ Refused /\ Mishap /\ UNCHANGED hasResource
  /\ UNCHANGED <<websites, widgets, desk>>

CustomizeWidget ==
  /\ First("customize") /\ serving = "no"
  /\ IF tab.widget THEN serving' = "written" /\ UNCHANGED <<tab, queue>> ELSE Refused
  /\ UNCHANGED <<websites, widgets, hasResource, desk, mishaps>>

(* The answer, and where the tab goes with it. *)
Answer ==
  /\ queue # <<>>
  /\ \/ /\ serving = "written" /\ First("website")
        /\ tab' = [tab EXCEPT !.website = TRUE, !.step = 1]
        /\ queue' = Tail(queue) /\ serving' = "no"
     \/ /\ serving = "written" /\ First("widget")
        /\ tab' = [tab EXCEPT !.widget = TRUE, !.step = 2]
        /\ queue' = Tail(queue) /\ serving' = "no"
     \/ serving = "written" /\ First("import") /\ Answered(3)
     \/ serving = "written" /\ First("customize") /\ Answered(tab.step)
     \/ First("skip") /\ Answered(3)
     \/ First("finish") /\ tab' = [tab EXCEPT !.step = 4] /\ queue' = <<>> /\ serving' = "no"
  /\ UNCHANGED <<websites, widgets, hasResource, desk, mishaps>>

(* The action throws, after its write if it is the audit event that fails, *)
(* or the answer is lost: the same to the tab.                             *)
ActionFails ==
  /\ queue # <<>> /\ Mishap
  /\ Refused /\ GivenUp
  /\ UNCHANGED <<websites, widgets, hasResource>>

-----------------------------------------------------------------------------
(* A colleague, on the websites page and on the widgets page.              *)

StartDesk ==
  /\ desk = "no" /\ Mishap
  /\ \/ websites < MaxWebsites /\ desk' = "website"
     \/ websites > 0 /\ widgets < MaxWidgets /\ desk' = "widget"
  /\ UNCHANGED <<websites, widgets, hasResource, tab, queue, serving>>

DeskCreates ==
  /\ \/ desk = "website" /\ websites' = websites + 1 /\ UNCHANGED widgets
     \/ desk = "widget" /\ widgets' = widgets + 1 /\ UNCHANGED websites
  /\ desk' = "no"
  /\ UNCHANGED <<hasResource, tab, queue, serving, mishaps>>

Serve == CountWebsites \/ CreateWebsite \/ CountWidgets \/ CreateWidget \/ ImportResource
           \/ CustomizeWidget \/ Answer

SetupNext ==
  \/ \E a \in Actions : Submit(a)
  \/ Back \/ Reload \/ ReloadAfterError
  \/ Serve \/ ActionFails \/ StartDesk \/ DeskCreates

(* Somebody who goes on: submits the form there is when nothing is under   *)
(* way and no error is shown.                                              *)
GoOn == queue = <<>> /\ ~tab.error /\ \E a \in Forward(tab.step) : Submit(a)

-----------------------------------------------------------------------------

(* Whoever goes on, and reloads when something fails, gets through: what   *)
(* was made before an answer was lost counts as made, and the cap it fills *)
(* does not keep the wizard from its end (SetupWizard.tsx:36).             *)
WizardGoesOn == <>(tab.step = 4)

=============================================================================

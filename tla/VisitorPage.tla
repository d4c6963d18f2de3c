---------------------------- MODULE VisitorPage ----------------------------
(***************************************************************************)
(* The pages a church puts Ruach on: its own pages, with the chat widget's *)
(* loader (HostPage), and its sermon page, with the library (SermonLibrary) *)
(* in a frame that grows with it. A page with both is left out: the two    *)
(* share no state and ignore each other's messages.                        *)
(***************************************************************************)
EXTENDS Integers, Sequences, FiniteSets

CONSTANTS Widgets, Shells,
          Items, Labels, Facts, Key, BookOf, Queries, Enabled, PageSize, MaxStaffEdits

VARIABLES
  script,  \* frozen: the loader on the page, "widget" or "library"
  frame,   \* the height of the library's frame, in cards, or "starting"
  shell, target, phone, pending, layers, open, iframes, locked, turned,
  published, staffEdits, staff, cache, fill, page, filters, query, visible

Host    == INSTANCE HostPage
Library == INSTANCE SermonLibrary

(* The loader knows ten shells; a library has finitely many items, each    *)
(* with a list of labels.                                                  *)
ASSUME VisitorPageAssumption ==
  /\ Shells \subseteq Host!AllShells
  /\ IsFiniteSet(Items)
  /\ \A i \in Items, k \in Library!Sets \cup {"verse"} : IsFiniteSet(Labels[i][k])

hostVars == <<shell, target, phone, pending, layers, open, iframes, locked, turned>>
libraryVars == <<published, staffEdits, staff, cache, fill, page, filters, query, visible>>
pageVars == <<script, frame, hostVars, libraryVars>>

PageTypeOK ==
  /\ script \in {"widget", "library"}
  /\ frame \in {-1} \cup Nat
  /\ Host!HostTypeOK
  /\ Library!LibraryTypeOK

Starting == -1  \* the frame's first height, 900px

PageInit ==
  /\ script \in {"widget", "library"}
  /\ frame = Starting
  /\ Host!HostInit
  /\ Library!LibraryInit
  \* the widget that is not on the page has no configuration
  /\ script = "library" => ~target /\ ~phone /\ shell = [w \in Widgets |-> CHOOSE s \in Shells : TRUE]

(* The cards on the library's page, and one for the button under them. *)
CardsShown ==
  LET n == Cardinality(Library!Filtered(filters)) IN IF n > visible THEN visible + 1 ELSE n

InFrame(A) == script = "library" /\ A /\ UNCHANGED <<script, hostVars>>

(* A height message, as soon as the observer sees another height. *)
ReportHeight ==
  /\ InFrame(frame' = CardsShown)
  /\ UNCHANGED libraryVars

OnHostPage == script = "widget" /\ Host!HostNext /\ UNCHANGED <<script, frame, libraryVars>>
OnLibrary  == InFrame(Library!LibraryNext) /\ UNCHANGED frame

PageNext == OnHostPage \/ OnLibrary \/ ReportHeight

(* The sermon page has visitors, reads end, time passes and messages       *)
(* arrive.                                                                 *)
PageFairness ==
  /\ WF_pageVars(InFrame(Library!LoadPage) /\ UNCHANGED frame)
  /\ WF_pageVars(InFrame(Library!FinishFill) /\ UNCHANGED frame)
  /\ WF_pageVars(InFrame(Library!Expire) /\ UNCHANGED frame)
  /\ WF_pageVars(ReportHeight)

PageSpec == PageInit /\ [][PageNext]_pageVars /\ PageFairness

-----------------------------------------------------------------------------

(* HostPage's: closing gives the page its scroll back (widget-loader.js:117). *)
ScrollComesBack == script = "widget" => Host!ScrollComesBack

(* HostPage's, and false: a closed widget does not cover the page          *)
(* (widget-loader.js:489).                                                 *)
ClosedUncovers == script = "widget" => Host!ClosedUncovers

(* SermonLibrary's: dropdowns tell what choosing leads to (library.ts:269). *)
OptionsReflectReach == script = "library" => Library!OptionsReflectReach

(* The frame follows the content down as well as up: "measuring [the       *)
(* document] could only ever grow the iframe, never shrink it after a      *)
(* filter narrows the results" (SermonLibrary.tsx:82).                     *)
FrameFits == []<>(frame = CardsShown)

(* SermonLibrary's: edits reach the cached catalogue in the end            *)
(* (sermon-library.ts:127), in a frame that fits.                          *)
EventuallyCurrent == script = "library" => Library!EventuallyCurrent /\ FrameFits

=============================================================================

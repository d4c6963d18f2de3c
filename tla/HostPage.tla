------------------------------ MODULE HostPage ------------------------------
(***************************************************************************)
(* A church's own page with the widget's loader script on it, once or      *)
(* twice: fetching the configuration, building one of ten shells, opening  *)
(* and closing its panel, and what that leaves on the page around it.      *)
(***************************************************************************)
EXTENDS Naturals, Sequences

CONSTANTS Widgets,   \* script tags on the page
          Shells     \* config.displayStyle of the widgets considered

VARIABLES
  shell,    \* frozen: each widget's shell, as configured
  target,   \* frozen: is there an element for an inline widget?
  phone,    \* does the media query (max-width:640px) match?
  pending,  \* scripts whose configuration is still being fetched
  layers,   \* the widgets built so far, the later over the earlier
  open,     \* isOpen
  iframes,  \* how many iframes the panel holds
  locked,   \* document.body.style.overflow = "hidden"
  turned    \* history: the query has changed while a panel was open

hostVars == <<shell, target, phone, pending, layers, open, iframes, locked, turned>>

AllShells == {"BUBBLE", "GREETER", "SLIDE", "TAB", "INLINE", "DOCK", "PALETTE", "SHEET",
              "RIBBON", "LINK"}

HostTypeOK ==
  /\ shell \in [Widgets -> Shells]
  /\ target \in BOOLEAN /\ phone \in BOOLEAN /\ locked \in BOOLEAN /\ turned \in BOOLEAN
  /\ pending \subseteq Widgets
  /\ layers \in Seq(Widgets)
  /\ open \in [Widgets -> BOOLEAN]
  /\ iframes \in [Widgets -> Nat]

HostInit ==
  /\ shell \in [Widgets -> Shells]
  /\ target \in BOOLEAN
  /\ phone \in BOOLEAN
  /\ pending = Widgets
  /\ layers = <<>>
  /\ open = [w \in Widgets |-> FALSE]
  /\ iframes = [w \in Widgets |-> 0]
  /\ locked = FALSE
  /\ turned = FALSE

-----------------------------------------------------------------------------
(* The shells: does the panel carry the class ruach-widget-panel, is it    *)
(* taken away while closed (display:none) or only moved, faded or folded,  *)
(* does the launcher go while it is open, does the panel lie over its own  *)
(* launcher, and does it, or its scrim, fill a desktop page while open?    *)

Card == [shared |-> TRUE, removed |-> FALSE, launcherGoes |-> FALSE,
         overLauncher |-> FALSE, fills |-> FALSE]

buildBubbleShell  == [Card EXCEPT !.removed = TRUE, !.launcherGoes = TRUE]
buildGreeterShell == [Card EXCEPT !.removed = TRUE]
buildSlideShell   == Card
buildTabShell     == Card
buildDockShell    == [Card EXCEPT !.shared = FALSE, !.launcherGoes = TRUE]
buildPaletteShell == [Card EXCEPT !.launcherGoes = TRUE, !.fills = TRUE]
buildSheetShell   == [Card EXCEPT !.launcherGoes = TRUE, !.fills = TRUE]
buildRibbonShell  == [Card EXCEPT !.overLauncher = TRUE]
buildLinkShell    == Card

(* An inline widget has no panel, unless its element is missing. *)
Inline(w) == shell[w] = "INLINE" /\ target

Built(w) == CASE shell[w] = "GREETER" -> buildGreeterShell
              [] shell[w] = "SLIDE"   -> buildSlideShell
              [] shell[w] = "TAB"     -> buildTabShell
              [] shell[w] = "DOCK"    -> buildDockShell
              [] shell[w] = "PALETTE" -> buildPaletteShell
              [] shell[w] = "SHEET"   -> buildSheetShell
              [] shell[w] = "RIBBON"  -> buildRibbonShell
              [] shell[w] = "LINK"    -> buildLinkShell
              [] OTHER                -> buildBubbleShell

Mounted(w) == \E n \in DOMAIN layers : layers[n] = w

(* Phones stretch the class over the whole page, unmoved and opaque; its   *)
(* own display:none gives way to a shell's inline display:flex.            *)
Covers(w) ==
  /\ Mounted(w) /\ ~Inline(w)
  /\ IF phone /\ Built(w).shared THEN open[w] \/ ~Built(w).removed
     ELSE open[w] /\ Built(w).fills

Above(v, w) == \E n, m \in DOMAIN layers : n < m /\ layers[n] = w /\ layers[m] = v

-----------------------------------------------------------------------------

(* fetch(configUrl): no launcher for an unknown widget or domain.          *)
Mount(w) ==
  /\ w \in pending
  /\ pending' = pending \ {w}
  /\ \/ /\ layers' = Append(layers, w)
        /\ iframes' = [iframes EXCEPT ![w] = IF Inline(w) THEN 1 ELSE 0]
     \/ UNCHANGED <<layers, iframes>>
  /\ UNCHANGED <<shell, target, phone, open, locked, turned>>

(* lockMobileScroll asks for the width as it is now. *)
LockMobileScroll(next) == locked' = IF phone THEN next ELSE locked

(* Slip: locks for opening, and leaves closing to the page. *)
SetOpenLocking(w, next) ==
  /\ open' = [open EXCEPT ![w] = next]
  /\ locked' = (locked \/ (phone /\ next))
  /\ iframes' = [iframes EXCEPT ![w] = IF next /\ @ = 0 THEN 1 ELSE @]

(* setOpen, of every shell.                                                *)
SetOpen(w, next) ==
  /\ open' = [open EXCEPT ![w] = next]
  /\ LockMobileScroll(next)
  /\ iframes' = [iframes EXCEPT ![w] = IF next /\ @ = 0 THEN 1 ELSE @]

LauncherShown(w) ==
  /\ Mounted(w) /\ ~Inline(w)
  /\ open[w] => ~Built(w).launcherGoes
  /\ Covers(w) => ~Built(w).overLauncher
  /\ \A v \in Widgets : Covers(v) => ~Above(v, w)

ClickLauncher(w) ==
  /\ LauncherShown(w)
  /\ SetOpen(w, ~open[w])
  /\ UNCHANGED <<shell, target, phone, pending, layers, turned>>

ClickScrim(w) ==
  /\ shell[w] = "PALETTE" /\ open[w] /\ ~phone
  /\ \A v \in Widgets : Covers(v) => ~Above(v, w)
  /\ SetOpen(w, FALSE)
  /\ UNCHANGED <<shell, target, phone, pending, layers, turned>>

(* closePanel in an iframe that shows: every loader of the page hears the  *)
(* message, and all but the inline ones close.                             *)
CloseMessage ==
  /\ \E w \in Widgets : iframes[w] > 0 /\ (open[w] \/ Inline(w) \/ Covers(w))
  /\ LET hearing == {w \in Widgets : Mounted(w) /\ ~Inline(w)} IN
     /\ open' = [w \in Widgets |-> open[w] /\ w \notin hearing]
     /\ IF hearing = {} THEN UNCHANGED locked ELSE LockMobileScroll(FALSE)
  /\ UNCHANGED <<shell, target, phone, pending, layers, iframes, turned>>

(* A phone is turned, or a window made smaller or larger. *)
Turn ==
  /\ phone' = ~phone
  /\ turned' = (turned \/ \E w \in Widgets : open[w])
  /\ UNCHANGED <<shell, target, pending, layers, open, iframes, locked>>

HostNext ==
  \/ \E w \in Widgets : Mount(w) \/ ClickLauncher(w) \/ ClickScrim(w)
  \/ CloseMessage
  \/ Turn

-----------------------------------------------------------------------------

(* The page under it can be scrolled again once every panel is closed,     *)
(* whichever panel is closed by whichever means, unless the screen has     *)
(* changed between phone and desktop width while one was open              *)
(* (widget-loader.js:117).                                                 *)
ScrollComesBack == locked /\ ~turned => \E w \in Widgets : open[w]

(* A closed widget leaves the page visible and usable: "that shared        *)
(* class's mobile override hides the whole element when closed"            *)
(* (widget-loader.js:489).                                                 *)
ClosedUncovers == \A w \in Widgets : ~open[w] => ~Covers(w)

=============================================================================

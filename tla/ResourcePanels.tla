-------------------------- MODULE ResourcePanels --------------------------
(***************************************************************************)
(* Above the list of resources: the import panel and the tracked sources,  *)
(* and the organizational links, in a tab whose calls go to the server one *)
(* after the other while colleagues and the sync go on. What an import     *)
(* does to resources is Catalogue's.                                       *)
(***************************************************************************)
EXTENDS Naturals, Sequences, FiniteSets

CONSTANTS
  SourceRows,  \* ids of the rows that one channel or feed may have in turn
  LinkRows,    \* ids of organizational links
  MaxOrgLinks, \* MAX_LINKS_PER_ORGANIZATION, 20 in the code
  MaxAsked     \* bound on the calls under way

PanelRows == SourceRows \cup LinkRows

(* What a row has beside its address, and what it is created with.         *)
SwitchesOf(r) == IF r \in LinkRows THEN {"isActive"} ELSE {"autoSyncEnabled", "autoApprove"}
Switches      == {"isActive", "autoSyncEnabled", "autoApprove"}

VARIABLES
  about,     \* frozen: "sources" with their imports, or "links"
  table,     \* the rows: are they there, and which switches are on
  shownAt,   \* the rows the tab was rendered with
  failed,    \* the error page is up
  importing, \* which form of the ImportTabs is up, and what it says
  asked,     \* the calls, the first of them at the server
  behind,    \* history: the rows have changed since the tab was rendered,
             \* elsewhere or by a call that threw
  rivalled   \* history: a colleague's link was added while one was being added

panelVars == <<about, table, shownAt, failed, importing, asked, behind, rivalled>>

(* The channel's and the feed's are the same BulkImportForm.               *)
Methods == {"url", "bulk"}

Row   == [at : {"none", "there", "gone"}, on : SUBSET Switches]
NoRow == [at |-> "none", on |-> {}]
Gone  == [at |-> "gone", on |-> {}]
With(on) == [at |-> "there", on |-> on]

PanelsTypeOK ==
  /\ about \in {"sources", "links"}
  /\ table \in [PanelRows -> Row] /\ shownAt \in [PanelRows -> Row]
  /\ importing \in [method : Methods, says : {"nothing", "pending", "imported", "failed"}]
  /\ {failed, behind, rivalled} \subseteq BOOLEAN
  /\ Len(asked) <= MaxAsked
  /\ \A i \in DOMAIN asked : asked[i].at \in {"asked", "counted", "written"}

PanelsInit ==
  /\ about \in {"sources", "links"}
  /\ table = [r \in PanelRows |-> NoRow]
  /\ shownAt = table
  /\ failed = FALSE
  /\ importing = [method |-> "url", says |-> "nothing"]
  /\ asked = <<>>
  /\ behind = FALSE /\ rivalled = FALSE

There(rows, among) == {r \in among : rows[r].at = "there"}

-----------------------------------------------------------------------------
(* The tab. *)

Ask(do, row, switch, on) ==
  /\ ~failed /\ Len(asked) < MaxAsked
  /\ asked' = Append(asked, [do |-> do, at |-> "asked", row |-> row, switch |-> switch, on |-> on])
  /\ UNCHANGED <<about, table, shownAt, failed, behind, rivalled>>

(* isPending disables the whole list.                                      *)
Enabled == \A i \in DOMAIN asked : asked[i].do \notin {"switch", "remove"}

ClickSwitch(r, s) == Ask("switch", r, s, s \notin shownAt[r].on)
ClickRemove(r)    == Ask("remove", r, "none", FALSE)

(* ContentSourceList *)
OnSource(r) ==
  /\ about = "sources" /\ Enabled /\ r \in There(shownAt, SourceRows)
  /\ ClickRemove(r) \/ \E s \in SwitchesOf(r) : ClickSwitch(r, s)
  /\ UNCHANGED importing

(* OrganizationalLinkList *)
OnLink(r) ==
  /\ about = "links" /\ Enabled /\ r \in There(shownAt, LinkRows)
  /\ ClickRemove(r) \/ ClickSwitch(r, "isActive")
  /\ UNCHANGED importing

(* A form of its own, disabled by the links that are rendered.             *)
AddLink ==
  /\ about = "links" /\ Cardinality(There(shownAt, LinkRows)) < MaxOrgLinks
  /\ Ask("add", "none", "none", FALSE)
  /\ UNCHANGED importing

(* The form that was there is gone, and with it what it would have said.   *)
SetActiveTab(m) ==
  /\ about = "sources" /\ ~failed /\ m # importing.method
  /\ importing' = [method |-> m, says |-> "nothing"]
  /\ asked' = [i \in DOMAIN asked |-> IF asked[i].do = "import"
                                      THEN [asked[i] EXCEPT !.row = "unmounted"] ELSE asked[i]]
  /\ UNCHANGED <<about, table, shownAt, failed, behind, rivalled>>

(* ImportResourceForm: an address alone.                                   *)
ImportResource ==
  /\ about = "sources" /\ importing.method = "url" /\ importing.says # "pending"
  /\ Ask("import", "url", "none", FALSE)
  /\ importing' = [importing EXCEPT !.says = "pending"]

(* BulkImportForm: trackAutoSync is the call's switch, autoApprove "on".   *)
ImportMany ==
  /\ about = "sources" /\ importing.method = "bulk" /\ importing.says # "pending"
  /\ \E track \in {"none", "trackAutoSync"}, auto \in BOOLEAN : Ask("import", "bulk", track, auto)
  /\ importing' = [importing EXCEPT !.says = "pending"]

(* The page anew. What has been asked may yet happen, as by a colleague.   *)
OpenPanels ==
  /\ shownAt' = table
  /\ failed' = FALSE
  /\ importing' = [method |-> "url", says |-> "nothing"]
  /\ asked' = <<>>
  /\ behind' = FALSE
  /\ UNCHANGED <<about, table, rivalled>>

-----------------------------------------------------------------------------
(* The server. *)

Write(r, row) == table' = [table EXCEPT ![r] = row]

(* updateMany of a row that is gone changes nothing, nor does deleteMany.  *)
SetSwitch(r, s, on) ==
  IF table[r].at # "there" THEN UNCHANGED table
  ELSE Write(r, With(IF on THEN table[r].on \cup {s} ELSE table[r].on \ {s}))

Remove(r) == IF table[r].at # "there" THEN UNCHANGED table ELSE Write(r, Gone)

CreateRow(among, on) == \E r \in among : table[r].at = "none" /\ Write(r, With(on))

(* trackContentSource: a source that is tracked already stays as it is.    *)
TrackContentSource(auto) ==
  IF There(table, SourceRows) # {} THEN UNCHANGED table
  ELSE CreateRow(SourceRows, {"autoSyncEnabled"} \cup IF auto THEN {"autoApprove"} ELSE {})

(* createOrganizationalLink counts, ...                                    *)
MayCreate == Cardinality(There(table, LinkRows)) < MaxOrgLinks

(* ... and then creates.                                                   *)
CreateOrganizationalLink == CreateRow(LinkRows, {"isActive"})

At(do, at) == asked # <<>> /\ Head(asked).do = do /\ Head(asked).at = at

Reaches(at) == asked' = [asked EXCEPT ![1].at = at]

Serve ==
  /\ \/ At("switch", "asked") /\ SetSwitch(Head(asked).row, Head(asked).switch, Head(asked).on)
     \/ At("remove", "asked") /\ Remove(Head(asked).row)
     \/ At("import", "asked") /\ Head(asked).switch = "trackAutoSync"
                              /\ TrackContentSource(Head(asked).on)
     \/ At("import", "asked") /\ Head(asked).switch = "none" /\ UNCHANGED table
     \/ At("add", "counted") /\ CreateOrganizationalLink
  /\ Reaches("written")
  /\ UNCHANGED <<about, shownAt, failed, importing, behind, rivalled>>

CountLinks ==
  /\ At("add", "asked") /\ MayCreate
  /\ Reaches("counted")
  /\ UNCHANGED <<about, table, shownAt, failed, importing, behind, rivalled>>

(* A colleague's tab, or an import of one.                                 *)
ByColleague ==
  /\ \/ \E r \in PanelRows : Remove(r) \/ \E s \in SwitchesOf(r), on \in BOOLEAN : SetSwitch(r, s, on)
     \/ \E auto \in BOOLEAN : about = "sources" /\ TrackContentSource(auto)
     \/ about = "links" /\ MayCreate /\ CreateOrganizationalLink
  /\ table' # table
  /\ behind' = TRUE
  /\ rivalled' = (rivalled \/ (At("add", "counted")
                               /\ There(table', LinkRows) \ There(table, LinkRows) # {}))
  /\ UNCHANGED <<about, shownAt, failed, importing, asked>>

(* What the import's form says, unless it is gone.                         *)
Says(what) ==
  importing' = IF Head(asked).do = "import" /\ Head(asked).row # "unmounted"
               THEN [importing EXCEPT !.says = what] ELSE importing

(* The answer brings the page rendered anew. (An address that was imported *)
(* leads on to its resource; OpenPanels comes back.)                       *)
Answered ==
  /\ asked # <<>> /\ Head(asked).at = "written"
  /\ shownAt' = table
  /\ behind' = FALSE
  /\ Says("imported")
  /\ asked' = Tail(asked)
  /\ UNCHANGED <<about, table, failed, rivalled>>

(* The session, the role, the maximum, the source or the network. A list   *)
(* shows a toast, an import's form an error; for a link to be added there  *)
(* is the error page.                                                      *)
Throws ==
  /\ asked # <<>>
  /\ failed' = (failed \/ Head(asked).do = "add")
  /\ behind' = (behind \/ Head(asked).at = "written")
  /\ Says("failed")
  /\ asked' = Tail(asked)
  /\ UNCHANGED <<about, table, shownAt, rivalled>>

PanelsNext ==
  \/ \E r \in PanelRows : OnSource(r) \/ OnLink(r)
  \/ AddLink \/ ImportResource \/ ImportMany \/ OpenPanels
  \/ \E m \in Methods : SetActiveTab(m)
  \/ Serve \/ CountLinks \/ ByColleague \/ Answered \/ Throws

-----------------------------------------------------------------------------

(* A tab whose calls have been answered, with nothing written elsewhere    *)
(* since, shows the rows as they are, whichever switches were pressed on   *)
(* however old a page (resources/page.tsx:246); links added one after the  *)
(* other keep to the maximum (organizational-link-service.ts:12); and an   *)
(* import's form waits only for an import of its own that is under way     *)
(* (BulkImportForm.tsx:31).                                                *)
PanelsAreTrue ==
  /\ asked = <<>> /\ ~behind => shownAt = table
  /\ ~rivalled => Cardinality(There(table, LinkRows)) <= MaxOrgLinks
  /\ importing.says = "pending" =>
       \E i \in DOMAIN asked : asked[i].do = "import" /\ asked[i].row = importing.method

=============================================================================

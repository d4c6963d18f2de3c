-------------------------- MODULE ResourceListing --------------------------
(***************************************************************************)
(* Which resources the Resources page lists in one tab. The filters are in *)
(* its address; its controls are links, which keep the page and change the *)
(* address, and forms, which load the page anew with what their fields     *)
(* hold. The fields keep what they held when a link is followed. Others    *)
(* change the catalogue meanwhile. The table below is ResourcesTable's.    *)
(***************************************************************************)
EXTENDS Naturals, Sequences, SequencesExt, Selection

CONSTANTS
  NewestFirst,  \* the resources there may be, by createdAt
  TypeOf,       \* resourceTypeGroup of each
  Matching,     \* those whose title has what is searched for
  TypeTabs,     \* RESOURCE_TYPE_FILTERS but for "ALL"; a type may have no tab
  PageSizes,    \* PAGE_SIZE_OPTIONS
  DefaultSize,  \* DEFAULT_PAGE_SIZE
  JumpAfter,    \* 3 in the code: so many pages do without a go-to-page form
  MaxChanges    \* bound on changes to the catalogue

VARIABLES
  stored,   \* the status of each resource, "none" without a row
  params,   \* the address: status, type and q ("" for none), size (0) and page
  listed,   \* what is rendered: the page's rows, its number, how many pages
            \* there are, and whether anything matches
  form,     \* what the uncontrolled fields hold: status, q and size
  pending,  \* AutoSubmitSearchInput's timer is running
  wanted,   \* history: the status, type, q and size last chosen
  strayed,  \* history: a form was submitted with a field that nobody had chosen,
            \* or what was being typed was lost, since all was last chosen anew
  changes

listingVars == <<stored, params, listed, form, pending, wanted, strayed, changes>>

ResourceStatuses == {"REVIEW_REQUIRED", "ACTIVE"}
Searches         == {"", "word"}
Types            == TypeTabs \cup {"", "ALL"}

Filters == [status : ResourceStatuses \cup {""}, type : Types, q : Searches, size : PageSizes]

ListingTypeOK ==
  /\ stored \in [ToSet(NewestFirst) -> ResourceStatuses \cup {"none"}]
  /\ [params EXCEPT !.size = DefaultSize, !.page = 1] \in
        [status : ResourceStatuses \cup {""}, type : Types, q : Searches,
         size : {DefaultSize}, page : {1}]
  /\ params.size \in PageSizes \cup {0} /\ params.page \in Nat \ {0}
  /\ form \in [status : ResourceStatuses \cup {""}, q : Searches, size : PageSizes]
  /\ wanted \in Filters
  /\ {pending, strayed} \subseteq BOOLEAN

-----------------------------------------------------------------------------
(* The server. *)

PageSizeOf(p) == IF p.size = 0 THEN DefaultSize ELSE p.size

Filtered(p, catalogue) ==
  Where(NewestFirst, {r \in ToSet(NewestFirst) :
    /\ catalogue[r] # "none"
    /\ p.status # "" => catalogue[r] = p.status
    /\ p.type \notin {"", "ALL"} => TypeOf[r] = p.type
    /\ p.q # "" => r \in Matching})

Least(a, b) == IF a < b THEN a ELSE b

TotalPages(n, size) == IF n = 0 THEN 1 ELSE (n + size - 1) \div size

(* ResourcesPage. The counts on the tabs are left out. *)
Render(p, catalogue) ==
  LET filtered == Filtered(p, catalogue)
      size     == PageSizeOf(p)
      total    == TotalPages(Len(filtered), size)
      page     == Least(p.page, total)
  IN  [rows  |-> SubSeq(filtered, (page - 1) * size + 1, Least(page * size, Len(filtered))),
       page  |-> page,
       total |-> total,
       any   |-> filtered # <<>>]

(* Imports, analyses, bulk jobs and colleagues. *)
CatalogueChanges ==
  /\ changes < MaxChanges
  /\ \E r \in ToSet(NewestFirst), s \in ResourceStatuses \cup {"none"} :
       stored' = [stored EXCEPT ![r] = s]
  /\ changes' = changes + 1
  /\ UNCHANGED <<params, listed, form, pending, wanted, strayed>>

-----------------------------------------------------------------------------
(* The tab. *)

SidebarParams(status) == [status |-> status, type |-> "", q |-> "", size |-> 0, page |-> 1]

NoParams == SidebarParams("")

FiltersOf(p) == [status |-> p.status, type |-> p.type, q |-> p.q, size |-> PageSizeOf(p)]

(* What the fields' defaultValues are. *)
FormOf(p) == [status |-> p.status, q |-> p.q, size |-> PageSizeOf(p)]

(* The page comes with no filter or the review queue's, from elsewhere. *)
ListingInit ==
  /\ stored = [r \in ToSet(NewestFirst) |-> "ACTIVE"]
  /\ params = NoParams
  /\ listed = Render(NoParams, stored)
  /\ form = FormOf(NoParams)
  /\ pending = FALSE
  /\ wanted = FiltersOf(NoParams)
  /\ strayed = FALSE
  /\ changes = 0

(* A <Link>: the component stays, with its fields. *)
Follow(p) ==
  /\ params' = p
  /\ listed' = Render(p, stored)
  /\ UNCHANGED <<stored, pending, changes>>

(* A form: a new document. *)
Load(p) ==
  /\ params' = p
  /\ listed' = Render(p, stored)
  /\ form' = FormOf(p)
  /\ pending' = FALSE
  /\ UNCHANGED <<stored, changes>>

(* The tabs keep status, q and pageSize, and go to the first page. *)
TypeTab(t) ==
  /\ t \in TypeTabs \cup {"ALL"}
  /\ Follow([params EXCEPT !.type = IF t = "ALL" THEN "" ELSE t, !.page = 1])
  /\ wanted' = [wanted EXCEPT !.type = t]
  /\ UNCHANGED <<form, strayed>>

(* Previous and Next, from the page that is rendered. *)
PageLink ==
  /\ \E n \in {listed.page - 1, listed.page + 1} \cap 1..listed.total :
       Follow([params EXCEPT !.type = IF @ = "" THEN "ALL" ELSE @, !.page = n])
  /\ UNCHANGED <<form, wanted, strayed>>

(* The sidebar's Resources and Review Queue. The search field, unless it   *)
(* has been typed in, follows its defaultValue; the selects do not.        *)
SidebarLink ==
  /\ \E status \in {"", "REVIEW_REQUIRED"} :
       LET p == SidebarParams(status) IN
       Follow(p) /\ wanted' = FiltersOf(p)
  /\ form' = IF pending THEN form ELSE [form EXCEPT !.q = ""]
  /\ strayed' = FALSE

(* Back from another page, by one of the same links. *)
Arrive ==
  /\ \E status \in {"", "REVIEW_REQUIRED"} :
       LET p == SidebarParams(status) IN
       Load(p) /\ wanted' = FiltersOf(p)
  /\ strayed' = FALSE

(* Revalidation, or the refresh at the end of a bulk job. *)
Refresh ==
  /\ listed' = Render(params, stored)
  /\ UNCHANGED <<stored, params, form, pending, wanted, strayed, changes>>

TypeSearch ==
  /\ \E text \in Searches :
       form' = [form EXCEPT !.q = text] /\ wanted' = [wanted EXCEPT !.q = text]
  /\ pending' = TRUE
  /\ UNCHANGED <<stored, params, listed, strayed, changes>>

(* Slip: no hidden input for the type. *)
SubmissionOfFields(f) ==
  [status |-> f.status, type |-> "", q |-> f.q, size |-> f.size, page |-> 1]

(* The filter form's fields, with the address's type in a hidden one. *)
Submission(f) ==
  [status |-> f.status, type |-> params.type, q |-> f.q, size |-> f.size, page |-> 1]

Submit(f, newly) ==
  /\ Load(Submission(f))
  /\ wanted' = newly
  /\ strayed' = (strayed \/ f # [status |-> newly.status, q |-> newly.q, size |-> newly.size])

(* The timer fires, or Enter. *)
SubmitSearch == pending /\ Submit(form, wanted)

(* AutoSubmitSelect submits the form at once, what is being typed with it. *)
SelectStatus ==
  \E s \in ResourceStatuses \cup {""} :
     Submit([form EXCEPT !.status = s], [wanted EXCEPT !.status = s])

SelectPageSize ==
  \E n \in PageSizes : Submit([form EXCEPT !.size = n], [wanted EXCEPT !.size = n])

(* The address's filters in hidden fields. The number may be beyond the    *)
(* last page by the time it arrives.                                       *)
JumpToPage ==
  /\ listed.total > JumpAfter
  /\ \E n \in 1..listed.total : Load([params EXCEPT !.page = n])
  /\ strayed' = (strayed \/ pending)
  /\ UNCHANGED wanted

ListingNext ==
  \/ CatalogueChanges \/ Refresh
  \/ \E t \in TypeTabs \cup {"ALL"} : TypeTab(t)
  \/ PageLink \/ SidebarLink \/ Arrive
  \/ TypeSearch \/ SubmitSearch \/ SelectStatus \/ SelectPageSize \/ JumpToPage

-----------------------------------------------------------------------------

Tabbed(f) ==
  [status |-> f.status, type |-> IF f.type = "" THEN "ALL" ELSE f.type, q |-> f.q, size |-> f.size]

(* Whatever tabs, page links and forms are used in whatever order, each    *)
(* keeps what was chosen with the others (resources/page.tsx:364), and an  *)
(* empty list means that nothing matched when it was rendered              *)
(* (resources/page.tsx:356), however the catalogue shrank in between.      *)
ListedAsChosen ==
  /\ ~strayed /\ ~pending => Tabbed(FiltersOf(params)) = Tabbed(wanted)
  /\ listed.rows = <<>> => ~listed.any

=============================================================================

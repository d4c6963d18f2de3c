---------------------------- MODULE SermonLibrary ----------------------------
(***************************************************************************)
(* The sermon library on a church's page: the catalogue of one campus,     *)
(* read through a cache that staff's edits invalidate, and the visitor's   *)
(* filters over it, with the dropdowns that count what each choice leads   *)
(* to. Labels are compared by their key (normalizeKey); the order of the   *)
(* options and of the cards is left out.                                   *)
(***************************************************************************)
EXTENDS Integers, FiniteSets

CONSTANTS
  Items,
  Labels,     \* Labels[i][key]: the labels of an item under a filter, trimmed;
              \* a verse that is listed twice is two labels
  Facts,      \* Facts[i]: what tells its format
  Key,        \* normalizeKey: the key of a label
  BookOf,     \* scriptureBook, of a verse: the label of its book, or NoLabel
  Queries,    \* keyword searches: the items each one matches
  Enabled,    \* WidgetConfiguration.libraryFilters
  PageSize,   \* cards shown at first (12)
  MaxStaffEdits \* bound: staff's edits

NoLabel == "none"
Any     == "any"     \* no filter
Sets    == {"speaker", "topic", "messageType", "series"}
FilterKeys == Sets \cup {"book", "verse", "type"}

VARIABLES
  published,  \* the ACTIVE items of this campus, of the types it shows
  staffEdits,
  staff,      \* the edit under way: "idle" or "written"
  cache,      \* the catalogue in the data cache
  fill,       \* a read of the database that will be stored there
  page,       \* the items of the visitor's page
  filters,    \* LibraryFilters
  query,      \* its keyword search
  visible     \* visibleCount

libraryVars == <<published, staffEdits, staff, cache, fill, page, filters, query, visible>>

LibraryTypeOK ==
  /\ published \subseteq Items /\ page \subseteq Items
  /\ staff \in {"idle", "written"}
  /\ cache \in [state : {"none", "fresh", "expired"}, items : SUBSET Items]
  /\ fill \in [reading : BOOLEAN, items : SUBSET Items]
  /\ DOMAIN filters = FilterKeys
  /\ query \in Queries
  /\ visible \in Nat

NoFilters == [k \in FilterKeys |-> Any]

LibraryInit ==
  /\ published = Items
  /\ staffEdits = 0
  /\ staff = "idle"
  /\ cache = [state |-> "none", items |-> {}]
  /\ fill = [reading |-> FALSE, items |-> {}]
  /\ page = {}
  /\ filters = NoFilters
  /\ query = Items
  /\ visible = PageSize

-----------------------------------------------------------------------------
(* Filtering *)

(* A YouTube video of three minutes or less, or that says so, is a Short.  *)
LibraryFormat(i) ==
  LET f == Facts[i] IN
  IF f.type # "VIDEO" \/ ~f.youtube THEN f.type
  ELSE IF f.saysShort THEN "SHORT"
  ELSE IF f.livestream THEN "VIDEO"
  ELSE IF f.seconds \in 1..180 THEN "SHORT" ELSE "VIDEO"

Books(i) == {BookOf[v] : v \in Labels[i]["verse"]} \ {NoLabel}

(* The labels an item is counted under in a dropdown.                      *)
LabelsOf(i, k) == CASE k = "book" -> Books(i)
                    [] k = "type" -> {LibraryFormat(i)}
                    [] OTHER      -> Labels[i][k]

MatchesFilter(i, k, fs) == fs[k] = Any \/ \E l \in LabelsOf(i, k) : Key[l] = fs[k]

(* Slip: a dropdown counts against its own filter too. *)
MatchesAllButNone(i, fs, except) ==
  i \in query /\ \A k \in FilterKeys : MatchesFilter(i, k, fs)

MatchesAll(i, fs, except) ==
  i \in query /\ \A k \in FilterKeys \ except : MatchesFilter(i, k, fs)

Filtered(fs) == {i \in page : MatchesAll(i, fs, {})}

(* The verses of the chosen book only. *)
Counted(i, k) ==
  {l \in LabelsOf(i, k) : k = "verse" => /\ filters["book"] # Any
                                         /\ BookOf[l] # NoLabel
                                         /\ Key[BookOf[l]] = filters["book"]}

OneSpelling(labels, v) == \A l, m \in labels : Key[l] = v /\ Key[m] = v => l = m

(* buildLibraryFacets: each label of each item that the other filters let  *)
(* through, added under its key: `new Set` dedupes before normalizeKey.    *)
Options(k) ==
  LET counting  == {i \in page : MatchesAll(i, filters, {k})}
      Count(v)  == Cardinality(
                     {p \in counting \X UNION {Counted(j, k) : j \in counting} :
                        p[2] \in Counted(p[1], k) /\ Key[p[2]] = v}) IN
  {[value |-> v, count |-> Count(v)] :
     v \in {Key[l] : l \in UNION {Counted(i, k) : i \in counting}}}

(* A dropdown with one option is hidden, unless it is the active one.      *)
Offered(k) ==
  /\ (IF k = "verse" THEN "book" ELSE k) \in Enabled
  /\ k = "verse" => filters["book"] # Any
  /\ Cardinality(Options(k)) >= 2 \/ filters[k] # Any

(* update: a verse only means something inside its book.                   *)
Updated(fs, patch) ==
  [k \in FilterKeys |->
     IF k = "verse" /\ "book" \in DOMAIN patch /\ patch["book"] # fs["book"] THEN Any
     ELSE IF k \in DOMAIN patch THEN patch[k] ELSE fs[k]]

Patch(k, v) == [j \in {k} |-> v]

Update(patch) ==
  /\ filters' = Updated(filters, patch)
  /\ visible' = PageSize
  /\ UNCHANGED <<published, staffEdits, staff, cache, fill, page, query>>

Choose(k, v) == Offered(k) /\ Update(Patch(k, v))

(* The speaker, series, message type or topic of a card.                   *)
PickFromCard(i, k, l) ==
  /\ i \in Filtered(filters) /\ k \in Sets /\ l \in Labels[i][k]
  /\ Update(Patch(k, Key[l]))

(* A verse of a card: filterByScripture.                                   *)
FilterByScripture(i, l) ==
  /\ i \in Filtered(filters) /\ l \in Labels[i]["verse"]
  /\ Update([k \in {"book", "verse"} |->
       IF k = "verse" THEN Key[l]
       ELSE IF BookOf[l] = NoLabel THEN Any ELSE Key[BookOf[l]]])

(* The chip of an active filter; the chip of a book takes the verse along. *)
ClearFilter(k) ==
  /\ filters[k] # Any
  /\ Update(IF k = "book" THEN [j \in {"book", "verse"} |-> Any] ELSE Patch(k, Any))

Search(q) ==
  /\ query' = q
  /\ visible' = PageSize
  /\ UNCHANGED <<published, staffEdits, staff, cache, fill, page, filters>>

ClearAll ==
  /\ filters # NoFilters \/ query # Items
  /\ filters' = NoFilters /\ query' = Items
  /\ visible' = PageSize
  /\ UNCHANGED <<published, staffEdits, staff, cache, fill, page>>

LoadMore ==
  /\ Cardinality(Filtered(filters)) > visible
  /\ visible' = visible + PageSize
  /\ UNCHANGED <<published, staffEdits, staff, cache, fill, page, filters, query>>

-----------------------------------------------------------------------------
(* The catalogue and its cache *)

Show(items) ==
  /\ page' = items
  /\ filters' = NoFilters /\ query' = Items /\ visible' = PageSize

StartFill ==
  /\ ~fill.reading
  /\ fill' = [reading |-> TRUE, items |-> published]

(* Slip: an entry that has expired is served and nothing more. *)
LoadPageAsItIs ==
  /\ IF cache.state = "none"
     THEN StartFill /\ UNCHANGED <<page, filters, query, visible>>
     ELSE Show(cache.items) /\ UNCHANGED fill
  /\ UNCHANGED <<published, staffEdits, staff, cache>>

(* The page is loaded: from the cache, where an expired entry is served    *)
(* once more while it is read again, or from the database.                 *)
LoadPage ==
  /\ CASE cache.state = "none"    -> StartFill /\ UNCHANGED <<page, filters, query, visible>>
       [] cache.state = "fresh"   -> Show(cache.items) /\ UNCHANGED fill
       [] cache.state = "expired" -> StartFill /\ Show(cache.items)
  /\ UNCHANGED <<published, staffEdits, staff, cache>>

(* What has been read is stored, as fresh, whatever was invalidated since. *)
FinishFill ==
  /\ fill.reading
  /\ fill' = [reading |-> FALSE, items |-> {}]
  /\ cache' = [state |-> "fresh", items |-> fill.items]
  /\ IF cache.state = "none" THEN Show(fill.items)
     ELSE UNCHANGED <<page, filters, query, visible>>
  /\ UNCHANGED <<published, staffEdits, staff>>

(* CACHE_SECONDS pass.                                                     *)
Expire ==
  /\ cache.state = "fresh"
  /\ cache' = [cache EXCEPT !.state = "expired"]
  /\ UNCHANGED <<published, staffEdits, staff, fill, page, filters, query, visible>>

(* Approving, archiving, deleting or re-scoping a resource writes the      *)
(* row...                                                                  *)
Edit(i) ==
  /\ staff = "idle" /\ staffEdits < MaxStaffEdits
  /\ staffEdits' = staffEdits + 1
  /\ published' = IF i \in published THEN published \ {i} ELSE published \cup {i}
  /\ staff' = "written"
  /\ UNCHANGED <<cache, fill, page, filters, query, visible>>

(* ...and then invalidates the catalogue, or throws and is ignored.        *)
InvalidateLibraryCatalog ==
  /\ staff = "written"
  /\ staff' = "idle"
  /\ cache' \in {cache, [state |-> "none", items |-> {}]}
  /\ UNCHANGED <<published, staffEdits, fill, page, filters, query, visible>>

-----------------------------------------------------------------------------

Visitor ==
  \/ \E k \in FilterKeys : ClearFilter(k)
  \/ \E k \in FilterKeys : \E o \in Options(k) : Choose(k, o.value)
  \/ \E i \in page, k \in Sets : \E l \in Labels[i][k] : PickFromCard(i, k, l)
  \/ \E i \in page : \E l \in Labels[i]["verse"] : FilterByScripture(i, l)
  \/ \E q \in Queries : Search(q)
  \/ ClearAll
  \/ LoadMore

LibraryNext ==
  \/ Visitor
  \/ LoadPage \/ FinishFill \/ Expire
  \/ \E i \in Items : Edit(i)
  \/ InvalidateLibraryCatalog

-----------------------------------------------------------------------------

(* The messages that are left when a value is chosen.                      *)
Left(k, v) == {i \in Filtered(Updated(filters, Patch(k, v))) :
                 \E l \in Counted(i, k) : Key[l] = v}

(* A dropdown lists exactly what can be reached from the present           *)
(* selection, and counts no less than the messages the choice will show:   *)
(* exactly these, unless one of them has the label in two spellings, each  *)
(* of which buildLibraryFacets adds: "options always reflect what's        *)
(* actually reachable" (library.ts:269). The books are left out while a    *)
(* verse is chosen, which another book would drop.                         *)
OptionsReflectReach ==
  \A k \in FilterKeys : (k = "book" => filters["verse"] = Any) =>
    /\ {o.value : o \in Options(k)} =
         {v \in {Key[l] : l \in UNION {Counted(i, k) : i \in page}} : Left(k, v) # {}}
    /\ \A o \in Options(k) :
         /\ o.count >= Cardinality(Left(k, o.value))
         /\ (\A i \in Left(k, o.value) : OneSpelling(Counted(i, k), o.value)) =>
              o.count = Cardinality(Left(k, o.value))

(* Once staff stop editing, the catalogue that pages are served comes to   *)
(* be the published one, also when an invalidation failed or overtook a    *)
(* read that had started before the edit (sermon-library.ts:127).          *)
EventuallyCurrent ==
  <>[](cache.state = "none" \/ cache.items = published)

=============================================================================

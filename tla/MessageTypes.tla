---------------------------- MODULE MessageTypes ----------------------------
(***************************************************************************)
(* The message types staff give a resource on its page: checkboxes for     *)
(* every type in use in the organization, in one of its spellings, and a   *)
(* field for new ones. Colleagues edit the same and other resources.       *)
(***************************************************************************)
EXTENDS Sequences, SequencesExt, Selection

CONSTANTS
  Tagged,        \* resources
  Alphabetical,  \* the spellings there may be, by localeCompare
  KeyOf,         \* each spelling in lower case
  MaxTypes,      \* MAX_MESSAGE_TYPES, 10 in the code
  Typed,         \* what may be typed here, each some spellings in order
  Elsewhere      \* and what colleagues may save

VARIABLES
  tags,      \* messageTypes of each resource
  sheet,     \* the tab's page: the resource it is about, its types as they
             \* were read, and the boxes there are
  given,     \* history: the keys of the types that staff gave each resource
  outdated   \* history: somebody else has written them since they were read

tagVars == <<tags, sheet, given, outdated>>

Spellings == ToSet(Alphabetical)
KeysIn(spellings) == {KeyOf[s] : s \in spellings}
KeysOf(seq) == KeysIn(ToSet(seq))

(* What setMessageTypesAction can leave.                                   *)
EachKeyOnce(seq) == \A i, j \in DOMAIN seq : KeyOf[seq[i]] = KeyOf[seq[j]] => i = j

TagLists == {seq \in UNION {[1..n -> Spellings] : n \in 0..MaxTypes} : EachKeyOnce(seq)}

Away == [at |-> "away"]

TagsTypeOK ==
  /\ tags \in [Tagged -> TagLists]
  /\ sheet # Away => sheet.at \in {"rendering", "open"} /\ sheet.of \in Tagged
  /\ given \in [Tagged -> SUBSET KeysIn(Spellings)]
  /\ outdated \in BOOLEAN

TagsInit ==
  /\ tags = [r \in Tagged |-> <<>>]
  /\ sheet = Away
  /\ given = [r \in Tagged |-> {}]
  /\ outdated = FALSE

-----------------------------------------------------------------------------
(* The page reads the resource, ... *)
Rendering(r, read) == [at |-> "rendering", of |-> r, own |-> read, boxes |-> <<>>]

OpenSheet(r) ==
  /\ sheet' = Rendering(r, tags[r])
  /\ outdated' = FALSE
  /\ UNCHANGED <<tags, given>>

(* ... and then the options: of each type in use whichever spelling        *)
(* findMany came to first.                                                 *)
InUse == UNION {ToSet(tags[r]) : r \in Tagged}

MessageTypeOptions ==
  {Where(Alphabetical, options) :
     options \in {o \in SUBSET InUse : /\ KeysIn(o) = KeysIn(InUse)
                                       /\ \A s, t \in o : KeyOf[s] = KeyOf[t] => s = t}}

(* Types of the resource's own that are not among them come after.         *)
RenderSheet ==
  /\ sheet.at = "rendering"
  /\ \E options \in MessageTypeOptions :
       sheet' = [sheet EXCEPT
         !.at = "open",
         !.boxes = options \o Where(sheet.own, {s \in ToSet(sheet.own) : KeyOf[s] \notin KeysOf(options)})]
  /\ UNCHANGED <<tags, given, outdated>>

Ticked == {s \in ToSet(sheet.boxes) : KeyOf[s] \in KeysOf(sheet.own)}

FirstOfEachKey(raw) ==
  LET byKey[n \in 0..Len(raw)] ==
        IF n = 0 THEN << >>
        ELSE IF KeyOf[raw[n]] \in KeysOf(byKey[n - 1]) THEN byKey[n - 1]
        ELSE Append(byKey[n - 1], raw[n])
  IN  byKey[Len(raw)]

Capped(seq) == SubSeq(seq, 1, IF Len(seq) < MaxTypes THEN Len(seq) ELSE MaxTypes)

(* The boxes that are ticked by now, in their order, and what is typed     *)
(* beside them; what is too much is dropped without a word. The answer     *)
(* renders the page anew, or is lost.                                      *)
SaveMessageTypes ==
  /\ sheet.at = "open"
  /\ \E toggled \in SUBSET ToSet(sheet.boxes), typed \in Typed :
       LET off    == toggled \cap Ticked
           on     == toggled \ Ticked
           left   == (Ticked \ off) \cup on
           chosen == FirstOfEachKey(Where(sheet.boxes, left) \o typed)
           saved  == Capped(chosen)
           r      == sheet.of
       IN /\ tags' = [tags EXCEPT ![r] = saved]
          /\ given' = [given EXCEPT ![r] =
               IF outdated THEN KeysOf(saved)
               ELSE ((@ \ KeysIn(off)) \cup KeysIn(on) \cup KeysOf(typed))
                      \ (KeysOf(chosen) \ KeysOf(saved))]
          /\ sheet' \in {Rendering(r, saved), Away}
  /\ outdated' = FALSE

(* The session, the role or the database: the error page.                  *)
SaveRefused ==
  /\ sheet.at = "open" /\ sheet' = Away
  /\ UNCHANGED <<tags, given, outdated>>

(* From a page of their own, however old.                                  *)
SavedByColleague(r) ==
  /\ \E list \in Elsewhere :
       /\ tags' = [tags EXCEPT ![r] = list]
       /\ given' = [given EXCEPT ![r] = KeysOf(list)]
  /\ outdated' = (outdated \/ (sheet # Away /\ sheet.of = r))
  /\ UNCHANGED sheet

TagsNext ==
  \/ \E r \in Tagged : OpenSheet(r) \/ SavedByColleague(r)
  \/ RenderSheet \/ SaveMessageTypes \/ SaveRefused

-----------------------------------------------------------------------------

(* "Types already on this resource always show, even if spelled            *)
(* differently from the org's list" (resources/[resourceId]/page.tsx:305): *)
(* a type a resource was given stays until somebody unticks it, saves from *)
(* a page older than it, or gives more than there may be; and it has none  *)
(* in two spellings.                                                       *)
TagsKept == \A r \in Tagged : KeysOf(tags[r]) = given[r] /\ EachKeyOnce(tags[r])

=============================================================================

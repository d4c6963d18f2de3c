-------------------------- MODULE SourceDocuments --------------------------
(***************************************************************************)
(* What an analysis reads of one imported page: its description, the links *)
(* found in it, which are neither fetched nor read before staff include    *)
(* them, and its transcript, which stands in the resource's row and, for   *)
(* the analysis, once more in a document. Every call is several awaited    *)
(* reads and writes with no transaction around them; each may throw.       *)
(***************************************************************************)
EXTENDS Naturals, Sequences

CONSTANTS Links,        \* what extractCandidateLinks finds in the description
          PageTexts,    \* the texts the page may have when it is fetched
          PastedTexts,  \* the transcripts staff may paste
          Calls,        \* calls under way at once
          MaxDocuments  \* bound on the documents ever stored

VARIABLES
  created,     \* the resource has been imported
  transcript,  \* its row's cleanTranscript
  documents,   \* its source documents, in the order they were stored
  call,        \* how far each call is
  chosen,      \* history: links staff asked to be included
  parted,      \* history: writes of the transcript overlapped, or one broke off halfway
  crossed      \* history: searches for links overlapped

documentVars == <<created, transcript, documents, call, chosen, parted, crossed>>

NoText    == "no_text"
Described == "description"
Linked    == "linked_page"
Texts     == PageTexts \cup PastedTexts \cup {Described, Linked}
NoUrl     == "no_url"

(* approvedByUser and includedInAnalysis are always written alike.         *)
Document  == [kind : {"metadata", "link", "transcript"}, url : Links \cup {NoUrl},
              text : Texts \cup {NoText}, approved : BOOLEAN]
Dismissed == [kind |-> "dismissed"]

Stored      == {d \in DOMAIN documents : documents[d] # Dismissed}
Transcripts == {d \in Stored : documents[d].kind = "transcript"}
LinkDocuments == {d \in Stored : documents[d].kind = "link"}
Pending     == {d \in LinkDocuments : ~documents[d].approved}

Idle == [at |-> "idle", text |-> NoText, links |-> {}, of |-> {}]

DocumentsTypeOK ==
  /\ created \in BOOLEAN
  /\ transcript \in Texts \cup {NoText}
  /\ \A d \in DOMAIN documents : documents[d] \in Document \cup {Dismissed}
  /\ call \in [Calls -> [at : {"idle", "describing", "searching", "comparing", "rewriting",
                              "writing", "finding", "updating", "adding", "including"},
                         text : Texts \cup {NoText}, links : SUBSET Links,
                         of : SUBSET (1..MaxDocuments)]]
  /\ chosen \subseteq 1..MaxDocuments /\ parted \in BOOLEAN /\ crossed \in BOOLEAN

DocumentsInit ==
  /\ created = FALSE
  /\ transcript = NoText /\ documents = <<>>
  /\ call = [c \in Calls |-> Idle]
  /\ chosen = {} /\ parted = FALSE /\ crossed = FALSE

-----------------------------------------------------------------------------
(* A call is made from a page rendered any time ago, of any tab: what it   *)
(* names may have changed since.                                           *)

Starts(c, step)   == call[c] = Idle /\ call' = [call EXCEPT ![c] = step]
Proceeds(c, step) == call' = [call EXCEPT ![c] = step]
Ends(c)           == Proceeds(c, Idle)

AddSourceDocument(document) ==
  /\ Len(documents) < MaxDocuments
  /\ documents' = Append(documents, document)

LinkTo(url) == [kind |-> "link", url |-> url, text |-> NoText, approved |-> FALSE]
Full(kind, text) == [kind |-> kind, url |-> NoUrl, text |-> text, approved |-> TRUE]

(* On the way to writing the transcript, or past the row's half of it.     *)
Writing(c) ==
  \/ call[c].at \in {"comparing", "rewriting", "writing", "finding", "updating", "adding"}
  \/ call[c].at \in {"describing", "searching"} /\ call[c].text # NoText
Searching(c) == call[c].at \in {"describing", "searching"}

StartsWriting(c)   == parted' = (parted \/ \E other \in Calls : Writing(other))
StartsSearching(c) == crossed' = (crossed \/ \E other \in Calls : Searching(other))

-----------------------------------------------------------------------------
(* The import, and the search for links it shares with the bulk action.    *)

(* createResource; the text is of the fetch that described the page.       *)
StartImport(c) ==
  /\ ~created
  /\ created' = TRUE
  /\ \E text \in PageTexts \cup {NoText} :
       /\ Starts(c, [Idle EXCEPT !.at = "describing", !.text = text, !.links = Links])
       /\ IF text = NoText THEN UNCHANGED parted ELSE StartsWriting(c)
  /\ StartsSearching(c)
  /\ UNCHANGED <<transcript, documents, chosen>>

AddMetadata(c) ==
  /\ call[c].at = "describing"
  /\ AddSourceDocument(Full("metadata", Described))
  /\ Proceeds(c, [call[c] EXCEPT !.at = "searching"])
  /\ UNCHANGED <<created, transcript, chosen, parted, crossed>>

(* Slip: only the links still waiting count as known.                       *)
PendingUrls == {documents[d].url : d \in Pending}

(* Only links that no document of the resource has yet.                    *)
ExistingUrls == {documents[d].url : d \in Stored}

StartDiscover(c) ==
  /\ created
  /\ Starts(c, [Idle EXCEPT !.at = "searching", !.links = Links \ ExistingUrls])
  /\ StartsSearching(c)
  /\ UNCHANGED <<created, transcript, documents, chosen, parted>>

AddLink(c) ==
  /\ call[c].at = "searching"
  /\ \E url \in call[c].links :
       /\ AddSourceDocument(LinkTo(url))
       /\ Proceeds(c, [call[c] EXCEPT !.links = @ \ {url}])
  /\ UNCHANGED <<created, transcript, chosen, parted, crossed>>

LinksDone(c) ==
  /\ call[c].at = "searching" /\ call[c].links = {}
  /\ UNCHANGED <<created, transcript, documents, chosen, parted, crossed>>
  /\ IF call[c].text = NoText THEN Ends(c) ELSE Proceeds(c, [call[c] EXCEPT !.at = "writing"])

-----------------------------------------------------------------------------
(* The transcript: pasted, or fetched again from the page.                 *)

(* The form is on pages rendered while there was no transcript.            *)
Paste(c) ==
  /\ created
  /\ \E text \in PastedTexts : Starts(c, [Idle EXCEPT !.at = "writing", !.text = text])
  /\ parted' = (parted \/ transcript # NoText \/ \E other \in Calls : Writing(other))
  /\ UNCHANGED <<created, transcript, documents, chosen, crossed>>

(* refreshResourceTranscript reads the row, then fetches.                  *)
StartRefresh(c) ==
  /\ created
  /\ Starts(c, [Idle EXCEPT !.at = "comparing", !.text = transcript])
  /\ StartsWriting(c)
  /\ UNCHANGED <<created, transcript, documents, chosen, crossed>>

(* The script only takes what has no transcript.                           *)
Backfill(c) == transcript = NoText /\ StartRefresh(c)

FetchText(c) ==
  /\ call[c].at = "comparing"
  /\ UNCHANGED <<created, transcript, documents, chosen, parted, crossed>>
  /\ \E text \in PageTexts \cup {NoText} :
       IF text \in {NoText, call[c].text}
       THEN Ends(c)
       ELSE Proceeds(c, [call[c] EXCEPT !.at = "rewriting", !.text = text])

SetTranscript(c) ==
  /\ call[c].at \in {"writing", "rewriting"}
  /\ transcript' = call[c].text
  /\ Proceeds(c, [call[c] EXCEPT !.at = IF @ = "writing" THEN "adding" ELSE "finding"])
  /\ UNCHANGED <<created, documents, chosen, parted, crossed>>

(* Slip: the upsert that only ever adds.                                    *)
FindNoTranscript(c) ==
  /\ call[c].at = "finding"
  /\ Proceeds(c, [call[c] EXCEPT !.at = "adding"])
  /\ UNCHANGED <<created, transcript, documents, chosen, parted, crossed>>

(* upsertTranscriptSourceDocument finds any, in no stated order.           *)
FindTranscript(c) ==
  /\ call[c].at = "finding"
  /\ \/ /\ Transcripts = {}
        /\ Proceeds(c, [call[c] EXCEPT !.at = "adding"])
     \/ \E d \in Transcripts : Proceeds(c, [call[c] EXCEPT !.at = "updating", !.of = {d}])
  /\ UNCHANGED <<created, transcript, documents, chosen, parted, crossed>>

UpdateTranscript(c) ==
  /\ call[c].at = "updating"
  /\ \E d \in call[c].of : documents' = [documents EXCEPT ![d].text = call[c].text]
  /\ UNCHANGED <<created, transcript, chosen, parted, crossed>>
  /\ Ends(c)

AddTranscript(c) ==
  /\ call[c].at = "adding"
  /\ AddSourceDocument(Full("transcript", call[c].text))
  /\ UNCHANGED <<created, transcript, chosen, parted, crossed>>
  /\ Ends(c)

-----------------------------------------------------------------------------
(* Links, decided on one by one or all at once.                            *)

(* A link that is gone from the documents throws before it is fetched.     *)
Include(c) ==
  /\ \E d \in LinkDocuments :
       /\ Starts(c, [Idle EXCEPT !.at = "including", !.of = {d}])
       /\ chosen' = chosen \cup {d}
  /\ UNCHANGED <<created, transcript, documents, parted, crossed>>

(* The bulk action takes every link that is pending when it gets there.    *)
IncludeAll(c) ==
  /\ created
  /\ Starts(c, [Idle EXCEPT !.at = "including", !.of = Pending])
  /\ chosen' = chosen \cup Pending
  /\ UNCHANGED <<created, transcript, documents, parted, crossed>>

(* Slip: the update that forgets the document's id.                         *)
ApproveEveryDocument(c, d) ==
  documents' = [e \in DOMAIN documents |->
                  IF e \in Pending
                  THEN [documents[e] EXCEPT !.text = Linked, !.approved = TRUE]
                  ELSE documents[e]]

(* It updates by id, and nothing when the link has been dismissed.         *)
ApproveSourceDocument(c, d) ==
  documents' = IF d \in Stored
               THEN [documents EXCEPT ![d].text = Linked, ![d].approved = TRUE] ELSE documents

FetchLink(c) ==
  /\ call[c].at = "including"
  /\ \E d \in call[c].of :
       /\ ApproveSourceDocument(c, d) \/ UNCHANGED documents  \* nothing to read there
       /\ Proceeds(c, [call[c] EXCEPT !.of = @ \ {d}])
  /\ UNCHANGED <<created, transcript, chosen, parted, crossed>>

Included(c) ==
  /\ call[c].at = "including" /\ call[c].of = {}
  /\ UNCHANGED <<created, transcript, documents, chosen, parted, crossed>>
  /\ Ends(c)

(* By id too, whatever has become of the link since the page was rendered. *)
Dismiss(c) ==
  /\ call[c] = Idle
  /\ \E d \in LinkDocuments : documents' = [documents EXCEPT ![d] = Dismissed]
  /\ UNCHANGED <<created, transcript, chosen, parted, crossed>>
  /\ Ends(c)

-----------------------------------------------------------------------------
(* Any call may break off where it awaits; the row and the documents stay  *)
(* as they are then. A write whose answer is lost is one that was made.    *)
CallThrows(c) ==
  /\ call[c] # Idle
  /\ call' = [call EXCEPT ![c] = Idle]
  /\ parted' = (parted \/ call[c].at \in {"finding", "updating", "adding"})
  /\ UNCHANGED <<created, transcript, documents, chosen, crossed>>

DocumentsNext ==
  \E c \in Calls :
       \/ StartImport(c) \/ AddMetadata(c) \/ StartDiscover(c) \/ AddLink(c)
       \/ LinksDone(c) \/ Paste(c) \/ StartRefresh(c) \/ Backfill(c) \/ FetchText(c)
       \/ SetTranscript(c) \/ FindTranscript(c) \/ UpdateTranscript(c) \/ AddTranscript(c)
       \/ Include(c) \/ IncludeAll(c) \/ FetchLink(c) \/ Included(c) \/ Dismiss(c)
       \/ CallThrows(c)

-----------------------------------------------------------------------------

(* What an analysis that starts now is given (CategorizationService).      *)
ReadByAnalysis == {d \in Stored : documents[d].approved /\ documents[d].text # NoText}

(* "Nothing is fetched and nothing feeds AI categorization until a human   *)
(* approves each one" (import-service.ts:75): whatever was discovered,     *)
(* dismissed, found again or included meanwhile, an analysis reads no link *)
(* but those staff asked for.                                              *)
ReadIsChosen == ReadByAnalysis \cap LinkDocuments \subseteq chosen

(* The transcript staff see is the one an analysis reads, and the only     *)
(* one (upsertTranscriptSourceDocument, resource-service.ts:360), unless   *)
(* two writes of it overlapped, one was broken off between the row and the *)
(* document, or was pasted on a page rendered before there was one.        *)
AnalysisReadsShown ==
  \/ parted \/ \E c \in Calls : Writing(c)
  \/ /\ {documents[d].text : d \in ReadByAnalysis \cap Transcripts} = {transcript} \ {NoText}
     /\ \A d, e \in Transcripts : d = e

(* "Dedupes against sourceUrls already on the resource so re-running is    *)
(* always safe" (resource-pipeline.ts:149): staff are not asked twice      *)
(* about a link, unless two searches overlapped.                           *)
EachLinkOnce ==
  crossed \/ \A d, e \in Stored : documents[d].url = documents[e].url /\ d # e
                                    => documents[d].url = NoUrl

=============================================================================

------------------------------- MODULE Church -------------------------------
(***************************************************************************)
(* The parts of a church's dashboard and of its public wall that keep to   *)
(* rows of their own: who is on the team, usage warnings, the rate limiter, *)
(* lists that staff arrange, the prayer wall, the setup wizard, settings   *)
(* forms, what an analysis reads, accounts, the moderation desk, what      *)
(* staff are told of visitors' conversations, the Resources page around    *)
(* its table, and message types. In this model none reads what another     *)
(* writes, so a behaviour is about one of them, the scene, and interleaves *)
(* the actors of that one. Team's AnOwnerRemains and PrayerWall's          *)
(* CrisisHeld are read as they stand.                                      *)
(***************************************************************************)
EXTENDS Team, PrayerWall, Sequences, TLC

CONSTANTS
  Organizations, Periods,                         \* UsageWarnings
  Keys, Limit, WindowOf, SweepInterval, MaxTime,  \* RateLimit
  MaxRows, Staff, MaxCreated,                     \* OrderedList
  MaxWebsites, MaxWidgets, MaxMishaps,            \* Setup
  Editors,                                        \* SettingsForms
  Links, PageTexts, PastedTexts, MaxDocuments,    \* SourceDocuments
  Browsers, Passwords, MaxLinks, MaxSessions,     \* Accounts
  NoteTexts, MaxCalls,                            \* Moderation
  Conversations, CampusOf, Questions, Recommendable, TopicsOf, WindowDays, RecentLimit,
  GapLimit, LastDay, MaxMessages, MaxMeanwhile,   \* Insights
  ChatWidgets, Previews, LogPageSize, MaxConversations, MaxTurns, \* ConversationLog
  NewestFirst, TypeOf, Matching, TypeTabs, PageSizes, DefaultSize,
  JumpAfter, MaxChanges,                          \* ResourceListing
  SourceRows, LinkRows, MaxOrgLinks, MaxAsked,    \* ResourcePanels
  Tagged, Alphabetical, KeyOf, MaxTypes, Typed, Elsewhere \* MessageTypes

(* Bounds are numbers, months are numbered, rows of different tables are   *)
(* different, a link that is found in a description has an address, and a  *)
(* text is not the lack of one.                                            *)
ASSUME ChurchAssumption ==
  /\ MaxLinks \in Nat /\ MaxDocuments \in Nat
  /\ Periods \subseteq Nat /\ 1 \in Periods
  /\ NewestFirst \in Seq(DOMAIN TypeOf) /\ DefaultSize \in PageSizes /\ PageSizes \subseteq Nat \ {0}
  /\ MaxOrgLinks \in Nat /\ SourceRows \cap LinkRows = {}
  /\ MaxTime \in Nat /\ \A k \in Keys : Limit[k] \in Nat /\ WindowOf[k] \in Nat
  /\ LogPageSize \in Nat \ {0} /\ MaxConversations \in Nat /\ MaxTurns \in Nat
  /\ LastDay \in Nat /\ MaxTypes \in Nat
  /\ Alphabetical \in Seq(DOMAIN KeyOf) /\ Typed \cup Elsewhere \subseteq Seq(DOMAIN KeyOf)
  /\ \A list \in Elsewhere : \A i, j \in DOMAIN list : KeyOf[list[i]] = KeyOf[list[j]] => i = j
  /\ "no_url" \notin Links /\ "no_text" \notin PageTexts \cup PastedTexts

VARIABLES
  scene,  \* frozen
  period, used, hasOwner, sentAt, run, mails, owed,
  now, lastSweep, buckets, admitted, forgotten,
  links, created, request, stale,
  websites, widgets, hasResource, tab, queue, serving, desk, mishaps,
  subject, onPlan, row, shownOn, wizard, saves, crossed, intended,
  imported, transcript, documents, reading, chosen, parted, searchesCrossed,
  kind, wallOn, password, resetLinks, mailbox, sessions, opened, cookie, visit, linksAsked, rivals,
  what, item, page, noteDraft, replyDraft, picked, asking, calls, seen, said, unseen, drifted,
  log, answering, today, catalogue, load, insights, answers, tangled,
  conversations, turns, logTab, logAsked, query, due, met, uncounted,
  stored, params, rendered, form, pending, wanted, strayed, changes,
  about, table, shownAt, failed, importing, panelCalls, behind, rivalled,
  tags, sheet, given, outdated

UsagePart == INSTANCE UsageWarnings
RatePart  == INSTANCE RateLimit
ListPart  == INSTANCE OrderedList WITH rows <- links
SetupPart == INSTANCE Setup
FormsPart == INSTANCE SettingsForms
DocumentsPart == INSTANCE SourceDocuments
                   WITH created <- imported, call <- reading, crossed <- searchesCrossed
AccountsPart  == INSTANCE Accounts WITH links <- resetLinks, asked <- linksAsked
DeskPart      == INSTANCE Moderation
InsightsPart  == INSTANCE Insights
LogPart       == INSTANCE ConversationLog
ListingPart   == INSTANCE ResourceListing WITH listed <- rendered
PanelsPart    == INSTANCE ResourcePanels WITH asked <- panelCalls
TypesPart     == INSTANCE MessageTypes

usageVars == <<period, used, hasOwner, sentAt, run, mails, owed>>
rateVars  == <<now, lastSweep, buckets, admitted, forgotten>>
listVars  == <<links, created, request, stale>>
setupVars == <<websites, widgets, hasResource, tab, queue, serving, desk, mishaps>>
formVars  == <<subject, onPlan, row, shownOn, wizard, saves, crossed, intended>>
documentVars == <<imported, transcript, documents, reading, chosen, parted, searchesCrossed>>
accountVars  == <<kind, wallOn, password, resetLinks, mailbox, sessions, opened, cookie, visit,
                  linksAsked, rivals>>
deskVars     == <<what, item, page, noteDraft, replyDraft, picked, asking, calls, seen, said,
                  unseen, drifted>>
insightsVars == <<log, answering, today, catalogue, load, insights, answers, tangled>>
logVars      == <<conversations, turns, logTab, logAsked, query, due, met, uncounted>>
listingVars  == <<stored, params, rendered, form, pending, wanted, strayed, changes>>
panelVars    == <<about, table, shownAt, failed, importing, panelCalls, behind, rivalled>>
tagVars      == <<tags, sheet, given, outdated>>

vars == <<scene, teamVars, usageVars, rateVars, listVars, prayerVars, setupVars, formVars,
          documentVars, accountVars, deskVars, insightsVars, logVars, listingVars, panelVars,
                 tagVars>>

Scenes == {"team", "usage", "rate", "list", "wall", "setup", "forms", "documents", "accounts",
           "desk", "insights", "log", "listing", "panels", "types"}

TypeOK ==
  /\ scene \in Scenes
  /\ TeamTypeOK /\ UsagePart!UsageTypeOK /\ RatePart!RateTypeOK
  /\ ListPart!ListTypeOK /\ PrayerTypeOK /\ SetupPart!SetupTypeOK
  /\ FormsPart!FormsTypeOK /\ DocumentsPart!DocumentsTypeOK /\ AccountsPart!AccountsTypeOK
  /\ DeskPart!ModerationTypeOK /\ InsightsPart!InsightsTypeOK /\ LogPart!LogTypeOK
  /\ ListingPart!ListingTypeOK /\ PanelsPart!PanelsTypeOK /\ TypesPart!TagsTypeOK

(* What a part that is not on begins with does not matter: one of it.      *)
Init ==
  /\ scene \in Scenes
  /\ TeamInit /\ UsagePart!UsageInit /\ RatePart!RateInit
  /\ ListPart!ListInit /\ PrayerInit /\ SetupPart!SetupInit
  /\ FormsPart!FormsInit /\ DocumentsPart!DocumentsInit /\ AccountsPart!AccountsInit
  /\ DeskPart!ModerationInit /\ InsightsPart!InsightsInit /\ LogPart!LogInit
  /\ ListingPart!ListingInit /\ PanelsPart!PanelsInit /\ TypesPart!TagsInit
  /\ scene # "team"  => \A p \in People \ {Founder} : role[p] = "none"
  /\ scene # "usage" => \A o \in Organizations : hasOwner[o]
  /\ scene # "wall"  => \A r \in Requests : message[r] = "ordinary"
  /\ scene # "forms" => subject = "wall" /\ onPlan
  /\ scene # "accounts" => kind = "member"
  /\ scene # "desk" => what = "request"
  /\ scene # "panels" => about = "links"

OnTeam ==
  /\ scene = "team" /\ TeamNext
  /\ UNCHANGED <<scene, usageVars, rateVars, listVars, prayerVars, setupVars, formVars,
                 documentVars, accountVars, deskVars, insightsVars, logVars, listingVars, panelVars,
                 tagVars>>

OnUsage ==
  /\ scene = "usage" /\ UsagePart!UsageNext
  /\ UNCHANGED <<scene, teamVars, rateVars, listVars, prayerVars, setupVars, formVars,
                 documentVars, accountVars, deskVars, insightsVars, logVars, listingVars, panelVars,
                 tagVars>>

OnRate ==
  /\ scene = "rate" /\ RatePart!RateNext
  /\ UNCHANGED <<scene, teamVars, usageVars, listVars, prayerVars, setupVars, formVars,
                 documentVars, accountVars, deskVars, insightsVars, logVars, listingVars, panelVars,
                 tagVars>>

OnList ==
  /\ scene = "list" /\ ListPart!ListNext
  /\ UNCHANGED <<scene, teamVars, usageVars, rateVars, prayerVars, setupVars, formVars,
                 documentVars, accountVars, deskVars, insightsVars, logVars, listingVars, panelVars,
                 tagVars>>

OnWall ==
  /\ scene = "wall" /\ PrayerNext
  /\ UNCHANGED <<scene, teamVars, usageVars, rateVars, listVars, setupVars, formVars,
                 documentVars, accountVars, deskVars, insightsVars, logVars, listingVars, panelVars,
                 tagVars>>

OnForms ==
  /\ scene = "forms" /\ FormsPart!FormsNext
  /\ UNCHANGED <<scene, teamVars, usageVars, rateVars, listVars, prayerVars, setupVars,
                 documentVars, accountVars, deskVars, insightsVars, logVars, listingVars, panelVars,
                 tagVars>>

OnDocuments ==
  /\ scene = "documents" /\ DocumentsPart!DocumentsNext
  /\ UNCHANGED <<scene, teamVars, usageVars, rateVars, listVars, prayerVars, setupVars,
                 formVars, accountVars, deskVars, insightsVars, logVars, listingVars, panelVars,
                 tagVars>>

OnAccounts ==
  /\ scene = "accounts" /\ AccountsPart!AccountsNext
  /\ UNCHANGED <<scene, teamVars, usageVars, rateVars, listVars, prayerVars, setupVars,
                 formVars, documentVars, deskVars, insightsVars, logVars, listingVars, panelVars,
                 tagVars>>

OnDesk ==
  /\ scene = "desk" /\ DeskPart!ModerationNext
  /\ UNCHANGED <<scene, teamVars, usageVars, rateVars, listVars, prayerVars, setupVars,
                 formVars, documentVars, accountVars, insightsVars, logVars, listingVars, panelVars,
                 tagVars>>

OnInsights ==
  /\ scene = "insights" /\ InsightsPart!InsightsNext
  /\ UNCHANGED <<scene, teamVars, usageVars, rateVars, listVars, prayerVars, setupVars,
                 formVars, documentVars, accountVars, deskVars, logVars, listingVars, panelVars,
                 tagVars>>

OnLog ==
  /\ scene = "log" /\ LogPart!LogNext
  /\ UNCHANGED <<scene, teamVars, usageVars, rateVars, listVars, prayerVars, setupVars,
                 formVars, documentVars, accountVars, deskVars, insightsVars, listingVars, panelVars,
                 tagVars>>

InSetup(A) ==
  /\ scene = "setup" /\ A
  /\ UNCHANGED <<scene, teamVars, usageVars, rateVars, listVars, prayerVars, formVars,
                 documentVars, accountVars, deskVars, insightsVars, logVars, listingVars, panelVars,
                 tagVars>>

OnSetup == InSetup(SetupPart!SetupNext)

OnListing ==
  /\ scene = "listing" /\ ListingPart!ListingNext
  /\ UNCHANGED <<scene, teamVars, usageVars, rateVars, listVars, prayerVars, setupVars,
                 formVars, documentVars, accountVars, deskVars, insightsVars, logVars, panelVars,
                 tagVars>>

OnPanels ==
  /\ scene = "panels" /\ PanelsPart!PanelsNext
  /\ UNCHANGED <<scene, teamVars, usageVars, rateVars, listVars, prayerVars, setupVars,
                 formVars, documentVars, accountVars, deskVars, insightsVars, logVars, listingVars,
                 tagVars>>

OnTypes ==
  /\ scene = "types" /\ TypesPart!TagsNext
  /\ UNCHANGED <<scene, teamVars, usageVars, rateVars, listVars, prayerVars, setupVars,
                 formVars, documentVars, accountVars, deskVars, insightsVars, logVars, listingVars,
                 panelVars>>

Next ==
  \/ OnTeam \/ OnUsage \/ OnRate \/ OnList \/ OnWall \/ OnSetup \/ OnForms
  \/ OnDocuments \/ OnAccounts \/ OnDesk \/ OnInsights \/ OnLog \/ OnListing \/ OnPanels
  \/ OnTypes

(* The setup wizard has somebody who goes on, and who reloads after an     *)
(* error; the server goes through its actions.                             *)
Fairness ==
  /\ WF_vars(InSetup(SetupPart!GoOn))
  /\ WF_vars(InSetup(SetupPart!ReloadAfterError))
  /\ WF_vars(InSetup(SetupPart!Serve))

Spec == Init /\ [][Next]_vars /\ Fairness

-----------------------------------------------------------------------------

(* UsageWarnings': a threshold's mail goes out once per period             *)
(* (cron/usage-warnings/route.ts:10).                                      *)
EachThresholdOnce == UsagePart!EachThresholdOnce

(* RateLimit's: no window lets more through than the limit and what was    *)
(* forgotten (rate-limit.ts:13).                                           *)
LimitHolds == RatePart!LimitHolds

(* OrderedList's: moving a row moves it (action-link-service.ts:56).       *)
ArrangedAsAsked == ListPart!ArrangedAsAsked

(* Setup's: whoever goes on gets through (SetupWizard.tsx:36).             *)
WizardGoesOn == scene = "setup" => SetupPart!WizardGoesOn

(* SettingsForms': a form keeps what it does not show                      *)
(* (prayer-wall/setup/page.tsx:42); and MessageTypes': a type stays until  *)
(* somebody takes it off (resources/[resourceId]/page.tsx:305).            *)
ChoicesKept == FormsPart!ChoicesKept /\ TypesPart!TagsKept

(* SourceDocuments': an analysis reads no link but those staff asked for   *)
(* (import-service.ts:75), who are asked once about each                   *)
(* (resource-pipeline.ts:149).                                             *)
ReadIsChosen == DocumentsPart!ReadIsChosen /\ DocumentsPart!EachLinkOnce

(* ... it reads the transcript that staff see (resource-service.ts:360).   *)
AnalysisReadsShown == DocumentsPart!AnalysisReadsShown

(* Accounts': one reset link is good at a time (user-service.ts:51).       *)
OneLiveLink == AccountsPart!OneLiveLink

(* Moderation's: a pressed switch is what the row has, and a settled page  *)
(* shows the row (PrayerModerationList.tsx:146); and ResourcePanels': its  *)
(* settled page does, and its links keep to their maximum                  *)
(* (resources/page.tsx:246).                                               *)
SwitchIsTrue == DeskPart!SwitchIsTrue /\ PanelsPart!PanelsAreTrue

(* Insights': a question stands beside its own outcome                     *)
(* (analytics-service.ts:194).                                             *)
PairedRightly == InsightsPart!PairedRightly

(* ConversationLog's: paging through misses no conversation                *)
(* (conversations/page.tsx:47).                                            *)
PagingMeetsAll == LogPart!PagingMeetsAll

(* ResourceListing's: tabs, page links and forms keep each other's choices *)
(* (resources/page.tsx:364).                                               *)
ListedAsChosen == ListingPart!ListedAsChosen

=============================================================================

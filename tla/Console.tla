------------------------------ MODULE Console ------------------------------
(***************************************************************************)
(* The console: the pages an administrator, a member or a visitor works    *)
(* on.  Pages share nothing but the server, so a behaviour follows one of  *)
(* them, the area, and the pages take turns on one set of variables: v1,   *)
(* v2, ... are the variables of the area's module in the order in which it *)
(* declares them, and the others are None.                                 *)
(***************************************************************************)
EXTENDS Integers

CONSTANTS
  None,             \* nothing
  Unborn,           \* parent of a row that has not been created
  \* AssignDialog
  Owners,           \* roles or users whose assignments are edited
  Assignables,      \* what they can be assigned
  MaxDialogInputs, MaxDialogFails,
  \* RoleCodes
  CodesRequests,    \* requests that load or assign codes at the same time
  MaxAssigns, MaxCodesErrors,
  \* Inbox
  Count,            \* the query of the unread count
  Header,           \* queries of the header
  NoticeKeys,       \* lists of the inbox page
  FirstKey,         \* the first it shows
  NoticeCalls,      \* inbox calls of the user
  MaxTurns,
  \* PagedList
  ListRows,         \* rows, the newest first
  ListCalls,        \* row actions at the same time
  ListPage,         \* rows on a page
  MaxListInputs, MaxListErrors,
  \* CursorPage
  Providers,        \* storage providers
  Prefixes,         \* prefixes that can be typed
  Sizes,            \* page sizes
  Default,          \* the cleared settings
  MaxPages, MaxObjectInputs, MaxObjectErrors,
  \* EditSheet
  SheetRows,        \* rows that can be edited
  SheetFields,      \* fields of the form
  SheetKeys,        \* queries that list the rows
  MaxSheetInputs, MaxSheetErrors,
  \* TreePage
  TreeNodes,        \* rows that exist or can be created
  TreeCalls,        \* removals at the same time
  TreeFilters,      \* searches, as the rows they leave out
  MaxTreeInputs,
  \* TenantTree
  Tenants,          \* tenants that exist or can be created
  TenantKeywords,   \* searches, as the tenants they match
  TenantPage,       \* rows of a page
  MaxTenantInputs,
  \* NotificationDialogs
  MessageTexts,     \* what a row or a message says
  MaxMessageInputs, MaxMessageErrors,
  \* EntityForm
  MaxEntityInputs,
  \* SigninPage
  Memberships,      \* memberships, in the order of the server
  OwnerOf,          \* the account of each
  MaxSigninInputs,
  \* CodeForm
  Contacts,         \* phone numbers or addresses
  Odd,              \* another spelling of one of them
  OddOf,            \* that one
  Cooldown,         \* ticks between two codes
  MaxCodeInputs,
  \* ProfileForm
  ProfileFields,    \* fields of the profile
  Avatar,           \* the one that is uploaded
  Values,           \* what a field holds
  ProfileCalls,     \* saves at the same time
  MaxProfileInputs, MaxProfileErrors,
  \* Membership
  People,           \* who may join
  JoinPages,        \* open pages of the invitation
  VisitorOf,        \* the person on each
  Founder,          \* the administrator
  MemberKeywords,   \* searches, as the members they match
  MemberPage,       \* rows of a page
  MaxMemberInputs,
  \* InviteLink
  Workspaces,       \* workspaces of the administrator
  Life,             \* days an entry of Redis lives
  MaxCodes, MaxInviteInputs, MaxInviteErrors,
  \* RowMenus
  MaxRightsInputs,
  \* Navigation
  MaxBarInputs, MaxBarErrors

VARIABLES
  area,
  v1, v2, v3, v4, v5, v6, v7, v8, v9, v10, v11, v12, v13, v14, v15, v16, v17, v18, v19, v20,
  v21, v22, v23

Dialog == INSTANCE AssignDialog WITH
  Nodes <- Assignables, MaxInputs <- MaxDialogInputs, MaxFails <- MaxDialogFails,
  kind <- v1, parent <- v2, assigned <- v3, tree <- v4, entry <- v5, fetch <- v6,
  dialog <- v7, save <- v8, bounds <- v9

Codes == INSTANCE RoleCodes WITH
  Requests <- CodesRequests, MaxErrors <- MaxCodesErrors,
  rows <- v1, cache <- v2, request <- v3, errors <- v4, raced <- v5, lost <- v6

Notices == INSTANCE Inbox WITH
  Keys <- NoticeKeys, Calls <- NoticeCalls,
  version <- v1, emits <- v2, stream <- v3, signals <- v4, shown <- v5, answer <- v6,
  listed <- v7, mark <- v8, behind <- v9, troubles <- v10

List == INSTANCE PagedList WITH
  Rows <- ListRows, Calls <- ListCalls, PageSize <- ListPage, MaxInputs <- MaxListInputs,
  MaxErrors <- MaxListErrors,
  view <- v1, lists <- v2, filter <- v3, wanted <- v4, page <- v5, screen <- v6,
  question <- v7, action <- v8, blind <- v9, shrunk <- v10, spent <- v11

Objects == INSTANCE CursorPage WITH
  MaxInputs <- MaxObjectInputs, MaxErrors <- MaxObjectErrors,
  setting <- v1, settled <- v2, tokens <- v3, at <- v4, listing <- v5, asking <- v6,
  early <- v7, tries <- v8

Sheet == INSTANCE EditSheet WITH
  Rows <- SheetRows, Fields <- SheetFields, Keys <- SheetKeys, MaxInputs <- MaxSheetInputs,
  MaxErrors <- MaxSheetErrors,
  layout <- v1, stored <- v2, writer <- v3, cached <- v4, key <- v5, reading <- v6,
  sheet <- v7, saving <- v8, joined <- v9, charged <- v10

Tree == INSTANCE TreePage WITH
  Nodes <- TreeNodes, Calls <- TreeCalls, Filters <- TreeFilters, MaxInputs <- MaxTreeInputs,
  page <- v1, parentOf <- v2, live <- v3, filter <- v4, screen <- v5, answer <- v6,
  selected <- v7, confirm <- v8, removal <- v9, adding <- v10, strayed <- v11, used <- v12

Directory == INSTANCE TenantTree WITH
  Keywords <- TenantKeywords, Size <- TenantPage, MaxInputs <- MaxTenantInputs,
  above <- v1, alive <- v2, keyword <- v3, pageOf <- v4, expanded <- v5, chosen <- v6,
  shownRows <- v7, asked <- v8, job <- v9, missed <- v10, ghost <- v11, adrift <- v12,
  troubled <- v13, turns <- v14, fetched <- v15

Rule == INSTANCE RuleForm WITH
  values <- v1, verdict <- v2

Messages == INSTANCE NotificationDialogs WITH
  Texts <- MessageTexts, MaxInputs <- MaxMessageInputs, MaxErrors <- MaxMessageErrors,
  saved <- v1, listed <- v2, dialogs <- v3, typed <- v4, fresh <- v5, pending <- v6,
  closedBy <- v7, budget <- v8

Entity == INSTANCE EntityForm WITH
  MaxInputs <- MaxEntityInputs,
  kind <- v1, mode <- v2, row <- v3, form <- v4, touched <- v5, before <- v6, edits <- v7,
  outcome <- v8

Signin == INSTANCE SigninPage WITH
  MaxInputs <- MaxSigninInputs,
  demanded <- v1, loaded <- v2, active <- v3, proofs <- v4, credentials <- v5,
  slider <- v6, checks <- v7, queries <- v8, latest <- v9, offered <- v10, open <- v11,
  picked <- v12, signin <- v13, session <- v14, confirmed <- v15, lapsed <- v16,
  baffled <- v17, rejected <- v18, crossed <- v19, steps <- v20

Code == INSTANCE CodeForm WITH
  MaxInputs <- MaxCodeInputs,
  purpose <- v1, asks <- v2, aware <- v3, registered <- v4, remembered <- v5, live <- v6,
  cooling <- v7, shows <- v8, contact <- v9, code <- v10, puzzle <- v11, proving <- v12,
  sending <- v13, newest <- v14, submit <- v15, resend <- v16, told <- v17, gone <- v18,
  spoilt <- v19, excused <- v20, puzzled <- v21, vain <- v22, count <- v23

Profile == INSTANCE ProfileForm WITH
  Fields <- ProfileFields, Calls <- ProfileCalls, MaxInputs <- MaxProfileInputs,
  MaxErrors <- MaxProfileErrors,
  account <- v1, author <- v2, copy <- v3, fills <- v4, header <- v5, profile <- v6,
  settings <- v7, updates <- v8, outrun <- v9, spending <- v10

Members == INSTANCE Membership WITH
  Keywords <- MemberKeywords, PageSize <- MemberPage, MaxInputs <- MaxMemberInputs,
  row <- v1, joins <- v2, announced <- v3, rows <- v4, search <- v5, listing <- v6,
  ruling <- v7, turned <- v8, crowded <- v9, contested <- v10, elsewhere <- v11,
  overtaken <- v12, patchy <- v13, moves <- v14

Invite == INSTANCE InviteLink WITH
  MaxInputs <- MaxInviteInputs, MaxErrors <- MaxInviteErrors,
  codeOf <- v1, leadsTo <- v2, minted <- v3, invites <- v4, tokenOf <- v5, named <- v6,
  teamCall <- v7, opened <- v8, link <- v9, aged <- v10, torn <- v11, rivals <- v12,
  afar <- v13, inviteInputs <- v14, inviteErrors <- v15

Rights == INSTANCE RowMenus WITH
  MaxInputs <- MaxRightsInputs,
  desk <- v1, granted <- v2, context <- v3, header <- v4, branch <- v5, task <- v6,
  outcome <- v7, used <- v8

Bars == INSTANCE Navigation WITH
  MaxInputs <- MaxBarInputs, MaxErrors <- MaxBarErrors,
  side <- v1, menus <- v2, grants <- v3, trees <- v4, clearing <- v5, load <- v6,
  nav <- v7, groupCode <- v8, staled <- v9, faults <- v10, moves <- v11

ASSUME AreaAssumption ==
  /\ Dialog!ConstantsOK /\ Codes!ConstantsOK /\ Notices!ConstantsOK
  /\ List!ConstantsOK /\ Objects!ConstantsOK /\ Sheet!ConstantsOK
  /\ Tree!ConstantsOK /\ Directory!ConstantsOK /\ Messages!ConstantsOK
  /\ Entity!ConstantsOK /\ Signin!ConstantsOK /\ Code!ConstantsOK
  /\ Profile!ConstantsOK /\ Members!ConstantsOK /\ Invite!ConstantsOK
  /\ Bars!ConstantsOK

\* The variables an area of that many has no use for.
past20 == <<v21, v22, v23>>
past15 == <<v16, v17, v18, v19, v20, past20>>
past14 == <<v15, past15>>
past13 == <<v14, past14>>
past12 == <<v13, past13>>
past11 == <<v12, past12>>
past10 == <<v11, past11>>
past9 == <<v10, past10>>
past8 == <<v9, past9>>
past6 == <<v7, v8, past8>>
past2 == <<v3, v4, v5, v6, past6>>

Off20 == v21 = None /\ v22 = None /\ v23 = None
Off15 == v16 = None /\ v17 = None /\ v18 = None /\ v19 = None /\ v20 = None /\ Off20
Off14 == v15 = None /\ Off15
Off13 == v14 = None /\ Off14
Off12 == v13 = None /\ Off13
Off11 == v12 = None /\ Off12
Off10 == v11 = None /\ Off11
Off9 == v10 = None /\ Off10
Off8 == v9 = None /\ Off9
Off6 == v7 = None /\ v8 = None /\ Off8
Off2 == v3 = None /\ v4 = None /\ v5 = None /\ v6 = None /\ Off6

Areas ==
  {"dialog", "codes", "notices", "list", "objects", "sheet", "tree", "tenants", "rule",
   "messages", "entity", "signin", "code", "profile", "members", "invite", "rights", "bars"}

Init ==
  /\ area \in Areas
  /\ area = "dialog" => Dialog!Init /\ Off9
  /\ area = "codes" => Codes!Init /\ Off6
  /\ area = "notices" => Notices!Init /\ Off10
  /\ area = "list" => List!Init /\ Off11
  /\ area = "objects" => Objects!Init /\ Off8
  /\ area = "sheet" => Sheet!Init /\ Off10
  /\ area = "tree" => Tree!Init /\ Off12
  /\ area = "tenants" => Directory!Init /\ Off15
  /\ area = "rule" => Rule!Init /\ Off2
  /\ area = "messages" => Messages!Init /\ Off8
  /\ area = "entity" => Entity!Init /\ Off8
  /\ area = "signin" => Signin!Init /\ Off20
  /\ area = "code" => Code!Init
  /\ area = "profile" => Profile!Init /\ Off10
  /\ area = "members" => Members!Init /\ Off14
  /\ area = "invite" => Invite!Init /\ Off15
  /\ area = "rights" => Rights!Init /\ Off8
  /\ area = "bars" => Bars!Init /\ Off11

Next ==
  /\ UNCHANGED area
  /\ \/ area = "dialog" /\ Dialog!Next /\ UNCHANGED past9
     \/ area = "codes" /\ Codes!Next /\ UNCHANGED past6
     \/ area = "notices" /\ Notices!Next /\ UNCHANGED past10
     \/ area = "list" /\ List!Next /\ UNCHANGED past11
     \/ area = "objects" /\ Objects!Next /\ UNCHANGED past8
     \/ area = "sheet" /\ Sheet!Next /\ UNCHANGED past10
     \/ area = "tree" /\ Tree!Next /\ UNCHANGED past12
     \/ area = "tenants" /\ Directory!Next /\ UNCHANGED past15
     \/ area = "rule" /\ Rule!Next /\ UNCHANGED past2
     \/ area = "messages" /\ Messages!Next /\ UNCHANGED past8
     \/ area = "entity" /\ Entity!Next /\ UNCHANGED past8
     \/ area = "signin" /\ Signin!Next /\ UNCHANGED past20
     \/ area = "code" /\ Code!Next
     \/ area = "profile" /\ Profile!Next /\ UNCHANGED past10
     \/ area = "members" /\ Members!Next /\ UNCHANGED past14
     \/ area = "invite" /\ Invite!Next /\ UNCHANGED past15
     \/ area = "rights" /\ Rights!Next /\ UNCHANGED past8
     \/ area = "bars" /\ Bars!Next /\ UNCHANGED past11

vars == <<area, v1, v2, past2>>

Spec == Init /\ [][Next]_vars

---------------------------------------------------------------------------
\* The properties of each area, stated in its module.

\* Types of every area.
TypeOK ==
  CASE area = "dialog"   -> Dialog!TypeOK
    [] area = "codes"    -> Codes!TypeOK
    [] area = "notices"  -> Notices!TypeOK
    [] area = "list"     -> List!TypeOK
    [] area = "objects"  -> Objects!TypeOK
    [] area = "sheet"    -> Sheet!TypeOK
    [] area = "tree"     -> Tree!TypeOK
    [] area = "tenants"  -> Directory!TypeOK
    [] area = "rule"     -> Rule!TypeOK
    [] area = "messages" -> Messages!TypeOK
    [] area = "entity"   -> Entity!TypeOK
    [] area = "signin"   -> Signin!TypeOK
    [] area = "code"     -> Code!TypeOK
    [] area = "profile"  -> Profile!TypeOK
    [] area = "members"  -> Members!TypeOK
    [] area = "invite"   -> Invite!TypeOK
    [] area = "rights"   -> Rights!TypeOK
    [] area = "bars"     -> Bars!TypeOK

\* AssignDialog: a save sends what the administrator chose for this owner.
SavesAreMeant == area = "dialog" => Dialog!SavesAreMeant
\* RoleCodes: stale codes in Redis need a race or a failure.
StaleNeedsRace == area = "codes" => Codes!StaleNeedsRace
\* Inbox: what is shown with nothing in flight is the inbox.
InboxCurrent == area = "notices" => Notices!InboxCurrent
\* PagedList: the settled rows are those the controls ask for.
ListAnswersControls == area = "list" => List!ListAnswersControls
\* CursorPage: tokens are used with the listing they belong to.
TokensMatchListing == area = "objects" => Objects!TokensMatchListing
\* EditSheet: a save does not undo an earlier edit of the same administrator.
OwnEditsKept == area = "sheet" => Sheet!OwnEditsKept
\* TreePage: the selected row exists.
SelectionAlive == area = "tree" => Tree!SelectionAlive
\* TreePage: a branch is only removed where the dialog said so.
ToldBeforeCascade == [][area = "tree" => Tree!ToldStep]_vars
\* TenantTree: the settled panes show the tenants of the server.
PanesCurrent == area = "tenants" => Directory!PanesCurrent
\* RuleForm: Save stores what the dialog shows, or says why not.
SaveDoesAsShown == area = "rule" => Rule!SaveDoesAsShown
\* NotificationDialogs: what was typed is neither lost nor offered again.
TextsKept == area = "messages" => Messages!TextsKept
\* EntityForm: a save stores what the sheet showed and no more.
SheetSavesItsFields == area = "entity" => Entity!SheetSavesItsFields
\* SigninPage: the tokens are those of the choice confirmed.
SigninFollowsVisitor == area = "signin" => Signin!SigninFollowsVisitor
\* CodeForm: "code sent" means that a good one was sent.
CodeIsAsTold == area = "code" => Code!CodeIsAsTold
\* ProfileForm: what a user saved stays saved and is shown.
OwnProfileKept == area = "profile" => Profile!OwnProfileKept
\* Membership: a request meets one decision of somebody who may decide.
DecisionsHold == area = "members" => Members!DecisionsHold
\* Membership: a rejection here disables no member.
RejectNeverDisables == [][area = "members" => Members!RejectStep]_vars
\* InviteLink: the one link of a workspace works and leads there.
InvitationHolds == area = "invite" => Invite!InvitationHolds
\* RowMenus: what the menus offer can be done.
ActionsAsOffered == area = "rights" => Rights!ActionsAsOffered
\* Navigation: the bar links what the roles were granted.
BarShowsGrants == area = "bars" => Bars!BarShowsGrants
=============================================================================

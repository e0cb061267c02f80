\* The pages of the console, one area per behaviour.
CONSTANTS
  None = None
  Unborn = Unborn
  \* One administrator's dialog over two owners, another one, one failure.
  Owners = {"o1", "o2"}
  Assignables <- Nodes
  MaxDialogInputs = 3
  MaxDialogFails = 1
  \* Two requests and two assignments, one failure.
  CodesRequests = {"q1", "q2"}
  MaxAssigns = 2
  MaxCodesErrors = 1
  \* The badge and two lists, one change or trouble.
  Count = "count"
  Header = {"count"}
  NoticeKeys = {"k1", "k2"}
  FirstKey = "k1"
  NoticeCalls = {"c1"}
  MaxTurns = 1
  \* Up to two pages of two rows, one row action at a time.
  ListRows = {1, 2, 3}
  ListCalls = {"c1"}
  ListPage = 2
  MaxListInputs = 3
  MaxListErrors = 1
  \* Three pages of objects.
  Providers = {"a", "b"}
  Prefixes = {"p", "q"}
  Sizes = {10, 20}
  Default <- MCDefault
  MaxPages = 3
  MaxObjectInputs = 5
  MaxObjectErrors = 1
  \* One row of two fields in two lists.
  SheetRows = {"r1"}
  SheetFields = {"f1", "f2"}
  SheetKeys = {"k1", "k2"}
  MaxSheetInputs = 4
  MaxSheetErrors = 1
  \* Three rows, one removal at a time.
  TreeNodes <- Nodes
  TreeCalls = {"c1"}
  TreeFilters = {{}, {3}}
  MaxTreeInputs = 3
  \* Three tenants in pages of one row, from two of the forests over them.
  Tenants <- Nodes
  TenantKeywords = {{1, 2, 3}}
  TenantPage = 1
  MaxTenantInputs = 3
  \* Two texts, four inputs, one failed call.
  MessageTexts = {"t1", "t2"}
  MaxMessageInputs = 4
  MaxMessageErrors = 1
  \* Two inputs in any sheet.
  MaxEntityInputs = 2
  \* Two accounts, one of them with two workspaces.
  Memberships = {1, 2, 3}
  OwnerOf <- MCOwnerOf
  MaxSigninInputs = 7
  \* Two contacts, one of them in two spellings.
  Contacts = {"a", "b"}
  Odd = " a"
  OddOf = "a"
  Cooldown = 2
  MaxCodeInputs = 5
  \* The picture and another field, two saves at once.
  ProfileFields = {"nickname", "avatar_url"}
  Avatar = "avatar_url"
  Values = {"v", "w"}
  ProfileCalls = {s1, s2}
  MaxProfileInputs = 4
  MaxProfileErrors = 1
  \* Two people, one of them on two invitation pages.
  People = {1, 2}
  JoinPages = {j1, j2, "j3"}
  VisitorOf <- MCVisitorOf
  Founder = 0
  MemberKeywords = {{0, 1, 2}}
  MemberPage = 2
  MaxMemberInputs = 4
  \* Two workspaces, three codes, two days.
  Workspaces = {w1, w2}
  MaxCodes = 3
  Life = 2
  MaxInviteInputs = 4
  MaxInviteErrors = 1
  \* Four inputs on any desk.
  MaxRightsInputs = 4
  \* Four menus, two roles, three changes or reads.
  MaxBarInputs = 3
  MaxBarErrors = 1
SPECIFICATION MCSpec
INVARIANTS TypeOK SavesAreMeant StaleNeedsRace InboxCurrent ListAnswersControls
INVARIANTS TokensMatchListing OwnEditsKept SelectionAlive PanesCurrent SaveDoesAsShown TextsKept
INVARIANTS SheetSavesItsFields SigninFollowsVisitor CodeIsAsTold OwnProfileKept DecisionsHold
INVARIANTS InvitationHolds ActionsAsOffered BarShowsGrants
PROPERTIES ToldBeforeCascade RejectNeverDisables
CHECK_DEADLOCK FALSE

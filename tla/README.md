# StackLoom in TLA+

StackLoom is a multi-tenant administration scaffold: a Rust backend (Axum and
Tokio, SQLx on Postgres, Redis, Apalis job queues) and a Next.js frontend over
TanStack Query. Most of its statements are simple. What is hard to get right
and hard to test lies between them: a handler makes several database, Redis or
queue calls without a transaction while other handlers run, and a page shows,
edits and saves answers that are already old. That is what this project models.
`PROJECT.json` names for every definition the code it translates (`map`), for
every property a change of the code that would break it (`mutants`), and for
every hazard the properties that are about it (`hazards`).

## The system

| Part | State | Operations | What is hard | Modelled by |
|---|---|---|---|---|
| Notification rules, time driven (`infra-base/src/notification`, `app/src/lib.rs`) | `notification_rules`, `notification_rule_fires`, `notification_dispatches` rows, fire jobs in Apalis (Redis) | `create_rule`, `update_rule`, `fire_rule_job`, `sync_time_rule_jobs`, the worker | duplicate jobs, retries, stale writes over saves, lost jobs, crashes, daylight saving gaps | `NotificationRules`, `OccurrenceDelivery` |
| Notification inbox (same files; inbox hooks and bell of the frontend) | `user_notifications`, a broadcast channel, three cached queries | `mark_read`, `mark_all_read`, `archive`, dispatches, SSE | counts broadcast out of order, lost signals | `Inbox`, `PagedList` |
| Notification dialogs (`components/base/notifications`) | forms in components that are never remounted | send, create and update templates and rules | a text of one row saved over another, hidden fields | `NotificationDialogs`, `RuleForm` |
| OAuth2 server (`infra-auth/src/oauth`) | codes in Redis, `oauth_tokens`, `oauth_clients` | `authorize`, `exchange_code`, `refresh_token`, `revoke_token`, client administration | read, delete, verify and insert are separate calls | `OAuthTokens` |
| Trees of tenants, roles, menus, permissions (`infra-base/src/{tenant,role,menu,perm}`) | `parent_id` columns without a foreign key | `create`, `update`, `delete`, `remove_cascade` | checks on the tree and the change are separate statements | `Hierarchy` |
| Role assignments and code caches (`infra-base/src/role`, assignment dialogs) | `role_menus`, `role_perms`, codes in Redis without expiry, drafts in the browser | cached loads, `assign_menus`, `assign_perms`, roles of a user | a fill racing an assignment; drafts of old or missing data | `RoleCodes`, `AssignDialog` |
| Menu trees, navigation and rights (`infra-base/src/menu`, `base-navigation.ts`, `nav-main.tsx`, `use-permission-access.ts`) | one cached tree per role, the header context, two merged bars | `user_menu_tree`, invalidation, row menus | trees of different ages joined, rights that change under an action | `Navigation`, `RowMenus` |
| Sessions in the browser (`lib/http/axios.ts`) | one stored pair of tokens for all tabs, a refresh promise and a queue in each | request, refresh, replay, SSE, sign-out, tenant switch, reload | requests failing together, a refresh that fails or waits for itself, several tabs | `SessionClient` |
| Sign-in, sign-up, password recovery (`infra-auth/src/service.rs`, `components/auth`) | captcha proofs and one-time codes in Redis, forms, dialogs | captcha, organizations, sign in, send code, reset, sign up | late answers over an edited form, two cooldowns, spent codes | `SigninPage`, `CodeForm` |
| Memberships and invitations (`web/members`, `web/join`, `user_tenant`) | `user_tenants` rows, two keys of Redis per invitation, lists and a link in the browser | join, approve, reject, enable, disable, `invite_code` | decisions from old rows, a link of another workspace | `Membership`, `InviteLink` |
| Profile and header context (`shared_context`, `shared/profile`) | user row, a copy in Redis, two queries of the browser | `profile_update`, context loads | a form filled from a copy older than one's own save | `ProfileForm` |
| Administration pages (`components/base/*`) | query caches, filters, pages, selections, sheets | list, search, page, edit, add, remove, remove a branch | late answers, stale rows written back, a question about one row answered with a branch | `PagedList`, `EditSheet`, `EntityForm`, `TreePage`, `TenantTree` |
| Object storage page | a stack of continuation tokens | list, next, previous | a token of one listing used with another | `CursorPage` |
| Logs, retention, monitor, statistics | append-only rows | inserts, the daily clean-up loop | - | only the lists (`PagedList`) |
| Provider login, HTTP layer, public site | none of their own | | | not modelled |

The parts meet in five ways: pages call HTTP handlers through one interceptor
(`axios.ts`); handlers call services, which share Postgres and Redis; the
notification service hands jobs to Apalis and is called back by its worker, and
signals open event streams over an in-process broadcast channel; pages share
the query cache of the browser; tabs share the stored pair of tokens.

What each part must keep is stated by the properties below; the list of
hazards in `PROJECT.json` names, line by line, where it could be lost.

## The modules

Every module declares its constants with their assumptions, its state, one
action per operation, handler step or answer, and its properties. Variables
called history in their comment are read by properties only, never by a guard.
Handlers of the backend are cut at every await; what the browser does is cut at
every answer and every event. Guards on a count of inputs and
of failures (`MaxInputs`, `MaxErrors`, ...) bound the behaviours.

### The backend

**NotificationRules.** One rule fires at instants its definition determines. A
definition is what an administrator saves: enabled or not, a trigger mode
(`recurring` stands for `fixed_schedule` and `cron_expression`), the instants
it matches (`ticks`), the days it matches whose local time does not exist
(`gaps`), and the fields of `delay_once`. The calendar is abstracted away; kept
is the search (first instant after a reference, bounded by `end_at`) and its
failure on a missing local time.

| State | Code |
|---|---|
| `rule[r].def`, `.next`, `.firedFor`, `.failing` | definition columns, `next_run_at`, `last_fired_for`, `consecutive_failure_count > 0` |
| `jobs` | how many copies of a fire job are waiting in Redis |
| `worker[w]` | a run of `fire_rule_job`: where it is, its job, the rule as read, the next run it computed |
| `admin[a]` | a save that has written the row and not yet enqueued |
| `dispatched`, `fires` | `notification_dispatches` per idempotency key, `notification_rule_fires.status` |
| `template`, `audience` | whether the template is enabled and the selector finds a recipient |
| `raced`, `stranded` (history) | a save landed while a handler held the row; a failed call ended a handler or a save |

`fire_rule_job` is one action per await: `FindRule`, `RecordProcessing`,
`LoadTemplate`, `LookupDispatch`, `ResolveRecipients`, `CreateDispatch`, then
`AdvanceSchedule`, `RecordSucceeded`, `ScheduleNext` or `KeepSchedule`,
`RecordFailed`, `RetryJob`. `PublishError` is an error inside
`publish_internal` (a commit whose answer is lost may have happened);
`AbortFire` is any other failed call, which the worker logs and acknowledges.
`Save` is the row half of a save, `EnqueueSaved` the queue half. `Crash` and
`Startup` are the process; Apalis may or may not hand out again what was in
flight.

**OccurrenceDelivery** is the abstract promise: occurrences are armed and
abandoned, one is sent only after it was claimed while armed, not before its
instant, and at most once. `NotificationRules` implements it
(`ImplementsDelivery`) with `armed` = being the rule's next run, `claimed` =
having been found so by a handler that has not written yet, `sent` =
dispatches.

**OAuthTokens.** A grant is named by its authorization code: the code in Redis,
the token pair it is exchanged for, the pair that one is refreshed into, and so
on. `call[p]` is a request; each Redis or database call is an action.
Verification of PKCE, redirect URI and secret is a choice between going on and
ending. Access token expiry has no effect on these operations.

**Hierarchy.** The four trees share one code shape (only permissions can move to
the root, `Root`). `parent` is the `parent_id` column, `used` the ids generated
so far, `call[p]` a request: the statement it is at, the row it loaded, the
batch it will remove. `Descendants` is what the recursive query returns,
written as the least set closed under "child of"; `Returns` says when a `UNION
ALL` query terminates. `WriteRow` writes the whole loaded row back.

**RoleCodes.** The rows of one role, their copy in Redis, and requests that load
through the copy or replace the rows and refresh it. A set of codes is named by
the number of the assignment that wrote it.

**Navigation.** The menus, the grants of two roles, one cached tree per role,
the request that joins the trees (`cache`, `rows`, `grants`, `fill`, `answer`),
changes with the deletions they owe (`clearing`), and the two bars drawn from
the answer. The workspace's bar goes by the kind and the visibility of a menu.
The console's goes by place alone: it links two levels below the root, hidden
menus and buttons too, and nothing further down. Its answer is merged with a
built-in list first, and the entries of that list are drawn only if their group
lies directly below the root.

**Membership, InviteLink, ProfileForm, CodeForm, SigninPage and Inbox** model
both sides of their protocol: the rows and the keys of Redis, the handlers
between two awaits, and the page with its queries and its mutation. The members
page has one query for each search (`listing`), whose reading of the server and
whose answer are two steps; a code of `InviteLink` can be found, absent, or not
readable, which the handler takes for absent.

### The browser

**SessionClient.** `store` is the pair in localStorage, `server` the pair the
server accepts and whether its access token is still fresh, `tab` the page with
`isRefreshing` and `failedQueue`, `refresh` the call in flight, `request` and
`stream` what the pages sent. One action per branch of the
interceptor and of the server: `Send`, `Execute`, `Refuse`, `Succeed`, `Fail`,
`Unauthorized`, `Enqueue`, `StartRefresh`, `NothingToRefresh`, `Rotate`,
`RefuseRefresh`, `RefreshSelfWait`, `RefreshSucceeds`, `RefreshFails`, then the
streams (`OpenStream`, `CloseStream`, `StreamBreaks`), `Reload`, `Unload`,
`SignIn`, and the clock (`AccessExpires`, `SessionExpires`).

**PagedList, EditSheet, TreePage, TenantTree, CursorPage** are one module per
kind of page; what the pages of a kind do differently is a record (`view`,
`layout`, `page`) with one value per page, so that every page is an initial
state. **EntityForm** is the seven sheets: what each form accepts and sends and
what the server makes of it, with fields as tokens (`"long"`, `"wide"`,
`"odd"`, `"taken"`) for the lengths, encodings and formats the two sides check
by rules of their own. **RuleForm** is the same for the rule dialog,
**NotificationDialogs** the life of the three dialogs, **AssignDialog** the
tree of check boxes and its draft, **RowMenus** what the pages offer by the
permission codes of the header context. A text of `RuleForm` is its characters
and its bytes, because the form counts the ones and the domain the others; every
request refuses a recipient selector `actor`, which the dialog offers for event
rules; and the schedule of a disabled rule is not parsed. `SaveDoesAsShown`
names these as the causes for which a save that the form lets pass is refused.

TanStack Query and the dialog components are external and modelled from how
the code uses them: a key that changes is asked unless it has data, an
invalidation asks again what is on screen and joins a first load under way, a
failed answer keeps the old data, success handlers see the closure of the
latest render, and a dialog reports only what its user does. The second of
these matters most: a first load that read the server before one's own change
is not started over by the invalidation that follows, so its old rows stay with
nothing under way. `PagedList`, `TreePage`, `TenantTree`, `Membership`,
`EditSheet`, `Inbox` and `AssignDialog` all have that behaviour.

### MC modules and proofs

`MCNotificationRules`, `MCOAuthTokens`, `MCHierarchy` and `MCSessionClient`
define instances, and symmetry sets where they are used. `Console` puts the
other modules side by side: pages share nothing but the server, so a behaviour
follows one of them, the `area`, on one set of variables `v1` to `v23`, and
each property of `Console` is that of its module under `area = ...`.
`MCConsole` extends it with the instance and the initial states TLC starts
from.

Eight modules hold the proofs. `NotificationRulesProofs`, `OAuthTokensProofs`,
`HierarchyProofs` and `SessionClientProofs` extend the modules they are about.
The pages are proved in three groups that instantiate their modules, by what
their properties are about: `FormProofs` (EditSheet, EntityForm, RuleForm,
NotificationDialogs, ProfileForm, SigninPage, CodeForm: what is typed and sent),
`ViewProofs` (PagedList, CursorPage, TenantTree, RoleCodes, Inbox, Navigation,
RowMenus: what is read and shown) and `AdminProofs` (Membership, InviteLink,
TreePage, AssignDialog: what administrators decide). `ConsoleProofs` carries
their theorems over to `Console`.

## What is checked

| Run | Checks | Bounds, and why they suffice |
|---|---|---|
| `rules` | at most one dispatch; no armed rule is forgotten; fire records match dispatches; only current occurrences are dispatched | one rule, two workers, an administrator saving twice, one crash, one failed call, instants 0 to 2; a dense, a sparse, a one-shot and a disabled definition: rules do not interact, two workers give duplicates and stale writers, two saves change a definition under a handler |
| `rules_faults` | nothing is skipped; refinement of `OccurrenceDelivery` | two administrators, one worker, instants 0 to 3; a rule with a daylight saving gap, a delay from a fixed start, an event rule |
| `rules_live` | `ArmedEventuallyFires`, `ProcessingSettles` | two workers, one crash, no failed call |
| `rules_catchup` | violated: `CatchupFiresOnce` | one worker, four instants, one crash |
| `oauth` | one line per grant; a successor means a revoked parent; nothing is minted from a revoked token | one client and code, three tokens, two calls, one failure: a race needs two calls, a chain three tokens |
| `oauth_single_use` | violated: `CodeSingleUse` | two exchanges of one code |
| `trees` | the rows stay a forest; every parent exists; a lone update that names no parent leaves it alone | every forest of three rows, two overlapping requests: a cycle through a grandchild needs three rows, every hazard listed is an overlap of two |
| `trees_cycle` | violated: `ParentNeverDescendant` | three rows |
| `notice_dialogs` | violated: `DialogShowsItem` | three inputs |
| `session` | types; waiters have a refresh; no request takes effect twice; one live stream; every request settles | one tab, a call, a sign-out or switch, two streams, one expiry, one reload, and a refresh that may itself be refused as expired |
| `session_tabs` | violated: `RefreshKeepsSession` | two tabs, one call each, one expiry |
| `console` | everything below "The pages" | see there; about 3.6 million states in all |

Deadlock checking is off in every run: inputs, crashes, errors, tokens and row
ids are bounded, so a model comes to rest where the system would not. Symmetry
is used over workers, tokens, calls and rows only, none of which the
specifications tell apart, and neither in a liveness run nor in `console`.

The types of the rules, of OAuth and of the trees are proved and not checked
again; those of the session and of the console are both.

### The pages (`console`)

| Property | What it says | Bounds |
|---|---|---|
| `SavesAreMeant` (AssignDialog) | a parent is selected exactly with its children, untouched leaves keep their state, a settled assignment is the server's, no draft is made of missing data | three nodes, in a flat list for the roles of a user, a chain for the others; two owners, three inputs, one failure: a walk up needs a grandparent, a draft of another owner two owners |
| `StaleNeedsRace` (RoleCodes) | codes older than the rows need a fill that raced or a failed refresh | two requests, two assignments, one failure |
| `InboxCurrent` (Inbox) | with nothing in flight badge, bell and list show the inbox, but for the named losses | one change or loss, one call and its failure, two lists: what a page misses it misses by one signal |
| `ListAnswersControls` (PagedList) | settled rows answer filter and page; an empty page of a list that has rows needs a cause | three rows on pages of two, all of them or only the last in the filter, one action at a time, three inputs, one failure: the second page has the one row whose removal must step back, and two pages of one row each would hide an off-by-one of the last page |
| `TokensMatchListing` (CursorPage) | a token is only used with the listing it continues | three pages, two providers, prefixes and sizes, five inputs, one failure |
| `OwnEditsKept` (EditSheet) | a save never undoes the same administrator's earlier edit | one row of two fields in two lists, four inputs, one failure |
| `SelectionAlive`, `ToldBeforeCascade` (TreePage) | the selected row exists; a branch goes only if the dialog said so | four trees of up to three rows, one of them unborn, three inputs |
| `PanesCurrent` (TenantTree) | after one's own changes lists, detail and pages are the server's, but for an answer that was read before the change and joined | a root with two children, one of them unborn or not, on pages of one, three inputs: a first load that a create is overtaken by needs an expansion and a submission |
| `SaveDoesAsShown` (RuleForm) | a save stores what the dialog shows, or an error is on screen, or the server refuses it for one of the named causes | every value of every field: texts within, at and over each bound in characters and in bytes |
| `TextsKept` (NotificationDialogs) | what was typed is not lost during its call, nor offered again when cancelled | two texts, four inputs, one failure |
| `SheetSavesItsFields` (EntityForm) | a save stores what the sheet showed, changes nothing untouched, is refused only for a cause the sheet cannot know | every sheet, two inputs |
| `SigninFollowsVisitor` (SigninPage) | organizations are those of the account on screen, tokens those of the choice, one captcha serves both calls | two accounts, three memberships, seven inputs: captcha, query and sign-in with one edit between each |
| `CodeIsAsTold` (CodeForm) | "code sent" is true: one was sent and is good | two contacts, one in two spellings, a cooldown of two ticks, five inputs |
| `OwnProfileKept` (ProfileForm) | what a user saved stays saved and is shown | two fields, two values, two saves at once, four inputs, one failure |
| `DecisionsHold`, `RejectNeverDisables` (Membership) | one decision per request, by somebody who may; a rejection disables no member | two people, one on two pages, pages of two rows, one search, four inputs: a search, a decision during its first load, and a decision on what it brought |
| `InvitationHolds` (InviteLink) | the link works, leads to the workspace on screen, is the only one unless two calls minted at once or a code could not be read | two workspaces, three codes, two days, four inputs, one failure |
| `ActionsAsOffered` (RowMenus) | what the menus offer can be done, and covers no more than was seen | every desk, four inputs |
| `BarShowsGrants` (Navigation) | Redis, the joined answer, the browser and the bars show what the roles were granted, each bar by its own rule | four menus, a built-in group below the root and one further down, a row of three pages in the workspace, two roles, three changes or reads, one failure |

A property that is a conjunction keeps its parts as definitions of their own
(`DraftReconciled`, `LinkWorks`, ...), each with its comment.

### How the properties are stated

Most are conditional, because the code promises no more, and the condition is a
history variable that says exactly which overlap or failure breaks the promise.
`NoSkippedOccurrence` and `DispatchesOnlyCurrent` hold unless a save landed
while a handler had already read the row (`raced`). `ScheduleCovered` holds
unless a failed call ended a handler or a save (`stranded`): the worker
acknowledges the job all the same, and only the next start-up enqueues the rule
again. `Acyclic` holds unless two updates overlapped (`moves`), `NoOrphans`
unless a removal overlapped a create or an update (`mixed`). The pages are
alike: `blind`, `early`, `joined`, `strayed`, `missed`, `shrunk`, `overtaken`,
`crossed`, `spoilt`, `outrun`, `torn`, `rivals`, `afar`, `staled` each name one way in which what is
on screen is allowed to be wrong, and the property says there is no other.

### Fairness

`rules_live` assumes that the container is restarted when it stops
(`restart: unless-stopped` in `docker/monolith/compose.yml`), that Tokio runs
every handler and request, that time passes, and that Apalis hands out each due
job in its turn: strong fairness per job, since workers are occupied and free
again. Progress of template and audience is assumed by the property itself
(`<>[](template /\ audience)`).

`session` assumes that every call is answered, at the latest by the time-out of
180 s in `axios.ts`, that the event loop runs the handler of every answer, and
that a navigation that was started unloads the page. It assumes nothing of
users, tokens or streams. A refresh that is itself answered `TOKEN_EXPIRED`
waits in the queue that only it empties; `RequestsSettle` names that exception.

No other run needs fairness: the properties of the pages are about what is on
screen when everything is answered.

## Findings

- `CatchupFiresOnce`: every rule carries the policy `fire_once`, but after an
  outage one fire is made for each missed occurrence; the policy is never read.
- `CodeSingleUse`: the code is read and deleted in two Redis calls, so two
  concurrent exchanges both succeed.
- `ParentNeverDescendant`: two updates that pass their checks before either
  writes make two rows each other's ancestor; after that the recursive queries
  of the subtree do not return.
- `DialogShowsItem`: editing a template or a rule opens the dialog on the
  default form or on what was typed last, since the form is only filled by an
  event that opening from the page does not send.
- `RefreshKeepsSession`: the refresh promise belongs to a tab and the pair to
  all of them; the tab that refreshes second removes the pair the first has
  just stored and signs the user out.

Three more are written into passing properties as the exceptions they make:
every rule for the `actor` of an event, which the dialog offers, is refused
(`RefusalHasCause`); a code that cannot be read is minted a second time
(`rivals` in `InviteLink`); and a list that was being read for the first time
while the administrator decided, created or removed stays as it was before
(`overtaken` in `Membership`, `missed` in `TenantTree`, `shrunk` in `PagedList`).

## What is proved

All theorems hold for every value of the constants under the assumptions named
in the modules (`ASSUME ...Assumption`, or `ConstantsOK`); TLAPS checks them to
the last step. The bounds on inputs, failures and saves are among the constants,
so behaviours of any length are covered, and the initial states are all those of
the modules, not the selection of `MCConsole`. Every invariant and every step
property that a passing run checks is stated by a theorem.

`NotificationRulesProofs` (any number of rules, workers and administrators, any
set of definitions, any horizon):

- `TypeCorrect`: `Spec => []TypeOK`.
- `NeverForgotten`: `Spec => []ScheduleCovered`. With the types the property is
  inductive: each handler step that takes a job away passes the duty on, to
  itself (`Holds`), to the queue or to a save. The delicate case is a stale
  writer, which re-arms the occurrence it also goes on to schedule.
- `DispatchedAtMostOnce`: `Spec => []AtMostOneDispatch`, from the unique index.
- `RulesImplementDelivery`: `Spec => ImplementsDelivery`. Initial states map to
  initial states, and each step is a claim, a send, an advance of the clock or
  a rearrangement. It needs that a running handler is never ahead of the clock.
- `RecordsAgree`: `Spec => []FiresMatchDispatches`. `FireInv` adds what each
  handler owes the records at each of its statements.
- `NothingSkipped`: `Spec => []NoSkippedOccurrence`, and
  `OnlyCurrentDispatched`: `Spec => DispatchesOnlyCurrent`. `ScheduleInv` says
  of the row (`RowKept`) and of every handler (`HandKept`) that the occurrence
  they hold is one the definition still owes and that those before it were
  dispatched. Without a race the definition a handler read is that of the row,
  so the next run it computed leaves nothing out; with one nothing is claimed.

`OAuthTokensProofs` (any number of clients, codes, tokens, calls and errors):

- `TypeCorrect`: `Spec => []TypeOK`.
- `GrantsHaveOneLine`: `Spec => []OneLinePerGrant`. The invariant `GrantInv` adds
  `OneHolder` (without a race a code and each token has one holder, and the code
  is gone once that holder deleted it), `Links` (a refresh mints for the grant of
  the token it read, and only after revoking it) and `Grants` (what continues a
  grant belongs to an issued code). Most steps gain nothing (`NothingGained`)
  and are covered by one lemma, `LessIsSafe`; the five that move a stake,
  `StoreCode`, `GetCode`, `FindOld` and the two mints, have a lemma each.
- `RefreshRevokesFirst`: `Spec => []SuccessorMeansRevoked`, and
  `RevokedStaysDead`: `Spec => RevokedHasNoLateSuccessor`, both without any
  condition on races, from the same invariant.

`HierarchyProofs` (any set of rows, finite or not, and any number of
overlapping requests; only `NamesAssumption` is assumed):

- `TypeCorrect`: `Spec => []TypeOK`, from the shape of a request at each
  statement.
- `ForestKept`: `Spec => []Acyclic`. Three lemmas on tables of parents carry it:
  a forest stays one when rows go (`ForestShrinks`), when a row without children
  comes (`ForestGrows`) and when a row moves to a place that is not below it
  (`ForestMoves`). They need no induction, because a forest is a table in which
  every set of rows has a row whose parent lies outside. The invariant adds
  `Ids`, `OneUpdate`, and `Checked`: what an update found about its new parent
  still holds when it writes, although rows come and go in between.
- `OrphansNeedOverlap`: `Spec => []NoOrphans`. The invariant adds `Held` (the
  rows a create or an update is about to name exist) and `Bare` (nothing hangs
  below the rows a delete has checked), both while `Apart` holds.
- `LoneEditsSafe`: `Spec => LoneEditKeepsParent`, from the same invariant.

`SessionClientProofs` (any number of tabs, requests, streams, expiries and
loads, with or without the refresh that waits for itself): `NobodyWaitsInVain`,
`ReplaysExecuteOnce` and `StreamsStayClosed` from one invariant, `ClientInv`:
`RequestPlaced` and `StreamPlaced` (what is on its way belongs to a tab),
`Progress` (what the server has done for a request by the time it is where it
is), `TabWaits` (the queue of a tab holds its queued requests, and whoever waits
has a refresh under way) and `OneLive`. `ClientTypeCorrect`:
`Spec => []TypeOK` needs `Issued` besides: a pair held or awaited anywhere has a
number the server has given out.

### The console

`ConsoleProofs` has one theorem for each property of `Console`, of the form
`Spec => []P` (`Spec => P` for the two step properties), and
`ConsoleTypeCorrect`: `Spec => []TypeOK` for all areas together. No step changes
`area`, so a behaviour of the console is one of a module: for each area `Runs`
shows it by the initial condition and the next-state relation, and the lemmas
`Same...` show that the module, seen from the console, is the module the proof
was made for. The proofs themselves are those of the three groups; each rests on
one inductive invariant.

| Property | Invariant | What it adds to the property |
|---|---|---|
| `OwnEditsKept` | `SheetInv` | everything read, shown, edited or sent since the last failure has what this administrator saved (`ReadFresh`, `ScreenFresh`, `SheetFresh`, `SaveFresh`); a save that settled has every list it left behind read again (`Looked`) |
| `SheetSavesItsFields` | `EntityInv` | the parameter a sheet sends carries each field shown, or leaves it out where it was not touched (`ParamMeant`), for each of the seven sheets and what the server does with it |
| `SaveDoesAsShown` | `RuleInv` | the verdict is the one of the values, over any text and any number: invalid exactly by the form's own checks, refused or saved by those of the request, the command and the schedule |
| `TextsKept` | `MessagesInv` | one dialog is open at a time, a call carries a text that was typed, and a message offered again in a shut dialog was sent |
| `OwnProfileKept` | `OwnInv` | unless outrun, every copy of the account (Redis, fills on their way, two queries, the form) agrees with the fields the user saved, each from the step on at which it must |
| `SigninFollowsVisitor` | `SigninInv` | a captcha called upon was good for that account (`CaptchaInv`), the dialog has the organizations of the account it was filled for (`OfferInv`), and unless queries crossed the form waits for the one there is |
| `CodeIsAsTold` | `CodeInv` | the page counts down at least as long as the server (`CountdownInv`); whoever was told about a code, or is cooling, has one alive (`MailInv`) |
| `ListAnswersControls` | `ListInv` | an answer is current up to one removal that the page has not asked about yet; an action that knows it takes the last row of the page is the only one ended (`SeenInv`, `PlaceInv`); the page's rows are those of a rank between two multiples of the page size, so the counting needs no order of the rows beyond `<` |
| `TokensMatchListing` | `StackInv` | the stack leads page by page to the page shown; the token on screen continues the listing on screen |
| `PanesCurrent` | `DirectoryInv` | unless missed, a list known and not asked for is current, and so is what a query under way has read (`ListsInv`), page numbers stay in range but for those kept in `adrift` (`RangeInv`), the selected tenant lives or is about to be replaced by its parent (`DetailInv`) |
| `StaleNeedsRace` | `CacheInv` | a request about to write has the rows' codes, or raced |
| `InboxCurrent` | `InboxInv` | a change is still to be announced, or every query has or will read the inbox as it is |
| `BarShowsGrants` | `BarInv` | what a request has read of a role is current unless the role was staled meanwhile (`FillInv`); a request that no change came upon has joined the roles it went through (`BarFreshInv`). What either bar links (`ConsoleLinked`, `PagesLinked`) follows from lemmas on chains of menus |
| `ActionsAsOffered` | `RightsInv` | an open action was offered by codes that are held until they are read again; the question about a removal counts the children the page saw |
| `DecisionsHold`, `RejectNeverDisables` | `MembersInv` | for each search, what was read and not overtaken since is the server's, and a rejection pressed on it meets the request as it was (`ListInv`); nothing is announced of an open request (`AnnouncedInv`) |
| `InvitationHolds` | `LinkInv` | wherever a code is, it is there for one and the same workspace (`Owned`); a code leads back for as many days as it is kept (`Stored`); without rivals one call at a time mints, and only where no code lives (`Alone`) |
| `SelectionAlive`, `ToldBeforeCascade` | `TreeInv` | one removal at a time has ended and not settled, and the row above the removed one, which takes its place, exists (`SelectedInv`); a branch on its way out was asked about (`RemovalInv`). Rows are a forest by the same characterisation as in `HierarchyProofs` |
| `SavesAreMeant` | `DialogInv` | drafts are whole (a parent is in exactly with its children) and keep untouched leaves, through any number of clicks; what is cached under an owner is the owner's (`Filed`) and current unless left behind (`Fresh`) |

The proofs corrected what the bounded runs had let pass. A removal in a list
makes up for itself only if its row was on the page that is stepped back
(`seen` in `PagedList`), which pages of one row cannot show. A page of tenants
chosen by a total kept from before a change can be out of range like one chosen
during the change (`Drifts` in `TenantTree`). A profile that is being fetched is
not collected (`ProfileForm`). And `ConstantsOK` of several modules had to name
what the code takes for granted: nothing (`None`) is no row, form or set of ids,
and there are finitely many rows.

### What stays with TLC

Liveness (`ArmedEventuallyFires`, `ProcessingSettles`, `RequestsSettle`) and
whatever would need `ENABLED` are out of the prover's reach. The five properties
that are violated have no theorem, of course. What a recursive definition
computes for every input would need an induction no installed prover can do;
none of the theorems needs one, because the operators on trees of any size
(`Descendants`, `Branch`, `Ancestry`) are written as least sets closed under
"child of" or "parent of", which is also what the queries and the loops of the
code compute, and those of `Navigation` are about four menus.

## Hazards without a property

Found while reading, real, and left to this list because one statement decides
them or the part is not modelled:

- A cron expression with seconds: one second is added and the search is
  exclusive too (`notification/service.rs:1022`).
- `provider_login_or_signup` commits the account before the provider binding
  (`infra-auth/src/service.rs:1149`); a password reset deletes its code before
  the password is written (`:992`); a sign-up spends its code before the tenant
  name is checked (`:618`).
- A client disabled after `authorize` still exchanges and refreshes
  (`oauth/service.rs:248`).
- `hard_delete_batch` runs three deletes without a transaction
  (`role/repo.rs:503`); `is_leaf` is counted and written back with the whole row
  (`dict/service.rs:49`).
- The key of the cached menu tree has no status (`menu/service.rs:73`), and the
  order of a user's menus is that of the roles (`:417`).
- The stream is retried without a pause (`axios.ts:685`); a refresh answered
  after sign-out stores its pair all the same (`:81`).
- The console's bar draws hidden menus and buttons (`base-header.tsx:104`);
  `base-navigation.ts:325` promises that the `biz` group is always surfaced,
  but `:299` has no group to add for a menu that lies below the root of the
  console, so it is only completed where the answer contains it
  (`Navigation.BuiltIn`); a failed call for the menus empties
  the sidebar of a workspace.
- The text of an invitation says 30 minutes and renewal, the entries live seven
  days and are never renewed (`web/members/handlers.rs:161`).
- A rejected person can never ask again (`user_tenant/repo.rs:309`), a disabled
  member is told to be a member already (`user_tenant/service.rs:240`).
- A `null` never clears a field of the profile, and an administrator's update of
  a user leaves the header copy in Redis (`base/users/handlers.rs:145`).

## Not modelled

- Provider login: one request whose only hazard is named above; the provider's
  protocol is not in the repository. Captcha, SMS, mail and the token store are
  the external `neocrates` crate, modelled from how they are used.
- Choice of recipients, rendering of templates, manual publication beyond its
  effect on the inbox, and rule deletion (there is none).
- OAuth scopes and `rotate_client_secret`, abstracted to a verification that
  passes or not.
- Columns that no property is about; the account bundle, tenant applications
  and invitation codes at sign-up (one statement or one transaction each).
- `PagedList` leaves out the change of the page size and that marking all read
  returns to the first page. The server reads a page and its total in two
  statements; the model answers both at once.
- `TenantTree` has one call at a time; breadcrumb and children are part of the
  detail.
- `Membership`: the founder's own row is decided on by nobody; the members page
  has no pager, so only the first page exists.
- `RuleForm`: the time zone and the template picked are valid, as the pickers
  offer no others.
- `SigninPage`: a second slide of the captcha, which supersedes the first, uses
  the same form; in `captcha-slider.tsx:68` the first mutation keeps the closure
  it had by then, a difference `crossed` covers. No account is disabled and no
  password changed between the query of the organizations and the sign-in.
- `InviteLink`: days pass only between the writes of a handler, and switching the
  workspace is one call.
- `CodeForm`: an execution and its answer are one step, the page is left only
  with nothing in flight, and no account is created elsewhere for a contact whose
  cooldown was set while it was unknown.
- `RowMenus`: one action at a time; a form that is closed during its save is
  AssignDialog's and EditSheet's subject; the server's own permission checks
  are left out.
- `Navigation`: one request at a time, a menu moves only below a smaller one
  (cycles are `Hierarchy`'s), the order of siblings is left out.
- Image uploads of the user and tenant sheets, filters and retention sheet of
  the logs, sign keys, change of password, statistics, monitor, remote upload
  with its retries, the HTTP layer, vendored components and everything that is
  presentation only.

## Running

From this directory, `tlc -config NotificationRules.cfg MCNotificationRules`
and so on for each row of the table; `console` takes about two and a half
minutes with two workers. `tlapm` on each `*Proofs` module checks its proofs.
